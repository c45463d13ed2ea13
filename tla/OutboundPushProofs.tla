-------------------------- MODULE OutboundPushProofs --------------------------
(***************************************************************************)
(* Proofs about the outbound mirror, for every set of queue files and every *)
(* bound.                                                                  *)
(***************************************************************************)
EXTENDS OutboundPush, FiniteSetTheorems, TLAPS

\* The requests left after the card was read: an update comes first, a retro
\* last, and each is there because the card lacks it.
OrderedRest(t, l, card) ==
    /\ \A i \in 1..Len(t) :
         /\ t[i] \in {"update", "move", "retro"}
         /\ t[i] = "update" => i = 1
         /\ t[i] = "retro" => i = Len(t) /\ card.retros = 0
    /\ t[1] # "update" => card.rev = l.rev

InChain(c, q) == \E i \in 1..Len(q) : q[i] = c

\* A caller past its first request has the chain of its card.
Midway(c) ==
    LET k == call[c].local.ext
    IN /\ Head(queue[k]) = c
       /\ OrderedRest(call[c].todo, call[c].local, remote[k])

Plan(c) ==
    /\ call[c].local \in Doc
    /\ call[c].local.rev <= edits
    /\ call[c].local.ext <= Len(remote)
    /\ call[c].todo # <<>>
    /\ InChain(c, queue[call[c].local.ext])
    /\ IF call[c].local.ext = 0
         THEN call[c].todo = <<"create">>
         ELSE call[c].todo = <<"read">> \/ Midway(c)

CallsOK == \A c \in Callers : call[c] = Idle \/ Plan(c)

\* What a busy caller, an armed timer and a queue file say of each other.
Carried ==
    /\ call["push"] # Idle => slot # <<>>
    /\ \A e \in Entries :
         /\ call[e] # Idle => file[e] # 0
         /\ e \in armed => file[e] # 0 /\ call[e] = Idle

\* Cards come from lost creates, and from the callers that had found the
\* issue unbound.
Unbound == {c \in Callers : call[c] # Idle /\ call[c].local.ext = 0}
CardsCounted ==
    Len(remote) + (IF disk.ext = 0 THEN 0 ELSE Cardinality(Unbound))
      <= faults + (IF disk.ext = 0 THEN 0 ELSE Cardinality(Callers))

\* No document of the worker is newer than the last edit.
RevsKnown ==
    /\ disk.rev <= edits /\ disk.ext <= Len(remote)
    /\ skip.rev <= edits /\ cache.rev <= edits
    /\ \A i \in 1..Len(slot) : slot[i].rev <= edits

\* A lag nobody is working on is one reconcile has still to see.
LagSeen ==
    (/\ Shown # disk.rev /\ excuse = {}
     /\ slot = <<>> /\ \A e \in Entries : file[e] = 0)
      => skip # disk /\ cache # disk /\ (watch \/ ~closed)

FaultsBounded == faults \in 0..MaxFaults

IInv ==
    /\ TypeOK /\ FaultsBounded /\ CallsOK /\ Carried /\ CardsCounted
    /\ RevsKnown /\ LagSeen /\ OneRetro /\ BreakerCostsNoAttempt

-----------------------------------------------------------------------------
(* The requests of one call. *)

\* What a concatenation holds.
LEMMA ConcatAt ==
    ASSUME NEW S, NEW s \in Seq(S), NEW t \in Seq(S)
    PROVE  /\ s \o t \in Seq(S) /\ Len(s \o t) = Len(s) + Len(t)
           /\ \A i \in 1..Len(s \o t) :
                (s \o t)[i] = IF i <= Len(s) THEN s[i] ELSE t[i - Len(s)]
OBVIOUS

\* The plan a read leaves is ordered, and lacks an update only when the card
\* already shows the content.
LEMMA WritesPlan ==
    ASSUME BoundsAssumption, NEW c \in Callers, NEW card \in Card
    PROVE  /\ Writes(c, card) \in Seq(Requests)
           /\ OrderedRest(Writes(c, card), call[c].local, card)
           /\ Writes(c, card) = <<>> => card.rev = call[c].local.rev
<1> DEFINE l == call[c].local
           u == IF card.rev # l.rev THEN <<"update">> ELSE <<>>
           m == IF c = "push" /\ card.list # l.rev THEN <<"move">> ELSE <<>>
           r == IF l.done /\ card.retros = 0 THEN <<"retro">> ELSE <<>>
           um == u \o m
<1>1. Writes(c, card) = um \o r
  BY DEF Writes
<1>u. (card.rev # l.rev /\ u = <<"update">>) \/ (card.rev = l.rev /\ u = <<>>)
  OBVIOUS
<1>m. m = <<"move">> \/ m = <<>>
  OBVIOUS
<1>r. (card.retros = 0 /\ r = <<"retro">>) \/ r = <<>>
  OBVIOUS
<1> HIDE DEF u, m, r
<1>s. /\ <<"update">> \in Seq(Requests) /\ <<"move">> \in Seq(Requests)
      /\ <<"retro">> \in Seq(Requests) /\ <<>> \in Seq(Requests)
  BY DEF Requests
<1>2. u \in Seq(Requests) /\ Len(u) \in {0, 1}
  BY <1>u, <1>s
<1>2a. Len(u) = 1 => u[1] = "update"
  BY <1>u
<1>2b. Len(u) = 0 => card.rev = l.rev
  BY <1>u
<1>3. m \in Seq(Requests) /\ Len(m) \in {0, 1}
  BY <1>m, <1>s
<1>3a. Len(m) = 1 => m[1] = "move"
  BY <1>m
<1>4. r \in Seq(Requests) /\ Len(r) \in {0, 1}
  BY <1>r, <1>s
<1>4a. Len(r) = 1 => r[1] = "retro" /\ card.retros = 0
  BY <1>r
<1>5. /\ um \in Seq(Requests) /\ Len(um) = Len(u) + Len(m)
      /\ \A i \in 1..Len(um) : um[i] = IF i <= Len(u) THEN u[i] ELSE m[i - Len(u)]
  BY <1>2, <1>3, ConcatAt
<1>6. \A i \in 1..Len(um) : um[i] \in {"update", "move"} /\ (um[i] = "update" => i = 1)
  BY <1>2, <1>2a, <1>2b, <1>3, <1>3a, <1>5
<1>7. Len(um) = 0 \/ um[1] # "update" => card.rev = l.rev
  BY <1>2, <1>2a, <1>2b, <1>3, <1>3a, <1>5
<1> HIDE DEF um
<1>q. um \in Seq(Requests) /\ r \in Seq(Requests)
  BY <1>4, <1>5
<1>8. /\ um \o r \in Seq(Requests) /\ Len(um \o r) = Len(um) + Len(r)
      /\ \A i \in 1..Len(um \o r) :
           (um \o r)[i] = IF i <= Len(um) THEN um[i] ELSE r[i - Len(um)]
  BY <1>q, ConcatAt
<1> DEFINE w == um \o r
<1> HIDE DEF w
<1>9. Len(w) = Len(um) + Len(r) /\ \A i \in 1..Len(w) :
           w[i] = IF i <= Len(um) THEN um[i] ELSE r[i - Len(um)]
  BY <1>8 DEF w
<1>10. ASSUME NEW i \in 1..Len(w)
       PROVE  /\ w[i] \in {"update", "move", "retro"}
              /\ w[i] = "update" => i = 1
              /\ w[i] = "retro" => i = Len(w) /\ card.retros = 0
  <2>1. CASE i <= Len(um)
    BY <2>1, <1>6, <1>9, <1>5
  <2>2. CASE i > Len(um)
    <3>1. i = Len(um) + 1 /\ Len(r) = 1 /\ i = Len(w)
      BY <2>2, <1>4, <1>5, <1>9
    <3>2. w[i] = r[i - Len(um)] /\ i - Len(um) = 1
      BY <3>1, <2>2, <1>9, <1>5
    <3>3. w[i] = "retro" /\ card.retros = 0
      BY <3>1, <3>2, <1>4a
    <3> QED
      BY <3>1, <3>3
  <2> QED
    BY <2>1, <2>2, <1>5
<1>11. w[1] # "update" => card.rev = l.rev
  <2>1. CASE Len(um) = 0
    BY <2>1, <1>7
  <2>2. CASE Len(um) # 0
    <3>1. w[1] = um[1]
      BY <2>2, <1>5, <1>9, <1>4
    <3> QED
      BY <3>1, <1>7
  <2> QED
    BY <2>1, <2>2
<1>12. w = <<>> => card.rev = l.rev
  <2>1. w = <<>> => Len(um) = 0
    BY <1>9, <1>5, <1>4
  <2> QED
    BY <2>1, <1>7
<1> QED
  BY <1>1, <1>8, <1>10, <1>11, <1>12 DEF OrderedRest, w

\* The types of a caller's snapshot and plan.
LEMMA CallTypes ==
    ASSUME TypeOK, NEW c \in Callers
    PROVE  /\ call[c].local \in Doc \cup {NoDoc}
           /\ call[c].todo \in Seq(Requests)
BY DEF TypeOK

\* The three states of a call, by its next request.
LEMMA PlanCases ==
    ASSUME BoundsAssumption, TypeOK, NEW c \in Callers, Plan(c)
    PROVE  LET l == call[c].local
               t == call[c].todo
           IN \/ l.ext = 0 /\ t = <<"create">>
              \/ /\ l.ext \in 1..Len(remote) /\ t = <<"read">>
              \/ /\ l.ext \in 1..Len(remote) /\ Midway(c)
                 /\ t \in Seq(Requests) /\ t # <<>>
                 /\ Head(t) = t[1] /\ Len(t) \in Nat /\ Len(t) >= 1
                 /\ t[1] \in {"update", "move", "retro"}
<1>1. call[c].local.ext \in Nat
  BY DEF Plan, Doc
<1>2. call[c].todo \in Seq(Requests) /\ call[c].todo # <<>>
  BY CallTypes DEF Plan
<1>3. /\ Len(call[c].todo) \in Nat /\ Len(call[c].todo) >= 1
      /\ Head(call[c].todo) = call[c].todo[1]
  BY <1>2
<1>4. remote \in Seq(Card)
  BY DEF TypeOK
<1>5. call[c].local.ext # 0 => call[c].local.ext \in 1..Len(remote)
  BY <1>1, <1>4 DEF Plan
<1>6. Midway(c) => call[c].todo[1] \in {"update", "move", "retro"}
  BY <1>3 DEF Midway, OrderedRest
<1> QED
  BY <1>2, <1>3, <1>5, <1>6 DEF Plan

\* A request touches the card of its call only, or adds one.
LEMMA AppliedCards ==
    ASSUME BoundsAssumption, TypeOK, OneRetro, NEW c \in Callers, Plan(c)
    PROVE  /\ Applied(c) \in Seq(Card)
           /\ Len(Applied(c)) = Len(remote) + (IF call[c].local.ext = 0 THEN 1 ELSE 0)
           /\ \A i \in 1..Len(remote) :
                i # call[c].local.ext => Applied(c)[i] = remote[i]
           /\ \A i \in 1..Len(Applied(c)) : Applied(c)[i].retros <= 1
           /\ call[c].local.ext = 0 =>
                Applied(c)[Len(Applied(c))].rev = call[c].local.rev
<1> DEFINE l == call[c].local
           t == call[c].todo
<1>1. remote \in Seq(Card) /\ l.rev \in 1..MaxRev /\ l.rev \in 0..MaxRev
  BY DEF TypeOK, Plan, Doc, BoundsAssumption
<1>2. \A i \in 1..Len(remote) : remote[i] \in Card /\ remote[i].retros <= 1
  BY <1>1 DEF OneRetro
<1>3. CASE l.ext = 0 /\ t = <<"create">>
  <2> DEFINE new == [rev |-> l.rev, list |-> 0, retros |-> 0]
  <2>1. Applied(c) = Append(remote, new)
    BY <1>3 DEF Applied
  <2>2. new \in Card /\ new.rev = l.rev /\ new.retros = 0
    BY <1>1 DEF Card
  <2> HIDE DEF new
  <2>3. /\ Append(remote, new) \in Seq(Card)
        /\ Len(Append(remote, new)) = Len(remote) + 1
        /\ \A i \in 1..Len(remote) : Append(remote, new)[i] = remote[i]
        /\ Append(remote, new)[Len(remote) + 1] = new
    BY <1>1, <2>2
  <2>4. \A i \in 1..Len(remote) + 1 : i \in 1..Len(remote) \/ i = Len(remote) + 1
    BY <1>1
  <2> QED
    BY <1>2, <1>3, <2>1, <2>2, <2>3, <2>4
<1>4. CASE l.ext \in 1..Len(remote) /\ t = <<"read">>
  BY <1>1, <1>2, <1>4 DEF Applied
<1>5. CASE /\ l.ext \in 1..Len(remote) /\ Midway(c)
           /\ t \in Seq(Requests) /\ t # <<>>
           /\ Head(t) = t[1] /\ Len(t) \in Nat /\ Len(t) >= 1
           /\ t[1] \in {"update", "move", "retro"}
  <2>1. remote[l.ext] \in Card /\ l.ext # 0
    BY <1>1, <1>2, <1>5
  <2>2. PICK card \in Card :
          /\ Applied(c) = [remote EXCEPT ![l.ext] = card]
          /\ card.retros <= 1
    <3>1. CASE t[1] = "update"
      <4>1. Applied(c) = [remote EXCEPT ![l.ext] = [remote[l.ext] EXCEPT !.rev = l.rev]]
        BY <1>5, <3>1 DEF Applied
      <4>2. [remote[l.ext] EXCEPT !.rev = l.rev] \in Card
        BY <2>1, <1>1 DEF Card
      <4>3. [remote[l.ext] EXCEPT !.rev = l.rev].retros = remote[l.ext].retros
        BY <2>1 DEF Card
      <4> QED
        BY <4>1, <4>2, <4>3, <1>2, <1>5
    <3>2. CASE t[1] = "move"
      <4>1. Applied(c) = [remote EXCEPT ![l.ext] = [remote[l.ext] EXCEPT !.list = l.rev]]
        BY <1>5, <3>2 DEF Applied
      <4>2. [remote[l.ext] EXCEPT !.list = l.rev] \in Card
        BY <2>1, <1>1 DEF Card
      <4>3. [remote[l.ext] EXCEPT !.list = l.rev].retros = remote[l.ext].retros
        BY <2>1 DEF Card
      <4> QED
        BY <4>1, <4>2, <4>3, <1>2, <1>5
    <3>3. CASE t[1] = "retro"
      <4> DEFINE new == [remote[l.ext] EXCEPT !.retros = remote[l.ext].retros + 1]
      <4>1. Applied(c) = [remote EXCEPT ![l.ext] = new]
        BY <1>5, <3>3 DEF Applied
      <4>2. remote[l.ext].retros = 0
        BY <1>5, <3>3 DEF Midway, OrderedRest
      <4>3. new \in Card /\ new.retros = 1
        BY <2>1, <4>2 DEF Card
      <4>4. new.retros <= 1
        BY <4>3
      <4> HIDE DEF new
      <4> QED
        BY <4>1, <4>3, <4>4
    <3> QED
      BY <1>5, <3>1, <3>2, <3>3
  <2>3. /\ [remote EXCEPT ![l.ext] = card] \in Seq(Card)
        /\ Len([remote EXCEPT ![l.ext] = card]) = Len(remote)
        /\ \A i \in 1..Len(remote) :
             [remote EXCEPT ![l.ext] = card][i] = IF i = l.ext THEN card ELSE remote[i]
    BY <1>1, <1>5
  <2> QED
    BY <1>1, <1>2, <2>1, <2>2, <2>3
<1> QED
  BY <1>3, <1>4, <1>5, PlanCases

\* What a call still has to do once the tracker has carried out its request,
\* and what the card shows when nothing is left.
LEMMA RestPlan ==
    ASSUME BoundsAssumption, TypeOK, OneRetro, NEW c \in Callers, Plan(c)
    PROVE  LET l == call[c].local
           IN /\ Rest(c) \in Seq(Requests)
              /\ Rest(c) # <<>> => /\ l.ext \in 1..Len(remote)
                                   /\ OrderedRest(Rest(c), l, Applied(c)[l.ext])
              /\ Rest(c) = <<>> /\ l.ext # 0 => Applied(c)[l.ext].rev = l.rev
<1> DEFINE l == call[c].local
           t == call[c].todo
<1>1. remote \in Seq(Card)
  BY DEF TypeOK
<1>2. \A i \in 1..Len(remote) : remote[i] \in Card
  BY <1>1
<1>3. CASE l.ext = 0 /\ t = <<"create">>
  <2>1. Rest(c) = <<>>
    BY <1>3 DEF Rest
  <2> QED
    BY <1>3, <2>1
<1>4. CASE l.ext \in 1..Len(remote) /\ t = <<"read">>
  <2>1. Rest(c) = Writes(c, remote[l.ext]) /\ Applied(c) = remote
    BY <1>4 DEF Rest, Applied
  <2>2. remote[l.ext] \in Card
    BY <1>2, <1>4
  <2> QED
    BY <1>4, <2>1, <2>2, WritesPlan
<1>5. CASE /\ l.ext \in 1..Len(remote) /\ Midway(c)
           /\ t \in Seq(Requests) /\ t # <<>>
           /\ Head(t) = t[1] /\ Len(t) \in Nat /\ Len(t) >= 1
           /\ t[1] \in {"update", "move", "retro"}
  <2>1. Rest(c) = Tail(t)
    BY <1>5 DEF Rest
  <2>2. /\ Tail(t) \in Seq(Requests) /\ Len(Tail(t)) = Len(t) - 1
        /\ \A i \in 1..Len(Tail(t)) : Tail(t)[i] = t[i + 1]
    BY <1>5
  <2> DEFINE card == Applied(c)[l.ext]
             old == remote[l.ext]
  <2>3. old \in Card
    BY <1>2, <1>5
  <2>4. OrderedRest(t, l, old)
    BY <1>5 DEF Midway
  <2>5. /\ card.rev = l.rev
        /\ t[1] # "retro" => card.retros = old.retros
    <3>1. CASE t[1] = "update"
      <4> DEFINE new == [remote[l.ext] EXCEPT !.rev = l.rev]
      <4>1. Applied(c) = [remote EXCEPT ![l.ext] = new]
        BY <1>5, <3>1 DEF Applied
      <4>2. new.rev = l.rev /\ new.retros = old.retros
        BY <2>3, <2>4, <3>1 DEF Card, OrderedRest
      <4> HIDE DEF new
      <4>3. card = new
        BY <1>1, <1>5, <4>1
      <4> QED
        BY <3>1, <4>2, <4>3
    <3>2. CASE t[1] = "move"
      <4> DEFINE new == [remote[l.ext] EXCEPT !.list = l.rev]
      <4>1. Applied(c) = [remote EXCEPT ![l.ext] = new]
        BY <1>5, <3>2 DEF Applied
      <4>2. new.rev = l.rev /\ new.retros = old.retros
        BY <2>3, <2>4, <3>2 DEF Card, OrderedRest
      <4> HIDE DEF new
      <4>3. card = new
        BY <1>1, <1>5, <4>1
      <4> QED
        BY <3>2, <4>2, <4>3
    <3>3. CASE t[1] = "retro"
      <4> DEFINE new == [remote[l.ext] EXCEPT !.retros = remote[l.ext].retros + 1]
      <4>1. Applied(c) = [remote EXCEPT ![l.ext] = new]
        BY <1>5, <3>3 DEF Applied
      <4>2. new.rev = l.rev
        BY <2>3, <2>4, <3>3 DEF Card, OrderedRest
      <4> HIDE DEF new
      <4>3. card = new
        BY <1>1, <1>5, <4>1
      <4> QED
        BY <3>3, <4>2, <4>3
    <3> QED
      BY <1>5, <3>1, <3>2, <3>3
  <2> HIDE DEF card, old
  <2>6. ASSUME NEW i \in 1..Len(Tail(t))
        PROVE  /\ Tail(t)[i] \in {"update", "move", "retro"}
               /\ Tail(t)[i] # "update"
               /\ Tail(t)[i] = "retro" => i = Len(Tail(t)) /\ card.retros = 0
    <3>1. /\ i \in Nat /\ i >= 1 /\ i + 1 \in 1..Len(t) /\ i + 1 # 1 /\ 1 # Len(t)
          /\ 1 \in 1..Len(t)
      BY <1>5, <2>2
    <3>2. Tail(t)[i] = t[i + 1]
      BY <2>2
    <3>3. t[1] # "retro"
      BY <3>1, <2>4 DEF OrderedRest
    <3>4. t[i + 1] \in {"update", "move", "retro"} /\ t[i + 1] # "update"
      BY <3>1, <2>4 DEF OrderedRest
    <3>5. t[i + 1] = "retro" => i + 1 = Len(t) /\ old.retros = 0
      BY <3>1, <2>4 DEF OrderedRest
    <3>6. i + 1 = Len(t) => i = Len(Tail(t))
      BY <3>1, <2>2, <1>5
    <3> QED
      BY <3>2, <3>3, <3>4, <3>5, <3>6, <2>5
  <2>7. OrderedRest(Tail(t), l, card)
    BY <2>5, <2>6 DEF OrderedRest
  <2> QED
    BY <1>5, <2>1, <2>2, <2>5, <2>7 DEF card
<1> QED
  BY <1>3, <1>4, <1>5, PlanCases

-----------------------------------------------------------------------------
(* The calls, their chains and the tracker's cards. *)

\* A call's plan survives whatever leaves its card and its chain's head alone.
LEMMA PlanKept ==
    ASSUME BoundsAssumption, TypeOK, NEW d \in Callers, Plan(d),
           call'[d] = call[d], edits <= edits', edits' \in Nat,
           remote' \in Seq(Card), Len(remote) <= Len(remote'),
           InChain(d, queue'[call[d].local.ext]),
           Midway(d) => /\ Head(queue'[call[d].local.ext]) = d
                        /\ remote'[call[d].local.ext] = remote[call[d].local.ext]
    PROVE  Plan(d)'
<1>1. /\ call[d].local.rev \in Nat /\ call[d].local.ext \in Nat
      /\ edits \in Nat /\ Len(remote) \in Nat /\ Len(remote') \in Nat
  BY DEF TypeOK, Plan, Doc, BoundsAssumption
<1>2. Midway(d) => Midway(d)'
  BY DEF Midway
<1> QED
  BY <1>1, <1>2 DEF Plan

\* A call begins with the document on disk, last in the chain of its card.
LEMMA BeginCalls ==
    ASSUME BoundsAssumption, TypeOK, CallsOK, RevsKnown,
           NEW c \in Callers, call[c] = Idle, Begin(c), UNCHANGED <<remote, edits>>
    PROVE  CallsOK'
<1> DEFINE k == disk.ext
<1>1. /\ disk \in Doc /\ k \in 0..MaxCards /\ queue \in [0..MaxCards -> Seq(Callers)]
      /\ remote \in Seq(Card) /\ edits \in Nat /\ call \in [Callers ->
            [local: Doc \cup {NoDoc}, todo: Seq(Requests)]]
  BY DEF TypeOK, Doc, BoundsAssumption
<1>2. queue[k] \in Seq(Callers)
  BY <1>1
<1>3. queue' = [queue EXCEPT ![k] = Append(queue[k], c)]
  BY DEF Begin
<1>4. /\ call'[c] = [local |-> disk,
                     todo |-> IF disk.ext = 0 THEN <<"create">> ELSE <<"read">>]
      /\ \A d \in Callers \ {c} : call'[d] = call[d]
  BY <1>1 DEF Begin
<1>5. \A q, j : q = queue[j] /\ j \in 0..MaxCards /\ j # k => queue'[j] = q
  BY <1>1, <1>3
<1>6. queue'[k] = Append(queue[k], c)
  BY <1>1, <1>3
<1>7. Plan(c)'
  <2>1. InChain(c, queue'[k])
    <3>1. /\ Len(queue[k]) + 1 \in 1..Len(Append(queue[k], c))
          /\ Append(queue[k], c)[Len(queue[k]) + 1] = c
      BY <1>2
    <3> QED
      BY <3>1, <1>6 DEF InChain
  <2>2. call'[c].todo # <<>> /\ call'[c].local = disk
    BY <1>4
  <2>3. IF call'[c].local.ext = 0 THEN call'[c].todo = <<"create">> ELSE call'[c].todo = <<"read">>
    BY <1>4
  <2> QED
    BY <1>1, <2>1, <2>2, <2>3 DEF Plan, RevsKnown
<1>8. ASSUME NEW d \in Callers \ {c}, call[d] # Idle
      PROVE  Plan(d)'
  <2> DEFINE j == call[d].local.ext
  <2>1. Plan(d)
    BY <1>8 DEF CallsOK
  <2>2. j \in 0..MaxCards
    BY <2>1 DEF Plan, Doc
  <2>3. queue[j] \in Seq(Callers)
    BY <1>1, <2>2
  <2>4. PICK i \in 1..Len(queue[j]) : queue[j][i] = d
    BY <2>1 DEF Plan, InChain
  <2>5. /\ i \in 1..Len(queue'[j]) /\ queue'[j][i] = d
        /\ Head(queue'[j]) = Head(queue[j])
    <3>1. CASE j = k
      BY <1>6, <2>3, <2>4, <3>1
    <3>2. CASE j # k
      BY <1>5, <2>2, <2>4, <3>2
    <3> QED
      BY <3>1, <3>2
  <2>6. InChain(d, queue'[j])
    BY <2>5 DEF InChain
  <2> QED
    BY <1>1, <1>4, <2>1, <2>5, <2>6, PlanKept DEF Midway
<1> QED
  BY <1>4, <1>7, <1>8 DEF CallsOK

\* The call whose turn it is is the only one of its chain under way.
LEMMA OthersWait ==
    ASSUME BoundsAssumption, TypeOK, CallsOK, OneRetro, NEW c \in Callers, Turn(c),
           remote' \in {remote, Applied(c)}, NEW d \in Callers \ {c}, Plan(d)
    PROVE  /\ Plan(c)
           /\ remote' \in Seq(Card) /\ Len(remote) <= Len(remote')
           /\ Midway(d) => /\ call[d].local.ext # call[c].local.ext
                           /\ remote'[call[d].local.ext] = remote[call[d].local.ext]
<1>1. Plan(c)
  BY DEF CallsOK, Turn, Idle
<1>2. remote \in Seq(Card)
  BY DEF TypeOK
<1>3. remote' \in Seq(Card) /\ Len(remote) <= Len(remote')
  <2>1. Len(remote) \in Nat
    BY <1>2
  <2> QED
    BY <1>1, <1>2, <2>1, AppliedCards
<1>4. Midway(d) => call[d].local.ext # call[c].local.ext
  BY DEF Midway, Turn
<1>5. Midway(d) => call[d].local.ext \in 1..Len(remote)
  BY PlanCases DEF Midway, OrderedRest
<1> QED
  BY <1>1, <1>3, <1>4, <1>5, AppliedCards

\* An answered request leaves a plan for the rest.
LEMMA GoOnCalls ==
    ASSUME BoundsAssumption, TypeOK, CallsOK, OneRetro, NEW c \in Callers, Turn(c),
           remote' = Applied(c), Rest(c) # <<>>,
           call' = [call EXCEPT ![c].todo = Rest(c)], UNCHANGED <<queue, edits>>
    PROVE  CallsOK' /\ call'[c] # Idle
<1>1. Plan(c)
  BY DEF CallsOK, Turn, Idle
<1>2. /\ edits \in Nat /\ remote \in Seq(Card)
      /\ call \in [Callers -> [local: Doc \cup {NoDoc}, todo: Seq(Requests)]]
  BY DEF TypeOK, BoundsAssumption
<1>3. /\ call'[c].local = call[c].local /\ call'[c].todo = Rest(c)
      /\ \A d \in Callers \ {c} : call'[d] = call[d]
  BY <1>2
<1>4. /\ call[c].local.ext \in 1..Len(remote)
      /\ OrderedRest(Rest(c), call[c].local, Applied(c)[call[c].local.ext])
  BY <1>1, RestPlan
<1>5. Len(remote') = Len(remote) /\ Len(remote) \in Nat /\ call[c].local.ext # 0
  BY <1>1, <1>2, <1>4, AppliedCards
<1>6. Midway(c)'
  BY <1>3, <1>4 DEF Midway, Turn
<1>7. Plan(c)'
  BY <1>1, <1>3, <1>5, <1>6 DEF Plan
<1>8. ASSUME NEW d \in Callers \ {c}, call[d] # Idle
      PROVE  Plan(d)'
  <2>1. Plan(d)
    BY <1>8 DEF CallsOK
  <2>2. InChain(d, queue'[call[d].local.ext])
    BY <2>1 DEF Plan
  <2>3. /\ remote' \in Seq(Card) /\ Len(remote) <= Len(remote')
        /\ Midway(d) => remote'[call[d].local.ext] = remote[call[d].local.ext]
    BY <2>1, OthersWait
  <2>4. Midway(d) => Head(queue'[call[d].local.ext]) = d
    BY DEF Midway
  <2>5. call'[d] = call[d] /\ edits' \in Nat /\ edits <= edits'
    BY <1>2, <1>3
  <2> QED
    BY <2>1, <2>2, <2>3, <2>4, <2>5, PlanKept
<1> QED
  BY <1>3, <1>7, <1>8 DEF CallsOK, Idle

\* A call that ends hands the chain to the next one.
LEMMA LeaveCalls ==
    ASSUME BoundsAssumption, TypeOK, CallsOK, OneRetro, NEW c \in Callers, Turn(c),
           remote' \in {remote, Applied(c)}, Leave(c), UNCHANGED edits
    PROVE  /\ CallsOK'
           /\ call'[c] = Idle /\ \A d \in Callers \ {c} : call'[d] = call[d]
           /\ queue' \in [0..MaxCards -> Seq(Callers)]
           /\ call' \in [Callers -> [local: Doc \cup {NoDoc}, todo: Seq(Requests)]]
<1> DEFINE k == call[c].local.ext
<1>1. Plan(c)
  BY DEF CallsOK, Turn, Idle
<1>2. /\ edits \in Nat /\ remote \in Seq(Card) /\ queue \in [0..MaxCards -> Seq(Callers)]
      /\ call \in [Callers -> [local: Doc \cup {NoDoc}, todo: Seq(Requests)]]
  BY DEF TypeOK, BoundsAssumption
<1>3. Idle \in [local: Doc \cup {NoDoc}, todo: Seq(Requests)]
  BY DEF Idle
<1>4. /\ call'[c] = Idle /\ \A d \in Callers \ {c} : call'[d] = call[d]
      /\ call' \in [Callers -> [local: Doc \cup {NoDoc}, todo: Seq(Requests)]]
  BY <1>2, <1>3 DEF Leave
<1>5. k \in 0..MaxCards
  BY <1>1 DEF Plan, Doc
<1>6. queue[k] \in Seq(Callers) /\ queue[k] # <<>>
  BY <1>1, <1>2, <1>5 DEF Plan, InChain
<1>7. queue' = [queue EXCEPT ![k] = Tail(queue[k])]
  BY DEF Leave
<1>8. /\ Tail(queue[k]) \in Seq(Callers) /\ Len(Tail(queue[k])) = Len(queue[k]) - 1
      /\ \A i \in 1..Len(queue[k]) - 1 : Tail(queue[k])[i] = queue[k][i + 1]
  BY <1>6
<1>9. queue' \in [0..MaxCards -> Seq(Callers)] /\ queue'[k] = Tail(queue[k])
  BY <1>2, <1>5, <1>7, <1>8
<1>10. ASSUME NEW d \in Callers \ {c}, call[d] # Idle
       PROVE  Plan(d)'
  <2> DEFINE j == call[d].local.ext
  <2>1. Plan(d)
    BY <1>10 DEF CallsOK
  <2>2. j \in 0..MaxCards
    BY <2>1 DEF Plan, Doc
  <2>3. j # k => queue'[j] = queue[j]
    BY <1>2, <1>7, <2>2
  <2>4. InChain(d, queue'[j])
    <3>1. CASE j # k
      BY <2>1, <2>3, <3>1 DEF Plan
    <3>2. CASE j = k
      <4>1. PICK i \in 1..Len(queue[k]) : queue[k][i] = d
        BY <2>1, <3>2 DEF Plan, InChain
      <4>2. queue[k][1] = c
        BY <1>6 DEF Turn
      <4>3. i - 1 \in 1..Len(queue[k]) - 1 /\ (i - 1) + 1 = i
        BY <1>6, <4>1, <4>2
      <4>4. Tail(queue[k])[i - 1] = d /\ i - 1 \in 1..Len(Tail(queue[k]))
        BY <1>8, <4>1, <4>3
      <4> QED
        BY <1>9, <3>2, <4>4 DEF InChain
    <3> QED
      BY <3>1, <3>2
  <2>5. /\ remote' \in Seq(Card) /\ Len(remote) <= Len(remote')
        /\ Midway(d) => j # k /\ remote'[j] = remote[j]
    BY <2>1, OthersWait
  <2> QED
    BY <1>2, <1>4, <2>1, <2>3, <2>4, <2>5, PlanKept DEF Midway
<1> QED
  BY <1>4, <1>9, <1>10 DEF CallsOK

\* CallsOK is untouched by a step that leaves the calls, the chains and the
\* cards alone.
LEMMA CallsKept ==
    ASSUME BoundsAssumption, TypeOK, CallsOK, UNCHANGED <<call, queue, remote>>,
           edits' \in Nat, edits <= edits'
    PROVE  CallsOK'
<1>1. /\ call' = call /\ queue' = queue /\ remote' = remote
      /\ remote' \in Seq(Card) /\ Len(remote) <= Len(remote')
  BY DEF TypeOK
<1>2. ASSUME NEW d \in Callers, call[d] # Idle
      PROVE  Plan(d)'
  <2>1. Plan(d) /\ InChain(d, queue'[call[d].local.ext])
    BY <1>1, <1>2 DEF CallsOK, Plan
  <2>2. call[d].local.rev \in Nat /\ edits \in Nat
    BY <2>1 DEF Plan, Doc, TypeOK, BoundsAssumption
  <2>3. call[d].local.rev <= edits'
    BY <2>1, <2>2 DEF Plan
  <2> QED
    BY <1>1, <2>1, <2>3 DEF Plan, Midway
<1> QED
  BY <1>1, <1>2 DEF CallsOK

-----------------------------------------------------------------------------
(* How many cards the tracker can come to hold. *)

LEMMA CallersFinite ==
    ASSUME BoundsAssumption
    PROVE  /\ IsFiniteSet(Callers) /\ Cardinality(Callers) \in Nat /\ MaxCards \in Nat
           /\ \A U \in SUBSET Callers :
                IsFiniteSet(U) /\ Cardinality(U) \in Nat /\ Cardinality(U) <= Cardinality(Callers)
<1>1. IsFiniteSet(Callers)
  BY FS_AddElement DEF Callers, BoundsAssumption
<1>2. Cardinality(Callers) \in Nat
  BY <1>1, FS_CardinalityType
<1>3. ASSUME NEW U \in SUBSET Callers
      PROVE  IsFiniteSet(U) /\ Cardinality(U) \in Nat /\ Cardinality(U) <= Cardinality(Callers)
  BY <1>1, FS_Subset, FS_CardinalityType
<1> QED
  BY <1>1, <1>2, <1>3 DEF MaxCards, BoundsAssumption

\* A call that ends takes its caller out of those that found no card.
LEMMA UnboundLess ==
    ASSUME BoundsAssumption, NEW c \in Callers, call'[c] = Idle,
           \A d \in Callers \ {c} : call'[d] = call[d]
    PROVE  /\ Cardinality(Unbound') <= Cardinality(Unbound)
           /\ c \in Unbound => Cardinality(Unbound') + 1 = Cardinality(Unbound)
<1>1. Unbound' = Unbound \ {c}
  BY DEF Unbound
<1>2. Unbound \in SUBSET Callers
  BY DEF Unbound
<1>3. IsFiniteSet(Unbound) /\ Cardinality(Unbound) \in Nat
  BY <1>2, CallersFinite
<1>4. CASE c \in Unbound
  <2>1. Cardinality(Unbound \ {c}) = Cardinality(Unbound) - 1
    BY <1>3, <1>4, FS_RemoveElement
  <2> QED
    BY <1>1, <1>3, <2>1
<1>5. CASE c \notin Unbound
  <2>1. Unbound' = Unbound
    BY <1>1, <1>5
  <2> QED
    BY <1>3, <1>5, <2>1
<1> QED
  BY <1>4, <1>5

\* The cards stay counted while calls, cards and the binding do.
LEMMA CountKept ==
    ASSUME BoundsAssumption, TypeOK, FaultsBounded, CardsCounted,
           UNCHANGED <<call, remote>>, disk'.ext = disk.ext,
           faults' \in Nat, faults <= faults'
    PROVE  CardsCounted'
<1>1. Unbound' = Unbound /\ Unbound \in SUBSET Callers
  BY DEF Unbound
<1>2. Cardinality(Unbound) \in Nat /\ Cardinality(Callers) \in Nat
  BY <1>1, CallersFinite
<1>3. Len(remote) \in Nat /\ remote' = remote /\ faults \in Nat
  BY DEF TypeOK, FaultsBounded
<1> QED
  BY <1>1, <1>2, <1>3 DEF CardsCounted

\* A call that begins for a bound issue adds no card to come.
LEMMA BeginCount ==
    ASSUME BoundsAssumption, TypeOK, CardsCounted, NEW c \in Callers, call[c] = Idle,
           Begin(c), UNCHANGED <<remote, faults, disk>>
    PROVE  CardsCounted'
<1>1. \A d \in Callers \ {c} : call'[d] = call[d]
  BY DEF Begin, TypeOK
<1>2. call'[c].local = disk
  BY DEF Begin, TypeOK
<1>3. CASE disk.ext = 0
  BY <1>3 DEF CardsCounted
<1>4. CASE disk.ext # 0
  <2>1. Unbound' = Unbound
    BY <1>1, <1>2, <1>4 DEF Unbound
  <2> QED
    BY <1>4, <2>1 DEF CardsCounted
<1> QED
  BY <1>3, <1>4

\* A request that fails adds a card at the price of a fault.
LEMMA FailCount ==
    ASSUME BoundsAssumption, TypeOK, FaultsBounded, CardsCounted, CallsOK, OneRetro,
           NEW c \in Callers, Turn(c), Leave(c), UNCHANGED <<disk, edits>>, faults' \in Nat,
           \/ remote' = remote /\ faults' >= faults
           \/ remote' = Applied(c) /\ faults' = faults + 1
    PROVE  CardsCounted'
<1>1. Plan(c)
  BY DEF CallsOK, Turn, Idle
<1>2. remote \in Seq(Card) /\ Len(remote) \in Nat /\ faults \in Nat
  BY DEF TypeOK, FaultsBounded
<1>3. Len(remote') \in Nat /\ Len(remote') - Len(remote) <= faults' - faults
  BY <1>1, <1>2, AppliedCards
<1>4. call'[c] = Idle /\ \A d \in Callers \ {c} : call'[d] = call[d]
  BY LeaveCalls
<1>5. /\ Cardinality(Unbound') <= Cardinality(Unbound)
      /\ Cardinality(Unbound) \in Nat /\ Cardinality(Unbound') \in Nat
      /\ Cardinality(Callers) \in Nat
  <2>1. Unbound \in SUBSET Callers /\ Unbound' \in SUBSET Callers
    BY DEF Unbound
  <2> QED
    BY <1>4, <2>1, UnboundLess, CallersFinite
<1> QED
  BY <1>2, <1>3, <1>5 DEF CardsCounted

\* A call that succeeds uses up the card it may have added.
LEMMA SuccessCount ==
    ASSUME BoundsAssumption, TypeOK, FaultsBounded, CardsCounted, CallsOK, OneRetro,
           NEW c \in Callers, Turn(c), Leave(c), remote' = Applied(c),
           UNCHANGED <<faults, edits>>, disk'.ext # 0
    PROVE  CardsCounted' /\ Len(remote') <= MaxCards
<1>1. Plan(c)
  BY DEF CallsOK, Turn, Idle
<1>2. remote \in Seq(Card) /\ Len(remote) \in Nat /\ faults \in Nat /\ faults <= MaxFaults
      /\ MaxFaults \in Nat
  BY DEF TypeOK, FaultsBounded, BoundsAssumption
<1>3. call'[c] = Idle /\ \A d \in Callers \ {c} : call'[d] = call[d]
  BY LeaveCalls
<1>4. Unbound \in SUBSET Callers /\ Unbound' \in SUBSET Callers
  BY DEF Unbound
<1>5. /\ Cardinality(Unbound') \in Nat /\ Cardinality(Unbound) \in Nat
      /\ Cardinality(Callers) \in Nat
      /\ Cardinality(Unbound) <= Cardinality(Callers)
      /\ Cardinality(Unbound') <= Cardinality(Unbound)
  BY <1>3, <1>4, UnboundLess, CallersFinite
<1>6. Len(remote') + Cardinality(Unbound') <= faults + Cardinality(Callers)
  <2>1. CASE call[c].local.ext = 0
    <3>1. c \in Unbound
      BY <2>1 DEF Unbound, Turn, Idle
    <3>2. Cardinality(Unbound') + 1 = Cardinality(Unbound)
      BY <1>3, <3>1, UnboundLess
    <3>3. Len(remote') = Len(remote) + 1
      BY <1>1, <2>1, AppliedCards
    <3> QED
      BY <1>2, <1>5, <3>2, <3>3 DEF CardsCounted
  <2>2. CASE call[c].local.ext # 0
    <3>1. Len(remote') = Len(remote)
      BY <1>1, <1>2, <2>2, AppliedCards
    <3> QED
      BY <1>2, <1>5, <3>1 DEF CardsCounted
  <2> QED
    BY <2>1, <2>2
<1>7. Len(remote') \in Nat
  BY <1>1, <1>2, AppliedCards
<1> QED
  BY <1>2, <1>5, <1>6, <1>7 DEF CardsCounted, MaxCards

-----------------------------------------------------------------------------
(* The steps. *)

\* The breaker, the fault counter and the switch touch nothing else.
LEMMA EnvironmentStep ==
    ASSUME BoundsAssumption, IInv, CooldownOver \/ OtherCardLimited \/ ToggleSync \/ Remap
    PROVE  IInv'
<1>1. /\ UNCHANGED <<disk, closed, file, edits, watch, skip, cache, slot, call, queue,
                     armed, remote, real, excuse>>
      /\ breaker' \in {"closed", "open", "half-open"}
      /\ faults' \in 0..MaxFaults /\ faults <= faults'
  BY DEF IInv, FaultsBounded, TypeOK, BoundsAssumption, CooldownOver, OtherCardLimited,
         ToggleSync, Remap, stored, process, bounds
<1>2. enabled' \in BOOLEAN
  <2>1. enabled' = enabled \/ enabled' = ~enabled
    BY DEF CooldownOver, OtherCardLimited, ToggleSync, Remap
  <2> QED
    BY <2>1 DEF IInv, TypeOK
<1>2a. private' \subseteq 1..MaxRev
  BY DEF IInv, TypeOK, CooldownOver, OtherCardLimited, ToggleSync, Remap
<1>3. TypeOK' /\ FaultsBounded'
  BY <1>1, <1>2, <1>2a DEF IInv, TypeOK, FaultsBounded
<1>4. CallsOK'
  <2>1. edits' \in Nat /\ edits <= edits'
    BY <1>1 DEF IInv, TypeOK
  <2> QED
    BY <1>1, <2>1, CallsKept DEF IInv
<1>5. CardsCounted'
  <2>1. faults' \in Nat
    BY <1>1 DEF BoundsAssumption
  <2> QED
    BY <1>1, <2>1, CountKept DEF IInv
<1>6. Carried' /\ RevsKnown' /\ LagSeen' /\ OneRetro' /\ BreakerCostsNoAttempt'
  BY <1>1 DEF IInv, Carried, RevsKnown, LagSeen, OneRetro, BreakerCostsNoAttempt, Shown
<1> QED
  BY <1>3, <1>4, <1>5, <1>6 DEF IInv

\* The documents the worker holds have revisions.
LEMMA DocRevs ==
    ASSUME BoundsAssumption, TypeOK
    PROVE  /\ disk.rev \in Nat /\ disk.rev # 0 /\ disk.ext \in Nat /\ disk \in Doc
           /\ skip.rev \in Nat /\ cache.rev \in Nat /\ edits \in Nat
           /\ slot \in Seq(Doc)
           /\ \A i \in 1..Len(slot) : slot[i] \in Doc /\ slot[i].rev \in Nat
<1>1. disk \in Doc /\ skip \in Doc \cup {NoDoc} /\ cache \in Doc \cup {NoDoc}
      /\ slot \in Seq(Doc) /\ edits \in Nat
  BY DEF TypeOK, BoundsAssumption
<1>2. \A d \in Doc \cup {NoDoc} : d.rev \in Nat
  BY DEF Doc, NoDoc
<1>3. \A i \in 1..Len(slot) : slot[i] \in Doc
  BY <1>1
<1>4. disk.rev # 0 /\ disk.ext \in Nat
  BY <1>1, CallersFinite DEF Doc
<1> QED
  BY <1>1, <1>2, <1>3, <1>4

LEMMA EditStep ==
    ASSUME BoundsAssumption, IInv, Edit
    PROVE  IInv'
<1> USE DEF IInv
<1>1. /\ UNCHANGED <<closed, file, skip, cache, slot, call, queue, armed, breaker, remote,
                     enabled, private, real, excuse, faults, events>>
      /\ edits' = edits + 1 /\ watch' = TRUE /\ edits < MaxRev
  BY DEF Edit, bounds
<1>2. PICK d \in BOOLEAN : disk' = [disk EXCEPT !.rev = edits + 1, !.done = d]
  BY DEF Edit
<1>3. edits' \in 1..MaxRev /\ edits \in Nat
  BY <1>1 DEF TypeOK, BoundsAssumption
<1>4. disk' \in Doc /\ disk'.rev = edits + 1 /\ disk'.ext = disk.ext
  BY <1>1, <1>2, <1>3 DEF TypeOK, Doc
<1>5. TypeOK' /\ FaultsBounded'
  BY <1>1, <1>3, <1>4 DEF TypeOK, FaultsBounded
<1>6. CallsOK'
  BY <1>1, <1>3, CallsKept
<1>7. CardsCounted'
  BY <1>1, <1>4, CountKept DEF FaultsBounded, BoundsAssumption
<1>8. Carried' /\ OneRetro' /\ BreakerCostsNoAttempt'
  BY <1>1 DEF Carried, OneRetro, BreakerCostsNoAttempt
<1>9. RevsKnown'
  BY <1>1, <1>4, DocRevs DEF RevsKnown
<1>10. LagSeen'
  <2>1. skip # disk' /\ cache # disk'
    BY <1>4, DocRevs DEF RevsKnown
  <2> QED
    BY <1>1, <2>1 DEF LagSeen
<1> QED
  BY <1>5, <1>6, <1>7, <1>8, <1>9, <1>10

LEMMA SkipReconcileStep ==
    ASSUME BoundsAssumption, IInv, SkipReconcile
    PROVE  IInv'
<1> USE DEF IInv
<1>1. /\ UNCHANGED <<disk, closed, file, edits, skip, cache, slot, call, queue, armed, breaker,
                     remote, enabled, private, real, excuse, faults, events>>
      /\ watch' = FALSE /\ skip = disk
  BY DEF SkipReconcile, bounds, stored
<1>2. TypeOK' /\ FaultsBounded'
  BY <1>1 DEF TypeOK, FaultsBounded
<1>3. CallsOK'
  BY <1>1, CallsKept, DocRevs
<1>4. CardsCounted'
  BY <1>1, CountKept DEF FaultsBounded, BoundsAssumption
<1>5. Carried' /\ OneRetro' /\ BreakerCostsNoAttempt' /\ RevsKnown'
  BY <1>1 DEF Carried, OneRetro, BreakerCostsNoAttempt, RevsKnown
<1>6. LagSeen'
  BY <1>1 DEF LagSeen, Shown
<1> QED
  BY <1>2, <1>3, <1>4, <1>5, <1>6

LEMMA ReconcileStep ==
    ASSUME BoundsAssumption, IInv, Reconcile
    PROVE  IInv'
<1> USE DEF IInv
<1>1. /\ UNCHANGED <<disk, file, edits, cache, call, queue, armed, breaker,
                     remote, enabled, private, real, faults, events>>
      /\ closed' = disk.done /\ skip' = disk /\ watch' = (closed # disk.done)
  BY DEF Reconcile, bounds
<1>2. \/ slot' = slot /\ (cache = disk \/ ~enabled)
      \/ slot' = Append(slot, disk)
  BY DEF Reconcile
<1>3. \/ excuse' = excuse /\ (cache = disk \/ enabled)
      \/ excuse' = excuse \cup {"disabled"}
  BY DEF Reconcile
<1>4. /\ slot' \in Seq(Doc)
      /\ \A i \in 1..Len(slot') : slot'[i].rev <= edits
      /\ slot # <<>> => slot' # <<>>
  <2>1. CASE slot' = slot
    BY <2>1, DocRevs DEF RevsKnown
  <2>2. CASE slot' = Append(slot, disk)
    <3>1. /\ slot' \in Seq(Doc) /\ Len(slot') = Len(slot) + 1 /\ slot'[Len(slot) + 1] = disk
          /\ \A i \in 1..Len(slot) : slot'[i] = slot[i]
      BY <2>2, DocRevs
    <3>2. \A i \in 1..Len(slot') : i \in 1..Len(slot) \/ i = Len(slot) + 1
      BY <3>1, DocRevs
    <3>3. slot' # <<>>
      BY <3>1, DocRevs
    <3> QED
      BY <3>1, <3>2, <3>3 DEF RevsKnown
  <2> QED
    BY <1>2, <2>1, <2>2
<1>5. closed' \in BOOLEAN
  BY <1>1, DocRevs DEF Doc
<1>6. watch' \in BOOLEAN
  BY <1>1
<1>7. excuse' \subseteq {"disabled", "exhausted", "closed", "unmapped"}
  BY <1>3 DEF TypeOK
<1>8. TypeOK' /\ FaultsBounded'
  BY <1>1, <1>4, <1>5, <1>6, <1>7 DEF TypeOK, FaultsBounded
<1>9. CallsOK'
  BY <1>1, CallsKept, DocRevs
<1>10. CardsCounted'
  BY <1>1, CountKept DEF FaultsBounded, BoundsAssumption
<1>11. Carried' /\ OneRetro' /\ BreakerCostsNoAttempt'
  BY <1>1, <1>4 DEF Carried, OneRetro, BreakerCostsNoAttempt
<1>12. RevsKnown'
  BY <1>1, <1>4 DEF RevsKnown
<1>13. LagSeen'
  <2> SUFFICES ASSUME Shown # disk.rev, excuse' = {}, slot' = <<>>,
                      \A e \in Entries : file[e] = 0
               PROVE  FALSE
    BY <1>1 DEF LagSeen, Shown
  <2>1. slot' = slot /\ slot = <<>>
    <3>1. Append(slot, disk) # <<>>
      BY DocRevs
    <3> QED
      BY <1>2, <3>1
  <2>2. excuse' = excuse /\ excuse = {}
    BY <1>3
  <2>3. cache = disk
    BY <1>2, <1>3, <2>1, <2>2, DocRevs
  <2> QED
    BY <2>1, <2>2, <2>3 DEF LagSeen
<1> QED
  BY <1>8, <1>9, <1>10, <1>11, <1>12, <1>13

\* The types of a call that begins.
LEMMA BeginTypes ==
    ASSUME BoundsAssumption, TypeOK, NEW c \in Callers, Begin(c)
    PROVE  /\ call' \in [Callers -> [local: Doc \cup {NoDoc}, todo: Seq(Requests)]]
           /\ queue' \in [0..MaxCards -> Seq(Callers)]
           /\ \A d \in Callers \ {c} : call'[d] = call[d]
<1> DEFINE plan == IF disk.ext = 0 THEN <<"create">> ELSE <<"read">>
<1>1. plan \in Seq(Requests)
  <2>1. <<"create">> \in Seq(Requests) /\ <<"read">> \in Seq(Requests)
    BY DEF Requests
  <2> QED
    BY <2>1
<1>2. call' = [call EXCEPT ![c] = [local |-> disk, todo |-> plan]]
  BY DEF Begin
<1> HIDE DEF plan
<1>3. disk \in Doc /\ disk.ext \in 0..MaxCards
  BY DEF TypeOK, Doc
<1>4. queue[disk.ext] \in Seq(Callers)
  BY <1>3 DEF TypeOK
<1>5. Append(queue[disk.ext], c) \in Seq(Callers)
  BY <1>4
<1>6. queue' = [queue EXCEPT ![disk.ext] = Append(queue[disk.ext], c)]
  BY DEF Begin
<1> QED
  BY <1>1, <1>2, <1>3, <1>5, <1>6 DEF TypeOK

LEMMA PushBeginsStep ==
    ASSUME BoundsAssumption, IInv, PushBegins
    PROVE  IInv'
<1> USE DEF IInv
<1>1. /\ UNCHANGED <<disk, closed, file, edits, watch, skip, cache, slot, armed, breaker,
                     remote, enabled, private, real, excuse, faults, events>>
      /\ slot # <<>> /\ call["push"] = Idle /\ Begin("push")
  BY DEF PushBegins, bounds, stored
<1>2. "push" \in Callers /\ \A e \in Entries : e \in Callers \ {"push"}
  BY DEF Callers, BoundsAssumption
<1>3. TypeOK' /\ FaultsBounded'
  BY <1>1, <1>2, BeginTypes DEF TypeOK, FaultsBounded
<1>4. CallsOK'
  BY <1>1, <1>2, BeginCalls
<1>5. CardsCounted'
  BY <1>1, <1>2, BeginCount
<1>6. Carried'
  <2>1. \A e \in Entries : call'[e] = call[e]
    BY <1>1, <1>2, BeginTypes
  <2> QED
    BY <1>1, <2>1 DEF Carried
<1>7. OneRetro' /\ BreakerCostsNoAttempt' /\ RevsKnown' /\ LagSeen'
  BY <1>1 DEF OneRetro, BreakerCostsNoAttempt, RevsKnown, LagSeen, Shown
<1> QED
  BY <1>3, <1>4, <1>5, <1>6, <1>7

\* A push that the mapping skips: the document counts as pushed, and the
\* excuse says that it is not.
LEMMA PushSkippedStep ==
    ASSUME BoundsAssumption, IInv, PushSkipped
    PROVE  IInv'
<1> USE DEF IInv
<1>1. /\ UNCHANGED <<disk, closed, file, edits, watch, skip, call, queue, armed, breaker,
                     remote, enabled, private, real, faults, events>>
      /\ slot # <<>> /\ call["push"] = Idle
      /\ cache' = Head(slot) /\ slot' = Tail(slot)
      /\ excuse' = excuse \cup {"unmapped"}
  BY DEF PushSkipped, bounds, stored
<1>2. /\ Head(slot) = slot[1] /\ 1 \in 1..Len(slot) /\ Tail(slot) \in Seq(Doc)
      /\ Len(Tail(slot)) = Len(slot) - 1
      /\ \A i \in 1..Len(slot) - 1 : i + 1 \in 1..Len(slot) /\ Tail(slot)[i] = slot[i + 1]
  BY <1>1, DocRevs
<1>3. /\ cache' \in Doc /\ cache'.rev <= edits
      /\ \A i \in 1..Len(slot') : slot'[i].rev <= edits
  BY <1>1, <1>2, DocRevs DEF RevsKnown
<1>4. TypeOK' /\ FaultsBounded'
  BY <1>1, <1>2, <1>3 DEF TypeOK, FaultsBounded
<1>5. CallsOK'
  BY <1>1, CallsKept, DocRevs
<1>6. CardsCounted'
  BY <1>1, CountKept DEF FaultsBounded, BoundsAssumption
<1>7. Carried' /\ OneRetro' /\ BreakerCostsNoAttempt'
  BY <1>1 DEF Carried, OneRetro, BreakerCostsNoAttempt
<1>8. RevsKnown' /\ LagSeen'
  BY <1>1, <1>3 DEF RevsKnown, LagSeen
<1> QED
  BY <1>4, <1>5, <1>6, <1>7, <1>8

LEMMA FireRetryStep ==
    ASSUME BoundsAssumption, IInv, NEW e \in Entries, FireRetry(e)
    PROVE  IInv'
<1> USE DEF IInv
<1>1. /\ UNCHANGED <<disk, closed, file, edits, watch, skip, cache, slot, breaker,
                     remote, enabled, private, real, excuse, faults, events>>
      /\ e \in armed /\ armed' = armed \ {e} /\ Begin(e)
  BY DEF FireRetry, bounds, stored
<1>2. e \in Callers /\ "push" \in Callers \ {e} /\ \A f \in Entries : f \in Callers
  BY DEF Callers, BoundsAssumption
<1>3. call[e] = Idle /\ file[e] # 0
  BY <1>1 DEF Carried
<1>4. TypeOK' /\ FaultsBounded'
  BY <1>1, <1>2, BeginTypes DEF TypeOK, FaultsBounded
<1>5. CallsOK'
  BY <1>1, <1>2, <1>3, BeginCalls
<1>6. CardsCounted'
  BY <1>1, <1>2, <1>3, BeginCount
<1>7. Carried'
  <2>1. \A d \in Callers \ {e} : call'[d] = call[d]
    BY <1>1, <1>2, BeginTypes
  <2> QED
    BY <1>1, <1>2, <1>3, <2>1 DEF Carried
<1>8. OneRetro' /\ BreakerCostsNoAttempt' /\ RevsKnown' /\ LagSeen'
  BY <1>1 DEF OneRetro, BreakerCostsNoAttempt, RevsKnown, LagSeen, Shown
<1> QED
  BY <1>4, <1>5, <1>6, <1>7, <1>8

\* An answer that leaves more to do.
LEMMA GoOnStep ==
    ASSUME BoundsAssumption, IInv, NEW c \in Callers, Answered(c), Rest(c) # <<>>
    PROVE  IInv'
<1> USE DEF IInv
<1>1. /\ UNCHANGED <<disk, closed, file, edits, watch, skip, cache, slot, queue, armed,
                     enabled, private, real, excuse, faults, events>>
      /\ Turn(c) /\ remote' = Applied(c) /\ breaker' = "closed"
      /\ call' = [call EXCEPT ![c].todo = Rest(c)]
  BY DEF Answered, bounds
<1>2. call[c] # Idle /\ Plan(c)
  BY <1>1 DEF CallsOK, Turn, Idle
<1>3. CallsOK'
  BY <1>1, GoOnCalls
<1>4. /\ Applied(c) \in Seq(Card) /\ Len(Applied(c)) = Len(remote)
      /\ OneRetro'
  BY <1>1, <1>2, AppliedCards, RestPlan DEF OneRetro
<1>5. Rest(c) \in Seq(Requests)
  BY <1>2, RestPlan
<1>6. /\ call \in [Callers -> [local: Doc \cup {NoDoc}, todo: Seq(Requests)]]
      /\ call' \in [Callers -> [local: Doc \cup {NoDoc}, todo: Seq(Requests)]]
      /\ \A d \in Callers \ {c} : call'[d] = call[d]
      /\ call'[c].local = call[c].local /\ call'[c] # Idle
  <2>1. call \in [Callers -> [local: Doc \cup {NoDoc}, todo: Seq(Requests)]]
    BY DEF TypeOK
  <2>2. call'[c] # Idle
    BY <1>1, GoOnCalls
  <2> QED
    BY <1>1, <1>5, <2>1, <2>2
<1>7. TypeOK' /\ FaultsBounded'
  BY <1>1, <1>4, <1>6 DEF TypeOK, FaultsBounded
<1>8. CardsCounted'
  <2>1. Unbound' = Unbound
    BY <1>2, <1>6 DEF Unbound
  <2> QED
    BY <1>1, <1>4, <2>1 DEF CardsCounted
<1>9. Carried' /\ (slot # <<>> \/ \E e \in Entries : file[e] # 0)
  <2>1. \A d \in Callers : (call'[d] = Idle) <=> (call[d] = Idle)
    BY <1>2, <1>6
  <2> QED
    BY <1>1, <1>2, <2>1 DEF Carried, Callers
<1>10. LagSeen'
  BY <1>1, <1>9 DEF LagSeen
<1>11. BreakerCostsNoAttempt' /\ RevsKnown'
  BY <1>1, <1>4 DEF BreakerCostsNoAttempt, RevsKnown
<1> QED
  BY <1>3, <1>4, <1>7, <1>8, <1>9, <1>10, <1>11

\* The answer that ends a call: the YAML and the card agree.
LEMMA SuccessStep ==
    ASSUME BoundsAssumption, IInv, NEW c \in Callers, Answered(c), Rest(c) = <<>>
    PROVE  IInv'
<1> USE DEF IInv
<1> DEFINE l == call[c].local
           n == IF l.ext = 0 THEN Len(remote') ELSE l.ext
           doc == [l EXCEPT !.ext = n]
<1>1. /\ UNCHANGED <<closed, edits, skip, armed, enabled, private, real, faults, events>>
      /\ Turn(c) /\ remote' = Applied(c) /\ breaker' = "closed"
      /\ Leave(c) /\ disk' = doc /\ watch' = (watch \/ doc # disk) /\ excuse' = {}
      /\ IF c = "push"
           THEN cache' = Head(slot) /\ slot' = Tail(slot) /\ file' = file
           ELSE cache' = doc /\ file' = [file EXCEPT ![c] = 0] /\ slot' = slot
  BY DEF Answered, Succeeds, bounds
<1>2. call[c] # Idle /\ Plan(c)
  BY <1>1 DEF CallsOK, Turn, Idle
<1>3. /\ remote \in Seq(Card) /\ Len(remote) \in Nat
      /\ remote' \in Seq(Card) /\ Len(remote') \in Nat
      /\ Len(remote') = Len(remote) + (IF l.ext = 0 THEN 1 ELSE 0)
  BY <1>1, <1>2, AppliedCards DEF TypeOK
<1>4. /\ n \in 1..Len(remote') /\ remote'[n].rev = l.rev
  <2>1. CASE l.ext = 0
    BY <1>1, <1>2, <1>3, <2>1, AppliedCards
  <2>2. CASE l.ext # 0
    <3>1. l.ext \in Nat /\ l.ext <= Len(remote)
      BY <1>2, CallersFinite DEF Plan, Doc
    <3> QED
      BY <1>1, <1>2, <1>3, <2>2, <3>1, RestPlan
  <2> QED
    BY <2>1, <2>2
<1>5. l \in Doc /\ doc.rev = l.rev /\ doc.ext = n /\ l.rev <= edits
  BY <1>2 DEF Plan, Doc
<1> HIDE DEF n
<1>6. CardsCounted' /\ Len(remote') <= MaxCards
  <2>1. disk'.ext # 0
    BY <1>1, <1>4, <1>5
  <2> QED
    BY <1>1, <2>1, SuccessCount
<1>7. doc \in Doc
  <2>1. n \in 0..MaxCards
    BY <1>3, <1>4, <1>6, CallersFinite
  <2> QED
    BY <1>5, <2>1 DEF Doc
<1> HIDE DEF doc
<1>8. c = "push" => slot \in Seq(Doc) /\ slot # <<>>
  BY <1>2, DocRevs DEF Carried
<1>9. /\ slot' \in Seq(Doc) /\ cache' \in Doc /\ cache'.rev <= edits
      /\ \A i \in 1..Len(slot') : slot'[i].rev <= edits
  <2>1. CASE c = "push"
    <3>1. /\ Head(slot) = slot[1] /\ 1 \in 1..Len(slot) /\ Tail(slot) \in Seq(Doc)
          /\ Len(Tail(slot)) = Len(slot) - 1
          /\ \A i \in 1..Len(slot) - 1 : Tail(slot)[i] = slot[i + 1]
      BY <1>8, <2>1
    <3>2. \A i \in 1..Len(slot) - 1 : i + 1 \in 1..Len(slot)
      BY <1>8, <2>1
    <3>3. slot[1] \in Doc /\ slot[1].rev <= edits
      BY <3>1, DocRevs DEF RevsKnown
    <3>4. \A i \in 1..Len(slot) - 1 : slot[i + 1].rev <= edits
      BY <3>2 DEF RevsKnown
    <3>5. slot' = Tail(slot) /\ cache' = slot[1]
      BY <1>1, <2>1, <3>1
    <3> QED
      BY <3>1, <3>3, <3>4, <3>5
  <2>2. CASE c # "push"
    BY <1>1, <1>5, <1>7, <2>2, DocRevs DEF RevsKnown
  <2> QED
    BY <2>1, <2>2
<1>10. /\ CallsOK' /\ call'[c] = Idle /\ \A d \in Callers \ {c} : call'[d] = call[d]
       /\ queue' \in [0..MaxCards -> Seq(Callers)]
       /\ call' \in [Callers -> [local: Doc \cup {NoDoc}, todo: Seq(Requests)]]
  BY <1>1, LeaveCalls
<1>11. file' \in [Entries -> 0..MaxAttempts]
  <2>1. file \in [Entries -> 0..MaxAttempts] /\ 0 \in 0..MaxAttempts
    BY DEF TypeOK, BoundsAssumption
  <2>2. CASE c = "push"
    BY <1>1, <2>1, <2>2
  <2>3. CASE c # "push"
    <3>1. file' = [file EXCEPT ![c] = 0]
      BY <1>1, <2>3
    <3> QED
      BY <2>1, <3>1
  <2> QED
    BY <2>2, <2>3
<1>12. watch' \in BOOLEAN
  BY <1>1 DEF TypeOK
<1>13. TypeOK' /\ FaultsBounded'
  BY <1>1, <1>3, <1>7, <1>9, <1>10, <1>11, <1>12 DEF TypeOK, FaultsBounded
<1>14. Carried'
  <2>1. call'["push"] # Idle => slot' # <<>>
    <3>1. c # "push" /\ call'["push"] # Idle => slot # <<>> /\ slot' = slot
      BY <1>1, <1>10 DEF Carried, Callers
    <3> QED
      BY <1>10, <3>1
  <2>2. ASSUME NEW e \in Entries
        PROVE  /\ call'[e] # Idle => file'[e] # 0
               /\ e \in armed' => file'[e] # 0 /\ call'[e] = Idle
    <3>1. CASE e = c
      BY <1>1, <1>2, <1>10, <3>1 DEF Carried
    <3>2. CASE e # c
      <4>1. file'[e] = file[e] /\ call'[e] = call[e]
        BY <1>1, <1>10, <3>2 DEF TypeOK, Callers
      <4> QED
        BY <1>1, <4>1 DEF Carried
    <3> QED
      BY <3>1, <3>2
  <2> QED
    BY <2>1, <2>2 DEF Carried
<1>15. RevsKnown'
  BY <1>1, <1>3, <1>4, <1>5, <1>9 DEF RevsKnown
<1>16. LagSeen'
  <2>1. disk'.rev = l.rev /\ disk'.ext = n /\ n # 0
    BY <1>1, <1>4, <1>5
  <2>2. Shown' = disk'.rev
    BY <1>4, <2>1 DEF Shown
  <2> QED
    BY <2>2 DEF LagSeen
<1>17. OneRetro'
  BY <1>1, <1>2, AppliedCards DEF OneRetro
<1>18. BreakerCostsNoAttempt'
  BY <1>1 DEF BreakerCostsNoAttempt, TypeOK
<1> QED
  BY <1>6, <1>10, <1>13, <1>14, <1>15, <1>16, <1>17, <1>18

\* What a failure leaves in the queue files: an entry of its own, or an excuse.
LEMMA FailedFiles ==
    ASSUME BoundsAssumption, IInv, NEW c \in Callers, NEW circuit \in BOOLEAN,
           call[c] # Idle, call'[c] = Idle, \A d \in Callers \ {c} : call'[d] = call[d],
           IF c = "push" THEN PushFailed ELSE RetryFailed(c, circuit)
    PROVE  /\ file' \in [Entries -> 0..MaxAttempts] /\ real' \in [Entries -> Nat]
           /\ armed' \subseteq Entries
           /\ excuse' \subseteq {"disabled", "exhausted", "closed", "unmapped"}
           /\ slot' \in Seq(Doc) /\ \A i \in 1..Len(slot') : slot'[i].rev <= edits
           /\ Carried' /\ BreakerCostsNoAttempt'
           /\ excuse' # {} \/ \E e \in Entries : file'[e] # 0
<1> USE DEF IInv
<1>1. /\ file \in [Entries -> 0..MaxAttempts] /\ real \in [Entries -> Nat]
      /\ armed \subseteq Entries /\ excuse \subseteq {"disabled", "exhausted", "closed", "unmapped"}
      /\ slot \in Seq(Doc) /\ MaxAttempts \in Nat /\ MaxAttempts >= 1
  BY DEF TypeOK, BoundsAssumption
<1>2. \A e \in Entries : e \in Callers /\ e # "push"
  BY DEF Callers, BoundsAssumption
<1>3. CASE c = "push"
  <2>1. PushFailed
    BY <1>3
  <2>2. slot # <<>> /\ slot' = Tail(slot)
    BY <1>3, <2>1 DEF PushFailed, Carried
  <2>3. slot' \in Seq(Doc) /\ \A i \in 1..Len(slot') : slot'[i].rev <= edits
    <3>1. /\ Tail(slot) \in Seq(Doc) /\ Len(Tail(slot)) = Len(slot) - 1
          /\ \A i \in 1..Len(slot) - 1 : Tail(slot)[i] = slot[i + 1] /\ i + 1 \in 1..Len(slot)
      BY <1>1, <2>2
    <3> QED
      BY <2>2, <3>1 DEF RevsKnown
  <2>4. \A e \in Entries : call'[e] = call[e]
    BY <1>2, <1>3
  <2>5. CASE ~enabled
    <3>1. UNCHANGED <<file, real, armed>> /\ excuse' = excuse \cup {"disabled"}
      BY <2>1, <2>5 DEF PushFailed
    <3>2. Carried' /\ BreakerCostsNoAttempt'
      BY <1>3, <2>4, <3>1 DEF Carried, BreakerCostsNoAttempt
    <3> QED
      BY <1>1, <2>3, <3>1, <3>2
  <2>6. CASE enabled
    <3>1. PICK e \in Entries :
            /\ file[e] = 0 /\ excuse' = excuse
            /\ file' = [file EXCEPT ![e] = 1] /\ real' = [real EXCEPT ![e] = 0]
            /\ armed' = armed \cup {e}
      BY <2>1, <2>6 DEF PushFailed
    <3>2. file'[e] = 1 /\ real'[e] = 0 /\ call[e] = Idle
      BY <1>1, <3>1 DEF Carried
    <3>3. \A f \in Entries \ {e} : file'[f] = file[f] /\ real'[f] = real[f]
      BY <1>1, <3>1
    <3>4. Carried'
      BY <1>3, <2>4, <3>1, <3>2, <3>3 DEF Carried
    <3>5. BreakerCostsNoAttempt'
      BY <3>2, <3>3 DEF BreakerCostsNoAttempt
    <3>6. file' \in [Entries -> 0..MaxAttempts] /\ real' \in [Entries -> Nat]
      BY <1>1, <3>1
    <3> QED
      BY <1>1, <2>3, <3>1, <3>2, <3>4, <3>5, <3>6
  <2> QED
    BY <2>5, <2>6
<1>4. CASE c # "push"
  <2>1. c \in Entries /\ RetryFailed(c, circuit) /\ slot' = slot
    BY <1>4 DEF Callers, RetryFailed
  <2>2. file[c] # 0 /\ file[c] = 1 + real[c] /\ c \notin armed
    BY <2>1 DEF Carried, BreakerCostsNoAttempt
  <2>3. real' = [real EXCEPT ![c] = IF circuit THEN @ ELSE @ + 1]
    BY <2>1 DEF RetryFailed
  <2>4. /\ real' \in [Entries -> Nat]
        /\ real'[c] = IF circuit THEN real[c] ELSE real[c] + 1
        /\ \A f \in Entries \ {c} : real'[f] = real[f]
    BY <1>1, <2>1, <2>3
  <2>5. \A f \in Entries \ {c} : call'[f] = call[f]
    BY <1>2
  <2>6. call'["push"] # Idle => slot' # <<>>
    BY <1>4, <2>1 DEF Carried, Callers
  <2>7. slot' \in Seq(Doc) /\ \A i \in 1..Len(slot') : slot'[i].rev <= edits
    BY <1>1, <2>1 DEF RevsKnown
  <2>8. CASE circuit \/ file[c] < MaxAttempts
    <3>1. /\ file' = [file EXCEPT ![c] = IF circuit THEN @ ELSE @ + 1]
          /\ armed' = armed \cup {c} /\ excuse' = excuse
      BY <2>1, <2>8 DEF RetryFailed
    <3>2. /\ file' \in [Entries -> 0..MaxAttempts]
          /\ file'[c] = IF circuit THEN file[c] ELSE file[c] + 1
          /\ file'[c] # 0
          /\ \A f \in Entries \ {c} : file'[f] = file[f]
      BY <1>1, <2>1, <2>2, <2>8, <3>1
    <3>3. Carried'
      BY <2>1, <2>5, <2>6, <3>1, <3>2 DEF Carried
    <3>4. file'[c] = 1 + real'[c]
      <4>1. file[c] \in Nat /\ real[c] \in Nat
        BY <1>1, <2>1
      <4> QED
        BY <2>2, <2>4, <3>2, <4>1
    <3>5. BreakerCostsNoAttempt'
      BY <2>4, <3>2, <3>4 DEF BreakerCostsNoAttempt
    <3> QED
      BY <1>1, <2>1, <2>4, <2>7, <3>1, <3>2, <3>3, <3>5
  <2>9. CASE ~(circuit \/ file[c] < MaxAttempts)
    <3>1. /\ file' = [file EXCEPT ![c] = 0]
          /\ armed' = armed /\ excuse' = excuse \cup {"exhausted"}
      BY <2>1, <2>9 DEF RetryFailed
    <3>2. /\ file' \in [Entries -> 0..MaxAttempts] /\ file'[c] = 0
          /\ \A f \in Entries \ {c} : file'[f] = file[f]
      BY <1>1, <2>1, <3>1
    <3>3. Carried'
      BY <2>1, <2>2, <2>5, <2>6, <3>1, <3>2 DEF Carried
    <3>4. BreakerCostsNoAttempt'
      BY <2>4, <3>2 DEF BreakerCostsNoAttempt
    <3> QED
      BY <1>1, <2>4, <2>7, <3>1, <3>2, <3>3, <3>4
  <2> QED
    BY <2>8, <2>9
<1> QED
  BY <1>3, <1>4

\* A call that fails, at the tracker or at the breaker.
LEMMA FailedStep ==
    ASSUME BoundsAssumption, IInv, NEW c \in Callers, NEW circuit \in BOOLEAN,
           Turn(c), Failed(c, circuit),
           UNCHANGED <<disk, closed, edits, watch, skip, cache, enabled, private>>,
           breaker' \in {"closed", "open", "half-open"}, faults' \in 0..MaxFaults,
           \/ remote' = remote /\ faults' >= faults
           \/ remote' = Applied(c) /\ faults' = faults + 1
    PROVE  IInv'
<1> USE DEF IInv
<1>1. Leave(c) /\ IF c = "push" THEN PushFailed ELSE RetryFailed(c, circuit)
  BY DEF Failed
<1>2. call[c] # Idle /\ Plan(c)
  BY DEF CallsOK, Turn, Idle
<1>3. /\ CallsOK' /\ call'[c] = Idle /\ \A d \in Callers \ {c} : call'[d] = call[d]
      /\ queue' \in [0..MaxCards -> Seq(Callers)]
      /\ call' \in [Callers -> [local: Doc \cup {NoDoc}, todo: Seq(Requests)]]
  BY <1>1, LeaveCalls
<1>4. /\ file' \in [Entries -> 0..MaxAttempts] /\ real' \in [Entries -> Nat]
      /\ armed' \subseteq Entries
      /\ excuse' \subseteq {"disabled", "exhausted", "closed", "unmapped"}
      /\ slot' \in Seq(Doc) /\ \A i \in 1..Len(slot') : slot'[i].rev <= edits
      /\ Carried' /\ BreakerCostsNoAttempt'
      /\ excuse' # {} \/ \E e \in Entries : file'[e] # 0
  BY <1>1, <1>2, <1>3, FailedFiles
<1>5. remote' \in Seq(Card) /\ Len(remote) <= Len(remote') /\ OneRetro'
  <2>1. remote \in Seq(Card) /\ Len(remote) \in Nat
    BY DEF TypeOK
  <2> QED
    BY <1>2, <2>1, AppliedCards DEF OneRetro
<1>6. TypeOK' /\ FaultsBounded'
  BY <1>3, <1>4, <1>5 DEF TypeOK, FaultsBounded
<1>7. CardsCounted'
  <2>1. faults' \in Nat
    BY DEF BoundsAssumption
  <2> QED
    BY <1>1, <2>1, FailCount
<1>8. RevsKnown'
  <2>1. Len(remote) \in Nat /\ Len(remote') \in Nat /\ disk.ext \in Nat
    BY <1>5, DocRevs DEF TypeOK
  <2> QED
    BY <1>4, <1>5, <2>1 DEF RevsKnown
<1>9. LagSeen'
  BY <1>4 DEF LagSeen
<1> QED
  BY <1>3, <1>4, <1>5, <1>6, <1>7, <1>8, <1>9

LEMMA RestartStep ==
    ASSUME BoundsAssumption, IInv, Restart
    PROVE  IInv'
<1> USE DEF IInv
<1>1. /\ UNCHANGED <<disk, closed, file, edits, remote, enabled, private, real, faults>>
      /\ watch' = FALSE /\ skip' = NoDoc /\ cache' = NoDoc /\ slot' = <<>>
      /\ call' = [c \in Callers |-> Idle] /\ queue' = [k \in 0..MaxCards |-> <<>>]
      /\ armed' = Rearmed /\ breaker' = "closed"
      /\ excuse' = excuse \cup (IF closed THEN {"closed"} ELSE {})
  BY DEF Restart, stored
<1>2. Idle \in [local: Doc \cup {NoDoc}, todo: Seq(Requests)]
  BY DEF Idle
<1>3. /\ call' \in [Callers -> [local: Doc \cup {NoDoc}, todo: Seq(Requests)]]
      /\ queue' \in [0..MaxCards -> Seq(Callers)]
      /\ \A c \in Callers : call'[c] = Idle
  BY <1>1, <1>2
<1>4. TypeOK' /\ FaultsBounded'
  <2>1. slot' \in Seq(Doc) /\ armed' \subseteq Entries
    BY <1>1 DEF Rearmed
  <2>3. watch' \in BOOLEAN
    BY <1>1
  <2>2. excuse' \subseteq {"disabled", "exhausted", "closed", "unmapped"}
    BY <1>1 DEF TypeOK
  <2> QED
    BY <1>1, <1>3, <2>1, <2>2, <2>3 DEF TypeOK, FaultsBounded
<1>5. CallsOK'
  BY <1>3 DEF CallsOK
<1>6. CardsCounted'
  <2>1. Unbound' = {}
    BY <1>3 DEF Unbound
  <2>2. Unbound \in SUBSET Callers /\ Cardinality({}) = 0
    BY FS_EmptySet DEF Unbound
  <2>3. /\ Cardinality(Unbound) \in Nat /\ Cardinality(Unbound') = 0
        /\ Cardinality(Callers) \in Nat /\ Len(remote) \in Nat /\ faults \in Nat
    BY <2>1, <2>2, CallersFinite DEF TypeOK, FaultsBounded
  <2> QED
    BY <1>1, <2>3 DEF CardsCounted
<1>7. Carried'
  BY <1>1, <1>3 DEF Carried, Rearmed, Callers
<1>8. RevsKnown' /\ OneRetro' /\ BreakerCostsNoAttempt'
  <2>1. NoDoc.rev = 0 /\ 0 <= edits
    BY DocRevs DEF NoDoc
  <2> QED
    BY <1>1, <2>1 DEF RevsKnown, OneRetro, BreakerCostsNoAttempt
<1>9. LagSeen'
  <2>1. NoDoc # disk
    BY DocRevs DEF NoDoc
  <2> QED
    BY <1>1, <2>1 DEF LagSeen
<1> QED
  BY <1>4, <1>5, <1>6, <1>7, <1>8, <1>9

-----------------------------------------------------------------------------
(* The theorems. *)

LEMMA InitInv ==
    ASSUME BoundsAssumption, Init
    PROVE  IInv
<1>1. /\ disk \in [rev: {1}, ext: {0, 1}, done: {FALSE}]
      /\ remote = IF disk.ext = 0 THEN <<>> ELSE <<[rev |-> 1, list |-> 1, retros |-> 0]>>
      /\ closed = FALSE /\ edits = 1 /\ watch = TRUE
      /\ skip = NoDoc /\ cache = NoDoc /\ slot = <<>>
      /\ call = [c \in Callers |-> Idle]
      /\ queue = [k \in 0..MaxCards |-> <<>>]
      /\ file = [e \in Entries |-> 0] /\ real = [e \in Entries |-> 0]
      /\ armed = {} /\ breaker = "closed" /\ enabled = TRUE /\ excuse = {} /\ faults = 0
      /\ private \subseteq 1..MaxRev
  BY DEF Init
<1>2. MaxRev \in Nat /\ MaxRev >= 1 /\ MaxAttempts \in Nat /\ MaxFaults \in Nat
  BY DEF BoundsAssumption
<1>3. Cardinality(Callers) \in Nat /\ MaxCards \in Nat /\ 1 <= Cardinality(Callers)
  <2>1. {"push"} \in SUBSET Callers /\ Cardinality({"push"}) = 1
    BY FS_Singleton DEF Callers
  <2> QED
    BY <2>1, CallersFinite
<1>4. disk \in Doc /\ disk.rev = 1 /\ disk.ext \in {0, 1}
  <2>1. 1 <= MaxCards
    BY <1>2, <1>3 DEF MaxCards
  <2>2. PICK x \in {0, 1} : disk = [rev |-> 1, ext |-> x, done |-> FALSE]
    BY <1>1
  <2>3. x \in 0..MaxCards /\ 1 \in 1..MaxRev
    BY <1>2, <1>3, <2>1, <2>2
  <2> QED
    BY <2>2, <2>3 DEF Doc
<1>5. /\ remote \in Seq(Card) /\ Len(remote) = disk.ext
      /\ \A i \in 1..Len(remote) : remote[i].retros = 0
  <2> DEFINE card == [rev |-> 1, list |-> 1, retros |-> 0]
  <2>1. card \in Card /\ card.retros = 0
    BY <1>2 DEF Card
  <2>2. (disk.ext = 0 /\ remote = <<>>) \/ (disk.ext = 1 /\ remote = <<card>>)
    BY <1>1, <1>4
  <2> HIDE DEF card
  <2>3. CASE disk.ext = 0 /\ remote = <<>>
    BY <2>3
  <2>4. CASE disk.ext = 1 /\ remote = <<card>>
    <3>1. /\ <<card>> \in Seq(Card) /\ Len(<<card>>) = 1
          /\ \A i \in 1..1 : <<card>>[i] = card
      BY <2>1
    <3> QED
      BY <2>1, <2>4, <3>1
  <2> QED
    BY <2>2, <2>3, <2>4
<1>6. Idle \in [local: Doc \cup {NoDoc}, todo: Seq(Requests)]
  BY DEF Idle
<1>7. /\ call \in [Callers -> [local: Doc \cup {NoDoc}, todo: Seq(Requests)]]
      /\ queue \in [0..MaxCards -> Seq(Callers)]
      /\ \A c \in Callers : call[c] = Idle
  BY <1>1, <1>6
<1>8. TypeOK /\ FaultsBounded
  <2>1. watch \in BOOLEAN
    BY <1>1
  <2>2. closed \in BOOLEAN
    BY <1>1
  <2>3. enabled \in BOOLEAN
    BY <1>1
  <2>4. /\ file \in [Entries -> 0..MaxAttempts] /\ real \in [Entries -> Nat]
        /\ slot \in Seq(Doc) /\ edits \in 1..MaxRev
    BY <1>1, <1>2
  <2> QED
    BY <1>1, <1>2, <1>4, <1>5, <1>7, <2>1, <2>2, <2>3, <2>4 DEF TypeOK, FaultsBounded
<1>9. CallsOK /\ Carried
  BY <1>1, <1>7 DEF CallsOK, Carried, Callers
<1>10. CardsCounted
  <2>1. Unbound = {} /\ Cardinality({}) = 0
    BY <1>7, FS_EmptySet DEF Unbound
  <2> QED
    BY <1>1, <1>3, <1>4, <1>5, <2>1 DEF CardsCounted
<1>11. RevsKnown
  BY <1>1, <1>4, <1>5 DEF RevsKnown, NoDoc
<1>12. LagSeen
  BY <1>1, <1>4 DEF LagSeen, NoDoc
<1>13. OneRetro /\ BreakerCostsNoAttempt
  BY <1>1, <1>5 DEF OneRetro, BreakerCostsNoAttempt
<1> QED
  BY <1>8, <1>9, <1>10, <1>11, <1>12, <1>13 DEF IInv

LEMMA NextInv ==
    ASSUME BoundsAssumption, IInv, [Next]_vars
    PROVE  IInv'
<1>1. CASE Edit
  BY <1>1, EditStep
<1>2. CASE SkipReconcile
  BY <1>2, SkipReconcileStep
<1>3. CASE Reconcile
  BY <1>3, ReconcileStep
<1>4. CASE PushBegins
  BY <1>4, PushBeginsStep
<1>4a. CASE PushSkipped
  BY <1>4a, PushSkippedStep
<1>5. ASSUME NEW e \in Entries, FireRetry(e)
      PROVE  IInv'
  BY <1>5, FireRetryStep
<1>6. ASSUME NEW c \in Callers, Answered(c)
      PROVE  IInv'
  BY <1>6, GoOnStep, SuccessStep
<1>7. ASSUME NEW c \in Callers, CircuitRefuses(c)
      PROVE  IInv'
  <2>1. faults \in 0..MaxFaults /\ faults' = faults /\ remote' = remote
        /\ breaker' = breaker /\ breaker \in {"closed", "open", "half-open"}
    BY <1>7 DEF CircuitRefuses, IInv, FaultsBounded, TypeOK, bounds
  <2>2. faults' >= faults
    BY <2>1, BoundsAssumption DEF BoundsAssumption
  <2> QED
    BY <1>7, <2>1, <2>2, FailedStep DEF CircuitRefuses
<1>8. ASSUME NEW c \in Callers, NEW kind \in FaultKinds, Fails(c, kind)
      PROVE  IInv'
  <2>1. faults' = faults + 1 /\ faults' \in 0..MaxFaults
    BY <1>8 DEF Fails, IInv, FaultsBounded, BoundsAssumption
  <2>2. breaker' \in {"closed", "open", "half-open"}
    BY <1>8 DEF Fails, IInv, TypeOK
  <2>3. remote' = remote \/ remote' = Applied(c)
    BY <1>8 DEF Fails
  <2>4. faults' >= faults
    BY <2>1, BoundsAssumption DEF BoundsAssumption, IInv, FaultsBounded
  <2>5. /\ Turn(c) /\ Failed(c, FALSE)
        /\ UNCHANGED <<disk, closed, edits, watch, skip, cache, enabled, private>>
    BY <1>8 DEF Fails
  <2> QED
    BY <2>1, <2>2, <2>3, <2>4, <2>5, FailedStep
<1>9. CASE CooldownOver \/ OtherCardLimited \/ ToggleSync \/ Remap
  BY <1>9, EnvironmentStep
<1>10. CASE Restart
  BY <1>10, RestartStep
<1>11. CASE UNCHANGED vars
  <2>1. Unbound' = Unbound
    BY <1>11 DEF Unbound, vars, process
  <2>2. CallsOK'
    BY <1>11, CallsKept, DocRevs DEF IInv, vars, process, stored
  <2>3. CardsCounted'
    BY <1>11, <2>1 DEF IInv, CardsCounted, vars, stored, bounds
  <2> QED
    BY <1>11, <2>2, <2>3 DEF IInv, vars, stored, process, bounds, TypeOK, FaultsBounded,
       Carried, RevsKnown, LagSeen, OneRetro, BreakerCostsNoAttempt, Shown
<1> QED
  BY <1>1, <1>2, <1>3, <1>4, <1>4a, <1>5, <1>6, <1>7, <1>8, <1>9, <1>10, <1>11 DEF Next

\* IInv holds in every reachable state: each call holds its card's chain while
\* it writes, each failed push leaves a file or an excuse, and a lag nobody
\* works on is one the reconcile has yet to see.
THEOREM Invariance == Spec => []IInv
<1>1. Init => IInv
  BY InitInv, BoundsAssumption
<1>2. IInv /\ [Next]_vars => IInv'
  BY NextInv, BoundsAssumption
<1> QED
  BY <1>1, <1>2, PTL DEF Spec

\* The variables of the mirror keep their types.
THEOREM TypeCorrect == Spec => []TypeOK
<1>1. IInv => TypeOK
  BY DEF IInv
<1> QED
  BY <1>1, Invariance, PTL

\* No card gets a second retro comment, whatever the push slot and the retries
\* do at the same time and whatever replies are lost.
THEOREM OneRetroSafe == Spec => []OneRetro
<1>1. IInv => OneRetro
  BY DEF IInv
<1> QED
  BY <1>1, Invariance, PTL

\* A push the tracker lacks is always on somebody's list, unless it was given
\* up for one of the four reasons the code has.
THEOREM NoPushForgottenSafe == Spec => []NoPushForgotten
<1>1. IInv => NoPushForgotten
  BY DEF IInv, LagSeen, NoPushForgotten
<1> QED
  BY <1>1, Invariance, PTL

\* The breaker's refusals are never counted as attempts of an entry.
THEOREM BreakerSafe == Spec => []BreakerCostsNoAttempt
<1>1. IInv => BreakerCostsNoAttempt
  BY DEF IInv
<1> QED
  BY <1>1, Invariance, PTL
=============================================================================
