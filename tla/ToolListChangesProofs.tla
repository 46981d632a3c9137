----------------------- MODULE ToolListChangesProofs -----------------------
(* Proofs about the notification of tool list changes, for any tools and   *)
(* sessions and every size of the replay store and of a stream.            *)
EXTENDS ToolListChanges, FiniteSetTheorems, SequenceTheorems, WellFoundedInduction, TLAPS

Kinds == {"change", "prime"}
Event == [pos : Nat, kind : Kinds]
Streams == {"none", "replaying", "priming", "attached"}
Views == [listed : BOOLEAN, tools : SUBSET SafeTools, primed : BOOLEAN]

(* The type invariant of what the sessions keep. *)
SessionsOK ==
    /\ store \in [Sessions -> Seq(Kinds)] /\ stream \in [Sessions -> Streams]
    /\ replay \in [Sessions -> Seq(Event)] /\ wire \in [Sessions -> Seq(Event)]
    /\ cursor \in [Sessions -> Int] /\ view \in [Sessions -> Views]
    /\ told \in [Sessions -> BOOLEAN] /\ active \subseteq Sessions

(* Nothing is being sent unless the notifier is at work. *)
NotifierOK == monitor # "notifying" => sending = {}

EndsInChange(evs) == evs # <<>> /\ evs[Len(evs)] = "change"

(* No event on its way lies beyond the store. *)
Within(evs, ps) == \A i \in DOMAIN ps : ps[i].pos <= Len(evs)

(* A replay ends with a change, which is also the last one stored. *)
ReplayOK(evs, st, rep) ==
    /\ Within(evs, rep)
    /\ st = "replaying" => /\ EndsInChange(evs) /\ rep # <<>>
                           /\ rep[Len(rep)].kind = "change"
    /\ st # "replaying" => rep = <<>>

(* What follows the first event of the live tail are changes; and unless   *)
(* the store ends in a change, the cursor and all events on the wire but   *)
(* the last lie before its end.                                            *)
WireOK(evs, st, ws, c) ==
    /\ Within(evs, ws)
    /\ st = "none" => ws = <<>>
    /\ st = "attached" => \A i \in DOMAIN ws : i > 1 => ws[i].kind = "change"
    /\ ~EndsInChange(evs) => /\ ws # <<>> => c < Len(evs)
                             /\ \A i \in DOMAIN ws : i < Len(ws) => ws[i].pos < Len(evs)

CursorOK(evs, c) == NoCursor <= c /\ c <= Len(evs)

StreamOK(s) ==
    /\ ReplayOK(store[s], stream[s], replay[s])
    /\ WireOK(store[s], stream[s], wire[s], cursor[s])
    /\ CursorOK(store[s], cursor[s])
    /\ view[s].primed => cursor[s] # NoCursor

(* The client that must be told: it can be told, whether it is still       *)
(* registered or has been dropped.                                         *)
Signalled(s) == told[s] \/ Coming(s) \/ Recoverable(s)
Watched(s) == s \in active /\ view[s].primed /\ (Stale(s) \/ s \notin registered)

ToolListInv ==
    /\ SessionsOK /\ NotifierOK
    /\ \A s \in Sessions : StreamOK(s) /\ (Watched(s) => Signalled(s))

-----------------------------------------------------------------------------
(* The replay store.                                                       *)

(* What is left of the store when an event is retained. *)
LEMMA RetainFacts ==
    ASSUME NEW evs \in Seq(Kinds), NEW kind \in Kinds
    PROVE  /\ Evicts(evs) \in {0, 1} /\ Evicts(evs) <= Len(evs)
           /\ Retain(evs, kind) \in Seq(Kinds)
           /\ Len(Retain(evs, kind)) = Len(evs) - Evicts(evs) + 1
           /\ Retain(evs, kind) # <<>>
           /\ Retain(evs, kind)[Len(Retain(evs, kind))] = kind
<1>1. Len(evs) \in Nat /\ MaxEvents \in Nat \ {0}
  BY ToolListAssumption
<1>2. Evicts(evs) \in {0, 1} /\ Evicts(evs) <= Len(evs)
  BY <1>1 DEF Evicts
<1>3. PICK kept : kept = SubSeq(evs, 1 + Evicts(evs), Len(evs))
  OBVIOUS
<1>4. kept \in Seq(Kinds) /\ Len(kept) = Len(evs) - Evicts(evs)
  <2>1. CASE Evicts(evs) = 0
    BY <1>1, <1>3, <2>1
  <2>2. CASE Evicts(evs) = 1
    <3>1. kept = SubSeq(evs, 2, Len(evs)) /\ 1 <= Len(evs)
      BY <1>1, <1>2, <1>3, <2>2
    <3>2. \A i \in 2..Len(evs) : evs[i] \in Kinds
      BY <1>1
    <3>3. kept \in Seq(Kinds) /\ Len(kept) = IF 2 <= Len(evs) THEN Len(evs) - 2 + 1 ELSE 0
      BY <1>1, <3>1, <3>2, SubSeqProperties
    <3>4. \A n \in Nat : 1 <= n => (IF 2 <= n THEN n - 2 + 1 ELSE 0) = n - 1
      OBVIOUS
    <3>5. Len(evs) \in Nat /\ 1 <= Len(evs)
      BY <1>1, <3>1
    <3>6. kept \in Seq(Kinds) /\ Len(kept) = Len(evs) - 1
      BY <3>3, <3>4, <3>5, Zenon
    <3> QED
      BY <2>2, <3>6
  <2> QED
    BY <1>2, <2>1, <2>2
<1>5. Retain(evs, kind) = Append(kept, kind)
  BY <1>3 DEF Retain
<1>6. Append(kept, kind) \in Seq(Kinds) /\ Len(Append(kept, kind)) = Len(kept) + 1
      /\ Append(kept, kind)[Len(kept) + 1] = kind /\ Append(kept, kind) # <<>>
  BY <1>4
<1> QED
  BY <1>1, <1>2, <1>4, <1>5, <1>6

(* Every position of the store before lies before the last one after. *)
LEMMA ShiftFacts ==
    ASSUME NEW evs \in Seq(Kinds), NEW kind \in Kinds, NEW c \in Int, CursorOK(evs, c)
    PROVE  /\ Shift(c, Evicts(evs)) \in Int
           /\ NoCursor <= Shift(c, Evicts(evs))
           /\ Shift(c, Evicts(evs)) < Len(Retain(evs, kind))
           /\ c # NoCursor => Shift(c, Evicts(evs)) # NoCursor
<1>1. Len(evs) \in Nat /\ Evicts(evs) \in {0, 1} /\ Len(Retain(evs, kind)) = Len(evs) - Evicts(evs) + 1
      /\ Evicts(evs) <= Len(evs)
  BY RetainFacts
<1> QED
  BY <1>1 DEF Shift, CursorOK, NoCursor, Evicted

(* So does every event on its way. *)
LEMMA ShiftAllFacts ==
    ASSUME NEW evs \in Seq(Kinds), NEW kind \in Kinds, NEW ps \in Seq(Event), Within(evs, ps)
    PROVE  /\ ShiftAll(ps, Evicts(evs)) \in Seq(Event)
           /\ Len(ShiftAll(ps, Evicts(evs))) = Len(ps)
           /\ \A i \in 1..Len(ps) :
                /\ ShiftAll(ps, Evicts(evs))[i].kind = ps[i].kind
                /\ ShiftAll(ps, Evicts(evs))[i].pos < Len(Retain(evs, kind))
<1>1. PICK by : by = Evicts(evs)
  OBVIOUS
<1>2. DOMAIN ps = 1..Len(ps) /\ Len(ps) \in Nat
  OBVIOUS
<1>3. ASSUME NEW i \in 1..Len(ps)
      PROVE  /\ [ps[i] EXCEPT !.pos = Shift(@, by)] \in Event
             /\ [ps[i] EXCEPT !.pos = Shift(@, by)].kind = ps[i].kind
             /\ [ps[i] EXCEPT !.pos = Shift(@, by)].pos < Len(Retain(evs, kind))
  <2>1. PICK e : e = ps[i]
    OBVIOUS
  <2>2. e \in Event /\ e.pos \in Nat /\ e.kind \in Kinds
    <3>1. e \in Event
      BY <2>1
    <3> QED
      BY <3>1 DEF Event
  <2>3. CursorOK(evs, e.pos) /\ e.pos \in Int /\ e.pos # NoCursor
    BY <1>2, <2>1, <2>2 DEF Within, CursorOK, NoCursor
  <2>4. PICK p : p = Shift(e.pos, by)
    OBVIOUS
  <2>5. p \in Int /\ NoCursor <= p /\ p < Len(Retain(evs, kind)) /\ p # NoCursor
    BY <1>1, <2>3, <2>4, ShiftFacts
  <2>6. p \in Nat
    BY <2>5 DEF NoCursor
  <2>7. [e EXCEPT !.pos = Shift(@, by)] = [e EXCEPT !.pos = p]
    BY <2>4
  <2>8. [e EXCEPT !.pos = p] \in Event /\ [e EXCEPT !.pos = p].kind = e.kind /\ [e EXCEPT !.pos = p].pos = p
    BY <2>2, <2>6 DEF Event
  <2> QED
    BY <2>1, <2>5, <2>7, <2>8
<1>4. PICK f : f = ShiftAll(ps, by)
  OBVIOUS
<1>5. DOMAIN f = 1..Len(ps) /\ \A i \in 1..Len(ps) : f[i] = [ps[i] EXCEPT !.pos = Shift(@, by)]
  BY <1>2, <1>4 DEF ShiftAll
<1>6. f = [i \in 1..Len(ps) |-> f[i]] /\ \A i \in 1..Len(ps) : f[i] \in Event
  <2>1. f = [i \in DOMAIN ps |-> [ps[i] EXCEPT !.pos = Shift(@, by)]]
    BY <1>4 DEF ShiftAll
  <2> QED
    BY <1>2, <1>3, <1>5, <2>1
<1>7. f \in Seq(Event) /\ Len(f) = Len(ps)
  BY <1>2, <1>6
<1> QED
  BY <1>1, <1>3, <1>4, <1>5, <1>7

(* A set of natural numbers has a least element. *)
LEMMA LeastNumber ==
    ASSUME NEW T, T \subseteq Nat, T # {}
    PROVE  \E m \in T : \A k \in T : m <= k
<1> DEFINE R == OpToRel(<, Nat)
<1>1. \A x, y \in Nat : x < y => <<x, y>> \in R
  BY DEF OpToRel
<1>2. IsWellFoundedOn(R, Nat)
  BY NatLessThanWellFounded
<1> HIDE DEF R
<1>3. PICK m \in T : \A k \in T : ~(<<k, m>> \in R)
  BY <1>2, WFMin
<1>4. \A k \in T : ~(k < m)
  BY <1>1, <1>3
<1> QED BY <1>4

(* An enumeration of P in increasing order. *)
Enumerates(q, P) ==
    /\ q \in [1..Cardinality(P) -> P]
    /\ \A i, j \in DOMAIN q : i < j => q[i] < q[j]

(* A set with one element more, larger than the others. *)
LEMMA EnumerateOneMore ==
    ASSUME NEW P, P \subseteq Nat, IsFiniteSet(P), NEW n \in Nat, \A p \in P : p < n,
           NEW q, Enumerates(q, P)
    PROVE  \E r : Enumerates(r, P \cup {n})
<1>1. Cardinality(P) \in Nat /\ n \notin P
  BY FS_CardinalityType
<1>2. Cardinality(P \cup {n}) = Cardinality(P) + 1
  BY <1>1, FS_AddElement
<1>3. PICK k \in Nat : k = Cardinality(P)
  BY <1>1
<1>4. q \in [1..k -> P] /\ \A i, j \in 1..k : i < j => q[i] < q[j]
  BY <1>3 DEF Enumerates
<1>5. PICK r : r = [i \in 1..(k + 1) |-> IF i = k + 1 THEN n ELSE q[i]]
  OBVIOUS
<1>6. r \in [1..(k + 1) -> P \cup {n}]
  BY <1>4, <1>5
<1>7. \A i, j \in 1..(k + 1) : i < j => r[i] < r[j]
  <2>1. \A i \in 1..k : r[i] = q[i] /\ q[i] \in P /\ i \in Int
    BY <1>4, <1>5
  <2>2. r[k + 1] = n /\ \A i \in 1..(k + 1) : i = k + 1 \/ i \in 1..k
    BY <1>5
  <2>3. \A i \in 1..k : r[i] < n
    BY <2>1
  <2> SUFFICES ASSUME NEW i \in 1..(k + 1), NEW j \in 1..(k + 1), i < j
               PROVE  r[i] < r[j]
    OBVIOUS
  <2>4. i \in 1..k
    OBVIOUS
  <2>5. CASE j = k + 1
    BY <2>2, <2>3, <2>4, <2>5
  <2>6. CASE j \in 1..k
    BY <1>4, <2>1, <2>4, <2>6
  <2> QED
    BY <2>2, <2>5, <2>6
<1>8. Enumerates(r, P \cup {n})
  BY <1>2, <1>3, <1>6, <1>7 DEF Enumerates
<1> QED
  BY <1>8

(* Every set of numbers up to a bound can be enumerated in order. *)
LEMMA EnumerationExists ==
    ASSUME NEW n \in Nat, NEW P, P \subseteq 1..n
    PROVE  \E q : Enumerates(q, P)
<1> DEFINE Upto(m) == {p \in P : p <= m}
<1> DEFINE Missing == {m \in Nat : ~ \E q : Enumerates(q, Upto(m))}
<1>1. ASSUME NEW m \in Nat
      PROVE  Upto(m) \subseteq Nat /\ IsFiniteSet(Upto(m))
  <2>1. Upto(m) \subseteq 1..n
    OBVIOUS
  <2>2. IsFiniteSet(1..n)
    BY FS_Interval
  <2> QED
    BY <2>1, <2>2, FS_Subset
<1> HIDE DEF Missing
<1>2. \A p \in P : p \in Nat /\ 1 <= p /\ p <= n
  OBVIOUS
<1>3. Upto(0) = {}
  <2>1. \A p \in P : ~(p <= 0)
    BY <1>2
  <2> QED
    BY <2>1, Zenon
<1>4. Upto(n) = P
  BY <1>2
<1>5. 0 \notin Missing
  <2>1. Enumerates(<<>>, {})
    <3>1. Cardinality({}) = 0 /\ 1..0 = {}
      BY FS_EmptySet
    <3> QED
      BY <3>1 DEF Enumerates
  <2> QED
    BY <1>3, <2>1 DEF Missing
<1>6. ASSUME NEW m \in Nat, m \notin Missing
      PROVE  m + 1 \notin Missing
  <2>1. PICK q : Enumerates(q, Upto(m))
    BY <1>6 DEF Missing
  <2>2. CASE m + 1 \in P
    <3>1. Upto(m + 1) = Upto(m) \cup {m + 1}
      <4>1. \A p \in P : p <= m + 1 <=> (p <= m \/ p = m + 1)
        BY <1>2
      <4> QED
        BY <2>2, <4>1, Zenon
    <3>2. \A p \in Upto(m) : p < m + 1
      BY <1>2
    <3>3. \E r : Enumerates(r, Upto(m) \cup {m + 1})
      <4>1. Upto(m) \subseteq Nat /\ IsFiniteSet(Upto(m)) /\ m + 1 \in Nat
        BY <1>1
      <4> HIDE DEF Upto
      <4> QED
        BY <2>1, <3>2, <4>1, EnumerateOneMore
    <3> HIDE DEF Upto
    <3> QED
      BY <3>1, <3>3 DEF Missing
  <2>3. CASE m + 1 \notin P
    <3>1. Upto(m + 1) = Upto(m)
      <4>1. \A p \in P : p <= m + 1 <=> p <= m
        BY <1>2, <2>3
      <4> QED
        BY <4>1, Zenon
    <3> HIDE DEF Upto
    <3> QED
      BY <2>1, <3>1 DEF Missing
  <2> QED
    BY <2>2, <2>3
<1>7. Missing = {}
  <2> SUFFICES ASSUME Missing # {}
               PROVE  FALSE
    OBVIOUS
  <2>1. Missing \subseteq Nat
    BY DEF Missing
  <2>2. PICK m \in Missing : \A k \in Missing : m <= k
    BY <2>1, LeastNumber
  <2>3. m \in Nat /\ m # 0
    BY <1>5, <2>1, <2>2
  <2>4. m - 1 \in Nat /\ m - 1 \notin Missing
    BY <2>2, <2>3
  <2>5. (m - 1) + 1 \notin Missing
    BY <1>6, <2>4
  <2>6. (m - 1) + 1 = m
    BY <2>3
  <2> QED
    BY <2>2, <2>5, <2>6
<1>8. \E q : Enumerates(q, Upto(n))
  BY <1>7 DEF Missing
<1> QED
  BY <1>4, <1>8

(* What is replayed after a cursor lies in the store. *)
LEMMA ReplayAfterFacts ==
    ASSUME NEW evs \in Seq(Kinds), NEW c \in Nat
    PROVE  ReplayAfter(evs, c) \in Seq(Event) /\ Within(evs, ReplayAfter(evs, c))
<1>1. CASE c = Evicted
  BY <1>1 DEF ReplayAfter, Within
<1>2. CASE c # Evicted
  <2>1. PICK P : P = {p \in (c + 1)..Len(evs) : evs[p] = "change"}
    OBVIOUS
  <2>2. P \subseteq 1..Len(evs) /\ Len(evs) \in Nat
    BY <2>1
  <2>3. \E q : Enumerates(q, P)
    BY <2>2, EnumerationExists
  <2>4. PICK q : q = InOrder(P)
    OBVIOUS
  <2>5. q \in [1..Cardinality(P) -> P]
    BY <2>3, <2>4 DEF Enumerates, InOrder
  <2>6. PICK k \in Nat : k = Cardinality(P)
    <3>1. IsFiniteSet(1..Len(evs))
      BY <2>2, FS_Interval
    <3> QED
      BY <2>2, <3>1, FS_Subset, FS_CardinalityType
  <2>7. ReplayAfter(evs, c) = [i \in 1..k |-> [pos |-> q[i], kind |-> "change"]]
    BY <1>2, <2>1, <2>4, <2>5, <2>6 DEF ReplayAfter
  <2>8. \A i \in 1..k : q[i] \in Nat /\ q[i] <= Len(evs)
    <3>1. \A p \in P : p \in Nat /\ p <= Len(evs)
      BY <2>2
    <3>2. \A i \in 1..k : q[i] \in P
      BY <2>5, <2>6
    <3> QED
      BY <3>1, <3>2
  <2>9. \A i \in 1..k : [pos |-> q[i], kind |-> "change"] \in Event
    BY <2>8 DEF Event, Kinds
  <2> QED
    BY <2>2, <2>6, <2>7, <2>8, <2>9 DEF Within
<1> QED
  BY <1>1, <1>2

-----------------------------------------------------------------------------
(* What a step makes of one session's events.                              *)

(* The event just stored is the last one. *)
LEMMA LastOfFacts ==
    ASSUME NEW evs \in Seq(Kinds), NEW kind \in Kinds
    PROVE  /\ LastOf(evs, kind) \in Event /\ LastOf(evs, kind).kind = kind
           /\ LastOf(evs, kind).pos = Len(Retain(evs, kind))
<1>1. Len(Retain(evs, kind)) \in Nat
  BY RetainFacts
<1> QED
  BY <1>1 DEF LastOf, Event

(* The sequence qs is ss with the element e behind it. *)
Extends(S, ss, e, qs) ==
    /\ qs \in Seq(S) /\ Len(qs) = Len(ss) + 1 /\ qs[Len(ss) + 1] = e
    /\ \A i \in 1..Len(ss) : qs[i] = ss[i]

(* What concatenation with one element does. *)
LEMMA PutBehind ==
    ASSUME NEW S, NEW ss \in Seq(S), NEW e \in S
    PROVE  Extends(S, ss, e, ss \o <<e>>)
<1>1. PICK one : one = <<e>>
  OBVIOUS
<1>2. one \in Seq(S) /\ Len(one) = 1 /\ one[1] = e
  BY <1>1
<1>3. Len(ss) \in Nat
  OBVIOUS
<1>4. ss \o one \in Seq(S) /\ Len(ss \o one) = Len(ss) + 1
  BY <1>2, <1>3, ConcatProperties
<1>5. \A i \in 1..(Len(ss) + 1) : (ss \o one)[i] = IF i <= Len(ss) THEN ss[i] ELSE one[i - Len(ss)]
  BY <1>2, <1>3, ConcatProperties
<1>6. (ss \o one)[Len(ss) + 1] = e
  <2>1. \A n \in Nat : n + 1 \in 1..(n + 1) /\ ~(n + 1 <= n) /\ (n + 1) - n = 1
    OBVIOUS
  <2>2. Len(ss) + 1 \in 1..(Len(ss) + 1) /\ ~(Len(ss) + 1 <= Len(ss)) /\ (Len(ss) + 1) - Len(ss) = 1
    BY <1>3, <2>1, Zenon
  <2>3. (ss \o one)[Len(ss) + 1] = one[(Len(ss) + 1) - Len(ss)]
    BY <1>5, <2>2, Zenon
  <2> QED
    BY <1>2, <2>2, <2>3, Zenon
<1>7. \A i \in 1..Len(ss) : (ss \o one)[i] = ss[i]
  <2>1. \A i \in 1..Len(ss) : i \in 1..(Len(ss) + 1) /\ i <= Len(ss)
    BY <1>3
  <2> QED
    BY <1>5, <2>1, Zenon
<1> QED
  BY <1>1, <1>4, <1>6, <1>7, Zenon DEF Extends

(* The events ps that were on their way and one of the kind stored behind  *)
(* them.                                                                   *)
Behind(evs, kind, ps, qs) ==
    /\ qs \in Seq(Event) /\ Len(qs) = Len(ps) + 1 /\ qs # <<>>
    /\ Within(Retain(evs, kind), qs)
    /\ qs[Len(qs)].kind = kind /\ Len(qs) \in DOMAIN qs
    /\ \A i \in 1..Len(ps) : /\ qs[i].kind = ps[i].kind
                             /\ qs[i].pos < Len(Retain(evs, kind))

(* Events that were on their way, and a last one behind them. *)
LEMMA WithLast ==
    ASSUME NEW evs \in Seq(Kinds), NEW kind \in Kinds, NEW ps \in Seq(Event), Within(evs, ps)
    PROVE  Behind(evs, kind, ps, ShiftAll(ps, Evicts(evs)) \o <<LastOf(evs, kind)>>)
<1>1. PICK ss : ss = ShiftAll(ps, Evicts(evs))
  OBVIOUS
<1>11. PICK e : e = LastOf(evs, kind)
  OBVIOUS
<1>2. /\ ss \in Seq(Event) /\ Len(ss) = Len(ps)
      /\ \A i \in 1..Len(ps) : ss[i].kind = ps[i].kind /\ ss[i].pos < Len(Retain(evs, kind))
  BY <1>1, ShiftAllFacts
<1>3. e \in Event /\ e.kind = kind /\ e.pos = Len(Retain(evs, kind))
  BY <1>11, LastOfFacts
<1>4. Len(Retain(evs, kind)) \in Nat /\ Len(ps) \in Nat
  BY RetainFacts
<1>12. PICK qs : qs = ss \o <<e>>
  OBVIOUS
<1>13. /\ qs \in Seq(Event) /\ Len(qs) = Len(ss) + 1
       /\ qs[Len(ss) + 1] = e /\ \A i \in 1..Len(ss) : qs[i] = ss[i]
  <2>1. Extends(Event, ss, e, qs)
    BY <1>2, <1>3, <1>12, PutBehind, Zenon
  <2> QED
    BY <2>1, Zenon DEF Extends
<1>5. /\ qs \in Seq(Event) /\ Len(qs) = Len(ps) + 1 /\ DOMAIN qs = 1..(Len(ps) + 1)
      /\ qs[Len(ps) + 1] = e /\ \A i \in 1..Len(ps) : qs[i] = ss[i]
  BY <1>2, <1>13
<1>6. \A i \in 1..(Len(ps) + 1) : i = Len(ps) + 1 \/ i \in 1..Len(ps)
  BY <1>4
<1>7. \A i \in 1..Len(ps) : qs[i].pos \in Nat
  <2>1. \A i \in 1..Len(ps) : ss[i] \in Event
    BY <1>2
  <2> QED
    BY <1>5, <2>1 DEF Event
<1>8. Within(Retain(evs, kind), qs)
  <2> SUFFICES ASSUME NEW i \in DOMAIN qs
               PROVE  qs[i].pos <= Len(Retain(evs, kind))
    BY DEF Within
  <2>1. CASE i = Len(ps) + 1
    BY <1>3, <1>4, <1>5, <2>1
  <2>2. CASE i \in 1..Len(ps)
    BY <1>2, <1>4, <1>5, <1>7, <2>2
  <2> QED
    BY <1>5, <1>6, <2>1, <2>2
<1>9. qs # <<>> /\ Len(qs) \in DOMAIN qs
  BY <1>4, <1>5
<1>10. Behind(evs, kind, ps, qs)
  BY <1>2, <1>3, <1>5, <1>8, <1>9 DEF Behind
<1> QED
  BY <1>1, <1>10, <1>11, <1>12, Zenon

(* The priming event is sent. *)
LEMMA PrimeWire ==
    ASSUME NEW evs \in Seq(Kinds), NEW c \in Int, CursorOK(evs, c),
           NEW sent \in Seq(Event), Within(evs, sent),
           NEW ws, ws = ShiftAll(sent, Evicts(evs)) \o <<LastOf(evs, "prime")>>
    PROVE  /\ ws \in Seq(Event)
           /\ WireOK(Retain(evs, "prime"), "priming", ws, Shift(c, Evicts(evs)))
<1>1. "prime" \in Kinds
  BY DEF Kinds
<1>2. /\ ws \in Seq(Event) /\ Len(ws) = Len(sent) + 1
      /\ Within(Retain(evs, "prime"), ws)
      /\ \A i \in 1..Len(sent) : ws[i].pos < Len(Retain(evs, "prime"))
  <2>1. Behind(evs, "prime", sent, ws)
    BY <1>1, WithLast, Zenon
  <2> QED
    BY <2>1 DEF Behind
<1>3. Shift(c, Evicts(evs)) < Len(Retain(evs, "prime"))
  BY <1>1, ShiftFacts
<1>4. \A i \in DOMAIN ws : i < Len(ws) => i \in 1..Len(sent)
  BY <1>2
<1> QED
  BY <1>2, <1>3, <1>4 DEF WireOK

(* A change is stored, and sent when a stream is attached. *)
LEMMA SendWire ==
    ASSUME NEW evs \in Seq(Kinds), NEW c \in Int, CursorOK(evs, c), NEW st,
           NEW ws \in Seq(Event), WireOK(evs, st, ws, c),
           NEW us, us = ShiftAll(ws, Evicts(evs)) \o
                          IF st = "attached" THEN <<LastOf(evs, "change")>> ELSE <<>>
    PROVE  /\ us \in Seq(Event)
           /\ WireOK(Retain(evs, "change"), st, us, Shift(c, Evicts(evs)))
           /\ st = "attached" => \E i \in DOMAIN us : us[i].kind = "change"
           /\ st # "attached" => \A i \in DOMAIN us : us[i].pos < Len(Retain(evs, "change"))
<1>1. "change" \in Kinds /\ Within(evs, ws)
  BY DEF Kinds, WireOK
<1>2. EndsInChange(Retain(evs, "change"))
  BY <1>1, RetainFacts DEF EndsInChange
<1>3. CASE st = "attached"
  <2>1. /\ us \in Seq(Event) /\ Len(us) = Len(ws) + 1
        /\ Within(Retain(evs, "change"), us)
        /\ us[Len(us)].kind = "change" /\ Len(us) \in DOMAIN us
        /\ \A i \in 1..Len(ws) : us[i].kind = ws[i].kind
    <3>1. us = ShiftAll(ws, Evicts(evs)) \o <<LastOf(evs, "change")>>
      BY <1>3
    <3>2. Behind(evs, "change", ws, us)
      BY <1>1, <3>1, WithLast, Zenon
    <3> QED
      BY <3>2 DEF Behind
  <2>2. \A i \in DOMAIN us : i = Len(us) \/ i \in 1..Len(ws)
    BY <2>1
  <2>3. \A i \in 1..Len(ws) : i > 1 => ws[i].kind = "change"
    BY <1>3 DEF WireOK
  <2>4. \A i \in DOMAIN us : i > 1 => us[i].kind = "change"
    BY <2>1, <2>2, <2>3
  <2> QED
    BY <1>2, <1>3, <2>1, <2>4 DEF WireOK
<1>4. CASE st # "attached"
  <2>1. PICK ss : ss = ShiftAll(ws, Evicts(evs))
    OBVIOUS
  <2>2. /\ ss \in Seq(Event) /\ Len(ss) = Len(ws)
        /\ \A i \in 1..Len(ws) : ss[i].pos < Len(Retain(evs, "change"))
    BY <1>1, <2>1, ShiftAllFacts
  <2>3. us = ss
    BY <1>4, <2>1, <2>2
  <2>4. \A i \in DOMAIN us : us[i].pos < Len(Retain(evs, "change")) /\ us[i].pos \in Nat
    <3>1. \A i \in DOMAIN us : i \in 1..Len(ws) /\ ss[i] \in Event
      BY <2>2, <2>3
    <3> QED
      BY <2>2, <2>3, <3>1 DEF Event
  <2>5. Within(Retain(evs, "change"), us)
    <3>1. Len(Retain(evs, "change")) \in Nat
      BY <1>1, RetainFacts
    <3> QED
      BY <2>4, <3>1 DEF Within
  <2>6. st = "none" => us = <<>>
    <3>1. st = "none" => Len(ws) = 0
      BY DEF WireOK
    <3>2. Len(ss) = 0 => ss = <<>>
      BY <2>2, EmptySeq
    <3> QED
      BY <2>2, <2>3, <3>1, <3>2
  <2> QED
    BY <1>2, <1>4, <2>2, <2>3, <2>4, <2>5, <2>6 DEF WireOK
<1> QED
  BY <1>3, <1>4

(* What is still to be replayed moves with the store. *)
LEMMA SendReplay ==
    ASSUME NEW evs \in Seq(Kinds), NEW st, NEW rep \in Seq(Event), ReplayOK(evs, st, rep)
    PROVE  /\ ShiftAll(rep, Evicts(evs)) \in Seq(Event)
           /\ ReplayOK(Retain(evs, "change"), st, ShiftAll(rep, Evicts(evs)))
<1>1. "change" \in Kinds /\ Within(evs, rep)
  BY DEF Kinds, ReplayOK
<1>2. EndsInChange(Retain(evs, "change")) /\ Len(Retain(evs, "change")) \in Nat
  BY <1>1, RetainFacts DEF EndsInChange
<1>3. PICK ss : ss = ShiftAll(rep, Evicts(evs))
  OBVIOUS
<1>4. /\ ss \in Seq(Event) /\ Len(ss) = Len(rep)
      /\ \A i \in 1..Len(rep) : ss[i].kind = rep[i].kind /\ ss[i].pos < Len(Retain(evs, "change"))
  BY <1>1, <1>3, ShiftAllFacts
<1>5. Within(Retain(evs, "change"), ss)
  <2>1. \A i \in DOMAIN ss : i \in 1..Len(rep) /\ ss[i] \in Event
    BY <1>4
  <2> QED
    BY <1>2, <1>4, <2>1 DEF Within, Event
<1>6. rep # <<>> => ss # <<>> /\ ss[Len(ss)].kind = rep[Len(rep)].kind
  <2>1. rep # <<>> => Len(rep) \in 1..Len(rep)
    OBVIOUS
  <2> QED
    BY <1>4, <2>1
<1>7. rep = <<>> => ss = <<>>
  BY <1>4
<1> QED
  BY <1>2, <1>3, <1>4, <1>5, <1>6, <1>7 DEF ReplayOK

(* The cursor moves with the store, and stays a cursor. *)
LEMMA CursorMoves ==
    ASSUME NEW evs \in Seq(Kinds), NEW kind \in Kinds, NEW c \in Int, CursorOK(evs, c)
    PROVE  /\ Shift(c, Evicts(evs)) \in Int
           /\ CursorOK(Retain(evs, kind), Shift(c, Evicts(evs)))
           /\ c # NoCursor => Shift(c, Evicts(evs)) # NoCursor
<1>1. Len(Retain(evs, kind)) \in Nat
  BY RetainFacts
<1> QED
  BY <1>1, ShiftFacts DEF CursorOK

(* With a change at the end of the store every cursor leads to a           *)
(* resynchronisation; and so does one that lies before the end.            *)
LEMMA Resyncs ==
    ASSUME NEW evs \in Seq(Kinds), NEW c \in Int, CursorOK(evs, c), EndsInChange(evs) \/ c < Len(evs)
    PROVE  RequiresResync(evs, c)
<1>1. Len(evs) \in Nat
  OBVIOUS
<1> QED
  BY <1>1 DEF RequiresResync, EndsInChange, CursorOK

-----------------------------------------------------------------------------
(* A step that touches one session.                                        *)

HasChange(ps) == \E i \in DOMAIN ps : ps[i].kind = "change"
Recovers(evs, ws, c) ==
    \A d \in {c} \union {ws[i].pos : i \in DOMAIN ws} : RequiresResync(evs, d)

(* Nothing a session keeps is changed. *)
Untouched(t) ==
    /\ store'[t] = store[t] /\ stream'[t] = stream[t] /\ replay'[t] = replay[t]
    /\ wire'[t] = wire[t] /\ cursor'[t] = cursor[t] /\ view'[t] = view[t] /\ told'[t] = told[t]

(* What one session keeps. *)
Keeps(s, evs, st, rep, ws, c, v, b) ==
    /\ store[s] = evs /\ stream[s] = st /\ replay[s] = rep /\ wire[s] = ws
    /\ cursor[s] = c /\ view[s] = v /\ told[s] = b

(* The step gives one session new values. *)
Becomes(s, evs, st, rep, ws, c, v, b) ==
    /\ store' = [store EXCEPT ![s] = evs] /\ stream' = [stream EXCEPT ![s] = st]
    /\ replay' = [replay EXCEPT ![s] = rep] /\ wire' = [wire EXCEPT ![s] = ws]
    /\ cursor' = [cursor EXCEPT ![s] = c] /\ view' = [view EXCEPT ![s] = v]
    /\ told' = [told EXCEPT ![s] = b]

TypesOK(evs, st, rep, ws, c, v, b) ==
    /\ evs \in Seq(Kinds) /\ st \in Streams /\ rep \in Seq(Event) /\ ws \in Seq(Event)
    /\ c \in Int /\ v \in Views /\ b \in BOOLEAN

Consistent(evs, st, rep, ws, c, v) ==
    /\ ReplayOK(evs, st, rep) /\ WireOK(evs, st, ws, c) /\ CursorOK(evs, c)
    /\ v.primed => c # NoCursor

Tells(evs, rep, ws, c, b) == b \/ HasChange(rep) \/ HasChange(ws) \/ Recovers(evs, ws, c)

(* The invariant, of the values a session keeps. *)
LEMMA KeepsFacts ==
    ASSUME ToolListInv, NEW s \in Sessions, NEW evs, NEW st, NEW rep, NEW ws, NEW c, NEW v, NEW b,
           Keeps(s, evs, st, rep, ws, c, v, b)
    PROVE  /\ TypesOK(evs, st, rep, ws, c, v, b)
           /\ Consistent(evs, st, rep, ws, c, v)
           /\ Watched(s) => s \in sending \/ Tells(evs, rep, ws, c, b)
<1>1. TypesOK(evs, st, rep, ws, c, v, b)
  BY DEF ToolListInv, SessionsOK, Keeps, TypesOK
<1>2. Consistent(evs, st, rep, ws, c, v)
  BY DEF ToolListInv, StreamOK, Keeps, Consistent
<1>3. Watched(s) => Signalled(s)
  BY DEF ToolListInv
<1>4. Signalled(s) => s \in sending \/ Tells(evs, rep, ws, c, b)
  BY DEF Signalled, Coming, Recoverable, Keeps, Tells, HasChange, Recovers
<1> QED
  BY <1>1, <1>2, <1>3, <1>4

(* A session that is not touched stays as it is. *)
LEMMA StaysOK ==
    ASSUME NEW t, Untouched(t), StreamOK(t)
    PROVE  StreamOK(t)'
BY DEF Untouched, StreamOK

(* Its signal stays where it is. *)
LEMMA StaysSignalled ==
    ASSUME NEW t, Untouched(t), t \in sending => t \in sending', Signalled(t)
    PROVE  Signalled(t)'
<1>1. Coming(t) => Coming(t)'
  BY DEF Untouched, Coming
<1>2. Recoverable(t) => Recoverable(t)'
  BY DEF Untouched, Recoverable
<1>3. told[t] => told'[t]
  BY DEF Untouched
<1> QED
  BY <1>1, <1>2, <1>3 DEF Signalled

(* The session that is touched takes its new values, and the others stay. *)
LEMMA BecomesFacts ==
    ASSUME SessionsOK, NEW s \in Sessions,
           NEW evs, NEW st, NEW rep, NEW ws, NEW c, NEW v, NEW b,
           TypesOK(evs, st, rep, ws, c, v, b), Becomes(s, evs, st, rep, ws, c, v, b),
           active' \subseteq Sessions
    PROVE  SessionsOK' /\ Keeps(s, evs, st, rep, ws, c, v, b)'
           /\ \A t \in Sessions \ {s} : Untouched(t)
<1>1. store' \in [Sessions -> Seq(Kinds)] /\ stream' \in [Sessions -> Streams]
      /\ store'[s] = evs /\ stream'[s] = st
      /\ \A t \in Sessions \ {s} : store'[t] = store[t] /\ stream'[t] = stream[t]
  BY DEF SessionsOK, TypesOK, Becomes
<1>2. replay' \in [Sessions -> Seq(Event)] /\ wire' \in [Sessions -> Seq(Event)]
      /\ replay'[s] = rep /\ wire'[s] = ws
      /\ \A t \in Sessions \ {s} : replay'[t] = replay[t] /\ wire'[t] = wire[t]
  BY DEF SessionsOK, TypesOK, Becomes
<1>3. cursor' \in [Sessions -> Int] /\ cursor'[s] = c
      /\ \A t \in Sessions \ {s} : cursor'[t] = cursor[t]
  BY DEF SessionsOK, TypesOK, Becomes
<1>4. view' \in [Sessions -> Views] /\ view'[s] = v
      /\ \A t \in Sessions \ {s} : view'[t] = view[t]
  BY DEF SessionsOK, TypesOK, Becomes
<1>5. told' \in [Sessions -> BOOLEAN] /\ told'[s] = b
      /\ \A t \in Sessions \ {s} : told'[t] = told[t]
  BY DEF SessionsOK, TypesOK, Becomes
<1>6. SessionsOK'
  BY <1>1, <1>2, <1>3, <1>4, <1>5 DEF SessionsOK
<1>7. Keeps(s, evs, st, rep, ws, c, v, b)'
  BY <1>1, <1>2, <1>3, <1>4, <1>5, Zenon DEF Keeps
<1>8. \A t \in Sessions \ {s} : Untouched(t)
  BY <1>1, <1>2, <1>3, <1>4, <1>5, Zenon DEF Untouched
<1> QED
  BY <1>6, <1>7, <1>8

(* A step that gives one session consistent values preserves the invariant *)
(* when that session is told what it must be.                              *)
LEMMA SessionStep ==
    ASSUME ToolListInv, NEW s \in Sessions,
           NEW evs, NEW st, NEW rep, NEW ws, NEW c, NEW v, NEW b,
           TypesOK(evs, st, rep, ws, c, v, b), Becomes(s, evs, st, rep, ws, c, v, b),
           Consistent(evs, st, rep, ws, c, v),
           NotifierOK', healthy' = healthy, active' \subseteq active,
           sending \ {s} \subseteq sending', registered \ {s} \subseteq registered',
           Watched(s)' => s \in sending' \/ Tells(evs, rep, ws, c, b)
    PROVE  ToolListInv'
<1>1. SessionsOK' /\ Keeps(s, evs, st, rep, ws, c, v, b)' /\ \A t \in Sessions \ {s} : Untouched(t)
  <2>1. active' \subseteq Sessions /\ SessionsOK
    BY DEF ToolListInv, SessionsOK
  <2> QED
    BY <2>1, BecomesFacts
<1>2. ASSUME NEW t \in Sessions \ {s}
      PROVE  StreamOK(t)' /\ (Watched(t)' => Signalled(t)')
  <2>1. StreamOK(t) /\ (Watched(t) => Signalled(t)) /\ Untouched(t)
    BY <1>1, <1>2 DEF ToolListInv
  <2>2. Watched(t)' => Watched(t)
    BY <2>1, <1>2 DEF Watched, Stale, Untouched
  <2>3. t \in sending => t \in sending'
    BY <1>2
  <2> QED
    BY <2>1, <2>2, <2>3, StaysOK, StaysSignalled
<1>3. StreamOK(s)'
  BY <1>1 DEF StreamOK, Keeps, Consistent
<1>4. Watched(s)' => Signalled(s)'
  <2>1. s \in sending' \/ Tells(evs, rep, ws, c, b) => Signalled(s)'
    BY <1>1 DEF Keeps, Signalled, Coming, Recoverable, Tells, HasChange, Recovers
  <2> QED
    BY <2>1
<1> QED
  BY <1>1, <1>2, <1>3, <1>4 DEF ToolListInv

(* A step that touches no session. *)
LEMMA NoSessionStep ==
    ASSUME ToolListInv, NotifierOK', SessionsOK', \A t \in Sessions : Untouched(t),
           \A t \in Sessions : Watched(t)' => Watched(t) \/ t \in sending',
           sending \subseteq sending'
    PROVE  ToolListInv'
<1>1. ASSUME NEW t \in Sessions
      PROVE  StreamOK(t)' /\ (Watched(t)' => Signalled(t)')
  <2>1. StreamOK(t) /\ (Watched(t) => Signalled(t)) /\ Untouched(t)
    BY <1>1 DEF ToolListInv
  <2>2. t \in sending' => Signalled(t)'
    BY DEF Signalled, Coming
  <2> QED
    BY <2>1, <2>2, StaysOK, StaysSignalled
<1> QED
  BY <1>1 DEF ToolListInv

-----------------------------------------------------------------------------
(* The steps of the monitor and of the notifier.                           *)

(* Nothing a session keeps is named by the step. *)
LEMMA AllUntouched ==
    ASSUME ToolListInv, UNCHANGED <<active, streamVars, view, told>>
    PROVE  SessionsOK' /\ \A t \in Sessions : Untouched(t)
BY DEF ToolListInv, SessionsOK, Untouched, streamVars

(* A tool changes, a pass begins or a probe answers. *)
LEMMA MonitorStep ==
    ASSUME ToolListInv, UNCHANGED <<healthy, sending, registered, active, streamVars, view, told>>,
           NotifierOK'
    PROVE  ToolListInv'
<1>1. SessionsOK' /\ \A t \in Sessions : Untouched(t)
  BY AllUntouched
<1>2. \A t \in Sessions : Watched(t)' => Watched(t)
  BY DEF Watched, Stale
<1> QED
  BY <1>1, <1>2, NoSessionStep

(* A change of the health is sent to the sessions that are registered; the *)
(* others were dropped, and had their signal before.                       *)
LEMMA PublishStep ==
    ASSUME ToolListInv, monitor = "probing", Publish(healthy' # healthy),
           UNCHANGED <<active, streamVars, view, told>>
    PROVE  ToolListInv'
<1>1. SessionsOK' /\ \A t \in Sessions : Untouched(t)
  BY AllUntouched
<1>2. sending = {} /\ NotifierOK'
  BY DEF ToolListInv, NotifierOK, Publish
<1>3. ASSUME NEW t \in Sessions, Watched(t)'
      PROVE  Watched(t) \/ t \in sending'
  <2>1. t \in active /\ view[t].primed
    BY <1>3 DEF Watched
  <2>2. CASE healthy' = healthy
    <3>1. registered' = registered
      BY <2>2 DEF Publish
    <3> QED
      BY <1>3, <2>2, <3>1 DEF Watched, Stale
  <2>3. CASE healthy' # healthy
    <3>1. sending' = registered \intersect active
      BY <2>3 DEF Publish
    <3> QED
      BY <2>1, <3>1 DEF Watched
  <2> QED
    BY <2>2, <2>3
<1> QED
  BY <1>1, <1>2, <1>3, NoSessionStep

(* What Sent leaves. *)
LEMMA SentFacts ==
    ASSUME NEW s, s \in sending, Sent(s)
    PROVE  NotifierOK' /\ sending \ {s} \subseteq sending'
BY DEF Sent, NotifierOK

(* With a change stored last, a session whose stream is not attached       *)
(* resynchronises with whatever cursor it has.                             *)
LEMMA ChangeRecovers ==
    ASSUME NEW evs \in Seq(Kinds), EndsInChange(evs), NEW ws \in Seq(Event), Within(evs, ws),
           NEW c \in Int, CursorOK(evs, c)
    PROVE  Recovers(evs, ws, c)
<1>1. \A i \in DOMAIN ws : ws[i].pos \in Int /\ CursorOK(evs, ws[i].pos)
  <2>1. \A i \in DOMAIN ws : ws[i] \in Event
    OBVIOUS
  <2>2. \A i \in DOMAIN ws : ws[i].pos \in Nat
    BY <2>1 DEF Event
  <2> QED
    BY <2>2 DEF CursorOK, Within, NoCursor
<1>2. \A d \in {c} \union {ws[i].pos : i \in DOMAIN ws} : d \in Int /\ CursorOK(evs, d)
  BY <1>1
<1> QED
  BY <1>2, Resyncs DEF Recovers

(* A change is stored and sent. *)
LEMMA SendStep ==
    ASSUME ToolListInv, NEW s \in Sessions, Send(s)
    PROVE  ToolListInv'
<1>1. PICK evs, st, rep, ws, c, v, b : Keeps(s, evs, st, rep, ws, c, v, b)
  BY DEF Keeps
<1>2. TypesOK(evs, st, rep, ws, c, v, b) /\ Consistent(evs, st, rep, ws, c, v)
  BY <1>1, KeepsFacts
<1>3. PICK evs2, rep2, ws2, c2 :
         /\ evs2 = Retain(evs, "change") /\ rep2 = ShiftAll(rep, Evicts(evs))
         /\ ws2 = ShiftAll(ws, Evicts(evs)) \o
                    IF st = "attached" THEN <<LastOf(evs, "change")>> ELSE <<>>
         /\ c2 = Shift(c, Evicts(evs))
  OBVIOUS
<1>4. Becomes(s, evs2, st, rep2, ws2, c2, v, b)
  <2>1. store' = [store EXCEPT ![s] = evs2] /\ replay' = [replay EXCEPT ![s] = rep2]
        /\ cursor' = [cursor EXCEPT ![s] = c2] /\ wire' = [wire EXCEPT ![s] = ws2]
    BY <1>1, <1>3 DEF Send, Keeps
  <2>2. stream' = [stream EXCEPT ![s] = st] /\ view' = [view EXCEPT ![s] = v]
        /\ told' = [told EXCEPT ![s] = b]
    BY <1>1 DEF Send, Keeps, ToolListInv, SessionsOK
  <2> QED
    BY <2>1, <2>2 DEF Becomes
<1>5. "change" \in Kinds
  BY DEF Kinds
<1>6. evs2 \in Seq(Kinds) /\ EndsInChange(evs2)
  BY <1>2, <1>3, <1>5, RetainFacts DEF TypesOK, EndsInChange
<1>7. rep2 \in Seq(Event) /\ ReplayOK(evs2, st, rep2)
  BY <1>2, <1>3, SendReplay DEF TypesOK, Consistent
<1>8. ws2 \in Seq(Event) /\ WireOK(evs2, st, ws2, c2)
  <2>1. evs \in Seq(Kinds) /\ c \in Int /\ CursorOK(evs, c) /\ ws \in Seq(Event) /\ WireOK(evs, st, ws, c)
    BY <1>2 DEF TypesOK, Consistent
  <2> QED
    BY <1>3, <2>1, SendWire
<1>9. c2 \in Int /\ CursorOK(evs2, c2) /\ (c # NoCursor => c2 # NoCursor)
  BY <1>2, <1>3, <1>5, CursorMoves DEF TypesOK, Consistent
<1>10. TypesOK(evs2, st, rep2, ws2, c2, v, b) /\ Consistent(evs2, st, rep2, ws2, c2, v)
  BY <1>2, <1>6, <1>7, <1>8, <1>9 DEF TypesOK, Consistent
<1>11. Recovers(evs2, ws2, c2)
  BY <1>6, <1>8, <1>9, ChangeRecovers DEF WireOK
<1>12. NotifierOK' /\ sending \ {s} \subseteq sending'
  BY SentFacts DEF Send
<1>13. healthy' = healthy /\ active' = active /\ registered' = registered
  BY DEF Send
<1> QED
  BY <1>4, <1>10, <1>11, <1>12, <1>13, SessionStep DEF Tells

(* A session is dropped when it has ended, or when its stream holds more   *)
(* than one event that it has not taken, one of which is a change.         *)
LEMMA SendFailsStep ==
    ASSUME ToolListInv, NEW s \in Sessions, SendFails(s)
    PROVE  ToolListInv'
<1>1. PICK evs, st, rep, ws, c, v, b : Keeps(s, evs, st, rep, ws, c, v, b)
  BY DEF Keeps
<1>2. TypesOK(evs, st, rep, ws, c, v, b) /\ Consistent(evs, st, rep, ws, c, v)
  BY <1>1, KeepsFacts
<1>3. Becomes(s, evs, st, rep, ws, c, v, b)
  BY <1>1 DEF SendFails, Keeps, Becomes, ToolListInv, SessionsOK, streamVars
<1>4. Watched(s)' => HasChange(ws)
  <2> SUFFICES ASSUME s \in active
               PROVE  HasChange(ws)
    BY DEF SendFails, Watched
  <2>1. st = "attached" /\ Len(ws) = WireSize
    BY <1>1 DEF SendFails, Keeps
  <2>2. ws \in Seq(Event) /\ \A i \in DOMAIN ws : i > 1 => ws[i].kind = "change"
    BY <1>2, <2>1 DEF TypesOK, Consistent, WireOK
  <2>3. 2 \in DOMAIN ws
    <3>1. \A n \in Nat \ {0, 1} : 2 \in 1..n
      OBVIOUS
    <3>2. 2 \in 1..Len(ws)
      BY <2>1, <3>1, ToolListAssumption
    <3> QED
      BY <2>2, <3>2
  <2> QED
    BY <2>2, <2>3 DEF HasChange
<1>5. NotifierOK' /\ sending \ {s} \subseteq sending'
  BY SentFacts DEF SendFails
<1>6. healthy' = healthy /\ active' = active /\ registered \ {s} \subseteq registered'
  BY DEF SendFails
<1> QED
  BY <1>2, <1>3, <1>4, <1>5, <1>6, SessionStep DEF Tells

-----------------------------------------------------------------------------
(* The client's requests and its stream.                                   *)

(* What a step of the client leaves alone. *)
LEMMA QuietFacts ==
    ASSUME ToolListInv, UNCHANGED <<monitorVars, sending>>
    PROVE  NotifierOK' /\ healthy' = healthy /\ sending' = sending
BY DEF ToolListInv, NotifierOK, monitorVars

(* A session that must be told after a step of its stream had to be before. *)
LEMMA WatchedBefore ==
    ASSUME NEW s, UNCHANGED <<monitorVars, registered, active, view>>
    PROVE  Watched(s)' => Watched(s)
BY DEF Watched, Stale, monitorVars

(* A listing: the client is registered, and its view is what is available. *)
LEMMA ListToolsStep ==
    ASSUME ToolListInv, NEW s \in Sessions, ListTools(s)
    PROVE  ToolListInv'
<1>1. PICK evs, st, rep, ws, c, v, b : Keeps(s, evs, st, rep, ws, c, v, b)
  BY DEF Keeps
<1>2. TypesOK(evs, st, rep, ws, c, v, b) /\ Consistent(evs, st, rep, ws, c, v)
  BY <1>1, KeepsFacts
<1>3. PICK p \in BOOLEAN : p = (c # NoCursor)
  OBVIOUS
<1>4. PICK v2 : v2 = [listed |-> TRUE, tools |-> healthy \intersect SafeTools, primed |-> p]
  OBVIOUS
<1>5. v2 \in Views /\ v2.tools = healthy \intersect SafeTools /\ (v2.primed => c # NoCursor)
  <2>1. v2 \in Views
    BY <1>3, <1>4 DEF Views
  <2>2. v2.tools = healthy \intersect SafeTools /\ v2.primed = p
    BY <1>4
  <2> QED
    BY <1>3, <2>1, <2>2
<1>6. Becomes(s, evs, st, rep, ws, c, v2, FALSE)
  <2>1. store' = [store EXCEPT ![s] = evs] /\ stream' = [stream EXCEPT ![s] = st]
        /\ replay' = [replay EXCEPT ![s] = rep] /\ wire' = [wire EXCEPT ![s] = ws]
        /\ cursor' = [cursor EXCEPT ![s] = c]
    BY <1>1 DEF ListTools, Keeps, ToolListInv, SessionsOK, streamVars
  <2>2. view' = [view EXCEPT ![s] = v2]
    <3>1. cursor[s] = c
      BY <1>1 DEF Keeps
    <3> QED
      BY <1>3, <1>4, <3>1 DEF ListTools
  <2> QED
    BY <2>1, <2>2 DEF ListTools, Becomes
<1>7. TypesOK(evs, st, rep, ws, c, v2, FALSE) /\ Consistent(evs, st, rep, ws, c, v2)
  BY <1>2, <1>5 DEF TypesOK, Consistent
<1>8. NotifierOK' /\ healthy' = healthy /\ sending' = sending
  BY QuietFacts DEF ListTools
<1>9. active' = active /\ registered \subseteq registered' /\ s \in registered'
  BY DEF ListTools
<1>10. ~Watched(s)'
  <2>1. view'[s] = v2
    BY <1>6 DEF Becomes, ToolListInv, SessionsOK
  <2> QED
    BY <1>5, <1>8, <1>9, <2>1 DEF Watched, Stale
<1> QED
  BY <1>6, <1>7, <1>8, <1>9, <1>10, SessionStep

(* A priming event is stored and sent behind what was sent. *)
LEMMA PrimeStep ==
    ASSUME ToolListInv, NEW s \in Sessions, NEW evs \in Seq(Kinds), NEW sent \in Seq(Event),
           Within(evs, sent), CursorOK(evs, cursor[s]), Prime(s, evs, cursor[s], sent),
           UNCHANGED <<monitorVars, sending, registered, active, view, told>>,
           Watched(s)' => s \in sending \/ told[s] \/ HasChange(sent)
    PROVE  ToolListInv'
<1>1. PICK old, st, rep, ws, c, v, b : Keeps(s, old, st, rep, ws, c, v, b)
  BY DEF Keeps
<1>2. TypesOK(old, st, rep, ws, c, v, b) /\ Consistent(old, st, rep, ws, c, v)
  BY <1>1, KeepsFacts
<1>3. cursor[s] = c /\ told[s] = b /\ view[s] = v
  BY <1>1 DEF Keeps
<1>4. PICK evs2 : evs2 = Retain(evs, "prime")
  OBVIOUS
<1>5. PICK ws2 : ws2 = ShiftAll(sent, Evicts(evs)) \o <<LastOf(evs, "prime")>>
  OBVIOUS
<1>6. PICK c2 : c2 = Shift(c, Evicts(evs))
  OBVIOUS
<1>7. Becomes(s, evs2, "priming", <<>>, ws2, c2, v, b)
  <2>1. view' = [view EXCEPT ![s] = v] /\ told' = [told EXCEPT ![s] = b]
    BY <1>3 DEF ToolListInv, SessionsOK
  <2> QED
    BY <1>3, <1>4, <1>5, <1>6, <2>1 DEF Prime, Becomes
<1>8. "prime" \in Kinds /\ c \in Int /\ CursorOK(evs, c)
  BY <1>2, <1>3 DEF Kinds, TypesOK
<1>9. evs2 \in Seq(Kinds)
  BY <1>4, <1>8, RetainFacts
<1>10. ws2 \in Seq(Event) /\ WireOK(evs2, "priming", ws2, c2)
  BY <1>4, <1>5, <1>6, <1>8, PrimeWire
<1>11. c2 \in Int /\ CursorOK(evs2, c2) /\ (c # NoCursor => c2 # NoCursor)
  BY <1>4, <1>6, <1>8, CursorMoves
<1>12. <<>> \in Seq(Event) /\ ReplayOK(evs2, "priming", <<>>)
  BY DEF ReplayOK, Within
<1>13. TypesOK(evs2, "priming", <<>>, ws2, c2, v, b) /\ Consistent(evs2, "priming", <<>>, ws2, c2, v)
  BY <1>2, <1>9, <1>10, <1>11, <1>12 DEF TypesOK, Consistent, Streams
<1>14. HasChange(sent) => HasChange(ws2)
  <2>1. Behind(evs, "prime", sent, ws2)
    BY <1>5, <1>8, WithLast, Zenon
  <2>2. /\ ws2 \in Seq(Event) /\ Len(ws2) = Len(sent) + 1
        /\ \A i \in 1..Len(sent) : ws2[i].kind = sent[i].kind
    BY <2>1 DEF Behind
  <2>3. \A i \in DOMAIN sent : i \in 1..Len(sent) /\ i \in DOMAIN ws2
    BY <2>2
  <2> QED
    BY <2>2, <2>3 DEF HasChange
<1>15. NotifierOK' /\ healthy' = healthy /\ sending' = sending
  BY QuietFacts
<1>16. Watched(s)' => s \in sending' \/ Tells(evs2, <<>>, ws2, c2, b)
  BY <1>3, <1>14, <1>15 DEF Tells
<1> QED
  BY <1>7, <1>13, <1>15, <1>16, SessionStep

(* A reconnect that must be resynchronised: a change is stored behind what *)
(* is replayed.                                                            *)
LEMMA ResyncStep ==
    ASSUME ToolListInv, NEW s \in Sessions, stream[s] = "none", cursor[s] # NoCursor,
           RequiresResync(store[s], cursor[s]), Replay(s, store[s], cursor[s]),
           UNCHANGED <<monitorVars, sending, registered, active, view, told>>
    PROVE  ToolListInv'
<1>1. PICK evs, st, rep, ws, c, v, b : Keeps(s, evs, st, rep, ws, c, v, b)
  BY DEF Keeps
<1>2. TypesOK(evs, st, rep, ws, c, v, b) /\ Consistent(evs, st, rep, ws, c, v)
  BY <1>1, KeepsFacts
<1>3. store[s] = evs /\ cursor[s] = c /\ view[s] = v /\ told[s] = b /\ wire[s] = ws /\ ws = <<>>
  BY <1>1, <1>2 DEF Keeps, Consistent, WireOK
<1>4. PICK evs2 : evs2 = Retain(evs, "change")
  OBVIOUS
<1>5. PICK rep2 : rep2 = ShiftAll(ReplayAfter(evs, c), Evicts(evs)) \o <<LastOf(evs, "change")>>
  OBVIOUS
<1>6. PICK c2 : c2 = Shift(c, Evicts(evs))
  OBVIOUS
<1>7. Becomes(s, evs2, "replaying", rep2, ws, c2, v, b)
  <2>1. view' = [view EXCEPT ![s] = v] /\ told' = [told EXCEPT ![s] = b]
    BY <1>3 DEF ToolListInv, SessionsOK
  <2>2. /\ store' = [store EXCEPT ![s] = evs2] /\ replay' = [replay EXCEPT ![s] = rep2]
        /\ cursor' = [cursor EXCEPT ![s] = c2] /\ stream' = [stream EXCEPT ![s] = "replaying"]
        /\ wire' = wire
    BY <1>3, <1>4, <1>5, <1>6 DEF Replay
  <2>3. wire' = [wire EXCEPT ![s] = ws]
    BY <1>3, <2>2 DEF ToolListInv, SessionsOK
  <2> QED
    BY <2>1, <2>2, <2>3 DEF Becomes
<1>8. "change" \in Kinds /\ evs \in Seq(Kinds) /\ c \in Int /\ CursorOK(evs, c) /\ c \in Nat
  BY <1>2, <1>3 DEF Kinds, TypesOK, Consistent, CursorOK, NoCursor
<1>9. evs2 \in Seq(Kinds) /\ EndsInChange(evs2)
  BY <1>4, <1>8, RetainFacts DEF EndsInChange
<1>10. Behind(evs, "change", ReplayAfter(evs, c), rep2)
  <2>1. ReplayAfter(evs, c) \in Seq(Event) /\ Within(evs, ReplayAfter(evs, c))
    BY <1>8, ReplayAfterFacts
  <2> QED
    BY <1>5, <1>8, <2>1, WithLast, Zenon
<1>11. /\ rep2 \in Seq(Event) /\ rep2 # <<>> /\ Within(evs2, rep2)
       /\ rep2[Len(rep2)].kind = "change" /\ Len(rep2) \in DOMAIN rep2
  BY <1>4, <1>10 DEF Behind
<1>12. ReplayOK(evs2, "replaying", rep2) /\ HasChange(rep2)
  BY <1>9, <1>11 DEF ReplayOK, HasChange
<1>13. c2 \in Int /\ CursorOK(evs2, c2) /\ (c # NoCursor => c2 # NoCursor)
  BY <1>4, <1>6, <1>8, CursorMoves
<1>14. ws \in Seq(Event) /\ WireOK(evs2, "replaying", ws, c2)
  BY <1>3, <1>9 DEF WireOK, Within
<1>15. TypesOK(evs2, "replaying", rep2, ws, c2, v, b) /\ Consistent(evs2, "replaying", rep2, ws, c2, v)
  BY <1>2, <1>9, <1>11, <1>12, <1>13, <1>14 DEF TypesOK, Consistent, Streams
<1>16. NotifierOK' /\ healthy' = healthy /\ sending' = sending
  BY QuietFacts
<1> QED
  BY <1>7, <1>12, <1>15, <1>16, SessionStep DEF Tells

(* A client without a cursor is primed: the store then ends in the priming *)
(* event that is its cursor, and nothing is resynchronised.                *)
LEMMA FirstStreamStep ==
    ASSUME ToolListInv, NEW s \in Sessions, cursor[s] = NoCursor, OpenStream(s)
    PROVE  ToolListInv'
<1>1. store[s] \in Seq(Kinds) /\ "prime" \in Kinds /\ ~view[s].primed
  BY DEF ToolListInv, SessionsOK, StreamOK, Kinds
<1>2. PICK evs : evs = Retain(store[s], "prime")
  OBVIOUS
<1>3. evs \in Seq(Kinds) /\ evs # <<>> /\ evs[Len(evs)] = "prime"
  BY <1>1, <1>2, RetainFacts
<1>4. Len(evs) \in Nat \ {0}
  BY <1>3, EmptySeq
<1>5. ~RequiresResync(evs, Len(evs))
  BY <1>3, <1>4 DEF RequiresResync, Evicted
<1>6. Prime(s, evs, cursor[s], <<>>)
      /\ UNCHANGED <<monitorVars, sending, registered, active, view, told>>
  BY <1>2, <1>5 DEF OpenStream, Replay
<1>7. <<>> \in Seq(Event) /\ Within(evs, <<>>) /\ CursorOK(evs, cursor[s])
  BY <1>4 DEF Within, CursorOK, NoCursor
<1>8. ~Watched(s)'
  BY <1>1, <1>6 DEF Watched
<1> QED
  BY <1>3, <1>6, <1>7, <1>8, PrimeStep

(* A client that reconnects is resynchronised, or has missed nothing. *)
LEMMA ReconnectStep ==
    ASSUME ToolListInv, NEW s \in Sessions, cursor[s] # NoCursor, OpenStream(s)
    PROVE  ToolListInv'
<1>1. /\ stream[s] = "none" /\ Replay(s, store[s], cursor[s])
      /\ UNCHANGED <<monitorVars, sending, registered, active, view, told>>
  BY DEF OpenStream
<1>2. CASE RequiresResync(store[s], cursor[s])
  BY <1>1, <1>2, ResyncStep
<1>3. CASE ~RequiresResync(store[s], cursor[s])
  <2>1. Prime(s, store[s], cursor[s], <<>>)
    BY <1>1, <1>3 DEF Replay
  <2>2. PICK evs, st, rep, ws, c, v, b : Keeps(s, evs, st, rep, ws, c, v, b)
    BY DEF Keeps
  <2>3. /\ TypesOK(evs, st, rep, ws, c, v, b) /\ Consistent(evs, st, rep, ws, c, v)
        /\ Watched(s) => s \in sending \/ Tells(evs, rep, ws, c, b)
    BY <2>2, KeepsFacts
  <2>4. store[s] = evs /\ cursor[s] = c /\ told[s] = b /\ rep = <<>>
    BY <1>1, <2>2, <2>3 DEF Keeps, Consistent, ReplayOK
  <2>5. ws = <<>>
    BY <1>1, <2>2, <2>3 DEF Keeps, Consistent, WireOK
  <2>6. ~HasChange(rep) /\ ~HasChange(ws) /\ ~Recovers(evs, ws, c)
    BY <1>3, <2>4, <2>5 DEF HasChange, Recovers
  <2>7. Watched(s)' => s \in sending \/ told[s]
    BY <1>1, <2>3, <2>4, <2>6, WatchedBefore DEF Tells
  <2>8. store[s] \in Seq(Kinds) /\ <<>> \in Seq(Event) /\ Within(store[s], <<>>) /\ CursorOK(store[s], cursor[s])
    BY <2>3, <2>4 DEF TypesOK, Consistent, Within
  <2> QED
    BY <1>1, <2>1, <2>7, <2>8, PrimeStep
<1> QED
  BY <1>2, <1>3

(* The next event of a replay goes to the response; the change at its end  *)
(* is still to come, or goes now.                                          *)
LEMMA ReplayNextStep ==
    ASSUME ToolListInv, NEW s \in Sessions, ReplayNext(s)
    PROVE  ToolListInv'
<1>1. PICK evs, st, rep, ws, c, v, b : Keeps(s, evs, st, rep, ws, c, v, b)
  BY DEF Keeps
<1>2. TypesOK(evs, st, rep, ws, c, v, b) /\ Consistent(evs, st, rep, ws, c, v)
  BY <1>1, KeepsFacts
<1>3. store[s] = evs /\ cursor[s] = c /\ view[s] = v /\ told[s] = b /\ replay[s] = rep /\ stream[s] = st
      /\ st = "replaying"
  BY <1>1 DEF Keeps, ReplayNext
<1>4. /\ rep \in Seq(Event) /\ rep # <<>> /\ Within(evs, rep) /\ EndsInChange(evs)
      /\ rep[Len(rep)].kind = "change" /\ evs \in Seq(Kinds)
  BY <1>2, <1>3 DEF TypesOK, Consistent, ReplayOK
<1>5. Len(rep) \in Nat \ {0}
  BY <1>4, EmptySeq
<1>6. UNCHANGED <<monitorVars, sending, registered, active, view, told>>
  BY DEF ReplayNext
<1>7. CASE Len(rep) = 1
  <2>1. Prime(s, evs, cursor[s], rep)
    BY <1>3, <1>7 DEF ReplayNext
  <2>2. HasChange(rep)
    BY <1>4, <1>5 DEF HasChange
  <2>3. CursorOK(evs, cursor[s])
    BY <1>2, <1>3 DEF Consistent
  <2> QED
    BY <1>4, <1>6, <2>1, <2>2, <2>3, PrimeStep
<1>8. CASE Len(rep) # 1
  <2>1. PICK rep2 : rep2 = Tail(rep)
    OBVIOUS
  <2>2. PICK ws2 : ws2 = <<Head(rep)>>
    OBVIOUS
  <2>3. Becomes(s, evs, st, rep2, ws2, c, v, b)
    <3>1. wire' = [wire EXCEPT ![s] = ws2] /\ replay' = [replay EXCEPT ![s] = rep2]
          /\ store' = store /\ cursor' = cursor /\ stream' = stream
      BY <1>3, <1>8, <2>1, <2>2 DEF ReplayNext
    <3> QED
      BY <1>3, <1>6, <3>1 DEF Becomes, ToolListInv, SessionsOK
  <2>4. rep2 \in Seq(Event) /\ Len(rep2) = Len(rep) - 1 /\ \A i \in 1..Len(rep2) : rep2[i] = rep[i + 1]
    BY <1>4, <2>1, HeadTailProperties
  <2>5. Len(rep2) \in Nat \ {0} /\ Len(rep2) + 1 = Len(rep) /\ Len(rep2) \in 1..Len(rep2)
    BY <1>5, <1>8, <2>4
  <2>6. rep2 # <<>> /\ rep2[Len(rep2)].kind = "change" /\ Len(rep2) \in DOMAIN rep2
    BY <1>4, <2>4, <2>5
  <2>7. Within(evs, rep2)
    <3>1. \A i \in 1..Len(rep2) : i + 1 \in DOMAIN rep
      BY <1>4, <2>5
    <3>2. DOMAIN rep2 = 1..Len(rep2)
      BY <2>4
    <3> QED
      BY <1>4, <2>4, <3>1, <3>2 DEF Within
  <2>8. ws2 \in Seq(Event) /\ WireOK(evs, st, ws2, c)
    <3>1. PICK e \in Event : e = Head(rep) /\ e.pos <= Len(evs)
      <4>1. Head(rep) \in Event /\ Head(rep) = rep[1] /\ 1 \in DOMAIN rep
        BY <1>4, <1>5
      <4> QED
        BY <1>4, <4>1 DEF Within
    <3>2. ws2 = <<e>>
      BY <2>2, <3>1
    <3>3. ws2 \in Seq(Event) /\ DOMAIN ws2 = {1} /\ ws2[1] = e
      BY <3>2
    <3>4. Within(evs, ws2)
      BY <3>1, <3>3 DEF Within
    <3> QED
      BY <1>3, <1>4, <3>3, <3>4 DEF WireOK
  <2>9. TypesOK(evs, st, rep2, ws2, c, v, b) /\ Consistent(evs, st, rep2, ws2, c, v)
    BY <1>2, <1>3, <1>4, <2>4, <2>6, <2>7, <2>8 DEF TypesOK, Consistent, ReplayOK
  <2>10. HasChange(rep2)
    BY <2>6 DEF HasChange
  <2>11. NotifierOK' /\ healthy' = healthy /\ sending' = sending
    BY <1>6, QuietFacts
  <2> QED
    BY <1>6, <2>3, <2>9, <2>10, <2>11, SessionStep DEF Tells
<1> QED
  BY <1>7, <1>8

(* The live tail begins with at most one event that was not taken. *)
LEMMA AttachStep ==
    ASSUME ToolListInv, NEW s \in Sessions, Attach(s)
    PROVE  ToolListInv'
<1>1. PICK evs, st, rep, ws, c, v, b : Keeps(s, evs, st, rep, ws, c, v, b)
  BY DEF Keeps
<1>2. /\ TypesOK(evs, st, rep, ws, c, v, b) /\ Consistent(evs, st, rep, ws, c, v)
      /\ Watched(s) => s \in sending \/ Tells(evs, rep, ws, c, b)
  BY <1>1, KeepsFacts
<1>3. st = "priming" /\ Len(ws) <= 1
  BY <1>1 DEF Keeps, Attach
<1>4. Becomes(s, evs, "attached", rep, ws, c, v, b)
  BY <1>1 DEF Keeps, Attach, Becomes, ToolListInv, SessionsOK
<1>5. \A i \in DOMAIN ws : ~(i > 1)
  <2>1. ws \in Seq(Event)
    BY <1>2 DEF TypesOK
  <2> QED
    BY <1>3, <2>1
<1>6. TypesOK(evs, "attached", rep, ws, c, v, b) /\ Consistent(evs, "attached", rep, ws, c, v)
  BY <1>2, <1>3, <1>5 DEF TypesOK, Consistent, ReplayOK, WireOK, Streams
<1>7. NotifierOK' /\ healthy' = healthy /\ sending' = sending
  BY QuietFacts DEF Attach
<1>8. Watched(s)' => Watched(s)
  BY WatchedBefore DEF Attach
<1>9. active' = active /\ registered' = registered
  BY DEF Attach
<1> QED
  BY <1>2, <1>4, <1>6, <1>7, <1>8, <1>9, SessionStep

(* The client takes an event: it is told, or the cursor moves to a         *)
(* position that was on the wire.                                          *)
LEMMA ReceiveStep ==
    ASSUME ToolListInv, NEW s \in Sessions, Receive(s)
    PROVE  ToolListInv'
<1>1. PICK evs, st, rep, ws, c, v, b : Keeps(s, evs, st, rep, ws, c, v, b)
  BY DEF Keeps
<1>2. /\ TypesOK(evs, st, rep, ws, c, v, b) /\ Consistent(evs, st, rep, ws, c, v)
      /\ Watched(s) => s \in sending \/ Tells(evs, rep, ws, c, b)
  BY <1>1, KeepsFacts
<1>3. PICK e : e = Head(ws)
  OBVIOUS
<1>4. PICK ws2 : ws2 = Tail(ws)
  OBVIOUS
<1>5. PICK b2 \in BOOLEAN : b2 = (b \/ e.kind = "change")
  OBVIOUS
<1>6. ws \in Seq(Event) /\ ws # <<>> /\ wire[s] = ws /\ told[s] = b /\ store[s] = evs
      /\ stream[s] = st /\ replay[s] = rep /\ view[s] = v
  BY <1>1, <1>2 DEF Keeps, Receive, TypesOK
<1>7. Becomes(s, evs, st, rep, ws2, e.pos, v, b2)
  <2>1. wire' = [wire EXCEPT ![s] = ws2] /\ cursor' = [cursor EXCEPT ![s] = e.pos]
    BY <1>3, <1>4, <1>6 DEF Receive
  <2>2. told' = [told EXCEPT ![s] = b2]
    BY <1>3, <1>5, <1>6 DEF Receive
  <2>3. store' = [store EXCEPT ![s] = evs] /\ stream' = [stream EXCEPT ![s] = st]
        /\ replay' = [replay EXCEPT ![s] = rep] /\ view' = [view EXCEPT ![s] = v]
    BY <1>6 DEF Receive, ToolListInv, SessionsOK
  <2> QED
    BY <2>1, <2>2, <2>3 DEF Becomes
<1>8. /\ ws2 \in Seq(Event) /\ Len(ws2) = Len(ws) - 1 /\ \A i \in 1..Len(ws2) : ws2[i] = ws[i + 1]
  BY <1>4, <1>6, HeadTailProperties
<1>9. Len(ws) \in Nat \ {0} /\ DOMAIN ws = 1..Len(ws) /\ DOMAIN ws2 = 1..Len(ws2)
  BY <1>6, <1>8, EmptySeq
<1>10. e \in Event /\ e = ws[1] /\ 1 \in DOMAIN ws
  BY <1>3, <1>6, <1>9
<1>11. \A i \in DOMAIN ws2 : /\ i + 1 \in DOMAIN ws /\ ws2[i] = ws[i + 1] /\ i + 1 > 1
                             /\ i < Len(ws2) => i + 1 < Len(ws)
  BY <1>8, <1>9
<1>12. /\ Within(evs, ws) /\ (st = "none" => ws = <<>>)
       /\ st = "attached" => \A i \in DOMAIN ws : i > 1 => ws[i].kind = "change"
       /\ ~EndsInChange(evs) => \A i \in DOMAIN ws : i < Len(ws) => ws[i].pos < Len(evs)
  BY <1>2 DEF Consistent, WireOK
<1>13. WireOK(evs, st, ws2, e.pos)
  <2>1. Within(evs, ws2)
    BY <1>11, <1>12 DEF Within
  <2>2. st = "attached" => \A i \in DOMAIN ws2 : i > 1 => ws2[i].kind = "change"
    BY <1>11, <1>12, Zenon
  <2>3. ~EndsInChange(evs) => \A i \in DOMAIN ws2 : i < Len(ws2) => ws2[i].pos < Len(evs)
    BY <1>11, <1>12, Zenon
  <2>4. ws2 # <<>> => 1 < Len(ws)
    <3>1. ws2 # <<>> => Len(ws2) \in Nat \ {0}
      BY <1>8, EmptySeq
    <3> QED
      BY <1>8, <1>9, <3>1
  <2>5. ~EndsInChange(evs) => (ws2 # <<>> => e.pos < Len(evs))
    BY <1>10, <1>12, <2>4, Zenon
  <2> QED
    BY <1>6, <1>12, <2>1, <2>2, <2>3, <2>5 DEF WireOK
<1>14. e.pos \in Nat
  BY <1>10 DEF Event
<1>15. e.pos \in Int /\ CursorOK(evs, e.pos) /\ e.pos # NoCursor
  BY <1>10, <1>12, <1>14 DEF CursorOK, NoCursor, Within
<1>16. TypesOK(evs, st, rep, ws2, e.pos, v, b2) /\ Consistent(evs, st, rep, ws2, e.pos, v)
  BY <1>2, <1>5, <1>8, <1>13, <1>15 DEF TypesOK, Consistent
<1>17. Tells(evs, rep, ws, c, b) => Tells(evs, rep, ws2, e.pos, b2)
  <2>1. HasChange(ws) => b2 \/ HasChange(ws2)
    <3> SUFFICES ASSUME NEW i \in DOMAIN ws, ws[i].kind = "change"
                 PROVE  b2 \/ HasChange(ws2)
      BY DEF HasChange
    <3>1. CASE i = 1
      BY <1>5, <1>10, <3>1
    <3>2. CASE i # 1
      <4>1. i - 1 \in DOMAIN ws2 /\ (i - 1) + 1 = i
        BY <1>8, <1>9, <3>2
      <4>2. ws2[i - 1] = ws[i]
        BY <1>11, <4>1
      <4> QED
        BY <4>1, <4>2 DEF HasChange
    <3> QED
      BY <3>1, <3>2
  <2>2. Recovers(evs, ws, c) => Recovers(evs, ws2, e.pos)
    <3>1. \A i \in DOMAIN ws2 : ws2[i].pos \in {ws[j].pos : j \in DOMAIN ws}
      BY <1>11
    <3>2. e.pos \in {ws[j].pos : j \in DOMAIN ws}
      BY <1>10
    <3> QED
      BY <3>1, <3>2 DEF Recovers
  <2>3. b => b2
    BY <1>5
  <2> QED
    BY <2>1, <2>2, <2>3 DEF Tells
<1>18. NotifierOK' /\ healthy' = healthy /\ sending' = sending
  BY QuietFacts DEF Receive
<1>19. Watched(s)' => Watched(s)
  BY WatchedBefore DEF Receive
<1>20. active' = active /\ registered' = registered
  BY DEF Receive
<1> QED
  BY <1>2, <1>7, <1>16, <1>17, <1>18, <1>19, <1>20, SessionStep

(* A stream is lost with what was on its way: whatever it was, the cursor  *)
(* that is left leads to a resynchronisation.                              *)
LEMMA CloseStreamStep ==
    ASSUME ToolListInv, NEW s \in Sessions, CloseStream(s)
    PROVE  ToolListInv'
<1>1. PICK evs, st, rep, ws, c, v, b : Keeps(s, evs, st, rep, ws, c, v, b)
  BY DEF Keeps
<1>2. /\ TypesOK(evs, st, rep, ws, c, v, b) /\ Consistent(evs, st, rep, ws, c, v)
      /\ Watched(s) => s \in sending \/ Tells(evs, rep, ws, c, b)
  BY <1>1, KeepsFacts
<1>3. Becomes(s, evs, "none", <<>>, <<>>, c, v, b)
  BY <1>1 DEF Keeps, CloseStream, Becomes, ToolListInv, SessionsOK
<1>4. <<>> \in Seq(Event) /\ ReplayOK(evs, "none", <<>>) /\ WireOK(evs, "none", <<>>, c)
  BY DEF ReplayOK, WireOK, Within
<1>5. TypesOK(evs, "none", <<>>, <<>>, c, v, b) /\ Consistent(evs, "none", <<>>, <<>>, c, v)
  BY <1>2, <1>4 DEF TypesOK, Consistent, Streams
<1>6. evs \in Seq(Kinds) /\ c \in Int /\ CursorOK(evs, c)
  BY <1>2 DEF TypesOK, Consistent
<1>7. Tells(evs, rep, ws, c, b) => b \/ RequiresResync(evs, c)
  <2>1. HasChange(rep) => RequiresResync(evs, c)
    <3>1. HasChange(rep) => rep # <<>>
      BY DEF HasChange
    <3>2. rep # <<>> => EndsInChange(evs)
      BY <1>2 DEF Consistent, ReplayOK
    <3> QED
      BY <1>6, <3>1, <3>2, Resyncs
  <2>2. HasChange(ws) => RequiresResync(evs, c)
    <3>1. HasChange(ws) => ws # <<>>
      BY DEF HasChange
    <3>2. ws # <<>> => EndsInChange(evs) \/ c < Len(evs)
      BY <1>2 DEF Consistent, WireOK
    <3> QED
      BY <1>6, <3>1, <3>2, Resyncs
  <2>3. Recovers(evs, ws, c) => RequiresResync(evs, c)
    BY DEF Recovers
  <2> QED
    BY <2>1, <2>2, <2>3 DEF Tells
<1>8. RequiresResync(evs, c) => Recovers(evs, <<>>, c)
  BY DEF Recovers
<1>9. NotifierOK' /\ healthy' = healthy /\ sending' = sending
  BY QuietFacts DEF CloseStream
<1>10. Watched(s)' => Watched(s)
  BY WatchedBefore DEF CloseStream
<1>11. active' = active /\ registered' = registered
  BY DEF CloseStream
<1>12. Watched(s)' => s \in sending' \/ Tells(evs, <<>>, <<>>, c, b)
  BY <1>2, <1>7, <1>8, <1>9, <1>10 DEF Tells
<1> QED
  BY <1>3, <1>5, <1>9, <1>11, <1>12, SessionStep

(* A session that has ended is no one's concern. *)
LEMMA EndSessionStep ==
    ASSUME ToolListInv, NEW s \in Sessions, EndSession(s)
    PROVE  ToolListInv'
<1>1. PICK v : v = NoView
  OBVIOUS
<1>2. v \in Views /\ ~v.primed
  BY <1>1 DEF NoView, Views
<1>3. Becomes(s, <<>>, "none", <<>>, <<>>, NoCursor, v, FALSE)
  BY <1>1 DEF EndSession, Becomes
<1>4. ReplayOK(<<>>, "none", <<>>) /\ WireOK(<<>>, "none", <<>>, NoCursor)
  BY DEF ReplayOK, WireOK, Within
<1>5. NoCursor \in Int /\ CursorOK(<<>>, NoCursor)
  BY DEF NoCursor, CursorOK
<1>6. TypesOK(<<>>, "none", <<>>, <<>>, NoCursor, v, FALSE)
      /\ Consistent(<<>>, "none", <<>>, <<>>, NoCursor, v)
  BY <1>2, <1>4, <1>5 DEF TypesOK, Consistent, Streams
<1>7. NotifierOK' /\ healthy' = healthy /\ sending' = sending
  BY QuietFacts DEF EndSession
<1>8. active' \subseteq active /\ registered \ {s} \subseteq registered' /\ ~Watched(s)'
  BY DEF EndSession, Watched
<1> QED
  BY <1>3, <1>6, <1>7, <1>8, SessionStep

-----------------------------------------------------------------------------
(* The invariant holds at first. *)
LEMMA ToolListInvInit ==
    ToolListInit => ToolListInv
<1> SUFFICES ASSUME ToolListInit
             PROVE  ToolListInv
  OBVIOUS
<1>1. PICK v : v = NoView
  OBVIOUS
<1>2. v \in Views /\ ~v.primed
  BY <1>1 DEF NoView, Views
<1>3. view = [s \in Sessions |-> v]
  BY <1>1 DEF ToolListInit
<1>4. SessionsOK
  BY <1>2, <1>3 DEF ToolListInit, SessionsOK, Streams, NoCursor
<1>5. NotifierOK
  BY DEF ToolListInit, NotifierOK
<1>6. ASSUME NEW s \in Sessions
      PROVE  StreamOK(s) /\ ~Watched(s)
  <2>1. view[s] = v /\ store[s] = <<>> /\ stream[s] = "none" /\ replay[s] = <<>> /\ wire[s] = <<>>
        /\ cursor[s] = NoCursor
    BY <1>3 DEF ToolListInit
  <2> QED
    BY <1>2, <2>1 DEF StreamOK, ReplayOK, WireOK, Within, CursorOK, NoCursor, Watched
<1> QED
  BY <1>4, <1>5, <1>6 DEF ToolListInv

(* Every step preserves the invariant. *)
LEMMA ToolListInvNext ==
    ToolListInv /\ [ToolListNext]_toolListVars => ToolListInv'
<1> SUFFICES ASSUME ToolListInv, [ToolListNext]_toolListVars
             PROVE  ToolListInv'
  OBVIOUS
<1>1. NotifierOK
  BY DEF ToolListInv
<1>2. ASSUME NEW t \in Tools, ToolChanges(t)
      PROVE  ToolListInv'
  BY <1>1, <1>2, MonitorStep DEF ToolChanges, NotifierOK
<1>3. ASSUME NEW t \in Tools, Probe(t)
      PROVE  ToolListInv'
  BY <1>1, <1>3, MonitorStep DEF Probe, NotifierOK
<1>4. CASE StartPass
  BY <1>1, <1>4, MonitorStep DEF StartPass, NotifierOK
<1>5. CASE ApplyHealth
  BY <1>5, PublishStep DEF ApplyHealth
<1>6. CASE MonitorFails
  BY <1>6, PublishStep DEF MonitorFails
<1>7. ASSUME NEW s \in Sessions, OpenStream(s)
      PROVE  ToolListInv'
  BY <1>7, FirstStreamStep, ReconnectStep
<1>8. CASE UNCHANGED toolListVars
  BY <1>1, <1>8, MonitorStep DEF toolListVars, monitorVars, NotifierOK
<1> QED
  BY <1>2, <1>3, <1>4, <1>5, <1>6, <1>7, <1>8, SendStep, SendFailsStep, ListToolsStep,
     ReplayNextStep, AttachStep, ReceiveStep, CloseStreamStep, EndSessionStep DEF ToolListNext

(* A client that opened its stream and then listed the tools never trusts  *)
(* an outdated listing unnoticed: the signal has arrived, is on its way or *)
(* waits for the cursor the client reconnects with (mcp_server.py), for    *)
(* any number of tools and sessions and every size of the replay store.    *)
THEOREM NoChangeIsMissed == ToolListSpec => []NoMissedChange
<1>1. ToolListInv => NoMissedChange
  <2> SUFFICES ASSUME ToolListInv, NEW s \in active, Stale(s)
               PROVE  told[s] \/ Coming(s) \/ Recoverable(s)
    BY DEF NoMissedChange
  <2>1. s \in Sessions
    BY DEF ToolListInv, SessionsOK
  <2>2. Watched(s)
    BY DEF Watched, Stale
  <2> QED
    BY <2>1, <2>2 DEF ToolListInv, Signalled
<1> QED
  BY <1>1, ToolListInvInit, ToolListInvNext, PTL DEF ToolListSpec

(* What a session keeps stays within the types and the bounds of its      *)
(* store, and a client that holds a listing and has been dropped by the   *)
(* notifier has its signal (ToolListInv).                                 *)
THEOREM ToolListInvariant == ToolListSpec => []ToolListInv
BY ToolListInvInit, ToolListInvNext, PTL DEF ToolListSpec
=============================================================================
