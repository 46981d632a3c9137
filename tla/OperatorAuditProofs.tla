------------------------ MODULE OperatorAuditProofs ------------------------
(* Proofs about the operator audit log, for any events, limits, number of  *)
(* records and number of foreign changes to the file.                      *)
EXTENDS OperatorAudit, SequenceTheorems, WellFoundedInduction, TLAPS

-----------------------------------------------------------------------------
(* Chains.                                                                 *)

Links == Nat \X (Events \cup {"garbage"})
Digests == Seq(Links)
Rows == [seq : Nat, event : Events, prev : Digests, hash : Digests]
Tips == [seq : Int, hash : Digests]

(* The genuine row number n of a trail, and the tip that names its last.   *)
TrueRow(R, n) ==
    [seq |-> n, event |-> R[n], prev |-> ChainHash(R, n - 1), hash |-> ChainHash(R, n)]
TrueTip(R) == [seq |-> Len(R), hash |-> ChainHash(R, Len(R))]

(* Where the rows of a trail of n events may begin: one row is always kept. *)
Firsts(n) == 1 .. (IF n > 1 THEN n ELSE 1)
Genuine(rows, R) == \E first \in Firsts(Len(R)) : rows = RowsOf(R, first)

(* A digest commits to the numbered events up to its row. *)
LEMMA ChainFacts ==
    ASSUME NEW R \in Seq(Events), NEW n \in 0 .. Len(R)
    PROVE  /\ ChainHash(R, n) \in Digests /\ Len(ChainHash(R, n)) = n
           /\ \A i \in 1 .. n : ChainHash(R, n)[i] = <<i, R[i]>>
<1>1. n \in Nat
  OBVIOUS
<1>2. \A i \in 1 .. n : <<i, R[i]>> \in Links
  BY DEF Links
<1>3. ChainHash(R, n) \in [1 .. n -> Links]
  BY <1>2 DEF ChainHash
<1>4. ChainHash(R, n) \in Seq(Links)
  BY <1>1, <1>3, SeqDef
<1>5. Len(ChainHash(R, n)) = n
  BY <1>1, <1>3, <1>4, LenProperties
<1>6. \A i \in 1 .. n : ChainHash(R, n)[i] = <<i, R[i]>>
  BY DEF ChainHash
<1> QED BY <1>4, <1>5, <1>6 DEF Digests

(* One more row extends the digest by one event. *)
LEMMA ChainStep ==
    ASSUME NEW R \in Seq(Events), NEW n \in 1 .. Len(R)
    PROVE  ChainHash(R, n) = EventHash(n, R[n], ChainHash(R, n - 1))
<1>1. PICK h, g : h = ChainHash(R, n) /\ g = ChainHash(R, n - 1)
  OBVIOUS
<1>2. h \in Seq(Links) /\ Len(h) = n /\ \A i \in 1 .. n : h[i] = <<i, R[i]>>
  BY <1>1, ChainFacts DEF Digests
<1>3. g \in Seq(Links) /\ Len(g) = n - 1 /\ \A i \in 1 .. n - 1 : g[i] = <<i, R[i]>>
  BY <1>1, ChainFacts DEF Digests
<1>4. <<n, R[n]>> \in Links
  BY DEF Links
<1>5. PICK a : a = Append(g, <<n, R[n]>>)
  OBVIOUS
<1>6. /\ a \in Seq(Links) /\ Len(a) = n /\ \A i \in 1 .. n - 1 : a[i] = g[i]
      /\ a[n] = <<n, R[n]>>
  BY <1>3, <1>4, <1>5, AppendProperties
<1>7. \A i \in 1 .. n : a[i] = h[i]
  <2>1. ASSUME NEW i \in 1 .. n - 1
        PROVE  a[i] = h[i]
    <3>1. i \in 1 .. n
      OBVIOUS
    <3>2. h[i] = <<i, R[i]>>
      BY <1>2, <3>1
    <3>3. a[i] = <<i, R[i]>>
      BY <1>3, <1>6
    <3> QED BY <3>2, <3>3
  <2>2. a[n] = h[n]
    BY <1>2, <1>6
  <2>3. \A i \in 1 .. n : i = n \/ i \in 1 .. n - 1
    OBVIOUS
  <2> QED BY <2>1, <2>2, <2>3
<1>8. a = h
  BY <1>2, <1>6, <1>7, SeqEqual
<1> QED BY <1>1, <1>5, <1>8 DEF EventHash

(* The chain begins with the empty digest. *)
LEMMA EmptyChain ==
    ASSUME NEW R \in Seq(Events)
    PROVE  ChainHash(R, 0) = <<>>
BY ChainFacts, EmptySeq DEF Digests

(* A digest does not change when the trail grows. *)
LEMMA ChainGrows ==
    ASSUME NEW R \in Seq(Events), NEW e \in Events, NEW n \in 0 .. Len(R)
    PROVE  ChainHash(Append(R, e), n) = ChainHash(R, n)
<1>1. \A i \in 1 .. n : Append(R, e)[i] = R[i]
  BY AppendProperties
<1> QED BY <1>1 DEF ChainHash

(* A genuine row is a row, and its hash verifies. *)
LEMMA RowFacts ==
    ASSUME NEW R \in Seq(Events), NEW n \in 1 .. Len(R)
    PROVE  /\ TrueRow(R, n) \in Rows
           /\ TrueRow(R, n).hash = EventHash(n, R[n], TrueRow(R, n).prev)
<1>1. R[n] \in Events /\ n \in Nat
  OBVIOUS
<1>2. ChainHash(R, n) \in Digests /\ ChainHash(R, n - 1) \in Digests
  BY ChainFacts
<1>3. ChainHash(R, n) = EventHash(n, R[n], ChainHash(R, n - 1))
  BY ChainStep
<1> QED BY <1>1, <1>2, <1>3 DEF TrueRow, Rows

(* The rows of a suffix of the events, by index. *)
LEMMA RowsFacts ==
    ASSUME NEW R \in Seq(Events), NEW first \in 1 .. Len(R) + 1
    PROVE  /\ RowsOf(R, first) \in Seq(Rows) /\ Len(RowsOf(R, first)) = Len(R) - first + 1
           /\ \A i \in 1 .. Len(R) - first + 1 : RowsOf(R, first)[i] = TrueRow(R, first + i - 1)
<1> DEFINE n == Len(R) - first + 1
<1>1. n \in Nat
  OBVIOUS
<1>2. \A i \in 1 .. n : first + i - 1 \in 1 .. Len(R)
  OBVIOUS
<1>3. RowsOf(R, first) = [i \in 1 .. n |-> TrueRow(R, first + i - 1)]
  BY DEF RowsOf, TrueRow
<1>4. \A i \in 1 .. n : TrueRow(R, first + i - 1) \in Rows
  BY <1>2, RowFacts
<1> HIDE DEF n
<1>5. RowsOf(R, first) \in [1 .. n -> Rows]
  BY <1>3, <1>4
<1>6. RowsOf(R, first) \in Seq(Rows)
  BY <1>1, <1>5, SeqDef
<1>7. Len(RowsOf(R, first)) = n
  BY <1>1, <1>5, <1>6, LenProperties
<1> QED BY <1>3, <1>6, <1>7 DEF n

(* A set of natural numbers has a least element. *)
LEMMA LeastNumber ==
    ASSUME NEW T, T \subseteq Nat, T # {}
    PROVE  \E m \in T : \A k \in T : m <= k
<1> DEFINE R == OpToRel(<, Nat)
<1>1. \A x, y \in Nat : x < y => <<x, y>> \in R
  BY DEF OpToRel
<1>2. IsWellFoundedOn(R, Nat)
  BY NatLessThanWellFounded
<1> HIDE DEF R
<1>3. PICK m \in T : \A k \in T : ~(<<k, m>> \in R)
  BY <1>2, WFMin
<1>4. \A k \in T : ~(k < m)
  BY <1>1, <1>3
<1> QED BY <1>4

-----------------------------------------------------------------------------
(* Pruning and appending keep the rows those of the trail.                 *)

Cut(s, m) == IF Len(s) > m THEN Len(s) - m ELSE 0

(* LastN keeps the last elements, at most as many as it may. *)
LEMMA LastNFacts ==
    ASSUME NEW S, NEW s \in Seq(S), NEW m \in Nat \ {0}
    PROVE  /\ Cut(s, m) \in 0 .. Len(s) /\ (Len(s) > 0 => Cut(s, m) < Len(s))
           /\ LastN(s, m) \in Seq(S) /\ Len(LastN(s, m)) = Len(s) - Cut(s, m)
           /\ Len(LastN(s, m)) <= m /\ Len(LastN(s, m)) <= Len(s)
           /\ \A i \in 1 .. Len(s) - Cut(s, m) : LastN(s, m)[i] = s[Cut(s, m) + i]
<1>1. PICK n : n = Len(s)
  OBVIOUS
<1>2. n \in Nat
  BY <1>1, LenProperties
<1>3. PICK k : k = Cut(s, m)
  OBVIOUS
<1>4. k \in 0 .. n /\ n - k <= m /\ (n > 0 => k < n)
  BY <1>1, <1>2, <1>3 DEF Cut
<1>5. LastN(s, m) = SubSeq(s, k + 1, n)
  BY <1>1, <1>2, <1>3 DEF LastN, Cut
<1>6. \A i \in k + 1 .. n : s[i] \in S
  BY <1>1, <1>4, ElementOfSeq
<1>7. /\ SubSeq(s, k + 1, n) \in Seq(S)
      /\ Len(SubSeq(s, k + 1, n)) = IF k + 1 <= n THEN n - (k + 1) + 1 ELSE 0
      /\ \A i \in 1 .. n - (k + 1) + 1 : SubSeq(s, k + 1, n)[i] = s[(k + 1) + i - 1]
  BY <1>2, <1>4, <1>6, SubSeqProperties
<1>8. /\ Len(SubSeq(s, k + 1, n)) = n - k
      /\ \A i \in 1 .. n - k : SubSeq(s, k + 1, n)[i] = s[k + i]
  BY <1>2, <1>4, <1>7
<1> QED BY <1>1, <1>2, <1>3, <1>4, <1>5, <1>7, <1>8

(* Pruning genuine rows leaves genuine rows of a later first event. *)
LEMMA PrunedRows ==
    ASSUME NEW R \in Seq(Events), NEW first \in Firsts(Len(R)), NEW m \in Nat \ {0}
    PROVE  \E next \in Firsts(Len(R)) :
              next >= first /\ LastN(RowsOf(R, first), m) = RowsOf(R, next)
<1>1. PICK rows, n : rows = RowsOf(R, first) /\ n = Len(R)
  OBVIOUS
<1>2. n \in Nat /\ first \in 1 .. n + 1
  BY <1>1 DEF Firsts
<1>3. /\ rows \in Seq(Rows) /\ Len(rows) = n - first + 1
      /\ \A i \in 1 .. n - first + 1 : rows[i] = TrueRow(R, first + i - 1)
  BY <1>1, <1>2, RowsFacts
<1>4. PICK k : k = Cut(rows, m)
  OBVIOUS
<1>5. PICK kept : kept = LastN(rows, m)
  OBVIOUS
<1>6. /\ k \in 0 .. n - first + 1 /\ (n - first + 1 > 0 => k < n - first + 1)
      /\ kept \in Seq(Rows) /\ Len(kept) = n - first + 1 - k
      /\ \A i \in 1 .. n - first + 1 - k : kept[i] = rows[k + i]
  <2>1. PICK c : c = Len(rows)
    OBVIOUS
  <2>2. /\ k \in 0 .. c /\ (c > 0 => k < c) /\ kept \in Seq(Rows) /\ Len(kept) = c - k
        /\ \A i \in 1 .. c - k : kept[i] = rows[k + i]
    BY <1>3, <1>4, <1>5, <2>1, LastNFacts
  <2>3. c = n - first + 1
    BY <1>3, <2>1
  <2> QED BY <1>2, <2>2, <2>3
<1>7. first + k \in Firsts(n)
  <2>1. CASE n = 0
    BY <1>2, <1>6, <2>1 DEF Firsts
  <2>2. CASE n > 0
    <3>1. first \in 1 .. n
      BY <1>1, <2>2 DEF Firsts
    <3> QED BY <1>2, <1>6, <2>2, <3>1 DEF Firsts
  <2> QED BY <1>2, <2>1, <2>2
<1>8. first + k \in 1 .. n + 1
  BY <1>2, <1>7 DEF Firsts
<1>9. PICK t : t = RowsOf(R, first + k)
  OBVIOUS
<1>10. /\ t \in Seq(Rows) /\ Len(t) = n - (first + k) + 1
       /\ \A i \in 1 .. n - (first + k) + 1 : t[i] = TrueRow(R, (first + k) + i - 1)
  BY <1>1, <1>8, <1>9, RowsFacts
<1>11. Len(kept) = Len(t)
  BY <1>2, <1>6, <1>10
<1>12. ASSUME NEW i \in 1 .. Len(kept)
       PROVE  kept[i] = t[i]
  <2>1. i \in 1 .. n - first + 1 - k /\ k + i \in 1 .. n - first + 1
    BY <1>2, <1>6
  <2>2. kept[i] = TrueRow(R, first + (k + i) - 1)
    BY <1>3, <1>6, <2>1
  <2>3. t[i] = TrueRow(R, (first + k) + i - 1)
    BY <1>2, <1>6, <1>10, <2>1
  <2>4. first + (k + i) - 1 = (first + k) + i - 1
    BY <1>2, <1>6
  <2> QED BY <2>2, <2>3, <2>4
<1>13. kept = t
  BY <1>6, <1>10, <1>11, <1>12, SeqEqual
<1> QED BY <1>1, <1>2, <1>5, <1>6, <1>7, <1>9, <1>13

(* Appending a genuine row gives the rows of one more event. *)
LEMMA GrownRows ==
    ASSUME NEW R \in Seq(Events), NEW first \in Firsts(Len(R)), NEW e \in Events
    PROVE  Append(RowsOf(R, first), TrueRow(Append(R, e), Len(R) + 1)) = RowsOf(Append(R, e), first)
<1>1. PICK rows, n, Q : rows = RowsOf(R, first) /\ n = Len(R) /\ Q = Append(R, e)
  OBVIOUS
<1>2. n \in Nat /\ first \in 1 .. n + 1
  BY <1>1 DEF Firsts
<1>3. /\ rows \in Seq(Rows) /\ Len(rows) = n - first + 1
      /\ \A i \in 1 .. n - first + 1 : rows[i] = TrueRow(R, first + i - 1)
  BY <1>1, <1>2, RowsFacts
<1>4. Q \in Seq(Events) /\ Len(Q) = n + 1 /\ Q[n + 1] = e /\ \A i \in 1 .. n : Q[i] = R[i]
  BY <1>1, AppendProperties
<1>5. PICK t : t = RowsOf(Q, first)
  OBVIOUS
<1>6. first \in 1 .. Len(Q) + 1
  BY <1>2, <1>4
<1>7. /\ t \in Seq(Rows) /\ Len(t) = (n + 1) - first + 1
      /\ \A i \in 1 .. (n + 1) - first + 1 : t[i] = TrueRow(Q, first + i - 1)
  BY <1>4, <1>5, <1>6, RowsFacts
<1>8. TrueRow(Q, n + 1) \in Rows
  BY <1>2, <1>4, RowFacts
<1>9. PICK a : a = Append(rows, TrueRow(Q, n + 1))
  OBVIOUS
<1>10. /\ a \in Seq(Rows) /\ Len(a) = n - first + 2 /\ a[n - first + 2] = TrueRow(Q, n + 1)
       /\ \A i \in 1 .. n - first + 1 : a[i] = rows[i]
  <2>1. /\ a \in Seq(Rows) /\ Len(a) = Len(rows) + 1 /\ a[Len(rows) + 1] = TrueRow(Q, n + 1)
        /\ \A i \in 1 .. Len(rows) : a[i] = rows[i]
    BY <1>3, <1>8, <1>9, AppendProperties
  <2>2. Len(rows) + 1 = n - first + 2
    BY <1>2, <1>3
  <2> QED BY <1>3, <2>1, <2>2
<1>11. Len(a) = Len(t)
  BY <1>2, <1>7, <1>10
<1>12. ASSUME NEW m \in 1 .. n
       PROVE  TrueRow(Q, m) = TrueRow(R, m)
  <2>1. ChainHash(Q, m) = ChainHash(R, m) /\ ChainHash(Q, m - 1) = ChainHash(R, m - 1)
    BY <1>1, ChainGrows
  <2> QED BY <1>4, <2>1 DEF TrueRow
<1>13. ASSUME NEW i \in 1 .. Len(a)
       PROVE  a[i] = t[i]
  <2>1. t[i] = TrueRow(Q, first + i - 1)
    BY <1>2, <1>7, <1>10
  <2>2. CASE i = n - first + 2
    <3>1. first + i - 1 = n + 1
      BY <1>2, <2>2
    <3> QED BY <1>10, <2>1, <2>2, <3>1
  <2>3. CASE i # n - first + 2
    <3>1. i \in 1 .. n - first + 1 /\ first + i - 1 \in 1 .. n
      BY <1>2, <1>10, <2>3
    <3>2. a[i] = TrueRow(R, first + i - 1)
      BY <1>3, <1>10, <3>1
    <3> QED BY <1>12, <2>1, <3>1, <3>2
  <2> QED BY <2>2, <2>3
<1>14. a = t
  BY <1>7, <1>10, <1>11, <1>13, SeqEqual
<1> QED BY <1>1, <1>5, <1>9, <1>14

-----------------------------------------------------------------------------
(* What _verify_stored_rows accepts.                                       *)

(* A genuine tip is a tip, and not the missing one. *)
LEMMA TipFacts ==
    ASSUME NEW R \in Seq(Events)
    PROVE  TrueTip(R) \in Tips /\ NoTip \in Tips /\ TrueTip(R) # NoTip
<1>1. ChainHash(R, Len(R)) \in Digests /\ Len(R) \in Nat
  BY ChainFacts
<1>2. <<0, "garbage">> \in Links
  BY DEF Links
<1>3. Garbage \in Digests
  BY <1>2 DEF Garbage, Digests
<1> QED BY <1>1, <1>3 DEF TrueTip, NoTip, Tips

(* The rows of a trail verify under its tip, and say whether events were   *)
(* dropped.                                                                *)
LEMMA GenuineVerifies ==
    ASSUME NEW R \in Seq(Events), NEW first \in Firsts(Len(R))
    PROVE  Verify(RowsOf(R, first), TrueTip(R), TrueTip(R)) =
             IF first = 1 THEN "verified" ELSE "retention_gap"
<1>1. PICK rows, n, tip : rows = RowsOf(R, first) /\ n = Len(R) /\ tip = TrueTip(R)
  OBVIOUS
<1>2. n \in Nat /\ first \in 1 .. n + 1
  BY <1>1 DEF Firsts
<1>3. /\ rows \in Seq(Rows) /\ Len(rows) = n - first + 1
      /\ \A i \in 1 .. n - first + 1 : rows[i] = TrueRow(R, first + i - 1)
  BY <1>1, <1>2, RowsFacts
<1>4. tip # NoTip
  BY <1>1, TipFacts
<1>5. CASE n = 0
  <2>1. first = 1 /\ Len(rows) = 0
    BY <1>1, <1>2, <1>3, <1>5 DEF Firsts
  <2>2. rows = <<>>
    BY <1>3, <2>1, EmptySeq
  <2>3. tip = [seq |-> 0, hash |-> Genesis]
    BY <1>1, <1>5, EmptyChain DEF TrueTip, Genesis
  <2> QED BY <1>1, <1>4, <2>1, <2>2, <2>3 DEF Verify
<1>6. CASE n > 0
  <2>1. first \in 1 .. n
    BY <1>1, <1>6 DEF Firsts
  <2>2. Len(rows) > 0 /\ rows # <<>>
    BY <1>2, <1>3, <2>1, EmptySeq
  <2>3. rows[1] = TrueRow(R, first)
    BY <1>2, <1>3, <2>1
  <2>4. rows[1].seq = first /\ rows[1].prev = ChainHash(R, first - 1)
    BY <2>3 DEF TrueRow
  <2>5. first = 1 => rows[1].prev = Genesis
    BY <2>4, EmptyChain DEF Genesis
  <2>6. ASSUME NEW i \in 2 .. Len(rows)
        PROVE  rows[i].prev = rows[i - 1].hash
    <3>1. i \in 1 .. n - first + 1 /\ i - 1 \in 1 .. n - first + 1
      BY <1>2, <1>3
    <3>2. rows[i] = TrueRow(R, first + i - 1) /\ rows[i - 1] = TrueRow(R, first + (i - 1) - 1)
      BY <1>3, <3>1
    <3>3. (first + i - 1) - 1 = first + (i - 1) - 1
      BY <1>2
    <3> QED BY <3>2, <3>3 DEF TrueRow
  <2>7. ASSUME NEW i \in DOMAIN rows
        PROVE  rows[i].hash = EventHash(rows[i].seq, rows[i].event, rows[i].prev)
    <3>1. i \in 1 .. n - first + 1
      BY <1>3, LenProperties
    <3>2. PICK k : k = first + i - 1
      OBVIOUS
    <3>3. k \in 1 .. n /\ rows[i] = TrueRow(R, k)
      BY <1>2, <1>3, <3>1, <3>2
    <3>4. rows[i].hash = EventHash(k, R[k], rows[i].prev)
      BY <1>1, <3>3, RowFacts
    <3>5. rows[i].seq = k /\ rows[i].event = R[k]
      BY <3>3 DEF TrueRow
    <3> QED BY <3>4, <3>5
  <2>8. tip = [seq |-> Last(rows).seq, hash |-> Last(rows).hash]
    <3>1. Last(rows) = TrueRow(R, n)
      <4>1. Len(rows) \in 1 .. n - first + 1 /\ first + Len(rows) - 1 = n
        BY <1>2, <1>3, <2>1
      <4> QED BY <1>3, <4>1 DEF Last
    <3> QED BY <1>1, <3>1 DEF TrueRow, TrueTip
  <2> QED BY <1>1, <1>4, <2>2, <2>4, <2>5, <2>6, <2>7, <2>8 DEF Verify
<1> QED BY <1>2, <1>5, <1>6

(* A row whose hash is its own and a digest of the trail is a row of it. *)
LEMMA HashInverts ==
    ASSUME NEW R \in Seq(Events), NEW n \in 0 .. Len(R), NEW row \in Rows,
           row.hash = EventHash(row.seq, row.event, row.prev), row.hash = ChainHash(R, n)
    PROVE  n > 0 /\ row = TrueRow(R, n)
<1>1. PICK l : l = <<row.seq, row.event>>
  OBVIOUS
<1>2. row.prev \in Seq(Links) /\ l \in Links /\ row.hash = Append(row.prev, l)
  BY <1>1 DEF Rows, Digests, Links, EventHash
<1>3. Len(row.hash) = Len(row.prev) + 1 /\ Len(row.prev) \in Nat
  BY <1>2, AppendProperties, LenProperties
<1>4. n > 0
  BY <1>3, ChainFacts
<1>5. n \in 1 .. Len(R)
  BY <1>4
<1>6. PICK g, k : g = ChainHash(R, n - 1) /\ k = <<n, R[n]>>
  OBVIOUS
<1>7. ChainHash(R, n) = Append(g, k)
  BY <1>5, <1>6, ChainStep DEF EventHash
<1>8. g \in Seq(Links) /\ k \in Links
  <2>1. n - 1 \in 0 .. Len(R) /\ R[n] \in Events /\ n \in Nat
    BY <1>5
  <2>2. g \in Seq(Links)
    BY <1>6, <2>1, ChainFacts DEF Digests
  <2>3. k \in Links
    BY <1>6, <2>1 DEF Links
  <2> QED BY <2>2, <2>3
<1>9. row.prev = g /\ l = k
  <2>1. PICK p : p = row.prev
    OBVIOUS
  <2>2. Append(p, l) = Append(g, k) /\ p \in Seq(Links)
    BY <1>2, <1>7, <2>1
  <2>3. p = g /\ l = k
    BY <1>2, <1>8, <2>2, AppendInjective
  <2> QED BY <2>1, <2>3
<1>10. row.seq = n /\ row.event = R[n]
  BY <1>1, <1>6, <1>9
<1> QED BY <1>4, <1>6, <1>9, <1>10 DEF Rows, TrueRow

(* What verifies is the newest part of the trail: the walk goes back along *)
(* the links from the tip, which names the trail's last event.             *)
LEMMA VerifiedIsGenuine ==
    ASSUME NEW R \in Seq(Events), NEW rows \in Seq(Rows), NEW tip \in {NoTip, TrueTip(R)},
           NEW mark \in {NoTip, TrueTip(R)}, Verify(rows, tip, mark) # "tamper_detected"
    PROVE  tip = TrueTip(R) /\ mark = TrueTip(R) /\ Genuine(rows, R)
<1>1. tip = TrueTip(R) /\ mark = TrueTip(R)
  BY DEF Verify
<1>2. PICK n, l : n = Len(R) /\ l = Len(rows)
  OBVIOUS
<1>3. n \in Nat /\ l \in Nat
  BY <1>2, LenProperties
<1>4. CASE rows = <<>>
  <2>1. tip = [seq |-> 0, hash |-> Genesis]
    BY <1>4 DEF Verify
  <2>2. n = 0
    BY <1>1, <1>2, <2>1 DEF TrueTip
  <2>3. RowsOf(R, 1) \in Seq(Rows) /\ Len(RowsOf(R, 1)) = 0
    <3>1. 1 \in 1 .. Len(R) + 1 /\ Len(R) - 1 + 1 = 0
      BY <1>2, <2>2
    <3> QED BY <3>1, RowsFacts
  <2>4. RowsOf(R, 1) = <<>>
    BY <2>3, EmptySeq
  <2>5. 1 \in Firsts(Len(R))
    BY <1>2, <2>2 DEF Firsts
  <2> QED BY <1>1, <1>4, <2>4, <2>5 DEF Genuine
<1>5. CASE rows # <<>>
  <2>1. l > 0 /\ DOMAIN rows = 1 .. l
    BY <1>2, <1>3, <1>5, EmptySeq, LenProperties
  <2>2. /\ \A i \in 2 .. l : rows[i].prev = rows[i - 1].hash
        /\ \A i \in 1 .. l : rows[i].hash = EventHash(rows[i].seq, rows[i].event, rows[i].prev)
        /\ tip = [seq |-> Last(rows).seq, hash |-> Last(rows).hash]
    BY <1>2, <1>5, <2>1 DEF Verify
  <2>3. rows[l].hash = ChainHash(R, n)
    BY <1>1, <1>2, <2>2 DEF TrueTip, Last
  <2>4. \A i \in 1 .. l : rows[i] \in Rows
    BY <1>2, ElementOfSeq
  <2> DEFINE good(k) == k < n /\ rows[l - k] = TrueRow(R, n - k)
             T == {k \in Nat : k <= l - 1 /\ ~good(k)}
  <2>5. ASSUME NEW k \in Nat, k <= l - 1, k <= n, rows[l - k].hash = ChainHash(R, n - k)
        PROVE  good(k)
    <3>1. l - k \in 1 .. l /\ n - k \in 0 .. Len(R)
      BY <1>2, <1>3, <2>1, <2>5
    <3>2. n - k > 0 /\ rows[l - k] = TrueRow(R, n - k)
      BY <2>2, <2>4, <2>5, <3>1, HashInverts
    <3> QED BY <1>3, <3>2
  <2>6. ASSUME NEW k \in T, \A j \in T : k <= j
        PROVE  FALSE
    <3>1. k \in Nat /\ k <= l - 1 /\ ~good(k)
      OBVIOUS
    <3>2. CASE k = 0
      <4>1. l - 0 = l /\ n - 0 = n
        BY <1>3
      <4>2. rows[l - 0].hash = ChainHash(R, n - 0) /\ 0 <= n /\ 0 \in Nat /\ 0 <= l - 1
        BY <1>3, <2>1, <2>3, <4>1
      <4>3. good(0)
        BY <2>5, <4>2
      <4> QED BY <3>1, <3>2, <4>3
    <3>3. CASE k > 0
      <4>1. PICK j : j = k - 1
        OBVIOUS
      <4>2. j \in Nat /\ j <= l - 1 /\ j < k
        BY <1>3, <3>1, <3>3, <4>1
      <4>3. good(j)
        BY <2>6, <4>2
      <4>4. l - j \in 2 .. l /\ (l - j) - 1 = l - k /\ (n - j) - 1 = n - k
        BY <1>3, <3>1, <4>1, <4>2
      <4>5. rows[l - k].hash = rows[l - j].prev
        BY <2>2, <4>4
      <4>6. rows[l - j].prev = ChainHash(R, n - k)
        BY <4>3, <4>4 DEF TrueRow
      <4>7. k <= n
        BY <1>3, <4>1, <4>2, <4>3
      <4> QED BY <2>5, <3>1, <4>5, <4>6, <4>7
    <3> QED BY <3>1, <3>2, <3>3
  <2>7. T = {}
    <3>1. T \subseteq Nat
      OBVIOUS
    <3> HIDE DEF T
    <3> QED BY <2>6, <3>1, LeastNumber
  <2>8. ASSUME NEW k \in 0 .. l - 1
        PROVE  good(k)
    <3>1. k \in Nat /\ k <= l - 1
      BY <1>3
    <3>2. k \notin T
      BY <2>7
    <3> HIDE DEF good
    <3> QED BY <3>1, <3>2
  <2>9. l <= n
    <3>1. good(l - 1)
      BY <1>3, <2>1, <2>8
    <3> QED BY <1>3, <3>1
  <2>10. PICK first : first = n - l + 1
    OBVIOUS
  <2>11. first \in 1 .. n /\ first \in Firsts(n) /\ first \in 1 .. Len(R) + 1 /\ n - first + 1 = l
    BY <1>2, <1>3, <2>1, <2>9, <2>10 DEF Firsts
  <2>12. PICK t : t = RowsOf(R, first)
    OBVIOUS
  <2>13. /\ t \in Seq(Rows) /\ Len(t) = l
         /\ \A i \in 1 .. l : t[i] = TrueRow(R, first + i - 1)
    BY <1>2, <2>11, <2>12, RowsFacts
  <2>14. ASSUME NEW i \in 1 .. l
         PROVE  rows[i] = t[i]
    <3>1. l - i \in 0 .. l - 1 /\ l - (l - i) = i /\ n - (l - i) = first + i - 1
      BY <1>3, <2>10
    <3>2. good(l - i)
      BY <2>8, <3>1
    <3> QED BY <2>13, <3>1, <3>2
  <2>15. rows = t
    BY <1>2, <2>13, <2>14, SeqEqual
  <2> QED BY <1>1, <1>2, <2>11, <2>12, <2>15 DEF Genuine
<1> QED BY <1>4, <1>5

-----------------------------------------------------------------------------
(* The inductive invariant.                                                *)

AuditTypeOK ==
    /\ recorded \in Seq(Events) /\ corruptions \in Nat
    /\ db \in [version : 0 .. 3, rows : Seq(Rows), tip : Tips, mark : Tips]
    /\ mem \in [pc : {"down", "schema", "up"}, max : Nat \ {0}, events : Seq(Nat \X Events),
                integrity : {"verified", "retention_gap", "tamper_detected"}]

(* The metadata is lost or names the last event that was recorded, and a   *)
(* file that has none yet is one that nothing else wrote to.               *)
TipInv ==
    /\ db.tip \in {NoTip, TrueTip(recorded)} /\ db.mark \in {NoTip, TrueTip(recorded)}
    /\ db.version < 2 => Genuine(db.rows, recorded)
    /\ mem.pc # "down" => db.version = 3

(* Without foreign changes: the file, and what the process shows of it.    *)
WholeInv ==
    corruptions = 0 =>
        /\ Genuine(db.rows, recorded)
        /\ db.version >= 2 => db.tip = TrueTip(recorded)
        /\ db.version >= 3 => db.mark = TrueTip(recorded)
HonestInv ==
    corruptions = 0 /\ mem.pc = "up" =>
        /\ mem.events = EventsOf(db.rows) /\ Len(mem.events) <= mem.max
        /\ mem.integrity # "tamper_detected"
        /\ mem.integrity = "verified" => Len(db.rows) = Len(recorded)

AuditInv == AuditTypeOK /\ TipInv /\ WholeInv /\ HonestInv

-----------------------------------------------------------------------------
(* What the process shows.                                                 *)

(* The events of a sequence of rows, by index. *)
LEMMA EventsOfFacts ==
    ASSUME NEW s \in Seq(Rows)
    PROVE  /\ EventsOf(s) \in Seq(Nat \X Events) /\ Len(EventsOf(s)) = Len(s)
           /\ \A i \in 1 .. Len(s) : EventsOf(s)[i] = <<s[i].seq, s[i].event>>
<1>1. PICK n : n = Len(s)
  OBVIOUS
<1>2. n \in Nat /\ DOMAIN s = 1 .. n
  BY <1>1, LenProperties
<1>3. ASSUME NEW i \in 1 .. n
      PROVE  <<s[i].seq, s[i].event>> \in Nat \X Events
  <2>1. s[i] \in Rows
    BY <1>1, ElementOfSeq
  <2> QED BY <2>1 DEF Rows
<1>4. EventsOf(s) = [i \in 1 .. n |-> <<s[i].seq, s[i].event>>]
  BY <1>2 DEF EventsOf
<1>5. EventsOf(s) \in [1 .. n -> Nat \X Events]
  BY <1>3, <1>4
<1>6. EventsOf(s) \in Seq(Nat \X Events)
  BY <1>2, <1>5, SeqDef
<1>7. Len(EventsOf(s)) = n
  BY <1>2, <1>5, <1>6, LenProperties
<1> QED BY <1>1, <1>4, <1>6, <1>7

(* A sequence within the limit is kept whole. *)
LEMMA ShortLastN ==
    ASSUME NEW S, NEW s \in Seq(S), NEW m \in Nat \ {0}, Len(s) <= m
    PROVE  LastN(s, m) = s
<1>1. PICK t, n : t = LastN(s, m) /\ n = Len(s)
  OBVIOUS
<1>2. n \in Nat /\ Cut(s, m) = 0
  BY <1>1, LenProperties DEF Cut
<1>3. t \in Seq(S) /\ Len(t) = n - 0 /\ \A i \in 1 .. n - 0 : t[i] = s[0 + i]
  BY <1>1, <1>2, LastNFacts
<1>4. Len(t) = n /\ \A i \in 1 .. n : t[i] = s[i]
  BY <1>2, <1>3
<1> QED BY <1>1, <1>3, <1>4, SeqEqual

(* Pruning the events is pruning the rows. *)
LEMMA EventsOfLastN ==
    ASSUME NEW s \in Seq(Rows), NEW m \in Nat \ {0}
    PROVE  LastN(EventsOf(s), m) = EventsOf(LastN(s, m))
<1>1. PICK n, k, ev, t : n = Len(s) /\ k = Cut(s, m) /\ ev = EventsOf(s) /\ t = LastN(s, m)
  OBVIOUS
<1>2. n \in Nat
  BY <1>1, LenProperties
<1>3. ev \in Seq(Nat \X Events) /\ Len(ev) = n /\ \A i \in 1 .. n : ev[i] = <<s[i].seq, s[i].event>>
  BY <1>1, EventsOfFacts
<1>4. Cut(ev, m) = k
  BY <1>1, <1>3 DEF Cut
<1>5. /\ k \in 0 .. n /\ t \in Seq(Rows) /\ Len(t) = n - k
      /\ \A i \in 1 .. n - k : t[i] = s[k + i]
  BY <1>1, LastNFacts
<1>6. PICK a, b : a = LastN(ev, m) /\ b = EventsOf(t)
  OBVIOUS
<1>7. /\ a \in Seq(Nat \X Events) /\ Len(a) = n - k
      /\ \A i \in 1 .. n - k : a[i] = ev[k + i]
  <2>1. PICK S : S = Nat \X Events
    OBVIOUS
  <2>2. ev \in Seq(S)
    BY <1>3, <2>1
  <2>3. /\ LastN(ev, m) \in Seq(S) /\ Len(LastN(ev, m)) = Len(ev) - Cut(ev, m)
        /\ \A i \in 1 .. Len(ev) - Cut(ev, m) : LastN(ev, m)[i] = ev[Cut(ev, m) + i]
    BY <2>2, LastNFacts
  <2> QED BY <1>3, <1>4, <1>6, <2>1, <2>3
<1>8. /\ b \in Seq(Nat \X Events) /\ Len(b) = n - k
      /\ \A i \in 1 .. n - k : b[i] = <<t[i].seq, t[i].event>>
  BY <1>5, <1>6, EventsOfFacts
<1>9. ASSUME NEW i \in 1 .. n - k
      PROVE  a[i] = b[i]
  <2>1. k + i \in 1 .. n
    BY <1>2, <1>5
  <2> QED BY <1>3, <1>5, <1>7, <1>8, <2>1
<1>10. a = b
  BY <1>7, <1>8, <1>9, SeqEqual
<1> QED BY <1>1, <1>6, <1>10

(* One more row is one more event. *)
LEMMA EventsOfAppend ==
    ASSUME NEW s \in Seq(Rows), NEW row \in Rows
    PROVE  EventsOf(Append(s, row)) = Append(EventsOf(s), <<row.seq, row.event>>)
<1>1. PICK n, t, ev, l : n = Len(s) /\ t = Append(s, row) /\ ev = EventsOf(s)
                         /\ l = <<row.seq, row.event>>
  OBVIOUS
<1>2. n \in Nat /\ l \in Nat \X Events
  BY <1>1, LenProperties DEF Rows
<1>3. ev \in Seq(Nat \X Events) /\ Len(ev) = n /\ \A i \in 1 .. n : ev[i] = <<s[i].seq, s[i].event>>
  BY <1>1, EventsOfFacts
<1>4. t \in Seq(Rows) /\ Len(t) = n + 1 /\ t[n + 1] = row /\ \A i \in 1 .. n : t[i] = s[i]
  BY <1>1, AppendProperties
<1>5. PICK a, b : a = EventsOf(t) /\ b = Append(ev, l)
  OBVIOUS
<1>6. /\ a \in Seq(Nat \X Events) /\ Len(a) = n + 1
      /\ \A i \in 1 .. n + 1 : a[i] = <<t[i].seq, t[i].event>>
  BY <1>4, <1>5, EventsOfFacts
<1>7. /\ b \in Seq(Nat \X Events) /\ Len(b) = n + 1 /\ b[n + 1] = l
      /\ \A i \in 1 .. n : b[i] = ev[i]
  BY <1>2, <1>3, <1>5, AppendProperties
<1>8. ASSUME NEW i \in 1 .. n + 1
      PROVE  a[i] = b[i]
  <2>1. CASE i = n + 1
    BY <1>1, <1>4, <1>6, <1>7, <2>1
  <2>2. CASE i # n + 1
    <3>1. i \in 1 .. n
      BY <1>2, <2>2
    <3> QED BY <1>3, <1>4, <1>6, <1>7, <3>1
  <2> QED BY <2>1, <2>2
<1>9. a = b
  BY <1>6, <1>7, <1>8, SeqEqual
<1> QED BY <1>1, <1>5, <1>9

(* The rows of a suffix are genuine, and their last row is the newest. *)
LEMMA GenuineFacts ==
    ASSUME NEW R \in Seq(Events), NEW first \in Firsts(Len(R)), NEW rows, rows = RowsOf(R, first)
    PROVE  /\ rows \in Seq(Rows) /\ Len(rows) = Len(R) - first + 1
           /\ Genuine(rows, R)
           /\ (rows = <<>>) <=> (Len(R) = 0)
           /\ Len(R) > 0 => Last(rows) = TrueRow(R, Len(R))
<1>1. PICK n : n = Len(R)
  OBVIOUS
<1>2. n \in Nat /\ first \in 1 .. Len(R) + 1
  BY <1>1 DEF Firsts
<1>3. /\ rows \in Seq(Rows) /\ Len(rows) = n - first + 1
      /\ \A i \in 1 .. n - first + 1 : rows[i] = TrueRow(R, first + i - 1)
  BY <1>1, <1>2, RowsFacts
<1>4. CASE n = 0
  <2>1. Len(rows) = 0
    BY <1>1, <1>2, <1>3, <1>4 DEF Firsts
  <2>2. rows = <<>>
    BY <1>3, <2>1, EmptySeq
  <2>3. Genuine(rows, R)
    BY DEF Genuine
  <2>4. Len(R) = 0 /\ Len(rows) = Len(R) - first + 1
    BY <1>1, <1>3, <1>4
  <2> QED BY <1>3, <2>2, <2>3, <2>4
<1>5. CASE n > 0
  <2>1. first \in 1 .. n
    BY <1>1, <1>5 DEF Firsts
  <2>2. Len(rows) \in 1 .. n - first + 1 /\ first + Len(rows) - 1 = n
    BY <1>2, <1>3, <2>1
  <2>3. Last(rows) = TrueRow(R, n)
    BY <1>3, <2>2 DEF Last
  <2>4. rows # <<>>
    BY <2>2, EmptySeq
  <2>5. Genuine(rows, R)
    BY DEF Genuine
  <2>6. Len(R) # 0 /\ Last(rows) = TrueRow(R, Len(R)) /\ Len(rows) = Len(R) - first + 1
    BY <1>1, <1>3, <1>5, <2>3
  <2> QED BY <1>3, <2>4, <2>5, <2>6
<1> QED BY <1>2, <1>4, <1>5

(* Genuine rows have the genuine tip. *)
LEMMA GenuineTip ==
    ASSUME NEW R \in Seq(Events), NEW rows, Genuine(rows, R)
    PROVE  TipOf(rows) = TrueTip(R) /\ rows \in Seq(Rows)
<1>1. PICK first \in Firsts(Len(R)) : rows = RowsOf(R, first)
  BY DEF Genuine
<1>2. /\ rows \in Seq(Rows)
      /\ (rows = <<>>) <=> (Len(R) = 0)
      /\ Len(R) > 0 => Last(rows) = TrueRow(R, Len(R))
  BY <1>1, GenuineFacts
<1>3. CASE Len(R) = 0
  BY <1>2, <1>3, EmptyChain DEF TipOf, TrueTip, Genesis
<1>4. CASE Len(R) > 0
  BY <1>2, <1>4 DEF TipOf, TrueTip, TrueRow
<1> QED BY <1>2, <1>3, <1>4

-----------------------------------------------------------------------------
(* Steps.                                                                  *)

(* Rows that verify against the metadata are genuine. *)
LEMMA TrustedRows ==
    ASSUME AuditTypeOK, TipInv, Trusted
    PROVE  /\ db.tip = TrueTip(recorded) /\ db.mark = TrueTip(recorded)
           /\ Genuine(db.rows, recorded)
<1>1. recorded \in Seq(Events) /\ db.rows \in Seq(Rows)
  BY DEF AuditTypeOK
<1>2. Verify(db.rows, db.tip, db.mark) # "tamper_detected"
  BY DEF Trusted, Integrity
<1>3. db.tip \in {NoTip, TrueTip(recorded)} /\ db.mark \in {NoTip, TrueTip(recorded)}
  BY DEF TipInv
<1> QED BY <1>1, <1>2, <1>3, VerifiedIsGenuine

(* Verify has three answers. *)
LEMMA VerifyType ==
    ASSUME NEW rows, NEW tip, NEW mark
    PROVE  Verify(rows, tip, mark) \in {"verified", "retention_gap", "tamper_detected"}
BY DEF Verify

(* A file that only the Hub wrote to verifies, as "verified" only if it    *)
(* holds every event.                                                      *)
LEMMA WholeVerifies ==
    ASSUME NEW R \in Seq(Events), NEW rows, Genuine(rows, R)
    PROVE  /\ Verify(rows, TrueTip(R), TrueTip(R)) # "tamper_detected"
           /\ Verify(rows, TrueTip(R), TrueTip(R)) = "verified" => Len(rows) = Len(R)
<1>1. PICK first \in Firsts(Len(R)) : rows = RowsOf(R, first)
  BY DEF Genuine
<1>2. Verify(rows, TrueTip(R), TrueTip(R)) = IF first = 1 THEN "verified" ELSE "retention_gap"
  BY <1>1, GenuineVerifies
<1>3. first = 1 => Len(rows) = Len(R)
  <2>1. Len(rows) = Len(R) - first + 1 /\ Len(R) \in Nat
    BY <1>1, GenuineFacts
  <2> QED BY <2>1
<1> QED BY <1>2, <1>3

(* Pruning keeps genuine rows genuine. *)
LEMMA PrunedGenuine ==
    ASSUME NEW R \in Seq(Events), NEW rows, Genuine(rows, R), NEW m \in Nat \ {0}
    PROVE  Genuine(LastN(rows, m), R)
BY PrunedRows DEF Genuine

(* The row that _persist_event inserts, and the file that it leaves. *)
LEMMA PersistFacts ==
    ASSUME AuditInv, Trusted, NEW e \in Events, NEW Q, Q = Append(recorded, e)
    PROVE  /\ Q \in Seq(Events) /\ Len(Q) = Len(recorded) + 1
           /\ NextRow(e) \in Rows /\ NextRow(e).event = e
           /\ Persisted(e).version = db.version
           /\ Persisted(e).tip = TrueTip(Q) /\ Persisted(e).mark = TrueTip(Q)
           /\ Persisted(e).rows = LastN(Append(db.rows, NextRow(e)), mem.max)
           /\ Genuine(Persisted(e).rows, Q)
           /\ Integrity(Persisted(e)) # "tamper_detected"
           /\ Integrity(Persisted(e)) = "verified" => Len(db.rows) = Len(recorded)
           /\ Len(Persisted(e).rows) \in 1 .. Len(db.rows) + 1
<1>1. PICK R, n, rows, row, m : /\ R = recorded /\ n = Len(R) /\ rows = db.rows
                                /\ row = NextRow(e) /\ m = mem.max
  OBVIOUS
<1>2. R \in Seq(Events) /\ n \in Nat /\ rows \in Seq(Rows) /\ m \in Nat \ {0}
  BY <1>1, LenProperties DEF AuditInv, AuditTypeOK
<1>3. Q \in Seq(Events) /\ Len(Q) = n + 1 /\ Q[n + 1] = e /\ \A i \in 1 .. n : Q[i] = R[i]
  BY <1>1, <1>2, AppendProperties
<1>4. Genuine(rows, R)
  BY <1>1, TrustedRows DEF AuditInv
<1>5. PICK first \in Firsts(Len(R)) : rows = RowsOf(R, first)
  BY <1>4 DEF Genuine
<1>6. /\ Len(rows) = n - first + 1
      /\ (rows = <<>>) <=> (n = 0)
      /\ n > 0 => Last(rows) = TrueRow(R, n)
  BY <1>1, <1>2, <1>5, GenuineFacts
<1>7. ChainHash(Q, n) = ChainHash(R, n)
  BY <1>1, <1>2, ChainGrows
<1>8. ChainHash(Q, n + 1) = EventHash(n + 1, e, ChainHash(R, n))
  <2>1. n + 1 \in 1 .. Len(Q) /\ (n + 1) - 1 = n
    BY <1>2, <1>3
  <2> QED BY <1>3, <1>7, <2>1, ChainStep
<1>9. row = TrueRow(Q, n + 1)
  <2>1. TrueRow(Q, n + 1) = [seq |-> n + 1, event |-> e, prev |-> ChainHash(R, n),
                             hash |-> EventHash(n + 1, e, ChainHash(R, n))]
    <3>1. (n + 1) - 1 = n
      BY <1>2
    <3> QED BY <1>3, <1>7, <1>8, <3>1 DEF TrueRow
  <2>2. CASE n = 0
    <3>1. rows = <<>> /\ ChainHash(R, n) = Genesis
      BY <1>2, <1>6, <2>2, EmptyChain DEF Genesis
    <3> QED BY <1>1, <2>1, <2>2, <3>1 DEF NextRow
  <2>3. CASE n > 0
    <3>1. rows # <<>> /\ Last(rows).seq = n /\ Last(rows).hash = ChainHash(R, n)
      BY <1>6, <2>3 DEF TrueRow
    <3> QED BY <1>1, <2>1, <3>1 DEF NextRow
  <2> QED BY <1>2, <2>2, <2>3
<1>10. row \in Rows /\ row.event = e /\ row.seq = n + 1 /\ row.hash = ChainHash(Q, n + 1)
  <2>1. n + 1 \in 1 .. Len(Q)
    BY <1>2, <1>3
  <2>2. row \in Rows
    BY <1>3, <1>9, <2>1, RowFacts
  <2> QED BY <1>3, <1>9, <2>2 DEF TrueRow
<1>11. [seq |-> row.seq, hash |-> row.hash] = TrueTip(Q)
  BY <1>3, <1>10 DEF TrueTip
<1>12. PICK p, rs : p = Persisted(e) /\ rs = LastN(Append(rows, row), m)
  OBVIOUS
<1>13. p.version = db.version /\ p.tip = TrueTip(Q) /\ p.mark = TrueTip(Q) /\ p.rows = rs
  BY <1>1, <1>11, <1>12 DEF Persisted, Pruned, AuditInv, AuditTypeOK
<1>14. Append(rows, row) = RowsOf(Q, first)
  BY <1>1, <1>2, <1>5, <1>9, GrownRows
<1>15. first \in Firsts(Len(Q))
  BY <1>1, <1>2, <1>3 DEF Firsts
<1>16. PICK next \in Firsts(Len(Q)) : next >= first /\ rs = RowsOf(Q, next)
  <2>1. rs = LastN(RowsOf(Q, first), m)
    BY <1>12, <1>14
  <2>2. \E next \in Firsts(Len(Q)) : next >= first /\ LastN(RowsOf(Q, first), m) = RowsOf(Q, next)
    BY <1>2, <1>3, <1>15, PrunedRows
  <2> QED BY <2>1, <2>2
<1>17. Genuine(rs, Q)
  BY <1>16 DEF Genuine
<1>18. Integrity(p) = IF next = 1 THEN "verified" ELSE "retention_gap"
  BY <1>3, <1>13, <1>16, GenuineVerifies DEF Integrity
<1>19. Len(rs) = (n + 1) - next + 1
  BY <1>3, <1>16, GenuineFacts
<1>20. first \in Nat /\ first >= 1 /\ next \in Nat /\ next <= n + 1
  BY <1>1, <1>2, <1>3, <1>16 DEF Firsts
<1>21. Integrity(p) = "verified" => Len(rows) = n
  BY <1>2, <1>6, <1>16, <1>18, <1>20
<1>22. Len(rs) \in 1 .. Len(rows) + 1
  BY <1>2, <1>6, <1>16, <1>19, <1>20
<1> QED BY <1>1, <1>3, <1>10, <1>12, <1>13, <1>17, <1>18, <1>21, <1>22

(* Steps that leave the file alone. *)
LEMMA FileKept ==
    ASSUME AuditInv, UNCHANGED <<db, recorded, corruptions>>,
           mem' \in [pc : {"down", "schema", "up"}, max : Nat \ {0}, events : Seq(Nat \X Events),
                     integrity : {"verified", "retention_gap", "tamper_detected"}],
           mem'.pc # "down" => mem.pc # "down", HonestInv'
    PROVE  AuditInv'
<1>1. AuditTypeOK'
  BY DEF AuditInv, AuditTypeOK
<1>2. TipInv'
  BY DEF AuditInv, TipInv
<1>3. WholeInv'
  BY DEF AuditInv, WholeInv
<1> QED BY <1>1, <1>2, <1>3 DEF AuditInv

(* The integrity that a step assigns. *)
LEMMA ReportStep ==
    ASSUME AuditInv, UNCHANGED <<db, recorded, corruptions>>, mem.pc = "up",
           NEW v \in {"verified", "retention_gap", "tamper_detected"},
           mem' = [mem EXCEPT !.integrity = v],
           corruptions = 0 => v # "tamper_detected" /\ (v = "verified" => Len(db.rows) = Len(recorded))
    PROVE  AuditInv'
<1>1. /\ mem'.pc = mem.pc /\ mem'.max = mem.max /\ mem'.events = mem.events /\ mem'.integrity = v
      /\ mem' \in [pc : {"down", "schema", "up"}, max : Nat \ {0}, events : Seq(Nat \X Events),
                   integrity : {"verified", "retention_gap", "tamper_detected"}]
  BY DEF AuditInv, AuditTypeOK
<1>2. HonestInv'
  BY <1>1 DEF AuditInv, HonestInv
<1> QED BY <1>1, <1>2, FileKept

(* Steps that only read, fail or crash keep the invariant. *)
LEMMA ReadSteps ==
    ASSUME AuditInv, RefuseTampered \/ CheckStore \/ Crash \/ (\E e \in Events : RecordFails(e))
    PROVE  AuditInv'
<1>1. UNCHANGED <<db, recorded, corruptions>>
  BY DEF RefuseTampered, CheckStore, Crash, RecordFails
<1>2. corruptions = 0 /\ mem.pc = "up" =>
        /\ Integrity(db) # "tamper_detected"
        /\ Integrity(db) = "verified" => Len(db.rows) = Len(recorded)
  <2> SUFFICES ASSUME corruptions = 0, mem.pc = "up"
               PROVE  /\ Integrity(db) # "tamper_detected"
                      /\ Integrity(db) = "verified" => Len(db.rows) = Len(recorded)
    OBVIOUS
  <2>1. db.version = 3
    BY DEF AuditInv, TipInv
  <2>2. /\ Genuine(db.rows, recorded) /\ db.tip = TrueTip(recorded) /\ db.mark = TrueTip(recorded)
        /\ recorded \in Seq(Events)
    BY <2>1 DEF AuditInv, WholeInv, AuditTypeOK
  <2> QED BY <2>2, WholeVerifies DEF Integrity
<1>3. CASE RefuseTampered
  BY <1>1, <1>2, <1>3, ReportStep DEF RefuseTampered
<1>4. CASE CheckStore
  <2>1. PICK v : v = Integrity(db)
    OBVIOUS
  <2>2. v \in {"verified", "retention_gap", "tamper_detected"}
    BY <2>1, VerifyType DEF Integrity
  <2>3. mem.pc = "up" /\ mem' = [mem EXCEPT !.integrity = v]
    BY <1>4, <2>1 DEF CheckStore
  <2> QED BY <1>1, <1>2, <2>1, <2>2, <2>3, ReportStep
<1>5. CASE Crash
  <2>1. mem' = Down
    BY <1>5 DEF Crash
  <2>2. mem'.pc = "down" /\ mem' \in [pc : {"down", "schema", "up"}, max : Nat \ {0},
                     events : Seq(Nat \X Events),
                     integrity : {"verified", "retention_gap", "tamper_detected"}]
    BY <2>1, EmptySeq DEF Down
  <2>3. HonestInv'
    BY <2>2 DEF HonestInv
  <2> QED BY <1>1, <2>2, <2>3, FileKept
<1>6. ASSUME NEW e \in Events, RecordFails(e)
      PROVE  AuditInv'
  <2>1. mem.pc = "up" /\ Trusted
    BY <1>6 DEF RecordFails, Trusted
  <2>2. PICK v : v = Integrity(Persisted(e))
    OBVIOUS
  <2>3. v \in {"verified", "retention_gap", "tamper_detected"}
    BY <2>2, VerifyType DEF Integrity
  <2>4. v # "tamper_detected" /\ (v = "verified" => Len(db.rows) = Len(recorded))
    BY <2>1, <2>2, PersistFacts
  <2>5. CASE mem' = mem
    BY <1>1, <2>5, FileKept DEF AuditInv, AuditTypeOK, HonestInv
  <2>6. CASE mem' = [mem EXCEPT !.integrity = v]
    BY <1>1, <2>1, <2>3, <2>4, <2>6, ReportStep
  <2> QED BY <1>6, <2>2, <2>5, <2>6 DEF RecordFails
<1> QED BY <1>3, <1>4, <1>5, <1>6

(* Opening and migrating the file keeps the invariant. *)
LEMMA SchemaStep ==
    ASSUME AuditInv, NEW max \in Limits, InitializeSchema(max)
    PROVE  AuditInv'
<1>1. PICK tip, mark :
        /\ tip = IF db.version < 2 THEN TipOf(db.rows) ELSE db.tip
        /\ mark = IF db.version < 3 THEN tip ELSE db.mark
        /\ db.version < 3 => tip # NoTip
        /\ db' = [db EXCEPT !.version = 3, !.tip = tip, !.mark = mark]
  BY DEF InitializeSchema
<1>2. mem' = [Down EXCEPT !.pc = "schema", !.max = max] /\ UNCHANGED <<recorded, corruptions>>
  BY DEF InitializeSchema
<1>3. recorded \in Seq(Events) /\ db.version \in 0 .. 3
  BY DEF AuditInv, AuditTypeOK
<1>4. tip \in {NoTip, TrueTip(recorded)} /\ mark \in {NoTip, TrueTip(recorded)}
  BY <1>1, <1>3, GenuineTip DEF AuditInv, TipInv
<1>5. corruptions = 0 => /\ Genuine(db.rows, recorded) /\ tip = TrueTip(recorded)
                         /\ mark = TrueTip(recorded)
  BY <1>1, <1>3, GenuineTip DEF AuditInv, WholeInv
<1>6. tip \in Tips /\ mark \in Tips
  BY <1>3, <1>4, TipFacts
<1>7. db'.version = 3 /\ db'.rows = db.rows /\ db'.tip = tip /\ db'.mark = mark
  BY <1>1 DEF AuditInv, AuditTypeOK
<1>8. mem'.pc = "schema"
  BY <1>2 DEF Down
<1>9. AuditTypeOK'
  <2>1. max \in Nat \ {0}
    BY AuditAssumption
  <2>2. mem' \in [pc : {"down", "schema", "up"}, max : Nat \ {0}, events : Seq(Nat \X Events),
                  integrity : {"verified", "retention_gap", "tamper_detected"}]
    BY <1>2, <2>1, EmptySeq DEF Down
  <2>3. db' \in [version : 0 .. 3, rows : Seq(Rows), tip : Tips, mark : Tips]
    <3>1. db' = [version |-> 3, rows |-> db.rows, tip |-> tip, mark |-> mark]
      BY <1>1 DEF AuditInv, AuditTypeOK
    <3>2. db.rows \in Seq(Rows)
      BY DEF AuditInv, AuditTypeOK
    <3> QED BY <1>6, <3>1, <3>2
  <2> QED BY <1>2, <2>2, <2>3 DEF AuditInv, AuditTypeOK
<1>10. TipInv'
  BY <1>2, <1>4, <1>7 DEF TipInv
<1>11. WholeInv' /\ HonestInv'
  BY <1>2, <1>5, <1>7, <1>8 DEF WholeInv, HonestInv
<1> QED BY <1>9, <1>10, <1>11 DEF AuditInv

(* Loading, with its prune under a new limit, keeps the invariant. *)
LEMMA LoadStep ==
    ASSUME AuditInv, LoadPersistentEvents
    PROVE  AuditInv'
<1>1. PICK kept, m, v :
        /\ kept = IF Integrity(db) = "tamper_detected" THEN db.rows ELSE LastN(db.rows, m)
        /\ m = mem.max /\ v = Verify(kept, db.tip, db.mark)
        /\ db' = [db EXCEPT !.rows = kept]
        /\ mem' = [mem EXCEPT !.pc = "up", !.events = EventsOf(LastN(kept, m)), !.integrity = v]
        /\ mem.pc = "schema" /\ UNCHANGED <<recorded, corruptions>>
  BY DEF LoadPersistentEvents, Pruned
<1>2. /\ recorded \in Seq(Events) /\ db.rows \in Seq(Rows) /\ m \in Nat \ {0} /\ db.version = 3
      /\ db.tip \in Tips /\ db.mark \in Tips
  BY <1>1 DEF AuditInv, AuditTypeOK, TipInv
<1>3. kept \in Seq(Rows)
  BY <1>1, <1>2, LastNFacts
<1>4. LastN(kept, m) \in Seq(Rows) /\ Len(LastN(kept, m)) <= m
  BY <1>2, <1>3, LastNFacts
<1>5. PICK ev : ev = EventsOf(LastN(kept, m))
  OBVIOUS
<1>6. ev \in Seq(Nat \X Events) /\ Len(ev) <= m
  BY <1>4, <1>5, EventsOfFacts
<1>7. /\ db'.version = 3 /\ db'.rows = kept /\ db'.tip = db.tip /\ db'.mark = db.mark
      /\ db' = [version |-> 3, rows |-> kept, tip |-> db.tip, mark |-> db.mark]
  BY <1>1, <1>2 DEF AuditInv, AuditTypeOK
<1>8. mem' = [pc |-> "up", max |-> m, events |-> ev, integrity |-> v]
  BY <1>1, <1>5 DEF AuditInv, AuditTypeOK
<1>9. v \in {"verified", "retention_gap", "tamper_detected"}
  BY <1>1, VerifyType
<1>10. AuditTypeOK'
  <2>1. db' \in [version : 0 .. 3, rows : Seq(Rows), tip : Tips, mark : Tips]
    BY <1>2, <1>3, <1>7
  <2>2. mem' \in [pc : {"down", "schema", "up"}, max : Nat \ {0}, events : Seq(Nat \X Events),
                  integrity : {"verified", "retention_gap", "tamper_detected"}]
    BY <1>2, <1>6, <1>8, <1>9
  <2> QED BY <1>1, <2>1, <2>2 DEF AuditInv, AuditTypeOK
<1>11. TipInv'
  BY <1>1, <1>7 DEF AuditInv, TipInv
<1>12. ASSUME corruptions = 0
       PROVE  /\ Genuine(kept, recorded) /\ Len(kept) <= m
              /\ db.tip = TrueTip(recorded) /\ db.mark = TrueTip(recorded)
  <2>1. Genuine(db.rows, recorded) /\ db.tip = TrueTip(recorded) /\ db.mark = TrueTip(recorded)
    BY <1>2, <1>12 DEF AuditInv, WholeInv
  <2>2. Integrity(db) # "tamper_detected"
    BY <1>2, <2>1, WholeVerifies DEF Integrity
  <2>3. kept = LastN(db.rows, m)
    BY <1>1, <2>2
  <2>4. Genuine(kept, recorded)
    BY <1>2, <2>1, <2>3, PrunedGenuine
  <2>5. Len(kept) <= m
    BY <1>2, <2>3, LastNFacts
  <2> QED BY <2>1, <2>4, <2>5
<1>13. WholeInv'
  BY <1>1, <1>7, <1>12 DEF WholeInv
<1>14. HonestInv'
  <2> SUFFICES ASSUME corruptions' = 0 PROVE HonestInv'
    BY DEF HonestInv
  <2>1. corruptions = 0
    BY <1>1
  <2>2. LastN(kept, m) = kept
    BY <1>2, <1>3, <1>12, <2>1, ShortLastN
  <2>3. ev = EventsOf(kept)
    BY <1>5, <2>2
  <2>4. v # "tamper_detected" /\ (v = "verified" => Len(kept) = Len(recorded))
    BY <1>1, <1>2, <1>12, <2>1, WholeVerifies
  <2>5. mem'.events = ev /\ mem'.max = m /\ mem'.integrity = v
    BY <1>8
  <2> QED BY <1>1, <1>6, <1>7, <2>3, <2>4, <2>5 DEF HonestInv
<1> QED BY <1>10, <1>11, <1>13, <1>14 DEF AuditInv

(* Recording an event, with its prune, keeps the invariant. *)
LEMMA RecordStep ==
    ASSUME AuditInv, NEW e \in Events, Record(e)
    PROVE  AuditInv'
<1>1. PICK R, Q, m, row, p, v :
        /\ R = recorded /\ Q = Append(recorded, e) /\ m = mem.max /\ row = NextRow(e)
        /\ p = Persisted(e) /\ v = Integrity(p)
  OBVIOUS
<1>2. PICK ev : ev = LastN(Append(mem.events, <<row.seq, e>>), m)
  OBVIOUS
<1>3. /\ mem.pc = "up" /\ Trusted /\ db' = p /\ recorded' = Q /\ UNCHANGED corruptions
      /\ mem' = [mem EXCEPT !.integrity = v, !.events = ev]
  BY <1>1, <1>2 DEF Record, Trusted
<1>4. /\ Q \in Seq(Events) /\ row \in Rows /\ row.event = e
      /\ p.version = db.version /\ p.tip = TrueTip(Q) /\ p.mark = TrueTip(Q)
      /\ p.rows = LastN(Append(db.rows, row), m) /\ Genuine(p.rows, Q)
      /\ v # "tamper_detected"
  BY <1>1, <1>3, PersistFacts
<1>5. /\ db.rows \in Seq(Rows) /\ m \in Nat \ {0} /\ mem.events \in Seq(Nat \X Events)
      /\ db.version = 3
  BY <1>1, <1>3 DEF AuditInv, AuditTypeOK, TipInv
<1>6. ev \in Seq(Nat \X Events) /\ Len(ev) <= m
  <2>1. PICK S, l : S = Nat \X Events /\ l = <<row.seq, e>>
    OBVIOUS
  <2>2. l \in S
    BY <1>4, <2>1 DEF Rows
  <2>3. Append(mem.events, l) \in Seq(S)
    BY <1>5, <2>1, <2>2, AppendProperties
  <2>4. LastN(Append(mem.events, l), m) \in Seq(S) /\ Len(LastN(Append(mem.events, l), m)) <= m
    BY <1>5, <2>3, LastNFacts
  <2> QED BY <1>2, <2>1, <2>4
<1>7. mem' = [pc |-> "up", max |-> m, events |-> ev, integrity |-> v]
  BY <1>1, <1>3 DEF AuditInv, AuditTypeOK
<1>8. v \in {"verified", "retention_gap", "tamper_detected"}
  BY <1>1, VerifyType DEF Integrity
<1>9. p.rows \in Seq(Rows) /\ TrueTip(Q) \in Tips
  BY <1>4, GenuineTip, TipFacts
<1>10. AuditTypeOK'
  <2>1. p = [version |-> db.version, rows |-> p.rows, tip |-> p.tip, mark |-> p.mark]
    BY <1>1 DEF Persisted, AuditInv, AuditTypeOK
  <2>2. db' \in [version : 0 .. 3, rows : Seq(Rows), tip : Tips, mark : Tips]
    BY <1>3, <1>4, <1>5, <1>9, <2>1
  <2>3. mem' \in [pc : {"down", "schema", "up"}, max : Nat \ {0}, events : Seq(Nat \X Events),
                  integrity : {"verified", "retention_gap", "tamper_detected"}]
    BY <1>5, <1>6, <1>7, <1>8
  <2> QED BY <1>3, <1>4, <2>2, <2>3 DEF AuditInv, AuditTypeOK
<1>11. TipInv' /\ WholeInv'
  BY <1>3, <1>4, <1>5 DEF TipInv, WholeInv
<1>12. HonestInv'
  <2> SUFFICES ASSUME corruptions' = 0 PROVE HonestInv'
    BY DEF HonestInv
  <2>1. mem.events = EventsOf(db.rows)
    BY <1>3 DEF AuditInv, HonestInv
  <2>2. PICK s : s = Append(db.rows, row)
    OBVIOUS
  <2>3. EventsOf(s) = Append(mem.events, <<row.seq, e>>) /\ s \in Seq(Rows)
    BY <1>4, <1>5, <2>1, <2>2, EventsOfAppend, AppendProperties
  <2>4. ev = EventsOf(p.rows)
    BY <1>2, <1>4, <1>5, <2>2, <2>3, EventsOfLastN
  <2>5. v = "verified" => Len(p.rows) = Len(Q)
    BY <1>1, <1>4, WholeVerifies DEF Integrity
  <2>6. mem'.events = ev /\ mem'.max = m /\ mem'.integrity = v
    BY <1>7
  <2> QED BY <1>3, <1>4, <1>6, <2>4, <2>5, <2>6 DEF HonestInv
<1> QED BY <1>10, <1>11, <1>12 DEF AuditInv

(* A foreign change leaves rows of the right form, and not more of them. *)
LEMMA CorruptedFacts ==
    ASSUME AuditTypeOK, NEW rows \in CorruptedRows
    PROVE  rows \in Seq(Rows) /\ Len(rows) <= Len(db.rows)
<1>1. PICK s, n : s = db.rows /\ n = Len(s)
  OBVIOUS
<1>2. s \in Seq(Rows) /\ n \in Nat /\ DOMAIN s = 1 .. n
  BY <1>1, LenProperties DEF AuditTypeOK
<1>3. PICK i \in DOMAIN s :
        \/ \E e \in Events : rows = [s EXCEPT ![i].event = e]
        \/ rows = [s EXCEPT ![i].hash = Garbage] \/ rows = [s EXCEPT ![i].prev = Garbage]
        \/ rows = [s EXCEPT ![i].seq = @ + 1]
        \/ rows = Without(s, i) \/ rows = SubSeq(s, 1, i - 1)
  BY <1>1 DEF CorruptedRows
<1>4. i \in 1 .. n /\ s[i] \in Rows
  BY <1>1, <1>2, <1>3, ElementOfSeq
<1>5. Garbage \in Digests
  BY DEF Garbage, Digests, Links
<1>6. ASSUME NEW row \in Rows, rows = [s EXCEPT ![i] = row]
      PROVE  rows \in Seq(Rows) /\ Len(rows) <= n
  BY <1>1, <1>2, <1>4, <1>6, ExceptSeq
<1>7. ASSUME NEW e \in Events, rows = [s EXCEPT ![i].event = e]
      PROVE  rows \in Seq(Rows) /\ Len(rows) <= n
  <2>1. PICK row : row = [s[i] EXCEPT !.event = e]
    OBVIOUS
  <2>2. row \in Rows
    BY <1>4, <2>1 DEF Rows
  <2>3. rows = [s EXCEPT ![i] = row]
    BY <1>7, <2>1
  <2> QED BY <1>6, <2>2, <2>3
<1>8. CASE rows = [s EXCEPT ![i].hash = Garbage]
  <2>1. PICK row : row = [s[i] EXCEPT !.hash = Garbage]
    OBVIOUS
  <2>2. row \in Rows
    BY <1>4, <1>5, <2>1 DEF Rows
  <2>3. rows = [s EXCEPT ![i] = row]
    BY <1>8, <2>1
  <2> QED BY <1>1, <1>6, <2>2, <2>3
<1>9. CASE rows = [s EXCEPT ![i].prev = Garbage]
  <2>1. PICK row : row = [s[i] EXCEPT !.prev = Garbage]
    OBVIOUS
  <2>2. row \in Rows
    BY <1>4, <1>5, <2>1 DEF Rows
  <2>3. rows = [s EXCEPT ![i] = row]
    BY <1>9, <2>1
  <2> QED BY <1>1, <1>6, <2>2, <2>3
<1>10. CASE rows = [s EXCEPT ![i].seq = @ + 1]
  <2>1. PICK row : row = [s[i] EXCEPT !.seq = @ + 1]
    OBVIOUS
  <2>2. row \in Rows
    BY <1>4, <2>1 DEF Rows
  <2>3. rows = [s EXCEPT ![i] = row]
    BY <1>10, <2>1
  <2> QED BY <1>1, <1>6, <2>2, <2>3
<1>11. PICK head, tail : head = SubSeq(s, 1, i - 1) /\ tail = SubSeq(s, i + 1, n)
  OBVIOUS
<1>12. head \in Seq(Rows) /\ Len(head) = i - 1
  <2>1. \A j \in 1 .. i - 1 : s[j] \in Rows
    BY <1>1, <1>2, <1>4, ElementOfSeq
  <2>2. /\ head \in Seq(Rows)
        /\ Len(head) = IF 1 <= i - 1 THEN (i - 1) - 1 + 1 ELSE 0
    BY <1>4, <1>11, <2>1, SubSeqProperties
  <2> QED BY <1>4, <2>2
<1>13. tail \in Seq(Rows) /\ Len(tail) = n - i
  <2>1. \A j \in i + 1 .. n : s[j] \in Rows
    BY <1>1, <1>2, <1>4, ElementOfSeq
  <2>2. /\ tail \in Seq(Rows)
        /\ Len(tail) = IF i + 1 <= n THEN n - (i + 1) + 1 ELSE 0
    BY <1>2, <1>4, <1>11, <2>1, SubSeqProperties
  <2> QED BY <1>2, <1>4, <2>2
<1>14. CASE rows = Without(s, i)
  <2>1. rows = head \o tail
    BY <1>1, <1>11, <1>14 DEF Without
  <2>2. rows \in Seq(Rows) /\ Len(rows) = Len(head) + Len(tail)
    BY <1>12, <1>13, <2>1, ConcatProperties
  <2> QED BY <1>1, <1>2, <1>4, <1>12, <1>13, <2>2
<1>15. CASE rows = SubSeq(s, 1, i - 1)
  BY <1>1, <1>2, <1>4, <1>11, <1>12, <1>15
<1> QED BY <1>1, <1>3, <1>7, <1>8, <1>9, <1>10, <1>14, <1>15

(* A foreign change of the file keeps the invariant and adds no row. *)
LEMMA CorruptStep ==
    ASSUME AuditInv, Corrupt
    PROVE  AuditInv' /\ Len(db'.rows) <= Len(db.rows)
<1>1. /\ db.version \in 0 .. 3 /\ db.version >= 2 /\ db.rows \in Seq(Rows)
      /\ db = [version |-> db.version, rows |-> db.rows, tip |-> db.tip, mark |-> db.mark]
      /\ db.tip \in Tips /\ db.mark \in Tips /\ recorded \in Seq(Events)
  BY DEF AuditInv, AuditTypeOK, Corrupt
<1>2. corruptions' = corruptions + 1 /\ corruptions' \in Nat /\ corruptions' # 0
      /\ UNCHANGED <<mem, recorded>>
  BY DEF AuditInv, AuditTypeOK, Corrupt
<1>3. ASSUME NEW rows \in Seq(Rows), NEW tip \in {NoTip, db.tip}, NEW mark \in {NoTip, db.mark},
             Len(rows) <= Len(db.rows),
             db' = [version |-> db.version, rows |-> rows, tip |-> tip, mark |-> mark]
      PROVE  AuditInv' /\ Len(db'.rows) <= Len(db.rows)
  <2>1. db'.rows = rows /\ db'.version = db.version /\ db'.tip = tip /\ db'.mark = mark
    BY <1>3
  <2>2. tip \in Tips /\ mark \in Tips
    BY <1>1, TipFacts
  <2>3. AuditTypeOK'
    <3>1. db' \in [version : 0 .. 3, rows : Seq(Rows), tip : Tips, mark : Tips]
      BY <1>1, <1>3, <2>2
    <3> QED BY <1>2, <3>1 DEF AuditInv, AuditTypeOK
  <2>4. TipInv'
    BY <1>1, <1>2, <2>1 DEF AuditInv, TipInv
  <2>5. WholeInv' /\ HonestInv'
    BY <1>2 DEF WholeInv, HonestInv
  <2> QED BY <1>3, <2>1, <2>3, <2>4, <2>5 DEF AuditInv
<1>4. CASE db' \in {[db EXCEPT !.rows = rows] : rows \in CorruptedRows}
  <2>1. PICK rows \in CorruptedRows : db' = [db EXCEPT !.rows = rows]
    BY <1>4
  <2>2. rows \in Seq(Rows) /\ Len(rows) <= Len(db.rows)
    BY CorruptedFacts DEF AuditInv
  <2>3. db' = [version |-> db.version, rows |-> rows, tip |-> db.tip, mark |-> db.mark]
    BY <1>1, <2>1
  <2> QED BY <1>3, <2>2, <2>3
<1>5. CASE db' = [db EXCEPT !.tip = NoTip]
  <2>1. db' = [version |-> db.version, rows |-> db.rows, tip |-> NoTip, mark |-> db.mark]
    BY <1>1, <1>5
  <2>2. Len(db.rows) <= Len(db.rows)
    BY <1>1, LenProperties
  <2> QED BY <1>1, <1>3, <2>1, <2>2
<1>6. CASE db' = [db EXCEPT !.mark = NoTip]
  <2>1. db' = [version |-> db.version, rows |-> db.rows, tip |-> db.tip, mark |-> NoTip]
    BY <1>1, <1>6
  <2>2. Len(db.rows) <= Len(db.rows)
    BY <1>1, LenProperties
  <2> QED BY <1>1, <1>3, <2>1, <2>2
<1> QED BY <1>4, <1>5, <1>6 DEF Corrupt

(* The invariant holds of every file a Hub may inherit. *)
LEMMA AuditStarts ==
    ASSUME AuditInit
    PROVE  AuditInv
<1>1. PICK n \in 0 .. MaxInherited : \E trail \in [1 .. n -> Events] : \E first \in Firsts(n) :
         /\ recorded = trail
         /\ \E version \in IF n = 0 THEN 0 .. 3 ELSE 1 .. 3 : db = DatabaseOf(version, trail, first)
  BY DEF AuditInit, Firsts
<1>2. PICK trail \in [1 .. n -> Events], first \in Firsts(n),
           version \in IF n = 0 THEN 0 .. 3 ELSE 1 .. 3 :
         recorded = trail /\ db = DatabaseOf(version, trail, first)
  BY <1>1
<1>3. trail \in Seq(Events) /\ Len(trail) = n
  <2>1. n \in Nat
    BY AuditAssumption
  <2>2. trail \in Seq(Events)
    BY <2>1, SeqDef
  <2> QED BY <2>1, <2>2, LenProperties
<1>4. version \in 0 .. 3 /\ n \in Nat
  BY AuditAssumption
<1>5. PICK rows : rows = RowsOf(trail, first)
  OBVIOUS
<1>6. Genuine(rows, trail) /\ rows \in Seq(Rows)
  BY <1>3, <1>5, GenuineFacts
<1>7. TipOf(rows) = TrueTip(trail)
  BY <1>3, <1>6, GenuineTip
<1>8. PICK tip, mark : /\ tip = IF version >= 2 THEN TrueTip(trail) ELSE NoTip
                       /\ mark = IF version >= 3 THEN TrueTip(trail) ELSE NoTip
  OBVIOUS
<1>9. db = [version |-> version, rows |-> rows, tip |-> tip, mark |-> mark]
  BY <1>2, <1>5, <1>7, <1>8 DEF DatabaseOf
<1>10. tip \in Tips /\ mark \in Tips
  BY <1>3, <1>8, TipFacts
<1>11. mem = Down /\ corruptions = 0
  BY DEF AuditInit
<1>12. AuditTypeOK
  <2>1. db \in [version : 0 .. 3, rows : Seq(Rows), tip : Tips, mark : Tips]
    BY <1>4, <1>6, <1>9, <1>10
  <2>2. mem \in [pc : {"down", "schema", "up"}, max : Nat \ {0}, events : Seq(Nat \X Events),
                 integrity : {"verified", "retention_gap", "tamper_detected"}]
    BY <1>11, EmptySeq DEF Down
  <2> QED BY <1>2, <1>3, <1>11, <2>1, <2>2 DEF AuditTypeOK
<1>13. mem.pc = "down" /\ db.version = version /\ db.rows = rows /\ db.tip = tip /\ db.mark = mark
  BY <1>9, <1>11 DEF Down
<1>14. TipInv /\ WholeInv /\ HonestInv
  BY <1>2, <1>4, <1>6, <1>8, <1>13 DEF TipInv, WholeInv, HonestInv
<1> QED BY <1>12, <1>14 DEF AuditInv

(* Every step keeps the invariant. *)
LEMMA AuditSteps ==
    ASSUME AuditInv, [AuditNext]_auditVars
    PROVE  AuditInv'
<1>1. CASE UNCHANGED auditVars
  BY <1>1 DEF auditVars, AuditInv, AuditTypeOK, TipInv, WholeInv, HonestInv
<1>2. CASE AuditNext
  BY <1>2, SchemaStep, LoadStep, RecordStep, ReadSteps, CorruptStep DEF AuditNext
<1> QED BY <1>1, <1>2

(* The audit log's inductive invariant holds in every reachable state, for *)
(* any limits, any number of events and any foreign changes: the chain tip *)
(* and the high-water mark are lost or name the last recorded event, a file *)
(* that only the Hub wrote to holds the newest rows of the recorded trail, *)
(* and the process shows what that file holds.                             *)
THEOREM AuditInvariant == AuditSpec => []AuditInv
<1>1. AuditInit => AuditInv
  BY AuditStarts
<1>2. AuditInv /\ [AuditNext]_auditVars => AuditInv'
  BY AuditSteps
<1> QED BY <1>1, <1>2, PTL DEF AuditSpec

(* A file that only the Hub wrote to never looks tampered with once it is  *)
(* migrated, "verified" is reported only while no event was dropped, and   *)
(* what the audit API shows from memory is what the file holds.            *)
THEOREM AuditReportsTruth == AuditSpec => []AuditReportIsTrue
<1>1. AuditInv => AuditReportIsTrue
  <2> SUFFICES ASSUME AuditInv, corruptions = 0, mem.pc = "up"
               PROVE  /\ Trusted /\ mem.integrity # "tamper_detected"
                      /\ mem.integrity = "verified" => Len(db.rows) = Len(recorded)
                      /\ mem.events = EventsOf(db.rows) /\ Len(mem.events) <= mem.max
    BY DEF AuditReportIsTrue
  <2>1. db.version = 3
    BY DEF AuditInv, TipInv
  <2>2. /\ Genuine(db.rows, recorded) /\ db.tip = TrueTip(recorded) /\ db.mark = TrueTip(recorded)
        /\ recorded \in Seq(Events)
    BY <2>1 DEF AuditInv, WholeInv, AuditTypeOK
  <2>3. Trusted
    BY <2>2, WholeVerifies DEF Trusted, Integrity
  <2> QED BY <2>3 DEF AuditInv, HonestInv
<1> QED BY <1>1, AuditInvariant, PTL

-----------------------------------------------------------------------------
(* The log implements the abstract trail.                                  *)

Shown(rows) == [i \in DOMAIN rows |-> rows[i].event]

(* What a genuine file shows is the newest part of the trail. *)
LEMMA ShownIsNewest ==
    ASSUME NEW R \in Seq(Events), NEW rows, Genuine(rows, R)
    PROVE  /\ Len(rows) \in 0 .. Len(R) /\ Len(Shown(rows)) = Len(rows)
           /\ Shown(rows) = SubSeq(R, Len(R) - Len(rows) + 1, Len(R))
<1>1. PICK n, l : n = Len(R) /\ l = Len(rows)
  OBVIOUS
<1>2. PICK first \in Firsts(Len(R)) : rows = RowsOf(R, first)
  BY DEF Genuine
<1>3. n \in Nat /\ first \in 1 .. n + 1
  BY <1>1, <1>2 DEF Firsts
<1>4. /\ rows \in Seq(Rows) /\ l = n - first + 1
      /\ \A i \in 1 .. n - first + 1 : rows[i] = TrueRow(R, first + i - 1)
  BY <1>1, <1>2, <1>3, RowsFacts
<1>5. l \in 0 .. n /\ first = n - l + 1
  BY <1>3, <1>4
<1>6. DOMAIN rows = 1 .. l
  BY <1>1, <1>4, LenProperties
<1>7. PICK t : t = Shown(rows)
  OBVIOUS
<1>8. ASSUME NEW i \in 1 .. l
      PROVE  t[i] = R[first + i - 1] /\ t[i] \in Events
  <2>1. first + i - 1 \in 1 .. n
    BY <1>3, <1>5
  <2>2. rows[i].event = R[first + i - 1]
    <3>1. rows[i] = TrueRow(R, first + i - 1)
      BY <1>3, <1>4
    <3> QED BY <3>1 DEF TrueRow
  <2>3. R[first + i - 1] \in Events
    BY <1>1, <2>1, ElementOfSeq
  <2> QED BY <1>6, <1>7, <2>2, <2>3 DEF Shown
<1>9. t \in Seq(Events) /\ Len(t) = l
  <2>1. t \in [1 .. l -> Events]
    BY <1>6, <1>7, <1>8 DEF Shown
  <2>2. l \in Nat
    BY <1>3, <1>5
  <2>3. t \in Seq(Events)
    BY <2>1, <2>2, SeqDef
  <2> QED BY <2>1, <2>2, <2>3, LenProperties
<1>10. PICK u : u = SubSeq(R, first, n)
  OBVIOUS
<1>11. \A i \in first .. n : R[i] \in Events
  BY <1>1, <1>3, ElementOfSeq
<1>12. /\ u \in Seq(Events) /\ Len(u) = IF first <= n THEN n - first + 1 ELSE 0
       /\ \A i \in 1 .. n - first + 1 : u[i] = R[first + i - 1]
  BY <1>3, <1>10, <1>11, SubSeqProperties
<1>13. Len(u) = Len(t)
  BY <1>3, <1>4, <1>9, <1>12
<1>14. \A i \in 1 .. Len(t) : t[i] = u[i]
  BY <1>4, <1>8, <1>9, <1>12
<1>15. t = u
  BY <1>9, <1>12, <1>13, <1>14, SeqEqual
<1> QED BY <1>1, <1>5, <1>7, <1>9, <1>10, <1>15

(* What verifies shows the newest part of what was recorded. *)
LEMMA ShownWhileTrusted ==
    ASSUME AuditInv, Trusted
    PROVE  /\ Len(db.rows) \in 0 .. Len(recorded) /\ Len(Shown(db.rows)) = Len(db.rows)
           /\ Shown(db.rows) = Trail!Newest(recorded, Len(db.rows))
<1>1. recorded \in Seq(Events) /\ Genuine(db.rows, recorded)
  BY TrustedRows DEF AuditInv, AuditTypeOK
<1> QED BY <1>1, ShownIsNewest DEF Trail!Newest

(* An inherited file is an initial trail. *)
LEMMA TrailStarts ==
    ASSUME AuditInit
    PROVE  Trail!TrailInit
<1>1. AuditInv
  BY AuditStarts
<1>2. recorded \in Seq(Events) /\ Len(recorded) \in Nat
  BY <1>1, LenProperties DEF AuditInv, AuditTypeOK
<1>3. CASE Trusted
  <2>1. /\ Len(db.rows) \in 0 .. Len(recorded)
        /\ Shown(db.rows) = Trail!Newest(recorded, Len(db.rows))
    BY <1>1, <1>3, ShownWhileTrusted
  <2> QED BY <1>2, <1>3, <2>1 DEF Trail!TrailInit, Shown
<1>4. CASE ~Trusted
  <2>1. <<>> = Trail!Newest(recorded, 0)
    <3>1. Len(recorded) - 0 + 1 \in Int /\ Len(recorded) < Len(recorded) - 0 + 1
      BY <1>2
    <3> QED BY <1>2, <3>1, SubSeqEmpty DEF Trail!Newest
  <2>2. \E n \in 0 .. Len(recorded) : <<>> = Trail!Newest(recorded, n)
    BY <1>2, <2>1
  <2>3. Trusted = FALSE
    BY <1>4 DEF Trusted
  <2> QED BY <1>2, <2>2, <2>3 DEF Trail!TrailInit
<1> QED BY <1>3, <1>4

(* What a step that records nothing does to the trail. *)
LEMMA QuietStep ==
    ASSUME AuditInv, AuditInv', UNCHANGED recorded, Len(db'.rows) <= Len(db.rows)
    PROVE  [Trail!TrailNext]_(Trail!trailVars)
<1>1. CASE ~Trusted'
  <2>1. Trail!LoseTrust
    BY <1>1 DEF Trail!LoseTrust
  <2> QED BY <2>1 DEF Trail!TrailNext
<1>2. CASE Trusted'
  <2>1. PICK R, rows : R = recorded' /\ rows = db'.rows
    OBVIOUS
  <2>2. R = recorded /\ R \in Seq(Events)
    BY <2>1 DEF AuditInv, AuditTypeOK
  <2>3. Genuine(rows, R)
    <3>1. PICK tip, mark : tip = db'.tip /\ mark = db'.mark
      OBVIOUS
    <3>2. tip \in {NoTip, TrueTip(R)} /\ mark \in {NoTip, TrueTip(R)} /\ rows \in Seq(Rows)
      BY <2>1, <3>1 DEF AuditInv, AuditTypeOK, TipInv
    <3>3. Verify(rows, tip, mark) # "tamper_detected"
      BY <1>2, <2>1, <3>1 DEF Trusted, Integrity
    <3> QED BY <2>2, <3>2, <3>3, VerifiedIsGenuine
  <2>4. /\ Len(rows) \in 0 .. Len(R)
        /\ Shown(rows) = SubSeq(R, Len(R) - Len(rows) + 1, Len(R))
    BY <2>2, <2>3, ShownIsNewest
  <2>5. [i \in DOMAIN db'.rows |-> db'.rows[i].event] = Trail!Newest(recorded, Len(rows))
    BY <2>1, <2>2, <2>4 DEF Shown, Trail!Newest
  <2>6. CASE Trusted
    <3>1. Len(Shown(db.rows)) = Len(db.rows) /\ Len(db.rows) \in Nat
      BY <2>6, ShownWhileTrusted
    <3>2. Len(rows) \in 0 .. Len(Shown(db.rows))
      BY <2>1, <2>4, <3>1
    <3>3. Trail!Forget
      BY <1>2, <2>5, <2>6, <3>2 DEF Trail!Forget, Shown
    <3> QED BY <3>3 DEF Trail!TrailNext
  <2>7. CASE ~Trusted
    <3>1. Trail!RegainTrust
      BY <1>2, <2>2, <2>4, <2>5, <2>7 DEF Trail!RegainTrust
    <3> QED BY <3>1 DEF Trail!TrailNext
  <2> QED BY <2>6, <2>7
<1> QED BY <1>1, <1>2

(* Recording an event is the trail's own recording. *)
LEMMA TrailGrows ==
    ASSUME AuditInv, NEW e \in Events, Record(e)
    PROVE  Trail!RecordEvent(e)
<1>1. PICK R, Q, p : R = recorded /\ Q = Append(recorded, e) /\ p = Persisted(e)
  OBVIOUS
<1>2. Trusted /\ db' = p /\ recorded' = Q
  BY <1>1 DEF Record, Trusted
<1>3. /\ Q \in Seq(Events) /\ Genuine(p.rows, Q) /\ Integrity(p) # "tamper_detected"
      /\ Len(p.rows) \in 1 .. Len(db.rows) + 1
  BY <1>1, <1>2, PersistFacts
<1>4. Trusted'
  BY <1>2, <1>3 DEF Trusted, Integrity
<1>5. Len(Shown(db.rows)) = Len(db.rows)
  BY <1>2, ShownWhileTrusted
<1>6. Shown(p.rows) = SubSeq(Q, Len(Q) - Len(p.rows) + 1, Len(Q))
  BY <1>3, ShownIsNewest
<1>7. Len(p.rows) \in 1 .. Len(Shown(db.rows)) + 1
  BY <1>3, <1>5
<1>8. [i \in DOMAIN db'.rows |-> db'.rows[i].event] = Trail!Newest(recorded', Len(p.rows))
  BY <1>2, <1>6 DEF Shown, Trail!Newest
<1> QED BY <1>1, <1>2, <1>4, <1>7, <1>8 DEF Trail!RecordEvent, Shown

(* Every step of the log is a step of the trail or none. *)
LEMMA TrailStep ==
    ASSUME AuditInv, [AuditNext]_auditVars
    PROVE  [Trail!TrailNext]_(Trail!trailVars)
<1>1. AuditInv'
  BY AuditSteps
<1>2. db.rows \in Seq(Rows) /\ Len(db.rows) \in Nat
  BY LenProperties DEF AuditInv, AuditTypeOK
<1>3. CASE UNCHANGED auditVars
  <2>1. Len(db'.rows) <= Len(db.rows) /\ UNCHANGED recorded
    BY <1>2, <1>3 DEF auditVars
  <2> QED BY <1>1, <2>1, QuietStep
<1>4. CASE \E max \in Limits : InitializeSchema(max)
  <2>1. db'.rows = db.rows /\ UNCHANGED recorded
    BY <1>4 DEF InitializeSchema, AuditInv, AuditTypeOK
  <2>2. Len(db'.rows) <= Len(db.rows)
    BY <1>2, <2>1
  <2> QED BY <1>1, <2>1, <2>2, QuietStep
<1>5. CASE LoadPersistentEvents
  <2>1. /\ db'.rows \in {db.rows, LastN(db.rows, mem.max)} /\ UNCHANGED recorded
        /\ mem.max \in Nat \ {0}
    BY <1>5 DEF LoadPersistentEvents, Pruned, AuditInv, AuditTypeOK
  <2>2. Len(db'.rows) <= Len(db.rows)
    BY <1>2, <2>1, LastNFacts
  <2> QED BY <1>1, <2>1, <2>2, QuietStep
<1>6. ASSUME NEW e \in Events, Record(e)
      PROVE  [Trail!TrailNext]_(Trail!trailVars)
  BY <1>6, TrailGrows DEF Trail!TrailNext
<1>7. CASE RefuseTampered \/ CheckStore \/ Crash \/ (\E e \in Events : RecordFails(e))
  <2>1. db' = db /\ UNCHANGED recorded
    BY <1>7 DEF RefuseTampered, CheckStore, Crash, RecordFails
  <2>2. Len(db'.rows) <= Len(db.rows)
    BY <1>2, <2>1
  <2> QED BY <1>1, <2>1, <2>2, QuietStep
<1>8. CASE Corrupt
  <2>1. Len(db'.rows) <= Len(db.rows) /\ UNCHANGED recorded
    BY <1>8, CorruptStep DEF Corrupt
  <2> QED BY <1>1, <2>1, QuietStep
<1> QED BY <1>3, <1>4, <1>5, <1>6, <1>7, <1>8 DEF AuditNext

(* The log implements the abstract trail, for any limits, any trail and    *)
(* any foreign changes to the file: what verifies is always the newest     *)
(* part of what was recorded, restarts, migrations, pruning and failed     *)
(* writes lose nothing else, and nothing is recorded on a broken chain.    *)
THEOREM LogImplementsTrail == AuditSpec => ImplementsTrail
<1>1. AuditInit => Trail!TrailInit
  BY TrailStarts
<1>2. AuditInv /\ [AuditNext]_auditVars => [Trail!TrailNext]_(Trail!trailVars)
  BY TrailStep
<1> QED BY <1>1, <1>2, AuditInvariant, PTL DEF AuditSpec, ImplementsTrail, Trail!TrailSpec

=============================================================================
