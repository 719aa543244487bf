---------------------------- MODULE SearchProofs ----------------------------
(***************************************************************************)
(* Proofs about the searches.  Column, for any dictionary, needle, codes   *)
(* and row offsets: a selection that returns has seen rows that share no   *)
(* code, although it compares only neighbouring offsets, and one that      *)
(* panics names a row that is no slice.  The rows selected are those whose *)
(* bytes match, although only codes are compared: the argument is          *)
(* BeginsByCodes, that a first code that differs stands for a token which  *)
(* covers the rest of the needle, or else the needle would have been given *)
(* that code too.                                                          *)
(*                                                                         *)
(* BlockMatchers, for any cover, CPU, stream and size of blocks: every     *)
(* kernel says of a block where the cover's codes are, whatever the mask   *)
(* held before (Avx2, Avx512, Neon: lane by lane, then by words), so that  *)
(* a scan finds exactly those.                                             *)
(***************************************************************************)
EXTENDS Column, BlockMatchers, ByteStringsProofs

-----------------------------------------------------------------------------
(***************************************************************************)
(* The rows looked at.                                                     *)
(***************************************************************************)

\* The rows looked at so far ascend and end within the codes.
SeenAscend ==
    \A i, j \in 1 .. k + 1 : i < j =>
        /\ view.rowOffsets[i] <= view.rowOffsets[j]
        /\ view.rowOffsets[j] <= Len(view.codes)

\* A panic is about the next row.
PanicIsDue == mode = "panic" => k < NumRows(view) /\ BadRow(view, k)

RowsInv ==
    /\ view \in Views
    /\ mode \in {"prepare", "rows", "done", "panic"}
    /\ k \in 0 .. NumRows(view)
    /\ mode = "done" => k = NumRows(view)
    /\ SeenAscend
    /\ PanicIsDue

\* Offsets are numbers, one more than rows unless there are none.
LEMMA RowFacts ==
    ASSUME NEW v \in Views
    PROVE  /\ Len(v.codes) \in Nat
           /\ NumRows(v) \in Nat
           /\ \A n \in 1 .. NumRows(v) + 1 : NumRows(v) > 0 => v.rowOffsets[n] \in Nat
           /\ NumRows(v) > 0 => Len(v.rowOffsets) = NumRows(v) + 1
<1>1. v.codes \in Seq(Nat) /\ v.rowOffsets \in Seq(Nat)
  BY ColumnAssumption
<1>2. Len(v.codes) \in Nat /\ Len(v.rowOffsets) \in Nat
  BY <1>1
<1>3. CASE v.rowOffsets = <<>>
  BY <1>2, <1>3 DEF NumRows
<1>4. CASE v.rowOffsets # <<>>
  <2>1. Len(v.rowOffsets) >= 1
    BY <1>1, <1>4
  <2>2. NumRows(v) = Len(v.rowOffsets) - 1
    BY <1>4 DEF NumRows
  <2> QED
    BY <1>1, <1>2, <2>1, <2>2
<1> QED
  BY <1>3, <1>4

LEMMA InitRowsInv == Init => RowsInv
<1> SUFFICES ASSUME Init PROVE RowsInv
  OBVIOUS
<1>1. view \in Views /\ k = 0 /\ mode \in {"prepare", "rows"}
  BY DEF Init
<1>2. NumRows(view) \in Nat
  BY <1>1, RowFacts
<1> QED
  BY <1>1, <1>2 DEF RowsInv, SeenAscend, PanicIsDue

\* A row that is a slice extends what ascends.
LEMMA SelectKeepsAscent ==
    ASSUME RowsInv, SelectRow
    PROVE  SeenAscend'
<1>1. view \in Views /\ view' = view /\ k' = k + 1 /\ k \in Nat /\ k < NumRows(view)
  BY RowFacts DEF RowsInv, SelectRow, call
<1>2. /\ view.rowOffsets[k + 1] <= view.rowOffsets[k + 2]
      /\ view.rowOffsets[k + 2] <= Len(view.codes)
  <2>1. view.rowOffsets[k + 1] \in Nat /\ view.rowOffsets[k + 2] \in Nat
    BY <1>1, RowFacts
  <2> QED
    BY <1>1, <2>1, RowFacts DEF SelectRow, BadRow
<1>3. ASSUME NEW i \in 1 .. k + 2, NEW j \in 1 .. k + 2, i < j
      PROVE  /\ view.rowOffsets[i] <= view.rowOffsets[j]
             /\ view.rowOffsets[j] <= Len(view.codes)
  <2>1. CASE j <= k + 1
    BY <1>1, <1>3, <2>1 DEF RowsInv, SeenAscend
  <2>2. CASE j = k + 2 /\ i = k + 1
    BY <1>2, <2>2
  <2>3. CASE j = k + 2 /\ i < k + 1
    <3>1. view.rowOffsets[i] <= view.rowOffsets[k + 1]
      BY <1>1, <2>3 DEF RowsInv, SeenAscend
    <3>2. /\ view.rowOffsets[i] \in Nat /\ view.rowOffsets[k + 1] \in Nat
          /\ view.rowOffsets[k + 2] \in Nat
      BY <1>1, <2>3, RowFacts
    <3> QED
      BY <1>2, <2>3, <3>1, <3>2
  <2> QED
    BY <1>1, <1>3, <2>1, <2>2, <2>3
<1> QED
  BY <1>1, <1>3 DEF SeenAscend

LEMMA StepRowsInv == RowsInv /\ [Next]_vars => RowsInv'
<1> SUFFICES ASSUME RowsInv, [Next]_vars PROVE RowsInv'
  OBVIOUS
<1>1. NumRows(view) \in Nat
  BY RowFacts DEF RowsInv
<1>2. CASE PrepareToken
  BY <1>2 DEF RowsInv, SeenAscend, PanicIsDue, PrepareToken, call
<1>3. CASE Prepared
  BY <1>3 DEF RowsInv, SeenAscend, PanicIsDue, Prepared, call
<1>4. CASE SelectRow
  <2>1. SeenAscend'
    BY <1>4, SelectKeepsAscent
  <2>2. view' = view /\ mode' = "rows" /\ k' = k + 1 /\ k < NumRows(view)
    BY <1>4 DEF SelectRow, call
  <2> QED
    BY <1>1, <2>1, <2>2 DEF RowsInv, PanicIsDue
<1>5. CASE Malformed
  BY <1>5 DEF RowsInv, SeenAscend, PanicIsDue, Malformed, call
<1>6. CASE Return
  BY <1>6 DEF RowsInv, SeenAscend, PanicIsDue, Return, call
<1>7. CASE UNCHANGED vars
  BY <1>7 DEF RowsInv, SeenAscend, PanicIsDue, vars, call
<1> QED
  BY <1>2, <1>3, <1>4, <1>5, <1>6, <1>7 DEF Next

LEMMA RowsInvImpliesDisjoint == RowsInv => RowsAreDisjoint
<1> SUFFICES ASSUME RowsInv PROVE RowsAreDisjoint
  OBVIOUS
<1>1. view \in Views
  BY DEF RowsInv
<1>2. ASSUME mode = "done", NEW i \in 1 .. Len(view.rowOffsets),
             NEW j \in 1 .. Len(view.rowOffsets), i < j, NumRows(view) > 0
      PROVE  view.rowOffsets[i] <= view.rowOffsets[j] /\ view.rowOffsets[j] <= Len(view.codes)
  <2>1. Len(view.rowOffsets) = k + 1
    BY <1>1, <1>2, RowFacts DEF RowsInv
  <2> QED
    BY <1>2, <2>1 DEF RowsInv, SeenAscend
<1>3. ASSUME mode = "panic"
      PROVE  view.rowOffsets[k + 2] \notin view.rowOffsets[k + 1] .. Len(view.codes)
  <2>1. k \in Nat /\ k < NumRows(view) /\ BadRow(view, k)
    BY <1>1, <1>3, RowFacts DEF RowsInv, PanicIsDue
  <2>2. view.rowOffsets[k + 1] \in Nat /\ view.rowOffsets[k + 2] \in Nat
    BY <1>1, <2>1, RowFacts
  <2> QED
    BY <1>1, <2>1, <2>2, RowFacts DEF BadRow
<1> QED
  BY <1>2, <1>3 DEF RowsAreDisjoint

\* Offsets read back from storage never make two returned rows share a code, and only
\* an offset that does not delimit a slice makes the selection panic (row_codes).
THEOREM DisjointRows == Spec => []RowsAreDisjoint
<1>1. Spec => []RowsInv
  BY InitRowsInv, StepRowsInv, PTL DEF Spec
<1>2. []RowsInv => []RowsAreDisjoint
  BY RowsInvImpliesDisjoint, PTL
<1> QED
  BY <1>1, <1>2

-----------------------------------------------------------------------------
(***************************************************************************)
(* Comparing greedy codes instead of bytes.                                *)
(***************************************************************************)

\* Two byte sequences are equal if and only if their greedy codes are.
LEMMA EqualByCodes ==
    ASSUME NEW vocab, Conforms(vocab), NEW r \in ByteSeq, NEW s \in ByteSeq
    PROVE  Greedy(vocab, r) = Greedy(vocab, s) <=> r = s
<1>1. Flat(Spelled(vocab, Greedy(vocab, r))) = r
  BY GreedySpells
<1>2. Flat(Spelled(vocab, Greedy(vocab, s))) = s
  BY GreedySpells
<1> QED
  BY <1>1, <1>2

\* Sequences a and q agree up to d and no further, or not within the shorter of the two.
FirstDifference(a, q, d) ==
    /\ d \in 0 .. Len(q) /\ d <= Len(a)
    /\ \A n \in 1 .. d : a[n] = q[n]
    /\ d < Len(a) /\ d < Len(q) => a[d + 1] # q[d + 1]

\* One begins with the other if and only if their codes agree to the end of the other,
\* or the first code that differs stands for a token that covers the rest of it.  Were
\* that token shorter than the rest, it would have been the other's choice too.
LEMMA BeginsByCodes ==
    ASSUME NEW vocab, Conforms(vocab), NEW whole \in ByteSeq, NEW front \in ByteSeq,
           NEW d \in Nat, FirstDifference(Greedy(vocab, whole), Greedy(vocab, front), d)
    PROVE  LET a == Greedy(vocab, whole)
               q == Greedy(vocab, front)
               pos == Len(FlatTo(Spelled(vocab, q))[d])
           IN  StartsAt(whole, 0, front) <=>
                 \/ d = Len(q)
                 \/ /\ d < Len(q) /\ d < Len(a)
                    /\ StartsAt(vocab[a[d + 1] + 1], 0, SubSeq(front, pos + 1, Len(front)))
<1> DEFINE a == Greedy(vocab, whole)
           q == Greedy(vocab, front)
           Fa == FlatTo(Spelled(vocab, a))
           Fq == FlatTo(Spelled(vocab, q))
           shared == Fq[d]
           pos == Len(shared)
<1>0. /\ d \in 0 .. Len(q) /\ d <= Len(a)
      /\ \A n \in 1 .. d : a[n] = q[n]
      /\ d < Len(a) /\ d < Len(q) => a[d + 1] # q[d + 1]
  BY DEF FirstDifference
<1>1. /\ vocab \in Seq(Token) /\ SingleByteTokens \subseteq TokensOf(vocab)
      /\ TokensOf(vocab) \in SUBSET Token
      /\ whole \in Seq(Byte) /\ front \in Seq(Byte)
      /\ Len(whole) \in Nat /\ Len(front) \in Nat
  BY VocabularyTyped, LenProperties DEF Conforms, ByteSeq
<1>2. /\ a \in Seq(Ids(vocab))
      /\ \A n \in 0 .. Len(a) - 1 : Len(Fa[n]) \in 0 .. Len(whole) - 1
                                    /\ a[n + 1] = CodeAt(vocab, whole, Len(Fa[n]))
      /\ \A n \in 0 .. Len(a) : StartsAt(whole, 0, Fa[n])
      /\ Flat(Spelled(vocab, a)) = whole
  BY GreedySpells
<1>3. /\ q \in Seq(Ids(vocab))
      /\ \A n \in 0 .. Len(q) - 1 : Len(Fq[n]) \in 0 .. Len(front) - 1
                                    /\ q[n + 1] = CodeAt(vocab, front, Len(Fq[n]))
      /\ \A n \in 0 .. Len(q) : StartsAt(front, 0, Fq[n])
      /\ Flat(Spelled(vocab, q)) = front
  BY GreedySpells
<1>4. /\ Len(a) \in Nat /\ Len(q) \in Nat /\ d \in Nat
      /\ Spelled(vocab, a) \in Seq(Seq(Byte)) /\ Len(Spelled(vocab, a)) = Len(a)
      /\ Spelled(vocab, q) \in Seq(Seq(Byte)) /\ Len(Spelled(vocab, q)) = Len(q)
      /\ \A n \in 1 .. Len(a) : a[n] \in Ids(vocab) /\ Spelled(vocab, a)[n] = vocab[a[n] + 1]
      /\ \A n \in 1 .. Len(q) : q[n] \in Ids(vocab) /\ Spelled(vocab, q)[n] = vocab[q[n] + 1]
  <2> HIDE DEF a, q
  <2> QED
    BY <1>0, <1>1, <1>2, <1>3, SpelledType, LenProperties
<1> HIDE DEF a, q
<1>5. Fa[d] = shared
  <2> DEFINE r == Spelled(vocab, a)
             s == Spelled(vocab, q)
  <2>1. \A n \in 1 .. d : r[n] = s[n]
    <3> SUFFICES ASSUME NEW n \in 1 .. d PROVE r[n] = s[n]
      OBVIOUS
    <3>1. n \in 1 .. Len(a) /\ n \in 1 .. Len(q)
      BY <1>0, <1>4
    <3>2. r[n] = vocab[a[n] + 1] /\ s[n] = vocab[q[n] + 1]
      BY <1>4, <3>1
    <3>3. a[n] = q[n]
      BY <1>0
    <3> QED
      BY <3>2, <3>3
  <2>2. r \in Seq(Seq(Byte)) /\ s \in Seq(Seq(Byte)) /\ d \in 0 .. Len(r) /\ d <= Len(s)
    BY <1>0, <1>4
  <2>3. FlatTo(r)[d] = FlatTo(s)[d]
    <3> HIDE DEF r, s
    <3> QED
      BY <2>1, <2>2, FlatToAgrees
  <2> QED
    BY <2>3
<1>6. shared \in Seq(Byte) /\ pos \in Nat /\ StartsAt(whole, 0, shared) /\ StartsAt(front, 0, shared)
  <2>1. shared \in Seq(Byte)
    <3>1. d \in 0 .. Len(Spelled(vocab, q))
      BY <1>0, <1>4
    <3> QED
      BY <1>4, <3>1, FlatToSteps
  <2>2. StartsAt(front, 0, shared)
    BY <1>0, <1>3
  <2>3. StartsAt(whole, 0, Fa[d])
    BY <1>0, <1>2, <1>4
  <2> QED
    BY <1>5, <2>1, <2>2, <2>3, LenProperties
<1>7. Fa[Len(a)] = whole /\ Fq[Len(q)] = front
  BY <1>2, <1>3, <1>4 DEF Flat
<1>8. /\ d < Len(a) => /\ pos < Len(whole) /\ a[d + 1] = CodeAt(vocab, whole, pos)
                       /\ a[d + 1] \in Ids(vocab)
      /\ d < Len(q) => pos < Len(front) /\ q[d + 1] = CodeAt(vocab, front, pos)
  <2>1. ASSUME d < Len(a)
        PROVE  pos < Len(whole) /\ a[d + 1] = CodeAt(vocab, whole, pos) /\ a[d + 1] \in Ids(vocab)
    <3>1. d \in 0 .. Len(a) - 1 /\ d + 1 \in 1 .. Len(a)
      BY <1>4, <2>1
    <3>2. Len(Fa[d]) \in 0 .. Len(whole) - 1 /\ a[d + 1] = CodeAt(vocab, whole, Len(Fa[d]))
      BY <1>2, <3>1
    <3> HIDE DEF Fa, Fq, shared
    <3> QED
      BY <1>1, <1>4, <1>5, <1>6, <3>1, <3>2
  <2>2. ASSUME d < Len(q)
        PROVE  pos < Len(front) /\ q[d + 1] = CodeAt(vocab, front, pos)
    <3>1. d \in 0 .. Len(q) - 1
      BY <1>4, <2>2
    <3>2. Len(Fq[d]) \in 0 .. Len(front) - 1 /\ q[d + 1] = CodeAt(vocab, front, Len(Fq[d]))
      BY <1>3, <3>1
    <3> QED
      BY <1>1, <1>6, <3>2
  <2> QED
    BY <2>1, <2>2
<1> HIDE DEF Fa, Fq, shared
<1>9. CASE d = Len(q)
  BY <1>6, <1>7, <1>9 DEF shared, q
<1>10. CASE d < Len(q) /\ ~(d < Len(a))
  <2>1. d = Len(a)
    BY <1>0, <1>4, <1>10
  <2>2. Len(whole) < Len(front)
    BY <1>5, <1>7, <1>8, <1>10, <2>1
  <2>3. ~StartsAt(whole, 0, front)
    BY <1>1, <2>2 DEF StartsAt
  <2> QED
    BY <1>4, <1>10, <2>3 DEF a, q
<1>11. CASE d < Len(q) /\ d < Len(a)
  <2> DEFINE t == vocab[a[d + 1] + 1]
             rest == SubSeq(front, pos + 1, Len(front))
  <2>1. IsLongestAt(TokensOf(vocab), whole, pos, t)
    BY <1>1, <1>6, <1>8, <1>11, CodeAtFound
  <2>2. /\ t \in TokensOf(vocab) /\ StartsAt(whole, pos, t)
        /\ \A v \in TokensOf(vocab) : StartsAt(whole, pos, v) => Len(v) <= Len(t)
    BY <2>1 DEF IsLongestAt
  <2>3. t \in Seq(Byte) /\ Len(t) \in Nat
    BY <1>1, <2>2, TokenType, LenProperties DEF ByteSeq
  <2>4. pos \in 0 .. Len(front) /\ pos < Len(front)
    BY <1>1, <1>6, <1>8, <1>11
  <2>5. /\ Len(rest) = Len(front) - pos
        /\ \A j \in 1 .. Len(front) - pos : rest[j] = front[pos + j]
    <3>1. \A j \in pos + 1 .. Len(front) : front[j] \in Byte
      <4>1. \A j \in pos + 1 .. Len(front) : j \in 1 .. Len(front)
        BY <1>1, <1>6
      <4> QED
        BY <1>1, <4>1, ElementOfSeq
    <3>2. /\ Len(rest) = IF pos + 1 <= Len(front) THEN Len(front) - (pos + 1) + 1 ELSE 0
          /\ \A j \in 1 .. Len(front) - (pos + 1) + 1 : rest[j] = front[(pos + 1) + j - 1]
      <4> HIDE DEF pos
      <4> QED
        BY <1>1, <1>6, <3>1, SubSeqProperties
    <3> HIDE DEF pos, rest
    <3>3. Len(front) - (pos + 1) + 1 = Len(front) - pos /\ pos + 1 <= Len(front)
      BY <1>1, <1>6, <2>4
    <3>4. \A j \in 1 .. Len(front) - pos : (pos + 1) + j - 1 = pos + j
      BY <1>1, <1>6
    <3> QED
      BY <3>2, <3>3, <3>4
  <2> HIDE DEF t, rest, pos
  <2>6. /\ pos + Len(t) <= Len(whole)
        /\ \A j \in 1 .. Len(t) : whole[pos + j] = t[j]
    BY <2>2 DEF StartsAt
  <2>7. ASSUME StartsAt(t, 0, rest)
        PROVE  StartsAt(whole, 0, front)
    <3>1. Len(front) - pos <= Len(t) /\ \A j \in 1 .. Len(front) - pos : t[0 + j] = rest[j]
      BY <2>3, <2>5, <2>7 DEF StartsAt
    <3>2. \A j \in 1 .. Len(front) - pos : whole[pos + j] = front[pos + j]
      <4> TAKE j \in 1 .. Len(front) - pos
      <4>1. j \in 1 .. Len(t) /\ 0 + j = j
        BY <1>1, <1>6, <2>3, <3>1 DEF pos
      <4> QED
        BY <2>5, <2>6, <3>1, <4>1
    <3>3. \A j \in 1 .. Len(front) : whole[0 + j] = front[j]
      <4> TAKE j \in 1 .. Len(front)
      <4>1. CASE j <= pos
        <5>1. j \in 1 .. Len(shared) /\ 0 + j = j
          BY <1>1, <1>6, <4>1 DEF pos
        <5> QED
          BY <1>6, <5>1 DEF StartsAt
      <4>2. CASE ~(j <= pos)
        <5>1. j - pos \in 1 .. Len(front) - pos /\ pos + (j - pos) = j /\ 0 + j = j
          BY <1>1, <1>6, <4>2 DEF pos
        <5> QED
          BY <3>2, <5>1
      <4> QED
        BY <4>1, <4>2
    <3>4. 0 + Len(front) <= Len(whole)
      <4>1. pos \in Nat
        BY <1>6 DEF pos
      <4> QED
        BY <1>1, <2>3, <2>6, <3>1, <4>1
    <3> QED
      BY <3>3, <3>4 DEF StartsAt
  <2>8. ASSUME StartsAt(whole, 0, front)
        PROVE  StartsAt(t, 0, rest)
    <3>1. pos \in Nat
      BY <1>6 DEF pos
    <3>2. \A j \in 1 .. Len(front) : whole[j] = front[j]
      <4>1. \A j \in 1 .. Len(front) : 0 + j = j
        BY <1>1
      <4> QED
        BY <2>8, <4>1 DEF StartsAt
    <3>3. CASE Len(front) <= pos + Len(t)
      <4>1. \A j \in 1 .. Len(rest) : t[0 + j] = rest[j]
        <5> TAKE j \in 1 .. Len(rest)
        <5>1. j \in 1 .. Len(front) - pos
          BY <2>5
        <5>2. j \in 1 .. Len(t) /\ pos + j \in 1 .. Len(front) /\ 0 + j = j
          BY <1>1, <2>3, <3>1, <3>3, <5>1
        <5> QED
          BY <2>5, <2>6, <3>2, <5>1, <5>2
      <4>2. 0 + Len(rest) <= Len(t)
        BY <1>1, <2>3, <2>5, <3>1, <3>3
      <4> QED
        BY <4>1, <4>2 DEF StartsAt
    <3>4. CASE ~(Len(front) <= pos + Len(t))
      <4>1. StartsAt(front, pos, t)
        <5>1. \A j \in 1 .. Len(t) : pos + j \in 1 .. Len(front)
          BY <1>1, <2>3, <3>1, <3>4
        <5>2. \A j \in 1 .. Len(t) : front[pos + j] = t[j]
          BY <2>6, <3>2, <5>1
        <5>3. pos + Len(t) <= Len(front)
          BY <1>1, <2>3, <3>1, <3>4
        <5> QED
          BY <5>2, <5>3 DEF StartsAt
      <4>2. ASSUME NEW v \in TokensOf(vocab), StartsAt(front, pos, v)
            PROVE  Len(v) <= Len(t)
        <5>1. v \in Seq(Byte)
          BY <1>1, TokenType DEF ByteSeq
        <5>2. StartsAt(whole, pos, v)
          BY <1>1, <2>8, <3>1, <4>2, <5>1, BeginsTransitive
        <5> QED
          BY <2>2, <5>2
      <4>3. IsLongestAt(TokensOf(vocab), front, pos, t)
        BY <2>2, <4>1, <4>2 DEF IsLongestAt
      <4>4. pos < Len(front)
        BY <2>4
      <4>5. CodeAt(vocab, front, pos) = a[d + 1]
        BY <1>8, <1>11, <3>1, <4>3, <4>4, CodeAtIs DEF t
      <4>6. q[d + 1] = a[d + 1]
        BY <1>8, <1>11, <4>5 DEF pos
      <4> QED
        BY <1>0, <1>11, <4>6
    <3> QED
      BY <3>3, <3>4
  <2>9. d # Len(q)
    BY <1>4, <1>11
  <2> QED
    BY <1>11, <2>7, <2>8, <2>9 DEF t, rest, pos, shared, Fq, a, q
<1> QED
  BY <1>0, <1>4, <1>9, <1>10, <1>11

-----------------------------------------------------------------------------
(***************************************************************************)
(* The rows that a query selects.                                          *)
(***************************************************************************)

\* The bytes of the needle in front of its token n + 1.
Offset(n) == Len(FlatTo(Spelled(view.vocab, query))[n])

\* What is left of the needle there.
RestFrom(n) == SubSeq(needle, Offset(n) + 1, Len(needle))

\* The needle has been tokenized, and an interval holds the tokens that extend what is
\* left of the needle at its token.
QueryInv ==
    /\ needle \in ByteSeq /\ op \in {"equal", "prefix"}
    /\ query = Greedy(view.vocab, needle)
    /\ intervals \in Seq(SUBSET Ids(view.vocab))
    /\ Len(intervals) <= Len(query)
    /\ byteOff = Offset(Len(intervals))
    /\ \A n \in 1 .. Len(intervals) : intervals[n] = Extending(RestFrom(n - 1))
    /\ op = "prefix" /\ mode # "prepare" => Len(intervals) = Len(query)

\* Rows are looked at once the query is prepared, and those that satisfy it are kept in
\* order.
SelectedInv ==
    /\ mode = "prepare" => k = 0
    /\ selected \in Seq(Nat)
    /\ \A n \in 1 .. Len(selected) :
        selected[n] \in 0 .. k - 1 /\ (n > 1 => selected[n - 1] < selected[n])
    /\ \A n \in 0 .. k - 1 :
        (\E m \in 1 .. Len(selected) : selected[m] = n) <=> Satisfies(RowCodes(view, n))

IInv == RowsInv /\ QueryInv /\ SelectedInv

\* What the needle's tokens are, in the terms of the invariant.
LEMMA QueryFacts ==
    ASSUME view \in Views, QueryInv
    PROVE  /\ Conforms(view.vocab) /\ view.vocab \in Seq(Token)
           /\ needle \in Seq(Byte) /\ Len(needle) \in Nat
           /\ query \in Seq(Ids(view.vocab)) /\ Len(query) \in Nat
           /\ \A n \in 0 .. Len(query) : Offset(n) \in 0 .. Len(needle)
           /\ \A n \in 1 .. Len(query) : Offset(n) = Offset(n - 1) + TokenLen(query[n])
<1> DEFINE vocab == view.vocab
           spelled == Spelled(vocab, query)
<1>1. Conforms(vocab) /\ vocab \in Seq(Token) /\ needle \in Seq(Byte) /\ Len(needle) \in Nat
  BY ColumnAssumption, LenProperties DEF QueryInv, Conforms, ByteSeq
<1>2. /\ query \in Seq(Ids(vocab))
      /\ \A n \in 0 .. Len(query) : StartsAt(needle, 0, FlatTo(spelled)[n])
  BY <1>1, GreedySpells DEF QueryInv, ByteSeq
<1>3. /\ spelled \in Seq(Seq(Byte)) /\ Len(query) \in Nat /\ Len(spelled) = Len(query)
      /\ \A n \in 1 .. Len(query) : spelled[n] = vocab[query[n] + 1] /\ spelled[n] \in Seq(Byte)
  <2>1. /\ spelled \in Seq(Seq(Byte)) /\ Len(query) \in Nat /\ Len(spelled) = Len(query)
        /\ \A n \in 1 .. Len(query) : spelled[n] = vocab[query[n] + 1]
    BY <1>1, <1>2, SpelledType
  <2> HIDE DEF spelled
  <2> QED
    BY <2>1, ElementOfSeq
<1> HIDE DEF spelled
<1>4. /\ \A n \in 0 .. Len(query) : FlatTo(spelled)[n] \in Seq(Byte)
      /\ \A n \in 1 .. Len(query) : FlatTo(spelled)[n] = FlatTo(spelled)[n - 1] \o spelled[n]
  BY <1>3, FlatToSteps
<1>5. ASSUME NEW n \in 0 .. Len(query)
      PROVE  Offset(n) \in 0 .. Len(needle)
  <2>1. Len(FlatTo(spelled)[n]) \in Nat
    BY <1>4, LenProperties
  <2>2. 0 + Len(FlatTo(spelled)[n]) <= Len(needle)
    BY <1>2 DEF StartsAt
  <2> QED
    BY <1>1, <2>1, <2>2 DEF Offset, spelled
<1>6. ASSUME NEW n \in 1 .. Len(query)
      PROVE  Offset(n) = Offset(n - 1) + TokenLen(query[n])
  <2>1. n - 1 \in 0 .. Len(query)
    BY <1>3
  <2>2. Len(FlatTo(spelled)[n - 1] \o spelled[n])
            = Len(FlatTo(spelled)[n - 1]) + Len(spelled[n])
    BY <1>3, <1>4, <2>1, ConcatProperties
  <2> QED
    BY <1>3, <1>4, <2>2 DEF Offset, TokenLen, spelled
<1> QED
  BY <1>1, <1>2, <1>3, <1>5, <1>6

\* The comparison of codes stops at the first difference, or with the shorter of the two.
LEMMA AgreedFound ==
    ASSUME NEW S, NEW row \in Seq(S), NEW T, query \in Seq(T)
    PROVE  LET d == Agreed(row)
           IN  d \in Nat /\ FirstDifference(row, query, d)
<1> DEFINE c == Common(row)
           Ends == {d \in 0 .. c : d < c => row[d + 1] # query[d + 1]}
           P(d) == /\ \A n \in 1 .. d : row[n] = query[n]
                   /\ d < c => row[d + 1] # query[d + 1]
<1>1. Len(row) \in Nat /\ Len(query) \in Nat
  BY LenProperties
<1>2. c \in Nat /\ c <= Len(row) /\ c <= Len(query) /\ (c = Len(row) \/ c = Len(query))
  BY <1>1 DEF Common
<1> HIDE DEF c
<1>3. \E d \in 0 .. c : P(d)
  <2>1. Ends \in SUBSET Nat
    BY <1>2
  <2>2. c \in Ends
    BY <1>2
  <2>3. PICK d \in Ends : \A e \in Ends : d <= e
    BY <2>1, <2>2, LeastNatural
  <2>4. ASSUME NEW n \in 1 .. d
        PROVE  row[n] = query[n]
    <3>1. n - 1 \in 0 .. c /\ n - 1 < c /\ ~(d <= n - 1) /\ (n - 1) + 1 = n
      BY <1>2, <2>3
    <3>2. n - 1 \notin Ends
      BY <2>3, <3>1
    <3> QED
      BY <3>1, <3>2
  <2> QED
    BY <2>3, <2>4
<1>4. Agreed(row) = CHOOSE d \in 0 .. c : P(d)
  BY DEF Agreed, c
<1>5. Agreed(row) \in 0 .. c /\ P(Agreed(row))
  BY <1>3, <1>4, Zenon
<1> DEFINE d == Agreed(row)
<1> HIDE DEF d
<1>6. d \in 0 .. c /\ P(d)
  BY <1>5 DEF d
<1>7. d \in 0 .. Len(query) /\ d <= Len(row)
  BY <1>1, <1>2, <1>6
<1>8. d < Len(row) /\ d < Len(query) => d < c
  BY <1>2
<1> QED
  BY <1>6, <1>7, <1>8 DEF d, FirstDifference

\* Of a row that the encoder produced, the comparison with the prepared query tells
\* whether its bytes match.
LEMMA SatisfiesIsMatches ==
    ASSUME view \in Views, QueryInv, mode # "prepare",
           NEW row \in Seq(Nat), Encoded(row)
    PROVE  Satisfies(row) <=> Matches(row)
<1> DEFINE vocab == view.vocab
           whole == Decoded(row)
<1>1. /\ Conforms(vocab) /\ vocab \in Seq(Token) /\ needle \in ByteSeq
      /\ query \in Seq(Ids(vocab)) /\ Len(query) \in Nat
  BY QueryFacts DEF QueryInv
<1>2. row \in Seq(Ids(vocab)) /\ Len(row) \in Nat
  <2>1. Len(row) \in Nat /\ row \in [1 .. Len(row) -> Nat]
    BY LenProperties
  <2>2. \A n \in 1 .. Len(row) : row[n] \in Ids(vocab)
    BY DEF Encoded
  <2> HIDE DEF vocab
  <2>3. row \in [1 .. Len(row) -> Ids(vocab)]
    BY <2>1, <2>2
  <2> QED
    BY <2>1, <2>3
<1>3. whole \in ByteSeq
  <2> DEFINE spelled == Spelled(vocab, row)
  <2>1. spelled \in Seq(Seq(Byte)) /\ Len(spelled) \in 0 .. Len(spelled)
    BY <1>1, <1>2, SpelledType
  <2> HIDE DEF spelled
  <2>2. FlatTo(spelled)[Len(spelled)] \in Seq(Byte)
    BY <2>1, FlatToSteps
  <2> QED
    BY <2>2 DEF Decoded, Flat, ByteSeq, spelled
<1>4. row = Greedy(vocab, whole) /\ query = Greedy(vocab, needle)
  BY DEF Encoded, QueryInv
<1>5. CASE op = "equal"
  <2>1. row = query <=> whole = needle
    BY <1>1, <1>3, <1>4, EqualByCodes
  <2> QED
    BY <1>5, <2>1 DEF Satisfies, Matches
<1>6. CASE op = "prefix"
  <2> DEFINE d == Agreed(row)
  <2>1. d \in Nat /\ FirstDifference(row, query, d)
    BY <1>1, <1>2, AgreedFound
  <2> HIDE DEF d, whole
  <2>2. StartsAt(whole, 0, needle) <=>
            \/ d = Len(query)
            \/ /\ d < Len(query) /\ d < Len(row)
               /\ StartsAt(vocab[row[d + 1] + 1], 0, RestFrom(d))
    <3> DEFINE pos == Len(FlatTo(Spelled(vocab, query))[d])
    <3>1. StartsAt(whole, 0, needle) <=>
              \/ d = Len(query)
              \/ /\ d < Len(query) /\ d < Len(row)
                 /\ StartsAt(vocab[row[d + 1] + 1], 0, SubSeq(needle, pos + 1, Len(needle)))
      <4> HIDE DEF vocab
      <4> QED
        BY <1>1, <1>3, <1>4, <2>1, BeginsByCodes
    <3>2. RestFrom(d) = SubSeq(needle, pos + 1, Len(needle))
      BY DEF RestFrom, Offset
    <3> QED
      BY <3>1, <3>2
  <2>3. ASSUME d < Len(query), d < Len(row)
        PROVE  StartsAt(vocab[row[d + 1] + 1], 0, RestFrom(d)) <=> row[d + 1] \in intervals[d + 1]
    <3>1. Len(intervals) = Len(query)
      BY <1>6 DEF QueryInv
    <3>2. d + 1 \in 1 .. Len(intervals) /\ d + 1 \in 1 .. Len(row) /\ (d + 1) - 1 = d
      BY <1>1, <1>2, <2>1, <2>3, <3>1
    <3>3. intervals[d + 1] = Extending(RestFrom(d))
      BY <3>2 DEF QueryInv
    <3>4. row[d + 1] \in Ids(vocab)
      BY <1>2, <3>2, ElementOfSeq
    <3> QED
      BY <3>3, <3>4 DEF Extending
  <2>4. Satisfies(row) <=> \/ d = Len(query)
                           \/ d < Len(query) /\ d < Len(row) /\ row[d + 1] \in intervals[d + 1]
    BY <1>6 DEF Satisfies, StartsWith, d
  <2>5. Matches(row) <=> StartsAt(whole, 0, needle)
    BY <1>6 DEF Matches, whole
  <2> QED
    BY <2>2, <2>3, <2>4, <2>5
<1> QED
  BY <1>5, <1>6 DEF QueryInv

\* A row that has been looked at is a sequence of codes.
LEMMA SeenRowIsSlice ==
    ASSUME RowsInv, NEW n \in 0 .. k - 1
    PROVE  RowCodes(view, n) \in Seq(Nat)
<1>1. view \in Views /\ k \in Nat /\ k <= NumRows(view)
  BY RowFacts DEF RowsInv
<1>2. n + 1 \in 1 .. k + 1 /\ n + 2 \in 1 .. k + 1 /\ n + 1 < n + 2 /\ NumRows(view) > 0
      /\ n + 1 \in 1 .. NumRows(view) + 1 /\ n + 2 \in 1 .. NumRows(view) + 1
  BY <1>1, RowFacts
<1> DEFINE from == view.rowOffsets[n + 1]
           to == view.rowOffsets[n + 2]
           codes == view.codes
<1>3. codes \in Seq(Nat) /\ from \in Nat /\ to \in Nat /\ to <= Len(codes) /\ Len(codes) \in Nat
  BY <1>1, <1>2, RowFacts, ColumnAssumption DEF RowsInv, SeenAscend
<1> HIDE DEF from, to, codes
<1>4. \A i \in from + 1 .. to : codes[i] \in Nat
  <2>1. \A i \in from + 1 .. to : i \in 1 .. Len(codes)
    BY <1>3
  <2> QED
    BY <1>3, <2>1, ElementOfSeq
<1>5. SubSeq(codes, from + 1, to) \in Seq(Nat)
  BY <1>3, <1>4, SubSeqProperties
<1> QED
  BY <1>5 DEF RowCodes, from, to, codes

LEMMA InitIInv == Init => IInv
<1> SUFFICES ASSUME Init PROVE IInv
  OBVIOUS
<1>1. /\ view \in Views /\ needle \in ByteSeq /\ op \in {"equal", "prefix"}
      /\ query = Greedy(view.vocab, needle) /\ intervals = <<>> /\ byteOff = 0
      /\ k = 0 /\ selected = <<>> /\ (op = "prefix" => mode = "prepare")
  BY ColumnAssumption DEF Init
<1>2. Offset(0) = 0
  <2>1. query \in Seq(Ids(view.vocab)) /\ view.vocab \in Seq(Token)
    BY <1>1, ColumnAssumption, GreedySpells DEF Conforms
  <2> DEFINE spelled == Spelled(view.vocab, query)
  <2>2. spelled \in Seq(Seq(Byte))
    BY <2>1, SpelledType
  <2> HIDE DEF spelled
  <2>3. FlatTo(spelled)[0] = <<>>
    BY <2>2, FlatToSteps
  <2> QED
    BY <2>3 DEF Offset, spelled
<1>3. Len(query) \in Nat
  BY <1>1, ColumnAssumption, GreedySpells, LenProperties
<1>4. QueryInv
  <2>1. intervals \in Seq(SUBSET Ids(view.vocab)) /\ Len(intervals) = 0
    BY <1>1, EmptySeq
  <2> QED
    BY <1>1, <1>2, <1>3, <2>1 DEF QueryInv
<1>5. SelectedInv
  <2>1. selected \in Seq(Nat) /\ Len(selected) = 0
    BY <1>1, EmptySeq
  <2> QED
    BY <1>1, <2>1 DEF SelectedInv
<1> QED
  BY <1>4, <1>5, InitRowsInv DEF IInv

\* Nothing that a query is judged by changes.
LEMMA QueryUnchanged ==
    ASSUME UNCHANGED <<call, query, intervals>>
    PROVE  /\ \A n : Offset(n)' = Offset(n) /\ RestFrom(n)' = RestFrom(n)
           /\ \A prefix : Extending(prefix)' = Extending(prefix)
           /\ \A row : Satisfies(row)' <=> Satisfies(row)
           /\ \A n : RowCodes(view, n)' = RowCodes(view, n)
<1>1. /\ view' = view /\ needle' = needle /\ op' = op
      /\ query' = query /\ intervals' = intervals
  BY DEF call
<1>2. \A n : Offset(n)' = Offset(n) /\ RestFrom(n)' = RestFrom(n)
  BY <1>1 DEF Offset, RestFrom
<1>3. \A prefix : Extending(prefix)' = Extending(prefix)
  BY <1>1 DEF Extending
<1>4. \A row : Satisfies(row)' <=> Satisfies(row)
  BY <1>1 DEF Satisfies, StartsWith, Agreed, Common
<1>5. \A n : RowCodes(view, n)' = RowCodes(view, n)
  BY <1>1 DEF RowCodes
<1> QED
  BY <1>2, <1>3, <1>4, <1>5

\* Preparing a token appends the range of what extends the rest of the needle, and goes
\* on behind the token.
LEMMA PrepareKeepsQuery ==
    ASSUME IInv, PrepareToken
    PROVE  QueryInv'
<1> DEFINE len == Len(intervals)
           t == query[len + 1]
           next == Extending(Rest(t))
<1>1. /\ mode' = "prepare" /\ UNCHANGED <<view, needle, op, query>> /\ len < Len(query)
      /\ intervals' = Append(intervals, next) /\ byteOff' = byteOff + TokenLen(t)
  BY DEF PrepareToken, call
<1>2. /\ intervals \in Seq(SUBSET Ids(view.vocab)) /\ len \in Nat /\ byteOff = Offset(len)
      /\ \A n \in 1 .. len : intervals[n] = Extending(RestFrom(n - 1))
      /\ needle \in ByteSeq /\ op \in {"equal", "prefix"} /\ query = Greedy(view.vocab, needle)
  BY LenProperties DEF IInv, QueryInv
<1>3. /\ Len(query) \in Nat
      /\ \A n \in 1 .. Len(query) : Offset(n) = Offset(n - 1) + TokenLen(query[n])
  BY QueryFacts DEF IInv, RowsInv
<1>4. next = Extending(RestFrom(len)) /\ next \in SUBSET Ids(view.vocab)
  <2>1. Rest(t) = RestFrom(len)
    BY <1>2 DEF Rest, RestFrom
  <2> QED
    BY <2>1 DEF Extending
<1> HIDE DEF next
<1>5. /\ intervals' \in Seq(SUBSET Ids(view.vocab)) /\ Len(intervals') = len + 1
      /\ \A n \in 1 .. len : intervals'[n] = intervals[n]
      /\ intervals'[len + 1] = next
  BY <1>1, <1>2, <1>4, AppendProperties
<1>6. byteOff' = Offset(len + 1)
  <2>1. len + 1 \in 1 .. Len(query) /\ (len + 1) - 1 = len
    BY <1>1, <1>2, <1>3
  <2>2. Offset(len + 1) = Offset((len + 1) - 1) + TokenLen(query[len + 1])
    BY <1>3, <2>1
  <2> QED
    BY <1>1, <1>2, <2>1, <2>2
<1>7. \A n \in 1 .. len + 1 : intervals'[n] = Extending(RestFrom(n - 1))
  <2> TAKE n \in 1 .. len + 1
  <2>1. CASE n = len + 1
    <3>1. n - 1 = len
      BY <1>2, <2>1
    <3> QED
      BY <1>4, <1>5, <2>1, <3>1
  <2>2. CASE n # len + 1
    <3>1. n \in 1 .. len
      BY <1>2, <2>2
    <3> QED
      BY <1>2, <1>5, <3>1
  <2> QED
    BY <2>1, <2>2
<1>8. Len(intervals') <= Len(query')
  BY <1>1, <1>2, <1>3, <1>5
<1>9. byteOff' = Offset(Len(intervals))'
  <2>1. Offset(Len(intervals))' = Offset(len + 1)
    BY <1>1, <1>5 DEF Offset
  <2> QED
    BY <1>6, <2>1
<1>10. \A n \in 1 .. Len(intervals') : intervals'[n] = Extending(RestFrom(n - 1))'
  BY <1>5, <1>7, <1>1 DEF Extending, RestFrom, Offset
<1>11. intervals' \in Seq(SUBSET Ids(view.vocab))'
  BY <1>1, <1>5
<1> HIDE DEF len, t
<1> QED
  BY <1>1, <1>2, <1>8, <1>9, <1>10, <1>11 DEF QueryInv

\* Looking at a row keeps it, and only it, if it satisfies the query.
LEMMA SelectKeepsSelected ==
    ASSUME IInv, SelectRow
    PROVE  SelectedInv'
<1> DEFINE len == Len(selected)
           row == RowCodes(view, k)
<1>1. /\ mode = "rows" /\ mode' = "rows" /\ k' = k + 1 /\ UNCHANGED <<call, query, intervals>>
      /\ selected' = IF Satisfies(row) THEN Append(selected, k) ELSE selected
  BY DEF SelectRow
<1>2. /\ \A r : Satisfies(r)' <=> Satisfies(r)
      /\ \A n : RowCodes(view, n)' = RowCodes(view, n)
  BY <1>1, QueryUnchanged
<1>3. /\ k \in Nat /\ selected \in Seq(Nat) /\ len \in Nat
      /\ \A n \in 1 .. len : selected[n] \in 0 .. k - 1 /\ (n > 1 => selected[n - 1] < selected[n])
      /\ \A n \in 0 .. k - 1 :
            (\E m \in 1 .. len : selected[m] = n) <=> Satisfies(RowCodes(view, n))
  <2>1. k \in Nat
    BY RowFacts DEF IInv, RowsInv
  <2>2. selected \in Seq(Nat) /\ len \in Nat
    BY LenProperties DEF IInv, SelectedInv
  <2> QED
    BY <2>1, <2>2 DEF IInv, SelectedInv
<1> HIDE DEF row
<1>4. CASE Satisfies(row)
  <2>1. /\ selected' \in Seq(Nat) /\ Len(selected') = len + 1
        /\ \A n \in 1 .. len : selected'[n] = selected[n]
        /\ selected'[len + 1] = k
    BY <1>1, <1>3, <1>4, AppendProperties
  <2> HIDE DEF len
  <2>2. \A n \in 1 .. len + 1 : n = len + 1 \/ n \in 1 .. len
    BY <1>3
  <2>3. ASSUME NEW n \in 1 .. len + 1
        PROVE  selected'[n] \in 0 .. k /\ (n > 1 => selected'[n - 1] < selected'[n])
    <3>1. CASE n \in 1 .. len
      <4>1. n > 1 => n - 1 \in 1 .. len
        BY <1>3, <3>1
      <4> QED
        BY <1>3, <2>1, <3>1, <4>1
    <3>2. CASE n = len + 1
      <4>1. n > 1 => n - 1 \in 1 .. len
        BY <1>3, <3>2
      <4> QED
        BY <1>3, <2>1, <3>2, <4>1
    <3> QED
      BY <2>2, <3>1, <3>2
  <2>4. ASSUME NEW n \in 0 .. k
        PROVE  (\E m \in 1 .. len + 1 : selected'[m] = n) <=> Satisfies(RowCodes(view, n))
    <3>1. CASE n = k
      <4>1. len + 1 \in 1 .. len + 1
        BY <1>3
      <4> QED
        BY <1>4, <2>1, <3>1, <4>1 DEF row
    <3>2. CASE n # k
      <4>1. n \in 0 .. k - 1
        BY <1>3, <3>2
      <4>2. \A m \in 1 .. len : m \in 1 .. len + 1
        BY <1>3
      <4>3. (\E m \in 1 .. len + 1 : selected'[m] = n) <=> \E m \in 1 .. len : selected[m] = n
        BY <2>1, <2>2, <3>2, <4>2
      <4> QED
        BY <1>3, <4>1, <4>3
    <3> QED
      BY <3>1, <3>2
  <2>5. k' - 1 = k
    BY <1>1, <1>3
  <2> QED
    BY <1>1, <1>2, <2>1, <2>3, <2>4, <2>5 DEF SelectedInv
<1>5. CASE ~Satisfies(row)
  <2>1. selected' = selected
    BY <1>1, <1>5
  <2> HIDE DEF len
  <2>2. k' - 1 = k
    BY <1>1, <1>3
  <2>3. ASSUME NEW n \in 0 .. k
        PROVE  (\E m \in 1 .. len : selected[m] = n) <=> Satisfies(RowCodes(view, n))
    <3>1. CASE n = k
      <4>1. ~\E m \in 1 .. len : selected[m] = k
        BY <1>3
      <4> QED
        BY <1>5, <3>1, <4>1 DEF row
    <3>2. CASE n # k
      <4>1. n \in 0 .. k - 1
        BY <1>3, <3>2
      <4> QED
        BY <1>3, <4>1
    <3> QED
      BY <3>1, <3>2
  <2>4. \A n \in 1 .. len : selected[n] \in 0 .. k
    BY <1>3
  <2> QED
    BY <1>1, <1>2, <1>3, <2>1, <2>2, <2>3, <2>4 DEF SelectedInv, len
<1> QED
  BY <1>4, <1>5

LEMMA StepIInv == IInv /\ [Next]_vars => IInv'
<1> SUFFICES ASSUME IInv, [Next]_vars PROVE IInv'
  OBVIOUS
<1>1. RowsInv'
  BY StepRowsInv DEF IInv
<1>2. ASSUME UNCHANGED <<call, query, intervals, byteOff, k, selected>>,
             mode' = "prepare" => mode = "prepare",
             op = "prefix" /\ mode' # "prepare" => Len(intervals) = Len(query)
      PROVE  QueryInv' /\ SelectedInv'
  <2>1. /\ \A n : Offset(n)' = Offset(n) /\ RestFrom(n)' = RestFrom(n)
        /\ \A prefix : Extending(prefix)' = Extending(prefix)
        /\ \A row : Satisfies(row)' <=> Satisfies(row)
        /\ \A n : RowCodes(view, n)' = RowCodes(view, n)
    BY <1>2, QueryUnchanged
  <2>2. /\ view' = view /\ needle' = needle /\ op' = op /\ query' = query
        /\ intervals' = intervals /\ byteOff' = byteOff /\ k' = k /\ selected' = selected
    BY <1>2 DEF call
  <2>3. QueryInv'
    <3>1. Offset(Len(intervals))' = Offset(Len(intervals))
      BY <2>2 DEF Offset
    <3>2. \A n \in 1 .. Len(intervals) : Extending(RestFrom(n - 1))' = Extending(RestFrom(n - 1))
      BY <2>2 DEF Extending, RestFrom, Offset
    <3> QED
      BY <1>2, <2>2, <3>1, <3>2 DEF IInv, QueryInv
  <2>4. SelectedInv'
    BY <1>2, <2>1, <2>2 DEF IInv, SelectedInv
  <2> QED
    BY <2>3, <2>4
<1>3. CASE PrepareToken
  <2>1. QueryInv'
    BY <1>3, PrepareKeepsQuery
  <2>2. /\ k = 0 /\ k' = k /\ selected' = selected /\ mode' = "prepare"
    BY <1>3 DEF PrepareToken, IInv, SelectedInv
  <2>3. SelectedInv'
    <3>1. \A n \in 0 .. k' - 1 : FALSE
      BY <2>2
    <3> QED
      BY <2>2, <3>1 DEF IInv, SelectedInv
  <2> QED
    BY <1>1, <2>1, <2>3 DEF IInv
<1>4. CASE Prepared
  BY <1>1, <1>2, <1>4 DEF Prepared, IInv
<1>5. CASE SelectRow
  <2>1. UNCHANGED <<call, query, intervals, byteOff>> /\ mode' = mode
    BY <1>5 DEF SelectRow
  <2>2. QueryInv'
    <3>1. /\ view' = view /\ needle' = needle /\ op' = op /\ query' = query
          /\ intervals' = intervals /\ byteOff' = byteOff
      BY <2>1 DEF call
    <3>2. Offset(Len(intervals))' = Offset(Len(intervals))
      BY <3>1 DEF Offset
    <3>3. \A n \in 1 .. Len(intervals) : Extending(RestFrom(n - 1))' = Extending(RestFrom(n - 1))
      BY <3>1 DEF Extending, RestFrom, Offset
    <3> QED
      BY <2>1, <3>1, <3>2, <3>3 DEF IInv, QueryInv
  <2>3. SelectedInv'
    BY <1>5, SelectKeepsSelected
  <2> QED
    BY <1>1, <2>2, <2>3 DEF IInv
<1>6. CASE Malformed
  BY <1>1, <1>2, <1>6 DEF Malformed, IInv, QueryInv
<1>7. CASE Return
  BY <1>1, <1>2, <1>7 DEF Return, IInv, QueryInv
<1>8. CASE UNCHANGED vars
  BY <1>1, <1>2, <1>8 DEF vars, IInv, QueryInv
<1> QED
  BY <1>3, <1>4, <1>5, <1>6, <1>7, <1>8 DEF Next

LEMMA IInvImpliesSelects == IInv => SelectsMatchingRows
<1> SUFFICES ASSUME IInv PROVE SelectsMatchingRows
  OBVIOUS
<1>1. view \in Views /\ k \in 0 .. NumRows(view)
  BY DEF IInv, RowsInv
<1>2. TypeOK
  <2>1. /\ query \in Seq(Ids(view.vocab)) /\ Len(query) \in Nat
        /\ \A n \in 0 .. Len(query) : Offset(n) \in 0 .. Len(needle)
    BY <1>1, QueryFacts DEF IInv
  <2>2. Len(intervals) \in 0 .. Len(query)
    BY <2>1, LenProperties DEF IInv, QueryInv
  <2>3. byteOff \in 0 .. Len(needle)
    BY <2>1, <2>2 DEF IInv, QueryInv
  <2> QED
    BY <2>1, <2>3 DEF TypeOK, IInv, RowsInv, QueryInv, SelectedInv
<1>3. ASSUME NEW n \in 0 .. k - 1, Encoded(RowCodes(view, n))
      PROVE  (\E m \in 1 .. Len(selected) : selected[m] = n) <=> Matches(RowCodes(view, n))
  <2>1. RowCodes(view, n) \in Seq(Nat)
    BY <1>3, SeenRowIsSlice DEF IInv
  <2>2. mode # "prepare"
    BY <1>3 DEF IInv, SelectedInv
  <2>3. Satisfies(RowCodes(view, n)) <=> Matches(RowCodes(view, n))
    BY <1>1, <1>3, <2>1, <2>2, SatisfiesIsMatches DEF IInv
  <2> QED
    BY <1>3, <2>3 DEF IInv, SelectedInv
<1> QED
  BY <1>2, <1>3 DEF SelectsMatchingRows, IInv, SelectedInv

\* Equality and prefix queries, which compare codes and never decode a row, select
\* exactly the encoded rows whose bytes match, in order: for every conformant dictionary,
\* every needle and every column (search/equals.rs and search/prefix.rs).
THEOREM SelectionIsExact == Spec => []SelectsMatchingRows
<1>1. Spec => []IInv
  BY InitIInv, StepIInv, PTL DEF Spec
<1>2. []IInv => []SelectsMatchingRows
  BY IInvImpliesSelects, PTL
<1> QED
  BY <1>1, <1>2

-----------------------------------------------------------------------------
(***************************************************************************)
(* The block matchers.                                                     *)
(***************************************************************************)

\* What a mask should say of a block.
CoveredBits(codes) == [w \in Words |-> {lane \in 0 .. 63 : codes[64 * w + lane] \in Covered}]

BlockType == [0 .. BlockLen - 1 -> Code]

MaskType == [Words -> SUBSET (0 .. 63)]

\* What a check tells of a block.
IsExact(result, codes) ==
    /\ result.bits \in MaskType
    /\ result.written => result.bits = CoveredBits(codes)
    /\ ~result.written => \A w \in Words : CoveredBits(codes)[w] = {}

LEMMA WordsArePairs ==
    /\ \A w \in Words : /\ w \in Nat /\ w \div 2 \in Nat
                        /\ w % 2 \in {0, 1} /\ w = 2 * (w \div 2) + (w % 2)
                        /\ 2 * (w \div 2) \in Words /\ 2 * (w \div 2) + 1 \in Words
    /\ \A w \in Words, lane \in 0 .. 63 : 64 * w + lane \in 0 .. BlockLen - 1
    /\ \A n \in 0 .. BlockLen - 1 :
            n \div 64 \in Words /\ n % 64 \in 0 .. 63 /\ n = 64 * (n \div 64) + (n % 64)
<1> DEFINE b == BlockLen \div 64
<1>1. BlockLen \in Nat /\ BlockLen > 0 /\ BlockLen % 128 = 0
  BY BlockAssumption
<1>2. b \in Nat /\ BlockLen = 64 * b /\ b > 0 /\ b % 2 = 0
  BY <1>1
<1>3. Words = 0 .. b - 1
  BY DEF Words
<1> HIDE DEF b
<1>5. \A w \in 0 .. b - 1 : /\ w \in Nat /\ w \div 2 \in Nat
                        /\ w % 2 \in {0, 1} /\ w = 2 * (w \div 2) + (w % 2)
                        /\ 2 * (w \div 2) \in 0 .. b - 1 /\ 2 * (w \div 2) + 1 \in 0 .. b - 1
  BY <1>2
<1>7. \A w \in 0 .. b - 1, lane \in 0 .. 63 : 64 * w + lane \in 0 .. BlockLen - 1
  BY <1>2
<1>8. \A n \in 0 .. BlockLen - 1 :
            n \div 64 \in 0 .. b - 1 /\ n % 64 \in 0 .. 63 /\ n = 64 * (n \div 64) + (n % 64)
  BY <1>2
<1> QED
  BY <1>3, <1>5, <1>7, <1>8

RangeType == {r \in [begin : Code, last : Code] : r.begin <= r.last}

LEMMA CoverTyped ==
    ASSUME cover \in Covers
    PROVE  /\ cover.points \in Seq(Code) /\ cover.ranges \in Seq(RangeType)
           /\ \A p \in DOMAIN cover.points : cover.points[p] \in Code
           /\ \A r \in DOMAIN cover.ranges :
                /\ cover.ranges[r] \in RangeType
                /\ cover.ranges[r].begin \in Code /\ cover.ranges[r].last \in Code
                /\ cover.ranges[r].begin <= cover.ranges[r].last
<1>1. cover.points \in Seq(Code) /\ cover.ranges \in Seq(RangeType)
  BY BlockAssumption DEF RangeType
<1>2. \A r \in DOMAIN cover.ranges : cover.ranges[r] \in RangeType
  BY <1>1
<1> QED
  BY <1>1, <1>2 DEF RangeType

LEMMA CodesAre ==
    ASSUME NEW c \in Code
    PROVE  c \in Nat /\ c < 65536
<1>1. Width = 65536
  BY DEF Width
<1>2. c \in 0 .. Width - 1
  BY DEF Code
<1>3. Width \in Nat
  BY <1>1
<1> HIDE DEF Width
<1>4. c \in Nat /\ c < Width
  BY ONLY <1>2, <1>3, SMT
<1> QED
  BY ONLY <1>1, <1>4

\* A range test that needs no signed comparison.
LEMMA WrappedDistance ==
    ASSUME NEW c \in Code, NEW r \in RangeType
    PROVE  /\ WrappingSub(c, r.begin) <= r.last - r.begin <=> c \in r.begin .. r.last
           /\ WrappingSub(c, r.begin) \in Nat /\ r.last - r.begin \in Nat
<1>1. /\ c \in Nat /\ c < 65536 /\ r.begin \in Nat /\ r.begin < 65536
      /\ r.last \in Nat /\ r.last < 65536 /\ r.begin <= r.last
  <2>1. r.begin \in Code /\ r.last \in Code /\ r.begin <= r.last
    BY DEF RangeType
  <2>2. \A x \in Code : x \in Nat /\ x < 65536
    BY CodesAre
  <2> QED
    BY <2>1, <2>2
<1> DEFINE a == r.begin
           z == r.last
<1>2. a \in Nat /\ a < 65536 /\ z \in Nat /\ z < 65536 /\ a <= z
  BY SMT, <1>1
<1> HIDE DEF a, z
<1>3. /\ (c + 65536 - a) % 65536 <= z - a <=> c \in a .. z
      /\ (c + 65536 - a) % 65536 \in Nat /\ z - a \in Nat
  <2>1. CASE c >= a
    <3>1. c + 65536 - a = 65536 * 1 + (c - a) /\ c - a \in Nat /\ c - a < 65536
      BY SMT, <1>1, <1>2, <2>1
    <3>2. (c + 65536 - a) % 65536 = c - a
      BY SMT, <3>1
    <3> QED
      BY SMT, <1>1, <1>2, <2>1, <3>1, <3>2
  <2>2. CASE c < a
    <3>1. c + 65536 - a \in Nat /\ c + 65536 - a < 65536
      BY SMT, <1>1, <1>2, <2>2
    <3>2. (c + 65536 - a) % 65536 = c + 65536 - a
      BY SMT, <3>1
    <3> QED
      BY SMT, <1>1, <1>2, <2>2, <3>1, <3>2
  <2> QED
    BY SMT, <1>1, <1>2, <2>1, <2>2
<1> QED
  BY SMT, <1>3 DEF WrappingSub, Width, a, z

\* Four nibbles tell two codes apart.
LEMMA NibblesAre ==
    ASSUME NEW c \in Code
    PROVE  /\ Nibble(c, 0) = (c % 256) % 16
           /\ Nibble(c, 1) = (c % 256) \div 16
           /\ Nibble(c, 2) = (c \div 256) % 16
           /\ Nibble(c, 3) = (c \div 256) \div 16
           /\ \A n \in 0 .. 3 : Nibble(c, n) \in 0 .. 15
<1>1. 16 ^ 0 = 1 /\ 16 ^ 1 = 16 /\ 16 ^ 2 = 256 /\ 16 ^ 3 = 4096
  BY SMT
<1>2. c \in Nat /\ c < 65536
  BY CodesAre
<1>3. /\ c % 256 \in Nat /\ c % 256 < 256
      /\ c \div 256 \in Nat /\ c \div 256 < 256
      /\ c = 256 * (c \div 256) + (c % 256)
  BY SMT, <1>2
<1> DEFINE l == c % 256
           h == c \div 256
<1>4. l \in Nat /\ l < 256 /\ h \in Nat /\ h < 256 /\ c = 256 * h + l
  BY SMT, <1>3
<1>5. (l \div 16) \in 0 .. 15 /\ l % 16 \in 0 .. 15 /\ h \div 16 \in 0 .. 15 /\ h % 16 \in 0 .. 15
  <2>1. ASSUME NEW x \in Nat, x < 256
        PROVE  x \div 16 \in 0 .. 15 /\ x % 16 \in 0 .. 15
    <3>1. x \div 16 \in Nat /\ x \div 16 < 16 /\ x % 16 \in Nat /\ x % 16 < 16
      BY SMT, <2>1
    <3> QED
      BY SMT, <3>1
  <2> QED
    BY <1>4, <2>1
<1> HIDE DEF l, h
<1>6. c % 16 = l % 16
  BY SMT, <1>4
<1>7. (c \div 16) % 16 = l \div 16
  BY SMT, <1>4
<1>8. h % 16 = h % 16 /\ (c \div 256) % 16 = h % 16
  BY SMT, <1>4
<1>9. (c \div 4096) % 16 = h \div 16
  BY SMT, <1>4
<1>10. c \div 1 = c
  BY SMT, <1>2
<1>11. /\ Nibble(c, 0) = l % 16 /\ Nibble(c, 1) = l \div 16
       /\ Nibble(c, 2) = h % 16 /\ Nibble(c, 3) = h \div 16
  BY SMT, <1>1, <1>6, <1>7, <1>8, <1>9, <1>10 DEF Nibble
<1>12. \A n \in 0 .. 3 : n = 0 \/ n = 1 \/ n = 2 \/ n = 3
  BY SMT
<1> QED
  BY SMT, <1>5, <1>11, <1>12 DEF l, h

LEMMA NibblesDiffer ==
    ASSUME NEW c \in Code, NEW d \in Code, \A n \in 0 .. 3 : Nibble(c, n) = Nibble(d, n)
    PROVE  c = d
<1>1. /\ (c % 256) % 16 = (d % 256) % 16 /\ (c % 256) \div 16 = (d % 256) \div 16
      /\ (c \div 256) % 16 = (d \div 256) % 16 /\ (c \div 256) \div 16 = (d \div 256) \div 16
  BY NibblesAre
<1>2. c \in Nat /\ d \in Nat
  BY CodesAre
<1>3. c % 256 \in Nat /\ d % 256 \in Nat /\ c \div 256 \in Nat /\ d \div 256 \in Nat
  BY SMT, <1>2
<1>4. \A x, y \in Nat : x % 16 = y % 16 /\ x \div 16 = y \div 16 => x = y
  BY SMT
<1>5. c % 256 = d % 256 /\ c \div 256 = d \div 256
  BY <1>1, <1>3, <1>4
<1>6. c = 256 * (c \div 256) + (c % 256) /\ d = 256 * (d \div 256) + (d % 256)
  BY SMT, <1>2
<1> QED
  BY <1>5, <1>6

\* The tables of all batches together select the points.
LEMMA RowsSelectPoints ==
    ASSUME NEW points \in Seq(Code), NEW c \in Code
    PROVE  (\E p \in DOMAIN points : points[p] = c)
            <=> \E b \in 1 .. DivCeil(Len(points), PerBatch), q \in Nat : \A n \in 0 .. 3 :
                    q \in nibble_rows(points, b - 1)[n][Nibble(c, n)]
<1> DEFINE len == Len(points)
           from(b) == SmallerOf((b - 1) * PerBatch, len)
           to(b) == SmallerOf(from(b) + PerBatch, len)
<1>1. len \in Nat /\ DOMAIN points = 1 .. len /\ \A p \in 1 .. len : points[p] \in Code
  OBVIOUS
<1>2. \A n \in 0 .. 3 : Nibble(c, n) \in 0 .. 15
  BY NibblesAre
<1>3. ASSUME NEW b \in Nat, NEW q \in Nat, NEW n \in 0 .. 3
      PROVE  q \in nibble_rows(points, b - 1)[n][Nibble(c, n)]
                <=> q \in 0 .. to(b) - from(b) - 1 /\ Nibble(points[from(b) + q + 1], n) = Nibble(c, n)
  BY <1>2 DEF nibble_rows
<1>4. ASSUME NEW b \in Nat, b > 0
      PROVE  /\ from(b) = IF 8 * (b - 1) <= len THEN 8 * (b - 1) ELSE len
             /\ to(b) = IF from(b) + 8 <= len THEN from(b) + 8 ELSE len
             /\ from(b) \in Nat /\ to(b) \in Nat /\ from(b) <= to(b) /\ to(b) <= len
  BY <1>1, <1>4 DEF SmallerOf, PerBatch
<1> HIDE DEF from, to, len
<1>7. \A m : \A b \in 1 .. m : b \in Nat /\ b > 0
  OBVIOUS
<1>5. ASSUME NEW b \in 1 .. DivCeil(len, PerBatch), NEW q \in Nat,
             \A n \in 0 .. 3 : q \in nibble_rows(points, b - 1)[n][Nibble(c, n)]
      PROVE  \E p \in DOMAIN points : points[p] = c
  <2>1. b \in Nat /\ b > 0
    BY <1>7
  <2>2. q \in 0 .. to(b) - from(b) - 1
    <3>1. 0 \in 0 .. 3
      OBVIOUS
    <3>2. q \in nibble_rows(points, b - 1)[0][Nibble(c, 0)]
      BY Zenon, <1>5, <3>1
    <3>3. q \in nibble_rows(points, b - 1)[0][Nibble(c, 0)]
            <=> /\ q \in 0 .. to(b) - from(b) - 1
                /\ Nibble(points[from(b) + q + 1], 0) = Nibble(c, 0)
      BY Zenon, <1>3, <2>1, <3>1
    <3> QED
      BY Zenon, <3>2, <3>3
  <2>3. from(b) + q + 1 \in 1 .. len
    <3> DEFINE f == from(b)
               t == to(b)
    <3>1. f \in Nat /\ t \in Nat /\ t <= len /\ q \in 0 .. t - f - 1
      BY <1>4, <2>1, <2>2
    <3> HIDE DEF f, t
    <3>2. f + q + 1 \in 1 .. len
      BY <1>1, <3>1
    <3> QED
      BY <3>2 DEF f
  <2>4. \A n \in 0 .. 3 : Nibble(points[from(b) + q + 1], n) = Nibble(c, n)
    BY Zenon, <1>3, <1>5, <2>1
  <2>5. points[from(b) + q + 1] = c
    BY <1>1, <2>3, <2>4, NibblesDiffer
  <2> QED
    BY <1>1, <2>3, <2>5
<1>6. ASSUME NEW p \in 1 .. len, points[p] = c
      PROVE  \E b \in 1 .. DivCeil(len, PerBatch), q \in Nat : \A n \in 0 .. 3 :
                    q \in nibble_rows(points, b - 1)[n][Nibble(c, n)]
  <2> DEFINE b == (p - 1) \div 8 + 1
             q == (p - 1) % 8
  <2>1. b \in Nat /\ b > 0 /\ q \in Nat /\ q < 8 /\ p = 8 * (b - 1) + q + 1
    BY <1>1
  <2>2. DivCeil(len, PerBatch) = (len + 7) \div 8
    <3>1. len + 8 - 1 = len + 7
      BY <1>1
    <3> QED
      BY <3>1 DEF DivCeil, PerBatch
  <2>3. b \in 1 .. DivCeil(len, PerBatch)
    <3>1. p \in Nat /\ p >= 1 /\ p <= len
      BY <1>1
    <3> HIDE DEF q
    <3>2. b \in Nat /\ b > 0 /\ b <= (len + 7) \div 8
      BY <1>1, <3>1
    <3> HIDE DEF b
    <3>3. (len + 7) \div 8 \in Nat
      BY <1>1
    <3> QED
      BY <2>2, <3>2, <3>3
  <2> HIDE DEF b, q
  <2>4. from(b) = 8 * (b - 1) /\ q \in 0 .. to(b) - from(b) - 1 /\ from(b) + q + 1 = p
    <3> DEFINE f == from(b)
               t == to(b)
    <3>1. /\ f = IF 8 * (b - 1) <= len THEN 8 * (b - 1) ELSE len
          /\ t = IF f + 8 <= len THEN f + 8 ELSE len
      BY <1>4, <2>1
    <3> HIDE DEF f, t
    <3>2. p \in Nat /\ p <= len
      BY <1>1
    <3>3. f = 8 * (b - 1)
      BY <1>1, <2>1, <3>1, <3>2
    <3>4. q \in 0 .. t - f - 1 /\ f + q + 1 = p
      BY <1>1, <2>1, <3>1, <3>2, <3>3
    <3> QED
      BY <3>3, <3>4 DEF f, t
  <2>5. \A n \in 0 .. 3 : q \in nibble_rows(points, b - 1)[n][Nibble(c, n)]
    BY <1>3, <1>6, <2>1, <2>4
  <2> QED
    BY <2>1, <2>3, <2>5
<1> QED
  BY <1>1, <1>5, <1>6 DEF len

UnionOf(rs) == UNION {rs[r].begin .. rs[r].last : r \in DOMAIN rs}

\* The first range and the others.
LEMMA FirstAndRest ==
    ASSUME NEW rs \in Seq(RangeType), NEW held, held = [r \in DOMAIN rs |-> held[r]], held # <<>>
    PROVE  /\ 1 \in DOMAIN rs /\ rs[1] \in RangeType /\ Head(held) = held[1]
           /\ DOMAIN Tail(held) = DOMAIN Tail(rs)
           /\ \A r \in DOMAIN Tail(rs) : /\ r + 1 \in DOMAIN rs
                                         /\ Tail(rs)[r] = rs[r + 1] /\ Tail(rs)[r] \in RangeType
                                         /\ Tail(held)[r] = held[r + 1]
           /\ UnionOf(rs) = (rs[1].begin .. rs[1].last) \cup UnionOf(Tail(rs))
<1> DEFINE n == Len(rs)
<1>1. n \in Nat /\ DOMAIN rs = 1 .. n /\ \A r \in 1 .. n : rs[r] \in RangeType
  OBVIOUS
<1>2. held \in Seq({held[r] : r \in 1 .. n}) /\ Len(held) = n
  <2>1. held = [r \in 1 .. n |-> held[r]]
    BY <1>1
  <2> QED
    BY <1>1, <2>1
<1>3. n >= 1
  BY <1>1, <1>2
<1>4. rs # <<>>
  BY <1>1, <1>3
<1>5. /\ Tail(rs) \in Seq(RangeType) /\ Len(Tail(rs)) = n - 1
      /\ \A r \in 1 .. n - 1 : Tail(rs)[r] = rs[r + 1]
  BY <1>1, <1>3, <1>4
<1>6. /\ Len(Tail(held)) = n - 1 /\ DOMAIN Tail(held) = 1 .. n - 1
      /\ \A r \in 1 .. n - 1 : Tail(held)[r] = held[r + 1]
  BY <1>2, <1>3
<1>7. DOMAIN Tail(rs) = 1 .. n - 1
  BY <1>5
<1>8. \A r \in 1 .. n - 1 : r + 1 \in 1 .. n
  BY <1>1
<1>9. \A r \in 1 .. n : r = 1 \/ (r - 1 \in 1 .. n - 1 /\ (r - 1) + 1 = r)
  BY <1>1
<1>10. 1 \in 1 .. n
  BY <1>1, <1>3
<1> HIDE DEF n
<1>11. UnionOf(rs) = (rs[1].begin .. rs[1].last) \cup UnionOf(Tail(rs))
  <2> DEFINE S(r) == rs[r].begin .. rs[r].last
             tail == Tail(rs)
  <2>1. \A r \in 1 .. n - 1 : tail[r].begin .. tail[r].last = S(r + 1)
    BY <1>5
  <2>2. UnionOf(tail) = UNION {S(r + 1) : r \in 1 .. n - 1}
    BY <1>7, <2>1 DEF UnionOf
  <2>3. UnionOf(rs) = UNION {S(r) : r \in 1 .. n}
    BY <1>1 DEF UnionOf
  <2> HIDE DEF S, tail
  <2>4. UNION {S(r) : r \in 1 .. n} = S(1) \cup UNION {S(r + 1) : r \in 1 .. n - 1}
    <3>1. ASSUME NEW x
          PROVE  (\E r \in 1 .. n : x \in S(r)) <=> (x \in S(1) \/ \E r \in 1 .. n - 1 : x \in S(r + 1))
      BY <1>8, <1>9, <1>10
    <3> QED
      BY <3>1
  <2> QED
    BY <2>2, <2>3, <2>4 DEF S, tail
<1>12. Head(held) = held[1]
  BY <1>2
<1> QED
  BY <1>1, <1>5, <1>6, <1>7, <1>8, <1>10, <1>11, <1>12

Points == {cover.points[p] : p \in DOMAIN cover.points}

LEMMA CoveredIs == Covered = Points \cup UnionOf(cover.ranges)
BY DEF Covered, Points, UnionOf

\* What the tables of batch b hold for a nibble of c.
RowOf(b, n, c) == nibble_rows(cover.points, b - 1)[n][Nibble(c, n)]

LEMMA BatchesSelectPoints ==
    ASSUME cover \in Covers, NEW c \in Code
    PROVE  c \in Points
            <=> \E b \in 1 .. Batches(cover) :
                    RowOf(b, 0, c) \cap RowOf(b, 1, c) \cap RowOf(b, 2, c) \cap RowOf(b, 3, c) # {}
<1> DEFINE ps == cover.points
           D == DivCeil(Len(ps), PerBatch)
<1>1. ps \in Seq(Code)
  BY CoverTyped
<1>2. ASSUME NEW b \in 1 .. D, NEW q \in RowOf(b, 0, c)
      PROVE  q \in Nat
  <2>1. Nibble(c, 0) \in 0 .. 15
    BY NibblesAre
  <2> QED
    BY <2>1 DEF RowOf, nibble_rows
<1>4. ASSUME NEW b, NEW q
      PROVE  (\A n \in 0 .. 3 : q \in RowOf(b, n, c))
                <=> q \in RowOf(b, 0, c) \cap RowOf(b, 1, c) \cap RowOf(b, 2, c) \cap RowOf(b, 3, c)
  <2>1. \A n \in 0 .. 3 : n = 0 \/ n = 1 \/ n = 2 \/ n = 3
    OBVIOUS
  <2> QED
    BY <2>1
<1>5. c \in Points <=> \E b \in 1 .. D, q \in Nat : \A n \in 0 .. 3 : q \in RowOf(b, n, c)
  <2>1. (\E p \in DOMAIN ps : ps[p] = c)
            <=> \E b \in 1 .. D, q \in Nat : \A n \in 0 .. 3 :
                    q \in nibble_rows(ps, b - 1)[n][Nibble(c, n)]
    <3> HIDE DEF ps
    <3> QED
      BY <1>1, RowsSelectPoints
  <2> QED
    BY <2>1 DEF RowOf, Points
<1>6. Batches(cover) = D
  BY DEF Batches
<1> HIDE DEF D, ps
<1> QED
  BY <1>2, <1>4, <1>5, <1>6

-----------------------------------------------------------------------------
(***************************************************************************)
(* AVX2.                                                                   *)
(***************************************************************************)

Avx2Bits(h) == {lane \in 0 .. 63 : h[lane \div 32][lane % 32]}

LEMMA Avx2WordsExact ==
    ASSUME NEW hs, NEW codes, NEW mask, DOMAIN mask = Words,
           \A g \in Words : Avx2Bits(hs[g]) = CoveredBits(codes)[g]
    PROVE  IsExact(Avx2!words(hs, mask, skip), codes)
<1> DEFINE truth == CoveredBits(codes)
           pairs == {w \div 2 : w \in DOMAIN mask}
           empty == {p \in pairs : skip /\ ~Avx2!any(hs[2 * p], hs[2 * p + 1])}
           packed == [p \in pairs \ empty |-> Avx2!movemask(hs[2 * p], hs[2 * p + 1])]
           r == Avx2!words(hs, mask, skip)
           both(p) == 2 * p \in Words /\ 2 * p + 1 \in Words
<1>1. /\ r.bits = [w \in DOMAIN mask |-> IF w \div 2 \in empty THEN {} ELSE packed[w \div 2][w % 2]]
      /\ r.written <=> empty # pairs
  BY DEF Avx2!words
<1>2. ASSUME NEW p, both(p)
      PROVE  /\ Avx2!movemask(hs[2 * p], hs[2 * p + 1])[0] = truth[2 * p]
             /\ Avx2!movemask(hs[2 * p], hs[2 * p + 1])[1] = truth[2 * p + 1]
  <2>1. Avx2!movemask(hs[2 * p], hs[2 * p + 1]) =
            [w \in 0 .. 1 |-> IF w = 0 THEN Avx2Bits(hs[2 * p]) ELSE Avx2Bits(hs[2 * p + 1])]
    BY DEF Avx2!movemask, Avx2Bits
  <2> QED
    BY <1>2, <2>1
<1>3. ASSUME NEW p, both(p), ~Avx2!any(hs[2 * p], hs[2 * p + 1])
      PROVE  truth[2 * p] = {} /\ truth[2 * p + 1] = {}
  <2>1. \A x \in 0 .. 1, lane \in 0 .. 31 : ~hs[2 * p][x][lane] /\ ~hs[2 * p + 1][x][lane]
    BY <1>3 DEF Avx2!any, Avx2!or
  <2>2. \A lane \in 0 .. 63 : lane \div 32 \in 0 .. 1 /\ lane % 32 \in 0 .. 31
    OBVIOUS
  <2>3. Avx2Bits(hs[2 * p]) = {} /\ Avx2Bits(hs[2 * p + 1]) = {}
    BY <2>1, <2>2 DEF Avx2Bits
  <2> QED
    BY <1>3, <2>3
<1>4. \A w \in Words : truth[w] \subseteq 0 .. 63
  BY DEF CoveredBits
<1>5. ASSUME NEW w \in Words
      PROVE  /\ w \div 2 \in pairs /\ both(w \div 2)
             /\ w \div 2 \in empty => truth[w] = {}
             /\ w \div 2 \notin empty => packed[w \div 2][w % 2] = truth[w]
  <2>1. both(w \div 2) /\ w % 2 \in {0, 1} /\ w = 2 * (w \div 2) + (w % 2) /\ w \div 2 \in Nat
    BY WordsArePairs
  <2>2. w \div 2 \in pairs
    OBVIOUS
  <2>3. (w % 2 = 0 /\ w = 2 * (w \div 2)) \/ (w % 2 = 1 /\ w = 2 * (w \div 2) + 1)
    BY <2>1
  <2>5. CASE w \div 2 \in empty
    <3>1. ~Avx2!any(hs[2 * (w \div 2)], hs[2 * (w \div 2) + 1])
      BY <2>5
    <3>2. truth[2 * (w \div 2)] = {} /\ truth[2 * (w \div 2) + 1] = {}
      BY <1>3, <2>1, <3>1
    <3> QED
      BY <2>1, <2>2, <2>3, <2>5, <3>2
  <2>6. CASE w \div 2 \notin empty
    <3>1. packed[w \div 2] = Avx2!movemask(hs[2 * (w \div 2)], hs[2 * (w \div 2) + 1])
      BY <2>2, <2>6
    <3> HIDE DEF packed, empty, truth
    <3>2. /\ packed[w \div 2][0] = truth[2 * (w \div 2)]
          /\ packed[w \div 2][1] = truth[2 * (w \div 2) + 1]
      BY <1>2, <2>1, <3>1
    <3>3. packed[w \div 2][w % 2] = truth[w]
      BY <2>3, <3>2
    <3> QED
      BY <2>1, <2>2, <2>6, <3>3
  <2> QED
    BY <2>5, <2>6
<1> HIDE DEF packed, truth, r
<1>6. r.bits = [w \in Words |-> truth[w]]
  BY <1>1, <1>5
<1>7. r.bits = truth
  BY <1>6 DEF truth, CoveredBits
<1>8. r.bits \in MaskType
  BY <1>4, <1>6 DEF MaskType
<1>9. ~r.written => \A w \in Words : truth[w] = {}
  BY <1>1, <1>5
<1> QED
  BY <1>7, <1>8, <1>9 DEF IsExact, r, truth

LEMMA Avx2NarrowIs ==
    ASSUME NEW v, NEW x \in 0 .. 1, NEW j \in 0 .. 31
    PROVE  Avx2!narrow(v)[x][j] = v[2 * x + (j \div 16)][j % 16]
<1> DEFINE c == 8 * Avx2!Order[(j \div 8) + 1] + (j % 8)
           bytes == Avx2!packs(16, v[2 * x], v[2 * x + 1])
<1>1. /\ j \div 8 = 0 => c = j
      /\ j \div 8 = 1 => c = j + 8
      /\ j \div 8 = 2 => c = j - 8
      /\ j \div 8 = 3 => c = j
      /\ j \div 8 \in 0 .. 3
  BY DEF Avx2!Order
<1> HIDE DEF c
<1>2. Avx2!narrow(v)[x] = Avx2!permute(Avx2!Order, bytes)
  BY DEF Avx2!narrow
<1>3. DOMAIN bytes = 0 .. 31
  BY DEF Avx2!packs
<1>4. Avx2!permute(Avx2!Order, bytes)[j] = bytes[c]
  BY <1>3 DEF Avx2!permute, c
<1>5. c \in 0 .. 31
  BY <1>1
<1>6. bytes[c] = IF c % 16 < 8 THEN v[2 * x][8 * (c \div 16) + (c % 8)]
                 ELSE v[2 * x + 1][8 * (c \div 16) + (c % 8)]
  BY <1>5 DEF Avx2!packs
<1>7. j < 16 => c % 16 < 8 /\ 8 * (c \div 16) + (c % 8) = j /\ j \div 16 = 0 /\ j % 16 = j
  BY <1>1, <1>5
<1>8. j >= 16 => ~(c % 16 < 8) /\ 8 * (c \div 16) + (c % 8) = j - 16 /\ j \div 16 = 1 /\ j % 16 = j - 16
  BY <1>1, <1>5
<1> HIDE DEF bytes
<1>9. CASE j < 16
  BY <1>2, <1>4, <1>6, <1>7, <1>9
<1>10. CASE j >= 16
  BY <1>2, <1>4, <1>6, <1>8, <1>10
<1> QED
  BY <1>9, <1>10

\* The lanes of a comparison of every code of a group, before and after narrowing, that
\* hold for the codes of A.
Avx2Lanes(v, codes, g, A) ==
    \A i \in 0 .. 3, lane \in 0 .. 15 : v[i][lane] <=> codes[64 * g + 16 * i + lane] \in A

Avx2Says(hit, codes, g, A) ==
    \A x \in 0 .. 1, j \in 0 .. 31 : hit[x][j] <=> codes[64 * g + 32 * x + j] \in A

LEMMA Avx2NarrowSays ==
    ASSUME NEW A, NEW codes, NEW g \in Words, NEW v, Avx2Lanes(v, codes, g, A)
    PROVE  Avx2Says(Avx2!narrow(v), codes, g, A)
<1> SUFFICES ASSUME NEW x \in 0 .. 1, NEW j \in 0 .. 31
             PROVE  Avx2!narrow(v)[x][j] <=> codes[64 * g + 32 * x + j] \in A
  BY DEF Avx2Says
<1> DEFINE i == 2 * x + (j \div 16)
           lane == j % 16
<1>1. i \in 0 .. 3 /\ lane \in 0 .. 15 /\ g \in Nat
  <2>1. g \in Nat
    BY WordsArePairs
  <2> QED
    BY <2>1
<1>2. 64 * g + 16 * i + lane = 64 * g + 32 * x + j
  BY <1>1
<1>3. Avx2!narrow(v)[x][j] = v[i][lane]
  BY Avx2NarrowIs
<1> HIDE DEF i, lane
<1>4. v[i][lane] <=> codes[64 * g + 16 * i + lane] \in A
  BY <1>1 DEF Avx2Lanes
<1> QED
  BY <1>2, <1>3, <1>4

Avx2Hold(rs) == [r \in DOMAIN rs |-> Avx2!hold(rs[r])]

Avx2Holds(held, rs) ==
    /\ DOMAIN held = DOMAIN rs
    /\ \A r \in DOMAIN rs : rs[r] \in RangeType /\ held[r] = Avx2!hold(rs[r])

LEMMA Avx2InsideSays ==
    ASSUME NEW codes \in BlockType, NEW g \in Words, NEW r \in RangeType
    PROVE  Avx2Says(Avx2!inside(Avx2!hold(r), Avx2!load(codes, 64 * g)), codes, g, r.begin .. r.last)
<1> DEFINE group == Avx2!load(codes, 64 * g)
           held == Avx2!hold(r)
           v == [i \in 0 .. 3 |-> [lane \in 0 .. 15 |->
                    LET y == Avx2!WrappingSub(group[i][lane], held[1][lane])
                    IN  Avx2!SmallerOf(y, held[2][lane]) = y]]
<1>1. Avx2!inside(held, group) = Avx2!narrow(v)
  BY DEF Avx2!inside
<1>2. ASSUME NEW i \in 0 .. 3, NEW lane \in 0 .. 15
      PROVE  v[i][lane] <=> codes[64 * g + 16 * i + lane] \in r.begin .. r.last
  <2> DEFINE c == codes[64 * g + 16 * i + lane]
             y == WrappingSub(c, r.begin)
             z == r.last - r.begin
  <2>1. c \in Code
    <3>1. 64 * g + (16 * i + lane) \in 0 .. BlockLen - 1
      <4>1. 16 * i + lane \in 0 .. 63
        OBVIOUS
      <4> QED
        BY <4>1, WordsArePairs
    <3>2. g \in Nat
      BY WordsArePairs
    <3>3. 64 * g + (16 * i + lane) = 64 * g + 16 * i + lane
      BY <3>2
    <3> QED
      BY <3>1, <3>3 DEF BlockType
  <2>2. group[i][lane] = c
    BY DEF Avx2!load
  <2>3. held[1][lane] = r.begin /\ held[2][lane] = z
    BY DEF Avx2!hold, Avx2!set1
  <2>4. Avx2!WrappingSub(c, r.begin) = y
    BY DEF Avx2!WrappingSub, WrappingSub, Avx2!Width, Width
  <2>5. (y <= z <=> c \in r.begin .. r.last) /\ y \in Nat /\ z \in Nat
    BY <2>1, WrappedDistance
  <2> HIDE DEF y, z, c, group, held
  <2>6. v[i][lane] = (Avx2!SmallerOf(y, z) = y)
    BY <2>2, <2>3, <2>4
  <2>7. (Avx2!SmallerOf(y, z) = y) <=> y <= z
    BY <2>5 DEF Avx2!SmallerOf
  <2> QED
    BY <2>5, <2>6, <2>7 DEF c
<1> HIDE DEF v
<1>3. Avx2Lanes(v, codes, g, r.begin .. r.last)
  BY <1>2 DEF Avx2Lanes
<1> QED
  BY <1>1, <1>3, Avx2NarrowSays

LEMMA Avx2RangesAdded ==
    ASSUME NEW codes \in BlockType, NEW g \in Words, NEW A, NEW hit, NEW held, NEW rs,
           Avx2Holds(held, rs), Avx2Says(hit, codes, g, A)
    PROVE  Avx2Says(Avx2!check_ranges(hit, held, Avx2!load(codes, 64 * g)), codes, g, A \cup UnionOf(rs))
<1> DEFINE group == Avx2!load(codes, 64 * g)
<1> SUFFICES ASSUME NEW x \in 0 .. 1, NEW j \in 0 .. 31
             PROVE  Avx2!check_ranges(hit, held, group)[x][j]
                        <=> codes[64 * g + 32 * x + j] \in A \cup UnionOf(rs)
  BY DEF Avx2Says
<1> DEFINE c == codes[64 * g + 32 * x + j]
<1>1. Avx2!check_ranges(hit, held, group)[x][j]
        <=> hit[x][j] \/ \E r \in DOMAIN held : Avx2!inside(held[r], group)[x][j]
  BY DEF Avx2!check_ranges, Avx2!or
<1>2. ASSUME NEW r \in DOMAIN rs
      PROVE  Avx2!inside(held[r], group)[x][j] <=> c \in rs[r].begin .. rs[r].last
  <2>1. rs[r] \in RangeType /\ held[r] = Avx2!hold(rs[r])
    BY DEF Avx2Holds
  <2>2. Avx2Says(Avx2!inside(Avx2!hold(rs[r]), group), codes, g, rs[r].begin .. rs[r].last)
    BY <2>1, Avx2InsideSays
  <2> QED
    BY <2>1, <2>2 DEF Avx2Says
<1>3. hit[x][j] <=> c \in A
  BY DEF Avx2Says
<1> HIDE DEF group, c
<1>4. (\E r \in DOMAIN held : Avx2!inside(held[r], group)[x][j]) <=> c \in UnionOf(rs)
  BY <1>2 DEF UnionOf, Avx2Holds
<1> QED
  BY <1>1, <1>3, <1>4 DEF group, c

\* A matcher that is right of every group is right of the block.
LEMMA Avx2GroupsTell ==
    ASSUME NEW codes, NEW hs, NEW mask, DOMAIN mask = Words,
           \A g \in Words : Avx2Says(hs[g], codes, g, Covered)
    PROVE  IsExact(Avx2!words(hs, mask, skip), codes)
<1>1. ASSUME NEW g \in Words
      PROVE  Avx2Bits(hs[g]) = CoveredBits(codes)[g]
  <2>1. ASSUME NEW lane \in 0 .. 63
        PROVE  hs[g][lane \div 32][lane % 32] <=> codes[64 * g + lane] \in Covered
    <3>1. lane \div 32 \in 0 .. 1 /\ lane % 32 \in 0 .. 31
      OBVIOUS
    <3>2. 64 * g + 32 * (lane \div 32) + (lane % 32) = 64 * g + lane
      <4>1. g \in Nat
        BY WordsArePairs
      <4> QED
        BY <4>1
    <3> QED
      BY <3>1, <3>2 DEF Avx2Says
  <2> QED
    BY <2>1 DEF Avx2Bits, CoveredBits
<1> QED
  BY <1>1, Avx2WordsExact

LEMMA Avx2EqOrSays ==
    ASSUME NEW codes, NEW g \in Words
    PROVE  Avx2Says(Avx2!eq_or_hits(Avx2!EqOr_new(cover).points, Avx2!load(codes, 64 * g)), codes, g, Points)
<1> DEFINE ps == [p \in DOMAIN cover.points |-> Avx2!broadcast(cover.points[p])]
           group == Avx2!load(codes, 64 * g)
           v == [i \in 0 .. 3 |-> [lane \in 0 .. 15 |-> \E p \in DOMAIN ps : group[i][lane] = ps[p][lane]]]
<1>1. Avx2!EqOr_new(cover).points = ps
  BY DEF Avx2!EqOr_new
<1>2. Avx2!eq_or_hits(ps, group) = Avx2!narrow(v)
  BY DEF Avx2!eq_or_hits
<1>3. ASSUME NEW i \in 0 .. 3, NEW lane \in 0 .. 15
      PROVE  v[i][lane] <=> codes[64 * g + 16 * i + lane] \in Points
  <2>1. group[i][lane] = codes[64 * g + 16 * i + lane]
    BY DEF Avx2!load
  <2>2. \A p \in DOMAIN cover.points : ps[p][lane] = cover.points[p]
    BY DEF Avx2!broadcast, Avx2!set1
  <2>3. DOMAIN ps = DOMAIN cover.points
    OBVIOUS
  <2> HIDE DEF ps, group
  <2>4. v[i][lane] <=> \E p \in DOMAIN ps : group[i][lane] = ps[p][lane]
    OBVIOUS
  <2> HIDE DEF v
  <2> QED
    BY <2>1, <2>2, <2>3, <2>4 DEF Points
<1> HIDE DEF v
<1>4. Avx2Says(Avx2!narrow(v), codes, g, Points)
  <2>1. Avx2Lanes(v, codes, g, Points)
    BY <1>3 DEF Avx2Lanes
  <2> QED
    BY <2>1, Avx2NarrowSays
<1> QED
  BY <1>1, <1>2, <1>4

LEMMA Avx2Held ==
    ASSUME NEW rs \in Seq(RangeType)
    PROVE  /\ Avx2Holds(Avx2Hold(rs), rs)
           /\ Avx2Hold(rs) = <<>> => UnionOf(rs) = {}
           /\ Avx2Hold(rs) # <<>> =>
                /\ rs[1] \in RangeType
                /\ Head(Avx2Hold(rs)) = Avx2!hold(rs[1])
                /\ Avx2Holds(Tail(Avx2Hold(rs)), Tail(rs))
                /\ UnionOf(rs) = (rs[1].begin .. rs[1].last) \cup UnionOf(Tail(rs))
<1> DEFINE held == Avx2Hold(rs)
<1>1. \A r \in DOMAIN rs : rs[r] \in RangeType
  OBVIOUS
<1>2. DOMAIN held = DOMAIN rs /\ \A r \in DOMAIN rs : held[r] = Avx2!hold(rs[r])
  BY DEF Avx2Hold
<1>3. held = [r \in DOMAIN rs |-> held[r]]
  BY DEF Avx2Hold
<1> HIDE DEF held
<1>4. Avx2Holds(held, rs)
  BY <1>1, <1>2 DEF Avx2Holds
<1>5. ASSUME held = <<>> PROVE UnionOf(rs) = {}
  <2>1. DOMAIN rs = {}
    <3>1. DOMAIN held = {}
      BY ONLY <1>5
    <3> QED
      BY <1>2, <3>1
  <2> QED
    BY <2>1 DEF UnionOf
<1>6. ASSUME held # <<>>
      PROVE  /\ rs[1] \in RangeType
             /\ Head(held) = Avx2!hold(rs[1])
             /\ Avx2Holds(Tail(held), Tail(rs))
             /\ UnionOf(rs) = (rs[1].begin .. rs[1].last) \cup UnionOf(Tail(rs))
  <2>1. /\ 1 \in DOMAIN rs /\ rs[1] \in RangeType /\ Head(held) = held[1]
        /\ DOMAIN Tail(held) = DOMAIN Tail(rs)
        /\ \A r \in DOMAIN Tail(rs) : /\ r + 1 \in DOMAIN rs
                                       /\ Tail(rs)[r] = rs[r + 1] /\ Tail(rs)[r] \in RangeType
                                       /\ Tail(held)[r] = held[r + 1]
        /\ UnionOf(rs) = (rs[1].begin .. rs[1].last) \cup UnionOf(Tail(rs))
    BY <1>1, <1>3, <1>6, FirstAndRest
  <2>2. ASSUME NEW r \in DOMAIN Tail(rs)
        PROVE  Tail(rs)[r] \in RangeType /\ Tail(held)[r] = Avx2!hold(Tail(rs)[r])
    <3>1. held[r + 1] = Avx2!hold(rs[r + 1])
      BY <1>2, <2>1
    <3> QED
      BY <2>1, <3>1
  <2>3. Avx2Holds(Tail(held), Tail(rs))
    BY <2>1, <2>2 DEF Avx2Holds
  <2> QED
    BY <1>2, <2>1, <2>3
<1> QED
  BY <1>4, <1>5, <1>6 DEF held

LEMMA Avx2EqOrExact ==
    ASSUME cover \in Covers, NEW codes \in BlockType, NEW mask, DOMAIN mask = Words
    PROVE  IsExact(Avx2!EqOr_check(Avx2!EqOr_new(cover), codes, mask, skip), codes)
<1> DEFINE points == Avx2!EqOr_new(cover).points
           held == Avx2!EqOr_new(cover).ranges
           rs == cover.ranges
           group(g) == Avx2!load(codes, 64 * g)
<1>1. held = Avx2Hold(rs)
  BY DEF Avx2!EqOr_new, Avx2Hold
<1>2. Avx2!EqOr_check(Avx2!EqOr_new(cover), codes, mask, skip) =
            Avx2!eq_or_mask(points, held, codes, mask, skip)
  BY DEF Avx2!EqOr_check
<1>3. \A g \in Words : Avx2Says(Avx2!eq_or_hits(points, group(g)), codes, g, Points)
  BY Avx2EqOrSays
<1>4. points = <<>> => Points = {}
  <2>1. points = [p \in DOMAIN cover.points |-> Avx2!broadcast(cover.points[p])]
    BY DEF Avx2!EqOr_new
  <2> QED
    BY <2>1 DEF Points
<1> HIDE DEF points, held
<1>5. /\ Avx2Holds(held, rs)
      /\ held = <<>> => UnionOf(rs) = {}
      /\ held # <<>> =>
            /\ rs[1] \in RangeType /\ Head(held) = Avx2!hold(rs[1])
            /\ Avx2Holds(Tail(held), Tail(rs))
            /\ UnionOf(rs) = (rs[1].begin .. rs[1].last) \cup UnionOf(Tail(rs))
  <2>1. rs \in Seq(RangeType)
    BY CoverTyped
  <2> HIDE DEF rs
  <2> QED
    BY <1>1, <2>1, Avx2Held
<1>6. Covered = Points \cup UnionOf(rs)
  BY CoveredIs
<1> HIDE DEF rs
<1>7. CASE points # <<>>
  <2> DEFINE hs == [g \in DOMAIN mask |->
                        Avx2!check_ranges(Avx2!eq_or_hits(points, group(g)), held, group(g))]
  <2>1. Avx2!eq_or_mask(points, held, codes, mask, skip) = Avx2!words(hs, mask, skip)
    BY <1>7 DEF Avx2!eq_or_mask
  <2>2. ASSUME NEW g \in Words
        PROVE  Avx2Says(hs[g], codes, g, Covered)
    BY <1>3, <1>5, <1>6, Avx2RangesAdded
  <2> HIDE DEF hs
  <2>3. IsExact(Avx2!words(hs, mask, skip), codes)
    BY <2>2, Avx2GroupsTell
  <2> QED
    BY <1>2, <2>1, <2>3
<1>8. CASE points = <<>> /\ held = <<>>
  <2>1. Covered = {}
    BY <1>4, <1>5, <1>6, <1>8
  <2>2. Avx2!eq_or_mask(points, held, codes, mask, skip) =
            [bits |-> [w \in Words |-> {}], written |-> FALSE]
    BY <1>8 DEF Avx2!eq_or_mask, Avx2!ranges_mask
  <2>3. IsExact([bits |-> [w \in Words |-> {}], written |-> FALSE], codes)
    BY <2>1 DEF IsExact, MaskType, CoveredBits
  <2> QED
    BY <1>2, <2>2, <2>3
<1>9. CASE points = <<>> /\ held # <<>>
  <2> DEFINE hs == [g \in DOMAIN mask |->
                        Avx2!check_ranges(Avx2!inside(Head(held), group(g)), Tail(held), group(g))]
  <2>1. Avx2!eq_or_mask(points, held, codes, mask, skip) = Avx2!words(hs, mask, skip)
    BY <1>9 DEF Avx2!eq_or_mask, Avx2!ranges_mask
  <2>2. ASSUME NEW g \in Words
        PROVE  Avx2Says(hs[g], codes, g, Covered)
    <3>1. Avx2Says(Avx2!inside(Head(held), group(g)), codes, g, rs[1].begin .. rs[1].last)
      BY <1>5, <1>9, Avx2InsideSays
    <3>2. Avx2Says(hs[g], codes, g, (rs[1].begin .. rs[1].last) \cup UnionOf(Tail(rs)))
      BY <1>5, <1>9, <3>1, Avx2RangesAdded
    <3>3. Covered = (rs[1].begin .. rs[1].last) \cup UnionOf(Tail(rs))
      BY <1>4, <1>5, <1>6, <1>9
    <3> QED
      BY <3>2, <3>3
  <2> HIDE DEF hs
  <2>3. IsExact(Avx2!words(hs, mask, skip), codes)
    BY <2>2, Avx2GroupsTell
  <2> QED
    BY <1>2, <2>1, <2>3
<1> QED
  BY <1>7, <1>8, <1>9

Avx2Bytes(v) == \A i \in 0 .. 3, lane \in 0 .. 15 : v[i][lane] \in Nat /\ v[i][lane] < 256

LEMMA Avx2BytesPacked ==
    ASSUME NEW v, Avx2Bytes(v), NEW x \in 0 .. 1
    PROVE  Avx2!permute(Avx2!Order, Avx2!packus(16, v[2 * x], v[2 * x + 1])) = Avx2!narrow(v)[x]
<1> DEFINE packed == Avx2!packs(16, v[2 * x], v[2 * x + 1])
           source(lane) == 8 * (lane \div 16) + (lane % 8)
<1>1. packed = [lane \in 0 .. 31 |-> IF lane % 16 < 8 THEN v[2 * x][source(lane)] ELSE v[2 * x + 1][source(lane)]]
  BY DEF Avx2!packs
<1>2. Avx2!packus(16, v[2 * x], v[2 * x + 1]) =
        [lane \in DOMAIN packed |->
            IF packed[lane] >= Avx2!Width \div 2 THEN 0 ELSE Avx2!SmallerOf(packed[lane], 255)]
  BY DEF Avx2!packus
<1>3. ASSUME NEW lane \in 0 .. 31
      PROVE  (IF packed[lane] >= Avx2!Width \div 2 THEN 0 ELSE Avx2!SmallerOf(packed[lane], 255)) = packed[lane]
  <2>1. source(lane) \in 0 .. 15
    OBVIOUS
  <2>2. 2 * x \in 0 .. 3 /\ 2 * x + 1 \in 0 .. 3
    OBVIOUS
  <2>3. packed[lane] = v[2 * x][source(lane)] \/ packed[lane] = v[2 * x + 1][source(lane)]
    BY <1>1
  <2> HIDE DEF source, packed
  <2>4. packed[lane] \in Nat /\ packed[lane] < 256
    BY <2>1, <2>2, <2>3 DEF Avx2Bytes
  <2> QED
    BY SMT, <2>4 DEF Avx2!Width, Avx2!SmallerOf
<1>4. DOMAIN packed = 0 .. 31
  BY <1>1
<1>5. packed = [lane \in 0 .. 31 |-> packed[lane]]
  BY <1>1
<1> HIDE DEF packed
<1>6. Avx2!packus(16, v[2 * x], v[2 * x + 1]) = packed
  BY <1>2, <1>3, <1>4, <1>5
<1> QED
  BY <1>6 DEF packed, Avx2!narrow

LEMMA Avx2NarrowDomain ==
    ASSUME NEW v, NEW x \in 0 .. 1
    PROVE  DOMAIN Avx2!narrow(v)[x] = 0 .. 31
<1> DEFINE packed == Avx2!packs(16, v[2 * x], v[2 * x + 1])
<1>1. DOMAIN packed = 0 .. 31
  BY DEF Avx2!packs
<1>2. Avx2!narrow(v)[x] = Avx2!permute(Avx2!Order, packed)
  BY DEF Avx2!narrow
<1> HIDE DEF packed
<1>3. DOMAIN Avx2!permute(Avx2!Order, packed) = DOMAIN packed
  BY DEF Avx2!permute
<1> QED
  BY <1>1, <1>2, <1>3

\* A look-up of the low and of the high nibbles of bytes.
LEMMA Avx2LookUp ==
    ASSUME NEW bytes, DOMAIN bytes = 0 .. 31, \A j \in 0 .. 31 : bytes[j] \in Nat /\ bytes[j] < 256,
           NEW row, NEW j \in 0 .. 31
    PROVE  /\ Avx2!shuffle(Avx2!RepeatRow(32, row), Avx2!and0f(bytes))[j] = row[bytes[j] % 16]
           /\ Avx2!shuffle(Avx2!RepeatRow(32, row), Avx2!and0f(Avx2!srli4(bytes)))[j] =
                    row[bytes[j] \div 16]
<1> DEFINE table == Avx2!RepeatRow(32, row)
<1>1. ASSUME NEW nib \in Nat, nib < 16
      PROVE  table[16 * (j \div 16) + (nib % 16)] = row[nib]
  <2>1. 16 * (j \div 16) + (nib % 16) \in 0 .. 31 /\ (16 * (j \div 16) + (nib % 16)) % 16 = nib
    BY <1>1
  <2> QED
    BY <2>1 DEF Avx2!RepeatRow
<1>2. ASSUME NEW bs, DOMAIN bs = 0 .. 31, bs[j] \in Nat, bs[j] < 16
      PROVE  Avx2!shuffle(table, bs)[j] = row[bs[j]]
  <2>1. Avx2!shuffle(table, bs)[j] =
            IF bs[j] >= 128 THEN {} ELSE table[16 * (j \div 16) + (bs[j] % 16)]
    BY <1>2 DEF Avx2!shuffle
  <2> QED
    BY <1>1, <1>2, <2>1
<1> HIDE DEF table
<1>3. /\ DOMAIN Avx2!and0f(bytes) = 0 .. 31
      /\ Avx2!and0f(bytes)[j] = bytes[j] % 16
      /\ Avx2!and0f(bytes)[j] \in Nat /\ Avx2!and0f(bytes)[j] < 16
  BY DEF Avx2!and0f
<1>4. /\ DOMAIN Avx2!and0f(Avx2!srli4(bytes)) = 0 .. 31
      /\ Avx2!and0f(Avx2!srli4(bytes))[j] = bytes[j] \div 16
      /\ Avx2!and0f(Avx2!srli4(bytes))[j] \in Nat /\ Avx2!and0f(Avx2!srli4(bytes))[j] < 16
  <2> DEFINE s == Avx2!srli4(bytes)
  <2>1. /\ DOMAIN s = 0 .. 31
        /\ s[j] = (bytes[j] \div 16) + (IF j % 2 = 0 THEN 16 * (bytes[j + 1] % 16) ELSE 0)
    BY DEF Avx2!srli4
  <2>2. j % 2 = 0 => j + 1 \in 0 .. 31
    OBVIOUS
  <2> HIDE DEF s
  <2>3. DOMAIN Avx2!and0f(s) = 0 .. 31 /\ Avx2!and0f(s)[j] = s[j] % 16
    BY <2>1 DEF Avx2!and0f
  <2>4. bytes[j] \div 16 \in Nat /\ bytes[j] \div 16 < 16
    OBVIOUS
  <2>5. s[j] % 16 = bytes[j] \div 16
    <3>1. CASE j % 2 = 0
      <4>1. bytes[j + 1] \in Nat
        BY <2>2, <3>1
      <4> QED
        BY <2>1, <2>4, <3>1, <4>1
    <3>2. CASE j % 2 # 0
      BY <2>1, <2>4, <3>2
    <3> QED
      BY <3>1, <3>2
  <2> QED
    BY <2>3, <2>4, <2>5 DEF s
<1> QED
  BY <1>2, <1>3, <1>4 DEF table

LEMMA Avx2NibbleSays ==
    ASSUME cover \in Covers, NEW codes \in BlockType, NEW g \in Words
    PROVE  Avx2Says(Avx2!nibble_hits(Avx2!Nibble_new(cover, Batches(cover)).points,
                                     Avx2!load(codes, 64 * g)), codes, g, Points)
<1> DEFINE batches == [b \in 1 .. Batches(cover) |-> Avx2!batch(cover.points, b - 1)]
           group == Avx2!load(codes, 64 * g)
<1>1. Avx2!Nibble_new(cover, Batches(cover)).points = batches
  BY DEF Avx2!Nibble_new
<1> SUFFICES ASSUME NEW x \in 0 .. 1, NEW j \in 0 .. 31
             PROVE  Avx2!nibble_hits(batches, group)[x][j] <=> codes[64 * g + 32 * x + j] \in Points
  BY <1>1 DEF Avx2Says
<1> DEFINE c == codes[64 * g + 32 * x + j]
           Low(v) == [lane \in 0 .. 15 |-> v[lane] % 256]
           High(v) == [lane \in 0 .. 15 |-> v[lane] \div 256]
           low == Avx2!permute(Avx2!Order, Avx2!packus(16, Low(group[2 * x]), Low(group[2 * x + 1])))
           high == Avx2!permute(Avx2!Order, Avx2!packus(16, High(group[2 * x]), High(group[2 * x + 1])))
           nibbles == <<Avx2!and0f(low), Avx2!and0f(Avx2!srli4(low)),
                        Avx2!and0f(high), Avx2!and0f(Avx2!srli4(high))>>
           found == [b \in DOMAIN batches |->
                        [n \in 0 .. 3 |-> Avx2!shuffle(batches[b][n], nibbles[n + 1])]]
<1>2. Avx2!nibble_hits(batches, group)[x][j] <=>
            \E b \in DOMAIN batches :
                found[b][0][j] \cap found[b][1][j] \cap found[b][2][j] \cap found[b][3][j] # {}
  BY DEF Avx2!nibble_hits
<1>3. ASSUME NEW i \in 0 .. 3, NEW lane \in 0 .. 15
      PROVE  group[i][lane] = codes[64 * g + 16 * i + lane] /\ group[i][lane] \in Code
  <2>1. 64 * g + (16 * i + lane) \in 0 .. BlockLen - 1 /\ g \in Nat
    <3>1. 16 * i + lane \in 0 .. 63
      OBVIOUS
    <3> QED
      BY <3>1, WordsArePairs
  <2>2. 64 * g + (16 * i + lane) = 64 * g + 16 * i + lane
    BY <2>1
  <2> QED
    BY <2>1, <2>2 DEF BlockType, Avx2!load
<1> HIDE DEF group
<1>4. /\ c \in Code
      /\ DOMAIN low = 0 .. 31 /\ \A y \in 0 .. 31 : low[y] \in Nat /\ low[y] < 256
      /\ DOMAIN high = 0 .. 31 /\ \A y \in 0 .. 31 : high[y] \in Nat /\ high[y] < 256
      /\ low[j] = c % 256 /\ high[j] = c \div 256
  <2> DEFINE lv == [i \in 0 .. 3 |-> Low(group[i])]
             hv == [i \in 0 .. 3 |-> High(group[i])]
  <2>1. 2 * x \in 0 .. 3 /\ 2 * x + 1 \in 0 .. 3
    OBVIOUS
  <2>2. ASSUME NEW i \in 0 .. 3, NEW lane \in 0 .. 15
        PROVE  /\ lv[i][lane] = group[i][lane] % 256 /\ lv[i][lane] \in Nat /\ lv[i][lane] < 256
               /\ hv[i][lane] = group[i][lane] \div 256 /\ hv[i][lane] \in Nat /\ hv[i][lane] < 256
    <3>1. group[i][lane] \in Nat /\ group[i][lane] < 65536
      BY <1>3, CodesAre
    <3>2. lv[i][lane] = group[i][lane] % 256 /\ hv[i][lane] = group[i][lane] \div 256
      OBVIOUS
    <3> HIDE DEF lv, hv
    <3>3. group[i][lane] % 256 \in Nat /\ group[i][lane] % 256 < 256
      BY SMT, <3>1
    <3>4. group[i][lane] \div 256 \in Nat /\ group[i][lane] \div 256 < 256
      BY SMT, <3>1
    <3> QED
      BY <3>2, <3>3, <3>4
  <2>3. lv[2 * x] = Low(group[2 * x]) /\ lv[2 * x + 1] = Low(group[2 * x + 1])
    BY <2>1
  <2>4. hv[2 * x] = High(group[2 * x]) /\ hv[2 * x + 1] = High(group[2 * x + 1])
    BY <2>1
  <2> HIDE DEF lv, hv, Low, High
  <2>5. low = Avx2!narrow(lv)[x]
    <3>1. Avx2Bytes(lv)
      BY <2>2 DEF Avx2Bytes
    <3> QED
      BY <2>3, <3>1, Avx2BytesPacked
  <2>6. high = Avx2!narrow(hv)[x]
    <3>1. Avx2Bytes(hv)
      BY <2>2 DEF Avx2Bytes
    <3> QED
      BY <2>4, <3>1, Avx2BytesPacked
  <2> HIDE DEF low, high, c
  <2>7. DOMAIN low = 0 .. 31 /\ DOMAIN high = 0 .. 31
    BY <2>5, <2>6, Avx2NarrowDomain
  <2>8. ASSUME NEW y \in 0 .. 31
        PROVE  /\ 2 * x + (y \div 16) \in 0 .. 3 /\ y % 16 \in 0 .. 15
               /\ low[y] = lv[2 * x + (y \div 16)][y % 16]
               /\ high[y] = hv[2 * x + (y \div 16)][y % 16]
    BY <2>5, <2>6, Avx2NarrowIs
  <2>9. ASSUME NEW y \in 0 .. 31
        PROVE  low[y] \in Nat /\ low[y] < 256 /\ high[y] \in Nat /\ high[y] < 256
    <3> DEFINE i == 2 * x + (y \div 16)
               lane == y % 16
    <3>1. i \in 0 .. 3 /\ lane \in 0 .. 15 /\ low[y] = lv[i][lane] /\ high[y] = hv[i][lane]
      BY <2>8
    <3> HIDE DEF i, lane
    <3> QED
      BY <2>2, <3>1
  <2>10. c = group[2 * x + (j \div 16)][j % 16] /\ c \in Code
    <3> DEFINE i == 2 * x + (j \div 16)
               lane == j % 16
    <3>1. i \in 0 .. 3 /\ lane \in 0 .. 15
      BY <2>8
    <3>2. 64 * g + 16 * i + lane = 64 * g + 32 * x + j
      <4>1. g \in Nat
        BY WordsArePairs
      <4> QED
        BY <4>1
    <3> HIDE DEF i, lane
    <3>3. c = group[i][lane] /\ c \in Code
      BY <1>3, <3>1, <3>2 DEF c
    <3> QED
      BY <3>3 DEF i, lane
  <2>11. low[j] = c % 256 /\ high[j] = c \div 256
    <3> DEFINE i == 2 * x + (j \div 16)
               lane == j % 16
    <3>1. /\ i \in 0 .. 3 /\ lane \in 0 .. 15 /\ low[j] = lv[i][lane]
          /\ high[j] = hv[i][lane] /\ c = group[i][lane]
      BY <2>8, <2>10
    <3> HIDE DEF i, lane
    <3> QED
      BY <2>2, <3>1
  <2> QED
    BY <2>5, <2>6, <2>7, <2>9, <2>10, <2>11
<1> HIDE DEF low, high, c
<1>5. ASSUME NEW b \in 1 .. Batches(cover), NEW n \in 0 .. 3
      PROVE  found[b][n][j] = RowOf(b, n, c)
  <2> DEFINE row == nibble_rows(cover.points, b - 1)[n]
  <2>1. batches[b][n] = Avx2!RepeatRow(32, row)
    <3>1. Avx2!nibble_rows(cover.points, b - 1) = nibble_rows(cover.points, b - 1)
      BY DEF Avx2!nibble_rows, nibble_rows, Avx2!SmallerOf, SmallerOf, Avx2!PerBatch, PerBatch,
             Avx2!Nibble, Nibble
    <3> QED
      BY <3>1 DEF Avx2!batch
  <2>2. found[b][n][j] = Avx2!shuffle(Avx2!RepeatRow(32, row), nibbles[n + 1])[j]
    BY <2>1
  <2> HIDE DEF row
  <2>3. /\ Avx2!shuffle(Avx2!RepeatRow(32, row), Avx2!and0f(low))[j] = row[low[j] % 16]
        /\ Avx2!shuffle(Avx2!RepeatRow(32, row), Avx2!and0f(Avx2!srli4(low)))[j] = row[low[j] \div 16]
    BY <1>4, Avx2LookUp
  <2>4. /\ Avx2!shuffle(Avx2!RepeatRow(32, row), Avx2!and0f(high))[j] = row[high[j] % 16]
        /\ Avx2!shuffle(Avx2!RepeatRow(32, row), Avx2!and0f(Avx2!srli4(high)))[j] = row[high[j] \div 16]
    BY <1>4, Avx2LookUp
  <2>5. /\ Nibble(c, 0) = low[j] % 16 /\ Nibble(c, 1) = low[j] \div 16
        /\ Nibble(c, 2) = high[j] % 16 /\ Nibble(c, 3) = high[j] \div 16
    BY <1>4, NibblesAre
  <2>6. n = 0 \/ n = 1 \/ n = 2 \/ n = 3
    OBVIOUS
  <2>7. RowOf(b, n, c) = row[Nibble(c, n)]
    BY DEF RowOf, row
  <2>8. /\ n = 0 => nibbles[n + 1] = Avx2!and0f(low)
        /\ n = 1 => nibbles[n + 1] = Avx2!and0f(Avx2!srli4(low))
        /\ n = 2 => nibbles[n + 1] = Avx2!and0f(high)
        /\ n = 3 => nibbles[n + 1] = Avx2!and0f(Avx2!srli4(high))
    OBVIOUS
  <2> HIDE DEF found, nibbles
  <2> QED
    BY <2>2, <2>3, <2>4, <2>5, <2>6, <2>7, <2>8
<1>6. DOMAIN batches = 1 .. Batches(cover)
  OBVIOUS
<1> HIDE DEF batches, found
<1>7. Avx2!nibble_hits(batches, group)[x][j] <=>
            \E b \in 1 .. Batches(cover) :
                RowOf(b, 0, c) \cap RowOf(b, 1, c) \cap RowOf(b, 2, c) \cap RowOf(b, 3, c) # {}
  <2>1. \A b \in 1 .. Batches(cover) :
            /\ found[b][0][j] = RowOf(b, 0, c) /\ found[b][1][j] = RowOf(b, 1, c)
            /\ found[b][2][j] = RowOf(b, 2, c) /\ found[b][3][j] = RowOf(b, 3, c)
    BY <1>5
  <2> QED
    BY <1>2, <1>6, <2>1
<1>8. c \in Points <=>
            \E b \in 1 .. Batches(cover) :
                RowOf(b, 0, c) \cap RowOf(b, 1, c) \cap RowOf(b, 2, c) \cap RowOf(b, 3, c) # {}
  BY <1>4, BatchesSelectPoints
<1> QED
  BY <1>7, <1>8 DEF c

LEMMA Avx2NibbleExact ==
    ASSUME cover \in Covers, NEW codes \in BlockType, NEW mask, DOMAIN mask = Words
    PROVE  IsExact(Avx2!Nibble_check(Avx2!Nibble_new(cover, Batches(cover)), codes, mask, skip), codes)
<1> DEFINE points == Avx2!Nibble_new(cover, Batches(cover)).points
           held == Avx2!Nibble_new(cover, Batches(cover)).ranges
           rs == cover.ranges
           group(g) == Avx2!load(codes, 64 * g)
           hs == [g \in DOMAIN mask |->
                    Avx2!check_ranges(Avx2!nibble_hits(points, group(g)), held, group(g))]
<1>1. held = Avx2Hold(rs)
  BY DEF Avx2!Nibble_new, Avx2Hold
<1>2. Avx2!Nibble_check(Avx2!Nibble_new(cover, Batches(cover)), codes, mask, skip) =
            Avx2!words(hs, mask, skip)
  BY DEF Avx2!Nibble_check, Avx2!nibble_mask
<1>3. \A g \in Words : Avx2Says(Avx2!nibble_hits(points, group(g)), codes, g, Points)
  BY Avx2NibbleSays
<1> HIDE DEF points, held
<1>4. Avx2Holds(held, rs)
  <2>1. rs \in Seq(RangeType)
    BY CoverTyped
  <2> HIDE DEF rs
  <2> QED
    BY <1>1, <2>1, Avx2Held
<1>5. Covered = Points \cup UnionOf(rs)
  BY CoveredIs
<1> HIDE DEF rs
<1>6. ASSUME NEW g \in Words
      PROVE  Avx2Says(hs[g], codes, g, Covered)
  BY <1>3, <1>4, <1>5, Avx2RangesAdded
<1> HIDE DEF hs
<1>7. IsExact(Avx2!words(hs, mask, skip), codes)
  BY <1>6, Avx2GroupsTell
<1> QED
  BY <1>2, <1>7

-----------------------------------------------------------------------------
(***************************************************************************)
(* AVX-512.                                                                *)
(***************************************************************************)

Avx512Says(hit, codes, g, A) == hit = {lane \in 0 .. 63 : codes[64 * g + lane] \in A}

LEMMA Avx512GroupsTell ==
    ASSUME NEW codes, NEW hs, NEW mask, DOMAIN mask = Words,
           \A g \in Words : Avx512Says(hs[g], codes, g, Covered)
    PROVE  IsExact(Avx512!words(hs, mask, skip), codes)
<1> DEFINE truth == CoveredBits(codes)
           pairs == {w \div 2 : w \in DOMAIN mask}
           empty == {p \in pairs : skip /\ ~Avx512!any(hs[2 * p], hs[2 * p + 1])}
           r == Avx512!words(hs, mask, skip)
           told(w) == Avx512!movemask(hs[w - (w % 2)], hs[w - (w % 2) + 1])[w % 2]
<1>1. /\ r.bits = [w \in DOMAIN mask |-> IF w \div 2 \in empty THEN {} ELSE told(w)]
      /\ r.written <=> empty # pairs
  BY DEF Avx512!words
<1>2. \A w \in Words : hs[w] = truth[w] /\ truth[w] \subseteq 0 .. 63
  BY DEF CoveredBits, Avx512Says
<1>3. ASSUME NEW w \in Words
      PROVE  /\ w \div 2 \in pairs
             /\ w \div 2 \in empty => truth[w] = {}
             /\ told(w) = truth[w]
  <2>1. /\ 2 * (w \div 2) \in Words /\ 2 * (w \div 2) + 1 \in Words
        /\ w % 2 \in {0, 1} /\ w = 2 * (w \div 2) + (w % 2) /\ w \div 2 \in Nat /\ w \in Nat
    BY WordsArePairs
  <2>2. w \div 2 \in pairs
    OBVIOUS
  <2>3. (w % 2 = 0 /\ w = 2 * (w \div 2)) \/ (w % 2 = 1 /\ w = 2 * (w \div 2) + 1)
    BY <2>1
  <2>4. w \div 2 \in empty => hs[2 * (w \div 2)] = {} /\ hs[2 * (w \div 2) + 1] = {}
    BY DEF Avx512!any, Avx512!or
  <2>5. w \div 2 \in empty => truth[w] = {}
    <3> HIDE DEF truth, empty
    <3> QED
      BY <1>2, <2>3, <2>4
  <2>6. told(w) = hs[w]
    <3>1. CASE w % 2 = 0
      <4>1. w - (w % 2) = w
        BY <2>1, <3>1
      <4> QED
        BY <3>1, <4>1 DEF Avx512!movemask
    <3>2. CASE w % 2 = 1
      <4>1. w - (w % 2) + 1 = w
        BY <2>1, <3>2
      <4> QED
        BY <3>2, <4>1 DEF Avx512!movemask
    <3> QED
      BY <2>3, <3>1, <3>2
  <2> QED
    BY <1>2, <2>2, <2>5, <2>6
<1> HIDE DEF truth, r, told
<1>4. r.bits = [w \in Words |-> truth[w]]
  BY <1>1, <1>3
<1>5. r.bits = truth
  BY <1>4 DEF truth, CoveredBits
<1>6. r.bits \in MaskType
  BY <1>2, <1>4 DEF MaskType
<1>7. ~r.written => \A w \in Words : truth[w] = {}
  BY <1>1, <1>3
<1> QED
  BY <1>5, <1>6, <1>7 DEF IsExact, r, truth

\* The lanes of a group.
LEMMA Avx512GroupIs ==
    ASSUME NEW codes \in BlockType, NEW g \in Words, NEW i \in 0 .. 1, NEW lane \in 0 .. 31
    PROVE  /\ Avx512!load(codes, 64 * g)[i][lane] = codes[64 * g + (32 * i + lane)]
           /\ Avx512!load(codes, 64 * g)[i][lane] \in Code
           /\ 32 * i + lane \in 0 .. 63
<1>1. 64 * g + (32 * i + lane) \in 0 .. BlockLen - 1 /\ g \in Nat /\ 32 * i + lane \in 0 .. 63
  <2>1. 32 * i + lane \in 0 .. 63
    OBVIOUS
  <2> QED
    BY <2>1, WordsArePairs
<1>2. 64 * g + 32 * i + lane = 64 * g + (32 * i + lane)
  BY <1>1
<1>3. Avx512!load(codes, 64 * g)[i][lane] = codes[64 * g + 32 * i + lane]
  BY DEF Avx512!load
<1> QED
  BY <1>1, <1>2, <1>3 DEF BlockType

LEMMA Avx512InsideSays ==
    ASSUME NEW codes \in BlockType, NEW g \in Words, NEW r \in RangeType
    PROVE  Avx512Says(Avx512!inside(Avx512!hold(r), Avx512!load(codes, 64 * g)), codes, g, r.begin .. r.last)
<1> DEFINE group == Avx512!load(codes, 64 * g)
           held == Avx512!hold(r)
           mask(v) == {lane \in 0 .. 31 : Avx512!WrappingSub(v[lane], held[1][lane]) <= held[2][lane]}
           A == r.begin .. r.last
<1>1. Avx512!inside(held, group) = mask(group[0]) \cup {32 + lane : lane \in mask(group[1])}
  BY DEF Avx512!inside, Avx512!join
<1>2. ASSUME NEW i \in 0 .. 1, NEW lane \in 0 .. 31
      PROVE  lane \in mask(group[i]) <=> codes[64 * g + (32 * i + lane)] \in A
  <2>1. group[i][lane] = codes[64 * g + (32 * i + lane)] /\ group[i][lane] \in Code
    BY Avx512GroupIs
  <2>2. held[1][lane] = r.begin /\ held[2][lane] = r.last - r.begin
    BY DEF Avx512!hold, Avx512!set1
  <2>3. Avx512!WrappingSub(group[i][lane], r.begin) = WrappingSub(group[i][lane], r.begin)
    BY DEF Avx512!WrappingSub, WrappingSub, Avx512!Width, Width
  <2>4. WrappingSub(group[i][lane], r.begin) <= r.last - r.begin <=> group[i][lane] \in A
    BY <2>1, WrappedDistance
  <2> HIDE DEF group, held, A
  <2> QED
    BY <2>1, <2>2, <2>3, <2>4
<1> HIDE DEF mask, A
<1>3. ASSUME NEW lane \in 0 .. 63
      PROVE  lane \in mask(group[0]) \cup {32 + n : n \in mask(group[1])} <=> codes[64 * g + lane] \in A
  <2>1. CASE lane < 32
    <3>1. lane \in 0 .. 31 /\ 32 * 0 + lane = lane /\ \A n \in 0 .. 31 : 32 + n # lane
      BY <2>1
    <3>2. \A n \in mask(group[1]) : n \in 0 .. 31
      BY DEF mask
    <3> QED
      BY <1>2, <3>1, <3>2
  <2>2. CASE lane >= 32
    <3>1. lane - 32 \in 0 .. 31 /\ 32 * 1 + (lane - 32) = lane /\ 32 + (lane - 32) = lane /\ lane \notin 0 .. 31
      BY <2>2
    <3>2. \A n \in mask(group[1]) : n \in 0 .. 31
      BY DEF mask
    <3>3. \A n \in 0 .. 31 : 32 + n = lane => n = lane - 32
      BY <2>2
    <3>4. lane \notin mask(group[0])
      BY <3>1 DEF mask
    <3> QED
      BY <1>2, <3>1, <3>2, <3>3, <3>4
  <2> QED
    BY <2>1, <2>2
<1>4. mask(group[0]) \cup {32 + n : n \in mask(group[1])} \subseteq 0 .. 63
  BY DEF mask
<1> QED
  BY <1>1, <1>3, <1>4 DEF Avx512Says, A

Avx512Holds(held, rs) ==
    /\ DOMAIN held = DOMAIN rs
    /\ \A r \in DOMAIN rs : rs[r] \in RangeType /\ held[r] = Avx512!hold(rs[r])

LEMMA Avx512RangesAdded ==
    ASSUME NEW codes \in BlockType, NEW g \in Words, NEW A, NEW hit, NEW held, NEW rs,
           Avx512Holds(held, rs), Avx512Says(hit, codes, g, A)
    PROVE  Avx512Says(Avx512!check_ranges(hit, held, Avx512!load(codes, 64 * g)), codes, g, A \cup UnionOf(rs))
<1> DEFINE group == Avx512!load(codes, 64 * g)
<1>1. Avx512!check_ranges(hit, held, group) = hit \cup UNION {Avx512!inside(held[r], group) : r \in DOMAIN held}
  BY DEF Avx512!check_ranges, Avx512!or
<1>2. ASSUME NEW r \in DOMAIN rs
      PROVE  Avx512!inside(held[r], group) =
                 {lane \in 0 .. 63 : codes[64 * g + lane] \in rs[r].begin .. rs[r].last}
  <2>1. rs[r] \in RangeType /\ held[r] = Avx512!hold(rs[r])
    BY DEF Avx512Holds
  <2>2. Avx512Says(Avx512!inside(Avx512!hold(rs[r]), group), codes, g, rs[r].begin .. rs[r].last)
    BY <2>1, Avx512InsideSays
  <2> QED
    BY <2>1, <2>2 DEF Avx512Says
<1>3. hit = {lane \in 0 .. 63 : codes[64 * g + lane] \in A}
  BY DEF Avx512Says
<1> HIDE DEF group
<1>4. UNION {Avx512!inside(held[r], group) : r \in DOMAIN held} =
            {lane \in 0 .. 63 : codes[64 * g + lane] \in UnionOf(rs)}
  <2>1. DOMAIN held = DOMAIN rs
    BY DEF Avx512Holds
  <2>2. ASSUME NEW lane
        PROVE  (\E r \in DOMAIN rs : lane \in Avx512!inside(held[r], group))
                    <=> lane \in 0 .. 63 /\ codes[64 * g + lane] \in UnionOf(rs)
    BY <1>2 DEF UnionOf
  <2> QED
    BY <2>1, <2>2
<1>5. Avx512!check_ranges(hit, held, group) = {lane \in 0 .. 63 : codes[64 * g + lane] \in A \cup UnionOf(rs)}
  BY <1>1, <1>3, <1>4
<1> QED
  BY <1>5 DEF Avx512Says, group

Avx512Bytes(lo, hi) ==
    \A lane \in 0 .. 31 : lo[lane] \in Nat /\ lo[lane] < 256 /\ hi[lane] \in Nat /\ hi[lane] < 256

LEMMA Avx512PackedIs ==
    ASSUME NEW lo, NEW hi, NEW j \in 0 .. 63, Avx512Bytes(lo, hi)
    PROVE  /\ DOMAIN Avx512!permute(Avx512!Order, Avx512!packus(32, lo, hi)) = 0 .. 63
           /\ Avx512!permute(Avx512!Order, Avx512!packus(32, lo, hi))[j] =
                    IF j < 32 THEN lo[j] ELSE hi[j - 32]
<1> DEFINE packed == Avx512!packs(32, lo, hi)
           source(lane) == 8 * (lane \div 16) + (lane % 8)
           bytes == Avx512!packus(32, lo, hi)
           c == 8 * Avx512!Order[(j \div 8) + 1] + (j % 8)
<1>1. packed = [lane \in 0 .. 63 |-> IF lane % 16 < 8 THEN lo[source(lane)] ELSE hi[source(lane)]]
  BY DEF Avx512!packs
<1>2. bytes = [lane \in DOMAIN packed |->
            IF packed[lane] >= Avx512!Width \div 2 THEN 0 ELSE Avx512!SmallerOf(packed[lane], 255)]
  BY DEF Avx512!packus
<1>3. ASSUME NEW lane \in 0 .. 63
      PROVE  bytes[lane] = packed[lane]
  <2>1. source(lane) \in 0 .. 31
    OBVIOUS
  <2>2. packed[lane] = lo[source(lane)] \/ packed[lane] = hi[source(lane)]
    BY <1>1
  <2>3. DOMAIN packed = 0 .. 63
    BY <1>1
  <2> HIDE DEF source, packed
  <2>4. packed[lane] \in Nat /\ packed[lane] < 256
    BY <2>1, <2>2 DEF Avx512Bytes
  <2>5. bytes[lane] = IF packed[lane] >= Avx512!Width \div 2 THEN 0 ELSE Avx512!SmallerOf(packed[lane], 255)
    BY <1>2, <2>3
  <2> QED
    BY SMT, <2>4, <2>5 DEF Avx512!Width, Avx512!SmallerOf
<1>4. DOMAIN bytes = 0 .. 63
  BY <1>1, <1>2
<1> HIDE DEF bytes
<1>5. /\ j < 32 => c = 16 * (j \div 8) + (j % 8)
      /\ j >= 32 => c = 16 * ((j \div 8) - 4) + 8 + (j % 8)
  <2>1. /\ j \div 8 \in 0 .. 7
        /\ j < 32 => j \div 8 \in 0 .. 3
        /\ j >= 32 => j \div 8 \in 4 .. 7
    OBVIOUS
  <2>2. \A m \in 0 .. 7 : Avx512!Order[m + 1] = IF m < 4 THEN 2 * m ELSE 2 * (m - 4) + 1
    BY DEF Avx512!Order
  <2> QED
    BY <2>1, <2>2
<1> HIDE DEF c
<1>6. c \in 0 .. 63
  BY <1>5
<1>7. Avx512!permute(Avx512!Order, bytes)[j] = bytes[c] /\ DOMAIN Avx512!permute(Avx512!Order, bytes) = 0 .. 63
  BY <1>4 DEF Avx512!permute, c
<1>8. packed[c] = IF c % 16 < 8 THEN lo[source(c)] ELSE hi[source(c)]
  BY <1>1, <1>6
<1>9. j < 32 => c % 16 < 8 /\ source(c) = j
  BY <1>5
<1>10. j >= 32 => ~(c % 16 < 8) /\ source(c) = j - 32
  BY <1>5
<1> HIDE DEF packed, source
<1> QED
  BY <1>3, <1>6, <1>7, <1>8, <1>9, <1>10 DEF bytes

LEMMA Avx512LookUp ==
    ASSUME NEW bytes, DOMAIN bytes = 0 .. 63, \A j \in 0 .. 63 : bytes[j] \in Nat /\ bytes[j] < 256,
           NEW row, NEW j \in 0 .. 63
    PROVE  /\ Avx512!shuffle(Avx512!RepeatRow(64, row), Avx512!and0f(bytes))[j] = row[bytes[j] % 16]
           /\ Avx512!shuffle(Avx512!RepeatRow(64, row), Avx512!and0f(Avx512!srli4(bytes)))[j] =
                    row[bytes[j] \div 16]
<1> DEFINE table == Avx512!RepeatRow(64, row)
<1>1. ASSUME NEW nib \in Nat, nib < 16
      PROVE  table[16 * (j \div 16) + (nib % 16)] = row[nib]
  <2>1. 16 * (j \div 16) + (nib % 16) \in 0 .. 63 /\ (16 * (j \div 16) + (nib % 16)) % 16 = nib
    BY <1>1
  <2> QED
    BY <2>1 DEF Avx512!RepeatRow
<1>2. ASSUME NEW bs, DOMAIN bs = 0 .. 63, bs[j] \in Nat, bs[j] < 16
      PROVE  Avx512!shuffle(table, bs)[j] = row[bs[j]]
  <2>1. Avx512!shuffle(table, bs)[j] =
            IF bs[j] >= 128 THEN {} ELSE table[16 * (j \div 16) + (bs[j] % 16)]
    BY <1>2 DEF Avx512!shuffle
  <2> QED
    BY <1>1, <1>2, <2>1
<1> HIDE DEF table
<1>3. /\ DOMAIN Avx512!and0f(bytes) = 0 .. 63
      /\ Avx512!and0f(bytes)[j] = bytes[j] % 16
      /\ Avx512!and0f(bytes)[j] \in Nat /\ Avx512!and0f(bytes)[j] < 16
  BY DEF Avx512!and0f
<1>4. /\ DOMAIN Avx512!and0f(Avx512!srli4(bytes)) = 0 .. 63
      /\ Avx512!and0f(Avx512!srli4(bytes))[j] = bytes[j] \div 16
      /\ Avx512!and0f(Avx512!srli4(bytes))[j] \in Nat /\ Avx512!and0f(Avx512!srli4(bytes))[j] < 16
  <2> DEFINE s == Avx512!srli4(bytes)
  <2>1. /\ DOMAIN s = 0 .. 63
        /\ s[j] = (bytes[j] \div 16) + (IF j % 2 = 0 THEN 16 * (bytes[j + 1] % 16) ELSE 0)
    BY DEF Avx512!srli4
  <2>2. j % 2 = 0 => j + 1 \in 0 .. 63
    OBVIOUS
  <2> HIDE DEF s
  <2>3. DOMAIN Avx512!and0f(s) = 0 .. 63 /\ Avx512!and0f(s)[j] = s[j] % 16
    BY <2>1 DEF Avx512!and0f
  <2>4. bytes[j] \div 16 \in Nat /\ bytes[j] \div 16 < 16
    OBVIOUS
  <2>5. s[j] % 16 = bytes[j] \div 16
    <3>1. CASE j % 2 = 0
      <4>1. bytes[j + 1] \in Nat
        BY <2>2, <3>1
      <4> QED
        BY <2>1, <2>4, <3>1, <4>1
    <3>2. CASE j % 2 # 0
      BY <2>1, <2>4, <3>2
    <3> QED
      BY <3>1, <3>2
  <2> QED
    BY <2>3, <2>4, <2>5 DEF s
<1> QED
  BY <1>2, <1>3, <1>4 DEF table

LEMMA Avx512NibbleSays ==
    ASSUME cover \in Covers, NEW codes \in BlockType, NEW g \in Words
    PROVE  Avx512Says(Avx512!nibble_hits(Avx512!Nibble_new(cover, Batches(cover)).points,
                                         Avx512!load(codes, 64 * g)), codes, g, Points)
<1> DEFINE batches == [b \in 1 .. Batches(cover) |-> Avx512!batch(cover.points, b - 1)]
           group == Avx512!load(codes, 64 * g)
           Low(v) == [lane \in 0 .. 31 |-> v[lane] % 256]
           High(v) == [lane \in 0 .. 31 |-> v[lane] \div 256]
           low == Avx512!permute(Avx512!Order, Avx512!packus(32, Low(group[0]), Low(group[1])))
           high == Avx512!permute(Avx512!Order, Avx512!packus(32, High(group[0]), High(group[1])))
           nibbles == <<Avx512!and0f(low), Avx512!and0f(Avx512!srli4(low)),
                        Avx512!and0f(high), Avx512!and0f(Avx512!srli4(high))>>
           found == [b \in DOMAIN batches |->
                        [n \in 0 .. 3 |-> Avx512!shuffle(batches[b][n], nibbles[n + 1])]]
<1>1. Avx512!Nibble_new(cover, Batches(cover)).points = batches
  BY DEF Avx512!Nibble_new
<1>2. Avx512!nibble_hits(batches, group) =
            {lane \in 0 .. 63 : \E b \in DOMAIN batches :
                found[b][0][lane] \cap found[b][1][lane] \cap found[b][2][lane] \cap found[b][3][lane] # {}}
  BY DEF Avx512!nibble_hits
<1>3. ASSUME NEW i \in 0 .. 1, NEW lane \in 0 .. 31
      PROVE  group[i][lane] = codes[64 * g + (32 * i + lane)] /\ group[i][lane] \in Code
  BY Avx512GroupIs
<1> HIDE DEF group
<1>4. ASSUME NEW i \in 0 .. 1, NEW lane \in 0 .. 31
      PROVE  /\ Low(group[i])[lane] = group[i][lane] % 256 /\ Low(group[i])[lane] \in Nat
             /\ Low(group[i])[lane] < 256
             /\ High(group[i])[lane] = group[i][lane] \div 256
             /\ High(group[i])[lane] \in Nat /\ High(group[i])[lane] < 256
  <2>1. group[i][lane] \in Nat /\ group[i][lane] < 65536
    BY <1>3, CodesAre
  <2>2. Low(group[i])[lane] = group[i][lane] % 256 /\ High(group[i])[lane] = group[i][lane] \div 256
    OBVIOUS
  <2> HIDE DEF Low, High
  <2>3. group[i][lane] % 256 \in Nat /\ group[i][lane] % 256 < 256
    BY SMT, <2>1
  <2>4. group[i][lane] \div 256 \in Nat /\ group[i][lane] \div 256 < 256
    BY SMT, <2>1
  <2> QED
    BY <2>2, <2>3, <2>4
<1> HIDE DEF Low, High
<1>5. ASSUME NEW lane \in 0 .. 63
      PROVE  /\ codes[64 * g + lane] \in Code
             /\ DOMAIN low = 0 .. 63 /\ DOMAIN high = 0 .. 63
             /\ low[lane] = codes[64 * g + lane] % 256 /\ low[lane] \in Nat /\ low[lane] < 256
             /\ high[lane] = codes[64 * g + lane] \div 256 /\ high[lane] \in Nat /\ high[lane] < 256
  <2>1. /\ DOMAIN low = 0 .. 63 /\ DOMAIN high = 0 .. 63
        /\ low[lane] = IF lane < 32 THEN Low(group[0])[lane] ELSE Low(group[1])[lane - 32]
        /\ high[lane] = IF lane < 32 THEN High(group[0])[lane] ELSE High(group[1])[lane - 32]
    <3> DEFINE l0 == Low(group[0])
               l1 == Low(group[1])
               h0 == High(group[0])
               h1 == High(group[1])
    <3>1. ASSUME NEW n \in 0 .. 31
          PROVE  /\ l0[n] \in Nat /\ l0[n] < 256 /\ l1[n] \in Nat /\ l1[n] < 256
                 /\ h0[n] \in Nat /\ h0[n] < 256 /\ h1[n] \in Nat /\ h1[n] < 256
      <4>1. 0 \in 0 .. 1 /\ 1 \in 0 .. 1
        OBVIOUS
      <4> QED
        BY <1>4, <4>1
    <3> HIDE DEF l0, l1, h0, h1
    <3>2. Avx512Bytes(l0, l1) /\ Avx512Bytes(h0, h1)
      BY <3>1 DEF Avx512Bytes
    <3>3. /\ DOMAIN Avx512!permute(Avx512!Order, Avx512!packus(32, l0, l1)) = 0 .. 63
          /\ Avx512!permute(Avx512!Order, Avx512!packus(32, l0, l1))[lane] =
                  IF lane < 32 THEN l0[lane] ELSE l1[lane - 32]
      BY <3>2, Avx512PackedIs
    <3>4. /\ DOMAIN Avx512!permute(Avx512!Order, Avx512!packus(32, h0, h1)) = 0 .. 63
          /\ Avx512!permute(Avx512!Order, Avx512!packus(32, h0, h1))[lane] =
                  IF lane < 32 THEN h0[lane] ELSE h1[lane - 32]
      BY <3>2, Avx512PackedIs
    <3> QED
      BY <3>3, <3>4 DEF l0, l1, h0, h1
  <2> HIDE DEF low, high
  <2>2. CASE lane < 32
    <3>1. 32 * 0 + lane = lane /\ lane \in 0 .. 31
      BY <2>2
    <3>2. low[lane] = Low(group[0])[lane] /\ high[lane] = High(group[0])[lane]
      BY <2>1, <2>2
    <3>3. group[0][lane] = codes[64 * g + lane] /\ group[0][lane] \in Code
      BY <1>3, <3>1
    <3> QED
      BY <1>4, <2>1, <3>1, <3>2, <3>3
  <2>3. CASE lane >= 32
    <3> DEFINE n == lane - 32
    <3>1. 32 * 1 + n = lane /\ n \in 0 .. 31 /\ ~(lane < 32)
      BY <2>3
    <3>2. low[lane] = Low(group[1])[n] /\ high[lane] = High(group[1])[n]
      BY <2>1, <3>1
    <3> HIDE DEF n
    <3>3. group[1][n] = codes[64 * g + lane] /\ group[1][n] \in Code
      BY <1>3, <3>1
    <3> QED
      BY <1>4, <2>1, <3>1, <3>2, <3>3
  <2> QED
    BY <2>2, <2>3
<1> HIDE DEF low, high
<1>6. ASSUME NEW b \in 1 .. Batches(cover), NEW n \in 0 .. 3, NEW lane \in 0 .. 63
      PROVE  found[b][n][lane] = RowOf(b, n, codes[64 * g + lane])
  <2> DEFINE row == nibble_rows(cover.points, b - 1)[n]
             c == codes[64 * g + lane]
  <2>1. batches[b][n] = Avx512!RepeatRow(64, row)
    <3>1. Avx512!nibble_rows(cover.points, b - 1) = nibble_rows(cover.points, b - 1)
      BY DEF Avx512!nibble_rows, nibble_rows, Avx512!SmallerOf, SmallerOf, Avx512!PerBatch, PerBatch,
             Avx512!Nibble, Nibble
    <3> QED
      BY <3>1 DEF Avx512!batch
  <2>2. found[b][n][lane] = Avx512!shuffle(Avx512!RepeatRow(64, row), nibbles[n + 1])[lane]
    BY <2>1
  <2>3. /\ DOMAIN low = 0 .. 63 /\ \A y \in 0 .. 63 : low[y] \in Nat /\ low[y] < 256
        /\ DOMAIN high = 0 .. 63 /\ \A y \in 0 .. 63 : high[y] \in Nat /\ high[y] < 256
    BY <1>5
  <2> HIDE DEF row
  <2>4. /\ Avx512!shuffle(Avx512!RepeatRow(64, row), Avx512!and0f(low))[lane] = row[low[lane] % 16]
        /\ Avx512!shuffle(Avx512!RepeatRow(64, row), Avx512!and0f(Avx512!srli4(low)))[lane] =
                row[low[lane] \div 16]
    BY <2>3, Avx512LookUp
  <2>5. /\ Avx512!shuffle(Avx512!RepeatRow(64, row), Avx512!and0f(high))[lane] = row[high[lane] % 16]
        /\ Avx512!shuffle(Avx512!RepeatRow(64, row), Avx512!and0f(Avx512!srli4(high)))[lane] =
                row[high[lane] \div 16]
    BY <2>3, Avx512LookUp
  <2>6. /\ Nibble(c, 0) = low[lane] % 16 /\ Nibble(c, 1) = low[lane] \div 16
        /\ Nibble(c, 2) = high[lane] % 16 /\ Nibble(c, 3) = high[lane] \div 16
    <3>1. c \in Code /\ low[lane] = c % 256 /\ high[lane] = c \div 256
      BY <1>5
    <3> HIDE DEF c
    <3> QED
      BY <3>1, NibblesAre
  <2>7. n = 0 \/ n = 1 \/ n = 2 \/ n = 3
    OBVIOUS
  <2>8. RowOf(b, n, c) = row[Nibble(c, n)]
    BY DEF RowOf, row
  <2>9. /\ n = 0 => nibbles[n + 1] = Avx512!and0f(low)
        /\ n = 1 => nibbles[n + 1] = Avx512!and0f(Avx512!srli4(low))
        /\ n = 2 => nibbles[n + 1] = Avx512!and0f(high)
        /\ n = 3 => nibbles[n + 1] = Avx512!and0f(Avx512!srli4(high))
    OBVIOUS
  <2> HIDE DEF found, nibbles, c
  <2>10. found[b][n][lane] = RowOf(b, n, c)
    BY <2>2, <2>4, <2>5, <2>6, <2>7, <2>8, <2>9
  <2> QED
    BY <2>10 DEF c
<1>7. DOMAIN batches = 1 .. Batches(cover)
  OBVIOUS
<1> HIDE DEF batches, found
<1>8. ASSUME NEW lane \in 0 .. 63
      PROVE  (\E b \in DOMAIN batches :
                found[b][0][lane] \cap found[b][1][lane] \cap found[b][2][lane] \cap found[b][3][lane] # {})
                    <=> codes[64 * g + lane] \in Points
  <2> DEFINE c == codes[64 * g + lane]
  <2>1. ASSUME NEW b \in 1 .. Batches(cover)
        PROVE  /\ found[b][0][lane] = RowOf(b, 0, c) /\ found[b][1][lane] = RowOf(b, 1, c)
               /\ found[b][2][lane] = RowOf(b, 2, c) /\ found[b][3][lane] = RowOf(b, 3, c)
    <3>1. 0 \in 0 .. 3 /\ 1 \in 0 .. 3 /\ 2 \in 0 .. 3 /\ 3 \in 0 .. 3
      OBVIOUS
    <3>2. ASSUME NEW n \in 0 .. 3
          PROVE  found[b][n][lane] = RowOf(b, n, c)
      BY <1>6
    <3> HIDE DEF c
    <3> QED
      BY <3>1, <3>2
  <2>2. c \in Code
    BY <1>5
  <2> HIDE DEF c
  <2>3. c \in Points <=>
            \E b \in 1 .. Batches(cover) :
                RowOf(b, 0, c) \cap RowOf(b, 1, c) \cap RowOf(b, 2, c) \cap RowOf(b, 3, c) # {}
    BY <2>2, BatchesSelectPoints
  <2>4. (\E b \in DOMAIN batches :
            found[b][0][lane] \cap found[b][1][lane] \cap found[b][2][lane] \cap found[b][3][lane] # {})
                <=> c \in Points
    BY <1>7, <2>1, <2>3
  <2> QED
    BY <2>4 DEF c
<1> QED
  BY <1>1, <1>2, <1>8 DEF Avx512Says, group

LEMMA Avx512NibbleExact ==
    ASSUME cover \in Covers, NEW codes \in BlockType, NEW mask, DOMAIN mask = Words
    PROVE  IsExact(Avx512!Nibble_check(Avx512!Nibble_new(cover, Batches(cover)), codes, mask, skip), codes)
<1> DEFINE points == Avx512!Nibble_new(cover, Batches(cover)).points
           held == Avx512!Nibble_new(cover, Batches(cover)).ranges
           rs == cover.ranges
           group(g) == Avx512!load(codes, 64 * g)
           hs == [g \in DOMAIN mask |->
                    Avx512!check_ranges(Avx512!nibble_hits(points, group(g)), held, group(g))]
<1>1. held = [r \in DOMAIN rs |-> Avx512!hold(rs[r])]
  BY DEF Avx512!Nibble_new
<1>2. Avx512!Nibble_check(Avx512!Nibble_new(cover, Batches(cover)), codes, mask, skip) =
            Avx512!words(hs, mask, skip)
  BY DEF Avx512!Nibble_check, Avx512!nibble_mask
<1>3. \A g \in Words : Avx512Says(Avx512!nibble_hits(points, group(g)), codes, g, Points)
  BY Avx512NibbleSays
<1> HIDE DEF points, held
<1>4. Avx512Holds(held, rs)
  BY <1>1, CoverTyped DEF Avx512Holds
<1>5. Covered = Points \cup UnionOf(rs)
  BY CoveredIs
<1> HIDE DEF rs
<1>6. ASSUME NEW g \in Words
      PROVE  Avx512Says(hs[g], codes, g, Covered)
  BY <1>3, <1>4, <1>5, Avx512RangesAdded
<1> HIDE DEF hs
<1>7. IsExact(Avx512!words(hs, mask, skip), codes)
  BY <1>6, Avx512GroupsTell
<1> QED
  BY <1>2, <1>7

-----------------------------------------------------------------------------
(***************************************************************************)
(* NEON.                                                                   *)
(***************************************************************************)

NeonBits(h) == {lane \in 0 .. 63 : h[lane \div 16][lane % 16]}

\* The bits of 16 lanes.
NeonWeights(v) == [lane \in 0 .. 15 |-> IF v[lane] THEN 2 ^ (lane % 8) ELSE 0]

\* A group after two of the three rounds of sums.
NeonHalf(h) == Neon!vpadd(16, Neon!vpadd(16, NeonWeights(h[0]), NeonWeights(h[1])),
                              Neon!vpadd(16, NeonWeights(h[2]), NeonWeights(h[3])))

NeonPair(x, y) == (x + y) % 256

\* Eight bytes summed as the three rounds sum them.
NeonSum(b0, b1, b2, b3, b4, b5, b6, b7) ==
    NeonPair(NeonPair(NeonPair(b0, b1), NeonPair(b2, b3)), NeonPair(NeonPair(b4, b5), NeonPair(b6, b7)))

LEMMA NeonPadd ==
    ASSUME NEW lo, NEW hi, NEW lane \in 0 .. 7
    PROVE  /\ Neon!vpadd(16, lo, hi)[lane] = NeonPair(lo[2 * lane], lo[2 * lane + 1])
           /\ Neon!vpadd(16, lo, hi)[lane + 8] = NeonPair(hi[2 * lane], hi[2 * lane + 1])
<1> DEFINE even == Neon!vuzp1(16, lo, hi)
           odd == Neon!vuzp2(16, lo, hi)
           n == lane + 8
<1>1. /\ lane \in 0 .. 15 /\ n \in 0 .. 15 /\ 2 * lane < 16 /\ ~(2 * n < 16)
      /\ 2 * n - 16 = 2 * lane /\ 2 * n + 1 - 16 = 2 * lane + 1
  OBVIOUS
<1> HIDE DEF n
<1>2. /\ even[lane] = lo[2 * lane] /\ odd[lane] = lo[2 * lane + 1]
      /\ even[n] = hi[2 * lane] /\ odd[n] = hi[2 * lane + 1]
  BY <1>1 DEF Neon!vuzp1, Neon!vuzp2
<1>3. Neon!vpadd(16, lo, hi) = [j \in 0 .. 15 |-> NeonPair(even[j], odd[j])]
  BY DEF Neon!vpadd, NeonPair
<1> HIDE DEF even, odd
<1> QED
  BY <1>1, <1>2, <1>3 DEF n

LEMMA NeonPadded ==
    ASSUME NEW lo, NEW hi, NEW v, v = Neon!vpadd(16, lo, hi)
    PROVE  /\ v[0] = NeonPair(lo[0], lo[1]) /\ v[8] = NeonPair(hi[0], hi[1])
           /\ v[1] = NeonPair(lo[2], lo[3]) /\ v[9] = NeonPair(hi[2], hi[3])
           /\ v[2] = NeonPair(lo[4], lo[5]) /\ v[10] = NeonPair(hi[4], hi[5])
           /\ v[3] = NeonPair(lo[6], lo[7]) /\ v[11] = NeonPair(hi[6], hi[7])
           /\ v[4] = NeonPair(lo[8], lo[9]) /\ v[12] = NeonPair(hi[8], hi[9])
           /\ v[5] = NeonPair(lo[10], lo[11]) /\ v[13] = NeonPair(hi[10], hi[11])
           /\ v[6] = NeonPair(lo[12], lo[13]) /\ v[14] = NeonPair(hi[12], hi[13])
           /\ v[7] = NeonPair(lo[14], lo[15]) /\ v[15] = NeonPair(hi[14], hi[15])
<1>1. ASSUME NEW lane \in 0 .. 7
      PROVE  /\ v[lane] = NeonPair(lo[2 * lane], lo[2 * lane + 1])
             /\ v[lane + 8] = NeonPair(hi[2 * lane], hi[2 * lane + 1])
  BY NeonPadd
<1>10. v[0] = NeonPair(lo[0], lo[1]) /\ v[8] = NeonPair(hi[0], hi[1])
  <2>1. 0 \in 0 .. 7 /\ 0 + 8 = 8 /\ 2 * 0 = 0 /\ 2 * 0 + 1 = 1
    OBVIOUS
  <2> QED
    BY <1>1, <2>1
<1>11. v[1] = NeonPair(lo[2], lo[3]) /\ v[9] = NeonPair(hi[2], hi[3])
  <2>1. 1 \in 0 .. 7 /\ 1 + 8 = 9 /\ 2 * 1 = 2 /\ 2 * 1 + 1 = 3
    OBVIOUS
  <2> QED
    BY <1>1, <2>1
<1>12. v[2] = NeonPair(lo[4], lo[5]) /\ v[10] = NeonPair(hi[4], hi[5])
  <2>1. 2 \in 0 .. 7 /\ 2 + 8 = 10 /\ 2 * 2 = 4 /\ 2 * 2 + 1 = 5
    OBVIOUS
  <2> QED
    BY <1>1, <2>1
<1>13. v[3] = NeonPair(lo[6], lo[7]) /\ v[11] = NeonPair(hi[6], hi[7])
  <2>1. 3 \in 0 .. 7 /\ 3 + 8 = 11 /\ 2 * 3 = 6 /\ 2 * 3 + 1 = 7
    OBVIOUS
  <2> QED
    BY <1>1, <2>1
<1>14. v[4] = NeonPair(lo[8], lo[9]) /\ v[12] = NeonPair(hi[8], hi[9])
  <2>1. 4 \in 0 .. 7 /\ 4 + 8 = 12 /\ 2 * 4 = 8 /\ 2 * 4 + 1 = 9
    OBVIOUS
  <2> QED
    BY <1>1, <2>1
<1>15. v[5] = NeonPair(lo[10], lo[11]) /\ v[13] = NeonPair(hi[10], hi[11])
  <2>1. 5 \in 0 .. 7 /\ 5 + 8 = 13 /\ 2 * 5 = 10 /\ 2 * 5 + 1 = 11
    OBVIOUS
  <2> QED
    BY <1>1, <2>1
<1>16. v[6] = NeonPair(lo[12], lo[13]) /\ v[14] = NeonPair(hi[12], hi[13])
  <2>1. 6 \in 0 .. 7 /\ 6 + 8 = 14 /\ 2 * 6 = 12 /\ 2 * 6 + 1 = 13
    OBVIOUS
  <2> QED
    BY <1>1, <2>1
<1>17. v[7] = NeonPair(lo[14], lo[15]) /\ v[15] = NeonPair(hi[14], hi[15])
  <2>1. 7 \in 0 .. 7 /\ 7 + 8 = 15 /\ 2 * 7 = 14 /\ 2 * 7 + 1 = 15
    OBVIOUS
  <2> QED
    BY <1>1, <2>1
<1> QED
  BY <1>10, <1>11, <1>12, <1>13, <1>14, <1>15, <1>16, <1>17

LEMMA NeonLanes ==
    ASSUME NEW h
    PROVE  /\ LET v == NeonWeights(h[0]) IN NeonPair(NeonHalf(h)[0], NeonHalf(h)[1]) =
                NeonSum(v[0], v[1], v[2], v[3], v[4], v[5], v[6], v[7])
           /\ LET v == NeonWeights(h[0]) IN NeonPair(NeonHalf(h)[2], NeonHalf(h)[3]) =
                NeonSum(v[8], v[9], v[10], v[11], v[12], v[13], v[14], v[15])
           /\ LET v == NeonWeights(h[1]) IN NeonPair(NeonHalf(h)[4], NeonHalf(h)[5]) =
                NeonSum(v[0], v[1], v[2], v[3], v[4], v[5], v[6], v[7])
           /\ LET v == NeonWeights(h[1]) IN NeonPair(NeonHalf(h)[6], NeonHalf(h)[7]) =
                NeonSum(v[8], v[9], v[10], v[11], v[12], v[13], v[14], v[15])
           /\ LET v == NeonWeights(h[2]) IN NeonPair(NeonHalf(h)[8], NeonHalf(h)[9]) =
                NeonSum(v[0], v[1], v[2], v[3], v[4], v[5], v[6], v[7])
           /\ LET v == NeonWeights(h[2]) IN NeonPair(NeonHalf(h)[10], NeonHalf(h)[11]) =
                NeonSum(v[8], v[9], v[10], v[11], v[12], v[13], v[14], v[15])
           /\ LET v == NeonWeights(h[3]) IN NeonPair(NeonHalf(h)[12], NeonHalf(h)[13]) =
                NeonSum(v[0], v[1], v[2], v[3], v[4], v[5], v[6], v[7])
           /\ LET v == NeonWeights(h[3]) IN NeonPair(NeonHalf(h)[14], NeonHalf(h)[15]) =
                NeonSum(v[8], v[9], v[10], v[11], v[12], v[13], v[14], v[15])
<1> DEFINE v0 == NeonWeights(h[0])
           v1 == NeonWeights(h[1])
           v2 == NeonWeights(h[2])
           v3 == NeonWeights(h[3])
           lo == Neon!vpadd(16, v0, v1)
           hi == Neon!vpadd(16, v2, v3)
           half == NeonHalf(h)
<1>1. half = Neon!vpadd(16, lo, hi)
  BY DEF NeonHalf
<1> HIDE DEF half
<1>2. /\ half[0] = NeonPair(lo[0], lo[1]) /\ half[8] = NeonPair(hi[0], hi[1])
      /\ half[1] = NeonPair(lo[2], lo[3]) /\ half[9] = NeonPair(hi[2], hi[3])
      /\ half[2] = NeonPair(lo[4], lo[5]) /\ half[10] = NeonPair(hi[4], hi[5])
      /\ half[3] = NeonPair(lo[6], lo[7]) /\ half[11] = NeonPair(hi[6], hi[7])
      /\ half[4] = NeonPair(lo[8], lo[9]) /\ half[12] = NeonPair(hi[8], hi[9])
      /\ half[5] = NeonPair(lo[10], lo[11]) /\ half[13] = NeonPair(hi[10], hi[11])
      /\ half[6] = NeonPair(lo[12], lo[13]) /\ half[14] = NeonPair(hi[12], hi[13])
      /\ half[7] = NeonPair(lo[14], lo[15]) /\ half[15] = NeonPair(hi[14], hi[15])
  BY <1>1, NeonPadded
<1>3. /\ lo[0] = NeonPair(v0[0], v0[1]) /\ lo[8] = NeonPair(v1[0], v1[1])
      /\ lo[1] = NeonPair(v0[2], v0[3]) /\ lo[9] = NeonPair(v1[2], v1[3])
      /\ lo[2] = NeonPair(v0[4], v0[5]) /\ lo[10] = NeonPair(v1[4], v1[5])
      /\ lo[3] = NeonPair(v0[6], v0[7]) /\ lo[11] = NeonPair(v1[6], v1[7])
      /\ lo[4] = NeonPair(v0[8], v0[9]) /\ lo[12] = NeonPair(v1[8], v1[9])
      /\ lo[5] = NeonPair(v0[10], v0[11]) /\ lo[13] = NeonPair(v1[10], v1[11])
      /\ lo[6] = NeonPair(v0[12], v0[13]) /\ lo[14] = NeonPair(v1[12], v1[13])
      /\ lo[7] = NeonPair(v0[14], v0[15]) /\ lo[15] = NeonPair(v1[14], v1[15])
  BY NeonPadded
<1>4. /\ hi[0] = NeonPair(v2[0], v2[1]) /\ hi[8] = NeonPair(v3[0], v3[1])
      /\ hi[1] = NeonPair(v2[2], v2[3]) /\ hi[9] = NeonPair(v3[2], v3[3])
      /\ hi[2] = NeonPair(v2[4], v2[5]) /\ hi[10] = NeonPair(v3[4], v3[5])
      /\ hi[3] = NeonPair(v2[6], v2[7]) /\ hi[11] = NeonPair(v3[6], v3[7])
      /\ hi[4] = NeonPair(v2[8], v2[9]) /\ hi[12] = NeonPair(v3[8], v3[9])
      /\ hi[5] = NeonPair(v2[10], v2[11]) /\ hi[13] = NeonPair(v3[10], v3[11])
      /\ hi[6] = NeonPair(v2[12], v2[13]) /\ hi[14] = NeonPair(v3[12], v3[13])
      /\ hi[7] = NeonPair(v2[14], v2[15]) /\ hi[15] = NeonPair(v3[14], v3[15])
  BY NeonPadded
<1> HIDE DEF lo, hi, v0, v1, v2, v3
<1>5. NeonPair(half[0], half[1]) = NeonSum(v0[0], v0[1], v0[2], v0[3], v0[4], v0[5], v0[6], v0[7])
  BY <1>2, <1>3, <1>4 DEF NeonSum
<1>6. NeonPair(half[2], half[3]) = NeonSum(v0[8], v0[9], v0[10], v0[11], v0[12], v0[13], v0[14], v0[15])
  BY <1>2, <1>3, <1>4 DEF NeonSum
<1>7. NeonPair(half[4], half[5]) = NeonSum(v1[0], v1[1], v1[2], v1[3], v1[4], v1[5], v1[6], v1[7])
  BY <1>2, <1>3, <1>4 DEF NeonSum
<1>8. NeonPair(half[6], half[7]) = NeonSum(v1[8], v1[9], v1[10], v1[11], v1[12], v1[13], v1[14], v1[15])
  BY <1>2, <1>3, <1>4 DEF NeonSum
<1>9. NeonPair(half[8], half[9]) = NeonSum(v2[0], v2[1], v2[2], v2[3], v2[4], v2[5], v2[6], v2[7])
  BY <1>2, <1>3, <1>4 DEF NeonSum
<1>10. NeonPair(half[10], half[11]) = NeonSum(v2[8], v2[9], v2[10], v2[11], v2[12], v2[13], v2[14], v2[15])
  BY <1>2, <1>3, <1>4 DEF NeonSum
<1>11. NeonPair(half[12], half[13]) = NeonSum(v3[0], v3[1], v3[2], v3[3], v3[4], v3[5], v3[6], v3[7])
  BY <1>2, <1>3, <1>4 DEF NeonSum
<1>12. NeonPair(half[14], half[15]) = NeonSum(v3[8], v3[9], v3[10], v3[11], v3[12], v3[13], v3[14], v3[15])
  BY <1>2, <1>3, <1>4 DEF NeonSum
<1> QED
  BY <1>5, <1>6, <1>7, <1>8, <1>9, <1>10, <1>11, <1>12 DEF half, v0, v1, v2, v3

\* Every bit of the sum is the one of its lane.
LEMMA NeonSumBits ==
    ASSUME NEW x, \A i \in 0 .. 7 : x[i] \in 0 .. 1, NEW s,
           s = NeonSum(x[0], 2 * x[1], 4 * x[2], 8 * x[3], 16 * x[4], 32 * x[5], 64 * x[6], 128 * x[7])
    PROVE  /\ s % 2 = x[0] /\ (s \div 2) % 2 = x[1] /\ (s \div 4) % 2 = x[2] /\ (s \div 8) % 2 = x[3]
           /\ (s \div 16) % 2 = x[4] /\ (s \div 32) % 2 = x[5]
           /\ (s \div 64) % 2 = x[6] /\ (s \div 128) % 2 = x[7]
           /\ s \in Nat
<1> DEFINE y0 == x[0]
           y1 == x[1]
           y2 == x[2]
           y3 == x[3]
           y4 == x[4]
           y5 == x[5]
           y6 == x[6]
           y7 == x[7]
<1>0. /\ y0 \in 0 .. 1 /\ y1 \in 0 .. 1 /\ y2 \in 0 .. 1 /\ y3 \in 0 .. 1
      /\ y4 \in 0 .. 1 /\ y5 \in 0 .. 1 /\ y6 \in 0 .. 1 /\ y7 \in 0 .. 1
  OBVIOUS
<1>9. s = NeonSum(y0, 2 * y1, 4 * y2, 8 * y3, 16 * y4, 32 * y5, 64 * y6, 128 * y7)
  OBVIOUS
<1> HIDE DEF y0, y1, y2, y3, y4, y5, y6, y7
<1>1. \A p, q \in Nat : p + q < 256 => NeonPair(p, q) = p + q
  BY DEF NeonPair
<1> DEFINE a == y0 + 2 * y1
           b == 4 * y2 + 8 * y3
           c == 16 * y4 + 32 * y5
           d == 64 * y6 + 128 * y7
<1>2. /\ NeonPair(y0, 2 * y1) = a /\ NeonPair(4 * y2, 8 * y3) = b
      /\ NeonPair(16 * y4, 32 * y5) = c /\ NeonPair(64 * y6, 128 * y7) = d
  BY <1>0 DEF NeonPair
<1>3. a \in Nat /\ b \in Nat /\ c \in Nat /\ d \in Nat /\ a < 4 /\ b < 13 /\ c < 49 /\ d < 193
  BY <1>0
<1> HIDE DEF a, b, c, d
<1>4. NeonPair(a, b) = a + b /\ NeonPair(c, d) = c + d
  <2>1. a + b < 256 /\ c + d < 256
    BY <1>3
  <2> QED
    BY <1>1, <1>3, <2>1
<1>5. NeonPair(a + b, c + d) = (a + b) + (c + d)
  <2>1. a + b \in Nat /\ c + d \in Nat /\ (a + b) + (c + d) < 256
    BY <1>3 DEF a, b, c, d
  <2> QED
    BY <1>1, <2>1
<1>6. s = (a + b) + (c + d)
  BY <1>9, <1>2, <1>4, <1>5 DEF NeonSum
<1>7. s = y0 + 2 * y1 + 4 * y2 + 8 * y3 + 16 * y4 + 32 * y5 + 64 * y6 + 128 * y7
  BY <1>0, <1>6 DEF a, b, c, d
<1>8. /\ s % 2 = y0 /\ (s \div 2) % 2 = y1 /\ (s \div 4) % 2 = y2 /\ (s \div 8) % 2 = y3
      /\ (s \div 16) % 2 = y4 /\ (s \div 32) % 2 = y5 /\ (s \div 64) % 2 = y6 /\ (s \div 128) % 2 = y7
      /\ s \in Nat
  BY <1>0, <1>7
<1> QED
  BY <1>8 DEF y0, y1, y2, y3, y4, y5, y6, y7
LEMMA NeonWeight ==
    ASSUME NEW v, NEW j \in 0 .. 15
    PROVE  /\ j % 8 = 0 => NeonWeights(v)[j] = (IF v[j] THEN 1 ELSE 0)
           /\ j % 8 = 1 => NeonWeights(v)[j] = 2 * (IF v[j] THEN 1 ELSE 0)
           /\ j % 8 = 2 => NeonWeights(v)[j] = 4 * (IF v[j] THEN 1 ELSE 0)
           /\ j % 8 = 3 => NeonWeights(v)[j] = 8 * (IF v[j] THEN 1 ELSE 0)
           /\ j % 8 = 4 => NeonWeights(v)[j] = 16 * (IF v[j] THEN 1 ELSE 0)
           /\ j % 8 = 5 => NeonWeights(v)[j] = 32 * (IF v[j] THEN 1 ELSE 0)
           /\ j % 8 = 6 => NeonWeights(v)[j] = 64 * (IF v[j] THEN 1 ELSE 0)
           /\ j % 8 = 7 => NeonWeights(v)[j] = 128 * (IF v[j] THEN 1 ELSE 0)
<1> DEFINE x == IF v[j] THEN 1 ELSE 0
           e == j % 8
<1> DEFINE y == 2 ^ e
<1>1. NeonWeights(v)[j] = IF v[j] THEN y ELSE 0
  BY DEF NeonWeights
<1>2. /\ 2 ^ 0 = 1 /\ 2 ^ 1 = 2 /\ 2 ^ 2 = 4 /\ 2 ^ 3 = 8
      /\ 2 ^ 4 = 16 /\ 2 ^ 5 = 32 /\ 2 ^ 6 = 64 /\ 2 ^ 7 = 128
  BY SMT
<1> HIDE DEF e
<1>10. e = 0 => y = 1
  <2>1. e = 0 => y = 2 ^ 0
    BY Zenon
  <2> QED
    BY ONLY <1>2, <2>1
<1>11. e = 1 => y = 2
  <2>1. e = 1 => y = 2 ^ 1
    BY Zenon
  <2> QED
    BY ONLY <1>2, <2>1
<1>12. e = 2 => y = 4
  <2>1. e = 2 => y = 2 ^ 2
    BY Zenon
  <2> QED
    BY ONLY <1>2, <2>1
<1>13. e = 3 => y = 8
  <2>1. e = 3 => y = 2 ^ 3
    BY Zenon
  <2> QED
    BY ONLY <1>2, <2>1
<1>14. e = 4 => y = 16
  <2>1. e = 4 => y = 2 ^ 4
    BY Zenon
  <2> QED
    BY ONLY <1>2, <2>1
<1>15. e = 5 => y = 32
  <2>1. e = 5 => y = 2 ^ 5
    BY Zenon
  <2> QED
    BY ONLY <1>2, <2>1
<1>16. e = 6 => y = 64
  <2>1. e = 6 => y = 2 ^ 6
    BY Zenon
  <2> QED
    BY ONLY <1>2, <2>1
<1>17. e = 7 => y = 128
  <2>1. e = 7 => y = 2 ^ 7
    BY Zenon
  <2> QED
    BY ONLY <1>2, <2>1
<1> HIDE DEF y
<1>4. /\ e = 0 => NeonWeights(v)[j] = x
      /\ e = 1 => NeonWeights(v)[j] = 2 * x
      /\ e = 2 => NeonWeights(v)[j] = 4 * x
      /\ e = 3 => NeonWeights(v)[j] = 8 * x
      /\ e = 4 => NeonWeights(v)[j] = 16 * x
      /\ e = 5 => NeonWeights(v)[j] = 32 * x
      /\ e = 6 => NeonWeights(v)[j] = 64 * x
      /\ e = 7 => NeonWeights(v)[j] = 128 * x
  BY <1>1, <1>10, <1>11, <1>12, <1>13, <1>14, <1>15, <1>16, <1>17
<1> QED
  BY <1>4 DEF x, e
LEMMA NeonSumTells ==
    ASSUME NEW v, NEW e \in {0, 8}, NEW j \in 0 .. 7, NEW s,
           s = NeonSum(NeonWeights(v)[e], NeonWeights(v)[e + 1], NeonWeights(v)[e + 2], NeonWeights(v)[e + 3],
                       NeonWeights(v)[e + 4], NeonWeights(v)[e + 5], NeonWeights(v)[e + 6], NeonWeights(v)[e + 7])
    PROVE  (s \div 2 ^ j) % 2 = 1 <=> v[e + j]
<1> DEFINE x == [i \in 0 .. 7 |-> IF v[e + i] THEN 1 ELSE 0]
<1>10. /\ x[0] \in 0 .. 1 /\ (x[0] = 1 <=> v[e + 0])
      /\ NeonWeights(v)[e + 0] = 1 * x[0]
  <2>1. e + 0 \in 0 .. 15 /\ (e + 0) % 8 = 0
    OBVIOUS
  <2> QED
    BY <2>1, NeonWeight
<1>11. /\ x[1] \in 0 .. 1 /\ (x[1] = 1 <=> v[e + 1])
      /\ NeonWeights(v)[e + 1] = 2 * x[1]
  <2>1. e + 1 \in 0 .. 15 /\ (e + 1) % 8 = 1
    OBVIOUS
  <2> QED
    BY <2>1, NeonWeight
<1>12. /\ x[2] \in 0 .. 1 /\ (x[2] = 1 <=> v[e + 2])
      /\ NeonWeights(v)[e + 2] = 4 * x[2]
  <2>1. e + 2 \in 0 .. 15 /\ (e + 2) % 8 = 2
    OBVIOUS
  <2> QED
    BY <2>1, NeonWeight
<1>13. /\ x[3] \in 0 .. 1 /\ (x[3] = 1 <=> v[e + 3])
      /\ NeonWeights(v)[e + 3] = 8 * x[3]
  <2>1. e + 3 \in 0 .. 15 /\ (e + 3) % 8 = 3
    OBVIOUS
  <2> QED
    BY <2>1, NeonWeight
<1>14. /\ x[4] \in 0 .. 1 /\ (x[4] = 1 <=> v[e + 4])
      /\ NeonWeights(v)[e + 4] = 16 * x[4]
  <2>1. e + 4 \in 0 .. 15 /\ (e + 4) % 8 = 4
    OBVIOUS
  <2> QED
    BY <2>1, NeonWeight
<1>15. /\ x[5] \in 0 .. 1 /\ (x[5] = 1 <=> v[e + 5])
      /\ NeonWeights(v)[e + 5] = 32 * x[5]
  <2>1. e + 5 \in 0 .. 15 /\ (e + 5) % 8 = 5
    OBVIOUS
  <2> QED
    BY <2>1, NeonWeight
<1>16. /\ x[6] \in 0 .. 1 /\ (x[6] = 1 <=> v[e + 6])
      /\ NeonWeights(v)[e + 6] = 64 * x[6]
  <2>1. e + 6 \in 0 .. 15 /\ (e + 6) % 8 = 6
    OBVIOUS
  <2> QED
    BY <2>1, NeonWeight
<1>17. /\ x[7] \in 0 .. 1 /\ (x[7] = 1 <=> v[e + 7])
      /\ NeonWeights(v)[e + 7] = 128 * x[7]
  <2>1. e + 7 \in 0 .. 15 /\ (e + 7) % 8 = 7
    OBVIOUS
  <2> QED
    BY <2>1, NeonWeight
<1>2. e + 0 = e
  OBVIOUS
<1> HIDE DEF x
<1>3. s = NeonSum(x[0], 2 * x[1], 4 * x[2], 8 * x[3], 16 * x[4], 32 * x[5], 64 * x[6], 128 * x[7])
  <2>1. 1 * x[0] = x[0]
    BY <1>10
  <2> QED
    BY <2>1, <1>2, <1>10, <1>11, <1>12, <1>13, <1>14, <1>15, <1>16, <1>17
<1>4. \A i \in 0 .. 7 : x[i] \in 0 .. 1
  BY DEF x
<1>5. /\ s % 2 = x[0] /\ (s \div 2) % 2 = x[1] /\ (s \div 4) % 2 = x[2] /\ (s \div 8) % 2 = x[3]
      /\ (s \div 16) % 2 = x[4] /\ (s \div 32) % 2 = x[5] /\ (s \div 64) % 2 = x[6] /\ (s \div 128) % 2 = x[7]
      /\ s \in Nat
  BY Zenon, <1>3, <1>4, NeonSumBits
<1>6. /\ 2 ^ 0 = 1 /\ 2 ^ 1 = 2 /\ 2 ^ 2 = 4 /\ 2 ^ 3 = 8
      /\ 2 ^ 4 = 16 /\ 2 ^ 5 = 32 /\ 2 ^ 6 = 64 /\ 2 ^ 7 = 128
  BY SMT
<1>7. s \div 1 = s
  BY <1>5
<1> DEFINE y == 2 ^ j
<1>20. ASSUME j = 0 PROVE (s \div 2 ^ j) % 2 = 1 <=> v[e + j]
  <2>1. y = 2 ^ 0
    BY Zenon, <1>20
  <2> HIDE DEF y
  <2>2. y = 1
    BY ONLY <1>6, <2>1
  <2>3. (s \div y) % 2 = 1 <=> v[e + j]
    BY <1>10, <1>5, <1>7, <1>20, <2>2
  <2> QED
    BY <2>3 DEF y
<1>21. ASSUME j = 1 PROVE (s \div 2 ^ j) % 2 = 1 <=> v[e + j]
  <2>1. y = 2 ^ 1
    BY Zenon, <1>21
  <2> HIDE DEF y
  <2>2. y = 2
    BY ONLY <1>6, <2>1
  <2>3. (s \div y) % 2 = 1 <=> v[e + j]
    BY <1>11, <1>5, <1>7, <1>21, <2>2
  <2> QED
    BY <2>3 DEF y
<1>22. ASSUME j = 2 PROVE (s \div 2 ^ j) % 2 = 1 <=> v[e + j]
  <2>1. y = 2 ^ 2
    BY Zenon, <1>22
  <2> HIDE DEF y
  <2>2. y = 4
    BY ONLY <1>6, <2>1
  <2>3. (s \div y) % 2 = 1 <=> v[e + j]
    BY <1>12, <1>5, <1>7, <1>22, <2>2
  <2> QED
    BY <2>3 DEF y
<1>23. ASSUME j = 3 PROVE (s \div 2 ^ j) % 2 = 1 <=> v[e + j]
  <2>1. y = 2 ^ 3
    BY Zenon, <1>23
  <2> HIDE DEF y
  <2>2. y = 8
    BY ONLY <1>6, <2>1
  <2>3. (s \div y) % 2 = 1 <=> v[e + j]
    BY <1>13, <1>5, <1>7, <1>23, <2>2
  <2> QED
    BY <2>3 DEF y
<1>24. ASSUME j = 4 PROVE (s \div 2 ^ j) % 2 = 1 <=> v[e + j]
  <2>1. y = 2 ^ 4
    BY Zenon, <1>24
  <2> HIDE DEF y
  <2>2. y = 16
    BY ONLY <1>6, <2>1
  <2>3. (s \div y) % 2 = 1 <=> v[e + j]
    BY <1>14, <1>5, <1>7, <1>24, <2>2
  <2> QED
    BY <2>3 DEF y
<1>25. ASSUME j = 5 PROVE (s \div 2 ^ j) % 2 = 1 <=> v[e + j]
  <2>1. y = 2 ^ 5
    BY Zenon, <1>25
  <2> HIDE DEF y
  <2>2. y = 32
    BY ONLY <1>6, <2>1
  <2>3. (s \div y) % 2 = 1 <=> v[e + j]
    BY <1>15, <1>5, <1>7, <1>25, <2>2
  <2> QED
    BY <2>3 DEF y
<1>26. ASSUME j = 6 PROVE (s \div 2 ^ j) % 2 = 1 <=> v[e + j]
  <2>1. y = 2 ^ 6
    BY Zenon, <1>26
  <2> HIDE DEF y
  <2>2. y = 64
    BY ONLY <1>6, <2>1
  <2>3. (s \div y) % 2 = 1 <=> v[e + j]
    BY <1>16, <1>5, <1>7, <1>26, <2>2
  <2> QED
    BY <2>3 DEF y
<1>27. ASSUME j = 7 PROVE (s \div 2 ^ j) % 2 = 1 <=> v[e + j]
  <2>1. y = 2 ^ 7
    BY Zenon, <1>27
  <2> HIDE DEF y
  <2>2. y = 128
    BY ONLY <1>6, <2>1
  <2>3. (s \div y) % 2 = 1 <=> v[e + j]
    BY <1>17, <1>5, <1>7, <1>27, <2>2
  <2> QED
    BY <2>3 DEF y
<1>8. j = 0 \/ j = 1 \/ j = 2 \/ j = 3 \/ j = 4 \/ j = 5 \/ j = 6 \/ j = 7
  OBVIOUS
<1> QED
  BY <1>8, <1>20, <1>21, <1>22, <1>23, <1>24, <1>25, <1>26, <1>27

LEMMA NeonByteTells ==
    ASSUME NEW h, NEW m \in 0 .. 7, NEW j \in 0 .. 7
    PROVE  (NeonPair(NeonHalf(h)[2 * m], NeonHalf(h)[2 * m + 1]) \div 2 ^ j) % 2 = 1
                <=> h[m \div 2][8 * (m % 2) + j]
<1> DEFINE byte(n) == NeonPair(NeonHalf(h)[2 * n], NeonHalf(h)[2 * n + 1])
           Says(n) == (byte(n) \div 2 ^ j) % 2 = 1 <=> h[n \div 2][8 * (n % 2) + j]
<1>10. Says(0)
  <2> DEFINE v == NeonWeights(h[0])
             s == NeonPair(NeonHalf(h)[0], NeonHalf(h)[1])
  <2>1. s = NeonSum(v[0], v[1], v[2], v[3], v[4], v[5], v[6], v[7])
    BY NeonLanes
  <2> HIDE DEF s, v
  <2> DEFINE e == 0
  <2>8. e \in {0, 8}
    OBVIOUS
  <2>3. e + 1 = 1 /\ e + 2 = 2 /\ e + 3 = 3 /\ e + 4 = 4 /\ e + 5 = 5 /\ e + 6 = 6 /\ e + 7 = 7
    OBVIOUS
  <2>4. e = 0
    OBVIOUS
  <2> HIDE DEF e
  <2>5. s = NeonSum(v[e], v[e + 1], v[e + 2], v[e + 3], v[e + 4], v[e + 5], v[e + 6], v[e + 7])
    BY Zenon, <2>1, <2>3, <2>4
  <2>6. (s \div 2 ^ j) % 2 = 1 <=> h[0][e + j]
    BY Zenon, <2>8, <2>5, NeonSumTells DEF v
  <2>7. 2 * 0 = 0 /\ 2 * 0 + 1 = 1 /\ 0 \div 2 = 0 /\ 8 * (0 % 2) = 0
    OBVIOUS
  <2> QED
    BY Zenon, <2>4, <2>6, <2>7 DEF s
<1>11. Says(1)
  <2> DEFINE v == NeonWeights(h[0])
             s == NeonPair(NeonHalf(h)[2], NeonHalf(h)[3])
  <2>1. s = NeonSum(v[8], v[9], v[10], v[11], v[12], v[13], v[14], v[15])
    BY NeonLanes
  <2> HIDE DEF s, v
  <2> DEFINE e == 8
  <2>8. e \in {0, 8}
    OBVIOUS
  <2>3. e + 1 = 9 /\ e + 2 = 10 /\ e + 3 = 11 /\ e + 4 = 12 /\ e + 5 = 13 /\ e + 6 = 14 /\ e + 7 = 15
    OBVIOUS
  <2>4. e = 8
    OBVIOUS
  <2> HIDE DEF e
  <2>5. s = NeonSum(v[e], v[e + 1], v[e + 2], v[e + 3], v[e + 4], v[e + 5], v[e + 6], v[e + 7])
    BY Zenon, <2>1, <2>3, <2>4
  <2>6. (s \div 2 ^ j) % 2 = 1 <=> h[0][e + j]
    BY Zenon, <2>8, <2>5, NeonSumTells DEF v
  <2>7. 2 * 1 = 2 /\ 2 * 1 + 1 = 3 /\ 1 \div 2 = 0 /\ 8 * (1 % 2) = 8
    OBVIOUS
  <2> QED
    BY Zenon, <2>4, <2>6, <2>7 DEF s
<1>12. Says(2)
  <2> DEFINE v == NeonWeights(h[1])
             s == NeonPair(NeonHalf(h)[4], NeonHalf(h)[5])
  <2>1. s = NeonSum(v[0], v[1], v[2], v[3], v[4], v[5], v[6], v[7])
    BY NeonLanes
  <2> HIDE DEF s, v
  <2> DEFINE e == 0
  <2>8. e \in {0, 8}
    OBVIOUS
  <2>3. e + 1 = 1 /\ e + 2 = 2 /\ e + 3 = 3 /\ e + 4 = 4 /\ e + 5 = 5 /\ e + 6 = 6 /\ e + 7 = 7
    OBVIOUS
  <2>4. e = 0
    OBVIOUS
  <2> HIDE DEF e
  <2>5. s = NeonSum(v[e], v[e + 1], v[e + 2], v[e + 3], v[e + 4], v[e + 5], v[e + 6], v[e + 7])
    BY Zenon, <2>1, <2>3, <2>4
  <2>6. (s \div 2 ^ j) % 2 = 1 <=> h[1][e + j]
    BY Zenon, <2>8, <2>5, NeonSumTells DEF v
  <2>7. 2 * 2 = 4 /\ 2 * 2 + 1 = 5 /\ 2 \div 2 = 1 /\ 8 * (2 % 2) = 0
    OBVIOUS
  <2> QED
    BY Zenon, <2>4, <2>6, <2>7 DEF s
<1>13. Says(3)
  <2> DEFINE v == NeonWeights(h[1])
             s == NeonPair(NeonHalf(h)[6], NeonHalf(h)[7])
  <2>1. s = NeonSum(v[8], v[9], v[10], v[11], v[12], v[13], v[14], v[15])
    BY NeonLanes
  <2> HIDE DEF s, v
  <2> DEFINE e == 8
  <2>8. e \in {0, 8}
    OBVIOUS
  <2>3. e + 1 = 9 /\ e + 2 = 10 /\ e + 3 = 11 /\ e + 4 = 12 /\ e + 5 = 13 /\ e + 6 = 14 /\ e + 7 = 15
    OBVIOUS
  <2>4. e = 8
    OBVIOUS
  <2> HIDE DEF e
  <2>5. s = NeonSum(v[e], v[e + 1], v[e + 2], v[e + 3], v[e + 4], v[e + 5], v[e + 6], v[e + 7])
    BY Zenon, <2>1, <2>3, <2>4
  <2>6. (s \div 2 ^ j) % 2 = 1 <=> h[1][e + j]
    BY Zenon, <2>8, <2>5, NeonSumTells DEF v
  <2>7. 2 * 3 = 6 /\ 2 * 3 + 1 = 7 /\ 3 \div 2 = 1 /\ 8 * (3 % 2) = 8
    OBVIOUS
  <2> QED
    BY Zenon, <2>4, <2>6, <2>7 DEF s
<1>14. Says(4)
  <2> DEFINE v == NeonWeights(h[2])
             s == NeonPair(NeonHalf(h)[8], NeonHalf(h)[9])
  <2>1. s = NeonSum(v[0], v[1], v[2], v[3], v[4], v[5], v[6], v[7])
    BY NeonLanes
  <2> HIDE DEF s, v
  <2> DEFINE e == 0
  <2>8. e \in {0, 8}
    OBVIOUS
  <2>3. e + 1 = 1 /\ e + 2 = 2 /\ e + 3 = 3 /\ e + 4 = 4 /\ e + 5 = 5 /\ e + 6 = 6 /\ e + 7 = 7
    OBVIOUS
  <2>4. e = 0
    OBVIOUS
  <2> HIDE DEF e
  <2>5. s = NeonSum(v[e], v[e + 1], v[e + 2], v[e + 3], v[e + 4], v[e + 5], v[e + 6], v[e + 7])
    BY Zenon, <2>1, <2>3, <2>4
  <2>6. (s \div 2 ^ j) % 2 = 1 <=> h[2][e + j]
    BY Zenon, <2>8, <2>5, NeonSumTells DEF v
  <2>7. 2 * 4 = 8 /\ 2 * 4 + 1 = 9 /\ 4 \div 2 = 2 /\ 8 * (4 % 2) = 0
    OBVIOUS
  <2> QED
    BY Zenon, <2>4, <2>6, <2>7 DEF s
<1>15. Says(5)
  <2> DEFINE v == NeonWeights(h[2])
             s == NeonPair(NeonHalf(h)[10], NeonHalf(h)[11])
  <2>1. s = NeonSum(v[8], v[9], v[10], v[11], v[12], v[13], v[14], v[15])
    BY NeonLanes
  <2> HIDE DEF s, v
  <2> DEFINE e == 8
  <2>8. e \in {0, 8}
    OBVIOUS
  <2>3. e + 1 = 9 /\ e + 2 = 10 /\ e + 3 = 11 /\ e + 4 = 12 /\ e + 5 = 13 /\ e + 6 = 14 /\ e + 7 = 15
    OBVIOUS
  <2>4. e = 8
    OBVIOUS
  <2> HIDE DEF e
  <2>5. s = NeonSum(v[e], v[e + 1], v[e + 2], v[e + 3], v[e + 4], v[e + 5], v[e + 6], v[e + 7])
    BY Zenon, <2>1, <2>3, <2>4
  <2>6. (s \div 2 ^ j) % 2 = 1 <=> h[2][e + j]
    BY Zenon, <2>8, <2>5, NeonSumTells DEF v
  <2>7. 2 * 5 = 10 /\ 2 * 5 + 1 = 11 /\ 5 \div 2 = 2 /\ 8 * (5 % 2) = 8
    OBVIOUS
  <2> QED
    BY Zenon, <2>4, <2>6, <2>7 DEF s
<1>16. Says(6)
  <2> DEFINE v == NeonWeights(h[3])
             s == NeonPair(NeonHalf(h)[12], NeonHalf(h)[13])
  <2>1. s = NeonSum(v[0], v[1], v[2], v[3], v[4], v[5], v[6], v[7])
    BY NeonLanes
  <2> HIDE DEF s, v
  <2> DEFINE e == 0
  <2>8. e \in {0, 8}
    OBVIOUS
  <2>3. e + 1 = 1 /\ e + 2 = 2 /\ e + 3 = 3 /\ e + 4 = 4 /\ e + 5 = 5 /\ e + 6 = 6 /\ e + 7 = 7
    OBVIOUS
  <2>4. e = 0
    OBVIOUS
  <2> HIDE DEF e
  <2>5. s = NeonSum(v[e], v[e + 1], v[e + 2], v[e + 3], v[e + 4], v[e + 5], v[e + 6], v[e + 7])
    BY Zenon, <2>1, <2>3, <2>4
  <2>6. (s \div 2 ^ j) % 2 = 1 <=> h[3][e + j]
    BY Zenon, <2>8, <2>5, NeonSumTells DEF v
  <2>7. 2 * 6 = 12 /\ 2 * 6 + 1 = 13 /\ 6 \div 2 = 3 /\ 8 * (6 % 2) = 0
    OBVIOUS
  <2> QED
    BY Zenon, <2>4, <2>6, <2>7 DEF s
<1>17. Says(7)
  <2> DEFINE v == NeonWeights(h[3])
             s == NeonPair(NeonHalf(h)[14], NeonHalf(h)[15])
  <2>1. s = NeonSum(v[8], v[9], v[10], v[11], v[12], v[13], v[14], v[15])
    BY NeonLanes
  <2> HIDE DEF s, v
  <2> DEFINE e == 8
  <2>8. e \in {0, 8}
    OBVIOUS
  <2>3. e + 1 = 9 /\ e + 2 = 10 /\ e + 3 = 11 /\ e + 4 = 12 /\ e + 5 = 13 /\ e + 6 = 14 /\ e + 7 = 15
    OBVIOUS
  <2>4. e = 8
    OBVIOUS
  <2> HIDE DEF e
  <2>5. s = NeonSum(v[e], v[e + 1], v[e + 2], v[e + 3], v[e + 4], v[e + 5], v[e + 6], v[e + 7])
    BY Zenon, <2>1, <2>3, <2>4
  <2>6. (s \div 2 ^ j) % 2 = 1 <=> h[3][e + j]
    BY Zenon, <2>8, <2>5, NeonSumTells DEF v
  <2>7. 2 * 7 = 14 /\ 2 * 7 + 1 = 15 /\ 7 \div 2 = 3 /\ 8 * (7 % 2) = 8
    OBVIOUS
  <2> QED
    BY Zenon, <2>4, <2>6, <2>7 DEF s
<1> HIDE DEF Says
<1>2. m = 0 \/ m = 1 \/ m = 2 \/ m = 3 \/ m = 4 \/ m = 5 \/ m = 6 \/ m = 7
  OBVIOUS
<1>3. Says(m)
  BY <1>2, <1>10, <1>11, <1>12, <1>13, <1>14, <1>15, <1>16, <1>17
<1> QED
  BY <1>3 DEF Says

LEMMA NeonMovemask ==
    ASSUME NEW a, NEW b
    PROVE  Neon!movemask(a, b)[0] = NeonBits(a) /\ Neon!movemask(a, b)[1] = NeonBits(b)
<1> DEFINE lanes == Neon!vpadd(16, NeonHalf(a), NeonHalf(b))
           M(w) == {lane \in 0 .. 63 : (lanes[8 * w + (lane \div 8)] \div 2 ^ (lane % 8)) % 2 = 1}
<1>1. Neon!movemask(a, b) = [w \in 0 .. 1 |-> M(w)]
  BY DEF Neon!movemask, NeonHalf, NeonWeights
<1>2. ASSUME NEW n \in 0 .. 7
      PROVE  /\ lanes[n] = NeonPair(NeonHalf(a)[2 * n], NeonHalf(a)[2 * n + 1])
             /\ lanes[n + 8] = NeonPair(NeonHalf(b)[2 * n], NeonHalf(b)[2 * n + 1])
  BY NeonPadd
<1> HIDE DEF lanes
<1>3. ASSUME NEW lane \in 0 .. 63
      PROVE  /\ (lanes[8 * 0 + (lane \div 8)] \div 2 ^ (lane % 8)) % 2 = 1 <=> a[lane \div 16][lane % 16]
             /\ (lanes[8 * 1 + (lane \div 8)] \div 2 ^ (lane % 8)) % 2 = 1 <=> b[lane \div 16][lane % 16]
  <2> DEFINE m == lane \div 8
             j == lane % 8
  <2>1. /\ m \in 0 .. 7 /\ j \in 0 .. 7
        /\ 8 * 0 + m = m /\ 8 * 1 + m = m + 8
        /\ m \div 2 = lane \div 16 /\ 8 * (m % 2) + j = lane % 16
    OBVIOUS
  <2> HIDE DEF m, j
  <2>2. /\ (lanes[m] \div 2 ^ j) % 2 = 1 <=> a[m \div 2][8 * (m % 2) + j]
        /\ (lanes[m + 8] \div 2 ^ j) % 2 = 1 <=> b[m \div 2][8 * (m % 2) + j]
    <3>1. /\ lanes[m] = NeonPair(NeonHalf(a)[2 * m], NeonHalf(a)[2 * m + 1])
          /\ lanes[m + 8] = NeonPair(NeonHalf(b)[2 * m], NeonHalf(b)[2 * m + 1])
      BY <1>2, <2>1
    <3>2. (NeonPair(NeonHalf(a)[2 * m], NeonHalf(a)[2 * m + 1]) \div 2 ^ j) % 2 = 1
                <=> a[m \div 2][8 * (m % 2) + j]
      BY Zenon, <2>1, NeonByteTells
    <3>3. (NeonPair(NeonHalf(b)[2 * m], NeonHalf(b)[2 * m + 1]) \div 2 ^ j) % 2 = 1
                <=> b[m \div 2][8 * (m % 2) + j]
      BY Zenon, <2>1, NeonByteTells
    <3> QED
      BY Zenon, <3>1, <3>2, <3>3
  <2>3. /\ (lanes[8 * 0 + m] \div 2 ^ j) % 2 = 1 <=> a[lane \div 16][lane % 16]
        /\ (lanes[8 * 1 + m] \div 2 ^ j) % 2 = 1 <=> b[lane \div 16][lane % 16]
    BY Zenon, <2>1, <2>2
  <2> QED
    BY Zenon, <2>3 DEF m, j
<1>4. M(0) = NeonBits(a) /\ M(1) = NeonBits(b)
  BY Zenon, <1>3 DEF NeonBits
<1>5. Neon!movemask(a, b)[0] = M(0) /\ Neon!movemask(a, b)[1] = M(1)
  <2>1. 0 \in 0 .. 1 /\ 1 \in 0 .. 1
    OBVIOUS
  <2> HIDE DEF M
  <2> QED
    BY <1>1, <2>1
<1> QED
  BY Zenon, <1>4, <1>5
LEMMA NeonNarrowIs ==
    ASSUME NEW v, NEW x \in 0 .. 3, NEW j \in 0 .. 15
    PROVE  Neon!narrow(v)[x][j] = v[2 * x + (j \div 8)][j % 8]
<1> DEFINE lo == Neon!HitBytes(v[2 * x])
           hi == Neon!HitBytes(v[2 * x + 1])
<1>1. Neon!narrow(v)[x][j] = IF 2 * j < 16 THEN lo[2 * j] ELSE hi[2 * j - 16]
  BY DEF Neon!narrow, Neon!vuzp1
<1>2. CASE j < 8
  <2>1. 2 * j \in 0 .. 15 /\ (2 * j) \div 2 = j /\ j \div 8 = 0 /\ j % 8 = j /\ 2 * j < 16 /\ 2 * x + 0 = 2 * x
    BY <1>2
  <2>2. lo[2 * j] = v[2 * x][(2 * j) \div 2]
    BY <2>1 DEF Neon!HitBytes
  <2> HIDE DEF lo, hi
  <2> QED
    BY <1>1, <2>1, <2>2
<1>3. CASE j >= 8
  <2>1. /\ 2 * j - 16 \in 0 .. 15 /\ (2 * j - 16) \div 2 = j - 8 /\ j \div 8 = 1 /\ j % 8 = j - 8
        /\ ~(2 * j < 16)
    BY <1>3
  <2>2. hi[2 * j - 16] = v[2 * x + 1][(2 * j - 16) \div 2]
    BY <2>1 DEF Neon!HitBytes
  <2> HIDE DEF lo, hi
  <2> QED
    BY <1>1, <2>1, <2>2
<1> QED
  BY <1>2, <1>3

NeonLanes8(v, codes, g, A) ==
    \A i \in 0 .. 7, lane \in 0 .. 7 : v[i][lane] <=> codes[64 * g + 8 * i + lane] \in A

NeonSays(hit, codes, g, A) ==
    \A x \in 0 .. 3, j \in 0 .. 15 : hit[x][j] <=> codes[64 * g + 16 * x + j] \in A

LEMMA NeonGroupIs ==
    ASSUME NEW codes \in BlockType, NEW g \in Words, NEW i \in 0 .. 7, NEW lane \in 0 .. 7
    PROVE  /\ Neon!load(codes, 64 * g)[i][lane] = codes[64 * g + 8 * i + lane]
           /\ codes[64 * g + 8 * i + lane] \in Code
<1>1. 64 * g + (8 * i + lane) \in 0 .. BlockLen - 1 /\ g \in Nat
  <2>1. 8 * i + lane \in 0 .. 63
    OBVIOUS
  <2> QED
    BY <2>1, WordsArePairs
<1>2. 64 * g + (8 * i + lane) = 64 * g + 8 * i + lane
  BY <1>1
<1> QED
  BY <1>1, <1>2 DEF BlockType, Neon!load

LEMMA NeonNarrowSays ==
    ASSUME NEW A, NEW codes, NEW g \in Words, NEW v, NeonLanes8(v, codes, g, A)
    PROVE  NeonSays(Neon!narrow(v), codes, g, A)
<1> SUFFICES ASSUME NEW x \in 0 .. 3, NEW j \in 0 .. 15
             PROVE  Neon!narrow(v)[x][j] <=> codes[64 * g + 16 * x + j] \in A
  BY DEF NeonSays
<1> DEFINE i == 2 * x + (j \div 8)
           lane == j % 8
<1>1. i \in 0 .. 7 /\ lane \in 0 .. 7 /\ g \in Nat
  <2>1. g \in Nat
    BY WordsArePairs
  <2> QED
    BY <2>1
<1>2. 64 * g + 8 * i + lane = 64 * g + 16 * x + j
  BY <1>1
<1>3. Neon!narrow(v)[x][j] = v[i][lane]
  BY NeonNarrowIs
<1> HIDE DEF i, lane
<1>4. v[i][lane] <=> codes[64 * g + 8 * i + lane] \in A
  BY <1>1 DEF NeonLanes8
<1> QED
  BY <1>2, <1>3, <1>4

LEMMA NeonWordsExact ==
    ASSUME NEW hs, NEW codes, NEW mask, DOMAIN mask = Words,
           \A g \in Words : NeonBits(hs[g]) = CoveredBits(codes)[g]
    PROVE  IsExact(Neon!words(hs, mask, skip), codes)
<1> DEFINE truth == CoveredBits(codes)
           pairs == {w \div 2 : w \in DOMAIN mask}
           empty == {p \in pairs : skip /\ ~Neon!any(hs[2 * p], hs[2 * p + 1])}
           packed == [p \in pairs \ empty |-> Neon!movemask(hs[2 * p], hs[2 * p + 1])]
           r == Neon!words(hs, mask, skip)
           both(p) == 2 * p \in Words /\ 2 * p + 1 \in Words
<1>1. /\ r.bits = [w \in DOMAIN mask |-> IF w \div 2 \in empty THEN {} ELSE packed[w \div 2][w % 2]]
      /\ r.written <=> empty # pairs
  BY DEF Neon!words
<1>2. ASSUME NEW p, both(p)
      PROVE  /\ Neon!movemask(hs[2 * p], hs[2 * p + 1])[0] = truth[2 * p]
             /\ Neon!movemask(hs[2 * p], hs[2 * p + 1])[1] = truth[2 * p + 1]
  <2>1. /\ Neon!movemask(hs[2 * p], hs[2 * p + 1])[0] = NeonBits(hs[2 * p])
        /\ Neon!movemask(hs[2 * p], hs[2 * p + 1])[1] = NeonBits(hs[2 * p + 1])
    BY NeonMovemask
  <2> QED
    BY <1>2, <2>1
<1>3. ASSUME NEW p, both(p), ~Neon!any(hs[2 * p], hs[2 * p + 1])
      PROVE  truth[2 * p] = {} /\ truth[2 * p + 1] = {}
  <2>1. \A x \in 0 .. 3, lane \in 0 .. 15 : ~hs[2 * p][x][lane] /\ ~hs[2 * p + 1][x][lane]
    BY <1>3 DEF Neon!any
  <2>2. \A lane \in 0 .. 63 : lane \div 16 \in 0 .. 3 /\ lane % 16 \in 0 .. 15
    OBVIOUS
  <2>3. NeonBits(hs[2 * p]) = {} /\ NeonBits(hs[2 * p + 1]) = {}
    BY <2>1, <2>2 DEF NeonBits
  <2> QED
    BY <1>3, <2>3
<1>4. \A w \in Words : truth[w] \subseteq 0 .. 63
  BY DEF CoveredBits
<1>5. ASSUME NEW w \in Words
      PROVE  /\ w \div 2 \in pairs /\ both(w \div 2)
             /\ w \div 2 \in empty => truth[w] = {}
             /\ w \div 2 \notin empty => packed[w \div 2][w % 2] = truth[w]
  <2>1. both(w \div 2) /\ w % 2 \in {0, 1} /\ w = 2 * (w \div 2) + (w % 2) /\ w \div 2 \in Nat
    BY WordsArePairs
  <2>2. w \div 2 \in pairs
    OBVIOUS
  <2>3. (w % 2 = 0 /\ w = 2 * (w \div 2)) \/ (w % 2 = 1 /\ w = 2 * (w \div 2) + 1)
    BY <2>1
  <2>5. CASE w \div 2 \in empty
    <3>1. ~Neon!any(hs[2 * (w \div 2)], hs[2 * (w \div 2) + 1])
      BY <2>5
    <3>2. truth[2 * (w \div 2)] = {} /\ truth[2 * (w \div 2) + 1] = {}
      BY <1>3, <2>1, <3>1
    <3> QED
      BY <2>1, <2>2, <2>3, <2>5, <3>2
  <2>6. CASE w \div 2 \notin empty
    <3>1. packed[w \div 2] = Neon!movemask(hs[2 * (w \div 2)], hs[2 * (w \div 2) + 1])
      BY <2>2, <2>6
    <3> HIDE DEF packed, empty, truth
    <3>2. /\ packed[w \div 2][0] = truth[2 * (w \div 2)]
          /\ packed[w \div 2][1] = truth[2 * (w \div 2) + 1]
      BY <1>2, <2>1, <3>1
    <3>3. packed[w \div 2][w % 2] = truth[w]
      BY <2>3, <3>2
    <3> QED
      BY <2>1, <2>2, <2>6, <3>3
  <2> QED
    BY <2>5, <2>6
<1> HIDE DEF packed, truth, r
<1>6. r.bits = [w \in Words |-> truth[w]]
  BY <1>1, <1>5
<1>7. r.bits = truth
  BY <1>6 DEF truth, CoveredBits
<1>8. r.bits \in MaskType
  BY <1>4, <1>6 DEF MaskType
<1>9. ~r.written => \A w \in Words : truth[w] = {}
  BY <1>1, <1>5
<1> QED
  BY <1>7, <1>8, <1>9 DEF IsExact, r, truth

NeonHold(rs) == [r \in DOMAIN rs |-> Neon!hold(rs[r])]

NeonHolds(held, rs) ==
    /\ DOMAIN held = DOMAIN rs
    /\ \A r \in DOMAIN rs : rs[r] \in RangeType /\ held[r] = Neon!hold(rs[r])

LEMMA NeonInsideSays ==
    ASSUME NEW codes \in BlockType, NEW g \in Words, NEW r \in RangeType
    PROVE  NeonSays(Neon!inside(Neon!hold(r), Neon!load(codes, 64 * g)), codes, g, r.begin .. r.last)
<1> DEFINE group == Neon!load(codes, 64 * g)
           held == Neon!hold(r)
           v == [i \in 0 .. 7 |-> [lane \in 0 .. 7 |->
                    Neon!WrappingSub(group[i][lane], held[1][lane]) <= held[2][lane]]]
<1>1. Neon!inside(held, group) = Neon!narrow(v)
  BY DEF Neon!inside
<1>2. ASSUME NEW i \in 0 .. 7, NEW lane \in 0 .. 7
      PROVE  v[i][lane] <=> codes[64 * g + 8 * i + lane] \in r.begin .. r.last
  <2> DEFINE c == codes[64 * g + 8 * i + lane]
             y == WrappingSub(c, r.begin)
             z == r.last - r.begin
  <2>1. c \in Code
    <3>1. 64 * g + (8 * i + lane) \in 0 .. BlockLen - 1
      <4>1. 8 * i + lane \in 0 .. 63
        OBVIOUS
      <4> QED
        BY <4>1, WordsArePairs
    <3>2. g \in Nat
      BY WordsArePairs
    <3>3. 64 * g + (8 * i + lane) = 64 * g + 8 * i + lane
      BY <3>2
    <3> QED
      BY <3>1, <3>3 DEF BlockType
  <2>2. group[i][lane] = c
    BY DEF Neon!load
  <2>3. held[1][lane] = r.begin /\ held[2][lane] = z
    BY DEF Neon!hold, Neon!set1
  <2>4. Neon!WrappingSub(c, r.begin) = y
    BY DEF Neon!WrappingSub, WrappingSub, Neon!Width, Width
  <2>5. (y <= z <=> c \in r.begin .. r.last) /\ y \in Nat /\ z \in Nat
    BY <2>1, WrappedDistance
  <2> HIDE DEF y, z, c, group, held
  <2>6. v[i][lane] <=> y <= z
    BY <2>2, <2>3, <2>4
  <2> QED
    BY <2>5, <2>6 DEF c
<1> HIDE DEF v
<1>3. NeonLanes8(v, codes, g, r.begin .. r.last)
  BY <1>2 DEF NeonLanes8
<1> QED
  BY <1>1, <1>3, NeonNarrowSays

LEMMA NeonRangesAdded ==
    ASSUME NEW codes \in BlockType, NEW g \in Words, NEW A, NEW hit, NEW held, NEW rs,
           NeonHolds(held, rs), NeonSays(hit, codes, g, A)
    PROVE  NeonSays(Neon!check_ranges(hit, held, Neon!load(codes, 64 * g)), codes, g, A \cup UnionOf(rs))
<1> DEFINE group == Neon!load(codes, 64 * g)
<1> SUFFICES ASSUME NEW x \in 0 .. 3, NEW j \in 0 .. 15
             PROVE  Neon!check_ranges(hit, held, group)[x][j]
                        <=> codes[64 * g + 16 * x + j] \in A \cup UnionOf(rs)
  BY DEF NeonSays
<1> DEFINE c == codes[64 * g + 16 * x + j]
<1>1. Neon!check_ranges(hit, held, group)[x][j]
        <=> hit[x][j] \/ \E r \in DOMAIN held : Neon!inside(held[r], group)[x][j]
  BY DEF Neon!check_ranges, Neon!or
<1>2. ASSUME NEW r \in DOMAIN rs
      PROVE  Neon!inside(held[r], group)[x][j] <=> c \in rs[r].begin .. rs[r].last
  <2>1. rs[r] \in RangeType /\ held[r] = Neon!hold(rs[r])
    BY DEF NeonHolds
  <2>2. NeonSays(Neon!inside(Neon!hold(rs[r]), group), codes, g, rs[r].begin .. rs[r].last)
    BY <2>1, NeonInsideSays
  <2> QED
    BY <2>1, <2>2 DEF NeonSays
<1>3. hit[x][j] <=> c \in A
  BY DEF NeonSays
<1> HIDE DEF group, c
<1>4. (\E r \in DOMAIN held : Neon!inside(held[r], group)[x][j]) <=> c \in UnionOf(rs)
  BY <1>2 DEF UnionOf, NeonHolds
<1> QED
  BY <1>1, <1>3, <1>4 DEF group, c

\* A matcher that is right of every group is right of the block.
LEMMA NeonGroupsTell ==
    ASSUME NEW codes, NEW hs, NEW mask, DOMAIN mask = Words,
           \A g \in Words : NeonSays(hs[g], codes, g, Covered)
    PROVE  IsExact(Neon!words(hs, mask, skip), codes)
<1>1. ASSUME NEW g \in Words
      PROVE  NeonBits(hs[g]) = CoveredBits(codes)[g]
  <2>1. ASSUME NEW lane \in 0 .. 63
        PROVE  hs[g][lane \div 16][lane % 16] <=> codes[64 * g + lane] \in Covered
    <3>1. lane \div 16 \in 0 .. 3 /\ lane % 16 \in 0 .. 15
      OBVIOUS
    <3>2. 64 * g + 16 * (lane \div 16) + (lane % 16) = 64 * g + lane
      <4>1. g \in Nat
        BY WordsArePairs
      <4> QED
        BY <4>1
    <3> QED
      BY <3>1, <3>2 DEF NeonSays
  <2> QED
    BY <2>1 DEF NeonBits, CoveredBits
<1> QED
  BY <1>1, NeonWordsExact

LEMMA NeonEqOrSays ==
    ASSUME NEW codes, NEW g \in Words
    PROVE  NeonSays(Neon!eq_or_hits(Neon!EqOr_new(cover).points, Neon!load(codes, 64 * g)), codes, g, Points)
<1> DEFINE ps == [p \in DOMAIN cover.points |-> Neon!broadcast(cover.points[p])]
           group == Neon!load(codes, 64 * g)
           v == [i \in 0 .. 7 |-> [lane \in 0 .. 7 |-> \E p \in DOMAIN ps : group[i][lane] = ps[p][lane]]]
<1>1. Neon!EqOr_new(cover).points = ps
  BY DEF Neon!EqOr_new
<1>2. Neon!eq_or_hits(ps, group) = Neon!narrow(v)
  BY DEF Neon!eq_or_hits
<1>3. ASSUME NEW i \in 0 .. 7, NEW lane \in 0 .. 7
      PROVE  v[i][lane] <=> codes[64 * g + 8 * i + lane] \in Points
  <2>1. group[i][lane] = codes[64 * g + 8 * i + lane]
    BY DEF Neon!load
  <2>2. \A p \in DOMAIN cover.points : ps[p][lane] = cover.points[p]
    BY DEF Neon!broadcast, Neon!set1
  <2>3. DOMAIN ps = DOMAIN cover.points
    OBVIOUS
  <2> HIDE DEF ps, group
  <2>4. v[i][lane] <=> \E p \in DOMAIN ps : group[i][lane] = ps[p][lane]
    OBVIOUS
  <2> HIDE DEF v
  <2> QED
    BY <2>1, <2>2, <2>3, <2>4 DEF Points
<1> HIDE DEF v
<1>4. NeonSays(Neon!narrow(v), codes, g, Points)
  <2>1. NeonLanes8(v, codes, g, Points)
    BY <1>3 DEF NeonLanes8
  <2> QED
    BY <2>1, NeonNarrowSays
<1> QED
  BY <1>1, <1>2, <1>4

LEMMA NeonHeld ==
    ASSUME NEW rs \in Seq(RangeType)
    PROVE  /\ NeonHolds(NeonHold(rs), rs)
           /\ NeonHold(rs) = <<>> => UnionOf(rs) = {}
           /\ NeonHold(rs) # <<>> =>
                /\ rs[1] \in RangeType
                /\ Head(NeonHold(rs)) = Neon!hold(rs[1])
                /\ NeonHolds(Tail(NeonHold(rs)), Tail(rs))
                /\ UnionOf(rs) = (rs[1].begin .. rs[1].last) \cup UnionOf(Tail(rs))
<1> DEFINE held == NeonHold(rs)
<1>1. \A r \in DOMAIN rs : rs[r] \in RangeType
  OBVIOUS
<1>2. DOMAIN held = DOMAIN rs /\ \A r \in DOMAIN rs : held[r] = Neon!hold(rs[r])
  BY DEF NeonHold
<1>3. held = [r \in DOMAIN rs |-> held[r]]
  BY DEF NeonHold
<1> HIDE DEF held
<1>4. NeonHolds(held, rs)
  BY <1>1, <1>2 DEF NeonHolds
<1>5. ASSUME held = <<>> PROVE UnionOf(rs) = {}
  <2>1. DOMAIN rs = {}
    <3>1. DOMAIN held = {}
      BY ONLY <1>5
    <3> QED
      BY <1>2, <3>1
  <2> QED
    BY <2>1 DEF UnionOf
<1>6. ASSUME held # <<>>
      PROVE  /\ rs[1] \in RangeType
             /\ Head(held) = Neon!hold(rs[1])
             /\ NeonHolds(Tail(held), Tail(rs))
             /\ UnionOf(rs) = (rs[1].begin .. rs[1].last) \cup UnionOf(Tail(rs))
  <2>1. /\ 1 \in DOMAIN rs /\ rs[1] \in RangeType /\ Head(held) = held[1]
        /\ DOMAIN Tail(held) = DOMAIN Tail(rs)
        /\ \A r \in DOMAIN Tail(rs) : /\ r + 1 \in DOMAIN rs
                                       /\ Tail(rs)[r] = rs[r + 1] /\ Tail(rs)[r] \in RangeType
                                       /\ Tail(held)[r] = held[r + 1]
        /\ UnionOf(rs) = (rs[1].begin .. rs[1].last) \cup UnionOf(Tail(rs))
    BY <1>1, <1>3, <1>6, FirstAndRest
  <2>2. ASSUME NEW r \in DOMAIN Tail(rs)
        PROVE  Tail(rs)[r] \in RangeType /\ Tail(held)[r] = Neon!hold(Tail(rs)[r])
    <3>1. held[r + 1] = Neon!hold(rs[r + 1])
      BY <1>2, <2>1
    <3> QED
      BY <2>1, <3>1
  <2>3. NeonHolds(Tail(held), Tail(rs))
    BY <2>1, <2>2 DEF NeonHolds
  <2> QED
    BY <1>2, <2>1, <2>3
<1> QED
  BY <1>4, <1>5, <1>6 DEF held

LEMMA NeonEqOrExact ==
    ASSUME cover \in Covers, NEW codes \in BlockType, NEW mask, DOMAIN mask = Words
    PROVE  IsExact(Neon!EqOr_check(Neon!EqOr_new(cover), codes, mask, skip), codes)
<1> DEFINE points == Neon!EqOr_new(cover).points
           held == Neon!EqOr_new(cover).ranges
           rs == cover.ranges
           group(g) == Neon!load(codes, 64 * g)
<1>1. held = NeonHold(rs)
  BY DEF Neon!EqOr_new, NeonHold
<1>2. Neon!EqOr_check(Neon!EqOr_new(cover), codes, mask, skip) =
            Neon!eq_or_mask(points, held, codes, mask, skip)
  BY DEF Neon!EqOr_check
<1>3. \A g \in Words : NeonSays(Neon!eq_or_hits(points, group(g)), codes, g, Points)
  BY NeonEqOrSays
<1>4. points = <<>> => Points = {}
  <2>1. points = [p \in DOMAIN cover.points |-> Neon!broadcast(cover.points[p])]
    BY DEF Neon!EqOr_new
  <2> QED
    BY <2>1 DEF Points
<1> HIDE DEF points, held
<1>5. /\ NeonHolds(held, rs)
      /\ held = <<>> => UnionOf(rs) = {}
      /\ held # <<>> =>
            /\ rs[1] \in RangeType /\ Head(held) = Neon!hold(rs[1])
            /\ NeonHolds(Tail(held), Tail(rs))
            /\ UnionOf(rs) = (rs[1].begin .. rs[1].last) \cup UnionOf(Tail(rs))
  <2>1. rs \in Seq(RangeType)
    BY CoverTyped
  <2> HIDE DEF rs
  <2> QED
    BY <1>1, <2>1, NeonHeld
<1>6. Covered = Points \cup UnionOf(rs)
  BY CoveredIs
<1> HIDE DEF rs
<1>7. CASE points # <<>>
  <2> DEFINE hs == [g \in DOMAIN mask |->
                        Neon!check_ranges(Neon!eq_or_hits(points, group(g)), held, group(g))]
  <2>1. Neon!eq_or_mask(points, held, codes, mask, skip) = Neon!words(hs, mask, skip)
    BY <1>7 DEF Neon!eq_or_mask
  <2>2. ASSUME NEW g \in Words
        PROVE  NeonSays(hs[g], codes, g, Covered)
    BY <1>3, <1>5, <1>6, NeonRangesAdded
  <2> HIDE DEF hs
  <2>3. IsExact(Neon!words(hs, mask, skip), codes)
    BY <2>2, NeonGroupsTell
  <2> QED
    BY <1>2, <2>1, <2>3
<1>8. CASE points = <<>> /\ held = <<>>
  <2>1. Covered = {}
    BY <1>4, <1>5, <1>6, <1>8
  <2>2. Neon!eq_or_mask(points, held, codes, mask, skip) =
            [bits |-> [w \in Words |-> {}], written |-> FALSE]
    BY <1>8 DEF Neon!eq_or_mask, Neon!ranges_mask
  <2>3. IsExact([bits |-> [w \in Words |-> {}], written |-> FALSE], codes)
    BY <2>1 DEF IsExact, MaskType, CoveredBits
  <2> QED
    BY <1>2, <2>2, <2>3
<1>9. CASE points = <<>> /\ held # <<>>
  <2> DEFINE hs == [g \in DOMAIN mask |->
                        Neon!check_ranges(Neon!inside(Head(held), group(g)), Tail(held), group(g))]
  <2>1. Neon!eq_or_mask(points, held, codes, mask, skip) = Neon!words(hs, mask, skip)
    BY <1>9 DEF Neon!eq_or_mask, Neon!ranges_mask
  <2>2. ASSUME NEW g \in Words
        PROVE  NeonSays(hs[g], codes, g, Covered)
    <3>1. NeonSays(Neon!inside(Head(held), group(g)), codes, g, rs[1].begin .. rs[1].last)
      BY <1>5, <1>9, NeonInsideSays
    <3>2. NeonSays(hs[g], codes, g, (rs[1].begin .. rs[1].last) \cup UnionOf(Tail(rs)))
      BY <1>5, <1>9, <3>1, NeonRangesAdded
    <3>3. Covered = (rs[1].begin .. rs[1].last) \cup UnionOf(Tail(rs))
      BY <1>4, <1>5, <1>6, <1>9
    <3> QED
      BY <3>2, <3>3
  <2> HIDE DEF hs
  <2>3. IsExact(Neon!words(hs, mask, skip), codes)
    BY <2>2, NeonGroupsTell
  <2> QED
    BY <1>2, <2>1, <2>3
<1> QED
  BY <1>7, <1>8, <1>9

LEMMA NeonLookUp ==
    ASSUME NEW bytes, DOMAIN bytes = 0 .. 15, NEW j \in 0 .. 15, bytes[j] \in Nat, bytes[j] < 16, NEW row
    PROVE  Neon!vqtbl1(Neon!RepeatRow(16, row), bytes)[j] = row[bytes[j]]
<1>1. Neon!vqtbl1(Neon!RepeatRow(16, row), bytes)[j] =
            IF bytes[j] > 15 THEN {} ELSE Neon!RepeatRow(16, row)[bytes[j]]
  BY DEF Neon!vqtbl1
<1>2. bytes[j] \in 0 .. 15 /\ bytes[j] % 16 = bytes[j] /\ ~(bytes[j] > 15)
  OBVIOUS
<1> QED
  BY <1>1, <1>2 DEF Neon!RepeatRow

\* The low and the high bytes of 16 codes.
LEMMA NeonUnzipped ==
    ASSUME NEW v, NEW u, NEW j \in 0 .. 15
    PROVE  /\ Neon!vuzp1(16, Neon!CodeBytes(v), Neon!CodeBytes(u))[j] =
                    (IF j < 8 THEN v[j] ELSE u[j - 8]) % 256
           /\ Neon!vuzp2(16, Neon!CodeBytes(v), Neon!CodeBytes(u))[j] =
                    (IF j < 8 THEN v[j] ELSE u[j - 8]) \div 256
<1> DEFINE lo == Neon!CodeBytes(v)
           hi == Neon!CodeBytes(u)
<1>1. /\ Neon!vuzp1(16, lo, hi)[j] = IF 2 * j < 16 THEN lo[2 * j] ELSE hi[2 * j - 16]
      /\ Neon!vuzp2(16, lo, hi)[j] = IF 2 * j < 16 THEN lo[2 * j + 1] ELSE hi[2 * j + 1 - 16]
  BY DEF Neon!vuzp1, Neon!vuzp2
<1>2. ASSUME NEW w, NEW n \in 0 .. 7
      PROVE  /\ Neon!CodeBytes(w)[2 * n] = w[n] % 256
             /\ Neon!CodeBytes(w)[2 * n + 1] = w[n] \div 256
  <2>1. /\ 2 * n \in 0 .. 15 /\ (2 * n) % 2 = 0 /\ (2 * n) \div 2 = n
        /\ 2 * n + 1 \in 0 .. 15 /\ (2 * n + 1) % 2 # 0 /\ (2 * n + 1) \div 2 = n
    OBVIOUS
  <2> DEFINE a == 2 * n
             b == 2 * n + 1
  <2>2. /\ a \in 0 .. 15 /\ a % 2 = 0 /\ a \div 2 = n
        /\ b \in 0 .. 15 /\ b % 2 # 0 /\ b \div 2 = n
    BY <2>1
  <2> HIDE DEF a, b
  <2>3. Neon!CodeBytes(w)[a] = w[n] % 256 /\ Neon!CodeBytes(w)[b] = w[n] \div 256
    BY <2>2 DEF Neon!CodeBytes
  <2> QED
    BY <2>3 DEF a, b
<1> HIDE DEF lo, hi
<1>3. CASE j < 8
  <2>1. j \in 0 .. 7 /\ 2 * j < 16
    BY <1>3
  <2>2. lo[2 * j] = v[j] % 256 /\ lo[2 * j + 1] = v[j] \div 256
    BY <1>2, <2>1 DEF lo
  <2> QED
    BY <1>1, <1>3, <2>1, <2>2 DEF lo, hi
<1>4. CASE j >= 8
  <2> DEFINE n == j - 8
  <2>1. n \in 0 .. 7 /\ ~(2 * j < 16) /\ 2 * j - 16 = 2 * n /\ 2 * j + 1 - 16 = 2 * n + 1 /\ ~(j < 8)
    BY <1>4
  <2> HIDE DEF n
  <2>2. hi[2 * n] = u[n] % 256 /\ hi[2 * n + 1] = u[n] \div 256
    BY <1>2, <2>1 DEF hi
  <2>3. /\ Neon!vuzp1(16, lo, hi)[j] = u[n] % 256
        /\ Neon!vuzp2(16, lo, hi)[j] = u[n] \div 256
    BY <1>1, <2>1, <2>2
  <2> QED
    BY <2>1, <2>3 DEF lo, hi, n
<1> QED
  BY <1>3, <1>4

LEMMA NeonNibbleSays ==
    ASSUME cover \in Covers, NEW codes \in BlockType, NEW g \in Words
    PROVE  NeonSays(Neon!nibble_hits(Neon!Nibble_new(cover, Batches(cover)).points,
                                     Neon!load(codes, 64 * g)), codes, g, Points)
<1> DEFINE batches == [b \in 1 .. Batches(cover) |-> Neon!batch(cover.points, b - 1)]
           group == Neon!load(codes, 64 * g)
<1>1. Neon!Nibble_new(cover, Batches(cover)).points = batches
  BY DEF Neon!Nibble_new
<1> SUFFICES ASSUME NEW x \in 0 .. 3, NEW j \in 0 .. 15
             PROVE  Neon!nibble_hits(batches, group)[x][j] <=> codes[64 * g + 16 * x + j] \in Points
  BY <1>1 DEF NeonSays
<1> DEFINE c == codes[64 * g + 16 * x + j]
           lo == Neon!CodeBytes(group[2 * x])
           hi == Neon!CodeBytes(group[2 * x + 1])
           low == Neon!vuzp1(16, lo, hi)
           high == Neon!vuzp2(16, lo, hi)
           shr4(bytes) == [lane \in 0 .. 15 |-> bytes[lane] \div 16]
           nibbles == <<Neon!and0f(low), shr4(low), Neon!and0f(high), shr4(high)>>
           found == [b \in DOMAIN batches |->
                        [n \in 0 .. 3 |-> Neon!vqtbl1(batches[b][n], nibbles[n + 1])]]
<1>2. Neon!nibble_hits(batches, group)[x][j] <=>
            \E b \in DOMAIN batches :
                found[b][0][j] \cap found[b][1][j] \cap found[b][2][j] \cap found[b][3][j] # {}
  <2>1. Neon!nibble_hits(batches, group)[x] = [lane \in 0 .. 15 |->
            \E b \in DOMAIN batches :
                found[b][0][lane] \cap found[b][1][lane] \cap found[b][2][lane] \cap found[b][3][lane] # {}]
    BY DEF Neon!nibble_hits
  <2> HIDE DEF found, batches
  <2> QED
    BY <2>1
<1>3. DOMAIN low = 0 .. 15 /\ DOMAIN high = 0 .. 15
  BY DEF Neon!vuzp1, Neon!vuzp2
<1>4. c \in Code /\ low[j] = c % 256 /\ high[j] = c \div 256
  <2> DEFINE i == 2 * x + (j \div 8)
             lane == j % 8
  <2>1. i \in 0 .. 7 /\ lane \in 0 .. 7
    OBVIOUS
  <2>2. 64 * g + 8 * i + lane = 64 * g + 16 * x + j
    <3>1. g \in Nat
      BY WordsArePairs
    <3> QED
      BY <3>1
  <2>3. IF j < 8 THEN i = 2 * x /\ lane = j ELSE i = 2 * x + 1 /\ lane = j - 8
    OBVIOUS
  <2> HIDE DEF i, lane
  <2>4. group[i][lane] = codes[64 * g + 8 * i + lane] /\ codes[64 * g + 8 * i + lane] \in Code
    BY <2>1, NeonGroupIs
  <2> HIDE DEF group
  <2>5. (IF j < 8 THEN group[2 * x][j] ELSE group[2 * x + 1][j - 8]) = c /\ c \in Code
    BY <2>2, <2>3, <2>4
  <2> HIDE DEF c
  <2>6. /\ low[j] = (IF j < 8 THEN group[2 * x][j] ELSE group[2 * x + 1][j - 8]) % 256
        /\ high[j] = (IF j < 8 THEN group[2 * x][j] ELSE group[2 * x + 1][j - 8]) \div 256
    <3> DEFINE v == group[2 * x]
               u == group[2 * x + 1]
    <3> HIDE DEF v, u
    <3>1. /\ Neon!vuzp1(16, Neon!CodeBytes(v), Neon!CodeBytes(u))[j] =
                    (IF j < 8 THEN v[j] ELSE u[j - 8]) % 256
          /\ Neon!vuzp2(16, Neon!CodeBytes(v), Neon!CodeBytes(u))[j] =
                    (IF j < 8 THEN v[j] ELSE u[j - 8]) \div 256
      BY NeonUnzipped
    <3> QED
      BY <3>1 DEF v, u
  <2> HIDE DEF low, high
  <2> QED
    BY <2>5, <2>6
<1> HIDE DEF low, high, c
<1>5. /\ c % 256 \in Nat /\ c % 256 < 256 /\ c \div 256 \in Nat /\ c \div 256 < 256
  <2>1. c \in Nat /\ c < 65536
    BY <1>4, CodesAre
  <2> QED
    BY SMT, <2>1
<1>6. /\ DOMAIN Neon!and0f(low) = 0 .. 15 /\ Neon!and0f(low)[j] = low[j] % 16
      /\ DOMAIN Neon!and0f(high) = 0 .. 15 /\ Neon!and0f(high)[j] = high[j] % 16
      /\ DOMAIN shr4(low) = 0 .. 15 /\ shr4(low)[j] = low[j] \div 16
      /\ DOMAIN shr4(high) = 0 .. 15 /\ shr4(high)[j] = high[j] \div 16
  BY <1>3 DEF Neon!and0f
<1> HIDE DEF shr4
<1>7. /\ low[j] % 16 \in Nat /\ low[j] % 16 < 16 /\ low[j] \div 16 \in Nat /\ low[j] \div 16 < 16
      /\ high[j] % 16 \in Nat /\ high[j] % 16 < 16 /\ high[j] \div 16 \in Nat /\ high[j] \div 16 < 16
  <2>1. low[j] \in Nat /\ low[j] < 256 /\ high[j] \in Nat /\ high[j] < 256
    BY <1>4, <1>5
  <2> QED
    BY <2>1
<1>8. ASSUME NEW b \in 1 .. Batches(cover), NEW n \in 0 .. 3
      PROVE  found[b][n][j] = RowOf(b, n, c)
  <2> DEFINE row == nibble_rows(cover.points, b - 1)[n]
  <2>1. batches[b][n] = Neon!RepeatRow(16, row)
    <3>1. Neon!nibble_rows(cover.points, b - 1) = nibble_rows(cover.points, b - 1)
      BY DEF Neon!nibble_rows, nibble_rows, Neon!SmallerOf, SmallerOf, Neon!PerBatch, PerBatch,
             Neon!Nibble, Nibble
    <3> QED
      BY <3>1 DEF Neon!batch
  <2>2. found[b][n][j] = Neon!vqtbl1(Neon!RepeatRow(16, row), nibbles[n + 1])[j]
    BY <2>1
  <2> HIDE DEF row
  <2>3. /\ Neon!vqtbl1(Neon!RepeatRow(16, row), Neon!and0f(low))[j] = row[low[j] % 16]
        /\ Neon!vqtbl1(Neon!RepeatRow(16, row), shr4(low))[j] = row[low[j] \div 16]
    BY <1>6, <1>7, NeonLookUp
  <2>4. /\ Neon!vqtbl1(Neon!RepeatRow(16, row), Neon!and0f(high))[j] = row[high[j] % 16]
        /\ Neon!vqtbl1(Neon!RepeatRow(16, row), shr4(high))[j] = row[high[j] \div 16]
    BY <1>6, <1>7, NeonLookUp
  <2>5. /\ Nibble(c, 0) = low[j] % 16 /\ Nibble(c, 1) = low[j] \div 16
        /\ Nibble(c, 2) = high[j] % 16 /\ Nibble(c, 3) = high[j] \div 16
    BY <1>4, NibblesAre
  <2>6. n = 0 \/ n = 1 \/ n = 2 \/ n = 3
    OBVIOUS
  <2>7. RowOf(b, n, c) = row[Nibble(c, n)]
    BY DEF RowOf, row
  <2>8. /\ n = 0 => nibbles[n + 1] = Neon!and0f(low)
        /\ n = 1 => nibbles[n + 1] = shr4(low)
        /\ n = 2 => nibbles[n + 1] = Neon!and0f(high)
        /\ n = 3 => nibbles[n + 1] = shr4(high)
    OBVIOUS
  <2> HIDE DEF found, nibbles
  <2> QED
    BY <2>2, <2>3, <2>4, <2>5, <2>6, <2>7, <2>8
<1>9. DOMAIN batches = 1 .. Batches(cover)
  OBVIOUS
<1> HIDE DEF batches, found
<1>10. Neon!nibble_hits(batches, group)[x][j] <=>
            \E b \in 1 .. Batches(cover) :
                RowOf(b, 0, c) \cap RowOf(b, 1, c) \cap RowOf(b, 2, c) \cap RowOf(b, 3, c) # {}
  <2>1. \A b \in 1 .. Batches(cover) :
            /\ found[b][0][j] = RowOf(b, 0, c) /\ found[b][1][j] = RowOf(b, 1, c)
            /\ found[b][2][j] = RowOf(b, 2, c) /\ found[b][3][j] = RowOf(b, 3, c)
    BY <1>8
  <2> QED
    BY <1>2, <1>9, <2>1
<1>11. c \in Points <=>
            \E b \in 1 .. Batches(cover) :
                RowOf(b, 0, c) \cap RowOf(b, 1, c) \cap RowOf(b, 2, c) \cap RowOf(b, 3, c) # {}
  BY <1>4, BatchesSelectPoints
<1> QED
  BY <1>10, <1>11 DEF c

LEMMA NeonNibbleExact ==
    ASSUME cover \in Covers, NEW codes \in BlockType, NEW mask, DOMAIN mask = Words
    PROVE  IsExact(Neon!Nibble_check(Neon!Nibble_new(cover, Batches(cover)), codes, mask, skip), codes)
<1> DEFINE points == Neon!Nibble_new(cover, Batches(cover)).points
           held == Neon!Nibble_new(cover, Batches(cover)).ranges
           rs == cover.ranges
           group(g) == Neon!load(codes, 64 * g)
           hs == [g \in DOMAIN mask |->
                    Neon!check_ranges(Neon!nibble_hits(points, group(g)), held, group(g))]
<1>1. held = NeonHold(rs)
  BY DEF Neon!Nibble_new, NeonHold
<1>2. Neon!Nibble_check(Neon!Nibble_new(cover, Batches(cover)), codes, mask, skip) =
            Neon!words(hs, mask, skip)
  BY DEF Neon!Nibble_check, Neon!nibble_mask
<1>3. \A g \in Words : NeonSays(Neon!nibble_hits(points, group(g)), codes, g, Points)
  BY NeonNibbleSays
<1> HIDE DEF points, held
<1>4. NeonHolds(held, rs)
  <2>1. rs \in Seq(RangeType)
    BY CoverTyped
  <2> HIDE DEF rs
  <2> QED
    BY <1>1, <2>1, NeonHeld
<1>5. Covered = Points \cup UnionOf(rs)
  BY CoveredIs
<1> HIDE DEF rs
<1>6. ASSUME NEW g \in Words
      PROVE  NeonSays(hs[g], codes, g, Covered)
  BY <1>3, <1>4, <1>5, NeonRangesAdded
<1> HIDE DEF hs
<1>7. IsExact(Neon!words(hs, mask, skip), codes)
  BY <1>6, NeonGroupsTell
<1> QED
  BY <1>2, <1>7

-----------------------------------------------------------------------------
(***************************************************************************)
(* What is planned.                                                        *)
(***************************************************************************)

Isas == {"Scalar", "Neon", "Avx2", "Avx512Bw"}

LEMMA DetectedIsSupported ==
    ASSUME NEW c
    PROVE  /\ detect_isa(c) \in Isas
           /\ supports(c, detect_isa(c))
           /\ detect_isa(c) = "Neon" => "neon" \in c.features
           /\ detect_isa(c) = "Avx2" => "avx2" \in c.features
           /\ detect_isa(c) = "Avx512Bw" =>
                "avx2" \in c.features /\ "avx512f" \in c.features /\ "avx512bw" \in c.features
<1>1. supports(c, "Scalar")
  BY DEF supports
<1>2. supports(c, "Neon") <=> c.arch = "aarch64" /\ "neon" \in c.features
  BY DEF supports
<1>3. supports(c, "Avx2") <=> c.arch = "x86_64" /\ "avx2" \in c.features
  BY DEF supports
<1>4. supports(c, "Avx512Bw") <=>
        c.arch = "x86_64" /\ {"avx2", "avx512f", "avx512bw"} \subseteq c.features
  BY DEF supports
<1>5. CASE supports(c, "Avx512Bw")
  <2>1. detect_isa(c) = "Avx512Bw"
    BY <1>2, <1>4, <1>5 DEF detect_isa
  <2> QED
    BY <1>4, <1>5, <2>1 DEF Isas
<1>6. CASE ~supports(c, "Avx512Bw") /\ supports(c, "Avx2")
  <2>1. detect_isa(c) = "Avx2"
    BY <1>2, <1>3, <1>6 DEF detect_isa
  <2> QED
    BY <1>3, <1>6, <2>1 DEF Isas
<1>7. CASE ~supports(c, "Avx512Bw") /\ ~supports(c, "Avx2") /\ supports(c, "Neon")
  <2>1. detect_isa(c) = "Neon"
    BY <1>7 DEF detect_isa
  <2> QED
    BY <1>2, <1>7, <2>1 DEF Isas
<1>8. CASE ~supports(c, "Avx512Bw") /\ ~supports(c, "Avx2") /\ ~supports(c, "Neon")
  <2>1. detect_isa(c) = "Scalar"
    BY <1>8 DEF detect_isa
  <2> QED
    BY <1>1, <2>1 DEF Isas
<1> QED
  BY <1>5, <1>6, <1>7, <1>8

LEMMA CheapestCanRun ==
    ASSUME NEW i, NEW c
    PROVE  /\ cheapest(i, c) \in {"Table", "EqOr", "Nibble"}
           /\ i = "Scalar" => cheapest(i, c) = "Table"
           /\ cheapest(i, c) = "Nibble" => Batches(c) \in 1 .. MaxNibbleBatches
<1>1. can_run("Nibble", c) <=> Batches(c) \in 1 .. MaxNibbleBatches
  BY DEF can_run
<1> QED
  BY <1>1 DEF cheapest

\* The numbers at which the costs of n points in b batches change places.
Costs(n, b) ==
    /\ b \in Nat /\ 8 * b >= n /\ 8 * b < n + 8
    /\ n \in 1 .. 3 => b >= 1 /\ 92 * n < 1000 /\ n > 0 /\ ~(92 + 230 * b < 92 * n)
    /\ n \in 4 .. 24 => b \in 1 .. 3 /\ 92 + 230 * b < 92 * n /\ 92 + 230 * b < 1000
    /\ n \in 5 .. 32 => b \in 1 .. 4 /\ 93 + 33 * b < 28 * n /\ 93 + 33 * b < 1000
    /\ b \in 1 .. 4 => n > 0 /\ n <= 32
    /\ b \in 1 .. 4 /\ n <= 4 => 28 * n < 1000 /\ ~(93 + 33 * b < 28 * n)
    /\ 92 * n < 1000 <=> n <= 10
    /\ 92 + 230 * b < 92 * n <=> n >= 4
    /\ 92 + 230 * b < 1000 <=> n <= 24

LEMMA BatchesOf ==
    ASSUME NEW n \in Nat
    PROVE  Costs(n, (n + 7) \div 8)
<1> DEFINE b == (n + 7) \div 8
<1>1. b \in Nat /\ n + 7 = 8 * b + ((n + 7) % 8) /\ (n + 7) % 8 >= 0 /\ (n + 7) % 8 <= 7
  OBVIOUS
<1> HIDE DEF b
<1>2. 8 * b >= n /\ 8 * b < n + 8
  BY <1>1
<1>3. n \in 1 .. 3 => b >= 1 /\ 92 * n < 1000 /\ n > 0 /\ ~(92 + 230 * b < 92 * n)
  BY <1>1, <1>2
<1>4. ASSUME n \in 4 .. 24
      PROVE  b \in 1 .. 3 /\ 92 + 230 * b < 92 * n /\ 92 + 230 * b < 1000
  <2>1. b = 1 \/ b = 2 \/ b = 3
    BY <1>1, <1>2, <1>4
  <2> QED
    BY <1>2, <1>4, <2>1
<1>5. ASSUME n \in 5 .. 32
      PROVE  b \in 1 .. 4 /\ 93 + 33 * b < 28 * n /\ 93 + 33 * b < 1000
  <2>1. b = 1 \/ b = 2 \/ b = 3 \/ b = 4
    BY <1>1, <1>2, <1>5
  <2> QED
    BY <1>2, <1>5, <2>1
<1>6. b \in 1 .. 4 => n > 0 /\ n <= 32
  BY <1>1, <1>2
<1>7. b \in 1 .. 4 /\ n <= 4 => 28 * n < 1000 /\ ~(93 + 33 * b < 28 * n)
  BY <1>1, <1>2
<1>8. 92 * n < 1000 <=> n <= 10
  OBVIOUS
<1>9. 92 + 230 * b < 92 * n <=> n >= 4
  <2>1. CASE n <= 3
    BY <1>1, <1>2, <2>1
  <2>2. CASE n = 4
    BY <1>4, <2>2
  <2>3. CASE n >= 5
    BY <1>1, <1>2, <2>3
  <2> QED
    BY <2>1, <2>2, <2>3
<1>10. 92 + 230 * b < 1000 <=> n <= 24
  BY <1>1, <1>2
<1>11. Costs(n, b)
  BY <1>1, <1>2, <1>3, <1>4, <1>5, <1>6, <1>7, <1>8, <1>9, <1>10 DEF Costs
<1> QED
  BY <1>11 DEF b

\* Where the costs on NEON change places, on a cover of n points without ranges.
Beats(this, other, c) == matcher_cost(of("Neon"), this, c) < matcher_cost(of("Neon"), other, c)

NeonCrossovers(n, c) ==
    /\ Beats("EqOr", "Table", c) <=> n <= 10
    /\ Beats("Nibble", "EqOr", c) <=> n >= 4
    /\ Beats("Nibble", "Table", c) <=> n <= 24

\* Where the cheapest matcher changes, on such a cover.
CheapestFor(n, c) ==
    /\ NeonCrossovers(n, c)
    /\ n = 0 => cheapest("Neon", c) = "Table"
    /\ n \in 1 .. 3 => cheapest("Neon", c) = "EqOr"
    /\ n \in 4 .. 24 => cheapest("Neon", c) = "Nibble"
    /\ n > 24 => cheapest("Neon", c) = "Table"
    /\ cheapest("Avx512Bw", c) = "Nibble" <=> n \in 5 .. 32

LEMMA CheapestOfPoints ==
    ASSUME NEW c, c.points \in Seq(Code), c.ranges = <<>>
    PROVE  CheapestFor(Len(c.points), c)
<1> DEFINE n == Len(c.points)
           b == (n + 7) \div 8
           table(i) == matcher_cost(of(i), "Table", c)
           eq(i) == matcher_cost(of(i), "EqOr", c)
           nib(i) == matcher_cost(of(i), "Nibble", c)
<1>1. Batches(c) = b
  <2>1. n + 8 - 1 = n + 7
    OBVIOUS
  <2> QED
    BY <2>1 DEF Batches, DivCeil, PerBatch
<1>18. c.points # <<>> <=> n > 0
  OBVIOUS
<1>2. Len(c.ranges) = 0
  OBVIOUS
<1>0. n \in Nat /\ b = (n + 7) \div 8
  OBVIOUS
<1>19. /\ matcher_cost(of("Neon"), "EqOr", c) = of("Neon").point * n + of("Neon").range * 0
       /\ matcher_cost(of("Avx512Bw"), "EqOr", c) = of("Avx512Bw").point * n + of("Avx512Bw").range * 0
  BY <1>2 DEF matcher_cost
<1> HIDE DEF b, n
<1>3. /\ b \in Nat /\ 8 * b >= n /\ 8 * b < n + 8
      /\ n \in 1 .. 3 => b >= 1 /\ 92 * n < 1000 /\ n > 0 /\ ~(92 + 230 * b < 92 * n)
      /\ n \in 4 .. 24 => b \in 1 .. 3 /\ 92 + 230 * b < 92 * n /\ 92 + 230 * b < 1000
      /\ n \in 5 .. 32 => b \in 1 .. 4 /\ 93 + 33 * b < 28 * n /\ 93 + 33 * b < 1000
      /\ b \in 1 .. 4 => n > 0 /\ n <= 32
      /\ b \in 1 .. 4 /\ n <= 4 => 28 * n < 1000 /\ ~(93 + 33 * b < 28 * n)
      /\ 92 * n < 1000 <=> n <= 10
      /\ 92 + 230 * b < 92 * n <=> n >= 4
      /\ 92 + 230 * b < 1000 <=> n <= 24
  <2>1. Costs(n, b)
    BY <1>0, BatchesOf
  <2> QED
    BY <2>1 DEF Costs
<1>4. /\ of("Neon") = [point |-> 92, range |-> 138, nibble_base |-> 92, nibble_batch |-> 230]
      /\ of("Avx512Bw") = [point |-> 28, range |-> 56, nibble_base |-> 93, nibble_batch |-> 33]
  BY DEF of
<1>5. table("Neon") = 1000 /\ table("Avx512Bw") = 1000
  BY DEF matcher_cost
<1>6. /\ eq("Neon") = 92 * n + 138 * 0
      /\ eq("Avx512Bw") = 28 * n + 56 * 0
  BY <1>4, <1>19
<1>7. /\ nib("Neon") = 92 + 230 * b + 138 * 0
      /\ nib("Avx512Bw") = 93 + 33 * b + 56 * 0
  BY <1>1, <1>2, <1>4 DEF matcher_cost
<1>8. /\ can_run("EqOr", c) <=> n > 0
      /\ can_run("Nibble", c) <=> b \in 1 .. 4
  <2>1. c.ranges = <<>>
    OBVIOUS
  <2> QED
    BY <1>1, <1>18, <2>1 DEF can_run, MaxNibbleBatches
<1> DEFINE first(i) == IF n > 0 /\ eq(i) < table(i) THEN "EqOr" ELSE "Table"
<1>9. ASSUME NEW i \in {"Neon", "Avx512Bw"}
      PROVE  cheapest(i, c) = IF b \in 1 .. 4 /\ nib(i) < matcher_cost(of(i), first(i), c)
                              THEN "Nibble" ELSE first(i)
  <2>1. i # "Scalar"
    OBVIOUS
  <2> QED
    BY <1>8, <2>1 DEF cheapest
<1> DEFINE least(i) == IF n > 0 /\ eq(i) < table(i) THEN eq(i) ELSE table(i)
<1>10. ASSUME NEW i \in {"Neon", "Avx512Bw"}
       PROVE  cheapest(i, c) = IF b \in 1 .. 4 /\ nib(i) < least(i) THEN "Nibble" ELSE first(i)
  <2>1. matcher_cost(of(i), first(i), c) = least(i)
    OBVIOUS
  <2> HIDE DEF eq, nib, table
  <2> QED
    BY <1>9, <2>1
<1> HIDE DEF eq, nib, table
<1>11. /\ cheapest("Neon", c) = IF b \in 1 .. 4 /\ nib("Neon") < least("Neon") THEN "Nibble" ELSE first("Neon")
       /\ cheapest("Avx512Bw", c) =
            IF b \in 1 .. 4 /\ nib("Avx512Bw") < least("Avx512Bw") THEN "Nibble" ELSE first("Avx512Bw")
  BY <1>10
<1>12. n = 0 => cheapest("Neon", c) = "Table"
  BY <1>0, <1>3, <1>11
<1>13. /\ eq("Neon") = 92 * n /\ nib("Neon") = 92 + 230 * b
       /\ eq("Avx512Bw") = 28 * n /\ nib("Avx512Bw") = 93 + 33 * b
  BY <1>0, <1>3, <1>6, <1>7
<1>14. n \in 1 .. 3 => cheapest("Neon", c) = "EqOr"
  <2> SUFFICES ASSUME n \in 1 .. 3 PROVE cheapest("Neon", c) = "EqOr"
    OBVIOUS
  <2>1. b >= 1 /\ 92 * n < 1000 /\ n > 0 /\ ~(92 + 230 * b < 92 * n)
    BY <1>3
  <2>2. first("Neon") = "EqOr" /\ least("Neon") = 92 * n
    BY <1>0, <1>5, <1>13, <2>1
  <2> HIDE DEF first, least
  <2> QED
    BY <1>11, <1>13, <2>1, <2>2
<1>15. n \in 4 .. 24 => cheapest("Neon", c) = "Nibble"
  <2> SUFFICES ASSUME n \in 4 .. 24 PROVE cheapest("Neon", c) = "Nibble"
    OBVIOUS
  <2>1. b \in 1 .. 3 /\ 92 + 230 * b < 92 * n /\ 92 + 230 * b < 1000
    BY <1>3
  <2>2. least("Neon") = 92 * n \/ least("Neon") = 1000
    BY <1>5, <1>13
  <2> HIDE DEF first, least
  <2>3. b \in 1 .. 4 /\ nib("Neon") < least("Neon")
    BY <1>13, <2>1, <2>2
  <2> QED
    BY <1>11, <2>3
<1>16. n > 24 => cheapest("Neon", c) = "Table"
  BY <1>0, <1>3, <1>5, <1>11, <1>13
<1>17. cheapest("Avx512Bw", c) = "Nibble" <=> n \in 5 .. 32
  <2>1. cheapest("Avx512Bw", c) = "Nibble" <=> b \in 1 .. 4 /\ nib("Avx512Bw") < least("Avx512Bw")
    BY <1>11
  <2>2. ASSUME n \in 5 .. 32
        PROVE  b \in 1 .. 4 /\ nib("Avx512Bw") < least("Avx512Bw")
    <3>3. b \in 1 .. 4 /\ 93 + 33 * b < 28 * n /\ 93 + 33 * b < 1000
      BY <1>3, <2>2
    <3>4. least("Avx512Bw") = 28 * n \/ least("Avx512Bw") = 1000
      BY <1>5, <1>13
    <3> HIDE DEF least
    <3> QED
      BY <1>13, <3>3, <3>4
  <2>3. ASSUME b \in 1 .. 4, nib("Avx512Bw") < least("Avx512Bw")
        PROVE  n \in 5 .. 32
    <3>1. n <= 32 /\ n > 0
      BY <1>3, <2>3
    <3>2. n > 4
      <4> SUFFICES ASSUME n <= 4 PROVE FALSE
        BY <1>0, <3>1
      <4>1. 28 * n < 1000 /\ ~(93 + 33 * b < 28 * n)
        BY <1>3, <2>3
      <4>2. least("Avx512Bw") = 28 * n
        BY <1>0, <1>5, <1>13, <3>1, <4>1
      <4> HIDE DEF least
      <4> QED
        BY <1>13, <2>3, <4>1, <4>2
    <3> QED
      BY <1>0, <3>1, <3>2
  <2> QED
    BY <2>1, <2>2, <2>3
<1>21. NeonCrossovers(n, c)
  <2>1. /\ Beats("EqOr", "Table", c) <=> eq("Neon") < table("Neon")
        /\ Beats("Nibble", "EqOr", c) <=> nib("Neon") < eq("Neon")
        /\ Beats("Nibble", "Table", c) <=> nib("Neon") < table("Neon")
    BY DEF Beats, eq, nib, table
  <2>2. table("Neon") = 1000 /\ eq("Neon") = 92 * n /\ nib("Neon") = 92 + 230 * b
    BY <1>5, <1>13
  <2>3. /\ 92 * n < 1000 <=> n <= 10
        /\ 92 + 230 * b < 92 * n <=> n >= 4
        /\ 92 + 230 * b < 1000 <=> n <= 24
    BY <1>3
  <2> QED
    BY ONLY <2>1, <2>2, <2>3 DEF NeonCrossovers
<1>20. CheapestFor(n, c)
  BY <1>12, <1>14, <1>15, <1>16, <1>17, <1>21 DEF CheapestFor
<1> QED
  BY Zenon, <1>20 DEF n

-----------------------------------------------------------------------------
(***************************************************************************)
(* What a prepared matcher says of a block.                                *)
(***************************************************************************)

LEMMA TableExact ==
    ASSUME NEW codes
    PROVE  IsExact(Table_check(Covered, codes), codes)
<1>1. /\ Table_check(Covered, codes).bits = CoveredBits(codes)
      /\ Table_check(Covered, codes).written <=> \E w \in Words : CoveredBits(codes)[w] # {}
  BY DEF Table_check, CoveredBits
<1>2. CoveredBits(codes) \in MaskType
  BY DEF CoveredBits, MaskType
<1> QED
  BY <1>1, <1>2 DEF IsExact

\* The kernel, the instructions it needs, and what it holds.
Kernel(name, needs, admits) ==
    /\ matcher.kernel = name /\ matcher.needs = needs /\ matcher.admits = admits

KernelIsPrepared ==
    \/ Kernel("Table", {}, Covered)
    \/ isa = "Neon" /\ Kernel("Neon.EqOr", {"neon"}, Neon!EqOr_new(cover))
    \/ isa \in {"Avx2", "Avx512Bw"} /\ Kernel("Avx2.EqOr", {"avx2"}, Avx2!EqOr_new(cover))
    \/ isa = "Neon" /\ Kernel("Neon.Nibble", {"neon"}, Neon!Nibble_new(cover, Batches(cover)))
    \/ isa = "Avx2" /\ Kernel("Avx2.Nibble", {"avx2"}, Avx2!Nibble_new(cover, Batches(cover)))
    \/ isa = "Avx512Bw" /\ Kernel("Avx512.Nibble", {"avx512f", "avx512bw"},
                                  Avx512!Nibble_new(cover, Batches(cover)))

LEMMA CheckExact ==
    ASSUME cover \in Covers, KernelIsPrepared, bits \in MaskType, NEW codes \in BlockType
    PROVE  IsExact(check(codes), codes)
<1>1. DOMAIN bits = Words
  BY DEF MaskType
<1>2. CASE Kernel("Table", {}, Covered)
  <2>1. check(codes) = Table_check(Covered, codes)
    BY <1>2 DEF check, Kernel
  <2> QED
    BY <2>1, TableExact
<1>3. CASE Kernel("Neon.EqOr", {"neon"}, Neon!EqOr_new(cover))
  <2>1. check(codes) = Neon!EqOr_check(Neon!EqOr_new(cover), codes, bits, skip)
    BY <1>3 DEF check, Kernel
  <2> QED
    BY <1>1, <2>1, NeonEqOrExact
<1>4. CASE Kernel("Avx2.EqOr", {"avx2"}, Avx2!EqOr_new(cover))
  <2>1. check(codes) = Avx2!EqOr_check(Avx2!EqOr_new(cover), codes, bits, skip)
    BY <1>4 DEF check, Kernel
  <2> QED
    BY <1>1, <2>1, Avx2EqOrExact
<1>5. CASE Kernel("Neon.Nibble", {"neon"}, Neon!Nibble_new(cover, Batches(cover)))
  <2>1. check(codes) = Neon!Nibble_check(Neon!Nibble_new(cover, Batches(cover)), codes, bits, skip)
    BY <1>5 DEF check, Kernel
  <2> QED
    BY <1>1, <2>1, NeonNibbleExact
<1>6. CASE Kernel("Avx2.Nibble", {"avx2"}, Avx2!Nibble_new(cover, Batches(cover)))
  <2>1. check(codes) = Avx2!Nibble_check(Avx2!Nibble_new(cover, Batches(cover)), codes, bits, skip)
    BY <1>6 DEF check, Kernel
  <2> QED
    BY <1>1, <2>1, Avx2NibbleExact
<1>7. CASE Kernel("Avx512.Nibble", {"avx512f", "avx512bw"}, Avx512!Nibble_new(cover, Batches(cover)))
  <2>1. check(codes) = Avx512!Nibble_check(Avx512!Nibble_new(cover, Batches(cover)), codes, bits, skip)
    BY <1>7 DEF check, Kernel
  <2> QED
    BY <1>1, <2>1, Avx512NibbleExact
<1> QED
  BY <1>2, <1>3, <1>4, <1>5, <1>6, <1>7 DEF KernelIsPrepared

-----------------------------------------------------------------------------
(***************************************************************************)
(* The invariant.                                                          *)
(***************************************************************************)

\* The positions below n of the codes that the cover covers, from the first row on.
CoveredBelow(n) ==
    {m \in stream.first .. SmallerOf(n, Len(Codes)) - 1 : Codes[m + 1] \in Covered}

\* What is planned is what the cost model finds for the CPU; what is prepared was planned
\* and runs on the CPU; and a scan has found every hit before the block, and nothing else.
MatchersInv ==
    /\ cpu \in Cpus /\ cover \in Covers
    /\ MatchersTypeOK
    /\ phase # "panic"
    /\ phase # "cover" => isa = detect_isa(cpu) /\ kind = cheapest(isa, cover)
    /\ phase \in {"cover", "planned"} => matcher = NoMatcher
    /\ phase \in {"prepared", "blocks"} => KernelIsPrepared /\ matcher.needs \subseteq cpu.features
    /\ phase = "blocks" =>
        /\ stream \in Streams(cover) /\ at >= stream.first
        /\ hits = CoveredBelow(at)

LEMMA MatchersInitInv == MatchersInit => MatchersInv
<1> SUFFICES ASSUME MatchersInit PROVE MatchersInv
  OBVIOUS
<1>1. NoBits \in MaskType
  BY DEF NoBits, MaskType
<1> QED
  BY <1>1 DEF MatchersInit, MatchersInv, MatchersTypeOK, MaskType

LEMMA PlanInv ==
    ASSUME MatchersInv, Plan
    PROVE  MatchersInv'
<1>1. /\ phase = "cover" /\ isa' = detect_isa(cpu) /\ kind' = cheapest(isa', cover) /\ phase' = "planned"
      /\ cpu' = cpu /\ cover' = cover /\ matcher' = matcher
      /\ stream' = stream /\ at' = at /\ skip' = skip /\ bits' = bits /\ hits' = hits
  BY DEF Plan, scan
<1>2. isa' \in Isas
  BY <1>1, DetectedIsSupported
<1>3. kind' \in {"Table", "EqOr", "Nibble"}
  BY <1>1, CheapestCanRun
<1>4. MatchersTypeOK'
  BY <1>1, <1>2, <1>3 DEF MatchersInv, MatchersTypeOK, Isas, Words
<1>5. isa' = detect_isa(cpu') /\ kind' = cheapest(isa', cover')
  BY <1>1
<1> QED
  BY <1>1, <1>4, <1>5 DEF MatchersInv, NoMatcher

LEMMA PrepareInv ==
    ASSUME MatchersInv, Prepare
    PROVE  MatchersInv'
<1>1. /\ phase = "planned" /\ cpu' = cpu /\ cover' = cover /\ isa' = isa /\ kind' = kind
      /\ stream' = stream /\ at' = at /\ skip' = skip /\ bits' = bits /\ hits' = hits
      /\ phase' = IF \/ isa # "Scalar" /\ ~supports(cpu, isa)
                     \/ kind = "Nibble" /\ Batches(cover) \notin 1 .. MaxNibbleBatches
                  THEN "panic" ELSE "prepared"
  BY DEF Prepare, plan, scan
<1>2. isa = detect_isa(cpu) /\ kind = cheapest(isa, cover)
  BY <1>1 DEF MatchersInv
<1>3. /\ isa \in Isas /\ supports(cpu, isa)
      /\ isa = "Neon" => "neon" \in cpu.features
      /\ isa = "Avx2" => "avx2" \in cpu.features
      /\ isa = "Avx512Bw" =>
            "avx2" \in cpu.features /\ "avx512f" \in cpu.features /\ "avx512bw" \in cpu.features
  BY <1>2, DetectedIsSupported
<1>4. /\ kind \in {"Table", "EqOr", "Nibble"}
      /\ isa = "Scalar" => kind = "Table"
      /\ kind = "Nibble" => Batches(cover) \in 1 .. MaxNibbleBatches
  BY <1>2, CheapestCanRun
<1>5. phase' = "prepared"
  BY <1>1, <1>3, <1>4
<1>6. /\ \/ /\ matcher'.kernel = "Table" /\ matcher'.needs = {} /\ matcher'.admits = Covered
         \/ /\ isa = "Neon" /\ matcher'.kernel = "Neon.EqOr" /\ matcher'.needs = {"neon"}
            /\ matcher'.admits = Neon!EqOr_new(cover)
         \/ /\ isa \in {"Avx2", "Avx512Bw"} /\ matcher'.kernel = "Avx2.EqOr" /\ matcher'.needs = {"avx2"}
            /\ matcher'.admits = Avx2!EqOr_new(cover)
         \/ /\ isa = "Neon" /\ matcher'.kernel = "Neon.Nibble" /\ matcher'.needs = {"neon"}
            /\ matcher'.admits = Neon!Nibble_new(cover, Batches(cover))
         \/ /\ isa = "Avx2" /\ matcher'.kernel = "Avx2.Nibble" /\ matcher'.needs = {"avx2"}
            /\ matcher'.admits = Avx2!Nibble_new(cover, Batches(cover))
         \/ /\ isa = "Avx512Bw" /\ matcher'.kernel = "Avx512.Nibble"
            /\ matcher'.needs = {"avx512f", "avx512bw"}
            /\ matcher'.admits = Avx512!Nibble_new(cover, Batches(cover))
      /\ matcher'.needs \subseteq cpu.features
  <2>1. CASE kind = "Table"
    <3>1. matcher' = Table_new
      BY <2>1 DEF Prepare
    <3> QED
      BY <3>1 DEF Table_new
  <2>2. CASE kind = "EqOr" /\ isa = "Neon"
    <3>1. matcher' = [kernel |-> "Neon.EqOr", needs |-> {"neon"}, admits |-> Neon!EqOr_new(cover)]
      BY <2>2 DEF Prepare
    <3> QED
      BY <1>3, <2>2, <3>1
  <2>3. CASE kind = "EqOr" /\ isa \in {"Avx2", "Avx512Bw"}
    <3>1. matcher' = [kernel |-> "Avx2.EqOr", needs |-> {"avx2"}, admits |-> Avx2!EqOr_new(cover)]
      BY <2>3 DEF Prepare
    <3> QED
      BY <1>3, <2>3, <3>1
  <2>4. CASE kind = "Nibble" /\ isa = "Neon"
    <3>1. matcher' = [kernel |-> "Neon.Nibble", needs |-> {"neon"},
                      admits |-> Neon!Nibble_new(cover, Batches(cover))]
      BY <2>4 DEF Prepare
    <3> QED
      BY <1>3, <2>4, <3>1
  <2>5. CASE kind = "Nibble" /\ isa = "Avx2"
    <3>1. matcher' = [kernel |-> "Avx2.Nibble", needs |-> {"avx2"},
                      admits |-> Avx2!Nibble_new(cover, Batches(cover))]
      BY <2>5 DEF Prepare
    <3> QED
      BY <1>3, <2>5, <3>1
  <2>6. CASE kind = "Nibble" /\ isa = "Avx512Bw"
    <3>1. matcher' = [kernel |-> "Avx512.Nibble", needs |-> {"avx512f", "avx512bw"},
                      admits |-> Avx512!Nibble_new(cover, Batches(cover))]
      BY <2>6 DEF Prepare
    <3> QED
      BY <1>3, <2>6, <3>1
  <2> QED
    BY <1>3, <1>4, <2>1, <2>2, <2>3, <2>4, <2>5, <2>6 DEF Isas
<1>7. KernelIsPrepared'
  BY <1>1, <1>6 DEF KernelIsPrepared, Kernel, Covered
<1>8. MatchersTypeOK'
  BY <1>1, <1>5 DEF MatchersInv, MatchersTypeOK, Words
<1>9. matcher'.needs \subseteq cpu'.features
  BY <1>1, <1>6
<1>10. isa' = detect_isa(cpu') /\ kind' = cheapest(isa', cover') /\ cpu' \in Cpus /\ cover' \in Covers
  BY <1>1, <1>2 DEF MatchersInv
<1> QED
  BY <1>5, <1>7, <1>8, <1>9, <1>10 DEF MatchersInv

\* The matcher is not touched by a scan.
LEMMA MatcherStays ==
    ASSUME MatchersInv, UNCHANGED <<plan, matcher>>, phase # "cover", phase' # "cover",
           phase' # "planned", phase' # "panic", phase # "planned", MatchersTypeOK',
           phase' = "blocks" =>
                stream' \in Streams(cover') /\ at' >= stream'.first /\ hits' = CoveredBelow(at)'
    PROVE  MatchersInv'
<1>1. cpu' = cpu /\ cover' = cover /\ isa' = isa /\ kind' = kind /\ matcher' = matcher
  BY DEF plan
<1>2. phase \in {"prepared", "blocks"}
  BY DEF MatchersInv, MatchersTypeOK
<1>3. KernelIsPrepared /\ matcher.needs \subseteq cpu.features
  BY <1>2 DEF MatchersInv
<1>4. KernelIsPrepared'
  BY <1>1, <1>3 DEF KernelIsPrepared, Kernel, Covered
<1>5. matcher'.needs \subseteq cpu'.features
  BY <1>1, <1>3
<1>6. isa' = detect_isa(cpu') /\ kind' = cheapest(isa', cover') /\ cpu' \in Cpus /\ cover' \in Covers
  BY <1>1 DEF MatchersInv
<1> QED
  BY <1>4, <1>5, <1>6 DEF MatchersInv

LEMMA StreamTyped ==
    ASSUME cover \in Covers, NEW s \in Streams(cover)
    PROVE  /\ s.codes \in Seq(Code) /\ Len(s.codes) \in Nat
           /\ s.first \in Nat /\ s.first <= Len(s.codes)
<1>1. s.codes \in Seq(Code) /\ s.first \in 0 .. Len(s.codes)
  BY BlockAssumption
<1> QED
  BY <1>1

LEMMA StartScanInv ==
    ASSUME MatchersInv, StartScan
    PROVE  MatchersInv'
<1>1. /\ phase = "prepared" /\ phase' = "blocks" /\ UNCHANGED <<plan, matcher>>
      /\ stream' \in Streams(cover) /\ at' = stream'.first /\ bits' = NoBits /\ hits' = {}
      /\ skip' \in BOOLEAN /\ cover' = cover /\ isa' = isa /\ kind' = kind
  BY DEF StartScan, skip_empty_packing, plan
<1> DEFINE s == stream'
           from == at'
<1>2. /\ s.codes \in Seq(Code) /\ Len(s.codes) \in Nat
      /\ s.first \in Nat /\ s.first <= Len(s.codes) /\ from = s.first
  BY <1>1, StreamTyped DEF MatchersInv
<1>3. CoveredBelow(at)' =
        {m \in s.first .. SmallerOf(from, Len(s.codes)) - 1 : s.codes[m + 1] \in Covered'}
  BY DEF CoveredBelow, Codes
<1> HIDE DEF s, from
<1>4. s.first .. SmallerOf(from, Len(s.codes)) - 1 = {}
  BY <1>2 DEF SmallerOf
<1>5. CoveredBelow(at)' = {}
  BY <1>3, <1>4
<1>6. from >= s.first /\ from \in Nat
  BY <1>2
<1>7. NoBits \in [Words -> SUBSET (0 .. 63)]
  BY DEF NoBits
<1>8. MatchersTypeOK'
  BY <1>1, <1>6, <1>7 DEF MatchersInv, MatchersTypeOK, Words, from
<1> QED
  BY <1>1, <1>5, <1>6, <1>8, MatcherStays DEF s, from

LEMMA BlockTyped ==
    ASSUME cover \in Covers, stream \in Streams(cover), at \in Nat, at < Len(Codes)
    PROVE  /\ Block \in BlockType
           /\ \A n \in 0 .. Valid - 1 : /\ n \in 0 .. BlockLen - 1 /\ at + n < Len(Codes)
                                        /\ Block[n] = Codes[at + n + 1]
           /\ Valid \in Nat /\ Valid <= BlockLen /\ Len(Codes) \in Nat
           /\ SmallerOf(at + BlockLen, Len(Codes)) = at + Valid
           /\ BlockLen \in Nat
<1> DEFINE len == Len(Codes)
<1>1. Codes \in Seq(Code) /\ len \in Nat /\ BlockLen \in Nat /\ BlockLen > 0 /\ at < len
  BY StreamTyped, BlockAssumption DEF Codes
<1>2. 0 \in Code
  BY SMT DEF Code, Width
<1>3. ASSUME NEW n \in 0 .. BlockLen - 1, at + n < len
      PROVE  Codes[at + n + 1] \in Code
  <2> DEFINE i == at + n + 1
  <2>1. i \in 1 .. len
    BY <1>1, <1>3
  <2> HIDE DEF i
  <2> QED
    BY <1>1, <2>1 DEF i
<1>4. Block = [n \in 0 .. BlockLen - 1 |-> IF at + n < len THEN Codes[at + n + 1] ELSE 0]
  BY DEF Block
<1> DEFINE v == Valid
<1>5. v = IF BlockLen <= len - at THEN BlockLen ELSE len - at
  BY DEF Valid, SmallerOf
<1>6. SmallerOf(at + BlockLen, len) = IF at + BlockLen <= len THEN at + BlockLen ELSE len
  BY DEF SmallerOf
<1> HIDE DEF len, v
<1>7. Block \in BlockType
  BY <1>2, <1>3, <1>4 DEF BlockType
<1>8. v \in Nat /\ v <= BlockLen /\ SmallerOf(at + BlockLen, len) = at + v /\ v <= len - at
  BY <1>1, <1>5, <1>6
<1>9. \A n \in 0 .. v - 1 : n \in 0 .. BlockLen - 1 /\ at + n < len
  BY <1>1, <1>8
<1>10. \A n \in 0 .. v - 1 : Block[n] = Codes[at + n + 1]
  BY <1>4, <1>9
<1> QED
  BY <1>1, <1>7, <1>8, <1>9, <1>10 DEF v, len

\* The hits of a block are those of the codes of the stream in it.
LEMMA BlockAdds ==
    ASSUME cover \in Covers, stream \in Streams(cover), at \in Nat, at < Len(Codes), at >= stream.first
    PROVE  CoveredBelow(at + BlockLen) =
                CoveredBelow(at) \cup {at + n : n \in {m \in 0 .. Valid - 1 : Block[m] \in Covered}}
<1> DEFINE len == Len(Codes)
           v == Valid
           first == stream.first
           H(m) == Codes[m + 1] \in Covered
<1>1. /\ \A n \in 0 .. v - 1 : Block[n] = Codes[at + n + 1]
      /\ v \in Nat /\ len \in Nat /\ SmallerOf(at + BlockLen, len) = at + v
  BY BlockTyped
<1>2. first \in Nat /\ first <= at
  BY StreamTyped
<1>3. SmallerOf(at, len) = at
  BY <1>1 DEF SmallerOf
<1>4. /\ CoveredBelow(at + BlockLen) = {m \in first .. at + v - 1 : H(m)}
      /\ CoveredBelow(at) = {m \in first .. at - 1 : H(m)}
  BY <1>1, <1>3 DEF CoveredBelow
<1>5. \A n \in 0 .. v - 1 : Block[n] \in Covered <=> H(at + n)
  BY <1>1
<1> HIDE DEF v, first, H
<1>6. ASSUME NEW m
      PROVE  m \in first .. at + v - 1 <=> m \in first .. at - 1 \/ \E n \in 0 .. v - 1 : m = at + n
  <2>1. ASSUME m \in first .. at + v - 1, ~(m \in first .. at - 1)
        PROVE  m - at \in 0 .. v - 1 /\ m = at + (m - at)
    BY <1>1, <1>2, <2>1
  <2>2. ASSUME m \in first .. at - 1
        PROVE  m \in first .. at + v - 1
    BY <1>1, <1>2, <2>2
  <2>3. ASSUME NEW n \in 0 .. v - 1, m = at + n
        PROVE  m \in first .. at + v - 1
    BY <1>1, <1>2, <2>3
  <2> QED
    BY <2>1, <2>2, <2>3
<1>7. {m \in first .. at + v - 1 : H(m)} =
            {m \in first .. at - 1 : H(m)} \cup {at + n : n \in {m \in 0 .. v - 1 : Block[m] \in Covered}}
  BY <1>5, <1>6
<1> QED
  BY <1>4, <1>7 DEF v

\* What is left of an exact mask after clear_from.
LEMMA ClearedBits ==
    ASSUME NEW codes, NEW v \in Nat, v <= BlockLen, NEW n
    PROVE  (\E w \in Words : \E lane \in clear_from(CoveredBits(codes), v)[w] : n = 64 * w + lane)
            <=> n \in {m \in 0 .. v - 1 : codes[m] \in Covered}
<1> DEFINE C(w) == clear_from(CoveredBits(codes), v)[w]
<1>1. ASSUME NEW w \in Words
      PROVE  C(w) = {lane \in 0 .. 63 : codes[64 * w + lane] \in Covered /\ 64 * w + lane < v}
  BY DEF clear_from, CoveredBits
<1> HIDE DEF C
<1>2. ASSUME NEW w \in Words, NEW lane \in C(w), n = 64 * w + lane
      PROVE  n \in {m \in 0 .. v - 1 : codes[m] \in Covered}
  <2>1. lane \in 0 .. 63 /\ codes[n] \in Covered /\ n < v
    BY <1>1, <1>2
  <2>2. w \in Nat
    BY WordsArePairs
  <2>3. n \in Nat
    BY <1>2, <2>1, <2>2
  <2> QED
    BY <2>1, <2>3
<1>3. ASSUME n \in 0 .. v - 1, codes[n] \in Covered
      PROVE  \E w \in Words : \E lane \in C(w) : n = 64 * w + lane
  <2> DEFINE w == n \div 64
             lane == n % 64
  <2>1. n \in 0 .. BlockLen - 1
    <3>1. BlockLen \in Nat
      BY BlockAssumption
    <3> QED
      BY <1>3, <3>1
  <2>2. w \in Words /\ lane \in 0 .. 63 /\ n = 64 * w + lane
    BY <2>1, WordsArePairs
  <2>3. n < v
    BY <1>3
  <2> HIDE DEF w, lane
  <2>4. lane \in C(w)
    BY <1>1, <1>3, <2>2, <2>3
  <2> QED
    BY <2>2, <2>4
<1> QED
  BY <1>2, <1>3 DEF C

LEMMA ScanBlockInv ==
    ASSUME MatchersInv, ScanBlock
    PROVE  MatchersInv'
<1> DEFINE result == check(Block)
           new == {n \in 0 .. Valid - 1 : Block[n] \in Covered}
           found == CoveredBits(Block)
<1>1. /\ phase = "blocks" /\ at < Len(Codes) /\ at' = at + BlockLen /\ UNCHANGED <<plan, matcher>>
      /\ phase' = "blocks" /\ stream' = stream /\ skip' = skip /\ cover' = cover /\ isa' = isa /\ kind' = kind
      /\ result.written =>
            /\ bits' = clear_from(result.bits, Valid)
            /\ hits' = hits \cup UNION {{at + 64 * w + lane : lane \in bits'[w]} : w \in Words}
      /\ ~result.written => bits' = result.bits /\ hits' = hits
  BY DEF ScanBlock, plan
<1>2. /\ cover \in Covers /\ KernelIsPrepared /\ bits \in MaskType /\ stream \in Streams(cover)
      /\ at \in Nat /\ at >= stream.first /\ hits = CoveredBelow(at) /\ hits \subseteq Nat
      /\ skip \in BOOLEAN
  BY <1>1 DEF MatchersInv, MatchersTypeOK, MaskType
<1>3. /\ Block \in BlockType /\ Valid \in Nat /\ Valid <= BlockLen /\ BlockLen \in Nat
      /\ \A n \in 0 .. Valid - 1 : n \in 0 .. BlockLen - 1
  BY <1>1, <1>2, BlockTyped
<1>4. IsExact(result, Block)
  BY <1>2, <1>3, CheckExact
<1>5. CoveredBelow(at + BlockLen) = CoveredBelow(at) \cup {at + n : n \in new}
  BY <1>1, <1>2, BlockAdds
<1>6. \A n : (\E w \in Words : \E lane \in clear_from(found, Valid)[w] : n = 64 * w + lane) <=> n \in new
  BY <1>3, ClearedBits
<1> HIDE DEF result
<1>7. hits' = CoveredBelow(at + BlockLen) /\ bits' \in MaskType
  <2>1. CASE result.written
    <3>1. bits' = clear_from(found, Valid)
      BY <1>1, <1>4, <2>1 DEF IsExact
    <3>2. bits' \in MaskType
      BY <3>1 DEF clear_from, CoveredBits, MaskType
    <3> DEFINE B(w) == clear_from(found, Valid)[w]
    <3>3. hits' = hits \cup UNION {{at + 64 * w + lane : lane \in B(w)} : w \in Words}
      BY <1>1, <2>1, <3>1
    <3>4. \A w \in Words : B(w) \subseteq 0 .. 63 /\ w \in Nat
      BY WordsArePairs DEF clear_from, CoveredBits
    <3> HIDE DEF B, new
    <3>5. \A w \in Words : \A lane \in B(w) : at + 64 * w + lane = at + (64 * w + lane)
      BY <1>2, <3>4
    <3>6. UNION {{at + 64 * w + lane : lane \in B(w)} : w \in Words} = {at + n : n \in new}
      <4>1. \A n : (\E w \in Words : \E lane \in B(w) : n = 64 * w + lane) <=> n \in new
        BY <1>6 DEF B
      <4>2. ASSUME NEW x
            PROVE  (\E w \in Words : \E lane \in B(w) : x = at + 64 * w + lane) <=> \E n \in new : x = at + n
        BY <3>5, <4>1
      <4> DEFINE U == UNION {{at + 64 * w + lane : lane \in B(w)} : w \in Words}
      <4>3. ASSUME NEW x
            PROVE  x \in U <=> \E w \in Words : \E lane \in B(w) : x = at + 64 * w + lane
        OBVIOUS
      <4> HIDE DEF U
      <4>4. ASSUME NEW x
            PROVE  x \in U <=> x \in {at + n : n \in new}
        BY <4>2, <4>3
      <4>5. U = {at + n : n \in new}
        BY <4>4
      <4> QED
        BY <4>5 DEF U
    <3> QED
      BY <1>2, <1>5, <3>2, <3>3, <3>6
  <2>2. CASE ~result.written
    <3>1. bits' = result.bits /\ hits' = hits /\ bits' \in MaskType
      BY <1>1, <1>4, <2>2 DEF IsExact
    <3>2. \A w \in Words : found[w] = {}
      BY <1>4, <2>2 DEF IsExact
    <3>3. new = {}
      <4> SUFFICES ASSUME NEW n \in 0 .. Valid - 1, Block[n] \in Covered PROVE FALSE
        OBVIOUS
      <4>1. n \div 64 \in Words /\ n % 64 \in 0 .. 63 /\ n = 64 * (n \div 64) + (n % 64)
        BY <1>3, WordsArePairs
      <4>2. n % 64 \in found[n \div 64]
        BY <4>1 DEF CoveredBits
      <4> QED
        BY <3>2, <4>1, <4>2
    <3> HIDE DEF new
    <3> QED
      BY <1>2, <1>5, <3>1, <3>3
  <2> QED
    BY <2>1, <2>2
<1>8. CoveredBelow(at + BlockLen) \subseteq Nat /\ at + BlockLen \in Nat /\ at + BlockLen >= stream.first
  <2>1. stream.first \in Nat /\ Len(Codes) \in Nat
    BY <1>2, StreamTyped DEF Codes
  <2>2. CoveredBelow(at + BlockLen) \subseteq Nat
    BY <2>1 DEF CoveredBelow, SmallerOf
  <2> QED
    BY <1>2, <1>3, <2>1, <2>2
<1>9. CoveredBelow(at)' = CoveredBelow(at + BlockLen)
  BY <1>1 DEF CoveredBelow, Codes, Covered
<1>10. MatchersTypeOK'
  BY <1>1, <1>2, <1>7, <1>8 DEF MatchersInv, MatchersTypeOK, MaskType, Words
<1>11. stream' \in Streams(cover') /\ at' >= stream'.first /\ hits' = CoveredBelow(at)'
  BY <1>1, <1>2, <1>7, <1>8, <1>9
<1> QED
  BY <1>1, <1>10, <1>11, MatcherStays

LEMMA EndScanInv ==
    ASSUME MatchersInv, EndScan
    PROVE  MatchersInv'
<1>1. /\ phase = "blocks" /\ phase' = "prepared" /\ UNCHANGED <<plan, matcher>>
      /\ stream' = NoStream /\ at' = 0 /\ skip' = FALSE /\ bits' = NoBits /\ hits' = {}
      /\ isa' = isa /\ kind' = kind
  BY DEF EndScan, plan
<1>2. NoBits \in [Words -> SUBSET (0 .. 63)]
  BY DEF NoBits
<1>3. MatchersTypeOK'
  BY <1>1, <1>2 DEF MatchersInv, MatchersTypeOK, Words
<1> QED
  BY <1>1, <1>3, MatcherStays

\* The inductive invariant of the planning and the scans: see MatchersInv.
THEOREM MatchersInvHolds == MatchersSpec => []MatchersInv
<1>1. MatchersInit => MatchersInv
  BY MatchersInitInv
<1>2. MatchersInv /\ [MatchersNext]_matchers_vars => MatchersInv'
  <2> SUFFICES ASSUME MatchersInv, [MatchersNext]_matchers_vars PROVE MatchersInv'
    OBVIOUS
  <2>1. CASE Plan
    BY <2>1, PlanInv
  <2>2. CASE Prepare
    BY <2>2, PrepareInv
  <2>3. CASE StartScan
    BY <2>3, StartScanInv
  <2>4. CASE ScanBlock
    BY <2>4, ScanBlockInv
  <2>5. CASE EndScan
    BY <2>5, EndScanInv
  <2>6. CASE UNCHANGED matchers_vars
    <3>1. /\ phase' = phase /\ cpu' = cpu /\ cover' = cover /\ isa' = isa /\ kind' = kind
          /\ matcher' = matcher /\ stream' = stream /\ at' = at /\ skip' = skip
          /\ bits' = bits /\ hits' = hits
      BY <2>6 DEF matchers_vars, plan, scan
    <3>2. MatchersTypeOK'
      BY <3>1 DEF MatchersInv, MatchersTypeOK, Words
    <3>3. KernelIsPrepared => KernelIsPrepared'
      BY <3>1 DEF KernelIsPrepared, Kernel, Covered
    <3>4. CoveredBelow(at)' = CoveredBelow(at)
      BY <3>1 DEF CoveredBelow, Codes, Covered
    <3> QED
      BY <3>1, <3>2, <3>3, <3>4 DEF MatchersInv
  <2> QED
    BY <2>1, <2>2, <2>3, <2>4, <2>5, <2>6 DEF MatchersNext
<1> QED
  BY <1>1, <1>2, PTL DEF MatchersSpec

\* For every cover, CPU and stream, and blocks of any size: what is planned can be built,
\* dispatch never panics, and the kernel runs on the CPU (dispatch.rs).
THEOREM MatcherRunsAsPlanned == MatchersSpec => []PlannedMatcherRuns
<1>1. MatchersInv => PlannedMatcherRuns
  <2> SUFFICES ASSUME MatchersInv PROVE PlannedMatcherRuns
    OBVIOUS
  <2>1. matcher.needs \subseteq cpu.features
    <3>1. phase \in {"cover", "planned"} \/ phase \in {"prepared", "blocks"}
      BY DEF MatchersInv, MatchersTypeOK
    <3>2. NoMatcher.needs = {}
      BY DEF NoMatcher
    <3> QED
      BY <3>1, <3>2 DEF MatchersInv
  <2> QED
    BY <2>1 DEF PlannedMatcherRuns, MatchersInv
<1> QED
  BY <1>1, MatchersInvHolds, PTL

\* For covers of any number of points: the cost model has the crossovers that it promises
\* (plan/cost.rs:14-22).
THEOREM CrossoversHold == MatchersSpec => []Crossovers
<1>1. MatchersInv => Crossovers
  <2> SUFFICES ASSUME MatchersInv, phase = "planned", cover.ranges = <<>>
               PROVE  LET points == Len(cover.points)
                          beats(this, other) ==
                              matcher_cost(of(isa), this, cover) < matcher_cost(of(isa), other, cover)
                      IN  /\ isa = "Neon" =>
                              /\ beats("EqOr", "Table") <=> points <= 10
                              /\ beats("Nibble", "EqOr") <=> points >= 4
                              /\ beats("Nibble", "Table") <=> points <= 24
                          /\ isa = "Neon" => kind = CASE points \in 1 .. 3 -> "EqOr"
                                                      [] points \in 4 .. 24 -> "Nibble"
                                                      [] OTHER -> "Table"
                          /\ isa = "Avx512Bw" =>
                                (kind = "Nibble" <=> points \in 5 .. MaxNibbleBatches * PerBatch)
    BY DEF Crossovers
  <2> DEFINE n == Len(cover.points)
             beats(this, other) ==
                 matcher_cost(of(isa), this, cover) < matcher_cost(of(isa), other, cover)
  <2>1. cover.points \in Seq(Code) /\ n \in Nat /\ kind = cheapest(isa, cover)
    BY CoverTyped DEF MatchersInv
  <2>2. cover.ranges = <<>>
    OBVIOUS
  <2>3. CheapestFor(n, cover)
    BY Zenon, <2>1, <2>2, CheapestOfPoints
  <2> HIDE DEF n
  <2>4. /\ n = 0 => cheapest("Neon", cover) = "Table"
        /\ n \in 1 .. 3 => cheapest("Neon", cover) = "EqOr"
        /\ n \in 4 .. 24 => cheapest("Neon", cover) = "Nibble"
        /\ n > 24 => cheapest("Neon", cover) = "Table"
        /\ cheapest("Avx512Bw", cover) = "Nibble" <=> n \in 5 .. 32
    BY <2>3 DEF CheapestFor
  <2>5. MaxNibbleBatches * PerBatch = 32
    BY DEF MaxNibbleBatches, PerBatch
  <2>6. n = 0 \/ n \in 1 .. 3 \/ n \in 4 .. 24 \/ n > 24
    <3>1. n \in Nat
      BY <2>1
    <3> QED
      BY ONLY <3>1
  <2>7. isa = "Neon" => kind = CASE n \in 1 .. 3 -> "EqOr"
                                 [] n \in 4 .. 24 -> "Nibble"
                                 [] OTHER -> "Table"
    BY <2>1, <2>4, <2>6
  <2>8. isa = "Avx512Bw" => (kind = "Nibble" <=> n \in 5 .. MaxNibbleBatches * PerBatch)
    BY <2>1, <2>4, <2>5
  <2>9. isa = "Neon" =>
            /\ beats("EqOr", "Table") <=> n <= 10
            /\ beats("Nibble", "EqOr") <=> n >= 4
            /\ beats("Nibble", "Table") <=> n <= 24
    BY <2>3 DEF CheapestFor, NeonCrossovers, Beats
  <2> QED
    BY <2>7, <2>8, <2>9 DEF n
<1> QED
  BY <1>1, MatchersInvHolds, PTL

\* For every cover, CPU and stream, and blocks of any size: with every kernel, and whether
\* or not empty pairs are skipped, the resolver gets exactly the positions of the cover's
\* codes (scan/mod.rs, matcher/).
THEOREM ResolverGetsExactHits == MatchersSpec => []HitsAreExact
<1>1. MatchersInv => HitsAreExact
  BY DEF MatchersInv, HitsAreExact, CoveredBelow
<1> QED
  BY <1>1, MatchersInvHolds, PTL
=============================================================================
