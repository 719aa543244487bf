----------------------------- MODULE LanesProofs -----------------------------
(***************************************************************************)
(* Proofs about Lanes.  Its inductive invariant says, of every lane of a   *)
(* batch, where it is (PlaceInv), that its buffers keep their size         *)
(* (BufferInv), and what they hold (CodesInv): the codes the lane has      *)
(* written, followed by the greedy codes of the rest of its row, are those *)
(* of all its rows up to and with this one.  A round moves a code from the *)
(* second part to the first, ends a row, or, for an idle lane, writes to   *)
(* the spare slots only.  Joining the lanes in order then delivers the     *)
(* codes of the batch, which makes every step one of GreedyEncoding or a   *)
(* stutter.                                                                *)
(***************************************************************************)
EXTENDS Lanes, ByteStringsProofs, FiniteSetTheorems

-----------------------------------------------------------------------------
(***************************************************************************)
(* Batches, and how their rows are dealt.                                  *)
(***************************************************************************)

LEMMA DivMonotone ==
    ASSUME NEW a \in Nat, NEW b \in Nat, a <= b, NEW n \in Nat \ {0}
    PROVE  a \div n \in Nat /\ a \div n <= b \div n
<1>1. a \div n \in Nat
  OBVIOUS
<1>2. a \div n <= b \div n
  OBVIOUS
<1> QED
  BY <1>1, <1>2

LEMMA TimesMonotone ==
    ASSUME NEW s \in Nat, NEW j \in Nat
    PROVE  s * j \in Nat /\ s * j <= s * (j + 1)
OBVIOUS

\* The parser's input, and the first row of the batch.
InputInv ==
    /\ vocab \in Vocabularies /\ rows \in Corpora
    /\ copies \in BOOLEAN /\ lead \in Nat
    /\ start \in 0 .. Len(rows)

LEMMA InputFacts ==
    ASSUME InputInv
    PROVE  /\ Conforms(vocab) /\ rows \in Seq(ByteSeq) /\ Len(rows) \in Nat /\ start \in Nat
           /\ \A i \in 0 .. Len(rows) : ByteCount(rows, i) \in Nat
           /\ \A i \in 1 .. Len(rows) :
                /\ rows[i] \in ByteSeq /\ Len(rows[i]) \in Nat
                /\ ByteCount(rows, i) = ByteCount(rows, i - 1) + Len(rows[i])
<1>1. Conforms(vocab) /\ rows \in Seq(ByteSeq)
  BY GreedyAssumption DEF InputInv
<1>2. Len(rows) \in Nat /\ \A i \in 1 .. Len(rows) : rows[i] \in ByteSeq
  BY <1>1, LenProperties, ElementOfSeq
<1>3. \A i \in 1 .. Len(rows) : Len(rows[i]) \in Nat
  BY <1>2, LenProperties DEF ByteSeq
<1>4. start \in Nat
  BY <1>2 DEF InputInv
<1> QED
  BY <1>1, <1>2, <1>3, <1>4, ByteCountSteps

\* Sizes and offsets of a batch differ by its first offset, and ascend.
LEMMA OffsetFacts ==
    ASSUME InputInv, NEW a \in 0 .. Len(rows) - start, NEW b \in a .. Len(rows) - start
    PROVE  /\ Size(0) = 0 /\ Size(a) \in Nat /\ Size(b) \in Nat /\ Size(a) <= Size(b)
           /\ Offset(a) \in Nat /\ Offset(b) \in Nat /\ Offset(a) <= Offset(b)
           /\ Offset(b) - Offset(a) = Size(b) - Size(a)
           /\ a < Len(rows) - start =>
                /\ start + a + 1 \in 1 .. Len(rows) /\ Len(rows[start + a + 1]) \in Nat
                /\ Offset(a + 1) = Offset(a) + Len(rows[start + a + 1])
<1>1. /\ rows \in Seq(ByteSeq) /\ Len(rows) \in Nat /\ start \in Nat /\ start <= Len(rows)
      /\ lead \in Nat /\ copies \in BOOLEAN /\ start \in 0 .. Len(rows)
  BY InputFacts DEF InputInv
<1>2. /\ a \in Nat /\ b \in Nat /\ start + a \in 0 .. Len(rows) /\ start + b \in 0 .. Len(rows)
      /\ start + b \in start + a .. Len(rows) /\ start + a \in start .. Len(rows)
      /\ start + 0 = start
  BY <1>1
<1> DEFINE B0 == ByteCount(rows, start)
           Ba == ByteCount(rows, start + a)
           Bb == ByteCount(rows, start + b)
<1>3. B0 \in Nat /\ Ba \in Nat /\ Bb \in Nat
  BY <1>1, <1>2, InputFacts
<1>4. B0 <= Ba /\ Ba <= Bb
  BY <1>1, <1>2, ByteCountMonotone
<1>5. /\ Size(0) = B0 - B0 /\ Size(a) = Ba - B0 /\ Size(b) = Bb - B0
      /\ Offset(a) = (IF copies THEN Ba - B0 ELSE lead + Ba)
      /\ Offset(b) = (IF copies THEN Bb - B0 ELSE lead + Bb)
  BY <1>2 DEF Size, Offset
<1> HIDE DEF B0, Ba, Bb
<1>6. /\ Size(0) = 0 /\ Size(a) \in Nat /\ Size(b) \in Nat /\ Size(a) <= Size(b)
      /\ Offset(a) \in Nat /\ Offset(b) \in Nat /\ Offset(a) <= Offset(b)
      /\ Offset(b) - Offset(a) = Size(b) - Size(a)
  BY <1>1, <1>3, <1>4, <1>5
<1>7. ASSUME a < Len(rows) - start
      PROVE  /\ start + a + 1 \in 1 .. Len(rows) /\ Len(rows[start + a + 1]) \in Nat
             /\ Offset(a + 1) = Offset(a) + Len(rows[start + a + 1])
  <2> DEFINE i == start + a + 1
             Bi == ByteCount(rows, i)
  <2>1. i \in 1 .. Len(rows) /\ i - 1 = start + a /\ start + (a + 1) = i
    BY <1>1, <1>2, <1>7
  <2>2. Len(rows[i]) \in Nat /\ Bi = Ba + Len(rows[i])
    BY <2>1, InputFacts DEF Ba
  <2>3. Offset(a + 1) = (IF copies THEN Bi - B0 ELSE lead + Bi)
    BY <2>1 DEF Offset, B0
  <2> HIDE DEF i, Bi
  <2>4. Offset(a + 1) = Offset(a) + Len(rows[i])
    <3> DEFINE len == Len(rows[i])
    <3> HIDE DEF len
    <3>1. len \in Nat /\ Bi = Ba + len
      BY <2>2 DEF len
    <3>2. Offset(a + 1) = Offset(a) + len
      <4>1. CASE copies
        BY <1>1, <1>3, <1>5, <2>3, <3>1, <4>1
      <4>2. CASE ~copies
        BY <1>1, <1>3, <1>5, <2>3, <3>1, <4>2
      <4> QED
        BY <4>1, <4>2
    <3> QED
      BY <3>2 DEF len
  <2> QED
    BY <2>1, <2>2, <2>4 DEF i
<1> QED
  BY <1>6, <1>7

\* There is a next batch, of one row at least.
LEMMA BatchRowsFound ==
    ASSUME InputInv, start < Len(rows)
    PROVE  BatchRows \in 1 .. Len(rows) - start
<1> DEFINE R == Len(rows) - start
           P(n) == IF copies
                   THEN /\ \A k \in 1 .. n - 1 : Size(k) < BatchBytes
                        /\ start + n < Len(rows) => Size(n) >= BatchBytes
                   ELSE /\ n > 1 => Size(n) <= BatchBytes
                        /\ start + n < Len(rows) => Size(n + 1) > BatchBytes
           Ends == {n \in 1 .. R : IF copies
                                   THEN start + n < Len(rows) => Size(n) >= BatchBytes
                                   ELSE start + n < Len(rows) => Size(n + 1) > BatchBytes}
<1>0. R \in Nat /\ Len(rows) \in Nat /\ start \in Nat
  BY InputFacts
<1>1. R \in Nat /\ R # 0 /\ Len(rows) \in Nat /\ start \in Nat /\ start + R = Len(rows)
  BY <1>0
<1>2. ASSUME NEW k \in 1 .. R
      PROVE  Size(k) \in Nat
  <2>1. k \in 0 .. R /\ k \in k .. R
    BY <1>0
  <2> QED
    BY <2>1, OffsetFacts
<1>3. BatchBytes \in Nat
  BY LanesAssumption
<1> HIDE DEF R
<1>4. R \in Ends
  BY <1>1
<1>5. PICK n \in Ends : \A m \in Ends : n <= m
  <2>1. Ends \in SUBSET Nat
    BY <1>1
  <2> HIDE DEF Ends
  <2> QED
    BY <1>4, <2>1, LeastNatural
<1>6. n \in 1 .. R /\ \A k \in 1 .. n - 1 : k \in 1 .. R /\ start + k < Len(rows) /\ k \notin Ends
  BY <1>1, <1>5
<1>7. P(n)
  <2>1. CASE copies
    <3>1. \A k \in 1 .. n - 1 : Size(k) < BatchBytes
      BY <1>2, <1>3, <1>6, <2>1
    <3> QED
      BY <1>5, <2>1, <3>1
  <2>2. CASE ~copies
    <3>1. ASSUME n > 1 PROVE Size(n) <= BatchBytes
      <4>1. n - 1 \in 1 .. n - 1 /\ (n - 1) + 1 = n
        BY <1>6, <3>1
      <4>2. ~(Size((n - 1) + 1) > BatchBytes)
        BY <1>6, <2>2, <4>1
      <4> QED
        BY <1>2, <1>3, <1>6, <4>1, <4>2
    <3> QED
      BY <1>5, <2>2, <3>1
  <2> QED
    BY <2>1, <2>2
<1>8. BatchRows = CHOOSE m \in 1 .. R : P(m)
  BY DEF BatchRows, R
<1> HIDE DEF P
<1>9. BatchRows \in 1 .. R
  BY <1>6, <1>7, <1>8, Zenon
<1> QED
  BY <1>9 DEF R

\* The lanes share the rows of a batch out in order.
LEMMA LaneBoundsAscend ==
    ASSUME InputInv, NEW n \in 1 .. Len(rows) - start
    PROVE  LET b == LaneBounds(n)
           IN  /\ b \in [0 .. NumLanes -> 0 .. n]
               /\ b[0] = 0 /\ b[NumLanes] = n
               /\ \A j \in LaneIds : b[j] <= b[j + 1]
<1> DEFINE b == LaneBounds(n)
           Target(j) == (Size(n) * j) \div NumLanes
           Below(j) == {k \in 0 .. n : Size(k) < Target(j)}
<1>1. /\ n \in Nat /\ Len(rows) \in Nat /\ start \in Nat /\ NumLanes \in Nat \ {0}
      /\ Size(n) \in Nat /\ \A k \in 0 .. n : Size(k) \in Nat
  <2>1. n \in Nat /\ Len(rows) \in Nat /\ start \in Nat /\ NumLanes \in Nat \ {0}
    BY InputFacts, LanesAssumption
  <2>2. \A k \in 0 .. n : Size(k) \in Nat
    BY <2>1, OffsetFacts
  <2> QED
    BY <2>1, <2>2
<1>2. \A j \in Nat : IsFiniteSet(Below(j)) /\ Cardinality(Below(j)) \in Nat
  <2> TAKE j \in Nat
  <2>1. IsFiniteSet(0 .. n)
    BY <1>1, FS_Interval
  <2>2. Below(j) \subseteq 0 .. n
    OBVIOUS
  <2> HIDE DEF Below
  <2> QED
    BY <2>1, <2>2, FS_Subset, FS_CardinalityType
<1>3. ASSUME NEW j \in Nat
      PROVE  Cardinality(Below(j)) <= Cardinality(Below(j + 1))
  <2>1. Target(j) \in Nat /\ Target(j + 1) \in Nat /\ Target(j) <= Target(j + 1)
    <3> DEFINE s == Size(n)
    <3> HIDE DEF s
    <3>1. s \in Nat
      BY <1>1 DEF s
    <3>2. s * j \in Nat /\ s * (j + 1) \in Nat /\ s * j <= s * (j + 1)
      BY <3>1, TimesMonotone
    <3>3. /\ (s * j) \div NumLanes \in Nat /\ (s * (j + 1)) \div NumLanes \in Nat
          /\ (s * j) \div NumLanes <= (s * (j + 1)) \div NumLanes
      BY <1>1, <3>2, DivMonotone
    <3> QED
      BY <3>3 DEF s
  <2> HIDE DEF Target
  <2>2. Below(j) \subseteq Below(j + 1)
    BY <1>1, <2>1
  <2>3. IsFiniteSet(Below(j + 1))
    BY <1>2
  <2> HIDE DEF Below
  <2> QED
    BY <2>2, <2>3, FS_Subset
<1>4. \A j \in 0 .. NumLanes : b[j] = IF j = 0 THEN 0
                                      ELSE IF j = NumLanes THEN n
                                      ELSE Least(n, Cardinality(Below(j)))
  BY DEF LaneBounds
<1>5. DOMAIN b = 0 .. NumLanes /\ b = [j \in 0 .. NumLanes |-> b[j]]
  BY DEF LaneBounds
<1> HIDE DEF b, Below
<1>6. \A j \in 0 .. NumLanes : b[j] \in 0 .. n
  <2> TAKE j \in 0 .. NumLanes
  <2>1. j \in Nat /\ 0 \in 0 .. n /\ n \in 0 .. n
    BY <1>1
  <2> DEFINE c == Cardinality(Below(j))
  <2>2. c \in Nat
    BY <1>2, <2>1
  <2> HIDE DEF c
  <2>3. Least(n, c) \in 0 .. n
    BY <1>1, <2>2 DEF Least
  <2> QED
    BY <1>4, <2>1, <2>3 DEF c
<1>7. ASSUME NEW j \in LaneIds
      PROVE  b[j] <= b[j + 1]
  <2>1. j \in Nat /\ j \in 0 .. NumLanes /\ j + 1 \in 0 .. NumLanes /\ j # NumLanes /\ j + 1 # 0
    BY <1>1 DEF LaneIds
  <2>2. CASE j = 0
    BY <1>1, <1>4, <1>6, <2>1, <2>2
  <2>3. CASE j + 1 = NumLanes
    <3>1. b[j + 1] = n
      BY <1>4, <2>1, <2>3
    <3> QED
      BY <1>1, <1>6, <2>1, <3>1
  <2>4. CASE j # 0 /\ j + 1 # NumLanes
    <3>1. b[j] = Least(n, Cardinality(Below(j))) /\ b[j + 1] = Least(n, Cardinality(Below(j + 1)))
      BY <1>4, <2>1, <2>4
    <3>2. Cardinality(Below(j)) \in Nat /\ Cardinality(Below(j + 1)) \in Nat
      BY <1>2, <2>1
    <3>3. Cardinality(Below(j)) <= Cardinality(Below(j + 1))
      BY <1>3, <2>1
    <3> QED
      BY <1>1, <3>1, <3>2, <3>3 DEF Least
  <2> QED
    BY <2>2, <2>3, <2>4
<1>8. b[0] = 0 /\ b[NumLanes] = n
  BY <1>1, <1>4
<1>9. b \in [0 .. NumLanes -> 0 .. n]
  BY <1>5, <1>6
<1> QED
  BY <1>7, <1>8, <1>9 DEF b

\* What occurs in an occurrence occurs.
LEMMA OccursWithin ==
    ASSUME NEW S, NEW s \in Seq(S), NEW t \in Seq(S), NEW u \in Seq(S),
           NEW a \in Nat, NEW b \in Nat, StartsAt(s, a, t), StartsAt(t, b, u)
    PROVE  StartsAt(s, a + b, u)
<1>1. Len(s) \in Nat /\ Len(t) \in Nat /\ Len(u) \in Nat
  BY LenProperties
<1>2. /\ a + Len(t) <= Len(s) /\ \A k \in 1 .. Len(t) : s[a + k] = t[k]
      /\ b + Len(u) <= Len(t) /\ \A k \in 1 .. Len(u) : t[b + k] = u[k]
  BY DEF StartsAt
<1>3. (a + b) + Len(u) <= Len(s)
  BY <1>1, <1>2
<1>4. ASSUME NEW k \in 1 .. Len(u)
      PROVE  s[(a + b) + k] = u[k]
  <2>1. b + k \in 1 .. Len(t) /\ a + (b + k) = (a + b) + k
    BY <1>1, <1>2
  <2>2. s[a + (b + k)] = t[b + k]
    BY <1>2, <2>1
  <2> QED
    BY <1>2, <2>1, <2>2
<1> QED
  BY <1>3, <1>4 DEF StartsAt

\* Padding, or what precedes the rows in the caller's bytes.
LEMMA ZerosType ==
    ASSUME NEW n \in Nat
    PROVE  [k \in 1 .. n |-> 0] \in Seq(Byte) /\ Len([k \in 1 .. n |-> 0]) = n
<1>1. 0 \in Byte
  BY BytesAssumption DEF Byte
<1>2. [k \in 1 .. n |-> 0] \in [1 .. n -> Byte]
  BY <1>1
<1> QED
  BY <1>2

\* The bytes of every row of a batch are found at its offset, in the caller's bytes and
\* in a copy.
LEMMA DataHoldsRows ==
    ASSUME InputInv, NEW i \in 0 .. end - start - 1, end \in start .. Len(rows)
    PROVE  Data \in Seq(Byte) /\ StartsAt(Data, Offset(i), rows[start + i + 1])
<1> DEFINE r == rows[start + i + 1]
           part == SubSeq(rows, start + 1, end)
<1>1. /\ rows \in Seq(Seq(Byte)) /\ rows \in Seq(ByteSeq) /\ Len(rows) \in Nat
      /\ start \in Nat /\ end \in Nat /\ lead \in Nat
      /\ start \in 0 .. Len(rows) /\ MaxTokenSize \in Nat
  BY InputFacts, BytesAssumption DEF InputInv, ByteSeq
<1>2. /\ i \in Nat /\ start + i + 1 \in 1 .. Len(rows) /\ start + i \in 0 .. Len(rows)
      /\ (start + i + 1) - 1 = start + i /\ i + 1 \in 1 .. end - start /\ i \in 0 .. end - start
      /\ (i + 1) - 1 = i /\ start + (i + 1) = start + i + 1
      /\ start + i + 1 \in 0 .. Len(rows)
      /\ Len(rows) \in 0 .. Len(rows) /\ Len(rows) \in start + i + 1 .. Len(rows)
      /\ end - start \in i + 1 .. end - start
  BY <1>1
<1>3. /\ Flat(rows) \in Seq(Byte)
      /\ StartsAt(Flat(rows), ByteCount(rows, start + i), r)
  <2>1. Flat(rows) \in Seq(Byte)
    BY <1>1, <1>2, FlatToSteps DEF Flat
  <2>2. Len(FlatTo(rows)[start + i]) = ByteCount(rows, start + i)
    BY <1>1, <1>2, FlatToLength
  <2>3. StartsAt(FlatTo(rows)[Len(rows)], Len(FlatTo(rows)[(start + i + 1) - 1]), r)
    BY <1>1, <1>2, PiecesOfFlat
  <2> QED
    BY <1>2, <2>1, <2>2, <2>3 DEF Flat
<1>4. r \in Seq(Byte) /\ ByteCount(rows, start + i) \in Nat /\ ByteCount(rows, start) \in Nat
  BY <1>1, <1>2, ElementOfSeq, InputFacts
<1>5. /\ Flat(part) \in Seq(Byte)
      /\ StartsAt(Flat(part), ByteCount(rows, start + i) - ByteCount(rows, start), r)
      /\ ByteCount(rows, start + i) - ByteCount(rows, start) \in Nat
  <2>1. /\ part \in Seq(Seq(Byte)) /\ Len(part) = end - start
        /\ \A n \in 1 .. end - start : part[n] = rows[start + n]
    BY <1>1, MiddlePiece
  <2>2. /\ FlatTo(rows)[start] \o FlatTo(part)[i] = FlatTo(rows)[start + i]
        /\ FlatTo(part)[i] \in Seq(Byte)
    BY <1>1, <1>2, FlatToOfRest
  <2>3. /\ Len(FlatTo(rows)[start]) = ByteCount(rows, start)
        /\ Len(FlatTo(rows)[start + i]) = ByteCount(rows, start + i)
        /\ FlatTo(rows)[start] \in Seq(Byte)
    BY <1>1, <1>2, FlatToLength, FlatToSteps
  <2> HIDE DEF part
  <2>4. /\ Len(FlatTo(part)[i]) = ByteCount(rows, start + i) - ByteCount(rows, start)
        /\ Len(FlatTo(part)[i]) \in Nat
    <3>1. Len(FlatTo(rows)[start] \o FlatTo(part)[i])
              = Len(FlatTo(rows)[start]) + Len(FlatTo(part)[i])
      BY <2>2, <2>3, ConcatProperties
    <3>2. Len(FlatTo(part)[i]) \in Nat
      BY <2>2, LenProperties
    <3> QED
      BY <1>4, <2>2, <2>3, <3>1, <3>2
  <2>5. Flat(part) \in Seq(Byte)
    <3>1. Len(part) \in 0 .. Len(part)
      BY <1>2, <2>1
    <3> QED
      BY <2>1, <3>1, FlatToSteps DEF Flat
  <2>6. StartsAt(FlatTo(part)[Len(part)], Len(FlatTo(part)[(i + 1) - 1]), part[i + 1])
    <3>1. i + 1 \in 1 .. Len(part) /\ Len(part) \in i + 1 .. Len(part)
      BY <1>2, <2>1
    <3> QED
      BY <2>1, <3>1, PiecesOfFlat
  <2>7. part[i + 1] = r
    BY <1>2, <2>1
  <2> QED
    BY <1>2, <2>4, <2>5, <2>6, <2>7 DEF Flat
<1> HIDE DEF r, part
<1>6. CASE copies
  <2> DEFINE padding == [k \in 1 .. MaxTokenSize |-> 0]
  <2>1. padding \in Seq(Byte)
    BY <1>1, ZerosType
  <2>2. Data = Flat(part) \o padding
    BY <1>6 DEF Data, part
  <2>3. Offset(i) = ByteCount(rows, start + i) - ByteCount(rows, start)
    BY <1>6 DEF Offset
  <2> HIDE DEF padding
  <2> DEFINE f == Flat(part)
             at0 == ByteCount(rows, start + i) - ByteCount(rows, start)
  <2>4. f \in Seq(Byte) /\ StartsAt(f, at0, r) /\ at0 \in Nat
    BY <1>5
  <2> HIDE DEF f, at0
  <2>5. StartsAt(f \o padding, 0, f) /\ f \o padding \in Seq(Byte)
    BY <2>1, <2>4, BeginningOfConcat, ConcatProperties
  <2>6. StartsAt(f \o padding, at0, r)
    BY <1>4, <2>4, <2>5, BeginsTransitive
  <2> QED
    BY <2>2, <2>3, <2>5, <2>6 DEF f, at0, r
<1>7. CASE ~copies
  <2> DEFINE front == [k \in 1 .. lead |-> 0]
  <2>1. front \in Seq(Byte) /\ Len(front) = lead
    BY <1>1, ZerosType
  <2>2. Data = front \o Flat(rows)
    BY <1>7 DEF Data
  <2>3. Offset(i) = lead + ByteCount(rows, start + i)
    BY <1>7 DEF Offset
  <2> HIDE DEF front
  <2> DEFINE f == Flat(rows)
             at0 == ByteCount(rows, start + i)
  <2>4. f \in Seq(Byte) /\ StartsAt(f, at0, r) /\ at0 \in Nat
    BY <1>3, <1>4
  <2> HIDE DEF f, at0
  <2>5. StartsAt(front \o f, Len(front), f) /\ front \o f \in Seq(Byte)
    BY <2>1, <2>4, BeginningOfConcat, ConcatProperties
  <2>6. StartsAt(front \o f, lead + at0, r)
    BY <1>1, <1>4, <2>1, <2>4, <2>5, OccursWithin
  <2> QED
    BY <2>2, <2>3, <2>5, <2>6 DEF f, at0, r
<1> QED
  BY <1>6, <1>7

-----------------------------------------------------------------------------
(***************************************************************************)
(* The invariant of a lane.                                                *)
(***************************************************************************)

\* The rows of lane j and behind, and how many of them it has finished.
Mine(j) == SubSeq(rows, start + bounds[j] + 1, Len(rows))
Reached(j) == row[j] - bounds[j]

\* The codes that lane j keeps, and those still to come for its row.
Written(j) == SubSeq(laneCodes[j], 1, count[j])
Remaining(j) ==
    IF Running(j) THEN GreedyFrom(vocab, rows[start + row[j] + 1])[at[j] - Offset(row[j])]
    ELSE <<>>

\* The lanes share out the rows of a batch.
BoundsInv ==
    /\ end \in start + 1 .. Len(rows)
    /\ bounds \in [0 .. NumLanes -> 0 .. end - start]
    /\ bounds[0] = 0 /\ bounds[NumLanes] = end - start
    /\ \A j \in LaneIds : bounds[j] <= bounds[j + 1]

\* A lane is inside one of its rows, or at the end of the last, and has no more codes
\* than bytes behind it.
PlaceInv(j) ==
    /\ row[j] \in bounds[j] .. bounds[j + 1]
    /\ at[j] \in Nat /\ rowEnd[j] \in Nat /\ count[j] \in Nat
    /\ count[j] <= at[j] - Offset(bounds[j])
    /\ Running(j) => /\ Offset(row[j]) <= at[j] /\ at[j] <= rowEnd[j]
                     /\ rowEnd[j] = Offset(row[j] + 1)
    /\ ~Running(j) => at[j] = rowEnd[j] /\ at[j] = Offset(bounds[j + 1])

\* Its buffers have the size they were given.
BufferInv(j) ==
    /\ laneCodes[j] \in Seq(Ids(vocab))
    /\ Len(laneCodes[j]) = CodeSlots(Size(bounds[j + 1]) - Size(bounds[j]))
    /\ laneRowEnds[j] \in Seq(Nat)
    /\ Len(laneRowEnds[j]) = bounds[j + 1] - bounds[j] + 1

\* With the greedy codes of the rest of its row, it has those of all its rows so far, and
\* it knows where the codes of each finished row end.
CodesInv(j) ==
    /\ Written(j) \o Remaining(j)
         = CodesOf(vocab, Mine(j), IF Running(j) THEN Reached(j) + 1 ELSE Reached(j))
    /\ Len(CodesOf(vocab, Mine(j), Reached(j))) <= count[j]
    /\ \A n \in 1 .. Reached(j) : laneRowEnds[j][n] = Len(CodesOf(vocab, Mine(j), n))

LaneInv(j) == PlaceInv(j) /\ BufferInv(j) /\ CodesInv(j)

\* The numbers of a lane's rows, and their places in the batch.
LEMMA LaneFacts ==
    ASSUME InputInv, BoundsInv, NEW j \in LaneIds
    PROVE  /\ j \in 0 .. NumLanes /\ j + 1 \in 0 .. NumLanes
           /\ start \in Nat /\ end \in Nat /\ Len(rows) \in Nat
           /\ bounds[j] \in Nat /\ bounds[j + 1] \in Nat /\ bounds[j] <= bounds[j + 1]
           /\ start + bounds[j + 1] <= end /\ end <= Len(rows)
           /\ start + bounds[j] \in 0 .. Len(rows)
           /\ Mine(j) \in Seq(ByteSeq) /\ Len(Mine(j)) = Len(rows) - (start + bounds[j])
           /\ \A n \in 1 .. Len(rows) - (start + bounds[j]) :
                Mine(j)[n] = rows[start + bounds[j] + n]
<1>1. /\ rows \in Seq(ByteSeq) /\ Len(rows) \in Nat /\ start \in Nat /\ NumLanes \in Nat
      /\ j \in Nat /\ j + 1 <= NumLanes
  BY InputFacts, LanesAssumption DEF LaneIds
<1>2. j \in 0 .. NumLanes /\ j + 1 \in 0 .. NumLanes
  BY <1>1
<1>3. end \in Nat /\ end <= Len(rows) /\ start <= end
  BY <1>1 DEF BoundsInv
<1>4. bounds[j] \in 0 .. end - start /\ bounds[j + 1] \in 0 .. end - start
      /\ bounds[j] <= bounds[j + 1]
  BY <1>2 DEF BoundsInv
<1> DEFINE b == bounds[j]
           c == bounds[j + 1]
           m == start + b
<1>5. b \in Nat /\ c \in Nat /\ b <= c /\ start + c <= end /\ m \in 0 .. Len(rows)
  <2> HIDE DEF b, c
  <2>1. b \in 0 .. end - start /\ c \in 0 .. end - start /\ b <= c
    BY <1>4 DEF b, c
  <2> QED
    BY <1>1, <1>3, <2>1
<1>6. /\ Mine(j) \in Seq(ByteSeq) /\ Len(Mine(j)) = Len(rows) - m
      /\ \A n \in 1 .. Len(rows) - m : Mine(j)[n] = rows[m + n]
  <2>1. Mine(j) = SubSeq(rows, m + 1, Len(rows))
    BY DEF Mine
  <2> HIDE DEF m
  <2>2. Len(rows) \in m .. Len(rows)
    BY <1>1, <1>5
  <2> QED
    BY <1>1, <1>5, <2>1, <2>2, MiddlePiece
<1> QED
  BY <1>1, <1>2, <1>3, <1>5, <1>6

\* The row a running lane is in, and its place there.
LEMMA RunningFacts ==
    ASSUME InputInv, BoundsInv, NEW j \in LaneIds, PlaceInv(j), Running(j)
    PROVE  LET r == rows[start + row[j] + 1]
               p == at[j] - Offset(row[j])
           IN  /\ row[j] \in Nat /\ row[j] \in 0 .. end - start - 1
               /\ row[j] \in 0 .. Len(rows) - start
               /\ row[j] + 1 \in 0 .. Len(rows) - start
               /\ Reached(j) \in Nat /\ Reached(j) + 1 \in 1 .. Len(Mine(j))
               /\ Mine(j)[Reached(j) + 1] = r
               /\ r \in ByteSeq /\ Len(r) \in Nat
               /\ Offset(row[j]) \in Nat
               /\ Offset(row[j] + 1) = Offset(row[j]) + Len(r)
               /\ p \in 0 .. Len(r) /\ rowEnd[j] - at[j] = Len(r) - p
<1> DEFINE r == rows[start + row[j] + 1]
           p == at[j] - Offset(row[j])
<1>1. /\ start \in Nat /\ end \in Nat /\ Len(rows) \in Nat
      /\ bounds[j] \in Nat /\ bounds[j + 1] \in Nat /\ bounds[j] <= bounds[j + 1]
      /\ start + bounds[j + 1] <= end /\ end <= Len(rows)
      /\ Len(Mine(j)) = Len(rows) - (start + bounds[j])
      /\ \A n \in 1 .. Len(rows) - (start + bounds[j]) : Mine(j)[n] = rows[start + bounds[j] + n]
  BY LaneFacts
<1>2. row[j] \in bounds[j] .. bounds[j + 1] /\ row[j] < bounds[j + 1]
  BY DEF PlaceInv, Running
<1> DEFINE k == row[j]
           b == bounds[j]
           c == bounds[j + 1]
<1>3. k \in Nat /\ b \in Nat /\ c \in Nat /\ b <= k /\ k < c /\ start + c <= end
  BY <1>1, <1>2
<1> HIDE DEF k, b, c
<1>4. /\ k \in 0 .. end - start - 1 /\ k \in 0 .. Len(rows) - start
      /\ k + 1 \in 0 .. Len(rows) - start
      /\ k - b \in Nat /\ (k - b) + 1 \in 1 .. Len(rows) - (start + b)
      /\ start + b + ((k - b) + 1) = start + k + 1
      /\ k \in k .. Len(rows) - start /\ k < Len(rows) - start /\ start + k + 1 \in 1 .. Len(rows)
  BY <1>1, <1>3
<1>5. /\ Offset(k) \in Nat /\ Len(rows[start + k + 1]) \in Nat
      /\ Offset(k + 1) = Offset(k) + Len(rows[start + k + 1])
  BY <1>4, OffsetFacts
<1>6. r \in ByteSeq
  BY <1>4, InputFacts DEF k
<1>7. Mine(j)[(k - b) + 1] = r
  <2> DEFINE n == (k - b) + 1
  <2>1. n \in 1 .. Len(rows) - (start + b) /\ start + b + n = start + k + 1
    BY <1>4
  <2> HIDE DEF n
  <2>2. Mine(j)[n] = rows[start + b + n]
    BY <1>1, <2>1 DEF b
  <2>3. Mine(j)[n] = r
    BY <2>1, <2>2 DEF k
  <2> QED
    BY <2>3 DEF n
<1>8. at[j] \in Nat /\ rowEnd[j] = Offset(k + 1) /\ Offset(k) <= at[j] /\ at[j] <= rowEnd[j]
  BY DEF PlaceInv, k
<1>9. p \in 0 .. Len(r) /\ rowEnd[j] - at[j] = Len(r) - p
  <2> DEFINE x == Offset(k)
             len == Len(rows[start + k + 1])
             a == at[j]
  <2>1. x \in Nat /\ len \in Nat /\ a \in Nat /\ x <= a /\ a <= rowEnd[j] /\ rowEnd[j] = x + len
    BY <1>5, <1>8
  <2> HIDE DEF x, len, a
  <2>2. a - x \in 0 .. len /\ rowEnd[j] - a = len - (a - x)
    BY <2>1
  <2> QED
    BY <2>2 DEF x, len, a, k
<1> QED
  BY <1>1, <1>3, <1>4, <1>5, <1>6, <1>7, <1>9 DEF k, b, Reached

\* What find_all returns for a lane is a code, and that of its place in its row unless the
\* lane is idle.
LEMMA FoundIs ==
    ASSUME InputInv, BoundsInv, NEW j \in LaneIds, PlaceInv(j)
    PROVE  /\ Found(j) \in Ids(vocab)
           /\ Active(j) =>
                LET r == rows[start + row[j] + 1]
                    p == at[j] - Offset(row[j])
                IN  /\ Running(j) /\ p \in 0 .. Len(r) - 1
                    /\ Found(j) = CodeAt(vocab, r, p)
<1>1. /\ Conforms(vocab) /\ start \in Nat /\ end \in Nat /\ Len(rows) \in Nat
      /\ end \in start .. Len(rows) /\ 0 \in 0 .. end - start - 1
      /\ MaxTokenSize \in Nat \ {0}
  <2>1. Conforms(vocab) /\ start \in Nat /\ Len(rows) \in Nat /\ MaxTokenSize \in Nat \ {0}
    BY InputFacts, BytesAssumption
  <2>2. end \in start + 1 .. Len(rows)
    BY DEF BoundsInv
  <2> QED
    BY <2>1, <2>2
<1>2. vocab \in Seq(Token) /\ SingleByteTokens \subseteq TokensOf(vocab)
  BY <1>1 DEF Conforms
<1>3. Data \in Seq(Byte) /\ Len(Data) \in Nat
  BY <1>1, DataHoldsRows, LenProperties
<1>4. at[j] \in Nat /\ rowEnd[j] \in Nat /\ at[j] <= rowEnd[j]
  BY DEF PlaceInv
<1> DEFINE w == Window(j)
           len == WindowLen(j)
           a == at[j]
           e == rowEnd[j]
<1>5. len = IF e = a THEN 1 ELSE IF e - a < MaxTokenSize THEN e - a ELSE MaxTokenSize
  BY DEF WindowLen, Least
<1>6. w = [k \in 1 .. len |-> IF a + k <= Len(Data) THEN Data[a + k] ELSE 0]
  BY DEF Window
<1> HIDE DEF w, len, a, e
<1>7. len \in Nat /\ len >= 1
  BY <1>1, <1>4, <1>5 DEF a, e
<1>8. w \in ByteSeq /\ Len(w) = len
  <2>1. ASSUME NEW k \in 1 .. len
        PROVE  (IF a + k <= Len(Data) THEN Data[a + k] ELSE 0) \in Byte
    <3>1. a + k <= Len(Data) => a + k \in 1 .. Len(Data)
      BY <1>3, <1>4, <1>7 DEF a
    <3>2. 0 \in Byte
      BY BytesAssumption DEF Byte
    <3> QED
      BY <1>3, <3>1, <3>2, ElementOfSeq
  <2>2. w \in [1 .. len -> Byte]
    BY <1>6, <2>1
  <2> QED
    BY <1>7, <2>2 DEF ByteSeq
<1>9. Found(j) \in Ids(vocab)
  <2>1. 0 \in Nat /\ 0 < Len(w)
    BY <1>7, <1>8
  <2>2. CodeAt(vocab, w, 0) \in Ids(vocab)
    BY <1>2, <1>8, <2>1, CodeAtFound
  <2> QED
    BY <2>2 DEF Found, w
<1>10. ASSUME Active(j)
       PROVE  LET r == rows[start + row[j] + 1]
                  p == at[j] - Offset(row[j])
              IN  /\ Running(j) /\ p \in 0 .. Len(r) - 1
                  /\ Found(j) = CodeAt(vocab, r, p)
  <2> DEFINE r == rows[start + row[j] + 1]
             x == Offset(row[j])
             p == a - x
             i == row[j]
  <2>1. a < e
    BY <1>4, <1>10 DEF Active, a, e
  <2>2. Running(j)
    BY <1>4, <2>1 DEF PlaceInv, a, e
  <2>3. /\ i \in 0 .. end - start - 1 /\ r \in ByteSeq /\ Len(r) \in Nat
        /\ x \in Nat /\ p \in 0 .. Len(r) /\ e - a = Len(r) - p
    BY <2>2, RunningFacts DEF a, e
  <2>4. StartsAt(Data, Offset(i), r)
    BY <1>1, <2>3, DataHoldsRows
  <2>5. x + Len(r) <= Len(Data) /\ \A k \in 1 .. Len(r) : Data[x + k] = r[k]
    BY <2>4 DEF StartsAt
  <2> HIDE DEF r, x, i
  <2>6. /\ p \in 0 .. Len(r) - 1 /\ p + len <= Len(r)
        /\ (len = Len(r) - p \/ len = MaxTokenSize) /\ x + p = a
    <3> DEFINE size == Len(r)
    <3>1. /\ a \in Nat /\ e \in Nat /\ x \in Nat /\ size \in Nat /\ a < e
          /\ p \in 0 .. size /\ e - a = size - p
      BY <1>4, <2>1, <2>3 DEF a, e
    <3> HIDE DEF size
    <3>2. len = IF e - a < MaxTokenSize THEN e - a ELSE MaxTokenSize
      <4>1. ~(e = a)
        BY <3>1
      <4> QED
        BY <1>5, <4>1, Zenon
    <3>3. p \in 0 .. size - 1 /\ x + p = a
      BY <3>1
    <3>4. p + len <= size /\ (len = size - p \/ len = MaxTokenSize)
      BY <1>1, <3>1, <3>2
    <3> QED
      BY <3>3, <3>4 DEF size
  <2> HIDE DEF p
  <2>7. \A k \in 1 .. len : w[k] = r[p + k]
    <3> TAKE k \in 1 .. len
    <3>1. p + k \in 1 .. Len(r) /\ x + (p + k) = a + k /\ a + k <= Len(Data)
      BY <1>3, <1>7, <2>3, <2>5, <2>6
    <3>2. w[k] = Data[a + k]
      BY <1>6, <3>1
    <3> QED
      BY <2>5, <3>1, <3>2
  <2>8. CodeAt(vocab, w, 0) = CodeAt(vocab, r, p)
    BY <1>1, <1>8, <2>3, <2>6, <2>7, CodeAtOfWindow
  <2> QED
    BY <2>2, <2>6, <2>8 DEF Found, w, r, p, x, a
<1> QED
  BY <1>9, <1>10

\* Writing behind a prefix leaves it, and lengthens it.
LEMMA PrefixOfExcept ==
    ASSUME NEW S, NEW s \in Seq(S), NEW n \in 0 .. Len(s) - 1, NEW c \in S
    PROVE  LET t == [s EXCEPT ![n + 1] = c]
           IN  /\ t \in Seq(S) /\ Len(t) = Len(s)
               /\ SubSeq(s, 1, n) \in Seq(S) /\ Len(SubSeq(s, 1, n)) = n
               /\ SubSeq(t, 1, n) = SubSeq(s, 1, n)
               /\ SubSeq(t, 1, n + 1) = SubSeq(s, 1, n) \o <<c>>
<1> DEFINE t == [s EXCEPT ![n + 1] = c]
           a == SubSeq(s, 1, n)
           b == SubSeq(t, 1, n)
           d == SubSeq(t, 1, n + 1)
<1>1. Len(s) \in Nat /\ n \in Nat /\ n + 1 \in 1 .. Len(s) /\ 0 \in 0 .. Len(s)
      /\ n \in 0 .. Len(s) /\ n + 1 \in 0 .. Len(s) /\ 0 + 1 = 1 /\ n - 0 = n
      /\ (n + 1) - 0 = n + 1
  BY LenProperties
<1>2. /\ t \in Seq(S) /\ Len(t) = Len(s)
      /\ \A i \in 1 .. Len(s) : t[i] = IF i = n + 1 THEN c ELSE s[i]
  BY <1>1, ExceptSeq
<1> HIDE DEF t
<1>3. a \in Seq(S) /\ Len(a) = n /\ \A i \in 1 .. n : a[i] = s[i]
  <2>1. /\ SubSeq(s, 0 + 1, n) \in Seq(S) /\ Len(SubSeq(s, 0 + 1, n)) = n - 0
        /\ \A i \in 1 .. n - 0 : SubSeq(s, 0 + 1, n)[i] = s[0 + i]
    BY <1>1, MiddlePiece
  <2> QED
    BY <1>1, <2>1
<1>4. b \in Seq(S) /\ Len(b) = n /\ \A i \in 1 .. n : b[i] = t[i]
  <2>1. /\ SubSeq(t, 0 + 1, n) \in Seq(S) /\ Len(SubSeq(t, 0 + 1, n)) = n - 0
        /\ \A i \in 1 .. n - 0 : SubSeq(t, 0 + 1, n)[i] = t[0 + i]
    BY <1>1, <1>2, MiddlePiece
  <2> QED
    BY <1>1, <2>1
<1>5. d \in Seq(S) /\ Len(d) = n + 1 /\ \A i \in 1 .. n + 1 : d[i] = t[i]
  <2>1. /\ SubSeq(t, 0 + 1, n + 1) \in Seq(S) /\ Len(SubSeq(t, 0 + 1, n + 1)) = (n + 1) - 0
        /\ \A i \in 1 .. (n + 1) - 0 : SubSeq(t, 0 + 1, n + 1)[i] = t[0 + i]
    BY <1>1, <1>2, MiddlePiece
  <2> QED
    BY <1>1, <2>1
<1> HIDE DEF a, b, d
<1>6. \A i \in 1 .. n : t[i] = s[i] /\ i # n + 1
  BY <1>1, <1>2
<1>7. b = a
  BY <1>3, <1>4, <1>6, SeqEqual
<1>8. d = a \o <<c>>
  <2>1. <<c>> \in Seq(S) /\ Len(<<c>>) = 1 /\ <<c>>[1] = c
    OBVIOUS
  <2> DEFINE one == <<c>>
  <2> HIDE DEF one
  <2>2. /\ a \o one \in Seq(S) /\ Len(a \o one) = n + 1
        /\ \A i \in 1 .. n + 1 : (a \o one)[i] = IF i <= n THEN a[i] ELSE one[i - n]
    BY <1>3, <2>1, ConcatProperties DEF one
  <2>3. ASSUME NEW i \in 1 .. n + 1
        PROVE  d[i] = (a \o one)[i]
    <3>1. CASE i <= n
      <4>1. i \in 1 .. n
        BY <1>1, <3>1
      <4> QED
        BY <1>3, <1>5, <1>6, <2>2, <3>1, <4>1
    <3>2. CASE ~(i <= n)
      <4>1. i = n + 1 /\ i - n = 1
        BY <1>1, <3>2
      <4> QED
        BY <1>1, <1>2, <1>5, <2>1, <2>2, <3>2, <4>1 DEF one
    <3> QED
      BY <3>1, <3>2
  <2>4. d = a \o one
    BY <1>5, <2>2, <2>3, SeqEqual
  <2> QED
    BY <2>4 DEF one
<1> QED
  BY <1>2, <1>3, <1>7, <1>8 DEF a, b, d, t

\* Every lane has a slot for its next write in both of its buffers.
LEMMA SlotsSuffice ==
    ASSUME InputInv, BoundsInv, NEW j \in LaneIds, PlaceInv(j), BufferInv(j)
    PROVE  /\ count[j] \in 0 .. Len(laneCodes[j]) - 1
           /\ Reached(j) \in 0 .. Len(laneRowEnds[j]) - 1
           /\ count[j] <= Size(bounds[j + 1]) - Size(bounds[j])
           /\ at[j] <= Offset(bounds[j + 1])
<1> DEFINE k == row[j]
           b == bounds[j]
           c == bounds[j + 1]
<1>1. /\ start \in Nat /\ Len(rows) \in Nat /\ end \in Nat /\ end <= Len(rows)
      /\ b \in Nat /\ c \in Nat /\ b <= c /\ start + c <= end
  BY LaneFacts
<1>2. /\ k \in b .. c /\ at[j] \in Nat /\ count[j] \in Nat
      /\ count[j] <= at[j] - Offset(b)
      /\ Running(j) => at[j] <= rowEnd[j] /\ rowEnd[j] = Offset(k + 1)
      /\ ~Running(j) => at[j] = Offset(c)
      /\ Running(j) <=> k < c
      /\ rowEnd[j] \in Nat
  BY DEF PlaceInv, Running
<1>3. /\ Len(laneCodes[j]) = Size(c) - Size(b) + 1
      /\ Len(laneRowEnds[j]) = c - b + 1
  BY DEF BufferInv, CodeSlots
<1> HIDE DEF k, b, c
<1>4. b \in 0 .. Len(rows) - start /\ c \in b .. Len(rows) - start
      /\ (k < c => k + 1 \in 0 .. Len(rows) - start /\ c \in k + 1 .. Len(rows) - start)
  BY <1>1, <1>2
<1>5. /\ Size(b) \in Nat /\ Size(c) \in Nat /\ Offset(b) \in Nat /\ Offset(c) \in Nat
      /\ Offset(c) - Offset(b) = Size(c) - Size(b)
  BY <1>4, OffsetFacts
<1>6. at[j] <= Offset(c)
  <2>1. CASE Running(j)
    <3>1. Offset(k + 1) \in Nat /\ Offset(k + 1) <= Offset(c)
      BY <1>2, <1>4, <2>1, OffsetFacts
    <3> QED
      BY <1>2, <1>5, <2>1, <3>1
  <2>2. CASE ~Running(j)
    BY <1>2, <1>5, <2>2
  <2> QED
    BY <2>1, <2>2
<1>7. count[j] \in 0 .. (Size(c) - Size(b) + 1) - 1 /\ count[j] <= Size(c) - Size(b)
  BY <1>2, <1>5, <1>6
<1>8. k - b \in 0 .. (c - b + 1) - 1
  BY <1>1, <1>2
<1> QED
  BY <1>3, <1>6, <1>7, <1>8 DEF k, b, c, Reached

\* A lane in a row takes the greedy code at its place, or is at the end of the row: with
\* what is still to come, it has the same codes as before.
LEMMA LaneAdvances ==
    ASSUME InputInv, BoundsInv, NEW j \in LaneIds, LaneInv(j), Running(j)
    PROVE  LET r == rows[start + row[j] + 1]
               q == NextAt(j) - Offset(row[j])
               new == SubSeq([laneCodes[j] EXCEPT ![count[j] + 1] = Found(j)], 1, NextCount(j))
           IN  /\ NextAt(j) \in Nat /\ at[j] <= NextAt(j) /\ NextAt(j) <= rowEnd[j]
               /\ q \in 0 .. Len(r)
               /\ NextCount(j) \in Nat /\ count[j] <= NextCount(j)
               /\ NextCount(j) <= NextAt(j) - Offset(bounds[j])
               /\ new \in Seq(Ids(vocab)) /\ Len(new) = NextCount(j)
               /\ new \o GreedyFrom(vocab, r)[q] = CodesOf(vocab, Mine(j), Reached(j) + 1)
<1> DEFINE r == rows[start + row[j] + 1]
           x == Offset(row[j])
           p == at[j] - x
           q == NextAt(j) - x
           old == laneCodes[j]
           n == count[j]
           upd == [old EXCEPT ![n + 1] = Found(j)]
           new == SubSeq(upd, 1, NextCount(j))
           G == GreedyFrom(vocab, r)
           S == Ids(vocab)
           base == Offset(bounds[j])
<1>1. PlaceInv(j) /\ BufferInv(j) /\ CodesInv(j)
  BY DEF LaneInv
<1>2. /\ r \in ByteSeq /\ Len(r) \in Nat /\ x \in Nat
      /\ p \in 0 .. Len(r) /\ rowEnd[j] - at[j] = Len(r) - p
  BY <1>1, RunningFacts
<1>3. /\ at[j] \in Nat /\ rowEnd[j] \in Nat /\ n \in Nat
      /\ n <= at[j] - base /\ at[j] <= rowEnd[j]
  BY <1>1 DEF PlaceInv
<1>4. base \in Nat
  <2>1. bounds[j] \in 0 .. Len(rows) - start /\ bounds[j] \in bounds[j] .. Len(rows) - start
    <3>1. /\ start \in Nat /\ Len(rows) \in Nat /\ end \in Nat /\ end <= Len(rows)
          /\ bounds[j] \in Nat /\ bounds[j + 1] \in Nat /\ bounds[j] <= bounds[j + 1]
          /\ start + bounds[j + 1] <= end
      BY LaneFacts
    <3> QED
      BY <3>1
  <2> QED
    BY <2>1, OffsetFacts
<1>5. Conforms(vocab) /\ Found(j) \in S /\ old \in Seq(S) /\ n \in 0 .. Len(old) - 1
  BY <1>1, FoundIs, SlotsSuffice, InputFacts DEF BufferInv
<1>6. /\ Written(j) = SubSeq(old, 1, n)
      /\ Written(j) \o G[p] = CodesOf(vocab, Mine(j), Reached(j) + 1)
  BY <1>1 DEF CodesInv, Written, Remaining
<1>7. /\ upd \in Seq(S) /\ Written(j) \in Seq(S) /\ Len(Written(j)) = n
      /\ SubSeq(upd, 1, n) = Written(j)
      /\ SubSeq(upd, 1, n + 1) = Written(j) \o <<Found(j)>>
  <2> HIDE DEF S, n, old
  <2> QED
    BY <1>5, <1>6, PrefixOfExcept
<1>8. CASE ~Active(j)
  <2>1. NextAt(j) = at[j] /\ NextCount(j) = n
    BY <1>8 DEF NextAt, NextCount
  <2>2. new = Written(j) /\ q = p
    BY <1>7, <2>1
  <2>3. /\ NextAt(j) \in Nat /\ at[j] <= NextAt(j) /\ NextAt(j) <= rowEnd[j]
        /\ q \in 0 .. Len(r)
        /\ NextCount(j) \in Nat /\ n <= NextCount(j) /\ NextCount(j) <= NextAt(j) - base
    <3> HIDE DEF p, q, n, base, r
    <3> QED
      BY <1>2, <1>3, <2>1, <2>2
  <2>4. /\ new \in Seq(S) /\ Len(new) = NextCount(j)
        /\ new \o G[q] = CodesOf(vocab, Mine(j), Reached(j) + 1)
    <3> HIDE DEF p, q, n, new, G, S
    <3> QED
      BY <1>6, <1>7, <2>1, <2>2
  <2> QED
    BY <2>3, <2>4
<1>9. CASE Active(j)
  <2> DEFINE code == CodeAt(vocab, r, p)
             len == Len(vocab[code + 1])
  <2>1. /\ p \in 0 .. Len(r) - 1 /\ Found(j) = code
    BY <1>1, <1>9, FoundIs
  <2>2. NextAt(j) = at[j] + len /\ NextCount(j) = n + 1
    BY <1>9, <2>1 DEF NextAt, NextCount
  <2>3. p \in Nat /\ p < Len(r) /\ p \in 0 .. Len(r)
    BY <1>2, <2>1
  <2>4. /\ len \in Nat /\ p + len \in p + 1 .. Len(r)
        /\ G[p] = <<code>> \o G[p + len] /\ code \in S
    BY <1>2, <1>5, <2>3, GreedyFromUnfolds
  <2>5. G[p + len] \in Seq(S)
    <3>1. p + len \in 0 .. Len(r)
      <4> HIDE DEF p, len, G, S, r
      <4> QED
        BY <2>3, <2>4
    <3> QED
      BY <1>2, <1>5, <3>1, GreedyFromUnfolds
  <2> HIDE DEF code, len, G, S, upd
  <2>6. q = p + len
    BY <1>2, <1>3, <2>2, <2>4
  <2>7. new = Written(j) \o <<code>>
    BY <1>7, <2>1, <2>2
  <2>8. new \in Seq(S) /\ Len(new) = n + 1
    <3> DEFINE one == <<code>>
               w == Written(j)
    <3>1. one \in Seq(S) /\ Len(one) = 1 /\ w \in Seq(S) /\ Len(w) = n
      BY <1>7, <2>4
    <3> HIDE DEF one, w
    <3>2. w \o one \in Seq(S) /\ Len(w \o one) = n + 1
      BY <3>1, ConcatProperties
    <3> QED
      BY <2>7, <3>2 DEF one, w
  <2>9. new \o G[q] = CodesOf(vocab, Mine(j), Reached(j) + 1)
    <3> DEFINE one == <<code>>
               rest == G[p + len]
               w == Written(j)
    <3>1. one \in Seq(S) /\ rest \in Seq(S) /\ w \in Seq(S)
      BY <1>7, <2>4, <2>5
    <3>2. G[p] = one \o rest /\ new = w \o one /\ G[q] = rest
      BY <2>4, <2>6, <2>7
    <3> HIDE DEF one, rest, w, new
    <3>3. (w \o one) \o rest = w \o (one \o rest)
      BY <3>1, ConcatAssociative
    <3> QED
      BY <1>6, <3>2, <3>3 DEF w
  <2>10. /\ NextAt(j) \in Nat /\ at[j] <= NextAt(j) /\ NextAt(j) <= rowEnd[j]
         /\ q \in 0 .. Len(r)
         /\ NextCount(j) \in Nat /\ n <= NextCount(j) /\ NextCount(j) <= NextAt(j) - base
    <3> DEFINE a == at[j]
               e == rowEnd[j]
               size == Len(r)
    <3>1. /\ a \in Nat /\ e \in Nat /\ size \in Nat /\ len \in Nat /\ n \in Nat /\ base \in Nat
          /\ e - a = size - p /\ p + len \in p + 1 .. size /\ p \in Nat /\ n <= a - base
          /\ q = p + len
      BY <1>2, <1>3, <1>4, <2>3, <2>4, <2>6
    <3> HIDE DEF a, e, size, n, base, p, q
    <3>2. /\ a + len \in Nat /\ a <= a + len /\ a + len <= e /\ q \in 0 .. size
          /\ n + 1 \in Nat /\ n <= n + 1 /\ n + 1 <= (a + len) - base
      BY <3>1
    <3> QED
      BY <2>2, <3>2 DEF a, e, size
  <2> QED
    BY <2>2, <2>8, <2>9, <2>10 DEF upd, G, S
<1> QED
  BY <1>8, <1>9

-----------------------------------------------------------------------------
(***************************************************************************)
(* A round.                                                                *)
(***************************************************************************)

\* What a lane's invariant speaks about, after a step within the batch.
LEMMA SameBatch ==
    ASSUME UNCHANGED <<vocab, rows, copies, lead, start, end, bounds>>
    PROVE  /\ InputInv' <=> InputInv
           /\ BoundsInv' <=> BoundsInv
           /\ \A i : Offset(i)' = Offset(i) /\ Size(i)' = Size(i)
           /\ \A j : Mine(j)' = Mine(j)
<1>1. InputInv' <=> InputInv
  BY DEF InputInv
<1>2. BoundsInv' <=> BoundsInv
  BY DEF BoundsInv
<1>3. \A i : Offset(i)' = Offset(i) /\ Size(i)' = Size(i)
  BY DEF Offset, Size
<1>4. \A j : Mine(j)' = Mine(j)
  BY DEF Mine
<1> QED
  BY <1>1, <1>2, <1>3, <1>4

\* What a round does to a lane.
LEMMA RoundOfLane ==
    ASSUME Round, NEW j \in LaneIds
    PROVE  /\ UNCHANGED <<vocab, rows, copies, lead, start, end, bounds>>
           /\ at'[j] = NextAt(j) /\ count'[j] = NextCount(j) /\ rowEnd'[j] = NextRowEnd(j)
           /\ row'[j] = IF RowDone(j) THEN row[j] + 1 ELSE row[j]
           /\ laneCodes'[j] = [laneCodes[j] EXCEPT ![count[j] + 1] = Found(j)]
           /\ laneRowEnds'[j] = [laneRowEnds[j] EXCEPT ![row[j] - bounds[j] + 1] = NextCount(j)]
           /\ Offset(row[j])' = Offset(row'[j]) /\ Offset(row[j] + 1)' = Offset(row'[j] + 1)
           /\ Offset(bounds[j])' = Offset(bounds[j])
           /\ Offset(bounds[j + 1])' = Offset(bounds[j + 1])
           /\ Size(bounds[j])' = Size(bounds[j]) /\ Size(bounds[j + 1])' = Size(bounds[j + 1])
           /\ Running(j)' <=> row'[j] < bounds[j + 1]
           /\ Mine(j)' = Mine(j) /\ Reached(j)' = row'[j] - bounds[j]
           /\ Written(j)' = SubSeq(laneCodes'[j], 1, count'[j])
<1>1. UNCHANGED <<vocab, rows, copies, lead, start, end, bounds>>
  BY DEF Round, input
<1>2. /\ at'[j] = NextAt(j) /\ count'[j] = NextCount(j) /\ rowEnd'[j] = NextRowEnd(j)
      /\ row'[j] = IF RowDone(j) THEN row[j] + 1 ELSE row[j]
      /\ laneCodes'[j] = [laneCodes[j] EXCEPT ![count[j] + 1] = Found(j)]
      /\ laneRowEnds'[j] = [laneRowEnds[j] EXCEPT ![row[j] - bounds[j] + 1] = NextCount(j)]
  BY DEF Round
<1>3. /\ Offset(row[j])' = Offset(row'[j]) /\ Offset(row[j] + 1)' = Offset(row'[j] + 1)
      /\ Offset(bounds[j])' = Offset(bounds[j])
      /\ Offset(bounds[j + 1])' = Offset(bounds[j + 1])
      /\ Size(bounds[j])' = Size(bounds[j]) /\ Size(bounds[j + 1])' = Size(bounds[j + 1])
  BY <1>1 DEF Offset, Size
<1>4. /\ Running(j)' <=> row'[j] < bounds[j + 1]
      /\ Mine(j)' = Mine(j) /\ Reached(j)' = row'[j] - bounds[j]
      /\ Written(j)' = SubSeq(laneCodes'[j], 1, count'[j])
  BY <1>1 DEF Running, Mine, Reached, Written
<1> QED
  BY <1>1, <1>2, <1>3, <1>4

LEMMA RoundKeepsBuffers ==
    ASSUME InputInv, BoundsInv, Round, NEW j \in LaneIds, LaneInv(j)
    PROVE  BufferInv(j)'
<1>1. PlaceInv(j) /\ BufferInv(j)
  BY DEF LaneInv
<1> DEFINE codesOf == laneCodes[j]
           endsOf == laneRowEnds[j]
           n == count[j]
           i == Reached(j)
<1>2. /\ codesOf \in Seq(Ids(vocab)) /\ endsOf \in Seq(Nat)
      /\ n \in 0 .. Len(codesOf) - 1 /\ i \in 0 .. Len(endsOf) - 1
      /\ Found(j) \in Ids(vocab)
  BY <1>1, SlotsSuffice, FoundIs DEF BufferInv
<1>3. NextCount(j) \in Nat
  BY <1>1 DEF PlaceInv, NextCount
<1>4. /\ laneCodes'[j] = [codesOf EXCEPT ![n + 1] = Found(j)]
      /\ laneRowEnds'[j] = [endsOf EXCEPT ![i + 1] = NextCount(j)]
  BY RoundOfLane DEF Reached
<1> HIDE DEF codesOf, endsOf, n, i
<1>5. laneCodes'[j] \in Seq(Ids(vocab)) /\ Len(laneCodes'[j]) = Len(codesOf)
  BY <1>2, <1>4, PrefixOfExcept
<1>6. laneRowEnds'[j] \in Seq(Nat) /\ Len(laneRowEnds'[j]) = Len(endsOf)
  BY <1>2, <1>3, <1>4, PrefixOfExcept
<1>7. /\ vocab' = vocab /\ bounds' = bounds
      /\ Size(bounds[j])' = Size(bounds[j]) /\ Size(bounds[j + 1])' = Size(bounds[j + 1])
  BY RoundOfLane
<1> QED
  BY <1>1, <1>5, <1>6, <1>7 DEF BufferInv, CodeSlots, codesOf, endsOf

\* A lane that is past its last row only writes to its spare slots.
LEMMA RoundKeepsIdle ==
    ASSUME InputInv, BoundsInv, Round, NEW j \in LaneIds, LaneInv(j), ~Running(j)
    PROVE  /\ ~Running(j)' /\ PlaceInv(j)' /\ CodesInv(j)'
           /\ row'[j] = row[j]
<1>1. /\ PlaceInv(j) /\ BufferInv(j) /\ CodesInv(j)
      /\ at[j] \in Nat /\ rowEnd[j] = at[j] /\ count[j] \in Nat
      /\ row[j] \in bounds[j] .. bounds[j + 1]
  BY DEF LaneInv, PlaceInv
<1>2. ~Active(j) /\ ~RowDone(j)
  BY <1>1 DEF Active, RowDone
<1>3. /\ at'[j] = at[j] /\ count'[j] = count[j] /\ rowEnd'[j] = rowEnd[j] /\ row'[j] = row[j]
  BY <1>2, RoundOfLane DEF NextAt, NextCount, NextRowEnd
<1>4. ~Running(j)' /\ Reached(j)' = Reached(j)
  BY <1>3, RoundOfLane DEF Running, Reached
<1>5. PlaceInv(j)'
  <2>1. /\ bounds' = bounds /\ Offset(bounds[j])' = Offset(bounds[j])
        /\ Offset(bounds[j + 1])' = Offset(bounds[j + 1])
    BY RoundOfLane
  <2> QED
    BY <1>1, <1>3, <1>4, <2>1 DEF PlaceInv
<1> DEFINE codesOf == laneCodes[j]
           endsOf == laneRowEnds[j]
           n == count[j]
           i == Reached(j)
<1>6. /\ codesOf \in Seq(Ids(vocab)) /\ endsOf \in Seq(Nat)
      /\ n \in 0 .. Len(codesOf) - 1 /\ i \in 0 .. Len(endsOf) - 1
      /\ Found(j) \in Ids(vocab) /\ Len(endsOf) \in Nat
  BY <1>1, SlotsSuffice, FoundIs, LenProperties DEF BufferInv
<1>7. Written(j)' = Written(j)
  <2>1. laneCodes'[j] = [codesOf EXCEPT ![n + 1] = Found(j)]
        /\ Written(j)' = SubSeq(laneCodes'[j], 1, n)
    BY <1>3, RoundOfLane
  <2> HIDE DEF codesOf, n
  <2>2. SubSeq(laneCodes'[j], 1, n) = SubSeq(codesOf, 1, n)
    BY <1>6, <2>1, PrefixOfExcept
  <2> QED
    BY <2>1, <2>2 DEF Written, codesOf, n
<1>8. \A m \in 1 .. i : laneRowEnds'[j][m] = endsOf[m]
  <2>1. laneRowEnds'[j] = [endsOf EXCEPT ![i + 1] = NextCount(j)]
    BY RoundOfLane DEF Reached
  <2> HIDE DEF i, endsOf
  <2>2. \A m \in 1 .. i : m # i + 1 /\ m \in 1 .. Len(endsOf)
    BY <1>6
  <2>3. DOMAIN endsOf = 1 .. Len(endsOf)
    BY <1>6, LenProperties
  <2> QED
    BY <2>1, <2>2, <2>3
<1>9. Remaining(j)' = <<>> /\ Remaining(j) = <<>>
  BY <1>4 DEF Remaining
<1>10. CodesInv(j)'
  <2>1. vocab' = vocab /\ Mine(j)' = Mine(j)
    BY RoundOfLane
  <2>2. CodesOf(vocab, Mine(j), Reached(j))' = CodesOf(vocab, Mine(j), Reached(j))
    BY <1>4, <2>1
  <2>3. \A m : CodesOf(vocab, Mine(j), m)' = CodesOf(vocab, Mine(j), m)
    BY <2>1
  <2> QED
    BY <1>1, <1>3, <1>4, <1>7, <1>8, <1>9, <2>2, <2>3 DEF CodesInv
<1> QED
  BY <1>3, <1>4, <1>5, <1>10

\* What a round writes into the buffers of a lane in a row.
LEMMA RoundWrites ==
    ASSUME InputInv, BoundsInv, Round, NEW j \in LaneIds, LaneInv(j), Running(j)
    PROVE  LET r == rows[start + row[j] + 1]
               q == NextAt(j) - Offset(row[j])
           IN  /\ at'[j] \in Nat /\ at[j] <= at'[j] /\ at'[j] <= rowEnd[j]
               /\ q \in 0 .. Len(r)
               /\ count'[j] \in Nat /\ count[j] <= count'[j]
               /\ count'[j] <= at'[j] - Offset(bounds[j])
               /\ Written(j)' \in Seq(Ids(vocab)) /\ Len(Written(j)') = count'[j]
               /\ Written(j)' \o GreedyFrom(vocab, r)[q] = CodesOf(vocab, Mine(j), Reached(j) + 1)
               /\ laneRowEnds'[j][Reached(j) + 1] = count'[j]
               /\ \A m \in 1 .. Reached(j) : laneRowEnds'[j][m] = laneRowEnds[j][m]
<1>1. PlaceInv(j) /\ BufferInv(j)
  BY DEF LaneInv
<1>2. /\ at'[j] = NextAt(j) /\ count'[j] = NextCount(j)
      /\ laneCodes'[j] = [laneCodes[j] EXCEPT ![count[j] + 1] = Found(j)]
      /\ laneRowEnds'[j] = [laneRowEnds[j] EXCEPT ![Reached(j) + 1] = NextCount(j)]
      /\ Written(j)' = SubSeq(laneCodes'[j], 1, count'[j])
  BY RoundOfLane DEF Reached
<1> DEFINE endsOf == laneRowEnds[j]
           i == Reached(j)
           new == NextCount(j)
<1>3. endsOf \in Seq(Nat) /\ i \in 0 .. Len(endsOf) - 1 /\ Len(endsOf) \in Nat
  BY <1>1, SlotsSuffice, LenProperties DEF BufferInv
<1>4. laneRowEnds'[j][i + 1] = new /\ \A m \in 1 .. i : laneRowEnds'[j][m] = endsOf[m]
  <2>1. laneRowEnds'[j] = [endsOf EXCEPT ![i + 1] = new]
    BY <1>2
  <2>2. DOMAIN endsOf = 1 .. Len(endsOf)
    BY <1>3, LenProperties
  <2> HIDE DEF i, endsOf, new
  <2>3. \A m \in 1 .. i : m # i + 1 /\ m \in 1 .. Len(endsOf)
    BY <1>3
  <2>4. i + 1 \in 1 .. Len(endsOf)
    BY <1>3
  <2> QED
    BY <2>1, <2>2, <2>3, <2>4
<1> HIDE DEF i, endsOf, new
<1>5. LET r == rows[start + row[j] + 1]
          q == NextAt(j) - Offset(row[j])
      IN  /\ at'[j] \in Nat /\ at[j] <= at'[j] /\ at'[j] <= rowEnd[j]
          /\ q \in 0 .. Len(r)
          /\ count'[j] \in Nat /\ count[j] <= count'[j]
          /\ count'[j] <= at'[j] - Offset(bounds[j])
          /\ Written(j)' \in Seq(Ids(vocab)) /\ Len(Written(j)') = count'[j]
          /\ Written(j)' \o GreedyFrom(vocab, r)[q] = CodesOf(vocab, Mine(j), Reached(j) + 1)
  BY <1>2, LaneAdvances
<1> QED
  BY <1>2, <1>4, <1>5 DEF i, endsOf, new

\* A lane whose row is not done stays in it.
LEMMA RoundStaysInRow ==
    ASSUME InputInv, BoundsInv, Round, NEW j \in LaneIds, LaneInv(j), Running(j), ~RowDone(j)
    PROVE  PlaceInv(j)' /\ CodesInv(j)' /\ row'[j] = row[j]
<1> DEFINE r == rows[start + row[j] + 1]
           q == NextAt(j) - Offset(row[j])
<1>1. /\ row[j] \in bounds[j] .. bounds[j + 1] /\ rowEnd[j] \in Nat
      /\ Offset(row[j]) <= at[j] /\ rowEnd[j] = Offset(row[j] + 1) /\ at[j] \in Nat
      /\ count[j] \in Nat
      /\ Len(CodesOf(vocab, Mine(j), Reached(j))) <= count[j]
      /\ \A n \in 1 .. Reached(j) : laneRowEnds[j][n] = Len(CodesOf(vocab, Mine(j), n))
  BY DEF LaneInv, PlaceInv, CodesInv
<1>2. /\ at'[j] \in Nat /\ at[j] <= at'[j] /\ at'[j] <= rowEnd[j]
      /\ count'[j] \in Nat /\ count[j] <= count'[j]
      /\ count'[j] <= at'[j] - Offset(bounds[j])
      /\ Written(j)' \o GreedyFrom(vocab, r)[q] = CodesOf(vocab, Mine(j), Reached(j) + 1)
      /\ \A m \in 1 .. Reached(j) : laneRowEnds'[j][m] = laneRowEnds[j][m]
  BY RoundWrites
<1>3. /\ row'[j] = row[j] /\ rowEnd'[j] = rowEnd[j] /\ at'[j] = NextAt(j)
      /\ bounds' = bounds /\ vocab' = vocab /\ rows' = rows /\ start' = start
  BY RoundOfLane DEF NextRowEnd
<1>4. /\ Offset(row[j])' = Offset(row[j]) /\ Offset(row[j] + 1)' = Offset(row[j] + 1)
      /\ Offset(bounds[j])' = Offset(bounds[j])
      /\ Running(j)' /\ Mine(j)' = Mine(j) /\ Reached(j)' = Reached(j)
  BY <1>3, RoundOfLane DEF Reached, Running
<1>5. Offset(row[j]) \in Nat
  BY RunningFacts DEF LaneInv
<1>6. PlaceInv(j)'
  <2>1. Offset(row[j]) <= at'[j]
    BY <1>1, <1>2, <1>5
  <2> QED
    BY <1>1, <1>2, <1>3, <1>4, <2>1 DEF PlaceInv
<1>7. Remaining(j)' = GreedyFrom(vocab, r)[q]
  BY <1>3, <1>4 DEF Remaining
<1>8. CodesInv(j)'
  <2>1. \A m : CodesOf(vocab, Mine(j), m)' = CodesOf(vocab, Mine(j), m)
    BY <1>3, <1>4
  <2>2. CodesOf(vocab, Mine(j), Reached(j))' = CodesOf(vocab, Mine(j), Reached(j))
        /\ CodesOf(vocab, Mine(j), Reached(j) + 1)' = CodesOf(vocab, Mine(j), Reached(j) + 1)
    BY <1>3, <1>4
  <2>3. Len(CodesOf(vocab, Mine(j), Reached(j))) <= count'[j]
    <3> DEFINE len == Len(CodesOf(vocab, Mine(j), Reached(j)))
    <3>1. len \in Nat
      <4>1. Conforms(vocab) /\ Mine(j) \in Seq(ByteSeq)
            /\ Reached(j) + 1 \in 1 .. Len(Mine(j)) /\ Reached(j) \in Nat /\ Len(Mine(j)) \in Nat
        BY InputFacts, LaneFacts, RunningFacts, LenProperties DEF LaneInv
      <4>2. Reached(j) \in 0 .. Len(Mine(j))
        BY <4>1
      <4>3. CodesOf(vocab, Mine(j), Reached(j)) \in Seq(Ids(vocab))
        BY <4>1, <4>2, CodesOfSteps
      <4> QED
        BY <4>3, LenProperties
    <3> HIDE DEF len
    <3>2. len <= count[j]
      BY <1>1 DEF len
    <3> QED
      BY <1>1, <1>2, <3>1, <3>2 DEF len
  <2> QED
    BY <1>1, <1>2, <1>4, <1>7, <2>1, <2>2, <2>3 DEF CodesInv
<1> QED
  BY <1>3, <1>6, <1>8

\* A lane whose row is done has that row's codes, and where they end, and goes on to the
\* next row, or idles after its last.
LEMMA RoundEndsRow ==
    ASSUME InputInv, BoundsInv, Round, NEW j \in LaneIds, LaneInv(j), RowDone(j)
    PROVE  PlaceInv(j)' /\ CodesInv(j)' /\ row'[j] = row[j] + 1
<1>0. Running(j) /\ NextAt(j) = rowEnd[j] /\ PlaceInv(j) /\ BufferInv(j) /\ CodesInv(j)
  BY DEF RowDone, LaneInv
<1> DEFINE k == row[j]
           b == bounds[j]
           c == bounds[j + 1]
           i == Reached(j)
           r == rows[start + k + 1]
           mine == Mine(j)
           x == Offset(k)
           y == Offset(k + 1)
<1>1. /\ Conforms(vocab) /\ start \in Nat /\ end \in Nat /\ end <= Len(rows) /\ Len(rows) \in Nat
      /\ b \in Nat /\ c \in Nat /\ b <= c /\ start + c <= end
      /\ mine \in Seq(ByteSeq) /\ Len(mine) \in Nat /\ Len(mine) = Len(rows) - (start + b)
      /\ \A n \in 1 .. Len(rows) - (start + b) : mine[n] = rows[start + b + n]
  BY InputFacts, LaneFacts, LenProperties
<1>2. /\ k \in Nat /\ k \in b .. c /\ k < c /\ i = k - b
      /\ i \in Nat /\ i + 1 \in 1 .. Len(mine)
      /\ r \in ByteSeq /\ Len(r) \in Nat /\ x \in Nat /\ y = x + Len(r)
      /\ rowEnd[j] = y
  BY <1>0, RunningFacts DEF PlaceInv, Running, Reached
<1>3. /\ at'[j] = y /\ row'[j] = k + 1 /\ bounds' = bounds /\ vocab' = vocab
      /\ rows' = rows /\ start' = start
      /\ Offset(b)' = Offset(b) /\ Offset(c)' = Offset(c)
      /\ Mine(j)' = mine /\ Reached(j)' = row'[j] - b
      /\ Running(j)' <=> row'[j] < c
      /\ Offset(row[j])' = Offset(row'[j]) /\ Offset(row[j] + 1)' = Offset(row'[j] + 1)
      /\ rowEnd'[j] = IF k + 1 < c THEN Offset(k + 2) ELSE y
  BY <1>0, <1>2, RoundOfLane DEF NextRowEnd
<1>4. /\ count'[j] \in Nat /\ count'[j] <= y - Offset(b)
      /\ Written(j)' \in Seq(Ids(vocab)) /\ Len(Written(j)') = count'[j]
      /\ Written(j)' \o GreedyFrom(vocab, r)[NextAt(j) - x] = CodesOf(vocab, mine, i + 1)
      /\ laneRowEnds'[j][i + 1] = count'[j]
      /\ \A m \in 1 .. i : laneRowEnds'[j][m] = laneRowEnds[j][m]
  BY <1>0, <1>3, RoundWrites
<1>5. NextAt(j) - x = Len(r)
  <2> HIDE DEF x, y, r
  <2> QED
    BY <1>0, <1>2
<1>6. GreedyFrom(vocab, r)[Len(r)] = <<>>
  <2>1. Len(r) \in 0 .. Len(r)
    <3> DEFINE len == Len(r)
    <3>1. len \in Nat
      BY <1>2
    <3> HIDE DEF len
    <3>2. len \in 0 .. len
      BY <3>1
    <3> QED
      BY <3>2 DEF len
  <2> QED
    BY <1>1, <1>2, <2>1, GreedyFromUnfolds
<1>7. Written(j)' = CodesOf(vocab, mine, i + 1) /\ Len(CodesOf(vocab, mine, i + 1)) = count'[j]
  <2> DEFINE w == Written(j)'
             S == Ids(vocab)
  <2>1. w \in Seq(S) /\ w \o <<>> = CodesOf(vocab, mine, i + 1)
    BY <1>4, <1>5, <1>6
  <2> HIDE DEF w, S
  <2>2. w \o <<>> = w
    BY <2>1, ConcatEmptySeq
  <2>3. w = CodesOf(vocab, mine, i + 1)
    BY <2>1, <2>2
  <2> QED
    BY <1>4, <2>3 DEF w
<1>8. Reached(j)' = i + 1 /\ k + 1 \in b .. c
  <2> HIDE DEF k, b, c, i
  <2>0. k \in Nat /\ b \in Nat /\ c \in Nat /\ b <= k /\ k < c /\ i = k - b
    BY <1>1, <1>2
  <2>1. (k + 1) - b = i + 1 /\ k + 1 \in b .. c
    BY <2>0
  <2>2. row'[j] = k + 1 /\ Reached(j)' = row'[j] - b
    BY <1>3
  <2> QED
    BY <2>1, <2>2
<1>9. \A m \in 1 .. i + 1 : laneRowEnds'[j][m] = Len(CodesOf(vocab, mine, m))
  <2>1. \A m \in 1 .. i : laneRowEnds[j][m] = Len(CodesOf(vocab, mine, m))
    BY <1>0 DEF CodesInv
  <2> HIDE DEF i
  <2>2. \A m \in 1 .. i + 1 : m \in 1 .. i \/ m = i + 1
    BY <1>2
  <2> QED
    BY <1>4, <1>7, <2>1, <2>2
<1>10. CodesOf(vocab, mine, i + 1) \in Seq(Ids(vocab)) /\ Len(CodesOf(vocab, mine, i + 1)) \in Nat
  <2>1. i + 1 \in 0 .. Len(mine)
    <3> HIDE DEF i, mine
    <3> QED
      BY <1>1, <1>2
  <2>2. CodesOf(vocab, mine, i + 1) \in Seq(Ids(vocab))
    BY <1>1, <2>1, CodesOfSteps
  <2> QED
    BY <2>2, LenProperties
<1>11. CASE k + 1 < c
  <2>1. Running(j)' /\ rowEnd'[j] = Offset(k + 2)
    BY <1>3, <1>11
  <2>2. /\ k + 1 \in 0 .. Len(rows) - start /\ k + 2 \in k + 1 .. Len(rows) - start
        /\ i + 2 \in 1 .. Len(mine) /\ (i + 2) - 1 = i + 1
        /\ i + 2 \in 1 .. Len(rows) - (start + b)
        /\ start + b + (i + 2) = start + (k + 1) + 1 /\ (k + 1) + 1 = k + 2
    <3> HIDE DEF k, b, c, i, mine
    <3> QED
      BY <1>1, <1>2, <1>11
  <2>3. y \in Nat /\ Offset(k + 2) \in Nat /\ y <= Offset(k + 2)
    BY <2>2, OffsetFacts
  <2>4. PlaceInv(j)'
    <3>1. /\ Offset(row[j])' = y /\ Offset(row[j] + 1)' = Offset(k + 2)
          /\ row'[j] \in bounds'[j] .. bounds'[j + 1]
      BY <1>3, <1>8, <2>2
    <3> QED
      BY <1>3, <1>4, <2>1, <2>3, <3>1 DEF PlaceInv
  <2>5. Remaining(j)' = Greedy(vocab, mine[i + 2])
    <3>1. at'[j] - Offset(row[j])' = 0
      BY <1>3, <2>3
    <3>2. rows[start + row'[j] + 1] = mine[i + 2]
      BY <1>1, <1>3, <2>2
    <3> QED
      <4> DEFINE p == at'[j] - Offset(row[j])'
                 next == rows[start + row'[j] + 1]
      <4>1. Remaining(j)' = GreedyFrom(vocab, next)[p]
        BY <1>3, <2>1 DEF Remaining
      <4>2. p = 0 /\ next = mine[i + 2]
        BY <3>1, <3>2
      <4> HIDE DEF p, next, i, mine
      <4> QED
        BY <4>1, <4>2 DEF Greedy
  <2>6. CodesOf(vocab, mine, i + 2) = CodesOf(vocab, mine, i + 1) \o Greedy(vocab, mine[i + 2])
    <3> DEFINE m == i + 2
    <3>1. m \in 1 .. Len(mine) /\ m - 1 = i + 1 /\ Conforms(vocab) /\ mine \in Seq(ByteSeq)
      BY <1>1, <2>2
    <3> HIDE DEF m, mine, i
    <3>2. CodesOf(vocab, mine, m) = CodesOf(vocab, mine, m - 1) \o Greedy(vocab, mine[m])
      BY <3>1, CodesOfSteps
    <3> QED
      BY <3>1, <3>2 DEF m
  <2>7. /\ Written(j)' \o Remaining(j)' = CodesOf(vocab, mine, Reached(j)' + 1)
        /\ Len(CodesOf(vocab, mine, Reached(j)')) <= count'[j]
    <3>1. Reached(j)' + 1 = i + 2
      BY <1>2, <1>8
    <3> QED
      BY <1>4, <1>7, <1>8, <2>5, <2>6, <3>1
  <2>8. CodesInv(j)'
    BY <1>3, <1>8, <1>9, <2>1, <2>7 DEF CodesInv
  <2> QED
    BY <1>3, <2>4, <2>8
<1>12. CASE ~(k + 1 < c)
  <2>1. k + 1 = c
    <3> HIDE DEF k, b, c
    <3> QED
      BY <1>1, <1>2, <1>12
  <2>2. ~Running(j)' /\ rowEnd'[j] = y /\ y = Offset(c) /\ y \in Nat
    <3>1. ~Running(j)' /\ rowEnd'[j] = y
      BY <1>3, <1>12
    <3>2. y \in Nat
      BY <1>2
    <3>3. y = Offset(c)
      BY <2>1
    <3> QED
      BY <3>1, <3>2, <3>3
  <2>3. PlaceInv(j)'
    <3>1. row'[j] \in bounds'[j] .. bounds'[j + 1]
      BY <1>3, <1>8
    <3> QED
      BY <1>3, <1>4, <2>2, <3>1 DEF PlaceInv
  <2>4. Remaining(j)' = <<>>
    BY <2>2 DEF Remaining
  <2>5. Written(j)' \o Remaining(j)' = CodesOf(vocab, mine, i + 1)
    BY <1>4, <1>5, <1>6, <2>4
  <2>6. CodesInv(j)'
    BY <1>3, <1>4, <1>7, <1>8, <1>9, <2>2, <2>5 DEF CodesInv
  <2> QED
    BY <1>3, <2>3, <2>6
<1> QED
  BY <1>11, <1>12

LEMMA RoundKeepsLanes ==
    ASSUME InputInv, BoundsInv, Round, \A j \in LaneIds : LaneInv(j)
    PROVE  \A j \in LaneIds : LaneInv(j)'
<1> SUFFICES ASSUME NEW j \in LaneIds
             PROVE  LaneInv(j)'
  OBVIOUS
<1>1. LaneInv(j)
  OBVIOUS
<1>2. BufferInv(j)'
  BY <1>1, RoundKeepsBuffers
<1>3. PlaceInv(j)' /\ CodesInv(j)'
  <2>1. CASE ~Running(j)
    BY <1>1, <2>1, RoundKeepsIdle
  <2>2. CASE Running(j) /\ ~RowDone(j)
    BY <1>1, <2>2, RoundStaysInRow
  <2>3. CASE RowDone(j)
    BY <1>1, <2>3, RoundEndsRow
  <2> QED
    BY <2>1, <2>2, <2>3
<1> QED
  BY <1>2, <1>3 DEF LaneInv

-----------------------------------------------------------------------------
(***************************************************************************)
(* The start of a batch.                                                   *)
(***************************************************************************)

\* What a batch's start gives a lane.
LEMMA StartOfLane ==
    ASSUME InputInv, StartBatch, NEW j \in LaneIds
    PROVE  LET n == BatchRows
               b == LaneBounds(n)
           IN  /\ UNCHANGED <<vocab, rows, copies, lead, start>>
               /\ bounds' = b /\ end' = start + n /\ n \in 1 .. Len(rows) - start
               /\ b[j] \in 0 .. n /\ b[j + 1] \in b[j] .. n
               /\ row'[j] = b[j] /\ at'[j] = Offset(b[j]) /\ count'[j] = 0
               /\ rowEnd'[j] = IF b[j] < b[j + 1] THEN Offset(b[j] + 1) ELSE Offset(b[j])
               /\ laneCodes'[j] = [k \in 1 .. CodeSlots(Size(b[j + 1]) - Size(b[j])) |-> 0]
               /\ laneRowEnds'[j] = [k \in 1 .. b[j + 1] - b[j] + 1 |-> 0]
               /\ \A i : Offset(i)' = Offset(i) /\ Size(i)' = Size(i)
               /\ Running(j)' <=> b[j] < b[j + 1]
               /\ Mine(j)' = SubSeq(rows, start + b[j] + 1, Len(rows))
               /\ Reached(j)' = 0
<1> DEFINE n == BatchRows
           b == LaneBounds(n)
<1>1. UNCHANGED <<vocab, rows, copies, lead, start>> /\ start < Len(rows)
  BY DEF StartBatch, input
<1>2. n \in 1 .. Len(rows) - start
  BY <1>1, BatchRowsFound
<1> HIDE DEF n
<1>3. /\ b \in [0 .. NumLanes -> 0 .. n] /\ \A i \in LaneIds : b[i] <= b[i + 1]
  BY <1>2, LaneBoundsAscend
<1> HIDE DEF b
<1>4. j \in 0 .. NumLanes /\ j + 1 \in 0 .. NumLanes
  BY LanesAssumption DEF LaneIds
<1>5. b[j] \in 0 .. n /\ b[j + 1] \in b[j] .. n
  <2>1. b[j] \in 0 .. n /\ b[j + 1] \in 0 .. n /\ b[j] <= b[j + 1]
    BY <1>3, <1>4
  <2> QED
    BY <2>1
<1>6. /\ bounds' = b /\ end' = start + n
      /\ row'[j] = b[j] /\ at'[j] = Offset(b[j]) /\ count'[j] = 0
      /\ rowEnd'[j] = IF b[j] < b[j + 1] THEN Offset(b[j] + 1) ELSE Offset(b[j])
      /\ laneCodes'[j] = [k \in 1 .. CodeSlots(Size(b[j + 1]) - Size(b[j])) |-> 0]
      /\ laneRowEnds'[j] = [k \in 1 .. b[j + 1] - b[j] + 1 |-> 0]
  BY DEF StartBatch, n, b
<1>7. \A i : Offset(i)' = Offset(i) /\ Size(i)' = Size(i)
  BY <1>1 DEF Offset, Size
<1>8. Running(j)' <=> b[j] < b[j + 1]
  BY <1>6 DEF Running
<1>9. Mine(j)' = SubSeq(rows, start + b[j] + 1, Len(rows))
  BY <1>1, <1>6 DEF Mine
<1>10. Reached(j)' = 0
  <2>1. Reached(j)' = b[j] - b[j] /\ b[j] \in Int
    BY <1>5, <1>6 DEF Reached
  <2> QED
    BY <2>1
<1> QED
  BY <1>1, <1>2, <1>5, <1>6, <1>7, <1>8, <1>9, <1>10 DEF n, b

LEMMA StartShares ==
    ASSUME InputInv, StartBatch
    PROVE  BoundsInv'
<1> DEFINE n == BatchRows
           b == LaneBounds(n)
<1>1. UNCHANGED <<vocab, rows, copies, lead, start>> /\ start < Len(rows)
      /\ bounds' = b /\ end' = start + n
  BY DEF StartBatch, input
<1>2. n \in 1 .. Len(rows) - start
  BY <1>1, BatchRowsFound
<1> HIDE DEF n
<1>3. /\ b \in [0 .. NumLanes -> 0 .. n] /\ b[0] = 0 /\ b[NumLanes] = n
      /\ \A i \in LaneIds : b[i] <= b[i + 1]
  BY <1>2, LaneBoundsAscend
<1>4. Len(rows) \in Nat /\ start \in Nat
  BY InputFacts
<1> HIDE DEF b
<1>5. end' \in start + 1 .. Len(rows) /\ end' - start = n
  BY <1>1, <1>2, <1>4
<1> QED
  BY <1>1, <1>3, <1>5 DEF BoundsInv

LEMMA StartPlacesLane ==
    ASSUME InputInv, StartBatch, NEW j \in LaneIds
    PROVE  PlaceInv(j)' /\ BufferInv(j)'
<1> DEFINE n == BatchRows
           B == LaneBounds(n)
           b == B[j]
           c == B[j + 1]
<1>1. /\ UNCHANGED <<vocab, rows, copies, lead, start>>
      /\ bounds' = B /\ n \in 1 .. Len(rows) - start
      /\ b \in 0 .. n /\ c \in b .. n
      /\ row'[j] = b /\ at'[j] = Offset(b) /\ count'[j] = 0
      /\ rowEnd'[j] = IF b < c THEN Offset(b + 1) ELSE Offset(b)
      /\ laneCodes'[j] = [k \in 1 .. CodeSlots(Size(c) - Size(b)) |-> 0]
      /\ laneRowEnds'[j] = [k \in 1 .. c - b + 1 |-> 0]
      /\ \A i : Offset(i)' = Offset(i) /\ Size(i)' = Size(i)
      /\ Running(j)' <=> b < c
  BY StartOfLane
<1>2. Conforms(vocab) /\ Len(rows) \in Nat /\ start \in Nat
  BY InputFacts
<1>3. bounds'[j] = b /\ bounds'[j + 1] = c
  BY <1>1
<1> HIDE DEF n, B, b, c
<1>4. /\ b \in Nat /\ c \in Nat /\ b <= c /\ b \in b .. c
      /\ b \in 0 .. Len(rows) - start /\ c \in b .. Len(rows) - start
      /\ b < c => b + 1 \in b .. Len(rows) - start
      /\ ~(b < c) => c = b
  BY <1>1, <1>2
<1>5. /\ Offset(b) \in Nat /\ Offset(c) \in Nat /\ Size(b) \in Nat /\ Size(c) \in Nat
      /\ Size(b) <= Size(c)
  BY <1>4, OffsetFacts
<1>6. b < c => Offset(b + 1) \in Nat /\ Offset(b) <= Offset(b + 1)
  BY <1>4, OffsetFacts
<1>7. PlaceInv(j)'
  <2>1. /\ Offset(bounds[j])' = Offset(b) /\ Offset(bounds[j + 1])' = Offset(c)
        /\ Offset(row[j])' = Offset(b) /\ Offset(row[j] + 1)' = Offset(b + 1)
    BY <1>1, <1>3
  <2>2. row'[j] \in bounds'[j] .. bounds'[j + 1] /\ at'[j] \in Nat /\ count'[j] \in Nat
        /\ rowEnd'[j] \in Nat
    BY <1>1, <1>3, <1>4, <1>5, <1>6
  <2>3. count'[j] <= at'[j] - Offset(b)
    BY <1>1, <1>5
  <2>4. b < c => Offset(b) <= at'[j] /\ at'[j] <= rowEnd'[j] /\ rowEnd'[j] = Offset(b + 1)
    BY <1>1, <1>5, <1>6
  <2>5. ~(b < c) => at'[j] = rowEnd'[j] /\ at'[j] = Offset(c)
    BY <1>1, <1>4
  <2> QED
    BY <1>1, <2>1, <2>2, <2>3, <2>4, <2>5 DEF PlaceInv
<1>8. BufferInv(j)'
  <2> DEFINE m == Size(c) - Size(b) + 1
             e == c - b + 1
             S == Ids(vocab)
             T == Nat
  <2>1. m \in Nat /\ e \in Nat
    <3>1. m \in Nat
      BY <1>5
    <3>2. e \in Nat
      BY <1>4
    <3> QED
      BY <3>1, <3>2
  <2>2. 0 \in S
    <3>1. Found(j) \in S \/ TRUE
      OBVIOUS
    <3>2. vocab \in Seq(Token) /\ <<0>> \in TokensOf(vocab)
      BY <1>2, BytesAssumption DEF Conforms, SingleByteTokens, Byte
    <3>3. \E id \in S : vocab[id + 1] = <<0>>
      BY <3>2, VocabularyTyped
    <3>4. Len(vocab) \in Nat
      BY <3>2, LenProperties
    <3> QED
      BY <3>3, <3>4 DEF Ids
  <2>3. laneCodes'[j] = [k \in 1 .. m |-> 0] /\ laneRowEnds'[j] = [k \in 1 .. e |-> 0]
    BY <1>1 DEF CodeSlots
  <2>4. Size(bounds[j])' = Size(b) /\ Size(bounds[j + 1])' = Size(c) /\ vocab' = vocab
    BY <1>1, <1>3
  <2> HIDE DEF m, e, S
  <2>5. /\ laneCodes'[j] \in Seq(S) /\ Len(laneCodes'[j]) = m
        /\ laneRowEnds'[j] \in Seq(Nat) /\ Len(laneRowEnds'[j]) = e
    <3>1. [k \in 1 .. m |-> 0] \in [1 .. m -> S] /\ [k \in 1 .. e |-> 0] \in [1 .. e -> Nat]
      BY <2>2
    <3> QED
      BY <2>1, <2>3, <3>1
  <2> QED
    BY <1>3, <2>4, <2>5 DEF BufferInv, CodeSlots, m, e, S
<1> QED
  BY <1>7, <1>8

LEMMA StartHasCodes ==
    ASSUME InputInv, StartBatch, NEW j \in LaneIds
    PROVE  CodesInv(j)'
<1> DEFINE n == BatchRows
           B == LaneBounds(n)
           b == B[j]
           c == B[j + 1]
           mine == SubSeq(rows, start + b + 1, Len(rows))
<1>1. /\ vocab' = vocab /\ rows' = rows /\ start' = start
      /\ n \in 1 .. Len(rows) - start
      /\ b \in 0 .. n /\ c \in b .. n
      /\ row'[j] = b /\ at'[j] = Offset(b) /\ count'[j] = 0
      /\ Offset(row[j])' = Offset(b)
      /\ Running(j)' <=> b < c
      /\ Mine(j)' = mine /\ Reached(j)' = 0
  <2>1. row'[j] = b /\ \A i : Offset(i)' = Offset(i)
    BY StartOfLane
  <2>2. Offset(row[j])' = Offset(b)
    BY <2>1
  <2> QED
    BY <2>2, StartOfLane
<1>2. Conforms(vocab) /\ rows \in Seq(ByteSeq) /\ Len(rows) \in Nat /\ start \in Nat
  BY InputFacts
<1> DEFINE m == start + b
<1> HIDE DEF n, B, b, c
<1>3. m \in 0 .. Len(rows) /\ Len(rows) \in m .. Len(rows) /\ b \in Nat /\ c \in Nat
      /\ b \in 0 .. Len(rows) - start
      /\ (b < c => m + 1 \in 1 .. Len(rows) /\ 1 \in 1 .. Len(rows) - m)
  BY <1>1, <1>2
<1>4. /\ mine \in Seq(ByteSeq) /\ Len(mine) = Len(rows) - m
      /\ \A i \in 1 .. Len(rows) - m : mine[i] = rows[m + i]
  <2>1. mine = SubSeq(rows, m + 1, Len(rows))
    OBVIOUS
  <2> HIDE DEF m, mine
  <2> QED
    BY <1>2, <1>3, <2>1, MiddlePiece
<1>5. Written(j)' = <<>>
  <2>1. Written(j)' = SubSeq(laneCodes'[j], 1, 0)
    BY <1>1 DEF Written
  <2> QED
    BY <2>1
<1>6. CodesOf(vocab, mine, 0) = <<>>
  BY <1>2, <1>4, CodesOfSteps
<1>7. Written(j)' \o Remaining(j)'
        = CodesOf(vocab, mine, IF b < c THEN 1 ELSE 0)
  <2>1. CASE b < c
    <3>1. Remaining(j)' = Greedy(vocab, mine[1])
      <4> DEFINE p == at'[j] - Offset(row[j])'
                 next == rows[start + b + 1]
      <4>1. Remaining(j)' = GreedyFrom(vocab, next)[p]
        BY <1>1, <2>1 DEF Remaining
      <4>2. p = 0
        <5>1. b \in b .. Len(rows) - start /\ b \in 0 .. Len(rows) - start
          BY <1>2, <1>3
        <5>2. Offset(b) \in Nat /\ p = Offset(b) - Offset(b)
          BY <1>1, <5>1, OffsetFacts
        <5> QED
          BY <5>2
      <4>3. next = mine[1]
        BY <1>3, <1>4, <2>1
      <4> HIDE DEF p, next, mine
      <4> QED
        BY <4>1, <4>2, <4>3 DEF Greedy
    <3>2. CodesOf(vocab, mine, 1) = <<>> \o Greedy(vocab, mine[1])
      <4>1. 1 \in 1 .. Len(mine) /\ 1 - 1 = 0
        BY <1>3, <1>4, <2>1
      <4> HIDE DEF mine
      <4>2. CodesOf(vocab, mine, 1) = CodesOf(vocab, mine, 1 - 1) \o Greedy(vocab, mine[1])
        BY <1>2, <1>4, <4>1, CodesOfSteps
      <4> QED
        BY <1>6, <4>1, <4>2
    <3> QED
      BY <1>5, <2>1, <3>1, <3>2
  <2>2. CASE ~(b < c)
    <3>1. Remaining(j)' = <<>>
      BY <1>1, <2>2 DEF Remaining
    <3>2. <<>> \o <<>> = <<>>
      OBVIOUS
    <3> QED
      BY <1>5, <1>6, <2>2, <3>1, <3>2
  <2> QED
    BY <2>1, <2>2
<1>8. Len(CodesOf(vocab, mine, 0)) <= count'[j]
  BY <1>1, <1>6
<1> HIDE DEF mine
<1> QED
  BY <1>1, <1>7, <1>8 DEF CodesInv

-----------------------------------------------------------------------------
(***************************************************************************)
(* The invariant of the parser.                                            *)
(***************************************************************************)

\* The rows whose codes are delivered.
DeliveredRows == IF mode = "join" THEN start + bounds[lane] ELSE start

IInv ==
    /\ TypeOK
    /\ mode # "join" => lane = 0
    /\ mode \in {"lanes", "join"} => BoundsInv /\ \A j \in LaneIds : LaneInv(j)
    /\ mode = "join" => \A j \in LaneIds : ~Running(j)
    /\ Delivered(DeliveredRows)

\* The codes of some rows of the corpus, and their offsets, which no width truncates.
LEMMA DeliveredTyped ==
    ASSUME InputInv, NEW n \in 0 .. Len(rows)
    PROVE  /\ CodesOf(vocab, rows, n) \in Seq(Ids(vocab))
           /\ Len(CodesOf(vocab, rows, n)) \in 0 .. OffsetLimit - 1
           /\ OffsetsOf(vocab, rows, n) \in Seq(0 .. OffsetLimit - 1)
           /\ Len(OffsetsOf(vocab, rows, n)) = n + 1
           /\ \A k \in 1 .. n + 1 :
                OffsetsOf(vocab, rows, n)[k] = Len(CodesOf(vocab, rows, k - 1))
<1>1. Conforms(vocab) /\ rows \in Seq(ByteSeq) /\ Len(rows) \in Nat
  BY InputFacts
<1>2. OffsetLimit \in Nat /\ Len(CodesOf(vocab, rows, Len(rows))) < OffsetLimit
  BY OffsetsFit, LanesAssumption DEF InputInv
<1> DEFINE len(i) == Len(CodesOf(vocab, rows, i))
           S == 0 .. OffsetLimit - 1
           N == Len(rows)
<1>3. ASSUME NEW i \in 0 .. N
      PROVE  CodesOf(vocab, rows, i) \in Seq(Ids(vocab)) /\ len(i) \in S
  <2>1. CodesOf(vocab, rows, i) \in Seq(Ids(vocab)) /\ CodesOf(vocab, rows, N) \in Seq(Ids(vocab))
    BY <1>1, CodesOfSteps
  <2>2. len(i) \in Nat /\ len(N) \in Nat
    BY <2>1, LenProperties
  <2>3. i \in 0 .. N /\ N \in i .. N
    BY <1>1
  <2>4. len(i) <= len(N)
    BY <1>1, <2>3, CodesOfBegins
  <2>5. len(N) < OffsetLimit
    BY <1>2
  <2> HIDE DEF len
  <2>6. len(i) \in S
    BY <1>2, <2>2, <2>4, <2>5
  <2> QED
    BY <2>1, <2>6
<1> DEFINE o == [k \in 1 .. n + 1 |-> len(k - 1)]
<1>4. OffsetsOf(vocab, rows, n) = o
  BY DEF OffsetsOf
<1>5. \A k \in 1 .. n + 1 : k - 1 \in 0 .. N
  BY <1>1
<1> HIDE DEF len, S
<1>6. o \in Seq(S) /\ Len(o) = n + 1 /\ \A k \in 1 .. n + 1 : o[k] = len(k - 1)
  <2>1. o \in [1 .. n + 1 -> S]
    BY <1>3, <1>5
  <2>2. n + 1 \in Nat
    BY <1>1
  <2> QED
    BY <2>1, <2>2
<1> HIDE DEF o
<1> QED
  BY <1>3, <1>4, <1>6 DEF len, S

\* Joining an idle lane delivers its rows.
LEMMA JoinDelivers ==
    ASSUME InputInv, BoundsInv, lane \in LaneIds, LaneInv(lane), ~Running(lane), JoinLane,
           Delivered(start + bounds[lane])
    PROVE  /\ codes' = CodesOf(vocab, rows, start + bounds[lane + 1])
           /\ rowOffsets' = OffsetsOf(vocab, rows, start + bounds[lane + 1])
<1> DEFINE b == bounds[lane]
           c == bounds[lane + 1]
           m == start + b
           n == c - b
           mine == Mine(lane)
           ends == laneRowEnds[lane]
<1>1. /\ Conforms(vocab) /\ rows \in Seq(ByteSeq) /\ start \in Nat /\ Len(rows) \in Nat
      /\ b \in Nat /\ c \in Nat /\ b <= c /\ start + c <= end /\ end <= Len(rows) /\ end \in Nat
  BY InputFacts, LaneFacts
<1>2. row[lane] \in b .. c /\ ~(row[lane] < c) /\ Reached(lane) = row[lane] - b
  BY DEF LaneInv, PlaceInv, Running, Reached
<1>3. /\ Written(lane) \o <<>> = CodesOf(vocab, mine, Reached(lane))
      /\ \A k \in 1 .. Reached(lane) : ends[k] = Len(CodesOf(vocab, mine, k))
      /\ Written(lane) = SubSeq(laneCodes[lane], 1, count[lane])
  BY DEF LaneInv, CodesInv, Remaining, Written
<1>4. /\ codes' = codes \o Written(lane)
      /\ rowOffsets' = rowOffsets \o [k \in 1 .. n |-> FromUsize(Len(codes) + ends[k])]
  BY <1>3 DEF JoinLane, JoinedOffset
<1>5. mine = SubSeq(rows, m + 1, Len(rows))
  BY DEF Mine
<1>6. codes = CodesOf(vocab, rows, m) /\ rowOffsets = OffsetsOf(vocab, rows, m)
  BY DEF Delivered
<1>7. Written(lane) \in Seq(Ids(vocab))
  <2> DEFINE s == laneCodes[lane]
             k == count[lane]
             S == Ids(vocab)
  <2>1. s \in Seq(S) /\ k \in 0 .. Len(s) - 1 /\ Found(lane) \in S
    BY SlotsSuffice, FoundIs DEF LaneInv, BufferInv
  <2> HIDE DEF s, k, S
  <2>2. SubSeq(s, 1, k) \in Seq(S)
    BY <2>1, PrefixOfExcept
  <2> QED
    BY <1>3, <2>2 DEF s, k, S
<1> HIDE DEF b, c, mine, ends
<1>8. /\ Reached(lane) = n /\ n \in Nat /\ m \in Nat /\ m \in 0 .. Len(rows)
      /\ m + n = start + c /\ start + c \in 0 .. Len(rows)
      /\ \A k \in 0 .. n : k \in 0 .. Len(rows) - m /\ m + k \in 0 .. Len(rows)
  <2> DEFINE i == row[lane]
             N == Len(rows)
  <2>0. /\ i \in b .. c /\ ~(i < c) /\ b \in Nat /\ c \in Nat /\ start \in Nat /\ N \in Nat
        /\ start + c <= N /\ b <= c /\ Reached(lane) = i - b
    BY <1>1, <1>2
  <2> HIDE DEF i, N
  <2>1. i = c
    BY <2>0
  <2>2. n \in Nat /\ m \in Nat /\ m \in 0 .. N /\ m + n = start + c /\ start + c \in 0 .. N
    BY <2>0
  <2>3. Reached(lane) = n
    BY <2>0, <2>1
  <2> HIDE DEF m, n
  <2>4. \A k \in 0 .. n : k \in 0 .. N - m /\ m + k \in 0 .. N
    BY <2>0, <2>2
  <2> QED
    BY <2>2, <2>3, <2>4 DEF N
<1> HIDE DEF m, n
<1>9. \A k \in 0 .. n :
        CodesOf(vocab, rows, m) \o CodesOf(vocab, mine, k) = CodesOf(vocab, rows, m + k)
  BY <1>1, <1>5, <1>8, CodesOfRest
<1>10. codes' = CodesOf(vocab, rows, m + n)
  <2>1. Written(lane) = CodesOf(vocab, mine, n)
    BY <1>3, <1>7, <1>8, ConcatEmptySeq
  <2>2. n \in 0 .. n
    BY <1>8
  <2> QED
    BY <1>4, <1>6, <1>9, <2>1, <2>2
<1>11. ASSUME NEW k \in 1 .. n
       PROVE  FromUsize(Len(codes) + ends[k]) = Len(CodesOf(vocab, rows, m + k))
  <2> DEFINE len == Len(CodesOf(vocab, rows, m + k))
             here == CodesOf(vocab, rows, m)
             more == CodesOf(vocab, mine, k)
             S == Ids(vocab)
  <2>1. k \in 0 .. n /\ m + k \in 0 .. Len(rows) /\ k \in 0 .. Len(rows) - m
    BY <1>8
  <2>2. here \in Seq(S) /\ len \in 0 .. OffsetLimit - 1
    BY <1>8, <2>1, DeliveredTyped
  <2>3. more \in Seq(S)
    <3>1. /\ mine \in Seq(ByteSeq) /\ Len(mine) = Len(rows) - m
      <4>1. Len(rows) \in m .. Len(rows)
        BY <1>1, <1>8
      <4> QED
        BY <1>1, <1>5, <1>8, <4>1, MiddlePiece
    <3> QED
      BY <1>1, <2>1, <3>1, CodesOfSteps
  <2>4. here \o more = CodesOf(vocab, rows, m + k)
    BY <1>9, <2>1
  <2> HIDE DEF here, more, S
  <2>5. Len(here \o more) = Len(here) + Len(more)
    BY <2>2, <2>3, ConcatProperties
  <2>6. Len(codes) + ends[k] = len
    BY <1>3, <1>6, <1>8, <2>4, <2>5 DEF here, more
  <2> HIDE DEF len
  <2>7. len % OffsetLimit = len
    BY <2>2, LanesAssumption
  <2> QED
    BY <2>6, <2>7 DEF FromUsize, len
<1>12. rowOffsets' = OffsetsOf(vocab, rows, m + n)
  <2> DEFINE o == OffsetsOf(vocab, rows, m)
             p == OffsetsOf(vocab, rows, m + n)
             more == [k \in 1 .. n |-> FromUsize(Len(codes) + ends[k])]
             S == 0 .. OffsetLimit - 1
             len(i) == Len(CodesOf(vocab, rows, i))
  <2>1. /\ o \in Seq(S) /\ Len(o) = m + 1 /\ \A k \in 1 .. m + 1 : o[k] = len(k - 1)
        /\ p \in Seq(S) /\ Len(p) = (m + n) + 1 /\ \A k \in 1 .. (m + n) + 1 : p[k] = len(k - 1)
        /\ \A k \in 1 .. n : len(m + k) \in S
    <3>1. m + n \in 0 .. Len(rows) /\ \A k \in 1 .. n : m + k \in 0 .. Len(rows)
      BY <1>8
    <3> QED
      BY <1>8, <3>1, DeliveredTyped
  <2>2. more = [k \in 1 .. n |-> len(m + k)]
    BY <1>11
  <2> HIDE DEF o, p, S, len, more
  <2>3. more \in Seq(S) /\ Len(more) = n /\ \A k \in 1 .. n : more[k] = len(m + k)
    <3>1. more \in [1 .. n -> S]
      BY <2>1, <2>2
    <3>2. n \in Nat
      BY <1>8
    <3>3. more \in Seq(S) /\ Len(more) = n
      BY <3>1, <3>2
    <3> QED
      BY <2>2, <3>3
  <2>4. /\ o \o more \in Seq(S) /\ Len(o \o more) = (m + 1) + n
        /\ \A k \in 1 .. (m + 1) + n :
              (o \o more)[k] = IF k <= m + 1 THEN o[k] ELSE more[k - (m + 1)]
    <3>1. o \in Seq(S) /\ more \in Seq(S) /\ Len(o) = m + 1 /\ Len(more) = n
      BY <2>1, <2>3
    <3>2. /\ o \o more \in Seq(S) /\ Len(o \o more) = Len(o) + Len(more)
          /\ \A k \in 1 .. Len(o) + Len(more) :
                (o \o more)[k] = IF k <= Len(o) THEN o[k] ELSE more[k - Len(o)]
      BY <3>1, ConcatProperties
    <3> QED
      BY <3>1, <3>2
  <2>5. (m + 1) + n = (m + n) + 1 /\ (m + 1) + n \in Nat
    BY <1>8
  <2>6. ASSUME NEW k \in 1 .. (m + 1) + n
        PROVE  (o \o more)[k] = p[k]
    <3>1. p[k] = len(k - 1)
      BY <2>1, <2>5
    <3>2. CASE k <= m + 1
      <4>1. k \in 1 .. m + 1
        BY <1>8, <3>2
      <4> QED
        BY <2>1, <2>4, <3>1, <3>2, <4>1
    <3>3. CASE ~(k <= m + 1)
      <4>1. k - (m + 1) \in 1 .. n /\ m + (k - (m + 1)) = k - 1
        BY <1>8, <3>3
      <4> QED
        BY <2>3, <2>4, <3>1, <3>3, <4>1
    <3> QED
      BY <3>2, <3>3
  <2>7. o \o more = p
    BY <2>1, <2>4, <2>5, <2>6, SeqEqual
  <2> QED
    BY <1>4, <1>6, <2>7 DEF o, more, p
<1> QED
  BY <1>8, <1>10, <1>12 DEF c

\* What the invariant of the lanes says of the types of the next state.
LEMMA LanesTyped ==
    ASSUME InputInv', BoundsInv', \A j \in LaneIds : LaneInv(j)',
           at' = [j \in LaneIds |-> at'[j]], rowEnd' = [j \in LaneIds |-> rowEnd'[j]],
           row' = [j \in LaneIds |-> row'[j]], count' = [j \in LaneIds |-> count'[j]],
           laneCodes' = [j \in LaneIds |-> laneCodes'[j]],
           laneRowEnds' = [j \in LaneIds |-> laneRowEnds'[j]]
    PROVE  /\ end' \in 0 .. Len(rows') /\ bounds' \in [0 .. NumLanes -> 0 .. Len(rows')]
           /\ at' \in [LaneIds -> Nat] /\ rowEnd' \in [LaneIds -> Nat]
           /\ row' \in [LaneIds -> 0 .. Len(rows')] /\ count' \in [LaneIds -> Nat]
           /\ laneCodes' \in [LaneIds -> Seq(Ids(vocab'))]
           /\ laneRowEnds' \in [LaneIds -> Seq(Nat)]
<1>1. Len(rows') \in Nat /\ start' \in 0 .. Len(rows')
  <2>1. rows' \in Seq(ByteSeq) /\ start' \in 0 .. Len(rows')
    BY GreedyAssumption DEF InputInv
  <2> QED
    BY <2>1, LenProperties
<1>2. /\ end' \in start' + 1 .. Len(rows') /\ bounds' \in [0 .. NumLanes -> 0 .. end' - start']
  BY DEF BoundsInv
<1>3. end' \in 0 .. Len(rows') /\ 0 .. end' - start' \subseteq 0 .. Len(rows')
  <2> DEFINE N == Len(rows')
  <2>1. N \in Nat /\ start' \in 0 .. N /\ end' \in start' + 1 .. N
    BY <1>1, <1>2
  <2> HIDE DEF N
  <2>2. end' \in 0 .. N /\ \A i \in 0 .. end' - start' : i \in 0 .. N
    BY <2>1
  <2> QED
    BY <2>2 DEF N
<1>4. bounds' \in [0 .. NumLanes -> 0 .. Len(rows')]
  BY <1>2, <1>3
<1>5. ASSUME NEW j \in LaneIds
      PROVE  /\ at'[j] \in Nat /\ rowEnd'[j] \in Nat /\ count'[j] \in Nat
             /\ row'[j] \in 0 .. Len(rows')
             /\ laneCodes'[j] \in Seq(Ids(vocab')) /\ laneRowEnds'[j] \in Seq(Nat)
  <2>1. PlaceInv(j)' /\ BufferInv(j)'
    BY DEF LaneInv
  <2>2. /\ at'[j] \in Nat /\ rowEnd'[j] \in Nat /\ count'[j] \in Nat
        /\ row'[j] \in bounds'[j] .. bounds'[j + 1]
        /\ laneCodes'[j] \in Seq(Ids(vocab')) /\ laneRowEnds'[j] \in Seq(Nat)
    BY <2>1 DEF PlaceInv, BufferInv
  <2>3. j \in 0 .. NumLanes /\ j + 1 \in 0 .. NumLanes
    BY LanesAssumption DEF LaneIds
  <2>4. bounds'[j] \in 0 .. Len(rows') /\ bounds'[j + 1] \in 0 .. Len(rows')
    BY <1>4, <2>3
  <2>5. row'[j] \in 0 .. Len(rows')
    <3> DEFINE N == Len(rows')
               b == bounds'[j]
               c == bounds'[j + 1]
    <3>1. N \in Nat /\ b \in 0 .. N /\ c \in 0 .. N /\ row'[j] \in b .. c
      BY <1>1, <2>2, <2>4
    <3> HIDE DEF N, b, c
    <3>2. row'[j] \in 0 .. N
      BY <3>1
    <3> QED
      BY <3>2 DEF N
  <2> QED
    BY <2>2, <2>5
<1>6. /\ at' \in [LaneIds -> Nat] /\ rowEnd' \in [LaneIds -> Nat]
      /\ row' \in [LaneIds -> 0 .. Len(rows')] /\ count' \in [LaneIds -> Nat]
  BY <1>5
<1>7. /\ laneCodes' \in [LaneIds -> Seq(Ids(vocab'))]
      /\ laneRowEnds' \in [LaneIds -> Seq(Nat)]
  BY <1>5
<1> QED
  BY <1>3, <1>4, <1>6, <1>7

LEMMA InvariantFacts ==
    ASSUME IInv
    PROVE  /\ InputInv /\ start \in Nat /\ Len(rows) \in Nat /\ start \in 0 .. Len(rows)
           /\ lane \in LaneIds
           /\ mode # "join" => Delivered(start) /\ lane = 0
           /\ mode = "join" => Delivered(start + bounds[lane])
           /\ mode \in {"lanes", "join"} => BoundsInv /\ \A j \in LaneIds : LaneInv(j)
<1>1. InputInv
  BY DEF IInv, TypeOK, InputInv
<1> QED
  BY <1>1, InputFacts DEF IInv, InputInv, TypeOK, DeliveredRows

LEMMA StepStart ==
    ASSUME IInv, StartBatch
    PROVE  IInv'
<1>1. /\ InputInv /\ mode = "batch" /\ mode' = "lanes" /\ lane = 0 /\ lane' = 0
      /\ codes' = codes /\ rowOffsets' = rowOffsets /\ start' = start
      /\ vocab' = vocab /\ rows' = rows /\ copies' = copies /\ lead' = lead
      /\ Delivered(start) /\ start \in 0 .. Len(rows)
  BY InvariantFacts DEF StartBatch, input
<1>2. InputInv'
  BY <1>1 DEF InputInv
<1>3. BoundsInv'
  BY <1>1, StartShares
<1>4. \A j \in LaneIds : LaneInv(j)'
  BY <1>1, StartPlacesLane, StartHasCodes DEF LaneInv
<1>5. /\ at' = [j \in LaneIds |-> at'[j]] /\ rowEnd' = [j \in LaneIds |-> rowEnd'[j]]
      /\ row' = [j \in LaneIds |-> row'[j]] /\ count' = [j \in LaneIds |-> count'[j]]
      /\ laneCodes' = [j \in LaneIds |-> laneCodes'[j]]
      /\ laneRowEnds' = [j \in LaneIds |-> laneRowEnds'[j]]
  BY DEF StartBatch
<1>6. /\ end' \in 0 .. Len(rows') /\ bounds' \in [0 .. NumLanes -> 0 .. Len(rows')]
      /\ at' \in [LaneIds -> Nat] /\ rowEnd' \in [LaneIds -> Nat]
      /\ row' \in [LaneIds -> 0 .. Len(rows')] /\ count' \in [LaneIds -> Nat]
      /\ laneCodes' \in [LaneIds -> Seq(Ids(vocab'))]
      /\ laneRowEnds' \in [LaneIds -> Seq(Nat)]
  BY <1>2, <1>3, <1>4, <1>5, LanesTyped
<1>7. codes \in Seq(Ids(vocab)) /\ rowOffsets \in Seq(0 .. OffsetLimit - 1) /\ lane \in LaneIds
  BY DEF IInv, TypeOK
<1>8. TypeOK'
  BY <1>1, <1>2, <1>6, <1>7 DEF TypeOK, InputInv
<1>9. Delivered(DeliveredRows)'
  BY <1>1 DEF Delivered, DeliveredRows
<1> QED
  BY <1>1, <1>3, <1>4, <1>8, <1>9 DEF IInv

LEMMA StepRound ==
    ASSUME IInv, Round
    PROVE  IInv'
<1>1. /\ InputInv /\ mode = "lanes" /\ lane = 0 /\ lane' = 0
      /\ mode' \in {"lanes", "join"}
      /\ mode' = "join" => \A j \in LaneIds : ~Running(j)
      /\ codes' = codes /\ rowOffsets' = rowOffsets /\ start' = start
      /\ vocab' = vocab /\ rows' = rows /\ copies' = copies /\ lead' = lead
      /\ end' = end /\ bounds' = bounds
      /\ Delivered(start) /\ start \in 0 .. Len(rows)
      /\ BoundsInv /\ \A j \in LaneIds : LaneInv(j)
  BY InvariantFacts DEF Round, input
<1>2. InputInv' /\ BoundsInv'
  BY <1>1, SameBatch
<1>3. \A j \in LaneIds : LaneInv(j)'
  BY <1>1, RoundKeepsLanes
<1>4. mode' = "join" => \A j \in LaneIds : ~Running(j)'
  BY <1>1, RoundKeepsIdle
<1>5. /\ at' = [j \in LaneIds |-> at'[j]] /\ rowEnd' = [j \in LaneIds |-> rowEnd'[j]]
      /\ row' = [j \in LaneIds |-> row'[j]] /\ count' = [j \in LaneIds |-> count'[j]]
      /\ laneCodes' = [j \in LaneIds |-> laneCodes'[j]]
      /\ laneRowEnds' = [j \in LaneIds |-> laneRowEnds'[j]]
  BY DEF Round
<1>6. /\ end' \in 0 .. Len(rows') /\ bounds' \in [0 .. NumLanes -> 0 .. Len(rows')]
      /\ at' \in [LaneIds -> Nat] /\ rowEnd' \in [LaneIds -> Nat]
      /\ row' \in [LaneIds -> 0 .. Len(rows')] /\ count' \in [LaneIds -> Nat]
      /\ laneCodes' \in [LaneIds -> Seq(Ids(vocab'))]
      /\ laneRowEnds' \in [LaneIds -> Seq(Nat)]
  BY <1>2, <1>3, <1>5, LanesTyped
<1>7. codes \in Seq(Ids(vocab)) /\ rowOffsets \in Seq(0 .. OffsetLimit - 1) /\ lane \in LaneIds
  BY DEF IInv, TypeOK
<1>8. TypeOK'
  BY <1>1, <1>2, <1>6, <1>7 DEF TypeOK, InputInv
<1>9. Delivered(DeliveredRows)'
  <2>1. DeliveredRows' = start
    <3>1. bounds[0] = 0 /\ start \in Nat
      BY <1>1, InputFacts DEF BoundsInv
    <3> QED
      BY <1>1, <3>1 DEF DeliveredRows
  <2> QED
    BY <1>1, <2>1 DEF Delivered
<1> QED
  BY <1>1, <1>2, <1>3, <1>4, <1>8, <1>9 DEF IInv

\* After a lane is joined, what is delivered ends where the next one begins.
LEMMA JoinAdvances ==
    ASSUME IInv, JoinLane
    PROVE  /\ DeliveredRows' = start + bounds[lane + 1]
           /\ start + bounds[lane] <= start + bounds[lane + 1]
           /\ start + bounds[lane] \in 0 .. Len(rows)
           /\ start + bounds[lane + 1] \in 0 .. Len(rows)
           /\ codes' = CodesOf(vocab, rows, start + bounds[lane + 1])
           /\ rowOffsets' = OffsetsOf(vocab, rows, start + bounds[lane + 1])
           /\ lane' \in LaneIds /\ start' \in 0 .. Len(rows)
<1>1. /\ mode = "join" /\ InputInv /\ BoundsInv /\ lane \in LaneIds
      /\ LaneInv(lane) /\ ~Running(lane) /\ Delivered(start + bounds[lane])
      /\ bounds' = bounds /\ start \in 0 .. Len(rows)
  BY InvariantFacts DEF IInv, JoinLane
<1>2. /\ codes' = CodesOf(vocab, rows, start + bounds[lane + 1])
      /\ rowOffsets' = OffsetsOf(vocab, rows, start + bounds[lane + 1])
  BY <1>1, JoinDelivers
<1>3. /\ start \in Nat /\ end \in Nat /\ Len(rows) \in Nat
      /\ bounds[lane] \in Nat /\ bounds[lane + 1] \in Nat /\ bounds[lane] <= bounds[lane + 1]
      /\ start + bounds[lane + 1] <= end /\ end <= Len(rows)
  BY <1>1, LaneFacts
<1>4. /\ start + bounds[lane] <= start + bounds[lane + 1]
      /\ start + bounds[lane] \in 0 .. Len(rows)
      /\ start + bounds[lane + 1] \in 0 .. Len(rows)
  BY <1>3
<1>5. /\ DeliveredRows' = start + bounds[lane + 1]
      /\ lane' \in LaneIds /\ start' \in 0 .. Len(rows)
  <2>1. NumLanes \in Nat \ {0} /\ lane \in 0 .. NumLanes - 1
    BY <1>1, LanesAssumption DEF LaneIds
  <2>2. CASE lane + 1 < NumLanes
    <3>1. lane' = lane + 1 /\ mode' = "join" /\ start' = start
      BY <1>1, <2>2 DEF JoinLane
    <3>2. lane + 1 \in LaneIds
      BY <2>1, <2>2 DEF LaneIds
    <3> QED
      BY <1>1, <3>1, <3>2 DEF DeliveredRows
  <2>3. CASE ~(lane + 1 < NumLanes)
    <3>1. lane' = 0 /\ mode' = "batch" /\ start' = end
      BY <2>3 DEF JoinLane
    <3>2. lane + 1 = NumLanes /\ 0 \in LaneIds
      BY <2>1, <2>3 DEF LaneIds
    <3>3. bounds[lane + 1] = end - start
      BY <1>1, <3>2 DEF BoundsInv
    <3>4. start + bounds[lane + 1] = end /\ end \in 0 .. Len(rows)
      BY <1>3, <3>3
    <3> QED
      BY <3>1, <3>2, <3>4 DEF DeliveredRows
  <2> QED
    BY <2>2, <2>3
<1> QED
  BY <1>2, <1>4, <1>5

LEMMA StepJoin ==
    ASSUME IInv, JoinLane
    PROVE  IInv'
<1>1. /\ mode = "join" /\ InputInv /\ BoundsInv /\ \A j \in LaneIds : LaneInv(j) /\ ~Running(j)
      /\ vocab' = vocab /\ rows' = rows /\ copies' = copies /\ lead' = lead
      /\ end' = end /\ bounds' = bounds /\ cursor' = cursor
      /\ mode' \in {"join", "batch"} /\ (mode' # "join" => lane' = 0)
      /\ mode' = "join" => start' = start
  <2>1. mode = "join" /\ InputInv /\ BoundsInv /\ \A j \in LaneIds : LaneInv(j) /\ ~Running(j)
    BY InvariantFacts DEF IInv, JoinLane
  <2> QED
    BY <2>1 DEF JoinLane, input
<1>2. /\ DeliveredRows' = start + bounds[lane + 1]
      /\ start + bounds[lane + 1] \in 0 .. Len(rows)
      /\ codes' = CodesOf(vocab, rows, start + bounds[lane + 1])
      /\ rowOffsets' = OffsetsOf(vocab, rows, start + bounds[lane + 1])
      /\ lane' \in LaneIds /\ start' \in 0 .. Len(rows)
  BY JoinAdvances
<1>3. codes' \in Seq(Ids(vocab)) /\ rowOffsets' \in Seq(0 .. OffsetLimit - 1)
  BY <1>1, <1>2, DeliveredTyped
<1>4. TypeOK'
  BY <1>1, <1>2, <1>3 DEF IInv, TypeOK, cursor
<1>5. Delivered(DeliveredRows)'
  BY <1>1, <1>2 DEF Delivered
<1>6. ASSUME mode' = "join"
      PROVE  BoundsInv' /\ \A j \in LaneIds : LaneInv(j)' /\ ~Running(j)'
  <2>1. /\ BoundsInv' /\ \A i : Offset(i)' = Offset(i) /\ Size(i)' = Size(i)
        /\ \A j : Mine(j)' = Mine(j)
    BY <1>1, <1>6, SameBatch
  <2>2. at' = at /\ rowEnd' = rowEnd /\ row' = row /\ count' = count
        /\ laneCodes' = laneCodes /\ laneRowEnds' = laneRowEnds
    BY <1>1 DEF cursor
  <2>3. ASSUME NEW j \in LaneIds
        PROVE  LaneInv(j)' /\ ~Running(j)'
    <3>1. Running(j)' = Running(j)
      BY <1>1, <2>2 DEF Running
    <3>2. PlaceInv(j)' = PlaceInv(j)
      BY <1>1, <1>6, <2>2 DEF PlaceInv, Offset, Running
    <3>3. BufferInv(j)' = BufferInv(j)
      BY <1>1, <1>6, <2>2 DEF BufferInv, Size
    <3>4. CodesInv(j)' = CodesInv(j)
      BY <1>1, <1>6, <2>2 DEF CodesInv, Written, Remaining, Reached, Running, Mine, Offset
    <3> QED
      BY <1>1, <3>1, <3>2, <3>3, <3>4 DEF LaneInv
  <2> QED
    BY <2>1, <2>3
<1> QED
  BY <1>1, <1>4, <1>5, <1>6 DEF IInv

LEMMA InitIInv == Init => IInv
<1> SUFFICES ASSUME Init PROVE IInv
  OBVIOUS
<1>1. /\ vocab \in Vocabularies /\ rows \in Corpora /\ Delivered(0)
      /\ copies \in BOOLEAN /\ lead \in Nat
      /\ mode = "batch" /\ start = 0 /\ end = 0 /\ lane = 0
      /\ bounds = [j \in 0 .. NumLanes |-> 0]
      /\ at = [j \in LaneIds |-> 0] /\ rowEnd = at /\ row = at /\ count = at
      /\ laneCodes = [j \in LaneIds |-> <<>>] /\ laneRowEnds = laneCodes
  BY LanesAssumption DEF Init, GreedyInit
<1>2. Len(rows) \in Nat
  BY <1>1, GreedyAssumption, LenProperties
<1>3. 0 \in 0 .. Len(rows)
  BY <1>2
<1>4. InputInv
  BY <1>1, <1>3 DEF InputInv
<1>5. codes \in Seq(Ids(vocab)) /\ rowOffsets \in Seq(0 .. OffsetLimit - 1)
  BY <1>1, <1>3, <1>4, DeliveredTyped DEF Delivered
<1>6. /\ at \in [LaneIds -> Nat] /\ row \in [LaneIds -> 0 .. Len(rows)]
      /\ bounds \in [0 .. NumLanes -> 0 .. Len(rows)] /\ 0 \in LaneIds
  BY <1>1, <1>3, LanesAssumption DEF LaneIds
<1>7. laneCodes \in [LaneIds -> Seq(Ids(vocab))] /\ laneRowEnds \in [LaneIds -> Seq(Nat)]
  <2>1. \A S : <<>> \in Seq(S)
    OBVIOUS
  <2> QED
    BY <1>1, <2>1
<1>8. TypeOK
  BY <1>1, <1>3, <1>5, <1>6, <1>7 DEF TypeOK
<1> QED
  BY <1>1, <1>8 DEF IInv, DeliveredRows

LEMMA StepFinish ==
    ASSUME IInv, Finish
    PROVE  IInv'
<1>1. /\ mode = "batch" /\ mode' = "done" /\ lane = 0 /\ lane' = lane /\ start' = start
      /\ vocab' = vocab /\ rows' = rows /\ copies' = copies /\ lead' = lead
      /\ codes' = codes /\ rowOffsets' = rowOffsets /\ end' = end /\ bounds' = bounds
      /\ at' = at /\ rowEnd' = rowEnd /\ row' = row /\ count' = count
      /\ laneCodes' = laneCodes /\ laneRowEnds' = laneRowEnds
      /\ Delivered(start)
  BY InvariantFacts DEF Finish, input, cursor
<1>2. TypeOK'
  BY <1>1 DEF IInv, TypeOK
<1>3. Delivered(DeliveredRows)'
  BY <1>1 DEF Delivered, DeliveredRows
<1> QED
  BY <1>1, <1>2, <1>3 DEF IInv

LEMMA StepIInv == IInv /\ [Next]_vars => IInv'
<1> SUFFICES ASSUME IInv, [Next]_vars PROVE IInv'
  OBVIOUS
<1>1. CASE Next
  BY <1>1, StepStart, StepRound, StepJoin, StepFinish DEF Next
<1>2. CASE UNCHANGED vars
  BY <1>2 DEF vars, input, cursor, IInv, TypeOK, Delivered, DeliveredRows, BoundsInv, LaneInv,
              PlaceInv, BufferInv, CodesInv, Written, Remaining, Reached, Mine, Running,
              Offset, Size
<1> QED
  BY <1>1, <1>2

\* What the proofs below start from.
THEOREM InvariantHolds == Spec => []IInv
BY InitIInv, StepIInv, PTL DEF Spec

LEMMA InvariantKeepsToRows == IInv => LanesKeepToTheirRows
<1> SUFFICES ASSUME IInv PROVE LanesKeepToTheirRows
  OBVIOUS
<1>1. ASSUME mode = "lanes", NEW j \in LaneIds
      PROVE  /\ count[j] + 1 \in DOMAIN laneCodes[j]
             /\ row[j] - bounds[j] + 1 \in DOMAIN laneRowEnds[j]
             /\ at[j] <= rowEnd[j]
             /\ IF Running(j)
                THEN Offset(row[j]) <= at[j] /\ rowEnd[j] = Offset(row[j] + 1)
                ELSE at[j] = rowEnd[j] /\ at[j] = Offset(bounds[j + 1])
  <2>1. InputInv /\ BoundsInv /\ PlaceInv(j) /\ BufferInv(j)
    BY <1>1, InvariantFacts DEF LaneInv
  <2>2. /\ count[j] \in 0 .. Len(laneCodes[j]) - 1
        /\ Reached(j) \in 0 .. Len(laneRowEnds[j]) - 1
    BY <2>1, SlotsSuffice
  <2>3. laneCodes[j] \in Seq(Ids(vocab)) /\ laneRowEnds[j] \in Seq(Nat)
    BY <2>1 DEF BufferInv
  <2>4. /\ DOMAIN laneCodes[j] = 1 .. Len(laneCodes[j]) /\ Len(laneCodes[j]) \in Nat
        /\ DOMAIN laneRowEnds[j] = 1 .. Len(laneRowEnds[j]) /\ Len(laneRowEnds[j]) \in Nat
    BY <2>3, LenProperties
  <2>5. count[j] + 1 \in 1 .. Len(laneCodes[j]) /\ Reached(j) + 1 \in 1 .. Len(laneRowEnds[j])
    <3> DEFINE m == Len(laneCodes[j])
               n == Len(laneRowEnds[j])
    <3>1. m \in Nat /\ n \in Nat /\ count[j] \in 0 .. m - 1 /\ Reached(j) \in 0 .. n - 1
      BY <2>2, <2>4
    <3> HIDE DEF m, n
    <3>2. count[j] + 1 \in 1 .. m /\ Reached(j) + 1 \in 1 .. n
      BY <3>1
    <3> QED
      BY <3>2 DEF m, n
  <2>6. /\ at[j] \in Nat /\ rowEnd[j] \in Nat
        /\ Running(j) => Offset(row[j]) <= at[j] /\ at[j] <= rowEnd[j]
                         /\ rowEnd[j] = Offset(row[j] + 1)
        /\ ~Running(j) => at[j] = rowEnd[j] /\ at[j] = Offset(bounds[j + 1])
    BY <2>1 DEF PlaceInv
  <2>7. at[j] <= rowEnd[j]
    BY <2>6
  <2> QED
    BY <2>4, <2>5, <2>6, <2>7 DEF Reached
<1>2. TypeOK
  BY DEF IInv
<1> QED
  BY <1>1, <1>2 DEF LanesKeepToTheirRows, BuffersSuffice

\* However many lanes there are and however large a batch is, a code never reaches into
\* the next row, an exhausted lane stays at the end of its last row, and there is a slot
\* for everything a lane writes and discards (encoding/lanes.rs).
THEOREM LanesStayInRows == Spec => []LanesKeepToTheirRows
BY InvariantHolds, InvariantKeepsToRows, PTL

LEMMA InvariantKeepsFinished == IInv => FinishedRowsAreFinal
<1> SUFFICES ASSUME IInv, mode \in {"lanes", "join"}, NEW j \in LaneIds,
                    NEW n \in 0 .. row[j] - bounds[j]
             PROVE  LET mine == CodesOf(vocab, SubSeq(rows, start + bounds[j] + 1, Len(rows)), n)
                    IN  /\ Len(mine) <= count[j]
                        /\ SubSeq(laneCodes[j], 1, Len(mine)) = mine
                        /\ n > 0 => laneRowEnds[j][n] = Len(mine)
  BY DEF FinishedRowsAreFinal
<1>1. InputInv /\ BoundsInv /\ LaneInv(j) /\ PlaceInv(j) /\ BufferInv(j) /\ CodesInv(j)
  BY InvariantFacts DEF LaneInv
<1> DEFINE S == Ids(vocab)
           R == Mine(j)
           i == Reached(j)
           top == IF Running(j) THEN i + 1 ELSE i
           all == CodesOf(vocab, R, top)
           done == CodesOf(vocab, R, i)
           mine == CodesOf(vocab, R, n)
           buffer == laneCodes[j]
           k == count[j]
           w == Written(j)
           rest == Remaining(j)
<1>2. /\ Conforms(vocab) /\ R \in Seq(ByteSeq) /\ Len(R) \in Nat
      /\ i \in 0 .. Len(R) /\ top \in 0 .. Len(R) /\ n \in 0 .. i /\ i \in Nat
      /\ i <= top
  <2>1. /\ Conforms(vocab) /\ start \in Nat /\ end \in Nat /\ Len(rows) \in Nat
        /\ bounds[j] \in Nat /\ bounds[j + 1] \in Nat /\ bounds[j] <= bounds[j + 1]
        /\ start + bounds[j + 1] <= end /\ end <= Len(rows)
        /\ R \in Seq(ByteSeq) /\ Len(R) = Len(rows) - (start + bounds[j])
    BY <1>1, InputFacts, LaneFacts
  <2>2. row[j] \in bounds[j] .. bounds[j + 1] /\ (Running(j) <=> row[j] < bounds[j + 1])
        /\ i = row[j] - bounds[j] /\ n \in 0 .. row[j] - bounds[j]
    BY <1>1 DEF PlaceInv, Running, Reached
  <2> DEFINE b == bounds[j]
             c == bounds[j + 1]
             r == row[j]
             N == Len(rows)
  <2>3. /\ start \in Nat /\ N \in Nat /\ b \in Nat /\ c \in Nat /\ start + c <= N
        /\ r \in b .. c /\ (Running(j) <=> r < c) /\ i = r - b /\ Len(R) = N - (start + b)
        /\ n \in 0 .. r - b
    BY <2>1, <2>2
  <2> HIDE DEF b, c, r, N, i, R
  <2>4. /\ Len(R) \in Nat /\ i \in 0 .. Len(R) /\ n \in 0 .. i /\ i \in Nat
        /\ Running(j) => i + 1 \in 0 .. Len(R)
    BY <2>3
  <2>5. top \in 0 .. Len(R) /\ i <= top
    BY <2>4
  <2> QED
    BY <2>1, <2>4, <2>5 DEF R
<1>3. Mine(j) = SubSeq(rows, start + bounds[j] + 1, Len(rows))
  BY DEF Mine
<1>4. /\ w \o rest = all /\ Len(done) <= k
      /\ n > 0 => laneRowEnds[j][n] = Len(mine)
  <2>1. \A m \in 1 .. i : laneRowEnds[j][m] = Len(CodesOf(vocab, R, m))
    BY <1>1 DEF CodesInv
  <2>2. n > 0 => n \in 1 .. i
    <3> HIDE DEF i
    <3> QED
      BY <1>2
  <2> QED
    BY <1>1, <2>1, <2>2 DEF CodesInv
<1>5. /\ buffer \in Seq(S) /\ k \in 0 .. Len(buffer) - 1 /\ Found(j) \in S
      /\ w = SubSeq(buffer, 1, k)
  BY <1>1, SlotsSuffice, FoundIs DEF BufferInv, Written
<1>6. rest \in Seq(S)
  <2>1. CASE Running(j)
    <3> DEFINE r == rows[start + row[j] + 1]
               p == at[j] - Offset(row[j])
    <3>1. r \in ByteSeq /\ p \in 0 .. Len(r)
      BY <1>1, <2>1, RunningFacts
    <3>2. GreedyFrom(vocab, r)[p] \in Seq(S)
      BY <1>2, <3>1, GreedyFromUnfolds
    <3> QED
      BY <2>1, <3>2 DEF Remaining
  <2>2. CASE ~Running(j)
    <3>1. <<>> \in Seq(S)
      OBVIOUS
    <3> QED
      BY <2>2, <3>1 DEF Remaining
  <2> QED
    BY <2>1, <2>2
<1> HIDE DEF S, R, i, top, buffer, k, w, rest
<1>7. /\ all \in Seq(S) /\ done \in Seq(S) /\ mine \in Seq(S)
      /\ Len(mine) <= Len(done) /\ StartsAt(all, 0, mine)
  <2>1. i \in n .. Len(R) /\ n \in 0 .. Len(R) /\ top \in n .. Len(R)
    BY <1>2
  <2>2. all \in Seq(S) /\ done \in Seq(S) /\ mine \in Seq(S)
    BY <1>2, <2>1, CodesOfSteps DEF S
  <2> QED
    BY <1>2, <2>1, <2>2, CodesOfBegins
<1> HIDE DEF all, done, mine
<1> DEFINE m == Len(mine)
<1>8. m \in Nat /\ Len(done) \in Nat /\ k \in Nat /\ m <= k /\ Len(buffer) \in Nat /\ k < Len(buffer)
  <2>1. m \in Nat /\ Len(done) \in Nat /\ Len(buffer) \in Nat
    BY <1>5, <1>7, LenProperties
  <2>2. m <= Len(done) /\ Len(done) <= k /\ k \in 0 .. Len(buffer) - 1
    BY <1>4, <1>5, <1>7
  <2> HIDE DEF m
  <2> QED
    BY <2>1, <2>2
<1>9. /\ w \in Seq(S) /\ Len(w) = k /\ \A x \in 1 .. k : w[x] = buffer[x]
      /\ SubSeq(buffer, 1, m) \in Seq(S) /\ Len(SubSeq(buffer, 1, m)) = m
      /\ \A x \in 1 .. m : SubSeq(buffer, 1, m)[x] = buffer[x]
  <2> HIDE DEF m
  <2>1. 0 \in 0 .. Len(buffer) /\ k \in 0 .. Len(buffer) /\ m \in 0 .. Len(buffer) /\ 0 + 1 = 1
        /\ k - 0 = k /\ m - 0 = m /\ \A x \in Nat : 0 + x = x
    BY <1>8
  <2>2. /\ SubSeq(buffer, 0 + 1, k) \in Seq(S) /\ Len(SubSeq(buffer, 0 + 1, k)) = k - 0
        /\ \A x \in 1 .. k - 0 : SubSeq(buffer, 0 + 1, k)[x] = buffer[0 + x]
    BY <1>5, <2>1, MiddlePiece
  <2>3. /\ SubSeq(buffer, 0 + 1, m) \in Seq(S) /\ Len(SubSeq(buffer, 0 + 1, m)) = m - 0
        /\ \A x \in 1 .. m - 0 : SubSeq(buffer, 0 + 1, m)[x] = buffer[0 + x]
    BY <1>5, <2>1, MiddlePiece
  <2> QED
    BY <1>5, <2>1, <2>2, <2>3
<1>10. \A x \in 1 .. m : all[x] = mine[x]
  BY <1>7, <1>8 DEF StartsAt
<1>11. \A x \in 1 .. k : all[x] = w[x]
  <2>1. /\ Len(w \o rest) = Len(w) + Len(rest) /\ Len(rest) \in Nat
        /\ \A x \in 1 .. Len(w) + Len(rest) :
              (w \o rest)[x] = IF x <= Len(w) THEN w[x] ELSE rest[x - Len(w)]
    <3>1. w \in Seq(S) /\ rest \in Seq(S)
      BY <1>6, <1>9
    <3> QED
      BY <3>1, ConcatProperties, LenProperties
  <2>2. ASSUME NEW x \in 1 .. k
        PROVE  x \in 1 .. Len(w) + Len(rest) /\ x <= Len(w)
    BY <1>8, <1>9, <2>1
  <2>3. \A x \in 1 .. k : (w \o rest)[x] = w[x]
    BY <2>1, <2>2
  <2> QED
    BY <1>4, <2>3
<1>12. SubSeq(buffer, 1, m) = mine
  <2>1. \A x \in 1 .. m : x \in 1 .. k
    <3> HIDE DEF m
    <3> QED
      BY <1>8
  <2>2. \A x \in 1 .. m : SubSeq(buffer, 1, m)[x] = mine[x]
    BY <1>9, <1>10, <1>11, <2>1
  <2> QED
    BY <1>7, <1>9, <2>2, SeqEqual
<1>13. m <= k
  BY <1>8
<1> QED
  BY <1>3, <1>4, <1>12, <1>13 DEF mine, buffer, k, R

\* However lanes interleave, and whatever an idle lane writes and discards, the rows a
\* lane has finished keep their greedy codes, and their ends (encoding/lanes.rs).
THEOREM FinishedStaysFinal == Spec => []FinishedRowsAreFinal
BY InvariantHolds, InvariantKeepsFinished, PTL

LEMMA StepDelivers ==
    ASSUME IInv, [Next]_vars
    PROVE  [Deliver]_<<vocab, rows, codes, rowOffsets>>
<1>1. CASE JoinLane
  <2> DEFINE m == start + bounds[lane]
             n == start + bounds[lane + 1]
  <2>1. /\ m <= n /\ m \in 0 .. Len(rows) /\ n \in 0 .. Len(rows)
        /\ codes' = CodesOf(vocab, rows, n) /\ rowOffsets' = OffsetsOf(vocab, rows, n)
    BY <1>1, JoinAdvances
  <2>2. /\ InputInv /\ codes = CodesOf(vocab, rows, m) /\ rowOffsets = OffsetsOf(vocab, rows, m)
        /\ Len(rows) \in Nat
    BY <1>1, InvariantFacts DEF Delivered, JoinLane
  <2>3. vocab' = vocab /\ rows' = rows
    BY <1>1 DEF JoinLane, input
  <2> HIDE DEF m, n
  <2>4. Len(rowOffsets) = m + 1
    BY <2>1, <2>2, DeliveredTyped
  <2>5. CASE m = n
    BY <2>1, <2>2, <2>3, <2>5
  <2>6. CASE m # n
    <3>1. n \in m + 1 .. Len(rows)
      BY <2>1, <2>2, <2>6
    <3>2. n \in Len(rowOffsets) .. Len(rows)
      BY <2>4, <3>1
    <3>3. Deliver
      BY <2>1, <2>3, <3>2 DEF Deliver
    <3> QED
      BY <3>3
  <2> QED
    BY <2>5, <2>6
<1>2. CASE StartBatch \/ Round \/ Finish \/ UNCHANGED vars
  <2>1. UNCHANGED <<vocab, rows, codes, rowOffsets>>
    BY <1>2 DEF StartBatch, Round, Finish, input, vars
  <2> QED
    BY <2>1
<1> QED
  BY <1>1, <1>2 DEF Next

\* Interleaved parsing is greedy encoding: the lanes' codes come out as if each row had
\* been encoded on its own and in order (Parser, encoding/parser.rs).
THEOREM LanesImplementGreedy == Spec => ImplementsGreedy
<1>1. Init => GreedyInit
  BY DEF Init
<1>2. IInv /\ [Next]_vars => [Deliver]_<<vocab, rows, codes, rowOffsets>>
  BY StepDelivers
<1> QED
  BY <1>1, <1>2, InvariantHolds, PTL DEF Spec, ImplementsGreedy, GreedySpec
=============================================================================
