------------------------- MODULE ByteStringsProofs -------------------------
(***************************************************************************)
(* Facts about ByteStrings and Vocabulary that the proofs of the           *)
(* components cite.                                                        *)
(***************************************************************************)
EXTENDS Vocabulary, SequenceTheorems, FiniteSetTheorems, NaturalsInduction,
        WellFoundedInduction, TLAPS

\* Every non-empty set of naturals has a least element.
LEMMA LeastNatural ==
    ASSUME NEW S \in SUBSET Nat, S # {}
    PROVE  \E m \in S : \A n \in S : m <= n
<1>1. PICK m \in S : \A n \in S : <<n, m>> \notin OpToRel(<, Nat)
  BY NatLessThanWellFounded, WFMin, Zenon
<1>2. \A n \in S : ~(n < m)
  BY <1>1, Zenon DEF OpToRel
<1> QED
  BY <1>2, SMT

\* Tokens are non-empty byte sequences of bounded length.
LEMMA TokenType ==
    ASSUME NEW t \in Token
    PROVE  /\ t \in ByteSeq
           /\ Len(t) \in 1 .. MaxTokenSize
           /\ DOMAIN t = 1 .. Len(t)
           /\ \A k \in 1 .. Len(t) : t[k] \in Byte
<1>1. PICK n \in 1 .. MaxTokenSize : t \in [1 .. n -> Byte]
  BY DEF Token
<1> n \in Nat
  BY BytesAssumption
<1>2. t \in Seq(Byte) /\ Len(t) = n
  BY <1>1
<1> QED
  BY <1>1, <1>2 DEF ByteSeq

\* Conversely, byte sequences of such a length are tokens.
LEMMA TokenIntro ==
    ASSUME NEW t \in ByteSeq, Len(t) \in 1 .. MaxTokenSize
    PROVE  t \in Token
<1>1. t \in [1 .. Len(t) -> Byte]
  BY LenProperties DEF ByteSeq
<1> QED
  BY <1>1 DEF Token

\* A dictionary with every single byte matches at every position of a row:
\* LongestMatch returns what its name says.
LEMMA LongestMatchFound ==
    ASSUME NEW T \in SUBSET Token, SingleByteTokens \subseteq T,
           NEW s \in ByteSeq, NEW at \in Nat, at < Len(s)
    PROVE  IsLongestAt(T, s, at, LongestMatch(T, s, at))
<1> DEFINE Matches == {u \in T : StartsAt(s, at, u)}
           Gaps == {MaxTokenSize - Len(u) : u \in Matches}
<1>1. MaxTokenSize \in Nat
  BY BytesAssumption
<1>2. \A u \in Matches : Len(u) \in 1 .. MaxTokenSize
  BY TokenType
<1>3. Matches # {}
  <2>1. s[at + 1] \in Byte
    BY LenProperties DEF ByteSeq
  <2>2. <<s[at + 1]>> \in T
    BY <2>1 DEF SingleByteTokens
  <2>3. StartsAt(s, at, <<s[at + 1]>>)
    BY LenProperties DEF StartsAt, ByteSeq
  <2> QED
    BY <2>2, <2>3
<1>4. Gaps \in SUBSET Nat
  BY <1>1, <1>2
<1>5. Gaps # {}
  BY <1>3
<1>6. PICK gap \in Gaps : \A g \in Gaps : gap <= g
  BY <1>4, <1>5, LeastNatural
<1>7. PICK t \in Matches : gap = MaxTokenSize - Len(t)
  OBVIOUS
<1>8. ASSUME NEW u \in Matches
      PROVE  Len(u) <= Len(t)
  <2>1. MaxTokenSize - Len(t) <= MaxTokenSize - Len(u)
    BY <1>6, <1>7
  <2> QED
    BY <2>1, <1>1, <1>2
<1>9. IsLongestAt(T, s, at, t)
  BY <1>8 DEF IsLongestAt
<1> QED
  BY <1>9 DEF LongestMatch, IsLongestAt

\* A slice within a row.
LEMMA SliceProperties ==
    ASSUME NEW s \in ByteSeq, NEW from \in Nat, NEW to \in Nat,
           from <= to, to <= Len(s)
    PROVE  /\ Slice(s, from, to) \in ByteSeq
           /\ Len(Slice(s, from, to)) = to - from
           /\ \A k \in 1 .. to - from : Slice(s, from, to)[k] = s[from + k]
<1>1. to - from \in Nat
  OBVIOUS
<1>2. \A k \in 1 .. to - from : s[from + k] \in Byte
  BY LenProperties DEF ByteSeq
<1>3. Slice(s, from, to) \in [1 .. to - from -> Byte]
  BY <1>2 DEF Slice
<1>4. Slice(s, from, to) \in Seq(Byte) /\ Len(Slice(s, from, to)) = to - from
  BY <1>1, <1>3
<1> QED
  BY <1>4 DEF Slice, ByteSeq

\* The bytes of two adjacent matches are the concatenation of the tokens.
LEMMA AdjacentMatches ==
    ASSUME NEW s \in ByteSeq, NEW at \in Nat, NEW a \in Token, NEW b \in Token,
           StartsAt(s, at, a), StartsAt(s, at + Len(a), b)
    PROVE  LET both == Slice(s, at, at + Len(a) + Len(b))
           IN  /\ both = a \o b
               /\ both \in ByteSeq
               /\ Len(both) = Len(a) + Len(b)
               /\ StartsAt(s, at, both)
<1> DEFINE to == at + Len(a) + Len(b)
           both == Slice(s, at, to)
<1>1. Len(a) \in Nat /\ Len(b) \in Nat /\ a \in Seq(Byte) /\ b \in Seq(Byte)
  BY TokenType DEF ByteSeq
<1>2. to \in Nat /\ at <= to /\ to <= Len(s)
  BY <1>1, LenProperties DEF StartsAt, ByteSeq
<1>3. /\ both \in ByteSeq
      /\ Len(both) = Len(a) + Len(b)
      /\ \A k \in 1 .. Len(a) + Len(b) : both[k] = s[at + k]
  <2>1. to - at = Len(a) + Len(b)
    BY <1>1
  <2>2. /\ Slice(s, at, to) \in ByteSeq
        /\ Len(Slice(s, at, to)) = to - at
        /\ \A k \in 1 .. to - at : Slice(s, at, to)[k] = s[at + k]
    <3> HIDE DEF to
    <3> QED
      BY <1>2, SliceProperties
  <2> QED
    BY <2>1, <2>2
<1>4. /\ a \o b \in Seq(Byte)
      /\ Len(a \o b) = Len(a) + Len(b)
      /\ \A k \in 1 .. Len(a) + Len(b) :
            (a \o b)[k] = IF k <= Len(a) THEN a[k] ELSE b[k - Len(a)]
  BY <1>1, ConcatProperties
<1>5. ASSUME NEW k \in 1 .. Len(a) + Len(b)
      PROVE  both[k] = (a \o b)[k]
  <2>1. CASE k <= Len(a)
    BY <2>1, <1>1, <1>3, <1>4 DEF StartsAt
  <2>2. CASE k > Len(a)
    <3>1. k - Len(a) \in 1 .. Len(b)
      BY <2>2, <1>1
    <3>2. s[at + Len(a) + (k - Len(a))] = b[k - Len(a)]
      BY <3>1 DEF StartsAt
    <3>3. at + Len(a) + (k - Len(a)) = at + k
      BY <1>1
    <3> QED
      BY <2>2, <3>2, <3>3, <1>1, <1>3, <1>4
  <2> QED
    BY <2>1, <2>2, <1>1
<1>6. both = a \o b
  BY <1>3, <1>4, <1>5, SeqEqual DEF ByteSeq
<1>7. StartsAt(s, at, both)
  BY <1>1, <1>2, <1>3 DEF StartsAt
<1> QED
  BY <1>3, <1>6, <1>7

\* The recursion that defines RowOffsets has a solution: by the least number of
\* rows for which a partial solution were missing.
LEMMA RowOffsetsExist ==
    ASSUME NEW rows \in Seq(ByteSeq)
    PROVE  /\ RowOffsets(rows) \in [0 .. Len(rows) -> Nat]
           /\ RowOffsets(rows)[0] = 0
           /\ \A i \in 1 .. Len(rows) :
                RowOffsets(rows)[i] = RowOffsets(rows)[i - 1] + Len(rows[i])
<1> DEFINE Solves(f, n) ==
               f = [i \in 0 .. n |-> IF i = 0 THEN 0 ELSE f[i - 1] + Len(rows[i])]
           Missing == {n \in 0 .. Len(rows) : ~\E f \in [0 .. n -> Nat] : Solves(f, n)}
<1>1. Len(rows) \in Nat /\ \A i \in 1 .. Len(rows) : Len(rows[i]) \in Nat
  BY LenProperties, ElementOfSeq DEF ByteSeq
<1>2. Missing = {}
  <2>1. SUFFICES ASSUME Missing # {}
                 PROVE  FALSE
    OBVIOUS
  <2>2. Missing \in SUBSET Nat
    BY <1>1
  <2>3. PICK n \in Missing : \A k \in Missing : n <= k
    BY <2>1, <2>2, LeastNatural
  <2>4. CASE n = 0
    <3> DEFINE f == [i \in 0 .. 0 |-> 0]
    <3>1. f \in [0 .. 0 -> Nat] /\ Solves(f, 0)
      OBVIOUS
    <3> QED
      BY <2>3, <2>4, <3>1
  <2>5. CASE n # 0
    <3>1. n \in Nat /\ n - 1 \in 0 .. Len(rows) /\ n - 1 < n /\ n \in 1 .. Len(rows)
      BY <1>1, <2>5
    <3>2. n - 1 \notin Missing
      <4> HIDE DEF Missing
      <4> QED
        BY <2>3, <3>1
    <3>3. PICK g \in [0 .. n - 1 -> Nat] : Solves(g, n - 1)
      BY <3>1, <3>2
    <3> DEFINE f == [i \in 0 .. n |-> IF i = n THEN g[n - 1] + Len(rows[n]) ELSE g[i]]
    <3>4. f \in [0 .. n -> Nat]
      BY <1>1, <3>1
    <3>5. ASSUME NEW i \in 0 .. n
          PROVE  f[i] = IF i = 0 THEN 0 ELSE f[i - 1] + Len(rows[i])
      <4>1. CASE i = n
        BY <3>1, <4>1
      <4>2. CASE i # n
        <5>1. i \in 0 .. n - 1 /\ i - 1 # n
          BY <3>1, <4>2
        <5>2. g[i] = IF i = 0 THEN 0 ELSE g[i - 1] + Len(rows[i])
          BY <3>3, <5>1, Zenon
        <5>3. i # 0 => i - 1 \in 0 .. n
          BY <5>1, <3>1
        <5> QED
          BY <5>1, <5>2, <5>3, <4>2
      <4> QED
        BY <4>1, <4>2
    <3>6. Solves(f, n)
      BY <3>4, <3>5
    <3> QED
      BY <3>1, <3>4, <3>6
  <2> QED
    BY <2>4, <2>5
<1>3. PICK f \in [0 .. Len(rows) -> Nat] : Solves(f, Len(rows))
  BY <1>1, <1>2
<1>4. Solves(RowOffsets(rows), Len(rows))
  BY <1>3 DEF RowOffsets
<1>5. /\ DOMAIN RowOffsets(rows) = 0 .. Len(rows)
      /\ RowOffsets(rows)[0] = 0
      /\ \A i \in 1 .. Len(rows) :
            RowOffsets(rows)[i] = RowOffsets(rows)[i - 1] + Len(rows[i])
  BY <1>1, <1>4
<1>6. \A i \in 0 .. Len(rows) : RowOffsets(rows)[i] \in Nat
  <2> DEFINE Bad == {i \in 0 .. Len(rows) : RowOffsets(rows)[i] \notin Nat}
  <2>1. SUFFICES ASSUME Bad # {}
                 PROVE  FALSE
    OBVIOUS
  <2>2. PICK i \in Bad : \A k \in Bad : i <= k
    <3>1. Bad \in SUBSET Nat
      BY <1>1
    <3> QED
      BY <2>1, <3>1, LeastNatural
  <2>3. i \in 1 .. Len(rows) /\ i - 1 \in 0 .. Len(rows) /\ i - 1 < i
    BY <1>1, <1>5
  <2>4. RowOffsets(rows)[i - 1] \in Nat
    BY <2>2, <2>3
  <2> QED
    BY <1>1, <1>5, <2>3, <2>4
<1>7. RowOffsets(rows) = [i \in 0 .. Len(rows) |-> RowOffsets(rows)[i]]
  BY <1>4
<1> QED
  BY <1>5, <1>6, <1>7

\* The bytes in the first rows, one row at a time.
LEMMA ByteCountSteps ==
    ASSUME NEW rows \in Seq(ByteSeq)
    PROVE  /\ ByteCount(rows, 0) = 0
           /\ \A n \in 0 .. Len(rows) : ByteCount(rows, n) \in Nat
           /\ \A n \in 1 .. Len(rows) :
                ByteCount(rows, n) = ByteCount(rows, n - 1) + Len(rows[n])
<1>1. Len(rows) \in Nat
  BY LenProperties
<1>2. \A n \in 0 .. Len(rows) : RowOffsets(rows)[n] \in Nat
  BY RowOffsetsExist
<1> QED
  BY <1>1, <1>2, RowOffsetsExist DEF ByteCount

\* More rows hold no fewer bytes.
LEMMA ByteCountMonotone ==
    ASSUME NEW rows \in Seq(ByteSeq), NEW m \in 0 .. Len(rows), NEW n \in m .. Len(rows)
    PROVE  ByteCount(rows, m) <= ByteCount(rows, n)
<1> DEFINE Short == {k \in m .. Len(rows) : ByteCount(rows, k) < ByteCount(rows, m)}
<1>1. Len(rows) \in Nat /\ \A k \in 1 .. Len(rows) : Len(rows[k]) \in Nat
  BY LenProperties, ElementOfSeq DEF ByteSeq
<1>2. \A k \in 0 .. Len(rows) : ByteCount(rows, k) \in Nat
  BY ByteCountSteps
<1>3. SUFFICES ASSUME Short # {}
               PROVE  FALSE
  BY <1>1, <1>2
<1>4. PICK k \in Short : \A j \in Short : k <= j
  <2>1. Short \in SUBSET Nat
    BY <1>1
  <2> QED
    BY <1>3, <2>1, LeastNatural
<1>5. k # m /\ k \in 1 .. Len(rows) /\ k - 1 \in m .. Len(rows)
  BY <1>1, <1>2, <1>4
<1>6. ByteCount(rows, k - 1) >= ByteCount(rows, m)
  <2>1. k - 1 \notin Short
    <3> HIDE DEF Short
    <3>1. k \in Int
      BY <1>5
    <3> QED
      BY <1>4, <3>1
  <2>2. ~(ByteCount(rows, k - 1) < ByteCount(rows, m))
    BY <1>5, <2>1
  <2>3. ByteCount(rows, k - 1) \in Nat /\ ByteCount(rows, m) \in Nat
    <3>1. k - 1 \in 0 .. Len(rows)
      BY <1>1, <1>5
    <3> QED
      BY <1>2, <3>1
  <2> QED
    BY <2>2, <2>3
<1>7. ByteCount(rows, k) = ByteCount(rows, k - 1) + Len(rows[k])
  BY <1>5, ByteCountSteps
<1>8. /\ ByteCount(rows, k) \in Nat /\ ByteCount(rows, k - 1) \in Nat
      /\ ByteCount(rows, m) \in Nat /\ Len(rows[k]) \in Nat
  <2>1. k - 1 \in 0 .. Len(rows) /\ k \in 0 .. Len(rows)
    BY <1>1, <1>5
  <2> QED
    BY <1>1, <1>2, <1>5, <2>1
<1>9. ByteCount(rows, k) < ByteCount(rows, m)
  BY <1>4
<1> QED
  BY <1>6, <1>7, <1>8, <1>9

\* The bytes in the first rows do not depend on the rows behind them.
LEMMA ByteCountOfPrefix ==
    ASSUME NEW rows \in Seq(ByteSeq), NEW m \in 0 .. Len(rows), NEW n \in 0 .. m
    PROVE  ByteCount(SubSeq(rows, 1, m), n) = ByteCount(rows, n)
<1> DEFINE head == SubSeq(rows, 1, m)
           Wrong == {k \in 0 .. m : ByteCount(head, k) # ByteCount(rows, k)}
<1>1. Len(rows) \in Nat /\ m \in Nat /\ m <= Len(rows)
  BY LenProperties
<1>2. head \in Seq(ByteSeq) /\ Len(head) = m /\ \A k \in 1 .. m : head[k] = rows[k]
  <2>1. \A k \in 1 .. m : rows[k] \in ByteSeq
    BY <1>1, ElementOfSeq
  <2> QED
    BY <1>1, <2>1, SubSeqProperties
<1> HIDE DEF head
<1>3. SUFFICES ASSUME Wrong # {}
               PROVE  FALSE
  BY DEF head
<1>4. PICK k \in Wrong : \A j \in Wrong : k <= j
  <2>1. Wrong \in SUBSET Nat
    BY <1>1
  <2> QED
    BY <1>3, <2>1, LeastNatural
<1>5. ByteCount(head, 0) = 0 /\ ByteCount(rows, 0) = 0
  BY <1>2, ByteCountSteps
<1>6. k \in 1 .. m /\ k - 1 \in 0 .. m /\ ~(k <= k - 1) /\ k \in 1 .. Len(rows)
  BY <1>1, <1>4, <1>5
<1>7. ByteCount(head, k - 1) = ByteCount(rows, k - 1)
  <2>1. k - 1 \notin Wrong
    <3> HIDE DEF Wrong
    <3> QED
      BY <1>4, <1>6
  <2> QED
    BY <1>6, <2>1
<1>8. /\ ByteCount(head, k) = ByteCount(head, k - 1) + Len(head[k])
      /\ ByteCount(rows, k) = ByteCount(rows, k - 1) + Len(rows[k])
  BY <1>2, <1>6, ByteCountSteps
<1> QED
  BY <1>2, <1>4, <1>6, <1>7, <1>8

-----------------------------------------------------------------------------
(***************************************************************************)
(* LexLess is a strict total order of byte sequences.                      *)
(***************************************************************************)

LEMMA LexIrreflexive ==
    ASSUME NEW a \in ByteSeq
    PROVE  ~LexLess(a, a)
<1>1. Len(a) \in Nat /\ \A k \in 1 .. Len(a) : a[k] \in Int
  BY ElementOfSeq, LenProperties, BytesAssumption DEF ByteSeq, Byte
<1> QED
  BY <1>1 DEF LexLess

LEMMA LexTransitive ==
    ASSUME NEW a \in ByteSeq, NEW b \in ByteSeq, NEW c \in ByteSeq,
           LexLess(a, b), LexLess(b, c)
    PROVE  LexLess(a, c)
<1>1. /\ Len(a) \in Nat /\ \A k \in 1 .. Len(a) : a[k] \in Int
      /\ Len(b) \in Nat /\ \A k \in 1 .. Len(b) : b[k] \in Int
      /\ Len(c) \in Nat /\ \A k \in 1 .. Len(c) : c[k] \in Int
  BY ElementOfSeq, LenProperties, BytesAssumption DEF ByteSeq, Byte
<1>2. PICK i \in 1 .. Len(b) : /\ i <= Len(a) + 1
                               /\ \A j \in 1 .. i - 1 : a[j] = b[j]
                               /\ i > Len(a) \/ a[i] < b[i]
  BY DEF LexLess
<1>3. PICK k \in 1 .. Len(c) : /\ k <= Len(b) + 1
                               /\ \A j \in 1 .. k - 1 : b[j] = c[j]
                               /\ k > Len(b) \/ b[k] < c[k]
  BY DEF LexLess
<1>4. CASE i < k
  <2>1. b[i] = c[i] /\ i \in 1 .. Len(c)
    BY <1>1, <1>2, <1>3, <1>4
  <2>2. \A j \in 1 .. i - 1 : a[j] = c[j]
    BY <1>1, <1>2, <1>3, <1>4
  <2> QED
    BY <1>2, <2>1, <2>2 DEF LexLess
<1>5. CASE k <= i
  <2>1. /\ k \in 1 .. Len(b) /\ b[k] < c[k] /\ k <= Len(a) + 1
    BY <1>1, <1>2, <1>3, <1>5
  <2>2. \A j \in 1 .. k - 1 : a[j] = c[j]
    BY <1>1, <1>2, <1>3, <1>5
  <2>3. k > Len(a) \/ a[k] < c[k]
    <3>1. CASE k = i
      BY <1>1, <1>2, <2>1, <3>1
    <3>2. CASE k < i
      BY <1>1, <1>2, <2>1, <3>2
    <3> QED
      BY <1>1, <1>5, <3>1, <3>2
  <2> QED
    BY <2>1, <2>2, <2>3 DEF LexLess
<1> QED
  BY <1>1, <1>4, <1>5

LEMMA LexTotal ==
    ASSUME NEW a \in ByteSeq, NEW b \in ByteSeq, a # b
    PROVE  LexLess(a, b) \/ LexLess(b, a)
<1> DEFINE Apart(k) == k > Len(a) \/ k > Len(b) \/ a[k] # b[k]
           S == {k \in Nat \ {0} : Apart(k)}
<1>1. /\ Len(a) \in Nat /\ \A k \in 1 .. Len(a) : a[k] \in Int
      /\ Len(b) \in Nat /\ \A k \in 1 .. Len(b) : b[k] \in Int
  BY ElementOfSeq, LenProperties, BytesAssumption DEF ByteSeq, Byte
<1>2. PICK k \in S : \A j \in S : k <= j
  <2>1. Len(a) + 1 \in S /\ S \in SUBSET Nat
    BY <1>1
  <2> QED
    BY <2>1, LeastNatural
<1>3. k \in Nat \ {0} /\ Apart(k)
  BY <1>2
<1>4. ASSUME NEW j \in 1 .. k - 1
      PROVE  j <= Len(a) /\ j <= Len(b) /\ a[j] = b[j]
  <2>1. j \in Nat \ {0} /\ ~(k <= j)
    BY <1>3
  <2>2. ~Apart(j)
    BY <1>2, <2>1
  <2> QED
    BY <1>1, <2>1, <2>2
<1>5. k <= Len(a) + 1 /\ k <= Len(b) + 1
  <2>1. CASE k = 1
    BY <1>1, <2>1
  <2>2. CASE k > 1
    BY <1>1, <1>3, <1>4, <2>2
  <2> QED
    BY <1>3, <2>1, <2>2
<1>6. ~(k > Len(a) /\ k > Len(b))
  <2>1. SUFFICES ASSUME k > Len(a), k > Len(b) PROVE FALSE
    OBVIOUS
  <2>2. Len(a) = k - 1 /\ Len(b) = k - 1
    BY <1>1, <1>3, <1>5, <2>1
  <2>3. \A j \in 1 .. Len(a) : a[j] = b[j]
    BY <1>4, <2>2
  <2>4. a = b
    BY <2>2, <2>3, SeqEqual DEF ByteSeq
  <2> QED
    BY <2>4
<1>7. CASE k > Len(a)
  <2>1. k \in 1 .. Len(b) /\ \A j \in 1 .. k - 1 : a[j] = b[j]
    BY <1>1, <1>3, <1>4, <1>6, <1>7
  <2> QED
    BY <1>5, <1>7, <2>1 DEF LexLess
<1>8. CASE k > Len(b)
  <2>1. k \in 1 .. Len(a) /\ \A j \in 1 .. k - 1 : b[j] = a[j]
    BY <1>1, <1>3, <1>4, <1>6, <1>8
  <2> QED
    BY <1>5, <1>8, <2>1 DEF LexLess
<1>9. CASE k <= Len(a) /\ k <= Len(b)
  <2>1. k \in 1 .. Len(a) /\ k \in 1 .. Len(b) /\ a[k] # b[k]
    BY <1>1, <1>3, <1>9
  <2>2. a[k] < b[k] \/ b[k] < a[k]
    BY <1>1, <2>1
  <2>3. \A j \in 1 .. k - 1 : a[j] = b[j] /\ b[j] = a[j]
    BY <1>4
  <2> QED
    BY <1>5, <2>1, <2>2, <2>3 DEF LexLess
<1> QED
  BY <1>1, <1>3, <1>7, <1>8, <1>9

\* A sequence of which every two neighbours are in order is sorted.
LEMMA NeighboursSuffice ==
    ASSUME NEW v \in Seq(ByteSeq), \A n \in 1 .. Len(v) - 1 : LexLess(v[n], v[n + 1])
    PROVE  \A j, k \in 1 .. Len(v) : j < k => LexLess(v[j], v[k])
<1>1. Len(v) \in Nat /\ \A k \in 1 .. Len(v) : v[k] \in ByteSeq
  BY LenProperties, ElementOfSeq
<1> SUFFICES ASSUME NEW j \in 1 .. Len(v)
             PROVE  \A k \in 1 .. Len(v) : j < k => LexLess(v[j], v[k])
  OBVIOUS
<1> DEFINE Wrong == {k \in 1 .. Len(v) : j < k /\ ~LexLess(v[j], v[k])}
<1>2. SUFFICES ASSUME Wrong # {}
               PROVE  FALSE
  OBVIOUS
<1>3. PICK k \in Wrong : \A h \in Wrong : k <= h
  <2>1. Wrong \in SUBSET Nat
    BY <1>1
  <2> QED
    BY <1>2, <2>1, LeastNatural
<1>4. k \in 1 .. Len(v) /\ j < k /\ ~LexLess(v[j], v[k])
  BY <1>3
<1>5. k - 1 \in 1 .. Len(v) - 1 /\ k - 1 \in 1 .. Len(v) /\ (k - 1) + 1 = k /\ ~(k <= k - 1)
  BY <1>1, <1>4
<1>6. LexLess(v[k - 1], v[k])
  <2> DEFINE m == k - 1
  <2>1. m \in 1 .. Len(v) - 1 /\ m + 1 = k
    BY <1>5
  <2> HIDE DEF m
  <2>2. LexLess(v[m], v[m + 1])
    BY <2>1
  <2> QED
    BY <2>1, <2>2 DEF m
<1>7. k - 1 \notin Wrong
  <2> HIDE DEF Wrong
  <2> QED
    BY <1>3, <1>5
<1>8. ~(j < k - 1)
  <2>1. SUFFICES ASSUME j < k - 1 PROVE FALSE
    OBVIOUS
  <2>2. LexLess(v[j], v[k - 1])
    BY <1>5, <1>7, <2>1
  <2>3. v[j] \in ByteSeq /\ v[k - 1] \in ByteSeq /\ v[k] \in ByteSeq
    BY <1>1, <1>4, <1>5
  <2> QED
    BY <1>4, <1>6, <2>2, <2>3, LexTransitive
<1>9. j = k - 1
  BY <1>1, <1>4, <1>8
<1> QED
  BY <1>4, <1>6, <1>9

-----------------------------------------------------------------------------
(***************************************************************************)
(* Sequences that are read off by going forward: greedy parses.            *)
(***************************************************************************)

\* Downward induction, over a set instead of a predicate.
LEMMA DownwardInduction ==
    ASSUME NEW n \in Nat, NEW S,
           \A i \in 0 .. n : (\A j \in i + 1 .. n : j \in S) => i \in S
    PROVE  \A i \in 0 .. n : i \in S
<1> DEFINE Bad == {d \in 0 .. n : n - d \notin S}
<1>1. Bad = {}
  <2>1. SUFFICES ASSUME Bad # {}
                 PROVE  FALSE
    OBVIOUS
  <2>2. Bad \in SUBSET Nat
    OBVIOUS
  <2>3. PICK d \in Bad : \A e \in Bad : d <= e
    BY <2>1, <2>2, LeastNatural
  <2>4. d \in 0 .. n /\ n - d \in 0 .. n /\ n - d \notin S
    OBVIOUS
  <2>5. ASSUME NEW j \in n - d + 1 .. n
        PROVE  j \in S
    <3>1. n - j \in 0 .. n /\ ~(d <= n - j) /\ n - (n - j) = j
      BY <2>4
    <3>2. n - j \notin Bad
      <4> HIDE DEF Bad
      <4> QED
        BY <2>3, <3>1
    <3> QED
      BY <3>1, <3>2
  <2> QED
    BY <2>4, <2>5
<1> SUFFICES ASSUME NEW i \in 0 .. n
             PROVE  i \in S
  OBVIOUS
<1>2. n - i \in 0 .. n /\ n - (n - i) = i
  OBVIOUS
<1> QED
  BY <1>1, <1>2

\* What is read from every position to the end.
Reading(f, n, head, next) ==
    /\ f[n] = <<>>
    /\ \A i \in 0 .. n - 1 : f[i] = <<head[i]>> \o f[next[i]]

\* It exists if each step goes forward.
LEMMA ForwardReads ==
    ASSUME NEW n \in Nat, NEW S, NEW head \in [0 .. n - 1 -> S], NEW next,
           \A i \in 0 .. n - 1 : next[i] \in i + 1 .. n
    PROVE  \E f \in [0 .. n -> Seq(S)] : Reading(f, n, head, next)
<1> DEFINE Reads(f, d) == /\ f[n] = <<>>
                          /\ \A i \in n - d .. n - 1 : f[i] = <<head[i]>> \o f[next[i]]
           Missing == {d \in 0 .. n : ~\E f \in [n - d .. n -> Seq(S)] : Reads(f, d)}
<1>1. Missing = {}
  <2>1. SUFFICES ASSUME Missing # {}
                 PROVE  FALSE
    OBVIOUS
  <2>2. Missing \in SUBSET Nat
    OBVIOUS
  <2>3. PICK d \in Missing : \A k \in Missing : d <= k
    BY <2>1, <2>2, LeastNatural
  <2>4. d \in 0 .. n
    OBVIOUS
  <2>5. CASE d = 0
    <3> DEFINE f == [i \in n .. n |-> <<>>]
    <3>1. f \in [n - 0 .. n -> Seq(S)]
      BY EmptySeq
    <3>2. Reads(f, 0)
      OBVIOUS
    <3>3. 0 \notin Missing
      BY <3>1, <3>2
    <3> QED
      BY <2>3, <2>5, <3>3
  <2>6. CASE d # 0
    <3>1. d - 1 \in 0 .. n /\ ~(d <= d - 1)
      BY <2>4, <2>6
    <3>2. d - 1 \notin Missing
      <4> HIDE DEF Missing
      <4> QED
        BY <2>3, <3>1
    <3>3. PICK g \in [n - (d - 1) .. n -> Seq(S)] : Reads(g, d - 1)
      BY <3>1, <3>2
    <3> DEFINE at == n - d
               f == [i \in n - d .. n |-> IF i = at THEN <<head[at]>> \o g[next[at]] ELSE g[i]]
    <3>4. /\ at \in 0 .. n - 1 /\ n # at /\ n \in n - d .. n
          /\ \A i : i \in n - d .. n /\ i # at <=> i \in n - (d - 1) .. n
          /\ \A i : i \in at + 1 .. n <=> i \in n - (d - 1) .. n
      BY <2>4, <2>6
    <3>5. head[at] \in S /\ next[at] \in n - (d - 1) .. n
      <4>1. next[at] \in at + 1 .. n
        BY <3>4
      <4>2. head[at] \in S
        BY <3>4
      <4> HIDE DEF at
      <4> QED
        BY <3>4, <4>1, <4>2
    <3>6. <<head[at]>> \o g[next[at]] \in Seq(S)
      BY <3>3, <3>5, ConcatProperties
    <3>7. f \in [n - d .. n -> Seq(S)]
      <4> HIDE DEF at, Missing
      <4> QED
        BY <3>3, <3>4, <3>6
    <3>8. f[n] = <<>>
      <4> HIDE DEF at, Missing
      <4> QED
        BY <3>3, <3>4
    <3>9. ASSUME NEW i \in n - d .. n - 1
          PROVE  f[i] = <<head[i]>> \o f[next[i]]
      <4>1. i \in n - d .. n /\ next[i] \in i + 1 .. n /\ i \in 0 .. n - 1
        <5>1. i \in 0 .. n - 1 /\ i \in n - d .. n
          BY <2>4
        <5> QED
          BY <5>1
      <4>2. next[i] \in n - d .. n /\ next[i] # at
        BY <4>1, <2>4
      <4>3. CASE i = at
        <5> HIDE DEF at, Missing
        <5> QED
          BY <4>1, <4>2, <4>3
      <4>4. CASE i # at
        <5>1. i \in n - (d - 1) .. n - 1
          BY <2>4, <4>4
        <5>2. g[i] = <<head[i]>> \o g[next[i]]
          BY <3>3, <5>1
        <5> HIDE DEF at, Missing
        <5> QED
          BY <4>1, <4>2, <4>4, <5>2
      <4> QED
        BY <4>3, <4>4
    <3>10. d \notin Missing
      <4> HIDE DEF f
      <4> QED
        BY <3>7, <3>8, <3>9
    <3> QED
      BY <3>10
  <2> QED
    BY <2>5, <2>6
<1>2. n \in 0 .. n /\ n - n = 0 /\ n \notin Missing
  <2> HIDE DEF Missing
  <2> QED
    BY <1>1
<1>3. PICK f \in [n - n .. n -> Seq(S)] : Reads(f, n)
  BY <1>2
<1> QED
  BY <1>2, <1>3 DEF Reading

-----------------------------------------------------------------------------
(***************************************************************************)
(* Dictionaries that match everywhere, and the greedy codes they give.     *)
(***************************************************************************)

LEMMA VocabularyTyped ==
    ASSUME NEW vocab \in Seq(Token)
    PROVE  /\ Len(vocab) \in Nat /\ TokensOf(vocab) \in SUBSET Token
           /\ \A id \in Ids(vocab) :
                /\ id \in Nat /\ id + 1 \in 1 .. Len(vocab) /\ vocab[id + 1] \in Token
                /\ vocab[id + 1] \in TokensOf(vocab)
                /\ Len(vocab[id + 1]) \in 1 .. MaxTokenSize /\ Len(vocab[id + 1]) \in Nat
           /\ \A t \in TokensOf(vocab) : \E id \in Ids(vocab) : vocab[id + 1] = t
<1>1. Len(vocab) \in Nat /\ \A j \in 1 .. Len(vocab) : vocab[j] \in Token
  BY LenProperties, ElementOfSeq
<1>2. \A t \in Token : Len(t) \in 1 .. MaxTokenSize
  BY TokenType
<1>3. \A id \in Ids(vocab) : id \in Nat /\ id + 1 \in 1 .. Len(vocab)
  BY <1>1 DEF Ids
<1>4. \A id \in Ids(vocab) : vocab[id + 1] \in Token /\ vocab[id + 1] \in TokensOf(vocab)
  BY <1>1, <1>3 DEF TokensOf
<1>5. \A id \in Ids(vocab) : Len(vocab[id + 1]) \in 1 .. MaxTokenSize
                             /\ Len(vocab[id + 1]) \in Nat
  <2>1. \A n : n \in 1 .. MaxTokenSize => n \in Nat
    BY BytesAssumption
  <2> QED
    BY <1>2, <1>4, <2>1
<1>6. ASSUME NEW t \in TokensOf(vocab)
      PROVE  \E id \in Ids(vocab) : vocab[id + 1] = t
  <2>1. PICK j \in 1 .. Len(vocab) : vocab[j] = t
    BY DEF TokensOf
  <2>2. j - 1 \in Ids(vocab) /\ (j - 1) + 1 = j
    BY <1>1 DEF Ids
  <2> QED
    BY <2>1, <2>2
<1>7. TokensOf(vocab) \in SUBSET Token
  BY <1>1 DEF TokensOf
<1> QED
  BY <1>1, <1>3, <1>4, <1>5, <1>6, <1>7

\* No two longest matches: both occur at the same place, with the same length.
LEMMA LongestIsUnique ==
    ASSUME NEW T \in SUBSET Token, NEW s \in ByteSeq, NEW at \in Nat,
           NEW t, NEW u, IsLongestAt(T, s, at, t), IsLongestAt(T, s, at, u)
    PROVE  t = u
<1>1. t \in Seq(Byte) /\ u \in Seq(Byte)
  BY TokenType DEF IsLongestAt, ByteSeq
<1>2. Len(t) \in Nat /\ Len(u) \in Nat /\ Len(t) <= Len(u) /\ Len(u) <= Len(t)
  BY <1>1, LenProperties DEF IsLongestAt
<1>3. Len(t) = Len(u)
  BY <1>2
<1>4. \A j \in 1 .. Len(t) : t[j] = u[j]
  BY <1>3 DEF IsLongestAt, StartsAt
<1> QED
  BY <1>1, <1>3, <1>4, SeqEqual

\* The greedy code exists, is longest, and does not reach beyond the row.
LEMMA CodeAtFound ==
    ASSUME NEW vocab \in Seq(Token), SingleByteTokens \subseteq TokensOf(vocab),
           NEW row \in ByteSeq, NEW at \in Nat, at < Len(row)
    PROVE  LET id == CodeAt(vocab, row, at)
               t == vocab[id + 1]
           IN  /\ id \in Ids(vocab)
               /\ IsLongestAt(TokensOf(vocab), row, at, t)
               /\ at + Len(t) \in at + 1 .. Len(row)
<1> DEFINE id == CodeAt(vocab, row, at)
           t == vocab[id + 1]
<1>1. IsLongestAt(TokensOf(vocab), row, at, LongestMatch(TokensOf(vocab), row, at))
  BY VocabularyTyped, LongestMatchFound
<1>2. id \in Ids(vocab) /\ t = LongestMatch(TokensOf(vocab), row, at)
  <2>1. \E i \in Ids(vocab) : vocab[i + 1] = LongestMatch(TokensOf(vocab), row, at)
    BY <1>1, VocabularyTyped DEF IsLongestAt
  <2> QED
    BY <2>1, Zenon DEF CodeAt
<1>3. Len(t) \in 1 .. MaxTokenSize /\ Len(t) \in Nat
  BY <1>2, VocabularyTyped
<1>4. Len(row) \in Nat
  BY LenProperties DEF ByteSeq
<1>5. IsLongestAt(TokensOf(vocab), row, at, t)
  BY <1>1, <1>2
<1>6. at + Len(t) <= Len(row)
  BY <1>5 DEF IsLongestAt, StartsAt
<1> HIDE DEF id, t
<1>7. at + Len(t) \in at + 1 .. Len(row)
  BY <1>3, <1>4, <1>6, BytesAssumption
<1> QED
  BY <1>2, <1>5, <1>7 DEF id, t

\* In a conformant dictionary the id of a longest match is the greedy code.
LEMMA CodeAtIs ==
    ASSUME NEW vocab, Conforms(vocab), NEW row \in ByteSeq, NEW at \in Nat, at < Len(row),
           NEW id \in Ids(vocab), IsLongestAt(TokensOf(vocab), row, at, vocab[id + 1])
    PROVE  CodeAt(vocab, row, at) = id
<1> DEFINE code == CodeAt(vocab, row, at)
<1>1. vocab \in Seq(Token) /\ SingleByteTokens \subseteq TokensOf(vocab)
  BY DEF Conforms
<1>2. code \in Ids(vocab) /\ IsLongestAt(TokensOf(vocab), row, at, vocab[code + 1])
  BY <1>1, CodeAtFound
<1>3. vocab[code + 1] = vocab[id + 1]
  BY <1>1, <1>2, VocabularyTyped, LongestIsUnique
<1> HIDE DEF code
<1>4. /\ id \in Nat /\ id + 1 \in 1 .. Len(vocab) /\ vocab[id + 1] \in Token
      /\ code \in Nat /\ code + 1 \in 1 .. Len(vocab)
  BY <1>1, <1>2, VocabularyTyped
<1>5. ~LexLess(vocab[id + 1], vocab[id + 1])
  BY <1>4, TokenType, LexIrreflexive
<1>6. ~(code + 1 < id + 1) /\ ~(id + 1 < code + 1)
  BY <1>3, <1>4, <1>5 DEF Conforms, Sorted
<1> QED
  BY <1>4, <1>6 DEF code

\* Greedy and GreedyFrom are what their recursion says.
LEMMA GreedyReads ==
    ASSUME NEW vocab \in Seq(Token), SingleByteTokens \subseteq TokensOf(vocab),
           NEW row \in ByteSeq
    PROVE  /\ GreedyFrom(vocab, row) \in [0 .. Len(row) -> Seq(Ids(vocab))]
           /\ GreedyFrom(vocab, row)[Len(row)] = <<>>
           /\ \A at \in 0 .. Len(row) - 1 :
                LET code == CodeAt(vocab, row, at)
                IN  GreedyFrom(vocab, row)[at]
                        = <<code>> \o GreedyFrom(vocab, row)[at + Len(vocab[code + 1])]
<1> DEFINE n == Len(row)
           S == Ids(vocab)
           head == [at \in 0 .. n - 1 |-> CodeAt(vocab, row, at)]
           next == [at \in 0 .. n - 1 |-> at + Len(vocab[CodeAt(vocab, row, at) + 1])]
           Unfolds(f) == f = [at \in 0 .. n |->
                IF at = n THEN <<>>
                ELSE <<CodeAt(vocab, row, at)>>
                        \o f[at + Len(vocab[CodeAt(vocab, row, at) + 1])]]
<1>1. n \in Nat
  BY LenProperties DEF ByteSeq
<1>2. \A at \in 0 .. n - 1 : CodeAt(vocab, row, at) \in S
        /\ at + Len(vocab[CodeAt(vocab, row, at) + 1]) \in at + 1 .. n
  <2>1. \A at \in 0 .. n - 1 : at \in Nat /\ at < n
    BY <1>1
  <2> QED
    BY <2>1, CodeAtFound
<1>3. head \in [0 .. n - 1 -> S] /\ \A i \in 0 .. n - 1 : next[i] \in i + 1 .. n
  BY <1>2
<1>4. PICK f \in [0 .. n -> Seq(S)] :
            /\ f[n] = <<>>
            /\ \A i \in 0 .. n - 1 : f[i] = <<head[i]>> \o f[next[i]]
  <2>1. \E f \in [0 .. n -> Seq(S)] : Reading(f, n, head, next)
    <3> HIDE DEF n, S, head, next
    <3> QED
      BY <1>1, <1>3, ForwardReads
  <2> QED
    BY <2>1 DEF Reading
<1>5. Unfolds(f)
  <2>1. \A at \in 0 .. n - 1 : f[at] = <<CodeAt(vocab, row, at)>>
                        \o f[at + Len(vocab[CodeAt(vocab, row, at) + 1])]
    BY <1>4
  <2>2. \A at \in 0 .. n : at # n => at \in 0 .. n - 1
    BY <1>1
  <2> HIDE DEF n, S, head, next
  <2> QED
    BY <1>4, <2>1, <2>2
<1>6. GreedyFrom(vocab, row) = CHOOSE g : Unfolds(g)
  BY DEF GreedyFrom
<1> DEFINE g == GreedyFrom(vocab, row)
<1>7. Unfolds(g)
  <2> HIDE DEF Unfolds
  <2> QED
    BY <1>5, <1>6
<1>8. /\ DOMAIN g = 0 .. n /\ g[n] = <<>>
      /\ \A at \in 0 .. n - 1 : g[at] = <<CodeAt(vocab, row, at)>>
                        \o g[at + Len(vocab[CodeAt(vocab, row, at) + 1])]
  <2>1. n \in 0 .. n /\ \A at \in 0 .. n - 1 : at \in 0 .. n /\ at # n
    BY <1>1
  <2> HIDE DEF n, g
  <2> QED
    BY <1>7, <2>1
<1>9. \A i \in 0 .. n : g[i] \in Seq(S)
  <2> DEFINE Good == {i \in 0 .. n : g[i] \in Seq(S)}
  <2>1. ASSUME NEW i \in 0 .. n, \A j \in i + 1 .. n : j \in Good
        PROVE  i \in Good
    <3>1. CASE i = n
      BY <1>8, <3>1, EmptySeq
    <3>2. CASE i # n
      <4> DEFINE c == CodeAt(vocab, row, i)
                 j == i + Len(vocab[c + 1])
      <4>1. i \in 0 .. n - 1
        BY <1>1, <3>2
      <4>2. c \in S /\ j \in i + 1 .. n /\ g[i] = <<c>> \o g[j]
        BY <1>2, <1>8, <4>1
      <4>3. g[j] \in Seq(S)
        BY <2>1, <4>2
      <4> HIDE DEF c, j, n, S, g
      <4>4. <<c>> \in Seq(S)
        BY <4>2
      <4>5. <<c>> \o g[j] \in Seq(S)
        BY <4>3, <4>4, ConcatProperties
      <4> QED
        BY <4>2, <4>5
    <3> QED
      BY <3>1, <3>2
  <2>2. \A i \in 0 .. n : i \in Good
    <3> HIDE DEF n, Good
    <3> QED
      BY <1>1, <2>1, DownwardInduction
  <2> QED
    BY <2>2
<1>10. g \in [0 .. n -> Seq(S)]
  <2>1. g = [i \in 0 .. n |-> g[i]]
    <3> HIDE DEF n, S, g
    <3> QED
      BY <1>7, <1>8
  <2> HIDE DEF n, S, g
  <2> QED
    BY <1>9, <2>1
<1> QED
  BY <1>8, <1>10

\* What is left of a row from a position on is a row with the same matches.
LEMMA RestOfRow ==
    ASSUME NEW row \in ByteSeq, NEW at \in 0 .. Len(row)
    PROVE  LET rest == SubSeq(row, at + 1, Len(row))
           IN  /\ rest \in ByteSeq /\ Len(rest) = Len(row) - at
               /\ \A i \in Nat, t \in ByteSeq : StartsAt(rest, i, t) <=> StartsAt(row, at + i, t)
<1> DEFINE rest == SubSeq(row, at + 1, Len(row))
<1>1. Len(row) \in Nat /\ at \in Nat /\ row \in Seq(Byte)
  BY LenProperties DEF ByteSeq
<1>2. \A j \in 1 .. Len(row) : row[j] \in Byte
  BY <1>1, ElementOfSeq
<1>3. /\ rest \in Seq(Byte) /\ Len(rest) = Len(row) - at
      /\ \A j \in 1 .. Len(row) - at : rest[j] = row[at + j]
  <2>1. \A j \in at + 1 .. Len(row) : row[j] \in Byte
    BY <1>1, <1>2
  <2>2. /\ rest \in Seq(Byte)
        /\ Len(rest) = IF at + 1 <= Len(row) THEN Len(row) - (at + 1) + 1 ELSE 0
        /\ \A j \in 1 .. Len(row) - (at + 1) + 1 : rest[j] = row[(at + 1) + j - 1]
    BY <1>1, <2>1, SubSeqProperties
  <2> HIDE DEF rest
  <2>3. Len(rest) = Len(row) - at
    BY <1>1, <2>2
  <2>4. \A j \in 1 .. Len(row) - at : j \in 1 .. Len(row) - (at + 1) + 1 /\ (at + 1) + j - 1 = at + j
    BY <1>1
  <2> QED
    BY <2>2, <2>3, <2>4
<1> HIDE DEF rest
<1>4. ASSUME NEW i \in Nat, NEW t \in ByteSeq
      PROVE  StartsAt(rest, i, t) <=> StartsAt(row, at + i, t)
  <2>1. Len(t) \in Nat
    BY LenProperties DEF ByteSeq
  <2>2. i + Len(t) <= Len(rest) <=> at + i + Len(t) <= Len(row)
    BY <1>1, <1>3, <2>1
  <2>3. ASSUME i + Len(t) <= Len(rest), NEW j \in 1 .. Len(t)
        PROVE  rest[i + j] = row[at + i + j]
    <3>1. i + j \in 1 .. Len(row) - at
      BY <1>1, <1>3, <2>1, <2>3
    <3>2. at + (i + j) = at + i + j
      BY <1>1, <2>1
    <3> QED
      BY <1>3, <3>1, <3>2
  <2> QED
    BY <2>2, <2>3 DEF StartsAt
<1> QED
  BY <1>3, <1>4 DEF rest, ByteSeq

LEMMA CodeAtOfRest ==
    ASSUME NEW vocab, Conforms(vocab), NEW row \in ByteSeq, NEW at \in 0 .. Len(row),
           NEW i \in 0 .. Len(row) - at - 1
    PROVE  CodeAt(vocab, SubSeq(row, at + 1, Len(row)), i) = CodeAt(vocab, row, at + i)
<1> DEFINE rest == SubSeq(row, at + 1, Len(row))
           id == CodeAt(vocab, row, at + i)
<1>1. vocab \in Seq(Token) /\ SingleByteTokens \subseteq TokensOf(vocab)
  BY DEF Conforms
<1>2. Len(row) \in Nat /\ at \in Nat /\ i \in Nat /\ at + i \in Nat /\ at + i < Len(row)
  <2>1. Len(row) \in Nat
    BY LenProperties DEF ByteSeq
  <2> QED
    BY <2>1
<1>3. rest \in ByteSeq /\ i < Len(rest)
      /\ \A t \in ByteSeq : StartsAt(rest, i, t) <=> StartsAt(row, at + i, t)
  <2>1. rest \in ByteSeq /\ Len(rest) = Len(row) - at
        /\ \A t \in ByteSeq : StartsAt(rest, i, t) <=> StartsAt(row, at + i, t)
    BY <1>2, RestOfRow
  <2> QED
    BY <1>2, <2>1
<1>4. id \in Ids(vocab) /\ IsLongestAt(TokensOf(vocab), row, at + i, vocab[id + 1])
  BY <1>1, <1>2, CodeAtFound
<1> HIDE DEF rest, id
<1>5. \A t \in TokensOf(vocab) : t \in ByteSeq
  BY <1>1, VocabularyTyped, TokenType
<1>6. IsLongestAt(TokensOf(vocab), rest, i, vocab[id + 1])
  BY <1>3, <1>4, <1>5 DEF IsLongestAt
<1>7. CodeAt(vocab, rest, i) = id
  BY <1>2, <1>3, <1>4, <1>6, CodeAtIs
<1> QED
  BY <1>7 DEF rest, id

\* The greedy codes of what is left of a row are the rest of the row's greedy codes.
LEMMA GreedyOfRest ==
    ASSUME NEW vocab, Conforms(vocab), NEW row \in ByteSeq, NEW at \in 0 .. Len(row)
    PROVE  Greedy(vocab, SubSeq(row, at + 1, Len(row))) = GreedyFrom(vocab, row)[at]
<1> DEFINE rest == SubSeq(row, at + 1, Len(row))
           n == Len(row) - at
           f == GreedyFrom(vocab, row)
           g == GreedyFrom(vocab, rest)
           Same == {i \in 0 .. n : g[i] = f[at + i]}
<1>1. vocab \in Seq(Token) /\ SingleByteTokens \subseteq TokensOf(vocab)
  BY DEF Conforms
<1>2. Len(row) \in Nat /\ at \in Nat /\ n \in Nat /\ rest \in ByteSeq /\ Len(rest) = n
      /\ at + n = Len(row)
  <2>1. Len(row) \in Nat
    BY LenProperties DEF ByteSeq
  <2> QED
    BY <2>1, RestOfRow
<1>3. ASSUME NEW i \in 0 .. n, \A j \in i + 1 .. n : j \in Same
      PROVE  i \in Same
  <2>1. CASE i = n
    BY <1>1, <1>2, <2>1, GreedyReads
  <2>2. CASE i # n
    <3> DEFINE c == CodeAt(vocab, row, at + i)
               len == Len(vocab[c + 1])
    <3>1. i \in 0 .. n - 1 /\ at + i \in 0 .. Len(row) - 1 /\ i \in 0 .. Len(row) - at - 1
          /\ i \in Nat /\ at + i \in Nat /\ at + i < Len(row)
      <4> HIDE DEF c, len, f, g, rest, Same
      <4> QED
        BY <1>2, <2>2
    <3>2. CodeAt(vocab, rest, i) = c
      BY <3>1, CodeAtOfRest
    <3>3. g[i] = <<c>> \o g[i + len]
      <4>1. i \in 0 .. Len(rest) - 1
        BY <1>2, <3>1
      <4>2. g[i] = <<CodeAt(vocab, rest, i)>> \o g[i + Len(vocab[CodeAt(vocab, rest, i) + 1])]
        <5> HIDE DEF rest
        <5> QED
          BY <1>1, <1>2, <4>1, GreedyReads
      <4> QED
        BY <3>2, <4>2
    <3>4. f[at + i] = <<c>> \o f[at + i + len]
      BY <1>1, <3>1, GreedyReads
    <3>5. at + i + len \in at + i + 1 .. Len(row) /\ c \in Ids(vocab)
      BY <1>1, <3>1, CodeAtFound
    <3>6. len \in Nat
      BY <1>1, <3>5, VocabularyTyped
    <3> HIDE DEF c, len, f, g, rest
    <3>7. i + len \in i + 1 .. n /\ at + (i + len) = at + i + len
      BY <1>2, <3>1, <3>5, <3>6
    <3>8. g[i + len] = f[at + i + len]
      BY <1>3, <3>7
    <3> QED
      BY <3>1, <3>3, <3>4, <3>8
  <2> QED
    BY <2>1, <2>2
<1>4. 0 \in Same
  <2> HIDE DEF n, Same
  <2>1. \A i \in 0 .. n : i \in Same
    BY <1>2, <1>3, DownwardInduction
  <2> QED
    BY <1>2, <2>1
<1>5. g[0] = f[at]
  <2> HIDE DEF f, g, rest
  <2>1. g[0] = f[at + 0]
    BY <1>4
  <2> QED
    BY <1>2, <2>1
<1> QED
  BY <1>5 DEF Greedy

\* So the codes of what is left begin with the code at its start.
LEMMA GreedyFromUnfolds ==
    ASSUME NEW vocab, Conforms(vocab), NEW row \in ByteSeq, NEW at \in 0 .. Len(row)
    PROVE  LET code == CodeAt(vocab, row, at)
               len == Len(vocab[code + 1])
           IN  /\ GreedyFrom(vocab, row)[at] \in Seq(Ids(vocab))
               /\ at = Len(row) => GreedyFrom(vocab, row)[at] = <<>>
               /\ at < Len(row) =>
                    /\ code \in Ids(vocab) /\ len \in Nat /\ at + len \in at + 1 .. Len(row)
                    /\ GreedyFrom(vocab, row)[at] = <<code>> \o GreedyFrom(vocab, row)[at + len]
<1>1. vocab \in Seq(Token) /\ SingleByteTokens \subseteq TokensOf(vocab)
  BY DEF Conforms
<1>2. Len(row) \in Nat /\ at \in Nat
  BY LenProperties DEF ByteSeq
<1>3. GreedyFrom(vocab, row)[at] \in Seq(Ids(vocab))
      /\ (at = Len(row) => GreedyFrom(vocab, row)[at] = <<>>)
  BY <1>1, GreedyReads
<1>4. ASSUME at < Len(row)
      PROVE  LET code == CodeAt(vocab, row, at)
                 len == Len(vocab[code + 1])
             IN  /\ code \in Ids(vocab) /\ len \in Nat /\ at + len \in at + 1 .. Len(row)
                 /\ GreedyFrom(vocab, row)[at] = <<code>> \o GreedyFrom(vocab, row)[at + len]
  <2>1. at \in 0 .. Len(row) - 1
    BY <1>2, <1>4
  <2> QED
    BY <1>1, <1>2, <1>4, <2>1, CodeAtFound, GreedyReads, VocabularyTyped
<1> QED
  BY <1>3, <1>4

-----------------------------------------------------------------------------
(***************************************************************************)
(* Sequences one after the other.                                          *)
(***************************************************************************)

\* Upward induction, over a set instead of a predicate.
LEMMA UpwardInduction ==
    ASSUME NEW n \in Nat, NEW S,
           0 \in S,
           \A i \in 0 .. n - 1 : i \in S => i + 1 \in S
    PROVE  \A i \in 0 .. n : i \in S
<1> DEFINE Bad == {i \in 0 .. n : i \notin S}
<1>1. Bad = {}
  <2>1. SUFFICES ASSUME Bad # {}
                 PROVE  FALSE
    OBVIOUS
  <2>2. Bad \in SUBSET Nat
    OBVIOUS
  <2>3. PICK i \in Bad : \A j \in Bad : i <= j
    BY <2>1, <2>2, LeastNatural
  <2>4. i \in 0 .. n /\ i \notin S /\ i # 0
    OBVIOUS
  <2>5. i - 1 \in 0 .. n - 1 /\ i - 1 \in 0 .. n /\ ~(i <= i - 1) /\ (i - 1) + 1 = i
    BY <2>4
  <2>6. i - 1 \notin Bad
    <3> HIDE DEF Bad
    <3> QED
      BY <2>3, <2>5
  <2>7. i - 1 \in S
    BY <2>5, <2>6
  <2> QED
    BY <2>4, <2>5, <2>7
<1> QED
  BY <1>1

LEMMA FlatToSteps ==
    ASSUME NEW S, NEW seqs \in Seq(Seq(S))
    PROVE  /\ FlatTo(seqs)[0] = <<>>
           /\ \A n \in 1 .. Len(seqs) : FlatTo(seqs)[n] = FlatTo(seqs)[n - 1] \o seqs[n]
           /\ \A n \in 0 .. Len(seqs) : FlatTo(seqs)[n] \in Seq(S)
<1> DEFINE N == Len(seqs)
           Unfolds(f, m) == f = [n \in 0 .. m |-> IF n = 0 THEN <<>> ELSE f[n - 1] \o seqs[n]]
           Found == {m \in 0 .. N : \E f : Unfolds(f, m)}
<1>1. N \in Nat /\ \A n \in 1 .. N : seqs[n] \in Seq(S)
  BY LenProperties, ElementOfSeq
<1>2. 0 \in Found
  <2> DEFINE f == [n \in 0 .. 0 |-> <<>>]
  <2>1. Unfolds(f, 0)
    OBVIOUS
  <2> HIDE DEF f, Unfolds
  <2> QED
    BY <1>1, <2>1
<1>3. ASSUME NEW m \in 0 .. N - 1, m \in Found
      PROVE  m + 1 \in Found
  <2>1. PICK g : Unfolds(g, m)
    BY <1>3
  <2> DEFINE f == [n \in 0 .. m + 1 |-> IF n = m + 1 THEN g[m] \o seqs[m + 1] ELSE g[n]]
  <2>2. ASSUME NEW n \in 0 .. m + 1
        PROVE  f[n] = IF n = 0 THEN <<>> ELSE f[n - 1] \o seqs[n]
    <3>1. CASE n = m + 1
      <4>1. n # 0 /\ n - 1 = m /\ m \in 0 .. m + 1 /\ m # m + 1
        BY <3>1
      <4> QED
        BY <3>1, <4>1
    <3>2. CASE n # m + 1
      <4>1. n \in 0 .. m /\ (n # 0 => n - 1 \in 0 .. m + 1 /\ n - 1 # m + 1)
        BY <3>2
      <4>2. g[n] = IF n = 0 THEN <<>> ELSE g[n - 1] \o seqs[n]
        BY <2>1, <4>1, Zenon
      <4> QED
        BY <3>2, <4>1, <4>2
    <3> QED
      BY <3>1, <3>2
  <2>3. Unfolds(f, m + 1)
    BY <2>2
  <2>4. m + 1 \in 0 .. N
    BY <1>1
  <2> HIDE DEF f, Unfolds
  <2> QED
    BY <2>3, <2>4
<1>4. N \in Found
  <2>1. \A m \in 0 .. N : m \in Found
    <3> HIDE DEF N, Found
    <3> QED
      BY <1>1, <1>2, <1>3, UpwardInduction
  <2> HIDE DEF Found
  <2> QED
    BY <1>1, <2>1
<1> DEFINE f == FlatTo(seqs)
<1>5. Unfolds(f, N)
  <2>1. PICK g : Unfolds(g, N)
    BY <1>4
  <2> QED
    BY <2>1 DEF FlatTo
<1>6. f[0] = <<>> /\ \A n \in 1 .. N : f[n] = f[n - 1] \o seqs[n]
  <2>1. 0 \in 0 .. N /\ \A n \in 1 .. N : n \in 0 .. N /\ n # 0
    BY <1>1
  <2> HIDE DEF N, f
  <2> QED
    BY <1>5, <2>1
<1> DEFINE Typed == {n \in 0 .. N : f[n] \in Seq(S)}
<1>7. \A n \in 0 .. N : n \in Typed
  <2>1. 0 \in Typed
    <3>1. f[0] \in Seq(S) /\ 0 \in 0 .. N
      <4> HIDE DEF f, N
      <4> QED
        BY <1>1, <1>6, EmptySeq
    <3> QED
      BY <3>1
  <2>2. ASSUME NEW n \in 0 .. N - 1, n \in Typed
        PROVE  n + 1 \in Typed
    <3>1. n + 1 \in 1 .. N /\ n + 1 \in 0 .. N /\ (n + 1) - 1 = n
      BY <1>1
    <3>2. f[n] \in Seq(S) /\ seqs[n + 1] \in Seq(S)
      BY <1>1, <2>2, <3>1
    <3>3. f[n + 1] = f[n] \o seqs[n + 1]
      BY <1>6, <3>1
    <3> HIDE DEF f, N
    <3>4. f[n + 1] \in Seq(S)
      BY <3>2, <3>3, ConcatProperties
    <3> QED
      BY <3>1, <3>4
  <2> HIDE DEF N, Typed
  <2> QED
    BY <1>1, <2>1, <2>2, UpwardInduction
<1> QED
  BY <1>6, <1>7

\* What begins with what.
LEMMA BeginningOfConcat ==
    ASSUME NEW S, NEW s \in Seq(S), NEW t \in Seq(S)
    PROVE  /\ StartsAt(s \o t, 0, s)
           /\ StartsAt(s \o t, Len(s), t)
<1>1. /\ Len(s) \in Nat /\ Len(t) \in Nat
      /\ Len(s \o t) = Len(s) + Len(t)
      /\ \A i \in 1 .. Len(s) + Len(t) :
            (s \o t)[i] = IF i <= Len(s) THEN s[i] ELSE t[i - Len(s)]
  BY LenProperties, ConcatProperties
<1> DEFINE c == s \o t
<1> HIDE DEF c
<1>2. /\ Len(c) = Len(s) + Len(t)
      /\ \A i \in 1 .. Len(s) + Len(t) : c[i] = IF i <= Len(s) THEN s[i] ELSE t[i - Len(s)]
  BY <1>1 DEF c
<1>3. \A k \in 1 .. Len(s) : c[0 + k] = s[k]
  BY <1>1, <1>2
<1>4. \A k \in 1 .. Len(t) : c[Len(s) + k] = t[k]
  <2> TAKE k \in 1 .. Len(t)
  <2>1. Len(s) + k \in 1 .. Len(s) + Len(t) /\ ~(Len(s) + k <= Len(s)) /\ Len(s) + k - Len(s) = k
    BY <1>1
  <2> QED
    BY <1>2, <2>1
<1>5. StartsAt(c, 0, s) /\ StartsAt(c, Len(s), t)
  BY <1>1, <1>2, <1>3, <1>4 DEF StartsAt
<1> QED
  BY <1>5 DEF c

LEMMA BeginsTransitive ==
    ASSUME NEW S, NEW s \in Seq(S), NEW t \in Seq(S), NEW u \in Seq(S), NEW at \in Nat,
           StartsAt(s, 0, t), StartsAt(t, at, u)
    PROVE  StartsAt(s, at, u)
<1>1. Len(s) \in Nat /\ Len(t) \in Nat /\ Len(u) \in Nat
  BY LenProperties
<1>2. /\ 0 + Len(t) <= Len(s) /\ \A k \in 1 .. Len(t) : s[0 + k] = t[k]
      /\ at + Len(u) <= Len(t) /\ \A k \in 1 .. Len(u) : t[at + k] = u[k]
  BY DEF StartsAt
<1>3. \A k \in 1 .. Len(u) : at + k \in 1 .. Len(t) /\ 0 + (at + k) = at + k
  BY <1>1, <1>2
<1> QED
  BY <1>1, <1>2, <1>3 DEF StartsAt

LEMMA FlatToBegins ==
    ASSUME NEW S, NEW seqs \in Seq(Seq(S)), NEW m \in 0 .. Len(seqs), NEW n \in m .. Len(seqs)
    PROVE  /\ StartsAt(FlatTo(seqs)[n], 0, FlatTo(seqs)[m])
           /\ Len(FlatTo(seqs)[m]) <= Len(FlatTo(seqs)[n])
<1> DEFINE N == Len(seqs)
           f == FlatTo(seqs)
           Held == {d \in 0 .. N - m : StartsAt(f[m + d], 0, f[m])}
<1>1. N \in Nat /\ m \in Nat /\ n \in Nat /\ N - m \in Nat /\ n - m \in 0 .. N - m /\ m + (n - m) = n
      /\ m <= n /\ m \in 0 .. N /\ n \in 0 .. N
  BY LenProperties
<1>2. /\ \A i \in 0 .. N : f[i] \in Seq(S) /\ Len(f[i]) \in Nat
      /\ \A i \in 1 .. N : f[i] = f[i - 1] \o seqs[i] /\ seqs[i] \in Seq(S)
  BY FlatToSteps, LenProperties, ElementOfSeq
<1> HIDE DEF N, f
<1>3. 0 \in Held
  <2>1. StartsAt(f[m], 0, f[m])
    BY <1>1, <1>2 DEF StartsAt
  <2> QED
    BY <1>1, <2>1
<1>4. ASSUME NEW d \in 0 .. N - m - 1, d \in Held
      PROVE  d + 1 \in Held
  <2> DEFINE e == m + (d + 1)
  <2>1. m + d \in 0 .. N /\ e \in 1 .. N /\ e - 1 = m + d
        /\ e \in 0 .. N /\ d + 1 \in 0 .. N - m /\ m \in 0 .. N
    BY <1>1
  <2>2. StartsAt(f[m + d], 0, f[m])
    BY <1>4
  <2> HIDE DEF e, Held
  <2> DEFINE a == f[m + d]
  <2>3. f[e] = a \o seqs[e] /\ a \in Seq(S) /\ f[e] \in Seq(S) /\ seqs[e] \in Seq(S)
        /\ f[m] \in Seq(S)
    BY <1>2, <2>1
  <2>4. StartsAt(a, 0, f[m])
    BY <2>2
  <2> HIDE DEF a
  <2>5. StartsAt(f[e], 0, a)
    BY <2>3, BeginningOfConcat
  <2>6. StartsAt(f[e], 0, f[m])
    BY <2>3, <2>4, <2>5, BeginsTransitive
  <2> QED
    BY <2>1, <2>6 DEF e, Held
<1>5. \A d \in 0 .. N - m : d \in Held
  <2> HIDE DEF Held
  <2> QED
    BY <1>1, <1>3, <1>4, UpwardInduction
<1>6. StartsAt(f[n], 0, f[m])
  BY <1>1, <1>5
<1>7. Len(f[m]) \in Nat /\ Len(f[n]) \in Nat
  BY <1>1, <1>2
<1>8. Len(f[m]) <= Len(f[n])
  BY <1>6, <1>7 DEF StartsAt
<1> QED
  BY <1>6, <1>8 DEF f

\* Every piece is where the pieces before it end, in every longer concatenation.
LEMMA PiecesOfFlat ==
    ASSUME NEW S, NEW seqs \in Seq(Seq(S)), NEW m \in 1 .. Len(seqs), NEW n \in m .. Len(seqs)
    PROVE  StartsAt(FlatTo(seqs)[n], Len(FlatTo(seqs)[m - 1]), seqs[m])
<1> DEFINE f == FlatTo(seqs)
           a == f[m - 1]
<1>1. Len(seqs) \in Nat /\ m \in Nat /\ n \in Nat /\ m \in 0 .. Len(seqs) /\ n \in 0 .. Len(seqs)
      /\ m - 1 \in 0 .. Len(seqs)
  BY LenProperties
<1>2. /\ f[m] = a \o seqs[m] /\ seqs[m] \in Seq(S) /\ a \in Seq(S)
      /\ f[m] \in Seq(S) /\ f[n] \in Seq(S) /\ Len(a) \in Nat
  <2>1. f[m] = a \o seqs[m] /\ a \in Seq(S) /\ f[m] \in Seq(S) /\ f[n] \in Seq(S)
    BY <1>1, FlatToSteps
  <2>2. seqs[m] \in Seq(S)
    BY ElementOfSeq
  <2> HIDE DEF a, f
  <2> QED
    BY <2>1, <2>2, LenProperties
<1>3. StartsAt(f[n], 0, f[m])
  BY <1>1, FlatToBegins
<1> HIDE DEF a, f
<1>4. StartsAt(f[m], Len(a), seqs[m])
  BY <1>2, BeginningOfConcat
<1>5. StartsAt(f[n], Len(a), seqs[m])
  BY <1>2, <1>3, <1>4, BeginsTransitive
<1> QED
  BY <1>5 DEF a, f

\* Concatenations that begin with the same pieces begin alike.
LEMMA FlatToAgrees ==
    ASSUME NEW S, NEW r \in Seq(Seq(S)), NEW s \in Seq(Seq(S)),
           NEW n \in 0 .. Len(r), n <= Len(s), \A i \in 1 .. n : r[i] = s[i]
    PROVE  FlatTo(r)[n] = FlatTo(s)[n]
<1> DEFINE Same == {i \in 0 .. n : FlatTo(r)[i] = FlatTo(s)[i]}
<1>1. n \in Nat /\ Len(r) \in Nat /\ Len(s) \in Nat
  BY LenProperties
<1>2. 0 \in Same
  <2>1. FlatTo(r)[0] = FlatTo(s)[0]
    BY FlatToSteps
  <2> QED
    BY <1>1, <2>1
<1>3. ASSUME NEW i \in 0 .. n - 1, i \in Same
      PROVE  i + 1 \in Same
  <2>1. i + 1 \in 1 .. n /\ i + 1 \in 1 .. Len(r) /\ i + 1 \in 1 .. Len(s) /\ (i + 1) - 1 = i
        /\ i + 1 \in 0 .. n
    BY <1>1
  <2>2. FlatTo(r)[i + 1] = FlatTo(r)[i] \o r[i + 1]
    BY <2>1, FlatToSteps
  <2>3. FlatTo(s)[i + 1] = FlatTo(s)[i] \o s[i + 1]
    BY <2>1, FlatToSteps
  <2>4. r[i + 1] = s[i + 1]
    BY <2>1
  <2> QED
    BY <1>3, <2>1, <2>2, <2>3, <2>4
<1>4. \A i \in 0 .. n : i \in Same
  <2> HIDE DEF Same
  <2> QED
    BY <1>1, <1>2, <1>3, UpwardInduction
<1> QED
  BY <1>1, <1>4

LEMMA HeadOfConcat ==
    ASSUME NEW S, NEW c \in S, NEW r \in Seq(S)
    PROVE  LET s == <<c>> \o r
           IN  /\ s \in Seq(S) /\ Len(s) = Len(r) + 1 /\ Len(r) \in Nat
               /\ s[1] = c
               /\ \A i \in 1 .. Len(r) : s[i + 1] = r[i]
<1>1. <<c>> \in Seq(S) /\ Len(<<c>>) = 1 /\ <<c>>[1] = c /\ Len(r) \in Nat
  BY LenProperties
<1> DEFINE one == <<c>>
           s == one \o r
<1>2. one \in Seq(S) /\ Len(one) = 1 /\ one[1] = c
  BY <1>1
<1> HIDE DEF one
<1>3. /\ s \in Seq(S) /\ Len(s) = Len(one) + Len(r)
      /\ \A i \in 1 .. Len(one) + Len(r) :
            s[i] = IF i <= Len(one) THEN one[i] ELSE r[i - Len(one)]
  BY <1>2, ConcatProperties
<1> HIDE DEF s
<1>4. s[1] = c /\ Len(s) = Len(r) + 1
  BY <1>1, <1>2, <1>3
<1>5. \A i \in 1 .. Len(r) : s[i + 1] = r[i]
  <2> TAKE i \in 1 .. Len(r)
  <2>1. i + 1 \in 1 .. Len(one) + Len(r) /\ ~(i + 1 <= Len(one)) /\ (i + 1) - Len(one) = i
    BY <1>1, <1>2
  <2> QED
    BY <1>3, <2>1
<1> QED
  BY <1>1, <1>3, <1>4, <1>5 DEF s, one

LEMMA SpelledType ==
    ASSUME NEW vocab \in Seq(Token), NEW codes \in Seq(Ids(vocab))
    PROVE  /\ Spelled(vocab, codes) \in Seq(Seq(Byte)) /\ Len(codes) \in Nat
           /\ Len(Spelled(vocab, codes)) = Len(codes)
           /\ \A n \in 1 .. Len(codes) :
                /\ codes[n] \in Ids(vocab)
                /\ Spelled(vocab, codes)[n] = vocab[codes[n] + 1]
                /\ Spelled(vocab, codes)[n] \in Token
<1>1. Len(codes) \in Nat /\ \A n \in 1 .. Len(codes) : codes[n] \in Ids(vocab)
  BY LenProperties, ElementOfSeq
<1>2. \A n \in 1 .. Len(codes) : vocab[codes[n] + 1] \in Token /\ vocab[codes[n] + 1] \in Seq(Byte)
  BY <1>1, VocabularyTyped, TokenType DEF ByteSeq
<1>3. Spelled(vocab, codes) \in Seq(Seq(Byte)) /\ Len(Spelled(vocab, codes)) = Len(codes)
  BY <1>1, <1>2 DEF Spelled
<1> QED
  BY <1>1, <1>2, <1>3 DEF Spelled

\* The greedy codes of a row spell the row, and each of them is the greedy choice where
\* the tokens before it end.
LEMMA GreedySpells ==
    ASSUME NEW vocab, Conforms(vocab), NEW row \in ByteSeq
    PROVE  LET g == Greedy(vocab, row)
               spelled == FlatTo(Spelled(vocab, g))
           IN  /\ g \in Seq(Ids(vocab))
               /\ \A n \in 0 .. Len(g) - 1 :
                    /\ Len(spelled[n]) \in 0 .. Len(row) - 1
                    /\ g[n + 1] = CodeAt(vocab, row, Len(spelled[n]))
               /\ \A n \in 0 .. Len(g) : StartsAt(row, 0, spelled[n])
               /\ Flat(Spelled(vocab, g)) = row
<1> DEFINE g == Greedy(vocab, row)
           F == FlatTo(Spelled(vocab, g))
           G == GreedyFrom(vocab, row)
           Rest(n) == /\ Len(G[Len(F[n])]) = Len(g) - n
                      /\ \A i \in 1 .. Len(g) - n : G[Len(F[n])][i] = g[n + i]
           Held == {n \in 0 .. Len(g) : StartsAt(row, 0, F[n]) /\ Rest(n)}
<1>1. vocab \in Seq(Token) /\ row \in Seq(Byte) /\ Len(row) \in Nat
  BY LenProperties DEF Conforms, ByteSeq
<1>2. g \in Seq(Ids(vocab)) /\ g = G[0] /\ Len(g) \in Nat
  <2>1. 0 \in 0 .. Len(row)
    BY <1>1
  <2>2. G[0] \in Seq(Ids(vocab))
    BY <2>1, GreedyFromUnfolds
  <2> QED
    BY <2>2, LenProperties DEF Greedy
<1>3. /\ F[0] = <<>>
      /\ \A n \in 1 .. Len(g) : F[n] = F[n - 1] \o vocab[g[n] + 1]
      /\ \A n \in 0 .. Len(g) : F[n] \in Seq(Byte) /\ Len(F[n]) \in Nat
      /\ \A n \in 1 .. Len(g) : g[n] \in Ids(vocab) /\ vocab[g[n] + 1] \in Seq(Byte)
  <2>1. Spelled(vocab, g) \in Seq(Seq(Byte)) /\ Len(Spelled(vocab, g)) = Len(g)
        /\ \A n \in 1 .. Len(g) :
            /\ g[n] \in Ids(vocab)
            /\ Spelled(vocab, g)[n] = vocab[g[n] + 1]
            /\ Spelled(vocab, g)[n] \in Token
    <3> HIDE DEF g
    <3> QED
      BY <1>1, <1>2, SpelledType
  <2>2. \A n \in 1 .. Len(g) : vocab[g[n] + 1] \in Seq(Byte)
    BY <2>1, TokenType DEF ByteSeq
  <2> DEFINE seqs == Spelled(vocab, g)
  <2>3. /\ FlatTo(seqs)[0] = <<>>
        /\ \A n \in 1 .. Len(seqs) : FlatTo(seqs)[n] = FlatTo(seqs)[n - 1] \o seqs[n]
        /\ \A n \in 0 .. Len(seqs) : FlatTo(seqs)[n] \in Seq(Byte)
    <3> HIDE DEF seqs
    <3>1. seqs \in Seq(Seq(Byte))
      BY <2>1 DEF seqs
    <3> QED
      BY <3>1, FlatToSteps
  <2> HIDE DEF g
  <2> QED
    BY <2>1, <2>2, <2>3, LenProperties
<1> HIDE DEF g, F, G
\* What holds where the first n tokens end.
<1>4. ASSUME NEW n \in 0 .. Len(g), n \in Held
      PROVE  /\ n = Len(g) => Len(F[n]) = Len(row)
             /\ n < Len(g) =>
                    /\ Len(F[n]) \in 0 .. Len(row) - 1
                    /\ g[n + 1] = CodeAt(vocab, row, Len(F[n]))
                    /\ n + 1 \in Held
  <2> DEFINE at == Len(F[n])
             c == CodeAt(vocab, row, at)
             t == vocab[c + 1]
             next == G[at + Len(t)]
  <2>1. n \in Nat /\ F[n] \in Seq(Byte) /\ at \in Nat
    BY <1>2, <1>3
  <2>2. at \in 0 .. Len(row) /\ StartsAt(row, 0, F[n]) /\ Rest(n)
    <3>1. StartsAt(row, 0, F[n]) /\ Rest(n)
      BY <1>4
    <3>2. 0 + Len(F[n]) <= Len(row)
      BY <3>1 DEF StartsAt
    <3> QED
      BY <1>1, <2>1, <3>1, <3>2
  <2>3. /\ G[at] \in Seq(Ids(vocab))
        /\ at = Len(row) => G[at] = <<>>
        /\ at < Len(row) => /\ c \in Ids(vocab) /\ Len(t) \in Nat /\ at + Len(t) \in at + 1 .. Len(row)
                            /\ G[at] = <<c>> \o next
    BY <2>2, GreedyFromUnfolds DEF G
  <2>4. CASE at = Len(row)
    <3>1. Len(G[at]) = 0
      BY <2>3, <2>4
    <3>2. n = Len(g)
      BY <1>2, <2>1, <2>2, <3>1
    <3> QED
      BY <2>4, <3>2
  <2>5. CASE at # Len(row)
    <3>1. at < Len(row)
      BY <1>1, <2>2, <2>5
    <3>2. at + Len(t) \in 0 .. Len(row) /\ c \in Ids(vocab) /\ G[at] = <<c>> \o next
      <4>1. /\ c \in Ids(vocab) /\ Len(t) \in Nat /\ at + Len(t) \in at + 1 .. Len(row)
            /\ G[at] = <<c>> \o next
        BY <2>3, <3>1
      <4> HIDE DEF c, t, next, at, Held, Rest
      <4>2. at + Len(t) \in 0 .. Len(row)
        BY <1>1, <2>1, <4>1
      <4> QED
        BY <4>1, <4>2
    <3>3. next \in Seq(Ids(vocab))
      BY <3>2, GreedyFromUnfolds DEF G
    <3> HIDE DEF next, c
    <3>4. /\ Len(G[at]) = Len(next) + 1 /\ Len(next) \in Nat /\ G[at][1] = c
          /\ \A i \in 1 .. Len(next) : G[at][i + 1] = next[i]
      BY <3>2, <3>3, HeadOfConcat
    <3>5. n < Len(g) /\ Len(next) = Len(g) - (n + 1) /\ g[n + 1] = c
          /\ n + 1 \in 1 .. Len(g) /\ (n + 1) - 1 = n
      <4>1. Len(G[at]) = Len(g) - n /\ \A i \in 1 .. Len(g) - n : G[at][i] = g[n + i]
        BY <2>2
      <4> HIDE DEF at, t, Held, Rest
      <4>2. n < Len(g) /\ Len(next) = Len(g) - (n + 1) /\ n + 1 \in 1 .. Len(g) /\ (n + 1) - 1 = n
            /\ 1 \in 1 .. Len(g) - n
        <5>1. Len(next) + 1 = Len(g) - n /\ Len(next) \in Nat
          BY <3>4, <4>1
        <5>2. n \in Nat /\ Len(g) \in Nat
          BY <1>2, <2>1
        <5> HIDE DEF next
        <5> QED
          BY <5>1, <5>2
      <4>3. g[n + 1] = c
        BY <3>4, <4>1, <4>2
      <4> QED
        BY <4>2, <4>3
    <3>6. F[n + 1] = F[n] \o t /\ t \in Seq(Byte) /\ F[n + 1] \in Seq(Byte)
      <4>1. F[n + 1] = F[(n + 1) - 1] \o vocab[g[n + 1] + 1] /\ vocab[g[n + 1] + 1] \in Seq(Byte)
        BY <1>3, <3>5
      <4>2. F[n + 1] \in Seq(Byte)
        <5>1. n + 1 \in 0 .. Len(g)
          BY <1>2, <2>1, <3>5
        <5> QED
          BY <1>3, <5>1
      <4> QED
        BY <3>5, <4>1, <4>2
    <3>7. Len(F[n + 1]) = at + Len(t)
      <4> HIDE DEF t
      <4> QED
        BY <2>1, <3>6, ConcatProperties
    <3>8. Rest(n + 1)
      <4>1. \A i \in 1 .. Len(g) - (n + 1) : next[i] = g[n + 1 + i]
        <5> TAKE i \in 1 .. Len(g) - (n + 1)
        <5>1. i \in 1 .. Len(next) /\ i + 1 \in 1 .. Len(g) - n /\ n + (i + 1) = n + 1 + i
          BY <1>2, <2>1, <3>5
        <5>2. G[at][i + 1] = g[n + (i + 1)]
          BY <2>2, <5>1
        <5> QED
          BY <3>4, <5>1, <5>2
      <4>2. G[Len(F[n + 1])] = next
        BY <3>7 DEF next
      <4> QED
        BY <3>5, <4>1, <4>2
    <3>9. StartsAt(row, 0, F[n + 1])
      <4>1. at \in Nat /\ at < Len(row) /\ SingleByteTokens \subseteq TokensOf(vocab)
        BY <2>1, <3>1 DEF Conforms
      <4>2. StartsAt(row, at, t)
        BY <1>1, <4>1, CodeAtFound DEF c, IsLongestAt
      <4> HIDE DEF t
      <4>3. /\ \A k \in 1 .. Len(t) : row[at + k] = t[k]
            /\ \A k \in 1 .. at : row[0 + k] = F[n][k]
        BY <2>2, <4>2 DEF StartsAt
      <4>4. Len(t) \in Nat
        BY <3>6, LenProperties
      <4>5. \A k \in 1 .. at + Len(t) : F[n + 1][k] = IF k <= at THEN F[n][k] ELSE t[k - at]
        BY <2>1, <3>6, ConcatProperties
      <4>6. \A k \in 1 .. at + Len(t) : row[0 + k] = F[n + 1][k]
        <5> TAKE k \in 1 .. at + Len(t)
        <5>1. CASE k <= at
          BY <2>1, <4>3, <4>5, <5>1
        <5>2. CASE ~(k <= at)
          <6>1. k - at \in 1 .. Len(t) /\ at + (k - at) = k /\ 0 + k = k
            BY <2>1, <4>4, <5>2
          <6> QED
            BY <4>3, <4>5, <5>2, <6>1
        <5> QED
          BY <5>1, <5>2
      <4> QED
        BY <1>1, <3>2, <3>7, <4>6 DEF StartsAt
    <3>10. n + 1 \in Held
      BY <1>2, <3>5, <3>8, <3>9
    <3>11. at \in 0 .. Len(row) - 1
      BY <1>1, <2>1, <3>1
    <3> QED
      BY <3>5, <3>10, <3>11 DEF c
  <2> QED
    BY <2>4, <2>5
<1>5. 0 \in Held
  <2>1. Len(F[0]) = 0 /\ G[0] = g
    BY <1>2, <1>3
  <2>2. StartsAt(row, 0, F[0])
    BY <1>1, <2>1 DEF StartsAt
  <2>3. Len(G[Len(F[0])]) = Len(g) - 0 /\ \A i \in 1 .. Len(g) - 0 : G[Len(F[0])][i] = g[0 + i]
    BY <1>2, <2>1
  <2> QED
    BY <1>2, <2>2, <2>3
<1>6. \A n \in 0 .. Len(g) : n \in Held
  <2>1. ASSUME NEW n \in 0 .. Len(g) - 1, n \in Held
        PROVE  n + 1 \in Held
    <3>1. n \in 0 .. Len(g) /\ n < Len(g)
      BY <1>2
    <3> HIDE DEF Held
    <3> QED
      BY <1>4, <2>1, <3>1
  <2> HIDE DEF Held
  <2> QED
    BY <1>2, <1>5, <2>1, UpwardInduction
<1>7. \A n \in 0 .. Len(g) : StartsAt(row, 0, F[n])
  BY <1>6
<1>8. \A n \in 0 .. Len(g) - 1 :
        Len(F[n]) \in 0 .. Len(row) - 1 /\ g[n + 1] = CodeAt(vocab, row, Len(F[n]))
  <2> TAKE n \in 0 .. Len(g) - 1
  <2>1. n \in 0 .. Len(g) /\ n < Len(g)
    BY <1>2
  <2> HIDE DEF Held
  <2> QED
    BY <1>4, <1>6, <2>1
<1>9. F[Len(g)] = row
  <2> DEFINE all == F[Len(g)]
  <2>1. Len(g) \in 0 .. Len(g)
    BY <1>2
  <2>2. Len(all) = Len(row) /\ all \in Seq(Byte) /\ StartsAt(row, 0, all)
    <3> HIDE DEF Held
    <3> QED
      BY <1>3, <1>4, <1>6, <1>7, <2>1
  <2> HIDE DEF all
  <2>3. \A k \in 1 .. Len(all) : all[k] = row[k]
    BY <2>2 DEF StartsAt
  <2>4. all = row
    BY <1>1, <2>2, <2>3, SeqEqual
  <2> QED
    BY <2>4 DEF all
<1>10. Flat(Spelled(vocab, g)) = F[Len(g)]
  <2>1. Len(Spelled(vocab, g)) = Len(g)
    BY <1>1, <1>2, SpelledType
  <2> QED
    BY <2>1 DEF Flat, F
<1> QED
  BY <1>2, <1>7, <1>8, <1>9, <1>10 DEF g, F

\* A middle piece of a sequence.
LEMMA MiddlePiece ==
    ASSUME NEW S, NEW s \in Seq(S), NEW m \in 0 .. Len(s), NEW n \in m .. Len(s)
    PROVE  /\ SubSeq(s, m + 1, n) \in Seq(S)
           /\ Len(SubSeq(s, m + 1, n)) = n - m
           /\ \A i \in 1 .. n - m : /\ m + i \in 1 .. Len(s)
                                    /\ SubSeq(s, m + 1, n)[i] = s[m + i]
<1>1. Len(s) \in Nat /\ m \in Nat /\ n \in Nat /\ m + 1 \in Int /\ m <= n /\ n <= Len(s)
  BY LenProperties
<1>2. \A i \in m + 1 .. n : i \in 1 .. Len(s)
  BY <1>1
<1>3. \A i \in m + 1 .. n : s[i] \in S
  BY <1>2, ElementOfSeq
<1>4. /\ SubSeq(s, m + 1, n) \in Seq(S)
      /\ Len(SubSeq(s, m + 1, n)) = IF m + 1 <= n THEN n - (m + 1) + 1 ELSE 0
      /\ \A i \in 1 .. n - (m + 1) + 1 : SubSeq(s, m + 1, n)[i] = s[(m + 1) + i - 1]
  BY <1>1, <1>3, SubSeqProperties
<1> DEFINE t == SubSeq(s, m + 1, n)
<1> HIDE DEF t
<1>5. /\ Len(t) = IF m + 1 <= n THEN n - (m + 1) + 1 ELSE 0
      /\ \A i \in 1 .. n - (m + 1) + 1 : t[i] = s[(m + 1) + i - 1]
  BY <1>4 DEF t
<1>6. Len(t) = n - m
  BY <1>1, <1>5
<1>7. ASSUME NEW i \in 1 .. n - m
      PROVE  m + i \in 1 .. Len(s) /\ t[i] = s[m + i]
  <2>1. i \in 1 .. n - (m + 1) + 1 /\ (m + 1) + i - 1 = m + i /\ m + i \in 1 .. Len(s)
    BY <1>1
  <2> QED
    BY <1>5, <2>1
<1> QED
  BY <1>4, <1>6, <1>7 DEF t

\* Concatenating the pieces from m on goes on where the first m pieces end.
LEMMA FlatToOfRest ==
    ASSUME NEW S, NEW seqs \in Seq(Seq(S)), NEW m \in 0 .. Len(seqs), NEW top \in m .. Len(seqs),
           NEW n \in 0 .. top - m
    PROVE  /\ FlatTo(seqs)[m] \o FlatTo(SubSeq(seqs, m + 1, top))[n] = FlatTo(seqs)[m + n]
           /\ FlatTo(SubSeq(seqs, m + 1, top))[n] \in Seq(S)
<1> DEFINE rest == SubSeq(seqs, m + 1, top)
           f == FlatTo(seqs)
           g == FlatTo(rest)
           N == top - m
           Held == {i \in 0 .. N : f[m] \o g[i] = f[m + i]}
<1>1. Len(seqs) \in Nat /\ m \in Nat /\ top \in Nat /\ N \in Nat /\ top <= Len(seqs)
  BY LenProperties
<1>2. /\ rest \in Seq(Seq(S)) /\ Len(rest) = N
      /\ \A i \in 1 .. N : m + i \in 1 .. Len(seqs) /\ rest[i] = seqs[m + i]
  BY MiddlePiece
<1>3. /\ \A i \in 0 .. Len(seqs) : f[i] \in Seq(S)
      /\ \A i \in 1 .. Len(seqs) : f[i] = f[i - 1] \o seqs[i] /\ seqs[i] \in Seq(S)
  BY FlatToSteps, ElementOfSeq
<1> HIDE DEF rest, f
<1>4. /\ g[0] = <<>>
      /\ \A i \in 0 .. N : g[i] \in Seq(S)
      /\ \A i \in 1 .. N : g[i] = g[i - 1] \o rest[i]
  BY <1>2, FlatToSteps
<1> HIDE DEF g, N
<1>5. 0 \in Held
  <2>1. f[m] \o g[0] = f[m]
    BY <1>1, <1>3, <1>4, ConcatEmptySeq
  <2>2. m + 0 = m /\ 0 \in 0 .. N
    BY <1>1
  <2> QED
    BY <2>1, <2>2
<1>6. ASSUME NEW i \in 0 .. N - 1, i \in Held
      PROVE  i + 1 \in Held
  <2>1. /\ i + 1 \in 1 .. N /\ i + 1 \in 0 .. N /\ i \in 0 .. N /\ (i + 1) - 1 = i
        /\ (m + (i + 1)) - 1 = m + i
    BY <1>1
  <2>2. /\ g[i + 1] = g[i] \o rest[i + 1] /\ rest[i + 1] = seqs[m + (i + 1)]
        /\ m + (i + 1) \in 1 .. Len(seqs) /\ g[i] \in Seq(S)
    BY <1>2, <1>4, <2>1
  <2>3. f[m + (i + 1)] = f[m + i] \o seqs[m + (i + 1)] /\ seqs[m + (i + 1)] \in Seq(S)
    BY <1>3, <2>1, <2>2
  <2>4. f[m] \in Seq(S)
    BY <1>1, <1>3
  <2>5. f[m] \o (g[i] \o rest[i + 1]) = (f[m] \o g[i]) \o rest[i + 1]
    <3> DEFINE a == f[m]
               b == g[i]
               c == rest[i + 1]
    <3>1. a \in Seq(S) /\ b \in Seq(S) /\ c \in Seq(S)
      BY <2>2, <2>3, <2>4
    <3> HIDE DEF a, b, c
    <3>2. (a \o b) \o c = a \o (b \o c)
      BY <3>1, ConcatAssociative
    <3> QED
      BY <3>2 DEF a, b, c
  <2>6. f[m] \o g[i] = f[m + i]
    BY <1>6
  <2> QED
    BY <2>1, <2>2, <2>3, <2>5, <2>6
<1>7. \A i \in 0 .. N : i \in Held
  <2> HIDE DEF Held
  <2> QED
    BY <1>1, <1>5, <1>6, UpwardInduction
<1>8. f[m] \o g[n] = f[m + n] /\ g[n] \in Seq(S)
  BY <1>4, <1>7 DEF N
<1> QED
  BY <1>8 DEF f, g, rest

\* As many bytes as the rows have.
LEMMA FlatToLength ==
    ASSUME NEW rows \in Seq(ByteSeq), NEW n \in 0 .. Len(rows)
    PROVE  Len(FlatTo(rows)[n]) = ByteCount(rows, n)
<1> DEFINE f == FlatTo(rows)
           N == Len(rows)
           Held == {i \in 0 .. N : Len(f[i]) = ByteCount(rows, i)}
<1>1. N \in Nat /\ \A i \in 1 .. N : rows[i] \in Seq(Byte)
  BY LenProperties, ElementOfSeq DEF ByteSeq
<1>2. /\ f[0] = <<>>
      /\ \A i \in 1 .. N : f[i] = f[i - 1] \o rows[i]
      /\ \A i \in 0 .. N : f[i] \in Seq(Byte)
  BY FlatToSteps DEF ByteSeq
<1>3. /\ ByteCount(rows, 0) = 0
      /\ \A i \in 1 .. N : ByteCount(rows, i) = ByteCount(rows, i - 1) + Len(rows[i])
  BY ByteCountSteps
<1> HIDE DEF f, N
<1>4. 0 \in Held
  <2>1. Len(f[0]) = 0
    BY <1>2
  <2> QED
    BY <1>1, <1>3, <2>1
<1>5. ASSUME NEW i \in 0 .. N - 1, i \in Held
      PROVE  i + 1 \in Held
  <2>1. i + 1 \in 1 .. N /\ i + 1 \in 0 .. N /\ i \in 0 .. N /\ (i + 1) - 1 = i
    BY <1>1
  <2>2. f[i + 1] = f[i] \o rows[i + 1] /\ f[i] \in Seq(Byte) /\ rows[i + 1] \in Seq(Byte)
    BY <1>1, <1>2, <2>1
  <2>3. Len(f[i + 1]) = Len(f[i]) + Len(rows[i + 1])
    BY <2>2, ConcatProperties
  <2>4. ByteCount(rows, i + 1) = ByteCount(rows, i) + Len(rows[i + 1])
    BY <1>3, <2>1
  <2> QED
    BY <1>5, <2>1, <2>3, <2>4
<1>6. \A i \in 0 .. N : i \in Held
  <2> HIDE DEF Held
  <2> QED
    BY <1>1, <1>4, <1>5, UpwardInduction
<1> QED
  BY <1>6 DEF f, N

\* The codes of the first rows, by the row.
LEMMA CodesOfSteps ==
    ASSUME NEW vocab, Conforms(vocab), NEW rows \in Seq(ByteSeq)
    PROVE  /\ [k \in 1 .. Len(rows) |-> Greedy(vocab, rows[k])] \in Seq(Seq(Ids(vocab)))
           /\ CodesOf(vocab, rows, 0) = <<>>
           /\ \A n \in 0 .. Len(rows) : CodesOf(vocab, rows, n) \in Seq(Ids(vocab))
           /\ \A n \in 1 .. Len(rows) :
                CodesOf(vocab, rows, n) = CodesOf(vocab, rows, n - 1) \o Greedy(vocab, rows[n])
<1> DEFINE each == [k \in 1 .. Len(rows) |-> Greedy(vocab, rows[k])]
<1>1. Len(rows) \in Nat /\ \A k \in 1 .. Len(rows) : rows[k] \in ByteSeq
  BY LenProperties, ElementOfSeq
<1>2. \A k \in 1 .. Len(rows) : Greedy(vocab, rows[k]) \in Seq(Ids(vocab))
  BY <1>1, GreedySpells
<1>3. each \in [1 .. Len(rows) -> Seq(Ids(vocab))]
  BY <1>2
<1>4. each \in Seq(Seq(Ids(vocab))) /\ Len(each) = Len(rows)
  BY <1>1, <1>3
<1>5. \A k \in 1 .. Len(rows) : each[k] = Greedy(vocab, rows[k])
  OBVIOUS
<1>6. \A n : CodesOf(vocab, rows, n) = FlatTo(each)[n]
  BY DEF CodesOf
<1> HIDE DEF each
<1>7. /\ FlatTo(each)[0] = <<>>
      /\ \A n \in 1 .. Len(each) : FlatTo(each)[n] = FlatTo(each)[n - 1] \o each[n]
      /\ \A n \in 0 .. Len(each) : FlatTo(each)[n] \in Seq(Ids(vocab))
  BY <1>4, FlatToSteps
<1>8. /\ each \in Seq(Seq(Ids(vocab)))
      /\ CodesOf(vocab, rows, 0) = <<>>
      /\ \A n \in 0 .. Len(rows) : CodesOf(vocab, rows, n) \in Seq(Ids(vocab))
      /\ \A n \in 1 .. Len(rows) :
           CodesOf(vocab, rows, n) = CodesOf(vocab, rows, n - 1) \o Greedy(vocab, rows[n])
  BY <1>4, <1>5, <1>6, <1>7
<1> QED
  BY <1>8 DEF each

\* More rows have more codes, which begin with those of fewer.
LEMMA CodesOfBegins ==
    ASSUME NEW vocab, Conforms(vocab), NEW rows \in Seq(ByteSeq),
           NEW m \in 0 .. Len(rows), NEW n \in m .. Len(rows)
    PROVE  /\ StartsAt(CodesOf(vocab, rows, n), 0, CodesOf(vocab, rows, m))
           /\ Len(CodesOf(vocab, rows, m)) <= Len(CodesOf(vocab, rows, n))
<1> DEFINE each == [k \in 1 .. Len(rows) |-> Greedy(vocab, rows[k])]
<1>1. each \in Seq(Seq(Ids(vocab)))
  BY CodesOfSteps
<1>2. Len(each) = Len(rows)
  BY LenProperties
<1>3. CodesOf(vocab, rows, m) = FlatTo(each)[m] /\ CodesOf(vocab, rows, n) = FlatTo(each)[n]
  BY DEF CodesOf
<1> HIDE DEF each
<1> QED
  BY <1>1, <1>2, <1>3, FlatToBegins

\* The codes of the rows behind row m go on where those of the first m rows end.
LEMMA CodesOfRest ==
    ASSUME NEW vocab, Conforms(vocab), NEW rows \in Seq(ByteSeq),
           NEW m \in 0 .. Len(rows), NEW n \in 0 .. Len(rows) - m
    PROVE  CodesOf(vocab, rows, m) \o CodesOf(vocab, SubSeq(rows, m + 1, Len(rows)), n)
               = CodesOf(vocab, rows, m + n)
<1> DEFINE rest == SubSeq(rows, m + 1, Len(rows))
           each == [k \in 1 .. Len(rows) |-> Greedy(vocab, rows[k])]
           eachOfRest == [k \in 1 .. Len(rest) |-> Greedy(vocab, rest[k])]
           N == Len(rows)
<1>1. N \in Nat /\ m \in 0 .. N /\ N \in m .. N /\ n \in 0 .. N - m
  BY LenProperties
<1>2. /\ rest \in Seq(ByteSeq) /\ Len(rest) = N - m
      /\ \A i \in 1 .. N - m : m + i \in 1 .. N /\ rest[i] = rows[m + i]
  BY <1>1, MiddlePiece
<1>3. each \in Seq(Seq(Ids(vocab))) /\ Len(each) = N
  BY <1>1, CodesOfSteps
<1>4. eachOfRest \in Seq(Seq(Ids(vocab))) /\ Len(eachOfRest) = N - m
  <2>1. eachOfRest \in Seq(Seq(Ids(vocab)))
    <3> HIDE DEF rest
    <3> QED
      BY <1>2, CodesOfSteps
  <2>2. Len(eachOfRest) = Len(rest)
    <3> HIDE DEF rest
    <3> QED
      BY <1>2, LenProperties
  <2> QED
    BY <1>2, <2>1, <2>2
<1>5. \A i \in 1 .. N - m : eachOfRest[i] = each[m + i]
  BY <1>2
<1>6. /\ CodesOf(vocab, rows, m) = FlatTo(each)[m]
      /\ CodesOf(vocab, rows, m + n) = FlatTo(each)[m + n]
      /\ CodesOf(vocab, rest, n) = FlatTo(eachOfRest)[n]
  BY DEF CodesOf
<1> HIDE DEF each, eachOfRest, N
<1> DEFINE piece == SubSeq(each, m + 1, N)
<1>7. /\ piece \in Seq(Seq(Ids(vocab))) /\ Len(piece) = N - m
      /\ \A i \in 1 .. N - m : piece[i] = each[m + i]
  BY <1>1, <1>3, MiddlePiece
<1>8. FlatTo(each)[m] \o FlatTo(piece)[n] = FlatTo(each)[m + n]
  <2> HIDE DEF piece
  <2>1. /\ each \in Seq(Seq(Ids(vocab))) /\ m \in 0 .. Len(each) /\ N \in m .. Len(each)
        /\ n \in 0 .. N - m
    BY <1>1, <1>3
  <2> DEFINE S == Ids(vocab)
  <2> HIDE DEF S
  <2>2. each \in Seq(Seq(S))
    BY <2>1 DEF S
  <2>3. /\ FlatTo(each)[m] \o FlatTo(SubSeq(each, m + 1, N))[n] = FlatTo(each)[m + n]
        /\ FlatTo(SubSeq(each, m + 1, N))[n] \in Seq(S)
    BY <2>1, <2>2, FlatToOfRest
  <2> QED
    BY <2>3 DEF piece
<1> HIDE DEF piece
<1>9. piece = eachOfRest
  BY <1>4, <1>5, <1>7, SeqEqual
<1> QED
  BY <1>6, <1>8, <1>9

\* A window of the next bytes, as long as the longest token can be or to the end of the
\* row, finds what the rest of the row finds.
LEMMA CodeAtOfWindow ==
    ASSUME NEW vocab, Conforms(vocab), NEW row \in ByteSeq, NEW p \in 0 .. Len(row) - 1,
           NEW w \in ByteSeq, Len(w) = Len(row) - p \/ Len(w) = MaxTokenSize, p + Len(w) <= Len(row),
           \A k \in 1 .. Len(w) : w[k] = row[p + k]
    PROVE  CodeAt(vocab, w, 0) = CodeAt(vocab, row, p)
<1> DEFINE id == CodeAt(vocab, row, p)
<1>1. /\ vocab \in Seq(Token) /\ SingleByteTokens \subseteq TokensOf(vocab)
      /\ TokensOf(vocab) \in SUBSET Token
      /\ Len(row) \in Nat /\ Len(w) \in Nat /\ p \in Nat /\ p < Len(row) /\ MaxTokenSize \in Nat \ {0}
  BY VocabularyTyped, LenProperties, BytesAssumption DEF Conforms, ByteSeq
<1>2. id \in Ids(vocab) /\ IsLongestAt(TokensOf(vocab), row, p, vocab[id + 1])
  BY <1>1, CodeAtFound
<1>3. ASSUME NEW t \in Token
      PROVE  StartsAt(w, 0, t) <=> StartsAt(row, p, t)
  <2>1. Len(t) \in 1 .. MaxTokenSize
    BY TokenType
  <2>2. 0 + Len(t) <= Len(w) <=> p + Len(t) <= Len(row)
    BY <1>1, <2>1
  <2>3. ASSUME p + Len(t) <= Len(row)
        PROVE  \A k \in 1 .. Len(t) : w[0 + k] = row[p + k]
    <3> TAKE k \in 1 .. Len(t)
    <3>1. k \in 1 .. Len(w) /\ 0 + k = k
      BY <1>1, <2>1, <2>2, <2>3
    <3> QED
      BY <3>1
  <2> QED
    BY <2>2, <2>3 DEF StartsAt
<1> HIDE DEF id
<1>4. IsLongestAt(TokensOf(vocab), w, 0, vocab[id + 1])
  BY <1>1, <1>2, <1>3 DEF IsLongestAt
<1>5. 0 \in Nat /\ 0 < Len(w)
  BY <1>1
<1>6. CodeAt(vocab, w, 0) = id
  BY <1>2, <1>4, <1>5, CodeAtIs
<1> QED
  BY <1>6 DEF id

-----------------------------------------------------------------------------
(***************************************************************************)
(* Powers of two, division and finite sets of naturals.                    *)
(***************************************************************************)

\* g doubles from 1, up to the argument n.
Doubles(n, g) ==
    /\ g \in [0 .. n -> Nat \ {0}]
    /\ g[0] = 1 /\ \A m \in 1 .. n : g[m] = 2 * g[m - 1]

LEMMA DoublesExist ==
    ASSUME NEW n \in Nat
    PROVE  \E g : Doubles(n, g)
<1> DEFINE Good == {m \in 0 .. n : \E g : Doubles(m, g)}
<1>1. 0 \in Good
  <2>1. Doubles(0, [m \in 0 .. 0 |-> 1])
    BY DEF Doubles
  <2> QED
    BY <2>1
<1>2. ASSUME NEW k \in 0 .. n - 1, k \in Good
      PROVE  k + 1 \in Good
  <2>1. PICK g : Doubles(k, g)
    BY <1>2
  <2> DEFINE m == k + 1
             h == [j \in 0 .. m |-> IF j = m THEN 2 * g[k] ELSE g[j]]
  <2>2. k \in Nat /\ m \in 0 .. n /\ m \in Nat /\ m # 0 /\ 0 \in 0 .. m /\ 0 \in 0 .. k
    OBVIOUS
  <2>3. g[k] \in Nat \ {0} /\ \A j \in 0 .. m : j # m => g[j] \in Nat \ {0}
    BY <2>1, <2>2 DEF Doubles
  <2>4. h \in [0 .. m -> Nat \ {0}] /\ h[0] = 1
    BY <2>1, <2>2, <2>3 DEF Doubles
  <2>5. ASSUME NEW j \in 1 .. m
        PROVE  h[j] = 2 * h[j - 1]
    <3>1. j \in 0 .. m /\ j - 1 \in 0 .. m /\ j - 1 # m
      BY <2>2
    <3>2. CASE j = m
      BY <3>1, <3>2
    <3>3. CASE j # m
      <4>1. j \in 1 .. k
        BY <3>3
      <4> QED
        BY <2>1, <3>1, <3>3, <4>1 DEF Doubles
    <3> QED
      BY <3>2, <3>3
  <2>6. Doubles(m, h)
    <3> HIDE DEF h
    <3> QED
      BY <2>4, <2>5 DEF Doubles
  <2> QED
    BY <2>2, <2>6
<1>3. \A k \in 0 .. n : k \in Good
  <2> HIDE DEF Good
  <2> QED
    BY <1>1, <1>2, UpwardInduction
<1> QED
  BY <1>3

LEMMA DoublesAgree ==
    ASSUME NEW n \in Nat, NEW k \in Nat, n <= k,
           NEW g, NEW h, Doubles(n, g), Doubles(k, h)
    PROVE  \A m \in 0 .. n : g[m] = h[m]
<1> DEFINE Same == {m \in 0 .. n : g[m] = h[m]}
<1>1. 0 \in Same
  BY DEF Doubles
<1>2. ASSUME NEW j \in 0 .. n - 1, j \in Same
      PROVE  j + 1 \in Same
  <2> DEFINE m == j + 1
  <2>1. m \in 1 .. n /\ m \in 1 .. k /\ m \in 0 .. n /\ m - 1 = j
    OBVIOUS
  <2> HIDE DEF m
  <2>2. g[m] = 2 * g[m - 1] /\ h[m] = 2 * h[m - 1]
    BY <2>1 DEF Doubles
  <2>3. m \in Same
    BY <1>2, <2>1, <2>2
  <2> QED
    BY <2>3 DEF m
<1>3. \A m \in 0 .. n : m \in Same
  <2> HIDE DEF Same
  <2> QED
    BY <1>1, <1>2, UpwardInduction
<1> QED
  BY <1>3

\* TwoTo doubles, and so leaves every bound behind.
LEMMA TwoToSteps ==
    /\ TwoTo[0] = 1
    /\ \A n \in Nat : /\ TwoTo[n] \in Nat \ {0} /\ TwoTo[n] > n
                      /\ TwoTo[n + 1] = 2 * TwoTo[n]
<1> DEFINE upTo(n) == CHOOSE g : Doubles(n, g)
           all == [n \in Nat |-> upTo(n)[n]]
<1>1. \A n \in Nat : Doubles(n, upTo(n))
  BY DoublesExist
<1> HIDE DEF upTo
<1>2. \A n \in Nat : all[n] \in Nat \ {0}
  BY <1>1 DEF Doubles
<1>3. ASSUME NEW n \in Nat, n # 0
      PROVE  all[n] = 2 * all[n - 1]
  <2> DEFINE k == n - 1
  <2>1. k \in Nat /\ k <= n /\ k \in 0 .. k /\ n \in 1 .. n
    BY <1>3
  <2>2. \A m \in 0 .. k : upTo(k)[m] = upTo(n)[m]
    <3> HIDE DEF k
    <3> QED
      BY <1>1, <2>1, DoublesAgree
  <2>3. upTo(n)[n] = 2 * upTo(n)[n - 1]
    BY <1>1, <2>1 DEF Doubles
  <2>4. upTo(k)[k] = upTo(n)[k]
    BY <2>1, <2>2
  <2> QED
    BY <2>1, <2>3, <2>4
<1>4. all[0] = 1
  BY <1>1 DEF Doubles
<1>5. all = [e \in Nat |-> IF e = 0 THEN 1 ELSE 2 * all[e - 1]]
  <2>1. \A e \in Nat : all[e] = IF e = 0 THEN 1 ELSE 2 * all[e - 1]
    BY <1>3, <1>4
  <2> QED
    BY <2>1
<1> DEFINE Solves(f) == f = [e \in Nat |-> IF e = 0 THEN 1 ELSE 2 * f[e - 1]]
<1>6. TwoTo = CHOOSE f : Solves(f)
  BY DEF TwoTo
<1>7. Solves(TwoTo)
  <2>1. \E f : Solves(f)
    BY <1>5
  <2> HIDE DEF Solves
  <2> QED
    BY <1>6, <2>1
<1>8. TwoTo[0] = 1 /\ \A n \in Nat : TwoTo[n + 1] = 2 * TwoTo[n]
  <2>1. \A e \in Nat : TwoTo[e] = IF e = 0 THEN 1 ELSE 2 * TwoTo[e - 1]
    BY <1>7, Zenon
  <2>2. ASSUME NEW n \in Nat
        PROVE  TwoTo[n + 1] = 2 * TwoTo[n]
    <3> DEFINE m == n + 1
    <3>1. m \in Nat /\ m # 0 /\ m - 1 = n
      OBVIOUS
    <3> HIDE DEF m
    <3>2. TwoTo[m] = 2 * TwoTo[n]
      BY <2>1, <3>1
    <3> QED
      BY <3>2 DEF m
  <2> QED
    BY <2>1, <2>2
<1>9. ASSUME NEW n \in Nat
      PROVE  TwoTo[n] \in Nat \ {0} /\ TwoTo[n] > n
  <2> DEFINE Above == {m \in Nat : TwoTo[m] \in Nat \ {0} /\ TwoTo[m] > m}
  <2>1. 0 \in Above
    BY <1>8
  <2>2. \A k \in 0 .. n - 1 : k \in Above => k + 1 \in Above
    BY <1>8
  <2>3. \A k \in 0 .. n : k \in Above
    <3> HIDE DEF Above
    <3> QED
      BY <2>1, <2>2, UpwardInduction
  <2> QED
    BY <2>3
<1> QED
  BY <1>8, <1>9

\* Every non-empty, bounded set of naturals has a largest element.
LEMMA LargestNatural ==
    ASSUME NEW S \in SUBSET Nat, S # {}, NEW n \in Nat, \A k \in S : k <= n
    PROVE  \E m \in S : \A k \in S : k <= m
<1> DEFINE Gaps == {n - k : k \in S}
<1>1. Gaps \in SUBSET Nat /\ Gaps # {}
  <2>1. \A k \in S : k \in Nat /\ k <= n /\ n - k \in Nat
    OBVIOUS
  <2> QED
    BY <2>1
<1>2. PICK g \in Gaps : \A k \in Gaps : g <= k
  <2> HIDE DEF Gaps
  <2> QED
    BY <1>1, LeastNatural
<1>3. PICK m \in S : g = n - m
  BY <1>2
<1>4. ASSUME NEW k \in S
      PROVE  k <= m
  <2>1. g <= n - k
    BY <1>2
  <2>2. k \in Nat /\ m \in Nat
    OBVIOUS
  <2> QED
    BY <1>3, <2>1, <2>2
<1> QED
  BY <1>4

\* A set that holds all positions before each of its positions is counted by its last.
LEMMA InitialSegment ==
    ASSUME NEW n \in Nat, NEW S \in SUBSET (1 .. n), \A k \in S : \A j \in 1 .. k : j \in S
    PROVE  /\ Cardinality(S) \in 0 .. n
           /\ \A k \in 1 .. n : k \in S <=> k <= Cardinality(S)
<1>1. CASE S = {}
  <2>1. Cardinality(S) = 0
    BY <1>1, FS_EmptySet
  <2> QED
    BY <1>1, <2>1
<1>2. CASE S # {}
  <2>1. PICK m \in S : \A k \in S : k <= m
    <3>1. S \in SUBSET Nat /\ \A k \in S : k <= n
      OBVIOUS
    <3> QED
      BY <1>2, <3>1, LargestNatural
  <2>2. S = 1 .. m
    <3>1. m \in 1 .. n /\ \A j \in 1 .. m : j \in S
      OBVIOUS
    <3>2. \A k \in S : k \in 1 .. m
      BY <2>1
    <3> QED
      BY <3>1, <3>2
  <2>3. Cardinality(1 .. m) = m
    <3>1. m \in Int /\ 1 \in Int /\ m - 1 + 1 = m /\ 1 <= m
      OBVIOUS
    <3> QED
      BY <3>1, FS_Interval
  <2> QED
    BY <2>2, <2>3
<1> QED
  BY <1>1, <1>2

\* Products grow with each factor.
LEMMA ProductGrows ==
    ASSUME NEW a \in Nat, NEW b \in Nat, NEW c \in Nat, a < b
    PROVE  a * c + c <= b * c
<1>1. (b - a - 1) * c >= 0
  <2> DEFINE d == b - a - 1
  <2>1. d \in Nat
    OBVIOUS
  <2> HIDE DEF d
  <2>2. d * c \in Nat
    BY <2>1
  <2> QED
    BY <2>2 DEF d
<1> QED
  BY <1>1

LEMMA Division ==
    ASSUME NEW a \in Nat, NEW b \in Nat \ {0}
    PROVE  /\ a \div b \in Nat /\ (a \div b) * b \in Nat
           /\ (a \div b) * b <= a /\ a < (a \div b) * b + b
           /\ (a * b) \div b = a /\ (a * b) % b = 0
<1>1. a \div b \in Nat /\ (a \div b) * b <= a /\ a < (a \div b) * b + b
  OBVIOUS
<1>2. (a \div b) * b \in Nat
  BY <1>1
<1>3. (a * b) \div b = a
  OBVIOUS
<1>4. (a * b) % b = 0
  OBVIOUS
<1> QED
  BY <1>1, <1>2, <1>3, <1>4

LEMMA DivisionGrows ==
    ASSUME NEW a \in Nat, NEW c \in Nat, NEW b \in Nat \ {0}, a <= c
    PROVE  a \div b <= c \div b
<1> DEFINE x == a \div b
           y == c \div b
<1>1. x \in Nat /\ y \in Nat /\ x * b <= a /\ c < y * b + b /\ x * b \in Nat /\ y * b \in Nat
  BY Division
<1> HIDE DEF x, y
<1>2. ASSUME y < x
      PROVE  FALSE
  <2>1. y * b + b <= x * b
    BY <1>1, <1>2, ProductGrows
  <2> QED
    BY <1>1, <2>1
<1>3. x <= y
  BY <1>1, <1>2
<1> QED
  BY <1>3 DEF x, y
=============================================================================
