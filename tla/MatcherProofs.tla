---------------------------- MODULE MatcherProofs ----------------------------
(***************************************************************************)
(* Proofs about the two matchers.                                          *)
(*                                                                         *)
(* DictionaryMatcher, frozen: the record of every token gives its longest  *)
(* prefix token under every bound, and every call of find_all answers with *)
(* the greedy codes.                                                       *)
(*                                                                         *)
(* LongestPrefixMatcher, growing: after any insertions every token is held *)
(* where a search looks for it, and every search finds the longest.        *)
(***************************************************************************)
EXTENDS DictionaryMatcher, LongestPrefixMatcher, ByteStringsProofs

-----------------------------------------------------------------------------
(***************************************************************************)
(* The inductive invariant.                                                *)
(***************************************************************************)

\* The bytes that key k stands for, and the tokens that are prefixes of them.
Own(k) == IF k <= Len(vocab) THEN vocab[k] ELSE LargestKey
PrefixIds(own) == {p \in Ids(vocab) : StartsAt(own, 0, vocab[p + 1])}

KeysInv ==
    /\ IF mode = "build" THEN Len(keys) <= Len(vocab) ELSE Len(keys) = PaddedLen
    /\ \A k \in 1 .. Len(keys) : keys[k] = KeyOf(Own(k))

\* What the lengths and the ids of a record say of the prefix tokens.
RecordFor(record, own) ==
    /\ record.lens = {Length(p) : p \in PrefixIds(own)}
    /\ \A k \in 1 .. MaxTokenSize - 1 :
        /\ record.ids[k] \in PrefixIds(own) /\ Length(record.ids[k]) <= k + 1
        /\ \A p \in PrefixIds(own) : Length(p) <= k + 1 => Length(p) <= Length(record.ids[k])

ChainsInv ==
    /\ Len(chains) = Len(keys)
    /\ \A k \in 1 .. Len(chains) : RecordFor(chains[k], Own(k))

SinglesInv ==
    \A k \in 1 .. Len(vocab) : (k <= Len(keys) /\ Len(vocab[k]) = 1) => singles[vocab[k][1]] = k - 1

StackInv ==
    mode = "build" => IF keys = <<>> THEN chain = <<>> ELSE StackHoldsPrefixes

\* The tokens with a two-byte prefix below p are the first s.
Below(p, s) == \A k \in 1 .. Len(vocab) : k <= s <=> PrefixOf(KeyOf(vocab[k])) < p
StartsInv ==
    mode # "build" =>
        /\ firstBlocks \in [0 .. NumPrefixes -> Blocks]
        /\ \A p \in 0 .. NumPrefixes : \E s \in 0 .. Len(vocab) :
            Below(p, s) /\ firstBlocks[p] = (IF s = 0 THEN 0 ELSE s - 1) \div BlockKeys

Call == [data : ByteSeq, win : 1 .. MaxTokenSize]

\* The variables of a search, and how wide its ranges still are.
SearchInv ==
    /\ inputs \in Seq(Call)
    /\ mode = "build" => inputs = <<>>
    /\ mode \in {"samples", "block"} =>
        /\ base \in [DOMAIN inputs -> Nat] /\ slot \in [DOMAIN inputs -> Nat]
    /\ mode = "samples" =>
        /\ size \in [DOMAIN inputs -> Nat \ {0}]
        /\ half = BlockKeys \div 2 /\ \A j \in DOMAIN inputs : slot[j] = 0
        /\ \A j \in DOMAIN inputs : size[j] <= TwoTo[steps]
    /\ half = 0 \/ \E e \in 0 .. BlockKeys : half = TwoTo[e]

FoundInv ==
    /\ mode # "ready" => found = <<>>
    /\ \A j \in DOMAIN found :
        /\ j \in DOMAIN inputs
        /\ LET window == SubSeq(InputKey(j), 1, inputs[j].win)
               code == CodeAt(vocab, window, 0)
           IN  found[j] = <<code, Length(code)>>

IInv ==
    /\ TypeOK /\ KeysInv /\ ChainsInv /\ SinglesInv /\ StackInv /\ StartsInv
    /\ SearchInv /\ SearchBrackets /\ FoundInv

-----------------------------------------------------------------------------
(***************************************************************************)
(* Largest members.                                                        *)
(***************************************************************************)

LEMMA SetMaxFound ==
    ASSUME NEW S \in SUBSET Nat, S # {}, NEW n \in Nat, \A k \in S : k <= n
    PROVE  SetMax(S) \in S /\ \A k \in S : k <= SetMax(S)
BY LargestNatural DEF SetMax

LEMMA SetMaxIs ==
    ASSUME NEW S \in SUBSET Nat, NEW m \in S, \A k \in S : k <= m
    PROVE  SetMax(S) = m
<1>1. m \in Nat /\ S # {}
  OBVIOUS
<1>2. SetMax(S) \in S /\ \A k \in S : k <= SetMax(S)
  BY <1>1, SetMaxFound
<1> DEFINE x == SetMax(S)
<1> HIDE DEF x
<1>3. x \in Nat /\ x <= m /\ m <= x
  BY <1>2 DEF x
<1>4. x = m
  BY <1>1, <1>3
<1> QED
  BY <1>4 DEF x

-----------------------------------------------------------------------------
(***************************************************************************)
(* Keys and their order.                                                   *)
(***************************************************************************)

LEMMA SizeTyped ==
    /\ MaxTokenSize \in Nat /\ MaxTokenSize > 1
    /\ NumBytes \in Nat \ {0} /\ Byte = 0 .. NumBytes - 1 /\ 0 \in Byte /\ NumBytes - 1 \in Byte
BY BytesAssumption, MatcherAssumption DEF Byte

LEMMA BytesTyped ==
    ASSUME NEW s \in ByteSeq
    PROVE  /\ Len(s) \in Nat /\ DOMAIN s = 1 .. Len(s)
           /\ \A k \in 1 .. Len(s) : s[k] \in Byte /\ s[k] \in Int /\ 0 <= s[k] /\ s[k] <= NumBytes - 1
<1>1. s \in Seq(Byte)
  BY DEF ByteSeq
<1>2. Len(s) \in Nat /\ DOMAIN s = 1 .. Len(s)
  BY <1>1, LenProperties
<1>3. \A k \in 1 .. Len(s) : s[k] \in Byte
  BY <1>1, ElementOfSeq
<1> QED
  BY <1>2, <1>3, SizeTyped

LEMMA KeyTyped ==
    ASSUME NEW a \in Key
    PROVE  /\ a \in ByteSeq /\ Len(a) = MaxTokenSize
           /\ \A k \in 1 .. MaxTokenSize :
                a[k] \in Byte /\ a[k] \in Int /\ 0 <= a[k] /\ a[k] <= NumBytes - 1
<1>1. a \in Seq(Byte) /\ Len(a) = MaxTokenSize
  BY SizeTyped DEF Key
<1>2. \A k \in 1 .. MaxTokenSize : a[k] \in Byte
  BY DEF Key
<1> QED
  BY <1>1, <1>2, SizeTyped DEF ByteSeq

LEMMA KeyOfTyped ==
    ASSUME NEW s \in ByteSeq
    PROVE  /\ KeyOf(s) \in Key
           /\ \A k \in 1 .. MaxTokenSize : KeyOf(s)[k] = IF k <= Len(s) THEN s[k] ELSE 0
<1>1. \A k \in 1 .. MaxTokenSize : (IF k <= Len(s) THEN s[k] ELSE 0) \in Byte
  <2> TAKE k \in 1 .. MaxTokenSize
  <2>1. CASE k <= Len(s)
    <3>1. k \in 1 .. Len(s)
      BY <2>1, BytesTyped
    <3> QED
      BY <2>1, <3>1, BytesTyped
  <2>2. CASE ~(k <= Len(s))
    BY <2>2, SizeTyped
  <2> QED
    BY <2>1, <2>2
<1> QED
  BY <1>1 DEF KeyOf, Key

\* A key is below another exactly when it is smaller at the first byte where they differ.
LEMMA KeyLess ==
    ASSUME NEW a \in Key, NEW b \in Key
    PROVE  LexLess(a, b) <=>
            \E k \in 1 .. MaxTokenSize : (\A j \in 1 .. k - 1 : a[j] = b[j]) /\ a[k] < b[k]
<1>1. Len(a) = MaxTokenSize /\ Len(b) = MaxTokenSize /\ MaxTokenSize \in Nat
  BY KeyTyped, SizeTyped
<1> QED
  BY <1>1 DEF LexLess

LEMMA KeyLeqReflexive ==
    ASSUME NEW a \in Key
    PROVE  KeyLeq(a, a)
BY LexIrreflexive, KeyTyped DEF KeyLeq

LEMMA KeyLeqTotal ==
    ASSUME NEW a \in Key, NEW b \in Key, ~KeyLeq(a, b)
    PROVE  KeyLeq(b, a)
<1>1. a \in ByteSeq /\ b \in ByteSeq
  BY KeyTyped
<1>2. LexLess(b, a)
  BY DEF KeyLeq
<1>3. ~LexLess(a, b)
  BY <1>1, <1>2, LexTransitive, LexIrreflexive
<1> QED
  BY <1>3 DEF KeyLeq

LEMMA KeyLeqTransitive ==
    ASSUME NEW a \in Key, NEW b \in Key, NEW c \in Key, KeyLeq(a, b), KeyLeq(b, c)
    PROVE  KeyLeq(a, c)
<1>1. a \in ByteSeq /\ b \in ByteSeq /\ c \in ByteSeq
  BY KeyTyped
<1>2. ~LexLess(b, a) /\ ~LexLess(c, b)
  BY DEF KeyLeq
<1>3. ASSUME LexLess(c, a)
      PROVE  FALSE
  <2>1. CASE a = b
    BY <1>2, <1>3, <2>1
  <2>2. CASE LexLess(a, b)
    <3>1. LexLess(c, b)
      BY <1>1, <1>3, <2>2, LexTransitive
    <3> QED
      BY <1>2, <3>1
  <2> QED
    BY <1>1, <1>2, <2>1, <2>2, LexTotal
<1> QED
  BY <1>3 DEF KeyLeq

LEMMA LargestKeyIs ==
    /\ LargestKey \in Key /\ \A k \in 1 .. MaxTokenSize : LargestKey[k] = NumBytes - 1
    /\ \A a \in Key : KeyLeq(a, LargestKey)
<1>1. LargestKey \in Key /\ \A k \in 1 .. MaxTokenSize : LargestKey[k] = NumBytes - 1
  BY SizeTyped DEF LargestKey, Key
<1>2. ASSUME NEW a \in Key
      PROVE  KeyLeq(a, LargestKey)
  <2>1. SUFFICES ASSUME LexLess(LargestKey, a)
                 PROVE  FALSE
    BY DEF KeyLeq
  <2>2. PICK k \in 1 .. MaxTokenSize : LargestKey[k] < a[k]
    BY <1>1, <2>1, KeyLess
  <2>3. a[k] <= NumBytes - 1 /\ a[k] \in Int
    BY KeyTyped
  <2> QED
    BY <1>1, <2>2, <2>3, SizeTyped
<1> QED
  BY <1>1, <1>2

\* Padding with zeros keeps the order, though it may let keys tie.
LEMMA KeysKeepOrder ==
    ASSUME NEW s \in ByteSeq, NEW t \in ByteSeq, Len(t) <= MaxTokenSize, LexLess(s, t)
    PROVE  KeyLeq(KeyOf(s), KeyOf(t))
<1> DEFINE a == KeyOf(s)
           b == KeyOf(t)
<1>1. /\ a \in Key /\ b \in Key
      /\ \A k \in 1 .. MaxTokenSize : a[k] = IF k <= Len(s) THEN s[k] ELSE 0
      /\ \A k \in 1 .. MaxTokenSize : b[k] = IF k <= Len(t) THEN t[k] ELSE 0
  BY KeyOfTyped
<1> HIDE DEF a, b
<1>2. /\ Len(s) \in Nat /\ Len(t) \in Nat
      /\ \A k \in 1 .. Len(s) : s[k] \in Int
      /\ \A k \in 1 .. Len(t) : t[k] \in Int
      /\ \A k \in 1 .. MaxTokenSize : b[k] \in Int /\ 0 <= b[k]
  BY <1>1, BytesTyped, KeyTyped
<1>3. PICK k \in 1 .. Len(t) :
        /\ k <= Len(s) + 1
        /\ \A j \in 1 .. k - 1 : s[j] = t[j]
        /\ k > Len(s) \/ s[k] < t[k]
  BY DEF LexLess
<1>4. SUFFICES ASSUME LexLess(b, a)
               PROVE  FALSE
  BY DEF KeyLeq, a, b
<1>5. PICK m \in 1 .. MaxTokenSize : (\A j \in 1 .. m - 1 : b[j] = a[j]) /\ b[m] < a[m]
  BY <1>1, <1>4, KeyLess
<1>6. CASE m < k
  <2>1. m <= Len(s) /\ m <= Len(t) /\ m \in 1 .. k - 1
    BY <1>2, <1>3, <1>6
  <2>2. a[m] = s[m] /\ b[m] = t[m] /\ s[m] = t[m] /\ b[m] \in Int
    BY <1>1, <1>2, <1>3, <2>1
  <2> QED
    BY <1>5, <2>2
<1>7. CASE m >= k /\ k > Len(s)
  <2>1. ~(m <= Len(s))
    BY <1>2, <1>7
  <2>2. a[m] = 0
    BY <1>1, <2>1
  <2> QED
    BY <1>2, <1>5, <2>2
<1>8. CASE m >= k /\ ~(k > Len(s))
  <2>1. /\ k <= Len(s) /\ k \in 1 .. Len(s) /\ k \in 1 .. MaxTokenSize /\ k <= Len(t)
        /\ k \in Int /\ m \in Int
    BY <1>2, <1>8, SizeTyped
  <2>2. a[k] = s[k] /\ b[k] = t[k] /\ s[k] < t[k] /\ s[k] \in Int /\ t[k] \in Int
    BY <1>1, <1>2, <1>3, <2>1
  <2>3. CASE m = k
    BY <1>5, <2>2, <2>3
  <2>4. CASE m # k
    <3>1. k \in 1 .. m - 1
      BY <1>8, <2>1, <2>4
    <3> QED
      BY <1>5, <2>2, <3>1
  <2> QED
    BY <2>3, <2>4
<1> QED
  BY <1>6, <1>7, <1>8

\* A key that begins with some bytes is not below their own.
LEMMA KeyOfPrefix ==
    ASSUME NEW s \in ByteSeq, NEW b \in Key, Len(s) <= MaxTokenSize,
           \A k \in 1 .. Len(s) : b[k] = s[k]
    PROVE  KeyLeq(KeyOf(s), b)
<1> DEFINE a == KeyOf(s)
<1>1. a \in Key /\ \A k \in 1 .. MaxTokenSize : a[k] = IF k <= Len(s) THEN s[k] ELSE 0
  BY KeyOfTyped
<1> HIDE DEF a
<1>2. /\ Len(s) \in Nat
      /\ \A k \in 1 .. MaxTokenSize : b[k] \in Int /\ 0 <= b[k]
  BY BytesTyped, KeyTyped
<1>3. SUFFICES ASSUME LexLess(b, a)
               PROVE  FALSE
  BY DEF KeyLeq, a
<1>4. PICK m \in 1 .. MaxTokenSize : b[m] < a[m]
  BY <1>1, <1>3, KeyLess
<1>5. CASE m <= Len(s)
  <2>1. m \in 1 .. Len(s)
    BY <1>2, <1>5
  <2>2. a[m] = s[m] /\ b[m] = s[m] /\ b[m] \in Int
    BY <1>1, <1>2, <1>5, <2>1
  <2> QED
    BY <1>4, <2>2
<1>6. CASE ~(m <= Len(s))
  <2>1. a[m] = 0
    BY <1>1, <1>6
  <2> QED
    BY <1>2, <1>4, <2>1
<1> QED
  BY <1>5, <1>6

\* Whatever lies between two keys shares the bytes that both begin with.
LEMMA KeysBetweenAgree ==
    ASSUME NEW a \in Key, NEW b \in Key, NEW c \in Key, KeyLeq(a, b), KeyLeq(b, c),
           NEW n \in 0 .. MaxTokenSize, \A k \in 1 .. n : a[k] = c[k]
    PROVE  \A k \in 1 .. n : b[k] = a[k]
<1> DEFINE Apart == {k \in 1 .. n : b[k] # a[k]}
<1>1. SUFFICES ASSUME Apart # {}
               PROVE  FALSE
  OBVIOUS
<1>2. n \in Nat /\ MaxTokenSize \in Nat /\ n <= MaxTokenSize /\ Apart \in SUBSET Nat
  BY SizeTyped
<1>3. PICK k \in Apart : \A j \in Apart : k <= j
  <2> HIDE DEF Apart
  <2> QED
    BY <1>1, <1>2, LeastNatural
<1>4. k \in 1 .. n /\ k \in 1 .. MaxTokenSize /\ b[k] # a[k] /\ a[k] = c[k]
  BY <1>2
<1>5. \A j \in 1 .. k - 1 : b[j] = a[j] /\ a[j] = c[j]
  <2> TAKE j \in 1 .. k - 1
  <2>1. j \in 1 .. n /\ j \notin Apart
    BY <1>2, <1>3, <1>4
  <2> QED
    BY <2>1
<1>6. a[k] \in Int /\ b[k] \in Int
  BY <1>4, KeyTyped
<1>7. CASE b[k] < a[k]
  <2>1. LexLess(b, a)
    BY <1>4, <1>5, <1>7, KeyLess
  <2> QED
    BY <2>1 DEF KeyLeq
<1>8. CASE a[k] < b[k]
  <2>1. LexLess(c, b)
    BY <1>4, <1>5, <1>8, KeyLess
  <2> QED
    BY <2>1 DEF KeyLeq
<1> QED
  BY <1>4, <1>6, <1>7, <1>8

\* The two-byte prefixes ascend with the keys.
LEMMA PrefixTyped ==
    ASSUME NEW a \in Key
    PROVE  PrefixOf(a) \in Nat /\ PrefixOf(a) < NumPrefixes
<1> DEFINE x == a[1]
           y == a[2]
           m == NumBytes
<1>1. x \in Nat /\ y \in Nat /\ m \in Nat \ {0} /\ x < m /\ y < m
  <2>1. 1 \in 1 .. MaxTokenSize /\ 2 \in 1 .. MaxTokenSize
    BY SizeTyped
  <2> QED
    BY <2>1, KeyTyped, SizeTyped
<1> HIDE DEF x, y, m
<1>2. x * m + m <= m * m /\ x * m \in Nat
  BY <1>1, ProductGrows
<1>3. x * m + y \in Nat /\ x * m + y < m * m
  <2> DEFINE p == x * m
             q == m * m
  <2>1. q \in Int
    BY <1>1
  <2> HIDE DEF p, q
  <2> QED
    BY <1>1, <1>2, <2>1 DEF p, q
<1> QED
  BY <1>3 DEF PrefixOf, NumPrefixes, x, y, m

LEMMA PrefixesAscend ==
    ASSUME NEW a \in Key, NEW b \in Key, KeyLeq(a, b)
    PROVE  PrefixOf(a) <= PrefixOf(b)
<1> DEFINE ax == a[1]
           ay == a[2]
           bx == b[1]
           by == b[2]
           m == NumBytes
<1>1. 1 \in 1 .. MaxTokenSize /\ 2 \in 1 .. MaxTokenSize
  BY SizeTyped
<1>2. /\ ax \in Nat /\ ay \in Nat /\ bx \in Nat /\ by \in Nat /\ m \in Nat \ {0}
      /\ ay < m /\ by < m
  BY <1>1, KeyTyped, SizeTyped
<1>3. ~(bx < ax)
  <2>1. ASSUME bx < ax
        PROVE  LexLess(b, a)
    BY <1>1, <2>1, KeyLess
  <2> QED
    BY <2>1 DEF KeyLeq
<1>4. ~(bx = ax /\ by < ay)
  <2>1. ASSUME bx = ax, by < ay
        PROVE  LexLess(b, a)
    <3>1. \A j \in 1 .. 2 - 1 : b[j] = a[j]
      BY <2>1
    <3> QED
      BY <1>1, <2>1, <3>1, KeyLess
  <2> QED
    BY <2>1 DEF KeyLeq
<1> HIDE DEF ax, ay, bx, by, m
<1>5. CASE ax = bx
  BY <1>2, <1>4, <1>5 DEF PrefixOf, ax, ay, bx, by, m
<1>6. CASE ax < bx
  <2>1. ax * m + m <= bx * m
    BY <1>2, <1>6, ProductGrows
  <2> DEFINE p == ax * m
             q == bx * m
  <2>2. p \in Nat /\ q \in Nat
    BY <1>2
  <2>3. p + m <= q
    BY <2>1
  <2> HIDE DEF p, q
  <2>4. p + ay <= q + by
    BY <1>2, <2>2, <2>3
  <2> QED
    BY <2>4 DEF PrefixOf, p, q, ax, ay, bx, by, m
<1> QED
  BY <1>2, <1>3, <1>5, <1>6

-----------------------------------------------------------------------------
(***************************************************************************)
(* Prefixes in a sorted dictionary.                                        *)
(***************************************************************************)

LEMMA PrefixComesFirst ==
    ASSUME NEW s \in ByteSeq, NEW t \in ByteSeq, StartsAt(t, 0, s)
    PROVE  /\ s = t \/ LexLess(s, t)
           /\ Len(s) = Len(t) => s = t
<1>1. /\ Len(s) \in Nat /\ Len(t) \in Nat /\ Len(s) <= Len(t)
      /\ \A k \in 1 .. Len(s) : t[k] = s[k]
  <2>1. Len(s) \in Nat /\ Len(t) \in Nat
    BY BytesTyped
  <2>2. 0 + Len(s) <= Len(t) /\ \A k \in 1 .. Len(s) : t[0 + k] = s[k]
    BY DEF StartsAt
  <2> QED
    BY <2>1, <2>2
<1>2. Len(s) = Len(t) => s = t
  <2>1. s \in Seq(Byte) /\ t \in Seq(Byte)
    BY DEF ByteSeq
  <2> QED
    BY <1>1, <2>1
<1>3. Len(s) < Len(t) => LexLess(s, t)
  <2>1. SUFFICES ASSUME Len(s) < Len(t)
                 PROVE  LexLess(s, t)
    OBVIOUS
  <2> DEFINE k == Len(s) + 1
  <2>2. /\ k \in 1 .. Len(t) /\ k <= Len(s) + 1 /\ k > Len(s)
        /\ \A j \in 1 .. k - 1 : s[j] = t[j]
    BY <1>1, <2>1
  <2> HIDE DEF k
  <2> QED
    BY <2>2 DEF LexLess
<1> QED
  BY <1>1, <1>2, <1>3

\* What lies between a byte sequence and one that it begins, begins with it too.
LEMMA BetweenPrefixes ==
    ASSUME NEW s \in ByteSeq, NEW t \in ByteSeq, NEW u \in ByteSeq,
           LexLess(s, t), LexLess(t, u), StartsAt(u, 0, s)
    PROVE  StartsAt(t, 0, s)
<1>1. /\ Len(s) \in Nat /\ Len(t) \in Nat /\ Len(u) \in Nat
      /\ Len(s) <= Len(u) /\ \A k \in 1 .. Len(s) : u[k] = s[k]
  <2>1. Len(s) \in Nat /\ Len(t) \in Nat /\ Len(u) \in Nat
    BY BytesTyped
  <2>2. 0 + Len(s) <= Len(u) /\ \A k \in 1 .. Len(s) : u[0 + k] = s[k]
    BY DEF StartsAt
  <2> QED
    BY <2>1, <2>2
<1>2. PICK k \in 1 .. Len(t) :
        /\ k <= Len(s) + 1
        /\ \A j \in 1 .. k - 1 : s[j] = t[j]
        /\ k > Len(s) \/ s[k] < t[k]
  BY DEF LexLess
<1>3. CASE k > Len(s)
  <2>1. Len(s) <= Len(t) /\ \A j \in 1 .. Len(s) : t[j] = s[j]
    BY <1>1, <1>2, <1>3
  <2> QED
    BY <1>1, <2>1 DEF StartsAt
<1>4. CASE ~(k > Len(s))
  <2>1. /\ k \in 1 .. Len(s) /\ k \in 1 .. Len(u) /\ k <= Len(t) + 1
        /\ \A j \in 1 .. k - 1 : j \in 1 .. Len(s)
    BY <1>1, <1>4
  <2>2. u[k] < t[k] /\ \A j \in 1 .. k - 1 : u[j] = t[j]
    BY <1>1, <1>2, <1>4, <2>1
  <2>3. \E m \in 1 .. Len(t) : m <= Len(u) + 1 /\ (\A j \in 1 .. m - 1 : u[j] = t[j])
                               /\ (m > Len(u) \/ u[m] < t[m])
    BY <1>1, <2>1, <2>2
  <2>4. LexLess(u, t)
    BY <2>3 DEF LexLess
  <2> QED
    BY <2>4, LexTransitive, LexIrreflexive
<1> QED
  BY <1>3, <1>4

LEMMA Ordered ==
    ASSUME NEW v, Conforms(v)
    PROVE  /\ v \in Seq(Token) /\ Len(v) \in Nat
           /\ \A i \in 1 .. Len(v) : /\ v[i] \in Token /\ v[i] \in ByteSeq
                                     /\ Len(v[i]) \in 1 .. MaxTokenSize
                                     /\ KeyOf(v[i]) \in Key
           /\ \A i, j \in 1 .. Len(v) :
                /\ i < j => LexLess(v[i], v[j])
                /\ v[i] = v[j] => i = j
                /\ i <= j => KeyLeq(KeyOf(v[i]), KeyOf(v[j]))
                /\ StartsAt(v[i], 0, v[j]) => j <= i /\ (Len(v[i]) = Len(v[j]) => i = j)
<1>1. v \in Seq(Token) /\ Sorted(v)
  BY DEF Conforms
<1>2. Len(v) \in Nat /\ \A i \in 1 .. Len(v) : v[i] \in Token
  BY <1>1, LenProperties, ElementOfSeq
<1>3. \A i \in 1 .. Len(v) : /\ v[i] \in ByteSeq /\ Len(v[i]) \in 1 .. MaxTokenSize
                             /\ KeyOf(v[i]) \in Key
  BY <1>2, TokenType, KeyOfTyped
<1>4. ASSUME NEW i \in 1 .. Len(v), NEW j \in 1 .. Len(v)
      PROVE  /\ i < j => LexLess(v[i], v[j])
             /\ v[i] = v[j] => i = j
             /\ i <= j => KeyLeq(KeyOf(v[i]), KeyOf(v[j]))
             /\ StartsAt(v[i], 0, v[j]) => j <= i /\ (Len(v[i]) = Len(v[j]) => i = j)
  <2>1. i < j => LexLess(v[i], v[j])
    BY <1>1 DEF Sorted
  <2>2. j < i => LexLess(v[j], v[i])
    BY <1>1 DEF Sorted
  <2>3. i \in Int /\ j \in Int
    BY <1>2
  <2>4. v[i] = v[j] => i = j
    <3>1. ~LexLess(v[i], v[i])
      BY <1>3, LexIrreflexive
    <3> QED
      BY <2>1, <2>2, <2>3, <3>1
  <2>5. i < j => KeyLeq(KeyOf(v[i]), KeyOf(v[j]))
    <3>1. Len(v[j]) <= MaxTokenSize
      BY <1>3
    <3> QED
      BY <1>3, <2>1, <3>1, KeysKeepOrder
  <2>6. i = j => KeyLeq(KeyOf(v[i]), KeyOf(v[j]))
    BY <1>3, KeyLeqReflexive
  <2>7. i <= j => KeyLeq(KeyOf(v[i]), KeyOf(v[j]))
    BY <2>3, <2>5, <2>6
  <2>8. ASSUME StartsAt(v[i], 0, v[j])
        PROVE  j <= i /\ (Len(v[i]) = Len(v[j]) => i = j)
    <3>1. /\ v[j] = v[i] \/ LexLess(v[j], v[i])
          /\ Len(v[j]) = Len(v[i]) => v[j] = v[i]
      BY <1>3, <2>8, PrefixComesFirst
    <3>2. ~(i < j)
      <4>1. SUFFICES ASSUME i < j
                     PROVE  FALSE
        OBVIOUS
      <4>2. LexLess(v[i], v[j])
        BY <2>1, <4>1
      <4>3. ~LexLess(v[i], v[i])
        BY <1>3, LexIrreflexive
      <4>4. LexLess(v[j], v[i])
        BY <3>1, <4>2, <4>3
      <4> QED
        BY <1>3, <4>2, <4>3, <4>4, LexTransitive
    <3> QED
      BY <2>3, <2>4, <3>1, <3>2
  <2> QED
    BY <2>1, <2>4, <2>7, <2>8
<1> QED
  BY <1>1, <1>2, <1>3, <1>4

\* The first token is the zero byte, and its key is below all others.
LEMMA FirstTokenIsZero ==
    ASSUME NEW v, Conforms(v)
    PROVE  /\ 1 \in 1 .. Len(v)
           /\ \A b \in Key : KeyLeq(KeyOf(v[1]), b)
<1>1. <<0>> \in TokensOf(v)
  <2>1. <<0>> \in SingleByteTokens
    BY SizeTyped DEF SingleByteTokens
  <2> QED
    BY <2>1 DEF Conforms
<1>2. PICK i \in 1 .. Len(v) : v[i] = <<0>>
  BY <1>1 DEF TokensOf
<1>3. Len(v) \in Nat /\ 1 \in 1 .. Len(v)
  BY <1>2, Ordered
<1>4. v[1] = <<0>>
  <2>1. SUFFICES ASSUME i # 1
                 PROVE  FALSE
    BY <1>2
  <2>2. LexLess(v[1], <<0>>)
    <3>1. 1 < i
      BY <2>1
    <3> QED
      BY <1>2, <1>3, <3>1, Ordered
  <2>3. Len(v[1]) \in Nat /\ Len(v[1]) >= 1 /\ v[1][1] \in Int /\ 0 <= v[1][1]
    <3>1. v[1] \in ByteSeq /\ Len(v[1]) \in 1 .. MaxTokenSize
      BY <1>3, Ordered
    <3>2. 1 \in 1 .. Len(v[1]) /\ Len(v[1]) \in Nat
      BY <3>1
    <3> QED
      BY <3>1, <3>2, BytesTyped
  <2>4. Len(<<0>>) = 1
    OBVIOUS
  <2>5. PICK k \in 1 .. 1 : k > Len(v[1]) \/ v[1][k] < <<0>>[k]
    BY <2>2, <2>4 DEF LexLess
  <2> QED
    BY <2>3, <2>5
<1>5. ASSUME NEW b \in Key
      PROVE  KeyLeq(KeyOf(v[1]), b)
  <2> DEFINE a == KeyOf(v[1])
  <2>1. v[1] \in ByteSeq /\ Len(v[1]) = 1 /\ v[1][1] = 0
    BY <1>3, <1>4, Ordered
  <2>2. a \in Key /\ \A k \in 1 .. MaxTokenSize : a[k] = 0
    BY <2>1, KeyOfTyped
  <2>3. SUFFICES ASSUME LexLess(b, a)
                 PROVE  FALSE
    BY DEF KeyLeq
  <2> HIDE DEF a
  <2>4. PICK k \in 1 .. MaxTokenSize : b[k] < a[k]
    BY <2>2, <2>3, KeyLess
  <2>5. b[k] \in Int /\ 0 <= b[k]
    BY KeyTyped
  <2> QED
    BY <2>2, <2>4, <2>5
<1> QED
  BY <1>3, <1>5

-----------------------------------------------------------------------------
(***************************************************************************)
(* The stack of prefix tokens and the records made from it.                *)
(***************************************************************************)

LEMMA StartsAtZero ==
    ASSUME NEW s \in ByteSeq, NEW t \in ByteSeq
    PROVE  StartsAt(s, 0, t) <=> Len(t) <= Len(s) /\ \A k \in 1 .. Len(t) : s[k] = t[k]
<1>1. Len(t) \in Nat /\ Len(s) \in Nat
  BY BytesTyped
<1>2. 0 + Len(t) = Len(t) /\ \A k \in 1 .. Len(t) : 0 + k = k
  BY <1>1
<1> QED
  BY <1>2 DEF StartsAt

\* The ids of the dictionary and their tokens.
LEMMA IdsTyped ==
    ASSUME vocab \in Vocabularies
    PROVE  /\ Conforms(vocab) /\ Len(vocab) \in Nat /\ Ids(vocab) = 0 .. Len(vocab) - 1
           /\ \A p \in Ids(vocab) :
                /\ p \in Nat /\ p + 1 \in 1 .. Len(vocab)
                /\ vocab[p + 1] \in Token /\ vocab[p + 1] \in ByteSeq
                /\ Length(p) = Len(vocab[p + 1]) /\ Length(p) \in 1 .. MaxTokenSize
                /\ Length(p) \in Nat
           /\ \A p, q \in Ids(vocab) : vocab[p + 1] = vocab[q + 1] => p = q
<1>1. Conforms(vocab)
  BY MatcherAssumption
<1>2. Len(vocab) \in Nat
  BY <1>1, Ordered
<1>3. \A p \in Ids(vocab) : p \in Nat /\ p + 1 \in 1 .. Len(vocab)
  BY <1>2 DEF Ids
<1>4. \A p \in Ids(vocab) : /\ vocab[p + 1] \in Token /\ vocab[p + 1] \in ByteSeq
                            /\ Len(vocab[p + 1]) \in 1 .. MaxTokenSize
  BY <1>1, <1>3, Ordered
<1>5. \A p \in Ids(vocab) : Length(p) = Len(vocab[p + 1]) /\ Length(p) \in 1 .. MaxTokenSize
                            /\ Length(p) \in Nat
  BY <1>4, SizeTyped DEF Length
<1>6. \A p, q \in Ids(vocab) : vocab[p + 1] = vocab[q + 1] => p = q
  <2> TAKE p, q \in Ids(vocab)
  <2>1. vocab[p + 1] = vocab[q + 1] => p + 1 = q + 1
    BY <1>1, <1>3, Ordered
  <2> QED
    BY <1>3, <2>1
<1> QED
  BY <1>1, <1>2, <1>3, <1>4, <1>5, <1>6 DEF Ids

\* A token for each single byte.
LEMMA SingleFound ==
    ASSUME vocab \in Vocabularies, NEW b \in Byte
    PROVE  \E p \in Ids(vocab) : vocab[p + 1] = <<b>> /\ Length(p) = 1
<1>1. <<b>> \in TokensOf(vocab)
  <2>1. <<b>> \in SingleByteTokens
    BY DEF SingleByteTokens
  <2> QED
    BY <2>1, IdsTyped DEF Conforms
<1>2. PICK i \in 1 .. Len(vocab) : vocab[i] = <<b>>
  BY <1>1 DEF TokensOf
<1> DEFINE p == i - 1
<1>3. p \in Ids(vocab) /\ p + 1 = i
  BY IdsTyped
<1> HIDE DEF p
<1>4. vocab[p + 1] = <<b>>
  BY <1>2, <1>3
<1>5. Length(p) = 1
  <2>1. Length(p) = Len(<<b>>)
    BY <1>4 DEF Length
  <2> QED
    BY <2>1
<1> QED
  BY <1>3, <1>4, <1>5

\* The prefix tokens of some bytes: each length at most once, and one byte at least.
LEMMA PrefixIdsFacts ==
    ASSUME vocab \in Vocabularies, NEW own \in ByteSeq, Len(own) \in 1 .. MaxTokenSize
    PROVE  /\ \A p \in PrefixIds(own) : /\ p \in Ids(vocab) /\ Length(p) <= Len(own)
                                        /\ \A k \in 1 .. Length(p) : own[k] = vocab[p + 1][k]
           /\ \A p \in Ids(vocab) :
                (Length(p) <= Len(own) /\ \A k \in 1 .. Length(p) : own[k] = vocab[p + 1][k])
                    => p \in PrefixIds(own)
           /\ \E p \in PrefixIds(own) : Length(p) = 1 /\ vocab[p + 1] = <<own[1]>>
           /\ \A p, q \in PrefixIds(own) : Length(p) = Length(q) => p = q
<1>1. \A p \in Ids(vocab) :
        p \in PrefixIds(own) <=>
            Length(p) <= Len(own) /\ \A k \in 1 .. Length(p) : own[k] = vocab[p + 1][k]
  BY StartsAtZero, IdsTyped DEF PrefixIds
<1>2. \A p \in PrefixIds(own) : p \in Ids(vocab)
  BY DEF PrefixIds
<1>3. \E p \in PrefixIds(own) : Length(p) = 1 /\ vocab[p + 1] = <<own[1]>>
  <2>1. 1 \in 1 .. Len(own) /\ own[1] \in Byte /\ Len(own) \in Nat
    <3>1. Len(own) \in Nat /\ 1 \in 1 .. Len(own)
      BY BytesTyped
    <3> QED
      BY <3>1, BytesTyped
  <2>2. PICK p \in Ids(vocab) : vocab[p + 1] = <<own[1]>> /\ Length(p) = 1
    BY <2>1, SingleFound
  <2>3. Length(p) <= Len(own)
    BY <2>1, <2>2
  <2>4. \A k \in 1 .. Length(p) : own[k] = vocab[p + 1][k]
    BY <2>2
  <2> QED
    BY <1>1, <2>2, <2>3, <2>4
<1>4. ASSUME NEW p \in PrefixIds(own), NEW q \in PrefixIds(own), Length(p) = Length(q)
      PROVE  p = q
  <2>1. p \in Ids(vocab) /\ q \in Ids(vocab)
    BY <1>2
  <2> DEFINE s == vocab[p + 1]
             t == vocab[q + 1]
  <2>2. s \in ByteSeq /\ t \in ByteSeq /\ Len(s) = Length(p) /\ Len(t) = Length(q)
    BY <2>1, IdsTyped
  <2>3. \A k \in 1 .. Length(p) : s[k] = own[k] /\ t[k] = own[k]
    BY <1>1, <1>4, <2>1
  <2> HIDE DEF s, t
  <2>4. s = t
    <3>1. s \in Seq(Byte) /\ t \in Seq(Byte) /\ Len(s) = Len(t) /\ Len(s) \in Nat
      BY <1>4, <2>2, BytesTyped DEF ByteSeq
    <3>2. \A k \in 1 .. Len(s) : s[k] = t[k]
      BY <2>2, <2>3
    <3> QED
      BY <3>1, <3>2
  <2> QED
    BY <2>1, <2>4, IdsTyped DEF s, t
<1> QED
  BY <1>1, <1>2, <1>3, <1>4

\* A sequence of ids with ascending lengths.
Ascending(ids) == \A m, n \in DOMAIN ids : m < n => Length(ids[m]) < Length(ids[n])

\* PrefixChain::new: the last id that is filled into a slot is the longest that fits.
LEMMA RecordOfStack ==
    ASSUME vocab \in Vocabularies, NEW own \in ByteSeq, Len(own) \in 1 .. MaxTokenSize,
           NEW ids \in Seq(Ids(vocab)), {ids[n] : n \in DOMAIN ids} = PrefixIds(own), Ascending(ids)
    PROVE  RecordFor(PrefixChain(ids), own) /\ PrefixChain(ids) \in Record
<1> DEFINE record == PrefixChain(ids)
           within(k) == {n \in DOMAIN ids : FillFrom(Length(ids[n])) <= k}
           slots == [k \in 1 .. MaxTokenSize - 1 |->
                        IF within(k) = {} THEN 0 ELSE ids[SetMax(within(k))]]
           lens == {Length(ids[n]) : n \in DOMAIN ids}
<1>1. record = [lens |-> lens, ids |-> slots]
  BY DEF PrefixChain
<1>2. /\ Len(ids) \in Nat /\ DOMAIN ids = 1 .. Len(ids)
      /\ \A n \in DOMAIN ids : ids[n] \in PrefixIds(own) /\ ids[n] \in Ids(vocab)
      /\ \A n \in DOMAIN ids : Length(ids[n]) \in 1 .. MaxTokenSize /\ Length(ids[n]) \in Nat
  <2>1. Len(ids) \in Nat /\ DOMAIN ids = 1 .. Len(ids)
    BY LenProperties
  <2>2. \A n \in DOMAIN ids : ids[n] \in PrefixIds(own)
    OBVIOUS
  <2>3. \A n \in DOMAIN ids : ids[n] \in Ids(vocab)
    BY <2>2 DEF PrefixIds
  <2> QED
    BY <2>1, <2>2, <2>3, IdsTyped
<1>3. lens = {Length(p) : p \in PrefixIds(own)}
  OBVIOUS
<1>4. ASSUME NEW k \in 1 .. MaxTokenSize - 1
      PROVE  /\ slots[k] \in PrefixIds(own) /\ Length(slots[k]) <= k + 1
             /\ \A p \in PrefixIds(own) : Length(p) <= k + 1 => Length(p) <= Length(slots[k])
  <2>1. k \in Nat /\ k >= 1 /\ k + 1 \in Nat
    BY SizeTyped
  <2>2. \A n \in DOMAIN ids : n \in within(k) <=> Length(ids[n]) <= k + 1
    <3> TAKE n \in DOMAIN ids
    <3> DEFINE l == Length(ids[n])
    <3>1. l \in Nat /\ l >= 1
      BY <1>2
    <3> HIDE DEF l
    <3>2. FillFrom(l) <= k <=> l <= k + 1
      BY <2>1, <3>1 DEF FillFrom
    <3> QED
      BY <3>2 DEF l
  <2>3. within(k) # {}
    <3>1. PICK p \in PrefixIds(own) : Length(p) = 1
      BY PrefixIdsFacts
    <3>2. PICK n \in DOMAIN ids : ids[n] = p
      OBVIOUS
    <3>3. n \in within(k)
      BY <2>1, <2>2, <3>1, <3>2
    <3> QED
      BY <3>3
  <2>4. within(k) \in SUBSET Nat /\ \A n \in within(k) : n <= Len(ids)
    BY <1>2
  <2> DEFINE top == SetMax(within(k))
  <2>5. top \in within(k) /\ \A n \in within(k) : n <= top
    <3> HIDE DEF within
    <3> QED
      BY <1>2, <2>3, <2>4, SetMaxFound
  <2>6. slots[k] = ids[top] /\ top \in DOMAIN ids
    BY <2>3, <2>5
  <2> HIDE DEF top, slots
  <2>7. Length(ids[top]) <= k + 1
    BY <2>2, <2>5, <2>6
  <2>8. ASSUME NEW p \in PrefixIds(own), Length(p) <= k + 1
        PROVE  Length(p) <= Length(slots[k])
    <3>1. PICK n \in DOMAIN ids : ids[n] = p
      OBVIOUS
    <3>2. n \in within(k)
      BY <2>2, <2>8, <3>1
    <3>3. n <= top /\ n \in Nat /\ top \in Nat
      BY <1>2, <2>5, <2>6, <3>1, <3>2
    <3>4. n < top => Length(ids[n]) < Length(ids[top])
      BY <2>6, <3>1 DEF Ascending
    <3>5. Length(ids[n]) \in Nat /\ Length(ids[top]) \in Nat
      BY <1>2, <2>6, <3>1
    <3>6. Length(ids[n]) <= Length(ids[top])
      BY <3>3, <3>4, <3>5
    <3> QED
      BY <2>6, <3>1, <3>6
  <2> QED
    BY <1>2, <2>6, <2>7, <2>8
<1>5. record.lens = lens /\ record.ids = slots
  BY <1>1
<1>6. RecordFor(record, own)
  <2> HIDE DEF record, lens, slots
  <2> QED
    BY <1>3, <1>4, <1>5 DEF RecordFor
<1>7. record \in Record
  <2>1. lens \in SUBSET (1 .. MaxTokenSize)
    BY <1>2
  <2>2. \A k \in 1 .. MaxTokenSize - 1 : slots[k] \in Ids(vocab)
    <3> HIDE DEF slots
    <3> QED
      BY <1>4, PrefixIdsFacts
  <2>3. slots \in [1 .. MaxTokenSize - 1 -> Ids(vocab)]
    BY <2>2
  <2> HIDE DEF lens, slots
  <2> QED
    BY <1>1, <2>1, <2>3 DEF Record
<1> QED
  BY <1>6, <1>7

\* A record with that property gives the longest token under every bound.
LEMMA RecordLongest ==
    ASSUME vocab \in Vocabularies, NEW own \in ByteSeq, Len(own) \in 1 .. MaxTokenSize,
           NEW record, RecordFor(record, own), NEW bound \in 2 .. MaxTokenSize
    PROVE  LET cut == SubSeq(own, 1, IF bound < Len(own) THEN bound ELSE Len(own))
           IN  vocab[record.ids[bound - 1] + 1] = LongestMatch(TokensOf(vocab), cut, 0)
<1> DEFINE m == IF bound < Len(own) THEN bound ELSE Len(own)
           cut == SubSeq(own, 1, m)
           id == record.ids[bound - 1]
           t == vocab[id + 1]
           k == bound - 1
<1>1. /\ Len(own) \in Nat /\ bound \in Nat /\ m \in 1 .. Len(own) /\ m \in Nat /\ m <= bound
      /\ k \in 1 .. MaxTokenSize - 1 /\ k + 1 = bound
  BY BytesTyped, SizeTyped
<1>2. /\ cut \in ByteSeq /\ Len(cut) = m
      /\ \A j \in 1 .. m : cut[j] = own[j]
  <2>1. own \in Seq(Byte)
    BY DEF ByteSeq
  <2> HIDE DEF m
  <2> QED
    BY <1>1, <2>1 DEF ByteSeq
<1>3. /\ id \in PrefixIds(own) /\ Length(id) <= bound
      /\ \A p \in PrefixIds(own) : Length(p) <= bound => Length(p) <= Length(id)
  <2>1. /\ record.ids[k] \in PrefixIds(own) /\ Length(record.ids[k]) <= k + 1
        /\ \A p \in PrefixIds(own) : Length(p) <= k + 1 => Length(p) <= Length(record.ids[k])
    BY <1>1 DEF RecordFor
  <2> QED
    BY <1>1, <2>1
<1> HIDE DEF cut, id, k
<1>4. \A p \in Ids(vocab) :
        StartsAt(cut, 0, vocab[p + 1]) <=> p \in PrefixIds(own) /\ Length(p) <= bound
  <2> TAKE p \in Ids(vocab)
  <2> DEFINE u == vocab[p + 1]
             l == Length(p)
  <2>1. u \in ByteSeq /\ Len(u) = l /\ l \in Nat
    BY IdsTyped
  <2>2. StartsAt(cut, 0, u) <=> Len(u) <= Len(cut) /\ \A j \in 1 .. Len(u) : cut[j] = u[j]
    BY <1>2, <2>1, StartsAtZero
  <2>3. p \in PrefixIds(own) <=> l <= Len(own) /\ \A j \in 1 .. l : own[j] = u[j]
    BY PrefixIdsFacts
  <2> HIDE DEF u, l
  <2>4. l <= m <=> l <= Len(own) /\ l <= bound
    BY <1>1, <2>1
  <2> HIDE DEF m
  <2>5. l <= m => \A j \in 1 .. l : j \in 1 .. m /\ cut[j] = own[j]
    BY <1>1, <1>2, <2>1
  <2>6. StartsAt(cut, 0, u) <=> p \in PrefixIds(own) /\ l <= bound
    BY <1>2, <2>1, <2>2, <2>3, <2>4, <2>5
  <2> QED
    BY <2>6 DEF u, l
<1>5. id \in Ids(vocab) /\ TokensOf(vocab) \in SUBSET Token /\ vocab \in Seq(Token)
  <2>1. vocab \in Seq(Token)
    BY IdsTyped DEF Conforms
  <2> QED
    BY <1>3, <2>1, VocabularyTyped DEF PrefixIds
<1>6. IsLongestAt(TokensOf(vocab), cut, 0, t)
  <2>1. t \in TokensOf(vocab) /\ StartsAt(cut, 0, t)
    BY <1>3, <1>4, <1>5, VocabularyTyped
  <2>2. ASSUME NEW u \in TokensOf(vocab), StartsAt(cut, 0, u)
        PROVE  Len(u) <= Len(t)
    <3>1. PICK p \in Ids(vocab) : vocab[p + 1] = u
      BY <1>5, VocabularyTyped
    <3>2. Length(p) <= Length(id)
      BY <1>3, <1>4, <2>2, <3>1
    <3>3. Length(p) = Len(u) /\ Length(id) = Len(t)
      BY <3>1 DEF Length
    <3> QED
      BY <3>2, <3>3
  <2> QED
    BY <2>1, <2>2 DEF IsLongestAt
<1>7. LongestMatch(TokensOf(vocab), cut, 0) = t
  <2> DEFINE T == TokensOf(vocab)
  <2>1. \E u \in T : IsLongestAt(T, cut, 0, u)
    BY <1>6 DEF IsLongestAt
  <2>2. IsLongestAt(T, cut, 0, LongestMatch(T, cut, 0))
    BY <2>1 DEF LongestMatch
  <2> QED
    BY <1>2, <1>5, <1>6, <2>2, LongestIsUnique
<1> QED
  BY <1>7 DEF cut, id

\* A stack holds the prefix tokens of a token, shortest first.
Stacked(ids, id) ==
    /\ ids \in Seq(Ids(vocab)) /\ {ids[n] : n \in DOMAIN ids} = PrefixTokens(id)
    /\ Ascending(ids)

\* The prefix tokens of a token are those of the one before it that it extends, and itself.
LEMMA NextPrefixTokens ==
    ASSUME vocab \in Vocabularies, NEW id \in Ids(vocab), id # 0
    PROVE  /\ \A p \in PrefixTokens(id - 1) :
                StartsAt(vocab[id + 1], 0, vocab[p + 1]) =>
                    p \in PrefixTokens(id) /\ Length(p) < Length(id)
           /\ \A p \in PrefixTokens(id) :
                p = id \/ (p \in PrefixTokens(id - 1) /\ StartsAt(vocab[id + 1], 0, vocab[p + 1]))
           /\ id \in PrefixTokens(id)
<1> DEFINE a == id
           b == id + 1
           s == vocab[a]
           t == vocab[b]
<1>1. /\ id \in Nat /\ id - 1 \in Ids(vocab) /\ id - 1 + 1 = a
      /\ a \in 1 .. Len(vocab) /\ b \in 1 .. Len(vocab) /\ a < b /\ Len(vocab) \in Nat
  BY IdsTyped
<1>2. Conforms(vocab) /\ s \in ByteSeq /\ t \in ByteSeq /\ LexLess(s, t)
  BY <1>1, IdsTyped, Ordered
<1>3. ASSUME NEW p \in PrefixTokens(id - 1), StartsAt(t, 0, vocab[p + 1])
      PROVE  p \in PrefixTokens(id) /\ Length(p) < Length(id)
  <2>1. p \in Ids(vocab) /\ StartsAt(s, 0, vocab[p + 1])
    BY <1>1 DEF PrefixTokens
  <2>2. p \in PrefixTokens(id)
    BY <1>3, <2>1 DEF PrefixTokens
  <2> DEFINE u == vocab[p + 1]
  <2>3. u \in ByteSeq /\ Len(u) = Length(p) /\ Len(t) = Length(id) /\ Length(p) \in Nat
        /\ Length(id) \in Nat /\ p + 1 \in 1 .. Len(vocab) /\ p \in Nat
    BY <1>1, <2>1, IdsTyped
  <2>4. p + 1 <= a
    BY <1>1, <1>2, <2>1, <2>3, Ordered
  <2>5. Len(u) # Len(t)
    <3>1. Len(t) = Len(u) => b = p + 1
      BY <1>1, <1>2, <1>3, <2>3, Ordered
    <3> QED
      BY <1>1, <2>3, <2>4, <3>1
  <2>6. Len(u) <= Len(t)
    BY <1>2, <1>3, <2>3, StartsAtZero
  <2> QED
    BY <2>2, <2>3, <2>5, <2>6
<1>4. ASSUME NEW p \in PrefixTokens(id), p # id
      PROVE  p \in PrefixTokens(id - 1) /\ StartsAt(t, 0, vocab[p + 1])
  <2>1. p \in Ids(vocab) /\ StartsAt(t, 0, vocab[p + 1])
    BY DEF PrefixTokens
  <2> DEFINE c == p + 1
             u == vocab[c]
  <2>2. u \in ByteSeq /\ c \in 1 .. Len(vocab) /\ p \in Nat
    BY <2>1, IdsTyped
  <2>3. c <= b
    BY <1>1, <1>2, <2>1, <2>2, Ordered
  <2>4. c <= a
    BY <1>1, <1>4, <2>2, <2>3
  <2>5. StartsAt(s, 0, u)
    <3>1. CASE c = a
      <4>1. u = s
        BY <3>1
      <4> QED
        BY <1>2, <4>1, StartsAtZero, BytesTyped
    <3>2. CASE c # a
      <4>1. c < a
        BY <1>1, <2>2, <2>4, <3>2
      <4>2. LexLess(u, s)
        BY <1>1, <1>2, <2>2, <4>1, Ordered
      <4> QED
        BY <1>2, <2>1, <2>2, <4>2, BetweenPrefixes
    <3> QED
      BY <3>1, <3>2
  <2>6. p \in PrefixTokens(id - 1)
    BY <1>1, <2>1, <2>5 DEF PrefixTokens
  <2> QED
    BY <2>1, <2>6
<1>5. id \in PrefixTokens(id)
  <2>1. StartsAt(t, 0, t)
    BY <1>2, StartsAtZero, BytesTyped
  <2> QED
    BY <2>1 DEF PrefixTokens
<1> QED
  BY <1>3, <1>4, <1>5

LEMMA PoppedIs ==
    ASSUME NEW token, chain \in Seq(Ids(vocab))
    PROVE  \E kept \in 0 .. Len(chain) :
            /\ Popped(token) = SubSeq(chain, 1, kept)
            /\ kept > 0 => StartsAt(token, 0, vocab[chain[kept] + 1])
            /\ \A m \in kept + 1 .. Len(chain) : ~StartsAt(token, 0, vocab[chain[m] + 1])
<1> DEFINE extended(n) == StartsAt(token, 0, vocab[chain[n] + 1])
           N == Len(chain)
           Top(n) == (n > 0 => extended(n)) /\ \A m \in n + 1 .. N : ~extended(m)
           kept == CHOOSE n \in 0 .. N : Top(n)
           S == {0} \cup {n \in 1 .. N : extended(n)}
<1>1. N \in Nat
  BY LenProperties
<1>2. PICK top \in S : \A n \in S : n <= top
  <2>1. S \in SUBSET Nat /\ S # {} /\ \A n \in S : n <= N
    BY <1>1
  <2> HIDE DEF S
  <2> QED
    BY <1>1, <2>1, LargestNatural
<1>3. top \in 0 .. N /\ Top(top)
  <2>1. top \in 0 .. N /\ (top > 0 => extended(top))
    BY <1>1
  <2>2. ASSUME NEW m \in top + 1 .. N, extended(m)
        PROVE  FALSE
    <3>1. m \in 1 .. N /\ m > top /\ m \in Nat /\ top \in Nat
      BY <1>1, <2>1
    <3>2. m \in S
      BY <2>2, <3>1
    <3> HIDE DEF S
    <3>3. m <= top
      BY <1>2, <3>2
    <3> QED
      BY <3>1, <3>3
  <2> QED
    BY <2>1, <2>2
<1>4. kept \in 0 .. N /\ Top(kept)
  <2> HIDE DEF Top, N
  <2> QED
    BY <1>3
<1>5. Popped(token) = SubSeq(chain, 1, kept)
  BY DEF Popped
<1> QED
  BY <1>4, <1>5

\* The while loop of from_dictionary and the push behind it: a prefix token of the next
\* token is never under one that it does not extend.
LEMMA PushKeepsStack ==
    ASSUME vocab \in Vocabularies, NEW id \in Ids(vocab),
           IF id = 0 THEN chain = <<>> ELSE Stacked(chain, id - 1)
    PROVE  Stacked(Append(Popped(vocab[id + 1]), id), id)
<1> DEFINE t == vocab[id + 1]
           N == Len(chain)
           extended(n) == StartsAt(t, 0, vocab[chain[n] + 1])
<1>1. chain \in Seq(Ids(vocab)) /\ N \in Nat /\ DOMAIN chain = 1 .. N
  <2>1. chain \in Seq(Ids(vocab))
    <3>1. CASE id = 0
      <4>1. chain = <<>> /\ <<>> \in Seq(Ids(vocab))
        BY <3>1
      <4> QED
        BY <4>1
    <3>2. CASE id # 0
      BY <3>2 DEF Stacked
    <3> QED
      BY <3>1, <3>2
  <2> QED
    BY <2>1, LenProperties
<1>2. PICK kept \in 0 .. N :
        /\ Popped(t) = SubSeq(chain, 1, kept)
        /\ kept > 0 => extended(kept)
        /\ \A m \in kept + 1 .. N : ~extended(m)
  BY <1>1, PoppedIs
<1> DEFINE left == SubSeq(chain, 1, kept)
           new == Append(left, id)
<1>3. /\ left \in Seq(Ids(vocab)) /\ Len(left) = kept /\ kept \in Nat /\ kept <= N
      /\ \A n \in 1 .. kept : left[n] = chain[n]
  BY <1>1
<1>4. /\ new \in Seq(Ids(vocab)) /\ Len(new) = kept + 1 /\ DOMAIN new = 1 .. kept + 1
      /\ \A n \in 1 .. kept : new[n] = chain[n]
      /\ new[kept + 1] = id
  <2> HIDE DEF left
  <2> QED
    BY <1>3
<1> HIDE DEF left, new
<1>5. \A n \in 1 .. N : chain[n] \in Ids(vocab) /\ Length(chain[n]) \in Nat
  <2>1. \A n \in 1 .. N : chain[n] \in Ids(vocab)
    BY <1>1, ElementOfSeq
  <2> QED
    BY <2>1, IdsTyped
<1>6. t \in ByteSeq /\ id \in Nat
  BY IdsTyped
<1>7. \A n \in 1 .. N : n <= kept <=> extended(n)
  <2> TAKE n \in 1 .. N
  <2>1. CASE ~(n <= kept)
    BY <1>2, <1>3, <2>1
  <2>2. CASE n = kept
    BY <1>2, <2>2
  <2>3. CASE n < kept
    <3> DEFINE s == vocab[id - 1 + 1]
               u == vocab[chain[kept] + 1]
               w == vocab[chain[n] + 1]
    <3>1. kept \in 1 .. N /\ extended(kept) /\ id # 0
      <4>1. N # 0
        BY <1>3, <2>3
      <4>2. id # 0
        BY <4>1
      <4> QED
        BY <1>2, <1>3, <2>3, <4>2
    <3>2. chain[n] \in PrefixTokens(id - 1) /\ chain[kept] \in PrefixTokens(id - 1)
      BY <1>1, <3>1 DEF Stacked
    <3>3. StartsAt(s, 0, w) /\ StartsAt(s, 0, u) /\ StartsAt(t, 0, u)
      BY <3>1, <3>2 DEF PrefixTokens
    <3>4. id - 1 \in Ids(vocab)
      BY <1>6, <3>1, IdsTyped
    <3>5. /\ s \in ByteSeq /\ u \in ByteSeq /\ w \in ByteSeq
          /\ Len(w) = Length(chain[n]) /\ Len(u) = Length(chain[kept])
          /\ Len(w) \in Nat /\ Len(u) \in Nat
      BY <1>5, <3>1, <3>4, IdsTyped
    <3>6. Len(w) < Len(u)
      BY <1>1, <2>3, <3>1, <3>5 DEF Stacked, Ascending
    <3> HIDE DEF s, u, w, t
    <3>7. /\ \A k \in 1 .. Len(w) : s[k] = w[k]
          /\ \A k \in 1 .. Len(u) : s[k] = u[k]
          /\ \A k \in 1 .. Len(u) : t[k] = u[k]
          /\ Len(u) <= Len(t)
      BY <1>6, <3>3, <3>5, StartsAtZero
    <3>8. \A k \in 1 .. Len(w) : t[k] = w[k]
      <4>1. \A k \in 1 .. Len(w) : k \in 1 .. Len(u)
        BY <3>5, <3>6
      <4> QED
        BY <3>7, <4>1
    <3>9. Len(w) <= Len(t)
      <4>1. Len(t) \in Nat
        BY <1>6, BytesTyped
      <4> QED
        BY <3>5, <3>6, <3>7, <4>1
    <3>10. StartsAt(t, 0, w)
      BY <1>6, <3>5, <3>8, <3>9, StartsAtZero
    <3> QED
      BY <2>3, <3>10 DEF w
  <2> QED
    BY <1>3, <2>1, <2>2, <2>3
<1>8. ASSUME NEW n \in 1 .. kept
      PROVE  chain[n] \in PrefixTokens(id) /\ Length(chain[n]) < Length(id)
  <2>1. n \in 1 .. N /\ id # 0 /\ extended(n)
    <3>1. n \in 1 .. N
      BY <1>3
    <3>2. N # 0
      BY <3>1
    <3> QED
      BY <1>7, <3>1, <3>2
  <2>2. chain[n] \in PrefixTokens(id - 1)
    BY <1>1, <2>1 DEF Stacked
  <2> QED
    BY <2>1, <2>2, NextPrefixTokens
<1>9. ASSUME NEW p \in PrefixTokens(id)
      PROVE  \E n \in DOMAIN new : new[n] = p
  <2>1. CASE p = id
    <3>1. kept + 1 \in DOMAIN new
      BY <1>3, <1>4
    <3> QED
      BY <1>4, <2>1, <3>1
  <2>2. CASE p # id
    <3>1. id # 0
      <4>1. SUFFICES ASSUME id = 0
                     PROVE  FALSE
        OBVIOUS
      <4>2. p \in Ids(vocab) /\ StartsAt(vocab[id + 1], 0, vocab[p + 1])
        BY DEF PrefixTokens
      <4>3. p + 1 <= id + 1
        BY <4>2, IdsTyped, Ordered
      <4> QED
        BY <2>2, <4>1, <4>2, <4>3, IdsTyped
    <3>2. p \in PrefixTokens(id - 1) /\ StartsAt(t, 0, vocab[p + 1])
      BY <2>2, <3>1, NextPrefixTokens
    <3>3. PICK n \in 1 .. N : chain[n] = p
      BY <1>1, <3>1, <3>2 DEF Stacked
    <3>4. n \in 1 .. kept
      BY <1>3, <1>7, <3>2, <3>3
    <3>5. n \in DOMAIN new
      BY <1>3, <1>4, <3>4
    <3> QED
      BY <1>4, <3>3, <3>4, <3>5
  <2> QED
    BY <2>1, <2>2
<1>10. {new[n] : n \in DOMAIN new} = PrefixTokens(id)
  <2>1. ASSUME NEW n \in DOMAIN new
        PROVE  new[n] \in PrefixTokens(id)
    <3>1. n \in 1 .. kept \/ n = kept + 1
      BY <1>3, <1>4
    <3>2. id \in PrefixTokens(id)
      <4>1. StartsAt(t, 0, t)
        BY <1>6, StartsAtZero, BytesTyped
      <4> QED
        BY <4>1 DEF PrefixTokens
    <3> QED
      BY <1>4, <1>8, <3>1, <3>2
  <2> QED
    BY <1>9, <2>1
<1>11. Ascending(new)
  <2>1. SUFFICES ASSUME NEW m \in DOMAIN new, NEW n \in DOMAIN new, m < n
                 PROVE  Length(new[m]) < Length(new[n])
    BY DEF Ascending
  <2>2. m \in 1 .. kept /\ new[m] = chain[m] /\ m \in 1 .. N
    BY <1>3, <1>4, <2>1
  <2>3. CASE n \in 1 .. kept
    <3>1. new[n] = chain[n] /\ n \in 1 .. N
      BY <1>3, <1>4, <2>3
    <3>2. id # 0
      <4>1. N # 0
        BY <2>2
      <4> QED
        BY <4>1
    <3> QED
      BY <1>1, <2>1, <2>2, <3>1, <3>2 DEF Stacked, Ascending
  <2>4. CASE n = kept + 1
    BY <1>4, <1>8, <2>2, <2>4
  <2> QED
    BY <1>3, <1>4, <2>3, <2>4
<1>12. Stacked(new, id)
  BY <1>4, <1>10, <1>11 DEF Stacked
<1> QED
  BY <1>2, <1>12 DEF new, left

\* Runs keeps the ids it is meant to keep, in their order.
LEMMA RunsKept ==
    ASSUME vocab \in Vocabularies, NEW ids \in Seq(Ids(vocab)), Ascending(ids)
    PROVE  /\ Runs(ids) \in Seq(Ids(vocab)) /\ Ascending(Runs(ids))
           /\ \A k \in DOMAIN Runs(ids) : \E m \in DOMAIN ids : IsRun(ids[m]) /\ Runs(ids)[k] = ids[m]
           /\ \A m \in DOMAIN ids : IsRun(ids[m]) => \E k \in DOMAIN Runs(ids) : Runs(ids)[k] = ids[m]
<1> DEFINE N == Len(ids)
           parts == [n \in 1 .. N |-> IF IsRun(ids[n]) THEN <<ids[n]>> ELSE <<>>]
           f == FlatTo(parts)
           Kept(n) ==
               /\ \A k \in 1 .. Len(f[n]) : \E m \in 1 .. n : IsRun(ids[m]) /\ f[n][k] = ids[m]
               /\ \A m \in 1 .. n : IsRun(ids[m]) => \E k \in 1 .. Len(f[n]) : f[n][k] = ids[m]
               /\ \A k, l \in 1 .. Len(f[n]) : k < l => Length(f[n][k]) < Length(f[n][l])
           Good == {n \in 0 .. N : Kept(n)}
<1>1. /\ N \in Nat /\ DOMAIN ids = 1 .. N
      /\ \A n \in 1 .. N : ids[n] \in Ids(vocab)
  BY LenProperties, ElementOfSeq
<1>2. /\ parts \in Seq(Seq(Ids(vocab))) /\ Len(parts) = N
      /\ \A n \in 1 .. N : parts[n] = IF IsRun(ids[n]) THEN <<ids[n]>> ELSE <<>>
  <2>1. \A n \in 1 .. N : (IF IsRun(ids[n]) THEN <<ids[n]>> ELSE <<>>) \in Seq(Ids(vocab))
    BY <1>1
  <2> QED
    BY <1>1, <2>1
<1> HIDE DEF parts
<1>3. /\ f[0] = <<>>
      /\ \A n \in 1 .. N : f[n] = f[n - 1] \o parts[n]
      /\ \A n \in 0 .. N : f[n] \in Seq(Ids(vocab)) /\ Len(f[n]) \in Nat
  <2>1. /\ f[0] = <<>>
        /\ \A n \in 1 .. N : f[n] = f[n - 1] \o parts[n]
        /\ \A n \in 0 .. N : f[n] \in Seq(Ids(vocab))
    BY <1>2, FlatToSteps
  <2> QED
    BY <2>1, LenProperties
<1> HIDE DEF f
<1>4. 0 \in Good
  BY <1>1, <1>3
<1>5. ASSUME NEW i \in 0 .. N - 1, i \in Good
      PROVE  i + 1 \in Good
  <2> DEFINE n == i + 1
             s == f[i]
             L == Len(s)
  <2>1. i \in Nat /\ n \in 1 .. N /\ n - 1 = i /\ n \in 0 .. N /\ n \in Nat /\ i \in 0 .. N
    BY <1>1
  <2>2. Kept(i) /\ s \in Seq(Ids(vocab)) /\ L \in Nat /\ ids[n] \in Ids(vocab)
    BY <1>1, <1>3, <1>5, <2>1
  <2> HIDE DEF n
  <2>3. CASE IsRun(ids[n])
    <3> DEFINE x == ids[n]
    <3>1. f[n] = s \o <<x>> /\ <<x>> \in Seq(Ids(vocab)) /\ Len(<<x>>) = 1
      <4>1. f[n] = f[n - 1] \o parts[n] /\ f[n - 1] = s
        BY <1>3, <2>1
      <4>2. parts[n] = <<x>>
        BY <1>2, <2>1, <2>3
      <4>3. <<x>> \in Seq(Ids(vocab)) /\ Len(<<x>>) = 1
        BY <2>2
      <4> QED
        BY <4>1, <4>2, <4>3
    <3> HIDE DEF x
    <3>2. /\ Len(f[n]) = L + 1 /\ f[n][L + 1] = x
          /\ \A k \in 1 .. L : f[n][k] = s[k]
      BY <2>2, <3>1
    <3>3. ASSUME NEW k \in 1 .. L
          PROVE  Length(s[k]) < Length(x)
      <4>1. PICK m \in 1 .. i : s[k] = ids[m]
        BY <2>2
      <4>2. m \in 1 .. N /\ m < n
        BY <1>1, <2>1 DEF n
      <4> QED
        BY <1>1, <2>1, <4>1, <4>2 DEF Ascending, x
    <3>4. ASSUME NEW k \in 1 .. Len(f[n])
          PROVE  \E m \in 1 .. n : IsRun(ids[m]) /\ f[n][k] = ids[m]
      <4>1. CASE k = L + 1
        <5>1. n \in 1 .. n
          BY <2>1
        <5> QED
          BY <2>3, <3>2, <4>1, <5>1 DEF x
      <4>2. CASE k # L + 1
        <5>1. k \in 1 .. L
          BY <2>2, <3>2, <4>2
        <5>2. PICK m \in 1 .. i : IsRun(ids[m]) /\ s[k] = ids[m]
          BY <2>2, <5>1
        <5>3. m \in 1 .. n
          BY <2>1 DEF n
        <5> QED
          BY <3>2, <5>1, <5>2, <5>3
      <4> QED
        BY <4>1, <4>2
    <3>5. ASSUME NEW m \in 1 .. n, IsRun(ids[m])
          PROVE  \E k \in 1 .. Len(f[n]) : f[n][k] = ids[m]
      <4>1. CASE m = n
        <5>1. L + 1 \in 1 .. Len(f[n])
          BY <2>2, <3>2
        <5> QED
          BY <3>2, <4>1, <5>1 DEF x
      <4>2. CASE m # n
        <5>1. m \in 1 .. i
          BY <2>1, <4>2 DEF n
        <5>2. PICK k \in 1 .. L : s[k] = ids[m]
          BY <2>2, <3>5, <5>1
        <5>3. k \in 1 .. Len(f[n])
          BY <2>2, <3>2
        <5> QED
          BY <3>2, <5>2, <5>3
      <4> QED
        BY <4>1, <4>2
    <3>6. ASSUME NEW k \in 1 .. Len(f[n]), NEW l \in 1 .. Len(f[n]), k < l
          PROVE  Length(f[n][k]) < Length(f[n][l])
      <4>1. k \in 1 .. L /\ f[n][k] = s[k]
        BY <2>2, <3>2, <3>6
      <4>2. CASE l = L + 1
        BY <3>2, <3>3, <4>1, <4>2
      <4>3. CASE l # L + 1
        <5>1. l \in 1 .. L /\ f[n][l] = s[l]
          BY <2>2, <3>2, <4>3
        <5> QED
          BY <2>2, <3>6, <4>1, <5>1
      <4> QED
        BY <4>2, <4>3
    <3>7. Kept(n)
      BY <3>4, <3>5, <3>6
    <3> QED
      BY <2>1, <3>7 DEF n
  <2>4. CASE ~IsRun(ids[n])
    <3>1. f[n] = s
      <4>1. f[n] = s \o <<>>
        BY <1>2, <1>3, <2>1, <2>4
      <4> QED
        BY <2>2, <4>1
    <3>2. \A m \in 1 .. n : m = n \/ m \in 1 .. i
      BY <2>1 DEF n
    <3>3. \A m \in 1 .. i : m \in 1 .. n
      BY <2>1 DEF n
    <3>4. Kept(n)
      BY <2>2, <2>4, <3>1, <3>2, <3>3
    <3> QED
      BY <2>1, <3>4 DEF n
  <2> QED
    BY <2>3, <2>4
<1>6. Kept(N)
  <2>1. \A n \in 0 .. N : n \in Good
    <3> HIDE DEF Good, N
    <3> QED
      BY <1>1, <1>4, <1>5, UpwardInduction
  <2>2. N \in 0 .. N
    BY <1>1
  <2> QED
    BY <2>1, <2>2
<1>7. Runs(ids) = f[N]
  <2>1. Runs(ids) = Flat(parts)
    BY DEF Runs, parts
  <2> QED
    BY <1>2, <2>1 DEF Flat, f
<1>8. f[N] \in Seq(Ids(vocab)) /\ DOMAIN f[N] = 1 .. Len(f[N])
  <2>1. N \in 0 .. N
    BY <1>1
  <2> QED
    BY <1>3, <2>1, LenProperties
<1> QED
  BY <1>1, <1>6, <1>7, <1>8 DEF Ascending

\* The comment of from_dictionary: "The last token starts with 0xFF, so the stack holds
\* all of them."
LEMMA PadStack ==
    ASSUME vocab \in Vocabularies, NEW ids, Stacked(ids, Len(vocab) - 1)
    PROVE  /\ Runs(ids) \in Seq(Ids(vocab)) /\ Ascending(Runs(ids))
           /\ {Runs(ids)[n] : n \in DOMAIN Runs(ids)} = PrefixIds(LargestKey)
<1> DEFINE last == Len(vocab) - 1
           t == vocab[last + 1]
           runs == Runs(ids)
<1>1. /\ Conforms(vocab) /\ Len(vocab) \in Nat /\ last + 1 = Len(vocab)
      /\ Len(vocab) \in 1 .. Len(vocab) /\ t \in ByteSeq /\ last \in Ids(vocab)
  <2>1. Len(vocab) \in Nat /\ 1 \in 1 .. Len(vocab) /\ Conforms(vocab)
    BY IdsTyped, FirstTokenIsZero
  <2>2. last + 1 = Len(vocab) /\ Len(vocab) \in 1 .. Len(vocab) /\ last \in Ids(vocab)
    BY <2>1 DEF Ids
  <2> QED
    BY <2>1, <2>2, Ordered
<1>2. /\ ids \in Seq(Ids(vocab)) /\ Ascending(ids)
      /\ {ids[n] : n \in DOMAIN ids} = PrefixTokens(last)
  BY DEF Stacked
<1>3. /\ runs \in Seq(Ids(vocab)) /\ Ascending(runs)
      /\ \A k \in DOMAIN runs : \E m \in DOMAIN ids : IsRun(ids[m]) /\ runs[k] = ids[m]
      /\ \A m \in DOMAIN ids : IsRun(ids[m]) => \E k \in DOMAIN runs : runs[k] = ids[m]
  BY <1>2, RunsKept
<1>4. \A p \in Ids(vocab) : p \in PrefixIds(LargestKey) <=> IsRun(p)
  <2> TAKE p \in Ids(vocab)
  <2> DEFINE u == vocab[p + 1]
             l == Length(p)
  <2>1. u \in ByteSeq /\ Len(u) = l /\ l \in 1 .. MaxTokenSize
    BY IdsTyped
  <2>2. LargestKey \in ByteSeq /\ Len(LargestKey) = MaxTokenSize
    BY LargestKeyIs, KeyTyped
  <2>3. StartsAt(LargestKey, 0, u) <=>
            Len(u) <= Len(LargestKey) /\ \A k \in 1 .. Len(u) : LargestKey[k] = u[k]
    BY <2>1, <2>2, StartsAtZero
  <2>4. l <= MaxTokenSize /\ \A k \in 1 .. l : k \in 1 .. MaxTokenSize /\ LargestKey[k] = NumBytes - 1
    BY <2>1, LargestKeyIs, SizeTyped
  <2>5. IsRun(p) <=> \A k \in 1 .. l : u[k] = NumBytes - 1
    BY DEF IsRun
  <2> HIDE DEF u, l
  <2>6. StartsAt(LargestKey, 0, u) <=> IsRun(p)
    BY <2>1, <2>2, <2>3, <2>4, <2>5
  <2> QED
    BY <2>6 DEF PrefixIds, u
<1>5. ASSUME NEW p \in Ids(vocab), IsRun(p)
      PROVE  p \in PrefixTokens(last)
  <2> DEFINE u == vocab[p + 1]
             c == p + 1
  <2>1. u \in ByteSeq /\ c \in 1 .. Len(vocab) /\ Len(u) = Length(p) /\ Length(p) \in Nat
    BY IdsTyped
  <2>2. \A k \in 1 .. Len(u) : u[k] = NumBytes - 1
    BY <1>5, <2>1 DEF IsRun
  <2>3. StartsAt(t, 0, u)
    <3>1. CASE c = Len(vocab)
      <4>1. t = u
        BY <1>1, <3>1
      <4> QED
        BY <1>1, <4>1, StartsAtZero, BytesTyped
    <3>2. CASE c # Len(vocab)
      <4>1. LexLess(u, t)
        <5>1. c < Len(vocab)
          BY <1>1, <2>1, <3>2
        <5> QED
          BY <1>1, <2>1, <5>1, Ordered
      <4> HIDE DEF u, t
      <4>2. PICK k \in 1 .. Len(t) :
              /\ k <= Len(u) + 1
              /\ \A j \in 1 .. k - 1 : u[j] = t[j]
              /\ k > Len(u) \/ u[k] < t[k]
        BY <4>1 DEF LexLess
      <4>3. k > Len(u)
        <5>1. SUFFICES ASSUME ~(k > Len(u))
                       PROVE  FALSE
          OBVIOUS
        <5>2. k \in 1 .. Len(u)
          BY <2>1, <5>1
        <5>3. u[k] < t[k] /\ u[k] = NumBytes - 1
          BY <2>2, <4>2, <5>1, <5>2
        <5>4. t[k] \in Int /\ t[k] <= NumBytes - 1
          BY <1>1, BytesTyped
        <5> QED
          BY <5>3, <5>4, SizeTyped
      <4>4. Len(t) \in Nat
        BY <1>1, BytesTyped
      <4>5. Len(u) <= Len(t) /\ \A j \in 1 .. Len(u) : t[j] = u[j]
        BY <2>1, <4>2, <4>3, <4>4
      <4> QED
        BY <1>1, <2>1, <4>5, StartsAtZero
    <3> QED
      BY <3>1, <3>2
  <2> QED
    BY <1>1, <2>3 DEF PrefixTokens
<1>6. ASSUME NEW k \in DOMAIN runs
      PROVE  runs[k] \in PrefixIds(LargestKey)
  <2>1. PICK m \in DOMAIN ids : IsRun(ids[m]) /\ runs[k] = ids[m]
    BY <1>3
  <2>2. ids[m] \in Ids(vocab)
    BY <1>2, <2>1, ElementOfSeq, LenProperties
  <2> QED
    BY <1>4, <2>1, <2>2
<1>7. ASSUME NEW p \in PrefixIds(LargestKey)
      PROVE  \E k \in DOMAIN runs : runs[k] = p
  <2>1. p \in Ids(vocab) /\ IsRun(p)
    BY <1>4 DEF PrefixIds
  <2>2. PICK m \in DOMAIN ids : ids[m] = p
    BY <1>2, <1>5, <2>1
  <2> QED
    BY <1>3, <2>1, <2>2
<1> HIDE DEF runs
<1>8. {runs[n] : n \in DOMAIN runs} = PrefixIds(LargestKey)
  BY <1>6, <1>7
<1> QED
  BY <1>3, <1>8 DEF runs

-----------------------------------------------------------------------------
(***************************************************************************)
(* The steps of from_dictionary.                                           *)
(***************************************************************************)

LEMMA BlocksTyped ==
    /\ BlockKeys \in Nat \ {0} /\ BlockKeys \div 2 \in Nat
    /\ \E e \in 0 .. BlockKeys : BlockKeys = TwoTo[e]
<1>1. PICK e \in 0 .. BlockKeys : BlockKeys = TwoTo[e]
  BY MatcherAssumption
<1>2. e \in Nat /\ BlockKeys \in Nat
  BY MatcherAssumption
<1>3. BlockKeys \in Nat \ {0}
  BY <1>1, <1>2, TwoToSteps
<1> QED
  BY <1>1, <1>3

LEMMA Padded ==
    ASSUME vocab \in Vocabularies
    PROVE  /\ PaddedLen \in Nat /\ Len(vocab) < PaddedLen /\ Len(vocab) \in Nat
           /\ Len(vocab) \div BlockKeys \in Nat
           /\ PaddedLen \div BlockKeys = Len(vocab) \div BlockKeys + 1
           /\ PaddedLen % BlockKeys = 0
<1> DEFINE n == Len(vocab)
           b == BlockKeys
           x == n \div b
           y == x + 1
<1>1. n \in Nat /\ b \in Nat \ {0}
  BY IdsTyped, BlocksTyped
<1>2. x \in Nat /\ x * b \in Nat /\ n < x * b + b
  BY <1>1, Division
<1>3. y \in Nat /\ PaddedLen = y * b
  BY <1>2 DEF PaddedLen
<1>4. y * b = x * b + b
  BY <1>1, <1>2
<1>5. (y * b) \div b = y /\ (y * b) % b = 0
  BY <1>1, <1>3, Division
<1> HIDE DEF x, n, b
<1>6. PaddedLen \in Nat /\ n < PaddedLen
  <2> DEFINE z == x * b
  <2>1. z \in Nat /\ n < z + b /\ PaddedLen = z + b
    BY <1>2, <1>3, <1>4
  <2> HIDE DEF z
  <2> QED
    BY <1>1, <2>1
<1>7. PaddedLen \div b = x + 1 /\ PaddedLen % b = 0
  BY <1>3, <1>5
<1> QED
  BY <1>1, <1>2, <1>6, <1>7 DEF x, n, b

\* starts[p] counts the tokens before the prefix p, and they are the first ones.
LEMMA StartsFound ==
    ASSUME vocab \in Vocabularies, Len(keys) = Len(vocab), keys \in Seq(Key),
           \A k \in 1 .. Len(keys) : keys[k] = KeyOf(vocab[k]), NEW p \in Nat
    PROVE  Start(p) \in 0 .. Len(vocab) /\ Below(p, Start(p))
<1> DEFINE n == Len(vocab)
           S == {k \in DOMAIN keys : PrefixOf(keys[k]) < p}
<1>1. n \in Nat /\ DOMAIN keys = 1 .. n /\ Conforms(vocab)
  BY IdsTyped, LenProperties
<1>2. \A k \in 1 .. n : k \in S <=> PrefixOf(KeyOf(vocab[k])) < p
  BY <1>1
<1>3. S \in SUBSET (1 .. n)
  BY <1>1
<1>4. ASSUME NEW k \in S, NEW j \in 1 .. k
      PROVE  j \in S
  <2>1. k \in 1 .. n /\ j \in 1 .. n /\ j <= k
    BY <1>1, <1>3
  <2> DEFINE a == KeyOf(vocab[j])
             c == KeyOf(vocab[k])
  <2>2. a \in Key /\ c \in Key /\ KeyLeq(a, c)
    BY <1>1, <2>1, Ordered
  <2> HIDE DEF a, c
  <2>3. PrefixOf(a) <= PrefixOf(c) /\ PrefixOf(a) \in Nat /\ PrefixOf(c) \in Nat
    BY <2>2, PrefixesAscend, PrefixTyped
  <2>4. PrefixOf(c) < p
    BY <1>2, <2>1 DEF c
  <2>5. PrefixOf(a) < p
    BY <2>3, <2>4
  <2> QED
    BY <1>2, <2>1, <2>5 DEF a
<1>5. Start(p) = Cardinality(S)
  BY DEF Start
<1> HIDE DEF S
<1>6. Cardinality(S) \in 0 .. n /\ \A k \in 1 .. n : k \in S <=> k <= Cardinality(S)
  BY <1>1, <1>3, <1>4, InitialSegment
<1> QED
  BY <1>2, <1>5, <1>6 DEF Below

\* What Own stands for.
LEMMA OwnTyped ==
    ASSUME vocab \in Vocabularies, NEW k \in Nat \ {0}
    PROVE  /\ Own(k) \in ByteSeq /\ Len(Own(k)) \in 1 .. MaxTokenSize /\ KeyOf(Own(k)) \in Key
           /\ k > Len(vocab) => Own(k) = LargestKey /\ KeyOf(Own(k)) = LargestKey
<1>1. CASE k <= Len(vocab)
  <2>1. k \in 1 .. Len(vocab) /\ Len(vocab) \in Nat
    BY <1>1, IdsTyped
  <2> QED
    BY <1>1, <2>1, IdsTyped, Ordered DEF Own
<1>2. CASE ~(k <= Len(vocab))
  <2>1. Own(k) = LargestKey
    BY <1>2 DEF Own
  <2>2. LargestKey \in ByteSeq /\ Len(LargestKey) = MaxTokenSize /\ MaxTokenSize \in 1 .. MaxTokenSize
    BY LargestKeyIs, KeyTyped, SizeTyped
  <2>3. KeyOf(LargestKey) = LargestKey
    <3>1. \A k1 \in 1 .. MaxTokenSize : k1 <= Len(LargestKey)
      BY <2>2
    <3>2. KeyOf(LargestKey) = [k1 \in 1 .. MaxTokenSize |-> LargestKey[k1]]
      BY <3>1 DEF KeyOf
    <3>3. LargestKey = [k1 \in 1 .. MaxTokenSize |-> LargestKey[k1]]
      BY LargestKeyIs DEF Key
    <3> QED
      BY <3>2, <3>3
  <2> QED
    BY <2>1, <2>2, <2>3, LargestKeyIs
<1> QED
  BY <1>1, <1>2, IdsTyped

LEMMA InitHolds == Init => IInv
<1> SUFFICES ASSUME Init
             PROVE  IInv
  OBVIOUS
<1>1. /\ vocab \in Vocabularies /\ mode = "build" /\ keys = <<>> /\ chains = <<>> /\ chain = <<>>
      /\ singles = [b \in Byte |-> 0] /\ inputs = <<>> /\ steps = 0 /\ half = 0 /\ found = <<>>
  BY DEF Init
<1>2. 0 \in Ids(vocab) /\ Len(vocab) \in Nat
  BY <1>1, IdsTyped, FirstTokenIsZero
<1>3. TypeOK
  <2>1. <<>> \in Seq(Key) /\ <<>> \in Seq(Record) /\ <<>> \in Seq(Ids(vocab))
    OBVIOUS
  <2>2. singles \in [Byte -> Ids(vocab)]
    BY <1>1, <1>2
  <2>3. half \in 0 .. BlockKeys \div 2
    BY <1>1, BlocksTyped
  <2> QED
    BY <1>1, <2>1, <2>2, <2>3 DEF TypeOK
<1>4. KeysInv /\ ChainsInv /\ SinglesInv /\ StackInv /\ StartsInv
  BY <1>1, <1>2 DEF KeysInv, ChainsInv, SinglesInv, StackInv, StartsInv
<1>5. SearchInv
  <2>1. inputs \in Seq(Call)
    <3>1. <<>> \in Seq(Call)
      OBVIOUS
    <3> QED
      BY <1>1, <3>1
  <2> QED
    BY <1>1, <2>1 DEF SearchInv
<1>6. SearchBrackets /\ FoundInv
  BY <1>1 DEF SearchBrackets, FoundInv
<1> QED
  BY <1>3, <1>4, <1>5, <1>6 DEF IInv

\* The stack before a token is added.
LEMMA StackBefore ==
    ASSUME IInv, mode = "build"
    PROVE  /\ keys = <<>> => chain = <<>>
           /\ keys # <<>> => Stacked(chain, Len(keys) - 1)
<1>1. keys = <<>> => chain = <<>>
  BY DEF IInv, StackInv
<1>2. keys # <<>> => Stacked(chain, Len(keys) - 1)
  <2>1. SUFFICES ASSUME keys # <<>>
                 PROVE  Stacked(chain, Len(keys) - 1)
    OBVIOUS
  <2>2. StackHoldsPrefixes
    BY <2>1 DEF IInv, StackInv
  <2>3. chain \in Seq(Ids(vocab))
    BY DEF IInv, TypeOK
  <2> QED
    BY <2>1, <2>2, <2>3 DEF StackHoldsPrefixes, Stacked, Ascending
<1> QED
  BY <1>1, <1>2

LEMMA AddTokenKeeps ==
    ASSUME IInv, AddToken
    PROVE  IInv'
<1> DEFINE n == Len(keys)
           token == vocab[n + 1]
           key == KeyOf(token)
           stack == Append(Popped(token), n)
           record == PrefixChain(stack)
<1>1. /\ vocab \in Vocabularies /\ keys \in Seq(Key) /\ chains \in Seq(Record)
      /\ Len(chains) = n /\ n \in Nat /\ Len(vocab) \in Nat
      /\ singles \in [Byte -> Ids(vocab)] /\ steps \in Nat /\ half \in 0 .. BlockKeys \div 2
  <2>1. /\ vocab \in Vocabularies /\ keys \in Seq(Key) /\ chains \in Seq(Record)
        /\ Len(chains) = n /\ singles \in [Byte -> Ids(vocab)]
        /\ steps \in Nat /\ half \in 0 .. BlockKeys \div 2
    BY DEF IInv, TypeOK
  <2> QED
    BY <2>1, IdsTyped, LenProperties
<1>2. /\ mode = "build" /\ n < Len(vocab)
      /\ keys' = Append(keys, key) /\ chain' = stack /\ chains' = Append(chains, PrefixChain(chain'))
      /\ singles' = IF Len(token) = 1 THEN [singles EXCEPT ![token[1]] = n] ELSE singles
      /\ vocab' = vocab /\ mode' = mode /\ firstBlocks' = firstBlocks
      /\ inputs' = inputs /\ base' = base /\ size' = size /\ steps' = steps
      /\ slot' = slot /\ half' = half /\ found' = found
  BY DEF AddToken, search
<1>3. /\ n \in Ids(vocab) /\ n + 1 \in 1 .. Len(vocab) /\ n + 1 \in Nat \ {0}
      /\ token \in ByteSeq /\ Len(token) \in 1 .. MaxTokenSize /\ key \in Key
  <2>1. n \in Ids(vocab) /\ n + 1 \in 1 .. Len(vocab) /\ n + 1 \in Nat \ {0}
    BY <1>1, <1>2 DEF Ids
  <2> QED
    BY <1>1, <2>1, IdsTyped, Ordered
<1>4. Stacked(stack, n)
  <2>1. IF n = 0 THEN chain = <<>> ELSE Stacked(chain, n - 1)
    <3>1. n = 0 => keys = <<>>
      BY <1>1
    <3>2. n # 0 => keys # <<>>
      BY <1>1
    <3> QED
      BY <1>2, <3>1, <3>2, StackBefore
  <2> QED
    BY <1>1, <1>3, <2>1, PushKeepsStack
<1>5. RecordFor(record, token) /\ record \in Record
  <2>1. stack \in Seq(Ids(vocab)) /\ {stack[k] : k \in DOMAIN stack} = PrefixIds(token) /\ Ascending(stack)
    BY <1>4 DEF Stacked, PrefixTokens, PrefixIds
  <2> HIDE DEF stack, token
  <2> QED
    BY <1>1, <1>3, <2>1, RecordOfStack
<1>6. /\ keys' \in Seq(Key) /\ Len(keys') = n + 1 /\ keys'[n + 1] = key
      /\ \A k \in 1 .. n : keys'[k] = keys[k]
  <2> HIDE DEF key
  <2> QED
    BY <1>1, <1>2, <1>3
<1>7. /\ chains' \in Seq(Record) /\ Len(chains') = n + 1 /\ chains'[n + 1] = record
      /\ \A k \in 1 .. n : chains'[k] = chains[k]
  <2> DEFINE m == n
  <2>1. chains' = Append(chains, record)
    BY <1>2
  <2> HIDE DEF record, m
  <2>2. /\ chains' \in Seq(Record) /\ Len(chains') = m + 1 /\ chains'[m + 1] = record
        /\ \A k \in 1 .. m : chains'[k] = chains[k]
    <3>1. Len(chains) = m
      BY <1>1 DEF m
    <3> QED
      BY <1>1, <1>5, <2>1, <3>1
  <2> QED
    BY <2>2 DEF m
<1>8. singles' \in [Byte -> Ids(vocab)]
  BY <1>1, <1>2, <1>3
<1> HIDE DEF token, key, stack, record
<1>9. TypeOK'
  <2>1. stack \in Seq(Ids(vocab))
    BY <1>4 DEF Stacked
  <2>2. Record' = Record
    BY <1>2 DEF Record, Ids
  <2> QED
    BY <1>1, <1>2, <1>6, <1>7, <1>8, <2>1, <2>2 DEF TypeOK, Ids
<1>10. \A k \in 1 .. n + 1 : k # n + 1 => k \in 1 .. n
  BY <1>1
<1>11. n + 1 <= Len(vocab) /\ \A k \in 1 .. n + 1 : k <= Len(vocab)
  BY <1>1, <1>2
<1>12. KeysInv'
  <2>1. \A k \in 1 .. n : keys[k] = KeyOf(Own(k))
    BY DEF IInv, KeysInv
  <2>2. \A k \in 1 .. n + 1 : keys'[k] = KeyOf(vocab[k])
    <3> TAKE k \in 1 .. n + 1
    <3>1. CASE k = n + 1
      BY <1>6, <3>1 DEF key, token
    <3>2. CASE k # n + 1
      <4>1. keys[k] = KeyOf(vocab[k])
        BY <1>10, <1>11, <2>1, <3>2 DEF Own
      <4> QED
        BY <1>6, <1>10, <3>2, <4>1
    <3> QED
      BY <3>1, <3>2
  <2> QED
    BY <1>2, <1>6, <1>11, <2>2 DEF KeysInv, Own
<1>13. ChainsInv'
  <2>1. \A k \in 1 .. n + 1 : RecordFor(chains'[k], vocab[k])
    <3> TAKE k \in 1 .. n + 1
    <3>1. CASE k = n + 1
      BY <1>5, <1>7, <3>1 DEF token
    <3>2. CASE k # n + 1
      <4>1. RecordFor(chains[k], Own(k))
        BY <1>1, <1>10, <3>2 DEF IInv, ChainsInv
      <4> QED
        BY <1>7, <1>10, <1>11, <3>2, <4>1 DEF Own
    <3> QED
      BY <3>1, <3>2
  <2>2. ASSUME NEW k \in 1 .. n + 1
        PROVE  RecordFor(chains[k], Own(k))'
    <3>1. RecordFor(chains'[k], vocab[k])
      BY <2>1
    <3>2. Own(k)' = vocab[k]
      BY <1>2, <1>11 DEF Own
    <3>3. (PrefixIds(Own(k)))' = PrefixIds(vocab[k])
      BY <1>2, <3>2 DEF PrefixIds, Ids
    <3>4. \A p : Length(p)' = Length(p)
      BY <1>2 DEF Length
    <3> QED
      BY <3>1, <3>3, <3>4 DEF RecordFor, Length
  <2> QED
    BY <1>6, <1>7, <2>2 DEF ChainsInv
<1>14. SinglesInv'
  <2>1. SUFFICES ASSUME NEW k \in 1 .. Len(vocab), k <= n + 1, Len(vocab[k]) = 1
                 PROVE  singles'[vocab[k][1]] = k - 1
    BY <1>2, <1>6 DEF SinglesInv
  <2> DEFINE u == vocab[k]
  <2>2. u \in ByteSeq /\ Len(u) = 1 /\ u[1] \in Byte /\ k \in Nat
    <3>1. u \in ByteSeq /\ k \in Nat
      BY <1>1, IdsTyped, Ordered
    <3>2. 1 \in 1 .. Len(u)
      BY <2>1
    <3> QED
      BY <2>1, <3>1, <3>2, BytesTyped
  <2>3. CASE k = n + 1
    <3>1. u = token /\ Len(token) = 1
      BY <2>1, <2>3 DEF token
    <3>2. singles' = [singles EXCEPT ![token[1]] = n]
      BY <1>2, <3>1 DEF token
    <3> HIDE DEF u
    <3>3. singles'[u[1]] = n
      BY <1>1, <2>2, <3>1, <3>2
    <3> QED
      BY <1>1, <2>3, <3>3 DEF u
  <2>4. CASE k # n + 1
    <3>1. k \in 1 .. n
      BY <1>1, <2>1, <2>2, <2>4
    <3>2. singles[u[1]] = k - 1
      BY <2>1, <3>1 DEF IInv, SinglesInv
    <3>3. ~(Len(token) = 1 /\ token[1] = u[1])
      <4>1. SUFFICES ASSUME Len(token) = 1, token[1] = u[1]
                     PROVE  FALSE
        OBVIOUS
      <4>2. token = u
        <5> HIDE DEF u
        <5>1. token \in Seq(Byte) /\ u \in Seq(Byte)
          BY <1>3, <2>2 DEF ByteSeq
        <5>2. \A j \in 1 .. 1 : token[j] = u[j]
          BY <4>1
        <5> QED
          BY <2>2, <4>1, <5>1, <5>2
      <4>3. n + 1 = k
        BY <1>1, <1>3, <4>2, IdsTyped, Ordered DEF token
      <4> QED
        BY <2>4, <4>3
    <3> HIDE DEF u
    <3>4. singles'[u[1]] = singles[u[1]]
      <4>1. CASE Len(token) = 1
        <5>1. singles' = [singles EXCEPT ![token[1]] = n] /\ token[1] # u[1]
          BY <1>2, <3>3, <4>1 DEF token
        <5> QED
          BY <1>1, <2>2, <5>1
      <4>2. CASE Len(token) # 1
        BY <1>2, <4>2 DEF token
      <4> QED
        BY <4>1, <4>2
    <3> QED
      BY <3>2, <3>4 DEF u
  <2> QED
    BY <2>3, <2>4
<1>15. StackInv'
  <2>1. keys' # <<>>
    BY <1>1, <1>6
  <2>2. Len(keys') - 1 = n
    BY <1>1, <1>6
  <2>3. {stack[k] : k \in DOMAIN stack} = PrefixTokens(n) /\ Ascending(stack)
    BY <1>4 DEF Stacked
  <2>4. {chain'[k] : k \in DOMAIN chain'} = (PrefixTokens(Len(keys) - 1))'
    BY <1>2, <2>2, <2>3 DEF PrefixTokens, Ids, stack, token
  <2>5. \A j, k \in DOMAIN chain' : j < k => Length(chain[j])' < Length(chain[k])'
    BY <1>2, <2>3 DEF Ascending, Length, stack, token
  <2>6. StackHoldsPrefixes'
    BY <2>4, <2>5 DEF StackHoldsPrefixes
  <2> QED
    BY <2>1, <2>6 DEF StackInv
<1>16. StartsInv'
  BY <1>2 DEF StartsInv
<1>17. SearchInv' /\ SearchBrackets' /\ FoundInv'
  <2>1. SearchInv /\ inputs = <<>> /\ found = <<>>
    BY <1>2 DEF IInv, SearchInv, FoundInv
  <2>2. SearchInv'
    BY <1>2, <2>1 DEF SearchInv
  <2>3. SearchBrackets' /\ FoundInv'
    BY <1>2, <2>1 DEF SearchBrackets, FoundInv
  <2> QED
    BY <2>2, <2>3
<1> QED
  BY <1>9, <1>12, <1>13, <1>14, <1>15, <1>16, <1>17 DEF IInv

LEMMA FinishBuildKeeps ==
    ASSUME IInv, FinishBuild
    PROVE  IInv'
<1> DEFINE n == Len(vocab)
           b == BlockKeys
           m == PaddedLen
           more == m - n
           kept == Runs(chain)
           pad == PrefixChain(kept)
           padKeys == [k \in 1 .. more |-> LargestKey]
           padChains == [k \in 1 .. more |-> pad]
<1>1. /\ vocab \in Vocabularies /\ keys \in Seq(Key) /\ chains \in Seq(Record)
      /\ Len(chains) = Len(keys)
      /\ singles \in [Byte -> Ids(vocab)] /\ steps \in Nat /\ half \in 0 .. BlockKeys \div 2
  BY DEF IInv, TypeOK
<1>2. /\ mode = "build" /\ Len(keys) = n /\ firstBlocks' = [p \in 0 .. NumPrefixes |-> FirstBlock(p)]
      /\ keys' = keys \o padKeys /\ chain' = kept /\ chains' = chains \o padChains
      /\ mode' = "ready" /\ vocab' = vocab /\ singles' = singles
      /\ inputs' = inputs /\ base' = base /\ size' = size /\ steps' = steps
      /\ slot' = slot /\ half' = half /\ found' = found
  BY DEF FinishBuild, ChainPads, search
<1>3. n \in Nat /\ m \in Nat /\ n < m /\ more \in Nat /\ n + more = m /\ b \in Nat \ {0}
  BY <1>1, Padded, BlocksTyped
<1>4. Conforms(vocab) /\ 1 \in 1 .. n /\ n # 0
  BY <1>1, IdsTyped, FirstTokenIsZero
<1>5. Stacked(chain, n - 1)
  <2>1. keys # <<>>
    BY <1>2, <1>4
  <2> QED
    BY <1>2, <2>1, StackBefore
<1>6. /\ kept \in Seq(Ids(vocab)) /\ Ascending(kept)
      /\ {kept[k] : k \in DOMAIN kept} = PrefixIds(LargestKey)
  BY <1>1, <1>5, PadStack
<1>7. RecordFor(pad, LargestKey) /\ pad \in Record
  <2>1. LargestKey \in ByteSeq /\ Len(LargestKey) \in 1 .. MaxTokenSize
    BY LargestKeyIs, KeyTyped, SizeTyped
  <2> HIDE DEF kept
  <2> QED
    BY <1>1, <1>6, <2>1, RecordOfStack
<1> HIDE DEF n, m, more, kept, pad
<1>8. /\ keys' \in Seq(Key) /\ Len(keys') = m
      /\ \A k \in 1 .. n : keys'[k] = keys[k]
      /\ \A k \in 1 .. m : k > n => keys'[k] = LargestKey
  <2>1. /\ padKeys \in Seq(Key) /\ Len(padKeys) = more
        /\ \A k \in 1 .. more : padKeys[k] = LargestKey
    BY <1>3, LargestKeyIs
  <2> HIDE DEF padKeys
  <2>2. /\ keys \o padKeys \in Seq(Key) /\ Len(keys \o padKeys) = n + more
        /\ \A k \in 1 .. n + more :
              (keys \o padKeys)[k] = IF k <= n THEN keys[k] ELSE padKeys[k - n]
    <3>1. /\ keys \in Seq(Key) /\ Len(keys) = n /\ n \in Nat /\ more \in Nat
          /\ padKeys \in Seq(Key) /\ Len(padKeys) = more
      BY <1>1, <1>2, <1>3, <2>1
    <3> QED
      BY <3>1
  <2>3. \A k \in 1 .. m : k > n => k - n \in 1 .. more /\ ~(k <= n)
    BY <1>3
  <2>4. \A k \in 1 .. n : k \in 1 .. n + more /\ k <= n
    BY <1>3
  <2> DEFINE both == keys \o padKeys
  <2> HIDE DEF both
  <2>5. /\ both \in Seq(Key) /\ Len(both) = m
        /\ \A k \in 1 .. n : both[k] = keys[k]
        /\ \A k \in 1 .. m : k > n => both[k] = LargestKey
    BY <1>3, <2>1, <2>2, <2>3, <2>4 DEF both
  <2> QED
    BY <1>2, <2>5 DEF both
<1>9. /\ chains' \in Seq(Record) /\ Len(chains') = m
      /\ \A k \in 1 .. n : chains'[k] = chains[k]
      /\ \A k \in 1 .. m : k > n => chains'[k] = pad
  <2>1. /\ padChains \in Seq(Record) /\ Len(padChains) = more
        /\ \A k \in 1 .. more : padChains[k] = pad
    BY <1>3, <1>7
  <2> HIDE DEF padChains
  <2>2. /\ chains \o padChains \in Seq(Record) /\ Len(chains \o padChains) = n + more
        /\ \A k \in 1 .. n + more :
              (chains \o padChains)[k] = IF k <= n THEN chains[k] ELSE padChains[k - n]
    <3>1. /\ chains \in Seq(Record) /\ Len(chains) = n /\ n \in Nat /\ more \in Nat
          /\ padChains \in Seq(Record) /\ Len(padChains) = more
      BY <1>1, <1>2, <1>3, <2>1
    <3> QED
      BY <3>1
  <2>3. \A k \in 1 .. m : k > n => k - n \in 1 .. more /\ ~(k <= n)
    BY <1>3
  <2>4. \A k \in 1 .. n : k \in 1 .. n + more /\ k <= n
    BY <1>3
  <2> DEFINE both == chains \o padChains
  <2> HIDE DEF both
  <2>5. /\ both \in Seq(Record) /\ Len(both) = m
        /\ \A k \in 1 .. n : both[k] = chains[k]
        /\ \A k \in 1 .. m : k > n => both[k] = pad
    BY <1>3, <2>1, <2>2, <2>3, <2>4 DEF both
  <2> QED
    BY <1>2, <2>5 DEF both
<1> HIDE DEF padKeys, padChains
<1>10. \A k \in 1 .. n : keys[k] = KeyOf(vocab[k]) /\ RecordFor(chains[k], vocab[k])
  <2> TAKE k \in 1 .. n
  <2>1. keys[k] = KeyOf(Own(k)) /\ RecordFor(chains[k], Own(k))
    BY <1>1, <1>2 DEF IInv, KeysInv, ChainsInv
  <2>2. Own(k) = vocab[k]
    BY <1>3 DEF Own, n
  <2> QED
    BY <2>1, <2>2
<1>11. \A k \in 1 .. m : k <= n => k \in 1 .. n
  BY <1>3
<1>12. ASSUME NEW k \in 1 .. m
       PROVE  /\ Own(k)' = Own(k) /\ k \in Nat \ {0}
              /\ k <= n => Own(k) = vocab[k]
              /\ ~(k <= n) => Own(k) = LargestKey
  BY <1>2 DEF Own, n
<1>13. KeysInv'
  <2>1. PaddedLen' = m
    BY <1>2 DEF PaddedLen, m
  <2>2. \A k \in 1 .. m : keys'[k] = KeyOf(Own(k)')
    <3> TAKE k \in 1 .. m
    <3>1. CASE k <= n
      BY <1>8, <1>10, <1>11, <1>12, <3>1
    <3>2. CASE ~(k <= n)
      <4>1. keys'[k] = LargestKey
        BY <1>3, <1>8, <3>2
      <4>2. KeyOf(Own(k)) = LargestKey
        BY <1>1, <1>3, <1>12, <3>2, OwnTyped DEF n
      <4> QED
        BY <1>12, <4>1, <4>2
    <3> QED
      BY <3>1, <3>2
  <2>3. \A k \in 1 .. m : (KeyOf(Own(k)))' = KeyOf(Own(k)')
    BY DEF KeyOf
  <2> QED
    BY <1>2, <1>8, <2>1, <2>2, <2>3 DEF KeysInv
<1>14. ChainsInv'
  <2>1. ASSUME NEW k \in 1 .. m
        PROVE  RecordFor(chains'[k], Own(k))
    <3>1. CASE k <= n
      BY <1>9, <1>10, <1>11, <1>12, <3>1
    <3>2. CASE ~(k <= n)
      BY <1>3, <1>7, <1>9, <1>12, <3>2
    <3> QED
      BY <3>1, <3>2
  <2>2. ASSUME NEW k \in 1 .. m
        PROVE  RecordFor(chains[k], Own(k))'
    <3>1. RecordFor(chains'[k], Own(k))
      BY <2>1
    <3>2. (PrefixIds(Own(k)))' = PrefixIds(Own(k))
      BY <1>2, <1>12 DEF PrefixIds, Ids
    <3>3. \A p : Length(p)' = Length(p)
      BY <1>2 DEF Length
    <3> QED
      BY <3>1, <3>2, <3>3 DEF RecordFor, Length
  <2> QED
    BY <1>8, <1>9, <2>2 DEF ChainsInv
<1>15. SinglesInv'
  <2>1. \A k \in 1 .. Len(vocab) : k <= Len(keys)
    BY <1>2, <1>3 DEF n
  <2>2. \A k \in 1 .. Len(vocab) : Len(vocab[k]) = 1 => singles[vocab[k][1]] = k - 1
    BY <2>1 DEF IInv, SinglesInv
  <2> QED
    BY <1>2, <2>2 DEF SinglesInv
<1>16. ASSUME NEW p \in 0 .. NumPrefixes
       PROVE  /\ FirstBlock(p) \in 0 .. n \div b
              /\ \E s \in 0 .. n :
                    Below(p, s) /\ FirstBlock(p) = (IF s = 0 THEN 0 ELSE s - 1) \div b
  <2> DEFINE s == Start(p)
             before == IF s = 0 THEN 0 ELSE s - 1
  <2>1. s \in 0 .. n /\ Below(p, s)
    <3>1. p \in Nat
      OBVIOUS
    <3> QED
      BY <1>1, <1>2, <1>10, <3>1, StartsFound DEF n
  <2>2. FirstBlock(p) = before \div b
    BY DEF FirstBlock
  <2> HIDE DEF s
  <2>3. before \in Nat /\ before <= n
    BY <1>3, <2>1
  <2> HIDE DEF before
  <2>4. before \div b \in Nat /\ before \div b <= n \div b /\ n \div b \in Nat
    BY <1>3, <2>3, Division, DivisionGrows
  <2> HIDE DEF b
  <2>5. FirstBlock(p) \in 0 .. n \div b
    BY <2>2, <2>4
  <2> QED
    BY <2>1, <2>2, <2>5 DEF before
<1>17. /\ Len(keys') \div b = n \div b + 1 /\ Len(keys') % b = 0 /\ n \div b \in Nat
  BY <1>1, <1>8, Padded DEF m, n
<1>18. Blocks' = 0 .. n \div b
  <2>1. Blocks' = 0 .. Len(keys') \div b - 1
    BY DEF Blocks
  <2>2. n \div b + 1 - 1 = n \div b
    BY <1>17
  <2> QED
    BY <1>17, <2>1, <2>2
<1>19. StartsInv'
  <2>1. firstBlocks' \in [0 .. NumPrefixes -> 0 .. n \div b]
    BY <1>2, <1>16
  <2>2. ASSUME NEW p \in 0 .. NumPrefixes
        PROVE  \E s \in 0 .. Len(vocab') :
                  Below(p, s)' /\ firstBlocks'[p] = (IF s = 0 THEN 0 ELSE s - 1) \div BlockKeys
    <3>1. firstBlocks'[p] = FirstBlock(p)
      BY <1>2
    <3>2. PICK s \in 0 .. n : Below(p, s) /\ FirstBlock(p) = (IF s = 0 THEN 0 ELSE s - 1) \div b
      BY <1>16
    <3>3. Below(p, s)'
      BY <1>2, <3>2 DEF Below
    <3> QED
      BY <1>2, <3>1, <3>2, <3>3 DEF n
  <2> QED
    BY <1>18, <2>1, <2>2 DEF StartsInv
<1>20. TypeOK'
  <2>1. Record' = Record /\ Ids(vocab)' = Ids(vocab)
    BY <1>2 DEF Record, Ids
  <2>2. firstBlocks' \in [0 .. NumPrefixes -> Blocks']
    BY <1>2, <1>19 DEF StartsInv
  <2> QED
    BY <1>1, <1>2, <1>6, <1>8, <1>9, <1>17, <2>1, <2>2 DEF TypeOK
<1>21. StackInv' /\ SearchInv' /\ SearchBrackets' /\ FoundInv'
  <2>1. SearchInv /\ inputs = <<>> /\ found = <<>>
    BY <1>2 DEF IInv, SearchInv, FoundInv
  <2>2. SearchInv'
    BY <1>2, <2>1 DEF SearchInv
  <2>3. StackInv' /\ SearchBrackets' /\ FoundInv'
    BY <1>2, <2>1 DEF StackInv, SearchBrackets, FoundInv
  <2> QED
    BY <2>2, <2>3
<1> QED
  BY <1>13, <1>14, <1>15, <1>19, <1>20, <1>21 DEF IInv

-----------------------------------------------------------------------------
(***************************************************************************)
(* The two searches of find_all.                                           *)
(***************************************************************************)

\* The keys of a finished matcher ascend, the pads at their end.
LEMMA KeysAscend ==
    ASSUME IInv, mode # "build"
    PROVE  /\ vocab \in Vocabularies /\ Len(vocab) \in Nat /\ Len(keys) \in Nat
           /\ Len(vocab) < Len(keys) /\ Len(keys) = (Len(vocab) \div BlockKeys + 1) * BlockKeys
           /\ \A k \in 1 .. Len(keys) : keys[k] \in Key
           /\ \A k \in 1 .. Len(vocab) : k \in 1 .. Len(keys) /\ keys[k] = KeyOf(vocab[k])
           /\ \A j, k \in 1 .. Len(keys) : j <= k => KeyLeq(keys[j], keys[k])
<1> DEFINE n == Len(vocab)
           m == Len(keys)
<1>1. /\ vocab \in Vocabularies /\ m = PaddedLen /\ keys \in Seq(Key)
      /\ \A k \in 1 .. m : keys[k] = KeyOf(Own(k))
  BY DEF IInv, TypeOK, KeysInv
<1>2. n \in Nat /\ m \in Nat /\ n < m /\ Conforms(vocab)
  BY <1>1, Padded, IdsTyped
<1>3. m = (n \div BlockKeys + 1) * BlockKeys
  BY <1>1 DEF PaddedLen
<1>4. \A k \in 1 .. m : keys[k] \in Key
  BY <1>1, ElementOfSeq
<1> HIDE DEF n, m
<1>5. \A k \in 1 .. n : k \in 1 .. m /\ keys[k] = KeyOf(vocab[k])
  <2> TAKE k \in 1 .. n
  <2>1. k \in 1 .. m /\ k <= n
    BY <1>2
  <2>2. Own(k) = vocab[k]
    BY <2>1 DEF Own, n
  <2> QED
    BY <1>1, <2>1, <2>2
<1>6. ASSUME NEW j \in 1 .. m, NEW k \in 1 .. m, j <= k
      PROVE  KeyLeq(keys[j], keys[k])
  <2>1. CASE k <= n
    <3>1. j \in 1 .. n /\ k \in 1 .. n
      BY <1>2, <1>6, <2>1
    <3>2. KeyLeq(KeyOf(vocab[j]), KeyOf(vocab[k]))
      BY <1>2, <1>6, <3>1, Ordered DEF n
    <3> QED
      BY <1>5, <3>1, <3>2
  <2>2. CASE ~(k <= n)
    <3>1. k > n /\ k \in Nat \ {0}
      BY <1>2, <2>2
    <3>2. keys[k] = LargestKey
      BY <1>1, <3>1, OwnTyped DEF n
    <3> QED
      BY <1>4, <3>2, LargestKeyIs
  <2> QED
    BY <2>1, <2>2
<1> QED
  BY <1>1, <1>2, <1>3, <1>4, <1>5, <1>6 DEF n, m

LEMMA InputTyped ==
    ASSUME inputs \in Seq(Call), NEW j \in DOMAIN inputs
    PROVE  /\ inputs[j].data \in ByteSeq /\ inputs[j].win \in 1 .. MaxTokenSize
           /\ InputKey(j) \in Key
<1>1. inputs[j] \in Call
  BY ElementOfSeq, LenProperties
<1>2. inputs[j].data \in ByteSeq /\ inputs[j].win \in 1 .. MaxTokenSize
  BY <1>1 DEF Call
<1> QED
  BY <1>2, KeyOfTyped DEF InputKey

\* The table on the first two bytes: the range it gives holds the key that is searched.
LEMMA FirstBracket ==
    ASSUME IInv, mode = "ready", NEW x \in Key
    PROVE  LET p == PrefixOf(x)
               first == firstBlocks[p]
               next == firstBlocks[p + 1]
           IN  /\ first \in Nat /\ next \in Nat /\ first <= next
               /\ next <= Len(vocab) \div BlockKeys
               /\ (next + 1) * BlockKeys <= Len(keys)
               /\ KeyLeq(keys[first * BlockKeys + 1], x)
               /\ \A k \in (next + 1) * BlockKeys + 1 .. Len(vocab) : ~KeyLeq(keys[k], x)
<1> DEFINE n == Len(vocab)
           b == BlockKeys
           p == PrefixOf(x)
           p1 == p + 1
           first == firstBlocks[p]
           next == firstBlocks[p1]
<1>1. p \in Nat /\ p \in 0 .. NumPrefixes /\ p1 \in 0 .. NumPrefixes /\ p < p1
  <2>1. p \in Nat /\ p < NumPrefixes
    BY PrefixTyped
  <2>2. NumPrefixes \in Nat
    BY SizeTyped DEF NumPrefixes
  <2> HIDE DEF p
  <2> QED
    BY <2>1, <2>2
<1>2. /\ vocab \in Vocabularies /\ n \in Nat /\ Len(keys) \in Nat /\ n < Len(keys)
      /\ Len(keys) = (n \div b + 1) * b
      /\ \A k \in 1 .. n : k \in 1 .. Len(keys) /\ keys[k] = KeyOf(vocab[k]) /\ keys[k] \in Key
      /\ b \in Nat \ {0}
  BY KeysAscend, BlocksTyped
<1>3. PICK s \in 0 .. n : Below(p, s) /\ first = (IF s = 0 THEN 0 ELSE s - 1) \div b
  BY <1>1 DEF IInv, StartsInv
<1>4. PICK t \in 0 .. n : Below(p1, t) /\ next = (IF t = 0 THEN 0 ELSE t - 1) \div b
  BY <1>1 DEF IInv, StartsInv
<1> HIDE DEF p1, first, next, p
<1>5. \A k \in 1 .. n : /\ k <= s <=> PrefixOf(keys[k]) < p
                        /\ k <= t <=> PrefixOf(keys[k]) < p1
                        /\ PrefixOf(keys[k]) \in Nat
  BY <1>2, <1>3, <1>4, PrefixTyped DEF Below
<1>6. s \in Nat /\ t \in Nat /\ s <= n /\ t <= n /\ p1 \in Nat
  BY <1>1, <1>2
<1>7. s <= t
  <2>1. SUFFICES ASSUME s > t
                 PROVE  FALSE
    BY <1>6
  <2>2. s \in 1 .. n
    BY <1>6, <2>1
  <2>3. PrefixOf(keys[s]) < p /\ PrefixOf(keys[s]) \in Nat
    BY <1>5, <1>6, <2>2
  <2>4. PrefixOf(keys[s]) < p1
    BY <1>1, <1>6, <2>3
  <2> QED
    BY <1>5, <2>1, <2>2, <2>4, <1>6
<1> DEFINE u == IF s = 0 THEN 0 ELSE s - 1
           v == IF t = 0 THEN 0 ELSE t - 1
<1>8. u \in Nat /\ v \in Nat /\ u <= v /\ v <= n /\ (s > 0 => u < s) /\ (t > 0 => v + 1 = t)
  BY <1>2, <1>6, <1>7
<1>9. first = u \div b /\ next = v \div b
  BY <1>3, <1>4
<1> HIDE DEF u, v
<1>10. /\ first \in Nat /\ next \in Nat /\ first <= next /\ next <= n \div b
       /\ first * b <= u /\ first * b \in Nat
       /\ v < next * b + b /\ next * b \in Nat
       /\ n \div b \in Nat
  BY <1>2, <1>8, <1>9, Division, DivisionGrows
<1>11. (next + 1) * b = next * b + b
  BY <1>2, <1>10
<1>12. (next + 1) * b <= Len(keys)
  <2>1. next + 1 = n \div b + 1 \/ next + 1 < n \div b + 1
    BY <1>10
  <2>2. next + 1 < n \div b + 1 => (next + 1) * b + b <= (n \div b + 1) * b
    <3> DEFINE y == n \div b + 1
               z == next + 1
    <3>1. y \in Nat /\ z \in Nat /\ b \in Nat
      BY <1>2, <1>10
    <3> HIDE DEF y, z
    <3>2. z < y => z * b + b <= y * b
      BY <3>1, ProductGrows
    <3> QED
      BY <3>2 DEF y, z
  <2> DEFINE full == (n \div b + 1) * b
             part == (next + 1) * b
  <2>3. part \in Nat
    BY <1>2, <1>10, <1>11
  <2>4. part = full \/ part + b <= full
    BY <2>1, <2>2
  <2> HIDE DEF full, part
  <2>5. full = Len(keys)
    BY <1>2 DEF full
  <2>6. part <= Len(keys)
    BY <1>2, <2>3, <2>4, <2>5
  <2> QED
    BY <2>6 DEF part
<1>13. KeyLeq(keys[first * b + 1], x)
  <2>1. CASE s = 0
    <3>1. first * b + 1 = 1
      <4>1. u = 0
        BY <2>1 DEF u
      <4> DEFINE y == first * b
      <4> HIDE DEF y
      <4>2. y = 0
        BY <1>10, <4>1 DEF y
      <4> QED
        BY <4>2 DEF y
    <3>2. 1 \in 1 .. n /\ KeyLeq(KeyOf(vocab[1]), x)
      BY <1>2, IdsTyped, FirstTokenIsZero
    <3>3. keys[1] = KeyOf(vocab[1])
      BY <1>2, <3>2
    <3> QED
      BY <3>1, <3>2, <3>3
  <2>2. CASE s # 0
    <3> DEFINE y == first * b
               at == y + 1
    <3>1. y \in Nat /\ y <= u
      BY <1>10
    <3> HIDE DEF y
    <3>2. at \in 1 .. n /\ at <= s
      BY <1>2, <1>6, <1>8, <2>2, <3>1
    <3> HIDE DEF at
    <3>3. PrefixOf(keys[at]) < p /\ keys[at] \in Key /\ PrefixOf(keys[at]) \in Nat
      BY <1>2, <1>5, <3>2
    <3>4. KeyLeq(keys[at], x)
      <4>1. SUFFICES ASSUME ~KeyLeq(keys[at], x)
                     PROVE  FALSE
        OBVIOUS
      <4>2. KeyLeq(x, keys[at])
        BY <3>3, <4>1, KeyLeqTotal
      <4>3. p <= PrefixOf(keys[at])
        BY <3>3, <4>2, PrefixesAscend DEF p
      <4> QED
        BY <1>1, <3>3, <4>3
    <3> QED
      BY <3>4 DEF at, y
  <2> QED
    BY <2>1, <2>2
<1>14. ASSUME NEW k \in (next + 1) * b + 1 .. n
       PROVE  ~KeyLeq(keys[k], x)
  <2> DEFINE y == next * b
  <2>1. k \in y + b + 1 .. n /\ y \in Nat /\ v < y + b
    BY <1>10, <1>11
  <2> HIDE DEF y
  <2>2. k \in 1 .. n /\ ~(k <= t)
    <3>1. k \in Nat /\ k >= y + b + 1 /\ k <= n
      BY <1>2, <2>1
    <3>2. t = 0 \/ t = v + 1
      BY <1>6, <1>8
    <3> QED
      BY <1>2, <1>6, <1>8, <2>1, <3>1, <3>2
  <2>3. ~(PrefixOf(keys[k]) < p1) /\ keys[k] \in Key /\ PrefixOf(keys[k]) \in Nat
    BY <1>2, <1>5, <2>2
  <2>4. ASSUME KeyLeq(keys[k], x)
        PROVE  FALSE
    <3>1. PrefixOf(keys[k]) <= p
      BY <2>3, <2>4, PrefixesAscend DEF p
    <3> QED
      BY <1>1, <1>6, <2>3, <3>1
  <2> QED
    BY <2>4
<1> QED
  BY <1>10, <1>12, <1>13, <1>14 DEF p, p1, first, next

\* That many steps halve a range of this many blocks down to one.
LEMMA StepsFound ==
    ASSUME NEW n \in Nat
    PROVE  StepsFor(n) \in Nat /\ n <= TwoTo[StepsFor(n)]
<1> DEFINE Enough == {e \in Nat : TwoTo[e] >= n}
<1>1. Enough \in SUBSET Nat /\ n \in Enough
  BY TwoToSteps
<1>2. PICK e \in Enough : \A k \in Enough : e <= k
  <2> HIDE DEF Enough
  <2> QED
    BY <1>1, LeastNatural
<1>3. e \in 0 .. n /\ TwoTo[e] >= n
  <2>1. e <= n
    <3> HIDE DEF Enough
    <3> QED
      BY <1>1, <1>2
  <2> QED
    BY <2>1
<1>4. e > 0 => TwoTo[e - 1] < n
  <2>1. SUFFICES ASSUME e > 0
                 PROVE  TwoTo[e - 1] < n
    OBVIOUS
  <2> DEFINE d == e - 1
  <2>2. d \in Nat /\ d < e
    BY <1>3, <2>1
  <2>3. d \notin Enough
    <3> HIDE DEF Enough
    <3> QED
      BY <1>1, <1>2, <2>2
  <2> HIDE DEF d
  <2>4. TwoTo[d] \in Nat /\ ~(TwoTo[d] >= n)
    BY <2>2, <2>3, TwoToSteps
  <2>5. TwoTo[d] < n
    BY <2>4
  <2> QED
    BY <2>5 DEF d
<1>5. \E k \in 0 .. n : TwoTo[k] >= n /\ (k > 0 => TwoTo[k - 1] < n)
  BY <1>3, <1>4
<1>6. StepsFor(n) \in 0 .. n /\ TwoTo[StepsFor(n)] >= n
  BY <1>5 DEF StepsFor
<1> DEFINE k == StepsFor(n)
<1> HIDE DEF k
<1>7. k \in Nat /\ TwoTo[k] \in Nat /\ TwoTo[k] >= n
  BY <1>6, TwoToSteps DEF k
<1>8. n <= TwoTo[k]
  BY <1>7
<1> QED
  BY <1>7, <1>8 DEF k

\* No search touches what from_dictionary has built.
LEMMA TableKept ==
    ASSUME IInv, mode # "build", mode' \in {"ready", "samples", "block"}, UNCHANGED table,
           steps' \in Nat, half' \in 0 .. BlockKeys \div 2
    PROVE  TypeOK' /\ KeysInv' /\ ChainsInv' /\ SinglesInv' /\ StackInv' /\ StartsInv'
<1>1. /\ vocab' = vocab /\ keys' = keys /\ chains' = chains /\ chain' = chain
      /\ singles' = singles /\ firstBlocks' = firstBlocks
  BY DEF table
<1>2. Record' = Record /\ Blocks' = Blocks /\ Ids(vocab)' = Ids(vocab) /\ PaddedLen' = PaddedLen
  BY <1>1 DEF Record, Blocks, Ids, PaddedLen
<1>3. TypeOK'
  <2>1. TypeOK
    BY DEF IInv
  <2> QED
    BY <1>1, <1>2, <2>1 DEF TypeOK
<1>4. KeysInv'
  <2>1. KeysInv
    BY DEF IInv
  <2> QED
    BY <1>1, <1>2, <2>1 DEF KeysInv, Own
<1>5. ChainsInv'
  <2>1. ChainsInv
    BY DEF IInv
  <2>2. ASSUME NEW k \in 1 .. Len(chains)
        PROVE  RecordFor(chains[k], Own(k))'
    <3>1. RecordFor(chains[k], Own(k))
      BY <2>1 DEF ChainsInv
    <3>2. Own(k)' = Own(k)
      BY <1>1 DEF Own
    <3>3. (PrefixIds(Own(k)))' = PrefixIds(Own(k))
      BY <1>1, <3>2 DEF PrefixIds, Ids
    <3>4. \A p : Length(p)' = Length(p)
      BY <1>1 DEF Length
    <3> QED
      BY <1>1, <3>1, <3>3, <3>4 DEF RecordFor, Length
  <2> QED
    BY <1>1, <2>1, <2>2 DEF ChainsInv
<1>6. SinglesInv'
  <2>1. SinglesInv
    BY DEF IInv
  <2> QED
    BY <1>1, <2>1 DEF SinglesInv
<1>7. StackInv'
  BY DEF StackInv
<1>8. StartsInv'
  <2>1. StartsInv
    BY DEF IInv
  <2> QED
    BY <1>1, <1>2, <2>1 DEF StartsInv, Below
<1> QED
  BY <1>3, <1>4, <1>5, <1>6, <1>7, <1>8

LEMMA SearchKeeps ==
    ASSUME IInv, Search
    PROVE  IInv'
<1> DEFINE calls == inputs'
           prefix(j) == PrefixOf(KeyOf(calls[j].data))
           first(j) == firstBlocks[prefix(j)]
           next(j) == firstBlocks[prefix(j) + 1]
           width(j) == next(j) + 1 - first(j)
           b == BlockKeys
           limit == Len(vocab) \div b + 1
           sizes == {width(j) : j \in DOMAIN calls}
           largest == SetMax(sizes)
<1>1. /\ mode = "ready" /\ calls \in Searches /\ mode' = "samples"
      /\ base' = [j \in DOMAIN calls |-> first(j)]
      /\ slot' = [j \in DOMAIN calls |-> 0]
      /\ half' = b \div 2 /\ found' = <<>> /\ UNCHANGED table
  BY DEF Search
<1>2. size' = [j \in DOMAIN calls |-> width(j)]
  <2>1. size' = [j \in DOMAIN inputs' |->
                    firstBlocks[PrefixOf(KeyOf(inputs'[j].data)) + 1] + 1 - base'[j]]
    BY DEF Search
  <2>2. \A j \in DOMAIN inputs' : base'[j] = first(j)
    BY <1>1
  <2> QED
    BY <2>1, <2>2
<1>3. steps' = StepsFor(largest)
  <2>1. steps' = StepsFor(SetMax({size'[j] : j \in DOMAIN inputs'}))
    BY DEF Search
  <2>2. {size'[j] : j \in DOMAIN inputs'} = sizes
    BY <1>2
  <2> QED
    BY <2>1, <2>2
<1>4. calls \in Seq(Call) /\ calls # <<>> /\ Len(calls) \in Nat /\ DOMAIN calls = 1 .. Len(calls)
      /\ 1 \in DOMAIN calls
  <2>1. calls \in Seq(Call) /\ calls # <<>>
    BY <1>1, MatcherAssumption DEF Call
  <2> HIDE DEF calls
  <2>2. Len(calls) \in Nat /\ DOMAIN calls = 1 .. Len(calls) /\ Len(calls) # 0
    BY <2>1
  <2> QED
    BY <2>1, <2>2
<1>5. \A j \in DOMAIN calls : KeyOf(calls[j].data) \in Key
  <2> TAKE j \in DOMAIN calls
  <2>1. calls[j] \in Call
    <3> HIDE DEF calls
    <3> QED
      BY <1>4, ElementOfSeq
  <2>2. calls[j].data \in ByteSeq
    BY <2>1 DEF Call
  <2> QED
    BY <2>2, KeyOfTyped
<1>6. /\ vocab \in Vocabularies /\ Len(vocab) \in Nat /\ b \in Nat \ {0}
      /\ limit \in Nat /\ b \div 2 \in Nat
  <2>1. vocab \in Vocabularies /\ Len(vocab) \in Nat
    BY <1>1, KeysAscend
  <2> QED
    BY <2>1, BlocksTyped, Division
<1> HIDE DEF calls
<1>7. ASSUME NEW j \in DOMAIN calls
      PROVE  /\ first(j) \in Nat /\ width(j) \in Nat \ {0} /\ width(j) <= limit
             /\ first(j) * b + width(j) * b <= Len(keys)
             /\ KeyLeq(keys[first(j) * b + 1], KeyOf(calls[j].data))
             /\ \A k \in first(j) * b + width(j) * b + 1 .. Len(vocab) :
                    ~KeyLeq(keys[k], KeyOf(calls[j].data))
  <2> DEFINE x == KeyOf(calls[j].data)
             f == first(j)
             g == next(j)
             w == width(j)
  <2>1. /\ f \in Nat /\ g \in Nat /\ f <= g
        /\ g <= Len(vocab) \div b
        /\ (g + 1) * b <= Len(keys)
        /\ KeyLeq(keys[f * b + 1], x)
        /\ \A k \in (g + 1) * b + 1 .. Len(vocab) : ~KeyLeq(keys[k], x)
    <3>1. x \in Key
      BY <1>5
    <3> HIDE DEF x
    <3>2. LET p == PrefixOf(x)
              f1 == firstBlocks[p]
              g1 == firstBlocks[p + 1]
          IN  /\ f1 \in Nat /\ g1 \in Nat /\ f1 <= g1
              /\ g1 <= Len(vocab) \div BlockKeys
              /\ (g1 + 1) * BlockKeys <= Len(keys)
              /\ KeyLeq(keys[f1 * BlockKeys + 1], x)
              /\ \A k \in (g1 + 1) * BlockKeys + 1 .. Len(vocab) : ~KeyLeq(keys[k], x)
      BY <1>1, <3>1, FirstBracket
    <3> QED
      BY <3>2 DEF x
  <2> HIDE DEF f, g, x
  <2>2. w = g + 1 - f
    BY DEF f, g
  <2> HIDE DEF w
  <2>3. w \in Nat \ {0} /\ w <= limit /\ f + w = g + 1
    BY <1>6, <2>1, <2>2
  <2>4. f * b + w * b = (g + 1) * b
    <3>1. f * b + w * b = (f + w) * b
      BY <1>6, <2>1, <2>3
    <3> QED
      BY <2>3, <3>1
  <2>5. /\ f \in Nat /\ w \in Nat \ {0} /\ w <= limit
        /\ f * b + w * b <= Len(keys)
        /\ KeyLeq(keys[f * b + 1], x)
        /\ \A k \in f * b + w * b + 1 .. Len(vocab) : ~KeyLeq(keys[k], x)
    BY <2>1, <2>3, <2>4
  <2> QED
    BY <2>5 DEF f, w, x
<1> HIDE DEF first, width, limit
<1>8. largest \in Nat /\ \A j \in DOMAIN calls : width(j) <= largest
  <2>1. sizes \in SUBSET Nat /\ sizes # {} /\ \A k \in sizes : k <= limit
    BY <1>4, <1>7
  <2>2. largest \in sizes /\ \A k \in sizes : k <= largest
    <3> HIDE DEF sizes
    <3> QED
      BY <1>6, <2>1, SetMaxFound
  <2> QED
    BY <2>1, <2>2
<1> HIDE DEF largest
<1>9. steps' \in Nat /\ \A j \in DOMAIN calls : width(j) <= TwoTo[steps']
  <2> DEFINE e == StepsFor(largest)
  <2>1. e \in Nat /\ largest <= TwoTo[e] /\ TwoTo[e] \in Nat
    BY <1>8, StepsFound, TwoToSteps
  <2> HIDE DEF e
  <2>2. \A j \in DOMAIN calls : width(j) <= TwoTo[e]
    BY <1>7, <1>8, <2>1
  <2> QED
    BY <1>3, <2>1, <2>2 DEF e
<1>10. half' \in 0 .. b \div 2
  BY <1>1, <1>6
<1>11. TypeOK' /\ KeysInv' /\ ChainsInv' /\ SinglesInv' /\ StackInv' /\ StartsInv'
  BY <1>1, <1>9, <1>10, TableKept
<1>12. half' = 0 \/ \E e \in 0 .. BlockKeys : half' = TwoTo[e]
  <2>1. PICK e \in 0 .. BlockKeys : b = TwoTo[e]
    BY BlocksTyped
  <2>2. CASE e = 0
    <3>1. b = 1
      BY <2>1, <2>2, TwoToSteps
    <3>2. 1 \div 2 = 0
      OBVIOUS
    <3> QED
      BY <1>1, <3>1, <3>2
  <2>3. CASE e # 0
    <3> DEFINE d == e - 1
    <3>1. d \in Nat /\ d + 1 = e /\ d \in 0 .. BlockKeys
      BY <1>6, <2>3
    <3> HIDE DEF d
    <3>2. TwoTo[d] \in Nat /\ TwoTo[d + 1] = 2 * TwoTo[d]
      BY <3>1, TwoToSteps
    <3> DEFINE y == TwoTo[d]
    <3>3. b = 2 * y /\ y \in Nat
      BY <2>1, <3>1, <3>2
    <3> HIDE DEF y
    <3>4. b \div 2 = y
      BY <3>3
    <3> QED
      BY <1>1, <3>1, <3>4 DEF y
  <2> QED
    BY <2>2, <2>3
<1>13. SearchInv'
  <2>1. /\ base' \in [DOMAIN calls -> Nat] /\ slot' \in [DOMAIN calls -> Nat]
        /\ size' \in [DOMAIN calls -> Nat \ {0}]
        /\ \A j \in DOMAIN calls : slot'[j] = 0 /\ size'[j] <= TwoTo[steps']
    BY <1>1, <1>2, <1>7, <1>9
  <2> QED
    BY <1>1, <1>4, <1>12, <2>1 DEF SearchInv, calls
<1>14. SearchBrackets'
  <2>1. ASSUME NEW j \in DOMAIN calls
        PROVE  Brackets(j, base[j] * BlockKeys, size[j] * BlockKeys)'
    <3>1. base'[j] = first(j) /\ size'[j] = width(j)
      BY <1>1, <1>2
    <3>2. keys' = keys /\ vocab' = vocab
      BY <1>1 DEF table
    <3>3. InputKey(j)' = KeyOf(calls[j].data)
      BY DEF InputKey, calls
    <3> QED
      BY <1>7, <3>1, <3>2, <3>3 DEF Brackets
  <2> QED
    BY <1>1, <2>1 DEF SearchBrackets, calls
<1>15. FoundInv'
  BY <1>1 DEF FoundInv
<1> QED
  BY <1>11, <1>13, <1>14, <1>15 DEF IInv

\* The search variables between the two searches.
LEMMA SearchTyped ==
    ASSUME IInv, mode \in {"samples", "block"}, NEW j \in DOMAIN inputs
    PROVE  /\ inputs \in Seq(Call) /\ InputKey(j) \in Key
           /\ base \in [DOMAIN inputs -> Nat] /\ slot \in [DOMAIN inputs -> Nat]
           /\ base[j] \in Nat /\ slot[j] \in Nat
           /\ mode = "samples" =>
                /\ size[j] \in Nat \ {0} /\ size[j] <= TwoTo[steps] /\ slot[j] = 0
                /\ half = BlockKeys \div 2
                /\ Brackets(j, base[j] * BlockKeys, size[j] * BlockKeys)
           /\ mode = "block" =>
                Brackets(j, base[j] * BlockKeys + slot[j], IF half = 0 THEN 1 ELSE 2 * half)
<1>1. SearchInv /\ SearchBrackets
  BY DEF IInv
<1>2. inputs \in Seq(Call)
  BY <1>1 DEF SearchInv
<1>3. InputKey(j) \in Key
  BY <1>2, InputTyped
<1>4. base \in [DOMAIN inputs -> Nat] /\ slot \in [DOMAIN inputs -> Nat]
  BY <1>1 DEF SearchInv
<1>5. base[j] \in Nat /\ slot[j] \in Nat
  BY <1>4
<1>6. mode = "samples" =>
        /\ size[j] \in Nat \ {0} /\ size[j] <= TwoTo[steps] /\ slot[j] = 0
        /\ half = BlockKeys \div 2
        /\ Brackets(j, base[j] * BlockKeys, size[j] * BlockKeys)
  BY <1>1 DEF SearchInv, SearchBrackets
<1>7. mode = "block" =>
        Brackets(j, base[j] * BlockKeys + slot[j], IF half = 0 THEN 1 ELSE 2 * half)
  BY <1>1 DEF SearchBrackets
<1> QED
  BY <1>2, <1>3, <1>4, <1>5, <1>6, <1>7

\* One halving of a range [from, from + low + high) of keys at from + low: the half that
\* is kept still brackets the input. The lower half may be kept longer than low.
LEMMA Halved ==
    ASSUME IInv, mode # "build", NEW j \in DOMAIN inputs, InputKey(j) \in Key,
           NEW from \in Nat, NEW low \in Nat, NEW high \in Nat \ {0}, low <= high,
           Brackets(j, from, low + high),
           NEW at, at = (IF KeyLeq(keys[from + low + 1], InputKey(j)) THEN from + low ELSE from)
    PROVE  Brackets(j, at, high)
<1> DEFINE x == InputKey(j)
           n == Len(vocab)
           m == Len(keys)
           mid == from + low + 1
<1>1. /\ from + (low + high) <= m /\ KeyLeq(keys[from + 1], x)
      /\ \A k \in from + (low + high) + 1 .. n : ~KeyLeq(keys[k], x)
  BY DEF Brackets
<1>2. /\ n \in Nat /\ m \in Nat /\ n < m
      /\ \A k \in 1 .. m : keys[k] \in Key
      /\ \A i, k \in 1 .. m : i <= k => KeyLeq(keys[i], keys[k])
  BY KeysAscend
<1> HIDE DEF x, n, m
<1>3. mid \in 1 .. m /\ mid = from + low + 1
  BY <1>1, <1>2
<1>4. at = (IF KeyLeq(keys[mid], x) THEN from + low ELSE from)
  BY DEF x
<1> HIDE DEF mid
<1>5. CASE KeyLeq(keys[mid], x)
  <2>1. at = from + low
    BY <1>4, <1>5
  <2>2. at + high = from + (low + high) /\ at + 1 = mid
    BY <1>3, <2>1
  <2> QED
    BY <1>1, <1>5, <2>2 DEF Brackets, x, n, m
<1>6. CASE ~KeyLeq(keys[mid], x)
  <2>1. at = from
    BY <1>4, <1>6
  <2>2. at + high <= m
    BY <1>1, <1>2, <2>1
  <2>3. ASSUME NEW k \in at + high + 1 .. n
        PROVE  ~KeyLeq(keys[k], x)
    <3>1. k \in 1 .. m /\ mid <= k
      BY <1>2, <1>3, <2>1
    <3>2. KeyLeq(keys[mid], keys[k]) /\ keys[mid] \in Key /\ keys[k] \in Key /\ x \in Key
      BY <1>2, <1>3, <3>1 DEF x
    <3> QED
      BY <1>6, <3>2, KeyLeqTransitive
  <2> QED
    BY <1>1, <2>1, <2>2, <2>3 DEF Brackets, x, n, m
<1> QED
  BY <1>5, <1>6

LEMMA SampleStepKeeps ==
    ASSUME IInv, SampleStep
    PROVE  IInv'
<1> DEFINE b == BlockKeys
           low(j) == size[j] \div 2
           next(j) == Advanced(Sample(base[j] + low(j)), InputKey(j), base[j], low(j))
           left(j) == size[j] - low(j)
           e == steps - 1
<1>1. /\ mode = "samples" /\ steps > 0 /\ mode' = mode /\ UNCHANGED table
      /\ base' = [j \in DOMAIN inputs |-> next(j)]
      /\ size' = [j \in DOMAIN inputs |-> left(j)]
      /\ steps' = e /\ inputs' = inputs /\ slot' = slot /\ half' = half /\ found' = found
  BY DEF SampleStep
<1>2. /\ e \in Nat /\ steps = e + 1 /\ half' \in 0 .. BlockKeys \div 2 /\ b \in Nat \ {0}
      /\ TwoTo[e] \in Nat /\ TwoTo[steps] = 2 * TwoTo[e]
  <2>1. steps \in Nat /\ half \in 0 .. BlockKeys \div 2
    BY DEF IInv, TypeOK
  <2>2. e \in Nat /\ steps = e + 1
    BY <1>1, <2>1
  <2> HIDE DEF e
  <2> QED
    BY <1>1, <2>1, <2>2, BlocksTyped, TwoToSteps
<1>3. TypeOK' /\ KeysInv' /\ ChainsInv' /\ SinglesInv' /\ StackInv' /\ StartsInv'
  BY <1>1, <1>2, TableKept
<1> HIDE DEF e
<1>4. ASSUME NEW j \in DOMAIN inputs
      PROVE  /\ next(j) \in Nat /\ left(j) \in Nat \ {0} /\ left(j) <= TwoTo[e]
             /\ Brackets(j, next(j) * b, left(j) * b)
  <2> DEFINE f == base[j]
             s == size[j]
             h == s \div 2
             l == s - h
             t == TwoTo[e]
  <2>1. /\ f \in Nat /\ s \in Nat \ {0} /\ s <= TwoTo[steps] /\ InputKey(j) \in Key
        /\ Brackets(j, f * b, s * b)
    BY <1>1, SearchTyped
  <2>2. s <= 2 * t /\ t \in Nat
    BY <1>2, <2>1
  <2> HIDE DEF f, s, t
  <2>3. h \in Nat /\ l \in Nat \ {0} /\ h <= l /\ h + l = s /\ l <= t
    BY <2>1, <2>2
  <2> HIDE DEF h, l
  <2> DEFINE fb == f * b
             hb == h * b
             lb == l * b
             at == next(j) * b
  <2>4. fb \in Nat /\ hb \in Nat /\ lb \in Nat \ {0}
    <3>1. fb \in Nat /\ hb \in Nat
      BY <1>2, <2>1, <2>3
    <3>2. 0 * b + b <= l * b /\ 0 * b = 0 /\ lb \in Int
      BY <1>2, <2>3, ProductGrows
    <3>3. b <= lb
      BY <1>2, <3>2
    <3> QED
      BY <1>2, <3>1, <3>2, <3>3
  <2>5. hb <= lb
    <3>1. h = l \/ h < l
      BY <2>3
    <3>2. h < l => h * b + b <= l * b
      BY <1>2, <2>3, ProductGrows
    <3> HIDE DEF b
    <3>3. h < l => hb <= lb
      <4> HIDE DEF hb, lb
      <4>1. h < l => hb + b <= lb
        BY <3>2 DEF hb, lb
      <4> QED
        BY <1>2, <2>4, <4>1
    <3>4. h = l => hb = lb
      OBVIOUS
    <3> QED
      BY <2>4, <3>1, <3>3, <3>4
  <2>6. hb + lb = s * b /\ (f + h) * b = fb + hb
    <3>1. (h + l) * b = h * b + l * b
      BY <1>2, <2>3
    <3>2. (f + h) * b = f * b + h * b
      BY <1>2, <2>1, <2>3
    <3> QED
      BY <2>3, <3>1, <3>2
  <2>7. Sample(f + h) = keys[fb + hb + 1]
    BY <2>6 DEF Sample
  <2>8. next(j) = IF KeyLeq(keys[fb + hb + 1], InputKey(j)) THEN f + h ELSE f
    BY <2>7 DEF Advanced, f, h, s
  <2>9. next(j) \in Nat
    BY <2>1, <2>3, <2>8
  <2>10. at = IF KeyLeq(keys[fb + hb + 1], InputKey(j)) THEN fb + hb ELSE fb
    BY <2>6, <2>8
  <2>11. Brackets(j, fb, hb + lb)
    BY <2>1, <2>6
  <2> HIDE DEF fb, hb, lb, at, next
  <2>12. Brackets(j, at, lb)
    BY <1>1, <2>1, <2>4, <2>5, <2>10, <2>11, Halved
  <2>13. left(j) = l
    BY DEF l, h, s
  <2> QED
    BY <2>3, <2>9, <2>12, <2>13 DEF at, lb, t
<1> HIDE DEF next, left
<1>5. SearchInv'
  <2>1. SearchInv
    BY DEF IInv
  <2>2. /\ base' \in [DOMAIN inputs -> Nat] /\ size' \in [DOMAIN inputs -> Nat \ {0}]
        /\ \A j \in DOMAIN inputs : size'[j] <= TwoTo[steps']
    BY <1>1, <1>4
  <2> QED
    BY <1>1, <2>1, <2>2 DEF SearchInv
<1>6. SearchBrackets'
  <2>1. ASSUME NEW j \in DOMAIN inputs
        PROVE  Brackets(j, base[j] * BlockKeys, size[j] * BlockKeys)'
    <3>1. base'[j] = next(j) /\ size'[j] = left(j)
      BY <1>1
    <3>2. keys' = keys /\ vocab' = vocab /\ inputs' = inputs
      BY <1>1 DEF table
    <3>3. Brackets(j, base'[j] * BlockKeys, size'[j] * BlockKeys)
      BY <1>4, <3>1
    <3> QED
      BY <3>2, <3>3 DEF Brackets, InputKey
  <2> QED
    BY <1>1, <2>1 DEF SearchBrackets
<1>7. FoundInv'
  BY <1>1 DEF IInv, FoundInv
<1> QED
  BY <1>3, <1>5, <1>6, <1>7 DEF IInv

LEMMA EnterBlockKeeps ==
    ASSUME IInv, EnterBlock
    PROVE  IInv'
<1> DEFINE b == BlockKeys
           start(j) == base[j] * b
           wide == IF half = 0 THEN 1 ELSE 2 * half
<1>1. /\ mode = "samples" /\ steps = 0 /\ mode' = "block" /\ UNCHANGED table
      /\ base' = base /\ size' = size /\ steps' = steps /\ inputs' = inputs
      /\ slot' = slot /\ half' = half /\ found' = found
  BY DEF EnterBlock, search
<1>2. steps' \in Nat /\ half' \in 0 .. BlockKeys \div 2 /\ b \in Nat \ {0}
  BY <1>1, BlocksTyped DEF IInv, TypeOK
<1>3. TypeOK' /\ KeysInv' /\ ChainsInv' /\ SinglesInv' /\ StackInv' /\ StartsInv'
  BY <1>1, <1>2, TableKept
<1>4. ASSUME NEW j \in DOMAIN inputs
      PROVE  Brackets(j, start(j) + slot[j], wide)
  <2> DEFINE f == base[j]
             s == size[j]
             fb == start(j)
  <2>1. /\ f \in Nat /\ s \in Nat \ {0} /\ s <= TwoTo[steps] /\ slot[j] = 0 /\ half = b \div 2
        /\ Brackets(j, f * b, s * b)
    BY <1>1, SearchTyped
  <2>2. s = 1
    <3>1. s <= 1
      BY <1>1, <2>1, TwoToSteps
    <3> HIDE DEF s
    <3> QED
      BY <2>1, <3>1
  <2>3. s * b = b
    BY <1>2, <2>2
  <2>4. wide = b
    <3>1. PICK e \in 0 .. BlockKeys : b = TwoTo[e]
      BY BlocksTyped
    <3>2. CASE e = 0
      <4>1. b = 1
        BY <3>1, <3>2, TwoToSteps
      <4>2. 1 \div 2 = 0
        OBVIOUS
      <4>3. half = 0
        BY <2>1, <4>1, <4>2
      <4> QED
        BY <4>1, <4>3
    <3>3. CASE e # 0
      <4> DEFINE d == e - 1
      <4>1. d \in Nat /\ d + 1 = e
        BY <1>2, <3>3
      <4> HIDE DEF d
      <4>2. TwoTo[d] \in Nat \ {0} /\ TwoTo[d + 1] = 2 * TwoTo[d]
        BY <4>1, TwoToSteps
      <4> DEFINE y == TwoTo[d]
      <4>3. b = 2 * y /\ y \in Nat \ {0}
        BY <3>1, <4>1, <4>2
      <4> HIDE DEF y
      <4>4. b \div 2 = y
        BY <4>3
      <4>5. half = y
        BY <2>1, <4>4
      <4> QED
        BY <4>3, <4>5
    <3> QED
      BY <3>2, <3>3
  <2>5. fb + slot[j] = fb /\ fb \in Nat
    <3>1. fb \in Nat
      BY <1>2, <2>1
    <3> HIDE DEF fb
    <3> QED
      BY <2>1, <3>1
  <2> HIDE DEF wide, start
  <2>6. Brackets(j, fb, b)
    BY <2>1, <2>3 DEF start
  <2> QED
    BY <2>4, <2>5, <2>6
<1>5. SearchInv'
  <2>1. SearchInv
    BY DEF IInv
  <2> QED
    BY <1>1, <2>1 DEF SearchInv
<1>6. SearchBrackets'
  <2>1. ASSUME NEW j \in DOMAIN inputs
        PROVE  Brackets(j, base[j] * BlockKeys + slot[j], IF half = 0 THEN 1 ELSE 2 * half)'
    <3>1. keys' = keys /\ vocab' = vocab
      BY <1>1 DEF table
    <3> QED
      BY <1>1, <1>4, <3>1 DEF Brackets, InputKey
  <2> QED
    BY <1>1, <2>1 DEF SearchBrackets
<1>7. FoundInv'
  BY <1>1 DEF IInv, FoundInv
<1> QED
  BY <1>3, <1>5, <1>6, <1>7 DEF IInv

LEMMA BlockStepKeeps ==
    ASSUME IInv, BlockStep
    PROVE  IInv'
<1> DEFINE b == BlockKeys
           next(j) == Advanced(InBlock(base[j], slot[j] + half), InputKey(j), slot[j], half)
           h2 == half \div 2
           wide == IF h2 = 0 THEN 1 ELSE 2 * h2
<1>1. /\ mode = "block" /\ half > 0 /\ mode' = mode /\ UNCHANGED table
      /\ slot' = [j \in DOMAIN inputs |-> next(j)] /\ half' = h2
      /\ base' = base /\ size' = size /\ steps' = steps /\ inputs' = inputs /\ found' = found
  BY DEF BlockStep
<1>2. steps' \in Nat /\ half \in 0 .. b \div 2 /\ b \div 2 \in Nat /\ b \in Nat \ {0} /\ half \in Nat \ {0}
  <2>1. steps' \in Nat /\ half \in 0 .. b \div 2
    BY <1>1 DEF IInv, TypeOK
  <2>2. b \div 2 \in Nat /\ b \in Nat \ {0}
    BY BlocksTyped
  <2> HIDE DEF b
  <2> QED
    BY <1>1, <2>1, <2>2
<1>3. h2 \in 0 .. b \div 2
  <2> DEFINE y == b \div 2
  <2>1. y \in Nat /\ half \in 0 .. y
    BY <1>2
  <2> HIDE DEF y
  <2>2. h2 \in 0 .. y
    BY <2>1
  <2> QED
    BY <2>2 DEF y
<1>4. TypeOK' /\ KeysInv' /\ ChainsInv' /\ SinglesInv' /\ StackInv' /\ StartsInv'
  BY <1>1, <1>2, <1>3, TableKept
<1>5. wide = half /\ (h2 = 0 \/ \E e \in 0 .. BlockKeys : h2 = TwoTo[e])
  <2>1. PICK e \in 0 .. BlockKeys : half = TwoTo[e]
    BY <1>1 DEF IInv, SearchInv
  <2>2. CASE e = 0
    <3>1. half = 1 /\ 1 \div 2 = 0
      BY <2>1, <2>2, TwoToSteps
    <3> QED
      BY <3>1
  <2>3. CASE e # 0
    <3> DEFINE d == e - 1
    <3>1. d \in Nat /\ d + 1 = e /\ d \in 0 .. BlockKeys
      BY <1>2, <2>3
    <3> HIDE DEF d
    <3>2. TwoTo[d] \in Nat \ {0} /\ TwoTo[d + 1] = 2 * TwoTo[d]
      BY <3>1, TwoToSteps
    <3> DEFINE y == TwoTo[d]
    <3>3. half = 2 * y /\ y \in Nat \ {0}
      BY <2>1, <3>1, <3>2
    <3> HIDE DEF y
    <3>4. h2 = y
      BY <3>3
    <3> HIDE DEF h2
    <3>5. wide = half
      BY <3>3, <3>4
    <3> QED
      BY <3>1, <3>4, <3>5 DEF y
  <2> QED
    BY <2>2, <2>3
<1>6. ASSUME NEW j \in DOMAIN inputs
      PROVE  next(j) \in Nat /\ Brackets(j, base[j] * b + next(j), half)
  <2> DEFINE f == base[j] * b
             s == slot[j]
             from == f + s
             at == f + next(j)
  <2>1. /\ base[j] \in Nat /\ s \in Nat /\ InputKey(j) \in Key
        /\ Brackets(j, from, 2 * half)
    BY <1>1, <1>2, SearchTyped
  <2>2. f \in Nat
    BY <1>2, <2>1
  <2>3. InBlock(base[j], s + half) = keys[f + (s + half) + 1]
    BY DEF InBlock
  <2> HIDE DEF f, s
  <2>4. from \in Nat /\ f + (s + half) + 1 = from + half + 1 /\ 2 * half = half + half
        /\ f + (s + half) = from + half
    BY <1>2, <2>1, <2>2
  <2>5. next(j) = IF KeyLeq(keys[from + half + 1], InputKey(j)) THEN s + half ELSE s
    <3>1. next(j) = Advanced(keys[from + half + 1], InputKey(j), s, half)
      BY <2>3, <2>4 DEF s
    <3> HIDE DEF next, from
    <3> QED
      BY <3>1 DEF Advanced
  <2> HIDE DEF next
  <2>6. next(j) \in Nat
    BY <1>2, <2>1, <2>5
  <2>7. at = IF KeyLeq(keys[from + half + 1], InputKey(j)) THEN from + half ELSE from
    BY <2>4, <2>5
  <2> HIDE DEF from, at
  <2>8. Brackets(j, from, half + half)
    BY <2>1, <2>4
  <2>9. Brackets(j, at, half)
    BY <1>1, <1>2, <2>1, <2>4, <2>7, <2>8, Halved
  <2> QED
    BY <2>6, <2>9 DEF at, f
<1> HIDE DEF next, h2
<1>7. SearchInv'
  <2>1. SearchInv
    BY DEF IInv
  <2>2. slot' \in [DOMAIN inputs -> Nat]
    BY <1>1, <1>6
  <2> QED
    BY <1>1, <1>5, <2>1, <2>2 DEF SearchInv
<1>8. SearchBrackets'
  <2>1. ASSUME NEW j \in DOMAIN inputs
        PROVE  Brackets(j, base[j] * BlockKeys + slot[j], IF half = 0 THEN 1 ELSE 2 * half)'
    <3>1. keys' = keys /\ vocab' = vocab
      BY <1>1 DEF table
    <3>2. slot'[j] = next(j)
      BY <1>1
    <3>3. Brackets(j, base'[j] * BlockKeys + slot'[j], IF half' = 0 THEN 1 ELSE 2 * half')
      BY <1>1, <1>5, <1>6, <3>2
    <3> QED
      BY <1>1, <3>1, <3>3 DEF Brackets, InputKey
  <2> QED
    BY <1>1, <2>1 DEF SearchBrackets
<1>9. FoundInv'
  BY <1>1 DEF IInv, FoundInv
<1> QED
  BY <1>4, <1>7, <1>8, <1>9 DEF IInv

-----------------------------------------------------------------------------
(***************************************************************************)
(* The answer of find_all.                                                 *)
(***************************************************************************)

LEMMA CommonFound ==
    ASSUME NEW a \in Key, NEW c \in Key
    PROVE  /\ Common(a, c) \in 0 .. MaxTokenSize
           /\ \A k \in 1 .. Common(a, c) : a[k] = c[k]
           /\ \A n \in 0 .. MaxTokenSize : (\A k \in 1 .. n : a[k] = c[k]) => n <= Common(a, c)
<1> DEFINE S == {n \in 0 .. MaxTokenSize : \A k \in 1 .. n : a[k] = c[k]}
           Fits(n) == /\ \A k \in 1 .. n : a[k] = c[k]
                      /\ n < MaxTokenSize => a[n + 1] # c[n + 1]
           x == Common(a, c)
<1>1. MaxTokenSize \in Nat
  BY SizeTyped
<1>2. PICK top \in S : \A n \in S : n <= top
  <2>1. S \in SUBSET Nat /\ 0 \in S /\ \A n \in S : n <= MaxTokenSize
    BY <1>1
  <2> HIDE DEF S
  <2> QED
    BY <1>1, <2>1, LargestNatural
<1>3. top \in 0 .. MaxTokenSize /\ Fits(top)
  <2>1. top \in 0 .. MaxTokenSize /\ \A k \in 1 .. top : a[k] = c[k]
    OBVIOUS
  <2>2. ASSUME top < MaxTokenSize, a[top + 1] = c[top + 1]
        PROVE  FALSE
    <3> DEFINE m == top + 1
    <3>1. m \in 0 .. MaxTokenSize /\ top \in Nat /\ m > top
      BY <1>1, <2>1, <2>2
    <3>2. \A k \in 1 .. m : k = m \/ k \in 1 .. top
      BY <2>1
    <3>3. \A k \in 1 .. m : a[k] = c[k]
      BY <2>1, <2>2, <3>2
    <3> HIDE DEF m
    <3>4. m \in S
      BY <3>1, <3>3
    <3> HIDE DEF S
    <3>5. m <= top
      BY <1>2, <3>4
    <3> QED
      BY <3>1, <3>5
  <2> QED
    BY <2>1, <2>2
<1>4. x \in 0 .. MaxTokenSize /\ Fits(x)
  <2>1. x = CHOOSE n \in 0 .. MaxTokenSize : Fits(n)
    BY DEF Common
  <2> HIDE DEF Fits, x
  <2> QED
    BY <1>3, <2>1
<1> HIDE DEF x
<1>5. ASSUME NEW n \in 0 .. MaxTokenSize, \A k \in 1 .. n : a[k] = c[k]
      PROVE  n <= x
  <2>1. SUFFICES ASSUME x < n
                 PROVE  FALSE
    BY <1>1, <1>4
  <2>2. x + 1 \in 1 .. n /\ x < MaxTokenSize
    BY <1>1, <1>4, <2>1
  <2> QED
    BY <1>4, <1>5, <2>2
<1> QED
  BY <1>4, <1>5 DEF x

\* Every token that the window begins with is a prefix token of the key the search has
\* found and not longer than the bytes it shares with the input, and the other way round.
LEMMA WindowTokens ==
    ASSUME IInv, mode = "block", half = 0, NEW j \in DOMAIN inputs, NEW p \in Ids(vocab)
    PROVE  LET q == base[j] * BlockKeys + slot[j]
               window == SubSeq(InputKey(j), 1, inputs[j].win)
           IN  StartsAt(window, 0, vocab[p + 1]) <=>
                    p \in PrefixIds(Own(q + 1)) /\ Length(p) <= MaxLen(q, j)
<1> DEFINE x == InputKey(j)
           win == inputs[j].win
           q == base[j] * BlockKeys + slot[j]
           r == q + 1
           own == Own(r)
           key == keys[r]
           window == SubSeq(x, 1, win)
           c == Common(key, x)
           t == vocab[p + 1]
           l == Length(p)
           n == Len(vocab)
<1>1. /\ x \in Key /\ win \in 1 .. MaxTokenSize /\ q \in Nat /\ r \in Nat \ {0}
      /\ Brackets(j, q, 1)
  <2>1. x \in Key /\ inputs \in Seq(Call) /\ base[j] \in Nat /\ slot[j] \in Nat
        /\ Brackets(j, q, 1)
    BY SearchTyped
  <2>2. win \in 1 .. MaxTokenSize
    BY <2>1, InputTyped
  <2>3. q \in Nat
    <3> DEFINE f == base[j] * BlockKeys
    <3>1. f \in Nat
      BY <2>1, BlocksTyped
    <3> HIDE DEF f
    <3>2. f + slot[j] \in Nat
      BY <2>1, <3>1
    <3> QED
      BY <3>2 DEF f
  <2> HIDE DEF q
  <2> QED
    BY <2>1, <2>2, <2>3
<1>2. /\ q + 1 <= Len(keys) /\ KeyLeq(key, x)
      /\ \A k \in q + 1 + 1 .. n : ~KeyLeq(keys[k], x)
  BY <1>1 DEF Brackets
<1> HIDE DEF q, x, win, n
<1>3. /\ vocab \in Vocabularies /\ n \in Nat /\ Len(keys) \in Nat
      /\ r \in 1 .. Len(keys) /\ key \in Key
      /\ \A k \in 1 .. n : k \in 1 .. Len(keys) /\ keys[k] = KeyOf(vocab[k])
      /\ \A i, k \in 1 .. Len(keys) : i <= k => KeyLeq(keys[i], keys[k])
  <2>1. r \in 1 .. Len(keys)
    BY <1>1, <1>2, KeysAscend
  <2> QED
    BY <2>1, KeysAscend DEF n
<1>4. key = KeyOf(own)
  BY <1>3 DEF IInv, KeysInv
<1>5. /\ own \in ByteSeq /\ Len(own) \in 1 .. MaxTokenSize
      /\ r > n => own = LargestKey
      /\ r <= n => own = vocab[r]
  BY <1>1, <1>3, OwnTyped DEF n, Own
<1>6. \A k \in 1 .. Len(own) : k \in 1 .. MaxTokenSize /\ key[k] = own[k]
  BY <1>4, <1>5, KeyOfTyped, SizeTyped
<1>7. /\ t \in ByteSeq /\ Len(t) = l /\ l \in 1 .. MaxTokenSize /\ l \in Nat
      /\ p \in Nat /\ p + 1 \in 1 .. n
  BY <1>3, IdsTyped DEF n
<1> HIDE DEF r, own, key, c
<1>8. /\ c \in 0 .. MaxTokenSize /\ \A k \in 1 .. c : key[k] = x[k]
      /\ \A m \in 0 .. MaxTokenSize : (\A k \in 1 .. m : key[k] = x[k]) => m <= c
  BY <1>1, <1>3, CommonFound DEF c
<1>9. MaxLen(q, j) = IF c < win THEN c ELSE win
  BY DEF MaxLen, c, key, r, x, win
<1>10. /\ window \in ByteSeq /\ Len(window) = win /\ win \in Nat /\ win <= MaxTokenSize
       /\ \A k \in 1 .. win : window[k] = x[k]
  <2>1. x \in Seq(Byte) /\ Len(x) = MaxTokenSize /\ MaxTokenSize \in Nat
    BY <1>1, KeyTyped, SizeTyped DEF ByteSeq
  <2>2. window \in Seq(Byte) /\ Len(window) = win /\ \A k \in 1 .. win : window[k] = x[k]
    BY <1>1, <2>1
  <2> QED
    BY <1>1, <2>1, <2>2 DEF ByteSeq
<1> HIDE DEF window, t, l
<1>11. StartsAt(window, 0, t) <=> l <= win /\ \A k \in 1 .. l : window[k] = t[k]
  BY <1>7, <1>10, StartsAtZero
<1>12. p \in PrefixIds(own) <=> StartsAt(own, 0, t)
  BY DEF PrefixIds, t
<1>13. StartsAt(own, 0, t) <=> l <= Len(own) /\ \A k \in 1 .. l : own[k] = t[k]
  BY <1>5, <1>7, StartsAtZero
<1>14. ASSUME p \in PrefixIds(own), l <= MaxLen(q, j)
       PROVE  StartsAt(window, 0, t)
  <2>1. l <= c /\ l <= win
    BY <1>1, <1>7, <1>8, <1>9, <1>10, <1>14
  <2>2. l <= Len(own) /\ \A k \in 1 .. l : own[k] = t[k]
    BY <1>12, <1>13, <1>14
  <2>3. \A k \in 1 .. l : k \in 1 .. c /\ k \in 1 .. win /\ k \in 1 .. Len(own)
    BY <1>5, <1>7, <1>8, <1>10, <2>1, <2>2
  <2>4. \A k \in 1 .. l : window[k] = t[k]
    BY <1>6, <1>8, <1>10, <2>2, <2>3
  <2> QED
    BY <1>11, <2>1, <2>4
<1>15. ASSUME StartsAt(window, 0, t)
       PROVE  p \in PrefixIds(own) /\ l <= MaxLen(q, j)
  <2> DEFINE a == p + 1
             ka == keys[a]
  <2>1. l <= win /\ \A k \in 1 .. l : k \in 1 .. win /\ k \in 1 .. MaxTokenSize /\ x[k] = t[k]
    <3>1. l <= win /\ \A k \in 1 .. l : window[k] = t[k]
      BY <1>11, <1>15
    <3>2. \A k \in 1 .. l : k \in 1 .. win /\ k \in 1 .. MaxTokenSize
      BY <1>7, <1>10, <3>1, SizeTyped
    <3> QED
      BY <1>10, <3>1, <3>2
  <2>2. ka \in Key /\ ka = KeyOf(t) /\ a \in 1 .. Len(keys)
    <3>1. ka = KeyOf(t) /\ a \in 1 .. Len(keys)
      BY <1>3, <1>7 DEF t
    <3> QED
      BY <1>7, <3>1, KeyOfTyped
  <2>3. KeyLeq(ka, x)
    BY <1>1, <1>7, <2>1, <2>2, KeyOfPrefix
  <2>4. a <= r
    <3>1. SUFFICES ASSUME r < a
                   PROVE  FALSE
      BY <1>1, <1>7
    <3>2. a \in q + 1 + 1 .. n
      BY <1>1, <1>3, <1>7, <3>1 DEF r
    <3> QED
      BY <1>2, <2>3, <3>2
  <2>5. KeyLeq(ka, key)
    BY <1>3, <2>2, <2>4 DEF key
  <2>6. \A k \in 1 .. l : ka[k] = t[k]
    BY <1>7, <2>1, <2>2, KeyOfTyped
  <2>7. KeyLeq(key, x) /\ l \in 0 .. MaxTokenSize /\ \A k \in 1 .. l : ka[k] = x[k]
    BY <1>2, <1>7, <2>1, <2>6
  <2>8. \A k \in 1 .. l : key[k] = ka[k]
    <3> HIDE DEF ka
    <3> QED
      BY <1>1, <1>3, <2>2, <2>5, <2>7, KeysBetweenAgree
  <2>9. l <= c
    BY <1>8, <2>7, <2>8
  <2>10. StartsAt(own, 0, t)
    <3>1. CASE l <= Len(own)
      <4>1. \A k \in 1 .. l : k \in 1 .. Len(own)
        BY <1>5, <1>7, <3>1
      <4>2. \A k \in 1 .. l : own[k] = t[k]
        BY <1>6, <2>6, <2>8, <4>1
      <4> QED
        BY <1>13, <3>1, <4>2
    <3>2. CASE ~(l <= Len(own))
      <4>1. Len(own) \in Nat /\ Len(own) < l
        BY <1>5, <1>7, <3>2, BytesTyped
      <4>2. \A k \in 1 .. Len(own) : k \in 1 .. l
        BY <1>7, <4>1
      <4>3. \A k \in 1 .. Len(own) : t[k] = own[k]
        BY <1>6, <2>6, <2>8, <4>2
      <4>4. StartsAt(t, 0, own)
        BY <1>5, <1>7, <4>1, <4>3, StartsAtZero
      <4>5. own = t \/ LexLess(own, t)
        BY <1>5, <1>7, <4>4, PrefixComesFirst
      <4>6. own # t
        BY <1>7, <4>1
      <4>7. ~(r > n)
        <5>1. SUFFICES ASSUME r > n
                       PROVE  FALSE
          OBVIOUS
        <5>2. Len(own) = MaxTokenSize
          BY <1>5, <5>1, LargestKeyIs, KeyTyped
        <5> QED
          BY <1>7, <4>1, <5>2, SizeTyped
      <4>8. r \in 1 .. n /\ own = vocab[r]
        BY <1>1, <1>3, <1>5, <4>7
      <4>9. a # r
        BY <4>6, <4>8 DEF t
      <4>10. a < r
        BY <1>1, <1>7, <2>4, <4>9
      <4>11. LexLess(t, own)
        BY <1>3, <1>7, <4>8, <4>10, IdsTyped, Ordered DEF t, n
      <4>12. LexLess(t, t)
        BY <1>5, <1>7, <4>5, <4>6, <4>11, LexTransitive
      <4> QED
        BY <1>7, <4>12, LexIrreflexive
    <3> QED
      BY <3>1, <3>2
  <2>11. l <= MaxLen(q, j)
    BY <1>9, <2>1, <2>9
  <2> QED
    BY <1>12, <2>10, <2>11
<1>16. StartsAt(window, 0, t) <=> p \in PrefixIds(own) /\ l <= MaxLen(q, j)
  BY <1>14, <1>15
<1> QED
  BY <1>16 DEF window, t, own, r, q, l, x, win


\* The greedy code of the window of input j.
Window(j) == SubSeq(InputKey(j), 1, inputs[j].win)
CodeOf(j) == CodeAt(vocab, Window(j), 0)

LEMMA AnswerIsGreedy ==
    ASSUME IInv, mode = "block", half = 0, NEW j \in DOMAIN inputs
    PROVE  Answer(j) = <<CodeOf(j), Length(CodeOf(j))>>
<1> DEFINE x == InputKey(j)
           win == inputs[j].win
           window == Window(j)
           code == CodeOf(j)
           q == base[j] * BlockKeys + slot[j]
           r == q + 1
           own == Own(r)
           bound == MaxLen(q, j)
           record == chains[r]
           l == Length(code)
           fits == {n \in record.lens : n <= bound}
<1>1. /\ x \in Key /\ win \in 1 .. MaxTokenSize /\ win \in Nat /\ q \in Nat /\ r \in Nat \ {0}
      /\ r \in 1 .. Len(keys)
  <2> DEFINE f == base[j] * BlockKeys
  <2>1. /\ x \in Key /\ inputs \in Seq(Call) /\ base[j] \in Nat /\ slot[j] \in Nat
        /\ Brackets(j, f + slot[j], 1)
    BY SearchTyped
  <2>2. win \in 1 .. MaxTokenSize
    BY <2>1, InputTyped
  <2>3. f \in Nat
    BY <2>1, BlocksTyped
  <2>4. f + slot[j] + 1 <= Len(keys)
    BY <2>1 DEF Brackets
  <2>5. Len(keys) \in Nat
    BY KeysAscend
  <2> HIDE DEF f
  <2>6. f + slot[j] \in Nat /\ f + slot[j] + 1 \in 1 .. Len(keys)
    BY <2>1, <2>3, <2>4, <2>5
  <2>7. q = f + slot[j]
    BY DEF f
  <2> HIDE DEF q
  <2> QED
    BY <2>1, <2>2, <2>6, <2>7
<1> HIDE DEF x, win, q, window
<1>2. /\ window \in ByteSeq /\ Len(window) = win /\ 0 < win
      /\ \A k \in 1 .. win : window[k] = x[k]
  <2>1. x \in Seq(Byte) /\ Len(x) = MaxTokenSize /\ MaxTokenSize \in Nat
    BY <1>1, KeyTyped, SizeTyped DEF ByteSeq
  <2>2. window = SubSeq(x, 1, win)
    BY DEF window, Window, x, win
  <2>3. /\ SubSeq(x, 1, win) \in Seq(Byte) /\ Len(SubSeq(x, 1, win)) = win
        /\ \A k \in 1 .. win : SubSeq(x, 1, win)[k] = x[k]
    BY <1>1, <2>1
  <2> QED
    BY <1>1, <2>2, <2>3 DEF ByteSeq
<1>3. vocab \in Vocabularies /\ Conforms(vocab)
  BY IdsTyped DEF IInv, TypeOK
<1>4. code \in Ids(vocab) /\ IsLongestAt(TokensOf(vocab), window, 0, vocab[code + 1])
  <2>1. vocab \in Seq(Token) /\ SingleByteTokens \subseteq TokensOf(vocab) /\ 0 \in Nat
        /\ 0 < Len(window)
    BY <1>1, <1>2, <1>3 DEF Conforms
  <2> QED
    BY <1>2, <2>1, CodeAtFound DEF code, CodeOf, window
<1> HIDE DEF code
<1>5. l = Len(vocab[code + 1]) /\ l \in 1 .. MaxTokenSize /\ l \in Nat
  BY <1>3, <1>4, IdsTyped
<1>6. \A p \in Ids(vocab) : StartsAt(window, 0, vocab[p + 1]) <=>
                                p \in PrefixIds(own) /\ Length(p) <= bound
  BY WindowTokens DEF window, Window, q
<1>7. own \in ByteSeq /\ Len(own) \in 1 .. MaxTokenSize
  <2>1. r > Len(vocab) \/ r <= Len(vocab)
    BY <1>1, <1>3, IdsTyped
  <2> QED
    BY <1>1, <1>3, <2>1, OwnTyped DEF Own
<1>8. RecordFor(record, own)
  BY <1>1 DEF IInv, ChainsInv
<1> HIDE DEF r, own, bound, record
<1>9. StartsAt(window, 0, vocab[code + 1]) /\ code \in PrefixIds(own) /\ l <= bound
  BY <1>4, <1>6 DEF IsLongestAt
<1>10. ASSUME NEW p \in PrefixIds(own), Length(p) <= bound
       PROVE  Length(p) <= l /\ Length(p) \in Nat
  <2>1. p \in Ids(vocab)
    BY DEF PrefixIds
  <2>2. StartsAt(window, 0, vocab[p + 1])
    BY <1>6, <1>10, <2>1
  <2>3. Len(vocab[p + 1]) <= Len(vocab[code + 1])
    BY <1>3, <1>4, <2>1, <2>2, VocabularyTyped DEF IsLongestAt, Conforms
  <2> QED
    BY <1>3, <1>5, <2>1, <2>3, IdsTyped
<1>11. fits # {} /\ SetMax(fits) = l
  <2>1. l \in fits
    BY <1>8, <1>9 DEF RecordFor
  <2>2. \A n \in fits : n \in Nat /\ n <= l
    BY <1>8, <1>10 DEF RecordFor
  <2> HIDE DEF fits, l
  <2>3. fits \in SUBSET Nat
    BY <2>2
  <2> QED
    BY <2>1, <2>2, <2>3, SetMaxIs
<1> DEFINE len == IF fits = {} THEN 0 ELSE SetMax(fits)
<1>12. len = l
  BY <1>11
<1>13. Answer(j) = IF len = 1 THEN <<singles[x[1]], len>> ELSE <<record.ids[FillFrom(len)], len>>
  BY DEF Answer, record, bound, r, q, x
<1> HIDE DEF len, fits
<1>14. CASE l = 1
  <2>1. vocab[code + 1] = <<x[1]>> /\ code + 1 \in 1 .. Len(vocab) /\ code \in Nat
    <3> DEFINE t == vocab[code + 1]
    <3>1. t \in ByteSeq /\ code + 1 \in 1 .. Len(vocab) /\ code \in Nat
      BY <1>3, <1>4, IdsTyped
    <3>2. Len(t) = 1
      BY <1>5, <1>14
    <3>3. StartsAt(window, 0, t)
      BY <1>9
    <3> HIDE DEF t
    <3>4. window[1] = t[1]
      BY <1>2, <3>1, <3>2, <3>3, StartsAtZero
    <3>5. window[1] = x[1]
      BY <1>1, <1>2
    <3>6. t = <<t[1]>>
      BY <3>1, <3>2 DEF ByteSeq
    <3> QED
      BY <3>1, <3>4, <3>5, <3>6 DEF t
  <2> DEFINE c1 == code + 1
  <2>2. c1 <= Len(keys)
    BY <2>1, KeysAscend
  <2>3. Len(vocab[c1]) = 1 /\ vocab[c1][1] = x[1] /\ c1 - 1 = code
    BY <2>1
  <2> HIDE DEF c1
  <2>4. singles[vocab[c1][1]] = c1 - 1
    BY <2>1, <2>2, <2>3 DEF IInv, SinglesInv, c1
  <2> QED
    BY <1>12, <1>13, <1>14, <2>3, <2>4 DEF code
<1>15. CASE l # 1
  <2> DEFINE k == l - 1
             id == record.ids[k]
  <2>1. k \in 1 .. MaxTokenSize - 1 /\ k + 1 = l /\ FillFrom(l) = k
    <3> HIDE DEF l
    <3>1. l \in 2 .. MaxTokenSize /\ MaxTokenSize \in Nat
      <4>1. l \in 1 .. MaxTokenSize /\ l \in Nat /\ MaxTokenSize \in Nat
        BY <1>5, SizeTyped
      <4>2. l # 1
        BY <1>15
      <4> QED
        BY <4>1, <4>2
    <3>2. k \in 1 .. MaxTokenSize - 1 /\ k + 1 = l /\ ~(l < 2)
      BY <3>1
    <3> QED
      BY <3>2 DEF FillFrom
  <2>2. /\ id \in PrefixIds(own) /\ Length(id) <= k + 1
        /\ \A p \in PrefixIds(own) : Length(p) <= k + 1 => Length(p) <= Length(id)
    BY <1>8, <2>1 DEF RecordFor
  <2>3. Length(code) <= Length(id) /\ Length(id) <= Length(code)
    <3>1. Length(code) <= k + 1
      BY <1>5, <2>1
    <3> QED
      BY <1>9, <2>1, <2>2, <3>1
  <2>4. Length(id) \in Nat /\ Length(code) \in Nat
    <3>1. id \in Ids(vocab)
      BY <2>2 DEF PrefixIds
    <3> QED
      BY <1>3, <1>4, <3>1, IdsTyped
  <2>5. Length(id) = Length(code)
    BY <2>3, <2>4
  <2>6. id = code
    BY <1>3, <1>7, <1>9, <2>2, <2>5, PrefixIdsFacts
  <2> QED
    BY <1>12, <1>13, <1>15, <2>1, <2>6 DEF code
<1> QED
  BY <1>14, <1>15

LEMMA FindAllKeeps ==
    ASSUME IInv, FindAll
    PROVE  IInv'
<1>1. /\ mode = "block" /\ half = 0 /\ mode' = "ready" /\ UNCHANGED table
      /\ found' = [j \in DOMAIN inputs |-> Answer(j)]
      /\ base' = base /\ size' = size /\ steps' = steps /\ inputs' = inputs
      /\ slot' = slot /\ half' = half
  BY DEF FindAll
<1>2. steps' \in Nat /\ half' \in 0 .. BlockKeys \div 2
  BY <1>1 DEF IInv, TypeOK
<1>3. TypeOK' /\ KeysInv' /\ ChainsInv' /\ SinglesInv' /\ StackInv' /\ StartsInv'
  BY <1>1, <1>2, TableKept
<1>4. SearchInv' /\ SearchBrackets'
  BY <1>1 DEF IInv, SearchInv, SearchBrackets
<1>5. FoundInv'
  <2>1. vocab' = vocab
    BY <1>1 DEF table
  <2>2. ASSUME NEW j \in DOMAIN inputs
        PROVE  found'[j] = <<CodeOf(j), Length(CodeOf(j))>>
    BY <1>1, AnswerIsGreedy
  <2>3. \A j \in DOMAIN inputs : CodeOf(j)' = CodeOf(j)
    BY <1>1, <2>1 DEF CodeOf, Window, InputKey
  <2>4. \A p : Length(p)' = Length(p)
    BY <2>1 DEF Length
  <2>5. \A j \in DOMAIN inputs : (found[j] = <<CodeOf(j), Length(CodeOf(j))>>)'
    BY <2>2, <2>3, <2>4
  <2>6. DOMAIN found' = DOMAIN inputs /\ inputs' = inputs
    BY <1>1
  <2> QED
    BY <1>1, <2>5, <2>6 DEF FoundInv, CodeOf, Window
<1> QED
  BY <1>3, <1>4, <1>5 DEF IInv

-----------------------------------------------------------------------------
(***************************************************************************)
(* The theorems.                                                           *)
(***************************************************************************)

LEMMA StutterKeeps ==
    ASSUME IInv, UNCHANGED vars
    PROVE  IInv'
<1>1. UNCHANGED <<vocab, keys, chains, chain, singles, firstBlocks, mode>>
      /\ UNCHANGED <<inputs, base, size, steps, slot, half, found>>
  BY DEF vars, table, search
<1> USE <1>1
<1>2. TypeOK'
  BY DEF IInv, TypeOK, Record, Blocks, Ids
<1>3. KeysInv'
  BY DEF IInv, KeysInv, PaddedLen, Own
<1>4. ChainsInv'
  BY DEF IInv, ChainsInv, RecordFor, PrefixIds, Own, Ids, Length
<1>5. SinglesInv'
  BY DEF IInv, SinglesInv
<1>6. StackInv'
  BY DEF IInv, StackInv, StackHoldsPrefixes, PrefixTokens, Ids, Length
<1>7. StartsInv'
  BY DEF IInv, StartsInv, Below, Blocks
<1>8. SearchInv'
  BY DEF IInv, SearchInv
<1>9. SearchBrackets'
  BY DEF IInv, SearchBrackets, Brackets, InputKey
<1>10. FoundInv'
  BY DEF IInv, FoundInv, InputKey, Length
<1> QED
  BY <1>2, <1>3, <1>4, <1>5, <1>6, <1>7, <1>8, <1>9, <1>10 DEF IInv

\* The inductive invariant holds in every state: the keys and the records of the tokens
\* added so far, the stack between two of them, the table of the first two bytes, and the
\* bracket that every input of a call keeps through both searches.
THEOREM Invariance == Spec => []IInv
<1>1. Init => IInv
  BY InitHolds
<1>2. IInv /\ [Next]_vars => IInv'
  BY AddTokenKeeps, FinishBuildKeeps, SearchKeeps, SampleStepKeeps, EnterBlockKeeps,
     BlockStepKeeps, FindAllKeeps, StutterKeeps DEF Next
<1> QED
  BY <1>1, <1>2, PTL DEF Spec

\* Of every token and of the pads: whatever was pushed and popped before, the record says
\* what the longest prefix token under every length bound is (from_dictionary).
THEOREM LongestRecords == Spec => []RecordsGiveLongest
<1>1. IInv => RecordsGiveLongest
  <2> SUFFICES ASSUME IInv
               PROVE  RecordsGiveLongest
    OBVIOUS
  <2>1. TypeOK /\ vocab \in Vocabularies
    BY DEF IInv, TypeOK
  <2>2. StackHoldsPrefixes
    BY DEF IInv, StackInv, StackHoldsPrefixes
  <2>3. ASSUME mode = "ready", NEW k \in DOMAIN keys, NEW bound \in 2 .. MaxTokenSize
        PROVE  LET own == IF k <= Len(vocab) THEN vocab[k] ELSE LargestKey
                   cut == SubSeq(own, 1, IF bound < Len(own) THEN bound ELSE Len(own))
               IN  vocab[chains[k].ids[bound - 1] + 1] = LongestMatch(TokensOf(vocab), cut, 0)
    <3>1. k \in 1 .. Len(chains) /\ k \in Nat \ {0}
      BY <2>1 DEF TypeOK
    <3>2. RecordFor(chains[k], Own(k))
      BY <3>1 DEF IInv, ChainsInv
    <3>3. Own(k) \in ByteSeq /\ Len(Own(k)) \in 1 .. MaxTokenSize
      <4>1. k > Len(vocab) \/ k <= Len(vocab)
        BY <2>1, <3>1, IdsTyped
      <4> QED
        BY <2>1, <3>1, <4>1, OwnTyped DEF Own
    <3>4. LET own == Own(k)
              cut == SubSeq(own, 1, IF bound < Len(own) THEN bound ELSE Len(own))
          IN  vocab[chains[k].ids[bound - 1] + 1] = LongestMatch(TokensOf(vocab), cut, 0)
      BY <2>1, <3>2, <3>3, RecordLongest
    <3> QED
      BY <3>4 DEF Own
  <2> QED
    BY <2>1, <2>2, <2>3 DEF RecordsGiveLongest
<1> QED
  BY <1>1, Invariance, PTL

\* Every call of find_all, whatever else is in its batch, answers each input with the
\* greedy code of its window and the length of that token.
THEOREM GreedyAnswers == Spec => []FindsGreedyCodes
<1>1. IInv => FindsGreedyCodes
  BY DEF IInv, FoundInv, FindsGreedyCodes
<1> QED
  BY <1>1, Invariance, PTL

-----------------------------------------------------------------------------
(***************************************************************************)
(* The longest prefix matcher, as it grows.                                *)
(***************************************************************************)

\* What a bucket holds.

EntryType == [suffix : Word, slen : 1 .. MaxSuffixLen, token : Nat]

\* The members of a list.
HeldIn(es) == {es[k] : k \in 1 .. Len(es)}

NeverTwice(es) == \A j, k \in 1 .. Len(es) : es[j] = es[k] => j = k

\* The token under an id of the tokens tk.
TokenOf(tk, id) == tk[id + 1]

\* A list of entries of one word: each the entry of its token, and none twice.
IsListOf(tk, w, es) ==
    /\ es \in Seq(EntryType)
    /\ \A k \in 1 .. Len(es) :
        /\ es[k].token \in 0 .. Len(tk) - 1
        /\ ~IsShort(TokenOf(tk, es[k].token))
        /\ LoadWord(TokenOf(tk, es[k].token), WordSize) = w
        /\ es[k] = Entry(TokenOf(tk, es[k].token), es[k].token)
    /\ \A j, k \in 1 .. Len(es) : es[j].token = es[k].token => j = k

Falling(es) == \A j, k \in 1 .. Len(es) : j < k => es[j].slen >= es[k].slen

LinearInOrder(b) ==
    b = Linear(b.entries) /\ Falling(b.entries) /\ Len(b.entries) <= PromoteThreshold

\* A promoted bucket: the entries with suffixes of at least slen bytes end at ends[slen].
GroupedInOrder(b) ==
    /\ b = Grouped(b.entries, b.ends, b.present)
    /\ Len(b.entries) > PromoteThreshold
    /\ b.ends \in [1 .. MaxSuffixLen + 1 -> 0 .. Len(b.entries)]
    /\ \A slen \in 1 .. MaxSuffixLen + 1, k \in 1 .. Len(b.entries) :
        b.entries[k].slen >= slen <=> k <= b.ends[slen]
    /\ b.present = {b.entries[k].slen : k \in 1 .. Len(b.entries)}
    /\ \A j, k \in 1 .. Len(b.entries) :
        j < k /\ b.entries[j].slen = b.entries[k].slen
            => WordLess(b.entries[j].suffix, b.entries[k].suffix)

\* Entries that differ differ in their suffixes.
Apart(es) ==
    \A j, k \in 1 .. Len(es) :
        es[j].slen = es[k].slen /\ es[j].suffix = es[k].suffix => j = k

ShortKey(t) == <<LoadWord(t, Len(t)), Len(t)>>

\* The short map holds short tokens, under their keys, ...
ShortHolds(tk, sm, mx) ==
    \A key \in DOMAIN sm :
        /\ sm[key] \in 0 .. Len(tk) - 1
        /\ IsShort(TokenOf(tk, sm[key]))
        /\ key = ShortKey(TokenOf(tk, sm[key]))
        /\ Len(TokenOf(tk, sm[key])) <= mx

\* ... the buckets hold long ones, ...
LongHolds(tk, lm) ==
    \A w \in DOMAIN lm :
        /\ w \in Word /\ IsListOf(tk, w, lm[w].entries)
        /\ LinearInOrder(lm[w]) \/ GroupedInOrder(lm[w])

\* ... and every token is in one of them.
IsHeld(tk, sm, lm, id) ==
    LET t == TokenOf(tk, id)
        w == LoadWord(t, WordSize)
    IN  /\ IsShort(t) => ShortKey(t) \in DOMAIN sm /\ sm[ShortKey(t)] = id
        /\ ~IsShort(t) => /\ w \in DOMAIN lm
                          /\ \E k \in 1 .. Len(lm[w].entries) : lm[w].entries[k].token = id

\* The buckets with one more token, as InsertLong leaves them.
WithLong(lm, t, id) ==
    LET w == LoadWord(t, WordSize)
        b == IF w \in DOMAIN lm THEN lm[w] ELSE Linear(<<>>)
        e == Entry(t, id)
    IN  [k \in DOMAIN lm \cup {w} |->
            IF k # w THEN lm[k]
            ELSE IF b.grouped THEN GroupedInserted(b, e) ELSE LinearInserted(b, e)]

LpmInv ==
    /\ tokens \in Seq(Token) /\ nextId = Len(tokens)
    /\ maxShortLen \in 1 .. WordSize
    /\ NeverTwice(tokens)
    /\ SingleByteTokens \subseteq HeldIn(tokens)
    /\ ShortHolds(tokens, shortMap, maxShortLen)
    /\ LongHolds(tokens, longMap)
    /\ \A id \in 0 .. Len(tokens) - 1 : IsHeld(tokens, shortMap, longMap, id)


-----------------------------------------------------------------------------
(***************************************************************************)
(* Words.                                                                  *)
(***************************************************************************)

LEMMA Sizes ==
    /\ WordSize \in Nat /\ WordSize > 0
    /\ MaxTokenSize = 2 * WordSize /\ MaxTokenSize \in Nat
    /\ MaxSuffixLen = WordSize
    /\ PromoteThreshold \in Nat /\ NumBytes \in Nat /\ NumBytes > 0 /\ 0 \in Byte
BY BytesAssumption, LpmAssumption DEF MaxSuffixLen, Byte

LEMMA LeastIs ==
    ASSUME NEW m \in Nat, NEW n \in Nat
    PROVE  Least(m, n) \in Nat /\ Least(m, n) <= m /\ Least(m, n) <= n /\ Least(m, n) \in {m, n}
BY DEF Least

LEMMA LoadWordType ==
    ASSUME NEW data \in ByteSeq, NEW len \in Nat
    PROVE  /\ LoadWord(data, len) \in Word
           /\ \A k \in 1 .. WordSize : LoadWord(data, len)[k] =
                IF k <= len /\ k <= Len(data) THEN data[k] ELSE 0
<1>1. Len(data) \in Nat /\ \A k \in 1 .. Len(data) : data[k] \in Byte
  BY LenProperties, ElementOfSeq DEF ByteSeq
<1> DEFINE l == Least(len, Len(data))
<1>2. l \in Nat /\ \A k \in Nat : k <= l <=> k <= len /\ k <= Len(data)
  BY <1>1 DEF Least
<1>3. LoadWord(data, len) = [k \in 1 .. WordSize |-> IF k <= l THEN data[k] ELSE 0]
  BY DEF LoadWord
<1> HIDE DEF l
<1>4. \A k \in 1 .. WordSize : LoadWord(data, len)[k] =
        IF k <= len /\ k <= Len(data) THEN data[k] ELSE 0
  BY <1>2, <1>3
<1>5. \A k \in 1 .. WordSize : LoadWord(data, len)[k] \in Byte
  BY <1>1, <1>4, Sizes
<1> QED
  BY <1>3, <1>4, <1>5 DEF Word

\* The word of a short token, with its length, tells it.
LEMMA ShortWordTells ==
    ASSUME NEW t \in Token, NEW u \in Token, IsShort(t), Len(u) = Len(t),
           LoadWord(t, Len(t)) = LoadWord(u, Len(t))
    PROVE  t = u
<1>1. /\ t \in ByteSeq /\ u \in ByteSeq /\ Len(t) \in Nat /\ WordSize \in Nat
      /\ Len(t) <= WordSize
  BY TokenType, Sizes DEF IsShort
<1>2. \A k \in 1 .. Len(t) : k \in 1 .. WordSize
  BY <1>1
<1>3. \A k \in 1 .. Len(t) : LoadWord(t, Len(t))[k] = t[k]
  BY <1>1, <1>2, LoadWordType
<1>4. \A k \in 1 .. Len(t) : LoadWord(u, Len(t))[k] = u[k]
  BY <1>1, <1>2, LoadWordType
<1>5. \A k \in 1 .. Len(t) : t[k] = u[k]
  BY <1>3, <1>4
<1> QED
  BY <1>1, <1>5, SeqEqual DEF ByteSeq

\* The entry of a long token.
LEMMA EntryIs ==
    ASSUME NEW t \in Token, ~IsShort(t), NEW id \in Nat
    PROVE  LET e == Entry(t, id)
           IN  /\ e \in EntryType /\ e.token = id
               /\ e.slen = Len(t) - WordSize /\ e.slen \in 1 .. WordSize
               /\ e.suffix \in Word
               /\ \A k \in 1 .. WordSize :
                    e.suffix[k] = IF k <= e.slen THEN t[WordSize + k] ELSE 0
<1> DEFINE n == Len(t) - WordSize
           rest == SubSeq(t, WordSize + 1, Len(t))
<1>1. /\ t \in ByteSeq /\ Len(t) \in Nat /\ Len(t) <= 2 * WordSize /\ Len(t) > WordSize
      /\ WordSize \in Nat
  BY TokenType, Sizes DEF IsShort
<1>2. n \in 1 .. WordSize /\ n \in Nat
  BY <1>1
<1>3. /\ rest \in ByteSeq /\ Len(rest) = n
      /\ \A k \in 1 .. n : rest[k] = t[WordSize + k]
  <2>1. /\ t \in Seq(Byte) /\ WordSize \in 0 .. Len(t) /\ Len(t) \in WordSize .. Len(t)
    BY <1>1 DEF ByteSeq
  <2> QED
    BY <2>1, MiddlePiece DEF ByteSeq
<1>4. /\ Entry(t, id).suffix = LoadWord(rest, n) /\ Entry(t, id).slen = n
      /\ Entry(t, id).token = id
      /\ Entry(t, id) = [suffix |-> LoadWord(rest, n), slen |-> n, token |-> id]
  BY DEF Entry
<1> HIDE DEF n, rest
<1>5. /\ LoadWord(rest, n) \in Word
      /\ \A k \in 1 .. WordSize : LoadWord(rest, n)[k] = IF k <= n THEN rest[k] ELSE 0
  BY <1>2, <1>3, LoadWordType
<1>6. \A k \in 1 .. WordSize : LoadWord(rest, n)[k] = IF k <= n THEN t[WordSize + k] ELSE 0
  BY <1>2, <1>3, <1>5
<1>7. Entry(t, id) \in EntryType
  BY <1>2, <1>4, <1>5, Sizes DEF EntryType
<1>8. n = Len(t) - WordSize
  BY DEF n
<1> QED
  BY <1>2, <1>4, <1>5, <1>6, <1>7, <1>8

\* A long token is its first word and its suffix.
LEMMA LongWordsTell ==
    ASSUME NEW t \in Token, NEW u \in Token, ~IsShort(t), ~IsShort(u),
           NEW i \in Nat, NEW j \in Nat,
           LoadWord(t, WordSize) = LoadWord(u, WordSize),
           Entry(t, i).slen = Entry(u, j).slen, Entry(t, i).suffix = Entry(u, j).suffix
    PROVE  t = u
<1> DEFINE n == Entry(t, i).slen
<1>1. /\ t \in ByteSeq /\ u \in ByteSeq /\ WordSize \in Nat /\ Len(t) \in Nat /\ Len(u) \in Nat
      /\ n \in 1 .. WordSize /\ n = Len(t) - WordSize /\ n = Len(u) - WordSize
  BY TokenType, Sizes, EntryIs
<1>2. \A k \in 1 .. WordSize : t[k] = u[k]
  <2>1. WordSize <= Len(t) /\ WordSize <= Len(u)
    BY <1>1
  <2>2. \A k \in 1 .. WordSize : LoadWord(t, WordSize)[k] = t[k]
    BY <1>1, <2>1, LoadWordType
  <2>3. \A k \in 1 .. WordSize : LoadWord(u, WordSize)[k] = u[k]
    BY <1>1, <2>1, LoadWordType
  <2> QED
    BY <2>2, <2>3
<1>3. \A k \in 1 .. n : t[WordSize + k] = u[WordSize + k]
  <2>1. \A k \in 1 .. n : k \in 1 .. WordSize /\ k <= n
    BY <1>1
  <2>2. \A k \in 1 .. n : Entry(t, i).suffix[k] = t[WordSize + k]
    BY <2>1, EntryIs
  <2>3. \A k \in 1 .. n : Entry(u, j).suffix[k] = u[WordSize + k]
    BY <2>1, EntryIs
  <2> QED
    BY <2>2, <2>3
<1> HIDE DEF n
<1>4. ASSUME NEW k \in 1 .. Len(t)
      PROVE  t[k] = u[k]
  <2>1. CASE k <= WordSize
    BY <1>1, <1>2, <2>1
  <2>2. CASE k > WordSize
    <3>1. k - WordSize \in 1 .. n /\ WordSize + (k - WordSize) = k
      BY <1>1, <2>2
    <3> QED
      BY <1>3, <3>1
  <2> QED
    BY <1>1, <2>1, <2>2
<1>5. Len(t) = Len(u)
  BY <1>1
<1> QED
  BY <1>1, <1>4, <1>5, SeqEqual DEF ByteSeq

LEMMA WordsEqual ==
    ASSUME NEW x \in Word, NEW y \in Word, \A k \in 1 .. WordSize : x[k] = y[k]
    PROVE  x = y
<1>1. x = [k \in 1 .. WordSize |-> x[k]] /\ y = [k \in 1 .. WordSize |-> y[k]]
  BY DEF Word
<1> QED
  BY <1>1

\* The order of words is a strict total order.
LEMMA WordLessOrders ==
    /\ \A x \in Word : ~WordLess(x, x)
    /\ \A x, y, z \in Word : WordLess(x, y) /\ WordLess(y, z) => WordLess(x, z)
    /\ \A x, y \in Word : x # y => WordLess(x, y) \/ WordLess(y, x)
<1>0. WordSize \in Nat /\ \A x \in Word : \A k \in 1 .. WordSize : x[k] \in Int
  BY Sizes DEF Word, Byte
<1>1. ASSUME NEW x \in Word
      PROVE  ~WordLess(x, x)
  BY <1>0 DEF WordLess
<1>2. ASSUME NEW x \in Word, NEW y \in Word, NEW z \in Word, WordLess(x, y), WordLess(y, z)
      PROVE  WordLess(x, z)
  <2>1. PICK j \in 1 .. WordSize : x[j] < y[j] /\ \A i \in j + 1 .. WordSize : x[i] = y[i]
    BY <1>2 DEF WordLess
  <2>2. PICK k \in 1 .. WordSize : y[k] < z[k] /\ \A i \in k + 1 .. WordSize : y[i] = z[i]
    BY <1>2 DEF WordLess
  <2>3. j \in Int /\ k \in Int
    OBVIOUS
  <2>4. CASE j = k
    <3>1. x[j] < z[j]
      BY <1>0, <2>1, <2>2, <2>4
    <3>2. \A i \in j + 1 .. WordSize : x[i] = z[i]
      BY <2>1, <2>2, <2>4
    <3> QED
      BY <3>1, <3>2 DEF WordLess
  <2>5. CASE j < k
    <3>1. k \in j + 1 .. WordSize
      BY <2>5, <1>0
    <3>2. x[k] < z[k]
      BY <2>1, <2>2, <3>1
    <3>3. \A i \in k + 1 .. WordSize : i \in j + 1 .. WordSize
      BY <2>5, <1>0
    <3>4. \A i \in k + 1 .. WordSize : x[i] = z[i]
      BY <2>1, <2>2, <3>3
    <3> QED
      BY <3>2, <3>4 DEF WordLess
  <2>6. CASE k < j
    <3>1. j \in k + 1 .. WordSize
      BY <2>6, <1>0
    <3>2. x[j] < z[j]
      BY <2>1, <2>2, <3>1
    <3>3. \A i \in j + 1 .. WordSize : i \in k + 1 .. WordSize
      BY <2>6, <1>0
    <3>4. \A i \in j + 1 .. WordSize : x[i] = z[i]
      BY <2>1, <2>2, <3>3
    <3> QED
      BY <3>2, <3>4 DEF WordLess
  <2> QED
    BY <2>3, <2>4, <2>5, <2>6
<1>3. ASSUME NEW x \in Word, NEW y \in Word, x # y
      PROVE  WordLess(x, y) \/ WordLess(y, x)
  <2> DEFINE S == {k \in 1 .. WordSize : x[k] # y[k]}
  <2>1. S # {}
    BY <1>3, WordsEqual
  <2>2. S \in SUBSET Nat /\ \A k \in S : k <= WordSize
    BY <1>0
  <2>3. PICK m \in S : \A k \in S : k <= m
    <3> HIDE DEF S
    <3> QED
      BY <1>0, <2>1, <2>2, LargestNatural
  <2>4. m \in 1 .. WordSize /\ x[m] # y[m]
    BY <2>3
  <2>5. \A i \in m + 1 .. WordSize : x[i] = y[i]
    <3>1. \A i \in m + 1 .. WordSize : i \in 1 .. WordSize /\ ~(i <= m)
      BY <1>0, <2>4
    <3> QED
      BY <2>3, <3>1
  <2>6. x[m] < y[m] \/ y[m] < x[m]
    BY <1>0, <2>4
  <2> QED
    BY <2>4, <2>5, <2>6 DEF WordLess
<1> QED
  BY <1>1, <1>2, <1>3

-----------------------------------------------------------------------------
(***************************************************************************)
(* Sorting, for any strict total order R on a finite set.                  *)
(***************************************************************************)

Orders(R, S) ==
    /\ \A x \in S : <<x, x>> \notin R
    /\ \A x, y, z \in S : <<x, y>> \in R /\ <<y, z>> \in R => <<x, z>> \in R
    /\ \A x, y \in S : x # y => <<x, y>> \in R \/ <<y, x>> \in R

LEMMA IntervalSize ==
    ASSUME NEW n \in Nat
    PROVE  IsFiniteSet(1 .. n) /\ Cardinality(1 .. n) = n
<1>1. 1 \in Int /\ n \in Int
  OBVIOUS
<1>2. IsFiniteSet(1 .. n) /\ Cardinality(1 .. n) = IF 1 > n THEN 0 ELSE n - 1 + 1
  BY <1>1, FS_Interval, Zenon
<1> QED
  BY <1>2

\* A finite set can be listed in its order.
LEMMA SortedList ==
    ASSUME NEW S, IsFiniteSet(S), NEW R, Orders(R, S)
    PROVE  \E f \in [1 .. Cardinality(S) -> S] :
                /\ \A x \in S : \E k \in 1 .. Cardinality(S) : f[k] = x
                /\ \A j, k \in 1 .. Cardinality(S) : j < k => <<f[j], f[k]>> \in R
<1> DEFINE n == Cardinality(S)
           Ahead(x) == {y \in S : <<y, x>> \in R}
           rank == [x \in S |-> Cardinality(Ahead(x)) + 1]
<1>1. n \in Nat
  BY FS_CardinalityType
<1>2. ASSUME NEW x \in S
      PROVE  /\ IsFiniteSet(Ahead(x)) /\ x \notin Ahead(x)
             /\ Cardinality(Ahead(x)) \in Nat /\ Cardinality(Ahead(x)) + 1 <= n
  <2>1. x \notin Ahead(x) /\ Ahead(x) \in SUBSET S /\ Ahead(x) \cup {x} \in SUBSET S
    BY DEF Orders
  <2>2. IsFiniteSet(Ahead(x)) /\ Cardinality(Ahead(x) \cup {x}) <= n
    BY <2>1, FS_Subset
  <2> HIDE DEF Ahead, n
  <2>3. Cardinality(Ahead(x) \cup {x}) = Cardinality(Ahead(x)) + 1
    BY <2>1, <2>2, FS_AddElement
  <2>4. Cardinality(Ahead(x)) \in Nat
    BY <2>2, FS_CardinalityType
  <2> QED
    BY <2>1, <2>2, <2>3, <2>4
<1>3. ASSUME NEW x \in S, NEW y \in S, <<x, y>> \in R
      PROVE  rank[x] < rank[y]
  <2>1. Ahead(x) \cup {x} \in SUBSET Ahead(y)
    BY <1>3 DEF Orders
  <2>2. /\ IsFiniteSet(Ahead(x)) /\ IsFiniteSet(Ahead(y)) /\ x \notin Ahead(x)
        /\ Cardinality(Ahead(x)) \in Nat /\ Cardinality(Ahead(y)) \in Nat
    BY <1>2
  <2> HIDE DEF Ahead
  <2>3. Cardinality(Ahead(x) \cup {x}) <= Cardinality(Ahead(y))
    BY <2>1, <2>2, FS_Subset
  <2>4. Cardinality(Ahead(x) \cup {x}) = Cardinality(Ahead(x)) + 1
    BY <2>2, FS_AddElement
  <2> QED
    BY <2>2, <2>3, <2>4
<1>4. \A x \in S : rank[x] \in 1 .. n
  <2> HIDE DEF Ahead, n
  <2> QED
    BY <1>1, <1>2
<1>5. \A x, y \in S : rank[x] = rank[y] => x = y
  <2> SUFFICES ASSUME NEW x \in S, NEW y \in S, x # y
               PROVE  rank[x] # rank[y]
    BY Zenon
  <2>1. rank[x] \in Nat /\ rank[y] \in Nat
    BY <1>1, <1>4
  <2>2. rank[x] < rank[y] \/ rank[y] < rank[x]
    BY <1>3 DEF Orders
  <2> HIDE DEF rank
  <2> QED
    BY <2>1, <2>2
<1>6. rank \in Injection(S, 1 .. n)
  <2>1. rank \in [S -> 1 .. n]
    BY <1>4
  <2> HIDE DEF rank
  <2> QED
    BY <1>5, <2>1 DEF Injection, IsInjective
<1> HIDE DEF rank
<1>7. \A k \in 1 .. n : \E x \in S : rank[x] = k
  <2>1. rank \in Surjection(S, 1 .. n)
    <3>1. IsFiniteSet(1 .. n) /\ Cardinality(1 .. n) = Cardinality(S)
      BY <1>1, IntervalSize
    <3> HIDE DEF n
    <3> QED
      BY <1>6, <3>1, FS_Injection
  <2> QED
    BY <2>1 DEF Surjection
<1> DEFINE f == [k \in 1 .. n |-> CHOOSE x \in S : rank[x] = k]
<1>8. \A k \in 1 .. n : f[k] \in S /\ rank[f[k]] = k
  BY <1>7
<1>9. f \in [1 .. n -> S]
  BY <1>8
<1> HIDE DEF f
<1>10. \A x \in S : \E k \in 1 .. n : f[k] = x
  BY <1>4, <1>5, <1>8
<1>11. ASSUME NEW j \in 1 .. n, NEW k \in 1 .. n, j < k
       PROVE  <<f[j], f[k]>> \in R
  <2>1. f[j] \in S /\ f[k] \in S /\ rank[f[j]] = j /\ rank[f[k]] = k
    BY <1>8
  <2>2. f[j] # f[k]
    BY <1>11, <2>1
  <2>3. ~(<<f[k], f[j]>> \in R)
    <3>1. <<f[k], f[j]>> \in R => k < j
      BY <1>3, <2>1
    <3> QED
      BY <1>11, <3>1
  <2> QED
    BY <2>1, <2>2, <2>3 DEF Orders
<1> QED
  BY <1>9, <1>10, <1>11 DEF n

\* A list of a finite set that is as long as the set has no element twice.
LEMMA ListedOnce ==
    ASSUME NEW S, IsFiniteSet(S), NEW f \in [1 .. Cardinality(S) -> S],
           \A x \in S : \E k \in 1 .. Cardinality(S) : f[k] = x
    PROVE  \A j, k \in 1 .. Cardinality(S) : f[j] = f[k] => j = k
<1> DEFINE n == Cardinality(S)
<1>1. n \in Nat
  BY FS_CardinalityType
<1>2. IsFiniteSet(1 .. n) /\ Cardinality(1 .. n) = Cardinality(S)
  BY <1>1, IntervalSize
<1>3. f \in Surjection(1 .. n, S)
  BY DEF Surjection
<1> HIDE DEF n
<1>4. f \in Injection(1 .. n, S)
  BY <1>2, <1>3, FS_Surjection
<1>5. \A j, k \in 1 .. n : f[j] = f[k] => j = k
  BY <1>4 DEF Injection, IsInjective
<1> QED
  BY <1>5 DEF n

\* The elements of a list without repetition are as many as it is long.
LEMMA ListSize ==
    ASSUME NEW n \in Nat, NEW S, NEW f \in [1 .. n -> S],
           \A x \in S : \E k \in 1 .. n : f[k] = x,
           \A j, k \in 1 .. n : f[j] = f[k] => j = k
    PROVE  IsFiniteSet(S) /\ Cardinality(S) = n
<1>1. IsFiniteSet(1 .. n) /\ Cardinality(1 .. n) = n
  BY IntervalSize
<1>2. f \in Surjection(1 .. n, S)
  BY DEF Surjection
<1>3. f \in Injection(1 .. n, S)
  BY DEF Injection, IsInjective
<1> QED
  BY <1>1, <1>2, <1>3, FS_Surjection

-----------------------------------------------------------------------------
(***************************************************************************)
(* Buckets.                                                                *)
(***************************************************************************)

LEMMA EntriesTyped ==
    ASSUME NEW es \in Seq(EntryType)
    PROVE  /\ Len(es) \in Nat
           /\ \A k \in 1 .. Len(es) :
                /\ es[k] \in EntryType /\ es[k].suffix \in Word /\ es[k].token \in Nat
                /\ es[k].slen \in 1 .. WordSize /\ es[k].slen \in Nat /\ es[k].slen >= 1
                /\ es[k].slen <= WordSize
<1>1. Len(es) \in Nat /\ \A k \in 1 .. Len(es) : es[k] \in EntryType
  BY LenProperties, ElementOfSeq
<1> QED
  BY <1>1, Sizes DEF EntryType

\* The elements behind an insertion.
InsertsAt(x, at, c, r) ==
    /\ Len(r) = Len(x) + 1 /\ Len(x) \in Nat
    /\ \A k \in 1 .. Len(x) + 1 :
        r[k] = IF k <= at THEN x[k] ELSE IF k = at + 1 THEN c ELSE x[k - 1]

LEMMA InsertAtIs ==
    ASSUME NEW S, NEW es \in Seq(S), NEW pos \in 0 .. Len(es), NEW e \in S
    PROVE  InsertAt(es, pos, e) \in Seq(S) /\ InsertsAt(es, pos, e, InsertAt(es, pos, e))
<1> DEFINE a == SubSeq(es, 1, pos)
           b == SubSeq(es, pos + 1, Len(es))
           n == Len(es)
<1>1. n \in Nat /\ pos \in Nat /\ pos <= n
  BY LenProperties
<1>2. a \in Seq(S) /\ Len(a) = pos /\ \A k \in 1 .. pos : a[k] = es[k]
  <2>1. 0 \in 0 .. n /\ pos \in 0 .. n /\ 0 + 1 = 1 /\ pos - 0 = pos
    BY <1>1
  <2>2. SubSeq(es, 0 + 1, pos) \in Seq(S) /\ Len(SubSeq(es, 0 + 1, pos)) = pos - 0
        /\ \A k \in 1 .. pos - 0 : SubSeq(es, 0 + 1, pos)[k] = es[0 + k]
    BY <2>1, MiddlePiece
  <2>3. \A k \in 1 .. pos : 0 + k = k
    BY <1>1
  <2> QED
    BY <2>1, <2>2, <2>3
<1>3. b \in Seq(S) /\ Len(b) = n - pos /\ \A k \in 1 .. n - pos : b[k] = es[pos + k]
  BY <1>1, MiddlePiece
<1> HIDE DEF a, b
<1>4. /\ a \o <<e>> \in Seq(S) /\ Len(a \o <<e>>) = pos + 1
      /\ \A k \in 1 .. pos + 1 : (a \o <<e>>)[k] = IF k <= pos THEN es[k] ELSE e
  <2>1. <<e>> \in Seq(S) /\ Len(<<e>>) = 1 /\ <<e>>[1] = e
    OBVIOUS
  <2>2. /\ a \o <<e>> \in Seq(S) /\ Len(a \o <<e>>) = pos + 1
        /\ \A k \in 1 .. pos + 1 :
            (a \o <<e>>)[k] = IF k <= pos THEN a[k] ELSE <<e>>[k - pos]
    BY <1>2, <2>1, ConcatProperties
  <2>3. \A k \in 1 .. pos + 1 : IF k <= pos THEN k \in 1 .. pos ELSE k - pos = 1
    BY <1>1
  <2> QED
    BY <1>2, <2>1, <2>2, <2>3
<1> DEFINE c == a \o <<e>>
<1> HIDE DEF c
<1>5. c \in Seq(S) /\ Len(c) = pos + 1 /\ \A k \in 1 .. pos + 1 : c[k] = IF k <= pos THEN es[k] ELSE e
  BY <1>4 DEF c
<1>6. /\ c \o b \in Seq(S) /\ Len(c \o b) = n + 1
      /\ \A k \in 1 .. n + 1 : (c \o b)[k] = IF k <= pos + 1 THEN c[k] ELSE b[k - (pos + 1)]
  <2>1. Len(c) + Len(b) = n + 1
    BY <1>1, <1>3, <1>5
  <2> QED
    BY <1>3, <1>5, <2>1, ConcatProperties
<1>7. \A k \in 1 .. n + 1 :
        (c \o b)[k] = IF k <= pos THEN es[k] ELSE IF k = pos + 1 THEN e ELSE es[k - 1]
  <2> SUFFICES ASSUME NEW k \in 1 .. n + 1
               PROVE  (c \o b)[k] = IF k <= pos THEN es[k]
                                    ELSE IF k = pos + 1 THEN e ELSE es[k - 1]
    OBVIOUS
  <2> HIDE DEF n
  <2>1. CASE k <= pos + 1
    <3>1. k \in 1 .. pos + 1 /\ (k <= pos \/ k = pos + 1) /\ ~(k = pos + 1 /\ k <= pos)
      BY <1>1, <2>1
    <3> QED
      BY <1>5, <1>6, <3>1, <2>1
  <2>2. CASE k > pos + 1
    <3>1. k - (pos + 1) \in 1 .. n - pos /\ pos + (k - (pos + 1)) = k - 1
          /\ ~(k <= pos + 1) /\ ~(k <= pos) /\ k # pos + 1
      BY <1>1, <2>2
    <3> QED
      BY <1>3, <1>6, <3>1
  <2>3. k <= pos + 1 \/ k > pos + 1
    BY <1>1
  <2> QED
    BY <2>1, <2>2, <2>3
<1>8. InsertAt(es, pos, e) = c \o b
  BY DEF InsertAt, a, b, c
<1>9. InsertsAt(es, pos, e, c \o b)
  BY <1>1, <1>6, <1>7 DEF InsertsAt, n
<1> QED
  BY <1>6, <1>8, <1>9

\* With another entry there is one element more.
LEMMA InsertAtHolds ==
    ASSUME NEW S, NEW es \in Seq(S), NEW pos \in 0 .. Len(es), NEW e \in S
    PROVE  HeldIn(InsertAt(es, pos, e)) = HeldIn(es) \cup {e}
<1> DEFINE r == InsertAt(es, pos, e)
           n == Len(es)
<1>1. /\ Len(r) = n + 1 /\ n \in Nat /\ pos \in Nat /\ pos <= n
      /\ \A k \in 1 .. n + 1 :
            r[k] = IF k <= pos THEN es[k] ELSE IF k = pos + 1 THEN e ELSE es[k - 1]
  <2>1. InsertsAt(es, pos, e, r)
    BY InsertAtIs
  <2>2. pos \in Nat /\ pos <= n
    BY LenProperties
  <2> HIDE DEF r
  <2> QED
    BY <2>1, <2>2 DEF InsertsAt
<1> HIDE DEF r, n
<1>2. ASSUME NEW k \in 1 .. n + 1
      PROVE  r[k] \in {es[j] : j \in 1 .. n} \cup {e}
  <2>1. CASE k <= pos
    BY <1>1, <2>1
  <2>2. CASE k = pos + 1
    BY <1>1, <2>2
  <2>3. CASE k > pos + 1
    <3>1. k - 1 \in 1 .. n /\ ~(k <= pos) /\ k # pos + 1
      BY <1>1, <2>3
    <3> QED
      BY <1>1, <3>1
  <2> QED
    BY <1>1, <2>1, <2>2, <2>3
<1>3. ASSUME NEW j \in 1 .. n
      PROVE  es[j] \in {r[k] : k \in 1 .. n + 1}
  <2>1. CASE j <= pos
    <3>1. j \in 1 .. n + 1
      BY <1>1
    <3> QED
      BY <1>1, <2>1, <3>1
  <2>2. CASE j > pos
    <3>1. j + 1 \in 1 .. n + 1 /\ ~(j + 1 <= pos) /\ j + 1 # pos + 1 /\ (j + 1) - 1 = j
      BY <1>1, <2>2
    <3>2. r[j + 1] = es[j]
      BY <1>1, <3>1
    <3> QED
      BY <3>1, <3>2
  <2> QED
    BY <1>1, <2>1, <2>2
<1>4. e \in {r[k] : k \in 1 .. n + 1}
  <2>1. pos + 1 \in 1 .. n + 1 /\ ~(pos + 1 <= pos)
    BY <1>1
  <2> QED
    BY <1>1, <2>1
<1>5. {r[k] : k \in 1 .. n + 1} = {es[j] : j \in 1 .. n} \cup {e}
  BY <1>2, <1>3, <1>4
<1>6. HeldIn(r) = {r[k] : k \in 1 .. n + 1} /\ HeldIn(es) = {es[j] : j \in 1 .. n}
  BY <1>1 DEF HeldIn, n
<1> QED
  BY <1>5, <1>6 DEF r

\* Promotion: the entries sorted, and the ends of their groups counted.
LEMMA BuildIsInOrder ==
    ASSUME NEW es \in Seq(EntryType), Apart(es), Len(es) > PromoteThreshold,
           NEW b, b = Build(es)
    PROVE  /\ GroupedInOrder(b) /\ b.entries \in Seq(EntryType)
           /\ Len(b.entries) = Len(es)
           /\ HeldIn(b.entries) = HeldIn(es)
           /\ NeverTwice(b.entries)
<1> DEFINE n == Len(es)
           all == {es[k] : k \in 1 .. n}
           R == {p \in all \X all : GroupOrder(p[1], p[2])}
           Sorts(s) == /\ \A e \in all : \E k \in 1 .. n : s[k] = e
                       /\ \A j, k \in 1 .. n : j < k => ~GroupOrder(s[k], s[j])
           sorted == CHOOSE s \in [1 .. n -> all] : Sorts(s)
           atLeast(v) == Cardinality({e \in all : e.slen >= v})
           ends == [v \in 1 .. MaxSuffixLen + 1 |-> atLeast(v)]
<1>1. /\ n \in Nat
      /\ \A e \in all : /\ e \in EntryType /\ e.suffix \in Word /\ e.slen \in Nat
                        /\ e.slen >= 1 /\ e.slen <= WordSize
  BY EntriesTyped
<1>2. \A x, y \in all : x.slen = y.slen /\ x.suffix = y.suffix => x = y
  BY DEF Apart
<1>3. IsFiniteSet(all) /\ Cardinality(all) = n
  <2> DEFINE f == [k \in 1 .. n |-> es[k]]
  <2>1. f \in [1 .. n -> all] /\ \A x \in all : \E k \in 1 .. n : f[k] = x
    OBVIOUS
  <2>2. \A j, k \in 1 .. n : f[j] = f[k] => j = k
    BY DEF Apart
  <2> HIDE DEF f, n, all
  <2> QED
    BY <1>1, <2>1, <2>2, ListSize
<1>4. \A x, y \in all : <<x, y>> \in R <=> GroupOrder(x, y)
  OBVIOUS
<1> HIDE DEF n, all, R
<1>5. Orders(R, all)
  <2>1. ASSUME NEW x \in all
        PROVE  <<x, x>> \notin R
    BY <1>1, <1>4, WordLessOrders DEF GroupOrder
  <2>2. ASSUME NEW x \in all, NEW y \in all, NEW z \in all, <<x, y>> \in R, <<y, z>> \in R
        PROVE  <<x, z>> \in R
    <3>1. GroupOrder(x, y) /\ GroupOrder(y, z)
      BY <1>4, <2>2
    <3>2. /\ x.slen \in Nat /\ y.slen \in Nat /\ z.slen \in Nat
          /\ x.suffix \in Word /\ y.suffix \in Word /\ z.suffix \in Word
      BY <1>1
    <3>3. x.slen = z.slen => WordLess(x.suffix, y.suffix) /\ WordLess(y.suffix, z.suffix)
      BY <3>1, <3>2 DEF GroupOrder
    <3>4. x.slen >= z.slen
      BY <3>1, <3>2 DEF GroupOrder
    <3>5. x.slen = z.slen => WordLess(x.suffix, z.suffix)
      BY <3>2, <3>3, WordLessOrders
    <3>6. GroupOrder(x, z)
      BY <3>2, <3>4, <3>5 DEF GroupOrder
    <3> QED
      BY <1>4, <3>6
  <2>3. ASSUME NEW x \in all, NEW y \in all, x # y
        PROVE  <<x, y>> \in R \/ <<y, x>> \in R
    <3>1. /\ x.slen \in Nat /\ y.slen \in Nat /\ x.suffix \in Word /\ y.suffix \in Word
      BY <1>1
    <3>2. x.slen # y.slen => x.slen > y.slen \/ y.slen > x.slen
      BY <3>1
    <3>3. x.slen = y.slen => WordLess(x.suffix, y.suffix) \/ WordLess(y.suffix, x.suffix)
      BY <1>2, <2>3, <3>1, WordLessOrders
    <3>4. GroupOrder(x, y) \/ GroupOrder(y, x)
      BY <3>2, <3>3 DEF GroupOrder
    <3> QED
      BY <1>4, <3>4
  <2> QED
    BY <2>1, <2>2, <2>3 DEF Orders
<1>6. \A x, y \in all : <<x, y>> \in R => <<y, x>> \notin R
  BY <1>5 DEF Orders
<1>7. sorted \in [1 .. n -> all] /\ Sorts(sorted)
  <2>1. PICK f \in [1 .. n -> all] :
            /\ \A x \in all : \E k \in 1 .. n : f[k] = x
            /\ \A j, k \in 1 .. n : j < k => <<f[j], f[k]>> \in R
    BY <1>3, <1>5, SortedList
  <2>2. \A j, k \in 1 .. n : j < k => ~GroupOrder(f[k], f[j])
    BY <1>4, <1>6, <2>1
  <2>3. Sorts(f)
    BY <2>1, <2>2
  <2> HIDE DEF Sorts
  <2> QED
    BY <2>3
<1> HIDE DEF sorted
<1>8. \A j, k \in 1 .. n : sorted[j] = sorted[k] => j = k
  BY <1>3, <1>7, ListedOnce
<1>9. \A j, k \in 1 .. n : j < k => GroupOrder(sorted[j], sorted[k])
  <2> SUFFICES ASSUME NEW j \in 1 .. n, NEW k \in 1 .. n, j < k
               PROVE  GroupOrder(sorted[j], sorted[k])
    OBVIOUS
  <2>1. sorted[j] \in all /\ sorted[k] \in all
    BY <1>7
  <2>2. j # k
    BY <1>1
  <2>3. sorted[j] # sorted[k]
    BY <1>8, <2>2
  <2>4. ~GroupOrder(sorted[k], sorted[j])
    BY <1>7
  <2>5. <<sorted[j], sorted[k]>> \in R \/ <<sorted[k], sorted[j]>> \in R
    BY <1>5, <2>1, <2>3 DEF Orders
  <2> QED
    BY <1>4, <2>1, <2>4, <2>5
<1>10. {sorted[k] : k \in 1 .. n} = all
  BY <1>7
<1>11. /\ sorted \in Seq(EntryType) /\ Len(sorted) = n
       /\ \A k \in 1 .. n : /\ sorted[k] \in all /\ sorted[k].slen \in Nat
                            /\ sorted[k].slen >= 1 /\ sorted[k].slen <= WordSize
  <2>1. all \subseteq EntryType
    BY <1>1
  <2>2. sorted \in [1 .. n -> EntryType]
    BY <1>7, <2>1
  <2>3. sorted \in Seq(EntryType) /\ Len(sorted) = n
    BY <1>1, <2>2
  <2>4. \A k \in 1 .. n : sorted[k] \in all
    BY <1>7
  <2> QED
    BY <1>1, <2>3, <2>4
<1>12. \A j, k \in 1 .. n : j < k => sorted[j].slen >= sorted[k].slen
  BY <1>9, <1>11 DEF GroupOrder
<1>13. ASSUME NEW v \in Nat
       PROVE  atLeast(v) \in 0 .. n /\ \A k \in 1 .. n : sorted[k].slen >= v <=> k <= atLeast(v)
  <2> DEFINE C == {k \in 1 .. n : sorted[k].slen >= v}
             c == Cardinality(C)
  <2>1. C \in SUBSET (1 .. n) /\ \A k \in C : \A j \in 1 .. k : j \in C
    <3> SUFFICES ASSUME NEW k \in C, NEW j \in 1 .. k
                 PROVE  j \in C
      OBVIOUS
    <3>1. k \in 1 .. n /\ j \in 1 .. n /\ (j < k \/ j = k) /\ sorted[k].slen >= v
      BY <1>1
    <3>2. sorted[j].slen >= sorted[k].slen
      BY <1>11, <1>12, <3>1
    <3>3. sorted[j].slen >= v
      BY <1>11, <3>1, <3>2
    <3> QED
      BY <3>1, <3>3
  <2>2. c \in 0 .. n /\ \A k \in 1 .. n : k \in C <=> k <= c
    <3> HIDE DEF C
    <3> QED
      BY <1>1, <2>1, InitialSegment
  <2>3. \A k \in 1 .. n : k \in C <=> sorted[k].slen >= v
    OBVIOUS
  <2> HIDE DEF C, c
  <2>4. \A k \in 1 .. n : sorted[k].slen >= v <=> k <= c
    BY <2>2, <2>3
  <2> DEFINE T == {e \in all : e.slen >= v}
             f == [k \in 1 .. c |-> sorted[k]]
  <2>5. c \in Nat /\ \A k \in 1 .. c : k \in 1 .. n
    BY <1>1, <2>2
  <2>6. f \in [1 .. c -> T]
    <3>1. \A k \in 1 .. c : sorted[k] \in all /\ sorted[k].slen >= v
      BY <1>11, <2>4, <2>5
    <3> QED
      BY <3>1
  <2>7. \A x \in T : \E k \in 1 .. c : f[k] = x
    <3> SUFFICES ASSUME NEW x \in all, x.slen >= v
                 PROVE  \E k \in 1 .. c : f[k] = x
      OBVIOUS
    <3>1. PICK k \in 1 .. n : sorted[k] = x
      BY <1>7
    <3>2. k <= c
      BY <2>4, <3>1
    <3>3. k \in 1 .. c
      BY <1>1, <2>5, <3>2
    <3> QED
      BY <3>1, <3>3
  <2>8. \A j, k \in 1 .. c : f[j] = f[k] => j = k
    BY <1>8, <2>5
  <2>9. Cardinality(T) = c
    <3> HIDE DEF T, f
    <3> QED
      BY <2>5, <2>6, <2>7, <2>8, ListSize
  <2>10. atLeast(v) = c
    BY <2>9
  <2> QED
    BY <2>2, <2>4, <2>10
<1> HIDE DEF atLeast
<1>14. b = Grouped(sorted, ends, {e.slen : e \in all})
  BY DEF Build, n, all, sorted, atLeast
<1>15. b.entries = sorted /\ b.ends = ends /\ b.present = {e.slen : e \in all}
  BY <1>14 DEF Grouped
<1>16. ends \in [1 .. MaxSuffixLen + 1 -> 0 .. n]
  <2>1. \A v \in 1 .. MaxSuffixLen + 1 : v \in Nat
    BY Sizes
  <2> QED
    BY <1>13, <2>1
<1>17. \A v \in 1 .. MaxSuffixLen + 1, k \in 1 .. n : sorted[k].slen >= v <=> k <= ends[v]
  <2> SUFFICES ASSUME NEW v \in 1 .. MaxSuffixLen + 1
               PROVE  \A k \in 1 .. n : sorted[k].slen >= v <=> k <= ends[v]
    OBVIOUS
  <2>1. v \in Nat /\ ends[v] = atLeast(v)
    BY Sizes
  <2> QED
    BY <1>13, <2>1
<1>18. {e.slen : e \in all} = {sorted[k].slen : k \in 1 .. n}
  BY <1>7, <1>10
<1>19. \A j, k \in 1 .. n : j < k /\ sorted[j].slen = sorted[k].slen
            => WordLess(sorted[j].suffix, sorted[k].suffix)
  BY <1>9, <1>11 DEF GroupOrder
<1>20. b = Grouped(b.entries, b.ends, b.present)
  BY <1>14, <1>15
<1> HIDE DEF ends
<1>21. GroupedInOrder(b)
  <2>1. n > PromoteThreshold
    BY DEF n
  <2> QED
    BY <1>11, <1>15, <1>16, <1>17, <1>18, <1>19, <1>20, <2>1 DEF GroupedInOrder
<1>22. all = {es[k] : k \in 1 .. Len(es)} /\ n = Len(es)
  BY DEF all, n
<1>23. /\ b.entries \in Seq(EntryType) /\ Len(b.entries) = n
       /\ {b.entries[k] : k \in 1 .. n} = all
       /\ \A j, k \in 1 .. n : b.entries[j] = b.entries[k] => j = k
  BY <1>8, <1>10, <1>11, <1>15
<1>24. HeldIn(b.entries) = HeldIn(es)
  BY <1>22, <1>23 DEF HeldIn
<1>25. NeverTwice(b.entries)
  BY <1>23 DEF NeverTwice
<1>26. Len(b.entries) = Len(es)
  BY <1>22, <1>23
<1> QED
  BY <1>21, <1>23, <1>24, <1>25, <1>26

\* A linear bucket with another entry.
LEMMA LinearInsertion ==
    ASSUME NEW es \in Seq(EntryType), Falling(es), NEW e \in EntryType
    PROVE  /\ LinearPos(es, e) \in 0 .. Len(es)
           /\ Falling(InsertAt(es, LinearPos(es, e), e))
<1> DEFINE n == Len(es)
           S == {k \in 1 .. n : es[k].slen > e.slen}
           pos == LinearPos(es, e)
           r == InsertAt(es, pos, e)
<1>1. n \in Nat /\ \A k \in 1 .. n : es[k].slen \in Nat
  BY EntriesTyped
<1>2. e.slen \in Nat
  BY Sizes DEF EntryType
<1>3. \A j, k \in 1 .. n : j < k => es[j].slen >= es[k].slen
  BY DEF Falling
<1>4. pos = Cardinality(S)
  BY DEF LinearPos
<1> HIDE DEF n
<1>5. S \in SUBSET (1 .. n) /\ \A k \in S : \A j \in 1 .. k : j \in S
  <2> SUFFICES ASSUME NEW k \in S, NEW j \in 1 .. k
               PROVE  j \in S
    OBVIOUS
  <2>1. k \in 1 .. n /\ j \in 1 .. n /\ (j < k \/ j = k) /\ es[k].slen > e.slen
    BY <1>1
  <2>2. j < k => es[j].slen >= es[k].slen
    BY <1>3, <2>1
  <2>3. es[j].slen > e.slen
    BY <1>1, <1>2, <2>1, <2>2
  <2> QED
    BY <2>1, <2>3
<1>6. \A k \in 1 .. n : k \in S <=> es[k].slen > e.slen
  OBVIOUS
<1> HIDE DEF S, pos
<1>7. pos \in 0 .. n /\ \A k \in 1 .. n : es[k].slen > e.slen <=> k <= pos
  BY <1>1, <1>4, <1>5, <1>6, InitialSegment
<1>8. /\ Len(r) = n + 1
      /\ \A k \in 1 .. n + 1 :
            r[k] = IF k <= pos THEN es[k] ELSE IF k = pos + 1 THEN e ELSE es[k - 1]
  <2>1. pos \in 0 .. Len(es)
    BY <1>7 DEF n
  <2>2. InsertsAt(es, pos, e, r)
    BY <2>1, InsertAtIs
  <2> HIDE DEF r
  <2> QED
    BY <2>2 DEF InsertsAt, n
<1> HIDE DEF r
<1>9. ASSUME NEW j \in 1 .. n + 1, NEW k \in 1 .. n + 1, j < k
      PROVE  r[j].slen >= r[k].slen
  <2>1. CASE k <= pos
    <3>1. j \in 1 .. n /\ k \in 1 .. n /\ j <= pos
      BY <1>1, <1>7, <1>9, <2>1
    <3> QED
      BY <1>3, <1>8, <1>9, <2>1, <3>1
  <2>2. CASE k = pos + 1
    <3>1. j \in 1 .. n /\ j <= pos
      BY <1>1, <1>7, <1>9, <2>2
    <3>2. r[j] = es[j] /\ r[k] = e /\ es[j].slen > e.slen
      BY <1>1, <1>7, <1>8, <2>2, <3>1
    <3> QED
      BY <1>1, <1>2, <3>1, <3>2
  <2>3. CASE k > pos + 1
    <3>1. k - 1 \in 1 .. n /\ ~(k <= pos) /\ k # pos + 1 /\ ~(k - 1 <= pos)
      BY <1>1, <1>7, <2>3
    <3>2. r[k] = es[k - 1] /\ ~(es[k - 1].slen > e.slen)
      BY <1>7, <1>8, <3>1
    <3>3. CASE j <= pos
      <4>1. j \in 1 .. n /\ j < k - 1
        BY <1>1, <1>7, <2>3, <3>3
      <4> QED
        BY <1>3, <1>8, <3>1, <3>2, <3>3, <4>1
    <3>4. CASE j = pos + 1
      <4>1. r[j] = e
        BY <1>1, <1>7, <1>8, <3>4
      <4>2. es[k - 1].slen \in Nat
        BY <1>1, <3>1
      <4> QED
        BY <1>2, <3>2, <4>1, <4>2
    <3>5. CASE j > pos + 1
      <4>1. j - 1 \in 1 .. n /\ ~(j <= pos) /\ j # pos + 1 /\ j - 1 < k - 1
        BY <1>1, <1>7, <1>9, <3>5
      <4>2. r[j] = es[j - 1]
        BY <1>8, <4>1
      <4> QED
        BY <1>3, <3>1, <3>2, <4>1, <4>2
    <3> QED
      BY <1>7, <3>3, <3>4, <3>5
  <2> QED
    BY <1>1, <1>7, <2>1, <2>2, <2>3
<1>10. Falling(r)
  BY <1>8, <1>9 DEF Falling
<1> QED
  BY <1>7, <1>10 DEF n, r, pos

\* The group of a suffix length lies between two of the ends.
LEMMA GroupIs ==
    ASSUME NEW b, b.entries \in Seq(EntryType), GroupedInOrder(b), NEW v \in 1 .. MaxSuffixLen
    PROVE  /\ b.ends[v] \in Nat /\ b.ends[v + 1] \in Nat
           /\ b.ends[v + 1] <= b.ends[v] /\ b.ends[v] <= Len(b.entries)
           /\ \A k \in 1 .. Len(b.entries) :
                b.entries[k].slen = v <=> k \in b.ends[v + 1] + 1 .. b.ends[v]
<1> DEFINE es == b.entries
           n == Len(es)
           ends == b.ends
           M == MaxSuffixLen + 1
<1>1. n \in Nat /\ \A k \in 1 .. n : es[k].slen \in Nat
  BY EntriesTyped
<1>2. v \in Nat /\ v \in 1 .. M /\ v + 1 \in 1 .. M
  BY Sizes
<1>3. ends \in [1 .. M -> 0 .. n]
  BY DEF GroupedInOrder
<1>4. \A a \in 1 .. M, k \in 1 .. n : es[k].slen >= a <=> k <= ends[a]
  BY DEF GroupedInOrder
<1> HIDE DEF es, n, ends, M
<1>10. ends[v] \in Nat /\ ends[v] <= n /\ ends[v + 1] \in Nat /\ ends[v + 1] <= n
  BY <1>1, <1>2, <1>3
<1>11. \A k \in 1 .. n : es[k].slen = v <=> k \in ends[v + 1] + 1 .. ends[v]
  <2> SUFFICES ASSUME NEW k \in 1 .. n
               PROVE  es[k].slen = v <=> k \in ends[v + 1] + 1 .. ends[v]
    OBVIOUS
  <2>1. (es[k].slen >= v <=> k <= ends[v]) /\ (es[k].slen >= v + 1 <=> k <= ends[v + 1])
    BY <1>2, <1>4
  <2>2. es[k].slen \in Nat /\ ends[v] \in Nat /\ ends[v + 1] \in Nat /\ k \in Nat
    BY <1>1, <1>10
  <2> DEFINE x == es[k].slen
             p == ends[v]
             q == ends[v + 1]
  <2> HIDE DEF x, p, q
  <2>3. (x >= v <=> k <= p) /\ (x >= v + 1 <=> k <= q) /\ x \in Nat /\ p \in Nat /\ q \in Nat
    BY <2>1, <2>2 DEF x, p, q
  <2>4. x = v <=> k \in q + 1 .. p
    BY <1>2, <2>2, <2>3
  <2> QED
    BY <2>4 DEF x, p, q
<1>12. ends[v + 1] <= ends[v]
  <2>1. CASE ends[v + 1] = 0
    BY <1>2, <1>10, <2>1
  <2>2. CASE ends[v + 1] # 0
    <3>1. ends[v + 1] \in 1 .. n
      BY <1>2, <1>10, <2>2
    <3>2. ends[v + 1] <= ends[v + 1]
      BY <3>1
    <3>3. es[ends[v + 1]].slen >= v + 1
      BY <1>2, <1>4, <3>1, <3>2
    <3>4. es[ends[v + 1]].slen >= v
      BY <1>1, <1>2, <3>1, <3>3
    <3> QED
      BY <1>2, <1>4, <3>1, <3>4
  <2> QED
    BY <2>1, <2>2
<1> QED
  BY <1>10, <1>11, <1>12 DEF es, n, ends

\* A promoted bucket with another entry.
LEMMA GroupedInsertion ==
    ASSUME NEW b, b.entries \in Seq(EntryType), GroupedInOrder(b), Apart(b.entries),
           NEW e \in EntryType,
           \A k \in 1 .. Len(b.entries) :
                ~(b.entries[k].slen = e.slen /\ b.entries[k].suffix = e.suffix)
    PROVE  /\ GroupPos(b, e) \in 0 .. Len(b.entries)
           /\ GroupedInOrder(GroupedInserted(b, e))
           /\ GroupedInserted(b, e).entries = InsertAt(b.entries, GroupPos(b, e), e)
<1> DEFINE es == b.entries
           n == Len(es)
           v == e.slen
           ends == b.ends
           G == {k \in ends[v + 1] + 1 .. ends[v] : WordLess(es[k].suffix, e.suffix)}
           H == (1 .. ends[v + 1]) \cup G
           pos == GroupPos(b, e)
           r == InsertAt(es, pos, e)
           moved == [at \in DOMAIN ends |-> ends[at] + (IF EndMoves(v, at) THEN 1 ELSE 0)]
           with == b.present \cup {v}
           M == MaxSuffixLen + 1
<1>1. /\ n \in Nat
      /\ \A k \in 1 .. n : /\ es[k].slen \in Nat /\ es[k].slen >= 1 /\ es[k].slen <= WordSize
                           /\ es[k].suffix \in Word
  BY EntriesTyped
<1>0. n \in Nat
  BY <1>1
<1>2. v \in 1 .. WordSize /\ v \in 1 .. M /\ v + 1 \in 1 .. M /\ e.suffix \in Word /\ v \in Nat
  BY Sizes DEF EntryType
<1>3. /\ ends \in [1 .. M -> 0 .. n] /\ n > PromoteThreshold
      /\ b.present = {es[k].slen : k \in 1 .. n}
  BY DEF GroupedInOrder
<1>4. \A a \in 1 .. M, k \in 1 .. n : es[k].slen >= a <=> k <= ends[a]
  BY DEF GroupedInOrder
<1>5. \A j, k \in 1 .. n : j < k /\ es[j].slen = es[k].slen => WordLess(es[j].suffix, es[k].suffix)
  BY DEF GroupedInOrder
<1>6. pos = ends[v + 1] + Cardinality(G)
  BY DEF GroupPos
<1>7. GroupedInserted(b, e) = Grouped(r, moved, with)
  BY DEF GroupedInserted
<1>8. \A k \in 1 .. n : ~(es[k].slen = v /\ es[k].suffix = e.suffix)
  OBVIOUS
<1>9. DOMAIN ends = 1 .. M
  BY <1>3
<1> HIDE DEF es, n, v, ends, pos, M
<1>10. M \in Nat /\ \A a \in 1 .. M : ends[a] \in Nat /\ ends[a] <= n /\ a \in Nat
  BY <1>1, <1>3, Sizes DEF M
<1>11. \A k \in 1 .. n : es[k].slen = v <=> k \in ends[v + 1] + 1 .. ends[v]
  <2>1. v \in 1 .. MaxSuffixLen
    BY <1>2, Sizes
  <2> QED
    BY <2>1, GroupIs DEF es, n, ends
<1>12. ends[v + 1] <= ends[v]
  <2>1. v \in 1 .. MaxSuffixLen
    BY <1>2, Sizes
  <2> QED
    BY <2>1, GroupIs DEF ends
<1> DEFINE q == ends[v + 1]
           p == ends[v]
<1>13. q \in Nat /\ p \in Nat /\ q <= p /\ p <= n
  BY <1>2, <1>10, <1>12
<1>14. \A k \in 1 .. n : es[k].slen = v <=> k \in q + 1 .. p
  BY <1>11
<1>15. pos = q + Cardinality(G) /\ G = {k \in q + 1 .. p : WordLess(es[k].suffix, e.suffix)}
  BY <1>6
<1> HIDE DEF q, p, G
<1>16. G \in SUBSET (1 .. n) /\ IsFiniteSet(G) /\ (1 .. q) \cap G = {}
  <2>1. G \in SUBSET (1 .. n)
    BY <1>1, <1>13, <1>15
  <2>2. IsFiniteSet(1 .. n)
    BY <1>1, IntervalSize
  <2>3. (1 .. q) \cap G = {}
    BY <1>13, <1>15
  <2> QED
    BY <2>1, <2>2, <2>3, FS_Subset
<1>17. H = (1 .. q) \cup G
  BY DEF H, q
<1> HIDE DEF H
<1>18. H \in SUBSET (1 .. n) /\ Cardinality(H) = pos
  <2>1. H \in SUBSET (1 .. n)
    BY <1>1, <1>13, <1>16, <1>17
  <2>2. IsFiniteSet(1 .. q) /\ Cardinality(1 .. q) = q
    BY <1>13, IntervalSize
  <2>3. Cardinality(H) = q + Cardinality(G) - Cardinality((1 .. q) \cap G)
    BY <1>16, <1>17, <2>2, FS_Union
  <2>4. Cardinality((1 .. q) \cap G) = 0 /\ Cardinality(G) \in Nat
    BY <1>16, FS_EmptySet, FS_CardinalityType
  <2>5. Cardinality(H) = q + Cardinality(G)
    BY <1>13, <2>3, <2>4
  <2> QED
    BY <1>15, <2>1, <2>5
<1>19. \A k \in H : \A j \in 1 .. k : j \in H
  <2> SUFFICES ASSUME NEW k \in H, NEW j \in 1 .. k
               PROVE  j \in H
    OBVIOUS
  <2>1. k \in 1 .. n /\ j \in 1 .. n /\ k \in Nat /\ j \in Nat /\ j <= k
    BY <1>1, <1>18
  <2>2. CASE j <= q
    BY <1>13, <1>17, <2>1, <2>2
  <2>3. CASE j > q /\ j = k
    BY <2>3
  <2>4. CASE j > q /\ j < k
    <3>1. k \in G
      BY <1>13, <1>17, <2>1, <2>4
    <3>2. k \in q + 1 .. p /\ WordLess(es[k].suffix, e.suffix)
      BY <1>15, <3>1
    <3>3. j \in q + 1 .. p
      BY <1>13, <2>1, <2>4, <3>2
    <3>4. es[j].slen = es[k].slen
      BY <1>14, <2>1, <3>2, <3>3
    <3>5. WordLess(es[j].suffix, es[k].suffix)
      BY <1>5, <2>1, <2>4, <3>4
    <3>6. WordLess(es[j].suffix, e.suffix)
      BY <1>1, <1>2, <2>1, <3>2, <3>5, WordLessOrders
    <3> QED
      BY <1>15, <1>17, <3>3, <3>6
  <2>5. j <= q \/ (j > q /\ j = k) \/ (j > q /\ j < k)
    BY <1>13, <2>1
  <2> QED
    BY <2>2, <2>3, <2>4, <2>5
<1>20. pos \in 0 .. n /\ \A k \in 1 .. n : k \in H <=> k <= pos
  BY <1>1, <1>18, <1>19, InitialSegment
<1>21. q <= pos /\ pos <= p /\ pos \in Nat
  <2>1. pos \in Nat
    BY <1>20
  <2>2. Cardinality(G) \in Nat
    BY <1>16, FS_CardinalityType
  <2>3. q <= pos
    BY <1>13, <1>15, <2>2
  <2>4. ASSUME p < pos
        PROVE  FALSE
    <3>1. pos \in 1 .. n /\ pos <= pos
      BY <1>13, <1>20, <2>1, <2>4
    <3>2. pos \in H
      BY <1>20, <3>1
    <3>3. pos \in G \/ pos \in 1 .. q
      BY <1>17, <3>2
    <3> QED
      BY <1>13, <1>15, <2>1, <2>4, <3>3
  <2>5. pos <= p
    BY <1>13, <2>1, <2>4
  <2> QED
    BY <2>1, <2>3, <2>5
<1>22. \A k \in q + 1 .. p : k <= pos <=> WordLess(es[k].suffix, e.suffix)
  <2> SUFFICES ASSUME NEW k \in q + 1 .. p
               PROVE  k <= pos <=> WordLess(es[k].suffix, e.suffix)
    OBVIOUS
  <2>1. k \in 1 .. n /\ ~(k \in 1 .. q)
    BY <1>1, <1>13
  <2>2. k \in H <=> k \in G
    BY <1>17, <2>1
  <2> QED
    BY <1>15, <1>20, <2>1, <2>2
<1>23. /\ Len(r) = n + 1
       /\ \A k \in 1 .. n + 1 :
            r[k] = IF k <= pos THEN es[k] ELSE IF k = pos + 1 THEN e ELSE es[k - 1]
  <2>1. es \in Seq(EntryType) /\ e \in EntryType /\ pos \in 0 .. Len(es) /\ Len(es) = n
    BY <1>20 DEF n, es
  <2> HIDE DEF r
  <2>2. /\ Len(InsertAt(es, pos, e)) = Len(es) + 1
        /\ \A k \in 1 .. Len(es) + 1 :
            InsertAt(es, pos, e)[k] = IF k <= pos THEN es[k] ELSE IF k = pos + 1 THEN e ELSE es[k - 1]
    <3>1. InsertsAt(es, pos, e, InsertAt(es, pos, e))
      BY <2>1, InsertAtIs
    <3> QED
      BY <3>1 DEF InsertsAt
  <2> QED
    BY <2>1, <2>2 DEF r
<1>24. {r[k] : k \in 1 .. n + 1} = {es[k] : k \in 1 .. n} \cup {e}
  <2>1. es \in Seq(EntryType) /\ e \in EntryType /\ pos \in 0 .. Len(es) /\ Len(es) = n
    BY <1>20 DEF n, es
  <2>2. HeldIn(r) = HeldIn(es) \cup {e}
    BY <2>1, InsertAtHolds
  <2> HIDE DEF r
  <2> QED
    BY <1>23, <2>1, <2>2 DEF HeldIn
<1> HIDE DEF r
<1>25. \A a \in 1 .. M : moved[a] = IF a <= v THEN ends[a] + 1 ELSE ends[a]
  <2> SUFFICES ASSUME NEW a \in 1 .. M
               PROVE  moved[a] = IF a <= v THEN ends[a] + 1 ELSE ends[a]
    OBVIOUS
  <2>1. moved[a] = ends[a] + (IF a <= v THEN 1 ELSE 0)
    BY <1>9 DEF EndMoves
  <2> HIDE DEF moved
  <2>2. ends[a] + 0 = ends[a]
    BY <1>10
  <2> QED
    BY <2>1, <2>2
<1>26. moved \in [1 .. M -> 0 .. n + 1]
  <2>1. moved = [a \in 1 .. M |-> moved[a]]
    BY <1>9
  <2> HIDE DEF moved
  <2>2. \A a \in 1 .. M : moved[a] \in 0 .. n + 1
    BY <1>1, <1>10, <1>25
  <2> QED
    BY <2>1, <2>2
<1> HIDE DEF moved
<1>27. \A a \in 1 .. M : /\ a <= v => p <= ends[a]
                         /\ a > v => ends[a] <= q
  <2> SUFFICES ASSUME NEW a \in 1 .. M
               PROVE  (a <= v => p <= ends[a]) /\ (a > v => ends[a] <= q)
    OBVIOUS
  <2>1. a \in Nat /\ ends[a] \in Nat /\ ends[a] <= n
    BY <1>10
  <2>2. ASSUME a <= v, p > 0
        PROVE  p <= ends[a]
    <3>1. p \in 1 .. n /\ p <= p
      BY <1>13, <2>2
    <3>2. es[p].slen >= v
      BY <1>2, <1>4, <3>1 DEF p
    <3>3. es[p].slen >= a
      BY <1>1, <1>2, <2>1, <2>2, <3>1, <3>2
    <3> QED
      BY <1>4, <3>1, <3>3
  <2>3. ASSUME a > v, ends[a] > 0
        PROVE  ends[a] <= q
    <3> DEFINE k == ends[a]
    <3>1. k \in 1 .. n /\ k <= ends[a]
      BY <2>1, <2>3
    <3>2. es[k].slen >= a
      BY <1>4, <3>1
    <3>3. es[k].slen >= v + 1
      BY <1>1, <1>2, <2>1, <2>3, <3>1, <3>2
    <3>4. k <= ends[v + 1]
      BY <1>2, <1>4, <3>1, <3>3
    <3> QED
      BY <3>4 DEF q
  <2> QED
    BY <1>13, <2>1, <2>2, <2>3
<1>28. ASSUME NEW a \in 1 .. M, NEW k \in 1 .. n + 1
       PROVE  r[k].slen >= a <=> k <= moved[a]
  <2> DEFINE d == ends[a]
             m == moved[a]
  <2>1. d \in Nat /\ d <= n /\ a \in Nat /\ k \in Nat
    BY <1>10
  <2>2. m = IF a <= v THEN d + 1 ELSE d
    BY <1>25
  <2>3. (a <= v => p <= d) /\ (a > v => d <= q)
    BY <1>27
  <2>4. \A i \in 1 .. n : es[i].slen >= a <=> i <= d
    BY <1>4
  <2> HIDE DEF d, m
  <2>5. ASSUME k <= pos
        PROVE  r[k].slen >= a <=> k <= m
    <3>1. k \in 1 .. n /\ r[k] = es[k]
      BY <1>0, <1>20, <1>21, <1>23, <2>1, <2>5
    <3>2. r[k].slen >= a <=> k <= d
      BY <2>4, <3>1
    <3>3. a <= v => k <= d
      BY <1>13, <1>21, <2>1, <2>3, <2>5
    <3>4. k <= d <=> k <= m
      BY <1>2, <2>1, <2>2, <3>3
    <3> QED
      BY <3>2, <3>4
  <2>6. ASSUME k = pos + 1
        PROVE  r[k].slen >= a <=> k <= m
    <3>1. r[k] = e
      BY <1>21, <1>23, <2>6
    <3>2. r[k].slen = v
      BY <3>1 DEF v
    <3>3. a <= v => k <= m
      BY <1>13, <1>21, <2>1, <2>2, <2>3, <2>6
    <3>4. a > v => ~(k <= m)
      BY <1>2, <1>13, <1>21, <2>1, <2>2, <2>3, <2>6
    <3> QED
      BY <1>2, <2>1, <3>2, <3>3, <3>4
  <2>7. ASSUME k > pos + 1
        PROVE  r[k].slen >= a <=> k <= m
    <3>1. k - 1 \in 1 .. n /\ r[k] = es[k - 1]
      BY <1>1, <1>21, <1>23, <2>1, <2>7
    <3>2. r[k].slen >= a <=> k - 1 <= d
      BY <2>4, <3>1
    <3>3. k - 1 <= d <=> k <= m
      BY <1>2, <1>13, <1>21, <2>1, <2>2, <2>3, <2>7
    <3> QED
      BY <3>2, <3>3
  <2>8. k <= pos \/ k = pos + 1 \/ k > pos + 1
    BY <1>21, <2>1
  <2>9. r[k].slen >= a <=> k <= m
    BY <2>5, <2>6, <2>7, <2>8
  <2> QED
    BY <2>9 DEF m
<1>29. ASSUME NEW j \in 1 .. n + 1, NEW k \in 1 .. n + 1, j < k, r[j].slen = r[k].slen
       PROVE  WordLess(r[j].suffix, r[k].suffix)
  <2>1. j \in Nat /\ k \in Nat
    BY <1>1
  <2>2. CASE k <= pos
    <3>1. j \in 1 .. n /\ k \in 1 .. n /\ r[j] = es[j] /\ r[k] = es[k]
      BY <1>0, <1>20, <1>21, <1>23, <1>29, <2>1, <2>2
    <3> QED
      BY <1>5, <1>29, <3>1
  <2>3. CASE k = pos + 1
    <3>1. j \in 1 .. n /\ j <= pos /\ r[j] = es[j]
      BY <1>0, <1>20, <1>21, <1>23, <1>29, <2>1, <2>3
    <3>2. r[k] = e
      BY <1>21, <1>23, <2>3
    <3>3. es[j].slen = v
      BY <1>29, <3>1, <3>2 DEF v
    <3>4. j \in q + 1 .. p
      BY <1>14, <3>1, <3>3
    <3> QED
      BY <1>22, <3>1, <3>2, <3>4
  <2>4. CASE k > pos + 1
    <3>1. k - 1 \in 1 .. n /\ r[k] = es[k - 1]
      BY <1>1, <1>21, <1>23, <2>1, <2>4
    <3>2. CASE j <= pos
      <4>1. j \in 1 .. n /\ r[j] = es[j] /\ j < k - 1
        BY <1>0, <1>20, <1>21, <1>23, <2>1, <2>4, <3>2
      <4> QED
        BY <1>5, <1>29, <3>1, <4>1
    <3>3. CASE j = pos + 1
      <4>1. r[j] = e
        BY <1>21, <1>23, <3>3
      <4>2. es[k - 1].slen = v
        BY <1>29, <3>1, <4>1 DEF v
      <4>3. k - 1 \in q + 1 .. p
        BY <1>14, <3>1, <4>2
      <4>4. ~(k - 1 <= pos)
        BY <1>21, <2>1, <2>4
      <4>5. ~WordLess(es[k - 1].suffix, e.suffix) /\ es[k - 1].suffix # e.suffix
        BY <1>8, <1>22, <3>1, <4>2, <4>3, <4>4
      <4>6. es[k - 1].suffix \in Word
        BY <1>1, <3>1
      <4> QED
        BY <1>2, <3>1, <4>1, <4>5, <4>6, WordLessOrders
    <3>4. CASE j > pos + 1
      <4>1. j - 1 \in 1 .. n /\ r[j] = es[j - 1] /\ j - 1 < k - 1
        BY <1>1, <1>21, <1>23, <1>29, <2>1, <3>4
      <4> QED
        BY <1>5, <1>29, <3>1, <4>1
    <3> QED
      BY <1>21, <2>1, <3>2, <3>3, <3>4
  <2> QED
    BY <1>21, <2>1, <2>2, <2>3, <2>4
<1>30. with = {r[k].slen : k \in 1 .. n + 1}
  <2>1. \A k \in 1 .. n + 1 : r[k].slen \in with
    <3> SUFFICES ASSUME NEW k \in 1 .. n + 1
                 PROVE  r[k].slen \in with
      OBVIOUS
    <3>1. r[k] \in {es[i] : i \in 1 .. n} \cup {e}
      BY <1>24
    <3> QED
      BY <1>3, <3>1 DEF v
  <2>2. \A k \in 1 .. n : es[k].slen \in {r[i].slen : i \in 1 .. n + 1}
    <3> SUFFICES ASSUME NEW k \in 1 .. n
                 PROVE  es[k].slen \in {r[i].slen : i \in 1 .. n + 1}
      OBVIOUS
    <3>1. es[k] \in {r[i] : i \in 1 .. n + 1}
      BY <1>24
    <3> QED
      BY <3>1
  <2>3. v \in {r[i].slen : i \in 1 .. n + 1}
    <3>1. e \in {r[i] : i \in 1 .. n + 1}
      BY <1>24
    <3> QED
      BY <3>1 DEF v
  <2> QED
    BY <1>3, <2>1, <2>2, <2>3
<1> DEFINE c == Grouped(r, moved, with)
<1> HIDE DEF with
<1>31. c.entries = r /\ c.ends = moved /\ c.present = with /\ c = Grouped(c.entries, c.ends, c.present)
  BY DEF Grouped
<1> HIDE DEF c
<1>32. GroupedInOrder(c)
  <2>1. Len(c.entries) = n + 1 /\ n + 1 > PromoteThreshold
    BY <1>1, <1>3, <1>23, <1>31, Sizes
  <2>2. c.ends \in [1 .. MaxSuffixLen + 1 -> 0 .. Len(c.entries)]
    BY <1>26, <1>31, <2>1 DEF M
  <2>3. \A a \in 1 .. MaxSuffixLen + 1, k \in 1 .. Len(c.entries) :
            c.entries[k].slen >= a <=> k <= c.ends[a]
    BY <1>28, <1>31, <2>1 DEF M
  <2>4. c.present = {c.entries[k].slen : k \in 1 .. Len(c.entries)}
    BY <1>30, <1>31, <2>1
  <2>5. \A j, k \in 1 .. Len(c.entries) :
        j < k /\ c.entries[j].slen = c.entries[k].slen
            => WordLess(c.entries[j].suffix, c.entries[k].suffix)
    BY <1>29, <1>31, <2>1
  <2> QED
    BY <1>31, <2>1, <2>2, <2>3, <2>4, <2>5 DEF GroupedInOrder
<1> QED
  BY <1>7, <1>20, <1>31, <1>32 DEF c, r, es, n, pos

-----------------------------------------------------------------------------
(***************************************************************************)
(* Insertion keeps the maps in step with the tokens.                       *)
(***************************************************************************)

LEMMA AppendIs ==
    ASSUME NEW S, NEW tk \in Seq(S), NEW t \in S
    PROVE  /\ Append(tk, t) \in Seq(S) /\ Len(Append(tk, t)) = Len(tk) + 1 /\ Len(tk) \in Nat
           /\ \A k \in 1 .. Len(tk) : Append(tk, t)[k] = tk[k]
           /\ Append(tk, t)[Len(tk) + 1] = t
           /\ \A id \in 0 .. Len(tk) - 1 : TokenOf(Append(tk, t), id) = TokenOf(tk, id)
           /\ TokenOf(Append(tk, t), Len(tk)) = t
<1>1. /\ Append(tk, t) \in Seq(S) /\ Len(Append(tk, t)) = Len(tk) + 1 /\ Len(tk) \in Nat
      /\ \A k \in 1 .. Len(tk) : Append(tk, t)[k] = tk[k]
      /\ Append(tk, t)[Len(tk) + 1] = t
  BY AppendProperties, LenProperties
<1>2. \A id \in 0 .. Len(tk) - 1 : id + 1 \in 1 .. Len(tk)
  BY <1>1
<1> QED
  BY <1>1, <1>2 DEF TokenOf

LEMMA TokenOfType ==
    ASSUME NEW tk \in Seq(Token), NEW id \in 0 .. Len(tk) - 1
    PROVE  TokenOf(tk, id) \in Token /\ id + 1 \in 1 .. Len(tk) /\ id \in Nat
<1>1. Len(tk) \in Nat /\ id + 1 \in 1 .. Len(tk) /\ id \in Nat
  BY LenProperties
<1> QED
  BY <1>1, ElementOfSeq DEF TokenOf

LEMMA ListGrows ==
    ASSUME NEW tk \in Seq(Token), NEW t \in Token, NEW w, NEW es, IsListOf(tk, w, es)
    PROVE  IsListOf(Append(tk, t), w, es)
<1>1. \A k \in 1 .. Len(es) :
        TokenOf(Append(tk, t), es[k].token) = TokenOf(tk, es[k].token)
  BY AppendIs DEF IsListOf
<1>2. \A id \in 0 .. Len(tk) - 1 : id \in 0 .. Len(Append(tk, t)) - 1
  BY AppendIs
<1> QED
  BY <1>1, <1>2 DEF IsListOf

\* The entries of one word differ in their suffixes.
LEMMA ListApart ==
    ASSUME NEW tk \in Seq(Token), NeverTwice(tk), NEW w, NEW es, IsListOf(tk, w, es)
    PROVE  Apart(es)
<1> SUFFICES ASSUME NEW j \in 1 .. Len(es), NEW k \in 1 .. Len(es),
                    es[j].slen = es[k].slen, es[j].suffix = es[k].suffix
             PROVE  j = k
  BY DEF Apart
<1> DEFINE a == es[j].token
           b == es[k].token
           t == TokenOf(tk, a)
           u == TokenOf(tk, b)
<1>1. /\ a \in 0 .. Len(tk) - 1 /\ ~IsShort(t) /\ LoadWord(t, WordSize) = w
      /\ b \in 0 .. Len(tk) - 1 /\ ~IsShort(u) /\ LoadWord(u, WordSize) = w
      /\ es[j] = Entry(t, a) /\ es[k] = Entry(u, b)
  BY DEF IsListOf
<1>2. Entry(t, a).slen = Entry(u, b).slen /\ Entry(t, a).suffix = Entry(u, b).suffix
  BY <1>1
<1>3. a = b => j = k
  BY DEF IsListOf
<1> HIDE DEF a, b
<1>4. t \in Token /\ u \in Token /\ a \in Nat /\ b \in Nat
      /\ a + 1 \in 1 .. Len(tk) /\ b + 1 \in 1 .. Len(tk)
  BY <1>1, TokenOfType
<1> HIDE DEF t, u
<1>5. t = u
  BY <1>1, <1>2, <1>4, LongWordsTell
<1>6. tk[a + 1] = tk[b + 1]
  BY <1>5 DEF t, u, TokenOf
<1>7. a + 1 = b + 1
  BY <1>4, <1>6 DEF NeverTwice
<1> QED
  BY <1>3, <1>4, <1>7

\* A list that holds the entry of a further token besides those of another.
LEMMA ListAbsorbs ==
    ASSUME NEW tk \in Seq(Token), NEW t \in Token, ~IsShort(t),
           NEW w, w = LoadWord(t, WordSize), NEW es, IsListOf(tk, w, es),
           NEW r \in Seq(EntryType),
           HeldIn(r) = HeldIn(es) \cup {Entry(t, Len(tk))},
           NeverTwice(r)
    PROVE  IsListOf(Append(tk, t), w, r)
<1> DEFINE tk2 == Append(tk, t)
<1>1. IsListOf(tk2, w, es)
  BY ListGrows
<1>2. /\ Len(tk) \in 0 .. Len(tk2) - 1 /\ TokenOf(tk2, Len(tk)) = t /\ Len(tk) \in Nat
  BY AppendIs
<1> HIDE DEF tk2
<1>3. Entry(t, Len(tk)).token = Len(tk)
  BY DEF Entry
<1>4. ASSUME NEW k \in 1 .. Len(r)
      PROVE  /\ r[k].token \in 0 .. Len(tk2) - 1
             /\ ~IsShort(TokenOf(tk2, r[k].token))
             /\ LoadWord(TokenOf(tk2, r[k].token), WordSize) = w
             /\ r[k] = Entry(TokenOf(tk2, r[k].token), r[k].token)
  <2>1. r[k] = Entry(t, Len(tk)) \/ \E i \in 1 .. Len(es) : r[k] = es[i]
    <3>1. r[k] \in HeldIn(r)
      BY DEF HeldIn
    <3>2. r[k] \in HeldIn(es) \cup {Entry(t, Len(tk))}
      BY <3>1
    <3> QED
      BY <3>2 DEF HeldIn
  <2>2. CASE r[k] = Entry(t, Len(tk))
    BY <1>2, <1>3, <2>2
  <2>3. CASE \E i \in 1 .. Len(es) : r[k] = es[i]
    BY <1>1, <2>3 DEF IsListOf
  <2> QED
    BY <2>1, <2>2, <2>3
<1>5. ASSUME NEW j \in 1 .. Len(r), NEW k \in 1 .. Len(r), r[j].token = r[k].token
      PROVE  j = k
  <2>1. r[j] = r[k]
    BY <1>4, <1>5
  <2> QED
    BY <2>1 DEF NeverTwice
<1> QED
  BY <1>4, <1>5 DEF IsListOf, tk2

LEMMA InsertAtOnce ==
    ASSUME NEW S, NEW es \in Seq(S), NEW pos \in 0 .. Len(es), NEW e \in S,
           NeverTwice(es),
           e \notin HeldIn(es),
           NEW r, r = InsertAt(es, pos, e)
    PROVE  NeverTwice(r)
<1> DEFINE n == Len(es)
<1>1. /\ Len(r) = n + 1 /\ n \in Nat
      /\ \A k \in 1 .. n + 1 :
            r[k] = IF k <= pos THEN es[k] ELSE IF k = pos + 1 THEN e ELSE es[k - 1]
  <2>1. InsertsAt(es, pos, e, r)
    BY InsertAtIs
  <2> QED
    BY <2>1 DEF InsertsAt
<1>2. pos \in Nat /\ pos <= n
  BY <1>1
<1>3. (\A j, k \in 1 .. n : es[j] = es[k] => j = k) /\ \A k \in 1 .. n : es[k] # e
  BY DEF NeverTwice, HeldIn
<1> HIDE DEF n
<1> DEFINE from(k) == IF k <= pos THEN k ELSE k - 1
<1>4. ASSUME NEW k \in 1 .. n + 1, k # pos + 1
      PROVE  r[k] = es[from(k)] /\ from(k) \in 1 .. n
  BY <1>1, <1>2, <1>4
<1>5. r[pos + 1] = e
  BY <1>1, <1>2
<1>6. ASSUME NEW j \in 1 .. n + 1, NEW k \in 1 .. n + 1, r[j] = r[k]
      PROVE  j = k
  <2>1. CASE j = pos + 1
    BY <1>3, <1>4, <1>5, <1>6, <2>1
  <2>2. CASE k = pos + 1
    BY <1>3, <1>4, <1>5, <1>6, <2>2
  <2>3. CASE j # pos + 1 /\ k # pos + 1
    <3>1. from(j) = from(k)
      BY <1>3, <1>4, <1>6, <2>3
    <3> QED
      BY <1>1, <1>2, <2>3, <3>1
  <2> QED
    BY <2>1, <2>2, <2>3
<1> QED
  BY <1>1, <1>6 DEF NeverTwice

\* A bucket with the entry of one more token, promoted or not.
LEMMA BucketGrows ==
    ASSUME NEW tk \in Seq(Token), NeverTwice(tk), NEW t \in Token, ~IsShort(t),
           t \notin HeldIn(tk),
           NEW w, w = LoadWord(t, WordSize), NEW b, IsListOf(tk, w, b.entries),
           LinearInOrder(b) \/ GroupedInOrder(b),
           NEW e, e = Entry(t, Len(tk)),
           NEW c, c = IF b.grouped THEN GroupedInserted(b, e) ELSE LinearInserted(b, e)
    PROVE  /\ IsListOf(Append(tk, t), w, c.entries)
           /\ LinearInOrder(c) \/ GroupedInOrder(c)
           /\ HeldIn(c.entries)
                = HeldIn(b.entries) \cup {e}
<1> DEFINE es == b.entries
<1>1. /\ es \in Seq(EntryType) /\ Len(es) \in Nat
      /\ NeverTwice(es)
  <2>1. es \in Seq(EntryType) /\ Len(es) \in Nat
    BY EntriesTyped DEF IsListOf
  <2> QED
    BY <2>1 DEF IsListOf, NeverTwice
<1>2. e \in EntryType /\ e.token = Len(tk) /\ Len(tk) \in Nat
  BY EntryIs, LenProperties
<1>3. Apart(es)
  BY ListApart
<1>4. ASSUME NEW k \in 1 .. Len(es)
      PROVE  es[k] # e /\ ~(es[k].slen = e.slen /\ es[k].suffix = e.suffix)
  <2> DEFINE id == es[k].token
             u == TokenOf(tk, id)
  <2>1. id \in 0 .. Len(tk) - 1 /\ ~IsShort(u) /\ LoadWord(u, WordSize) = w /\ es[k] = Entry(u, id)
    BY DEF IsListOf
  <2> HIDE DEF id
  <2>2. u \in Token /\ id \in Nat /\ id + 1 \in 1 .. Len(tk)
    BY <2>1, TokenOfType
  <2>3. u # t
    BY <2>2 DEF TokenOf, HeldIn
  <2> HIDE DEF u
  <2>4. ~(Entry(u, id).slen = e.slen /\ Entry(u, id).suffix = e.suffix)
    BY <1>2, <2>1, <2>2, <2>3, LongWordsTell
  <2> QED
    BY <2>1, <2>4
<1> HIDE DEF es
<1>5. ASSUME NEW pos \in 0 .. Len(es), NEW r, r = InsertAt(es, pos, e)
      PROVE  /\ r \in Seq(EntryType) /\ Len(r) = Len(es) + 1
             /\ HeldIn(r) = HeldIn(es) \cup {e}
             /\ NeverTwice(r)
             /\ IsListOf(Append(tk, t), w, r)
  <2>1. r \in Seq(EntryType) /\ Len(r) = Len(es) + 1
    BY <1>1, <1>2, <1>5, InsertAtIs DEF InsertsAt
  <2>2. HeldIn(r) = HeldIn(es) \cup {e}
    BY <1>1, <1>2, <1>5, InsertAtHolds
  <2>3. NeverTwice(r)
    <3>1. e \notin HeldIn(es)
      BY <1>4 DEF HeldIn
    <3> QED
      BY <1>1, <1>2, <1>5, <3>1, InsertAtOnce
  <2>4. IsListOf(Append(tk, t), w, r)
    <3>1. IsListOf(tk, w, es)
      BY DEF es
    <3> QED
      BY <2>1, <2>2, <2>3, <3>1, ListAbsorbs
  <2> QED
    BY <2>1, <2>2, <2>3, <2>4
<1>6. CASE GroupedInOrder(b)
  <2>1. b.grouped = TRUE
    BY <1>6 DEF GroupedInOrder, Grouped
  <2>2. c = GroupedInserted(b, e)
    BY <2>1
  <2>3. /\ GroupPos(b, e) \in 0 .. Len(es) /\ GroupedInOrder(c)
        /\ c.entries = InsertAt(es, GroupPos(b, e), e)
    BY <1>1, <1>2, <1>3, <1>4, <1>6, <2>2, GroupedInsertion DEF es
  <2> DEFINE r == c.entries
  <2>4. r = InsertAt(es, GroupPos(b, e), e)
    BY <2>3
  <2> HIDE DEF r
  <2>5. IsListOf(Append(tk, t), w, r) /\ HeldIn(r) = HeldIn(es) \cup {e}
    BY <1>5, <2>3, <2>4
  <2> QED
    BY <2>3, <2>5 DEF r, es
<1>7. CASE LinearInOrder(b)
  <2>1. b.grouped = FALSE /\ Falling(es)
    BY <1>7 DEF LinearInOrder, Linear, es
  <2> DEFINE r == InsertAt(es, LinearPos(es, e), e)
  <2>2. c = IF Len(r) > PromoteThreshold THEN Build(r) ELSE Linear(r)
    BY <2>1 DEF LinearInserted, es
  <2>3. LinearPos(es, e) \in 0 .. Len(es) /\ Falling(r)
    BY <1>1, <1>2, <2>1, LinearInsertion
  <2>4. /\ r \in Seq(EntryType) /\ Len(r) = Len(es) + 1
        /\ HeldIn(r) = HeldIn(es) \cup {e}
        /\ NeverTwice(r)
        /\ IsListOf(Append(tk, t), w, r)
    BY <1>5, <2>3
  <2> HIDE DEF r
  <2>5. Len(r) \in Nat /\ PromoteThreshold \in Nat
    BY <1>1, <2>4, Sizes
  <2>6. CASE Len(r) <= PromoteThreshold
    <3>1. c = Linear(r)
      BY <2>2, <2>5, <2>6
    <3>2. c.entries = r
      BY <3>1 DEF Linear
    <3>0. c = Linear(c.entries)
      BY <3>1, <3>2
    <3>3. LinearInOrder(c)
      BY <2>3, <2>6, <3>0, <3>2 DEF LinearInOrder
    <3> QED
      BY <2>4, <3>2, <3>3 DEF es
  <2>7. CASE Len(r) > PromoteThreshold
    <3>1. c = Build(r)
      BY <2>2, <2>7
    <3>2. Apart(r)
      <4>1. Append(tk, t) \in Seq(Token) /\ NeverTwice(Append(tk, t))
        <5>1. /\ Append(tk, t) \in Seq(Token) /\ Len(Append(tk, t)) = Len(tk) + 1 /\ Len(tk) \in Nat
              /\ \A k \in 1 .. Len(tk) : Append(tk, t)[k] = tk[k]
              /\ Append(tk, t)[Len(tk) + 1] = t
          BY AppendIs
        <5>2. \A k \in 1 .. Len(tk) + 1 : k \in 1 .. Len(tk) \/ k = Len(tk) + 1
          BY <5>1
        <5> QED
          BY <5>1, <5>2 DEF NeverTwice, HeldIn
      <4> QED
        BY <2>4, <4>1, ListApart
    <3>3. /\ GroupedInOrder(c) /\ c.entries \in Seq(EntryType)
          /\ HeldIn(c.entries) = HeldIn(r)
          /\ NeverTwice(c.entries)
      BY <2>4, <2>7, <3>1, <3>2, BuildIsInOrder
    <3>4. IsListOf(Append(tk, t), w, c.entries)
      <4> DEFINE q == c.entries
      <4>1. /\ q \in Seq(EntryType)
            /\ HeldIn(q) = HeldIn(es) \cup {e}
            /\ NeverTwice(q)
        BY <2>4, <3>3
      <4>2. IsListOf(tk, w, es)
        BY DEF es
      <4> HIDE DEF q
      <4>3. IsListOf(Append(tk, t), w, q)
        BY <4>1, <4>2, ListAbsorbs
      <4> QED
        BY <4>3 DEF q
    <3> QED
      BY <2>4, <3>3, <3>4 DEF es
  <2> QED
    BY <2>5, <2>6, <2>7
<1> QED
  BY <1>6, <1>7

-----------------------------------------------------------------------------

\* The short map with one more token.
LEMMA ShortMapGrows ==
    ASSUME NEW tk \in Seq(Token), NEW t \in Token, IsShort(t), t \notin HeldIn(tk),
           NEW sm, NEW lm, NEW mx \in 1 .. WordSize,
           ShortHolds(tk, sm, mx), \A id \in 0 .. Len(tk) - 1 : IsHeld(tk, sm, lm, id),
           NEW sm2, sm2 = [k \in DOMAIN sm \cup {ShortKey(t)} |->
                                IF k = ShortKey(t) THEN Len(tk) ELSE sm[k]],
           NEW mx2, mx2 = IF Len(t) > mx THEN Len(t) ELSE mx
    PROVE  /\ mx2 \in 1 .. WordSize
           /\ ShortHolds(Append(tk, t), sm2, mx2)
           /\ \A id \in 0 .. Len(tk) : IsHeld(Append(tk, t), sm2, lm, id)
<1> DEFINE n == Len(tk)
           tk2 == Append(tk, t)
<1>1. /\ n \in Nat /\ Len(tk2) = n + 1 /\ TokenOf(tk2, n) = t
      /\ \A id \in 0 .. n - 1 : TokenOf(tk2, id) = TokenOf(tk, id)
  BY AppendIs
<1>2. Len(t) \in Nat /\ 1 <= Len(t) /\ Len(t) <= WordSize /\ WordSize \in Nat
  BY TokenType, Sizes DEF IsShort
<1>3. mx2 \in 1 .. WordSize /\ mx <= mx2 /\ Len(t) <= mx2 /\ mx2 \in Nat /\ mx \in Nat
  BY <1>2
<1>4. /\ DOMAIN sm2 = DOMAIN sm \cup {ShortKey(t)} /\ sm2[ShortKey(t)] = n
      /\ \A k \in DOMAIN sm : k # ShortKey(t) => sm2[k] = sm[k]
  OBVIOUS
<1>5. \A id \in 0 .. n - 1 : id \in 0 .. n /\ TokenOf(tk, id) \in Token /\ TokenOf(tk, id) # t
  <2> SUFFICES ASSUME NEW id \in 0 .. n - 1
               PROVE  id \in 0 .. n /\ TokenOf(tk, id) \in Token /\ TokenOf(tk, id) # t
    OBVIOUS
  <2>1. TokenOf(tk, id) \in Token /\ id + 1 \in 1 .. Len(tk)
    BY TokenOfType
  <2> QED
    BY <1>1, <2>1 DEF TokenOf, HeldIn
<1>6. \A id \in 0 .. n : id \in 0 .. n - 1 \/ id = n
  BY <1>1
<1> HIDE DEF n, tk2
<1>7. ASSUME NEW key \in DOMAIN sm2
      PROVE  /\ sm2[key] \in 0 .. Len(tk2) - 1
             /\ IsShort(TokenOf(tk2, sm2[key]))
             /\ key = ShortKey(TokenOf(tk2, sm2[key]))
             /\ Len(TokenOf(tk2, sm2[key])) <= mx2
  <2>1. CASE key = ShortKey(t)
    <3>1. n \in 0 .. Len(tk2) - 1
      BY <1>1
    <3> QED
      BY <1>1, <1>3, <1>4, <2>1, <3>1
  <2>2. CASE key # ShortKey(t)
    <3> DEFINE id == sm[key]
               u == TokenOf(tk, id)
    <3>1. key \in DOMAIN sm /\ sm2[key] = id
      BY <1>4, <2>2
    <3>2. id \in 0 .. n - 1 /\ IsShort(u) /\ key = ShortKey(u) /\ Len(u) <= mx
      BY <3>1 DEF ShortHolds, n
    <3> HIDE DEF id
    <3>3. TokenOf(tk2, id) = u /\ u \in Token
      BY <1>1, <1>5, <3>2
    <3> HIDE DEF u
    <3>4. Len(u) <= mx2
      <4>1. Len(u) \in Nat
        BY <3>3, TokenType
      <4> QED
        BY <1>3, <3>2, <4>1
    <3>5. id \in 0 .. Len(tk2) - 1
      BY <1>1, <3>2
    <3> QED
      BY <3>1, <3>2, <3>3, <3>4, <3>5
  <2> QED
    BY <2>1, <2>2
<1>8. ASSUME NEW id \in 0 .. n
      PROVE  IsHeld(tk2, sm2, lm, id)
  <2>1. CASE id = n
    BY <1>1, <1>4, <2>1 DEF IsHeld
  <2>2. CASE id \in 0 .. n - 1
    <3> DEFINE u == TokenOf(tk, id)
    <3>1. TokenOf(tk2, id) = u /\ u \in Token /\ u # t
      BY <1>1, <1>5, <2>2
    <3>2. IsHeld(tk, sm, lm, id)
      BY <2>2 DEF n
    <3>3. /\ IsShort(u) => ShortKey(u) \in DOMAIN sm /\ sm[ShortKey(u)] = id
          /\ ~IsShort(u) => /\ LoadWord(u, WordSize) \in DOMAIN lm
                            /\ \E k \in 1 .. Len(lm[LoadWord(u, WordSize)].entries) :
                                lm[LoadWord(u, WordSize)].entries[k].token = id
      BY <3>2 DEF IsHeld
    <3> HIDE DEF u
    <3>4. IsShort(u) => ShortKey(u) # ShortKey(t)
      <4> SUFFICES ASSUME IsShort(u), ShortKey(u) = ShortKey(t)
                   PROVE  FALSE
        OBVIOUS
      <4>1. Len(u) = Len(t) /\ LoadWord(u, Len(u)) = LoadWord(t, Len(u))
        BY DEF ShortKey
      <4>2. u = t
        BY <3>1, <4>1, ShortWordTells
      <4> QED
        BY <3>1, <4>2
    <3>5. IsShort(u) => ShortKey(u) \in DOMAIN sm2 /\ sm2[ShortKey(u)] = id
      BY <1>4, <3>3, <3>4
    <3> QED
      BY <3>1, <3>3, <3>5 DEF IsHeld
  <2> QED
    BY <1>6, <2>1, <2>2
<1> QED
  BY <1>3, <1>7, <1>8 DEF ShortHolds, n, tk2

\* The buckets with one more token.
LEMMA LongMapGrows ==
    ASSUME NEW tk \in Seq(Token), NeverTwice(tk), NEW t \in Token, ~IsShort(t),
           t \notin HeldIn(tk),
           NEW sm, NEW lm, LongHolds(tk, lm), \A id \in 0 .. Len(tk) - 1 : IsHeld(tk, sm, lm, id)
    PROVE  /\ LongHolds(Append(tk, t), WithLong(lm, t, Len(tk)))
           /\ \A id \in 0 .. Len(tk) : IsHeld(Append(tk, t), sm, WithLong(lm, t, Len(tk)), id)
<1> PICK w : w = LoadWord(t, WordSize)
  OBVIOUS
<1> PICK b : b = IF w \in DOMAIN lm THEN lm[w] ELSE Linear(<<>>)
  OBVIOUS
<1> PICK e : e = Entry(t, Len(tk))
  OBVIOUS
<1> PICK c : c = IF b.grouped THEN GroupedInserted(b, e) ELSE LinearInserted(b, e)
  OBVIOUS
<1> PICK lm2 : lm2 = [k \in DOMAIN lm \cup {w} |-> IF k # w THEN lm[k] ELSE c]
  OBVIOUS
<1>0. WithLong(lm, t, Len(tk)) = lm2
  BY DEF WithLong
<1> DEFINE n == Len(tk)
           tk2 == Append(tk, t)
<1>1. /\ n \in Nat /\ Len(tk2) = n + 1 /\ TokenOf(tk2, n) = t
      /\ \A id \in 0 .. n - 1 : TokenOf(tk2, id) = TokenOf(tk, id)
  BY AppendIs
<1>2. \A id \in 0 .. n : id \in 0 .. n - 1 \/ id = n
  BY <1>1
<1>3. IsListOf(tk, w, b.entries) /\ (LinearInOrder(b) \/ GroupedInOrder(b))
  <2>1. CASE w \in DOMAIN lm
    BY <2>1 DEF LongHolds
  <2>2. CASE w \notin DOMAIN lm
    <3>1. b = Linear(<<>>)
      BY <2>2
    <3>2. b.entries = <<>> /\ Len(<<>>) = 0 /\ <<>> \in Seq(EntryType)
      BY <3>1 DEF Linear
    <3>3. b = Linear(b.entries)
      BY <3>1, <3>2
    <3>4. 1 .. Len(b.entries) = {}
      BY <3>2
    <3>5. LinearInOrder(b)
      BY <3>2, <3>3, <3>4, Sizes DEF LinearInOrder, Falling
    <3>6. IsListOf(tk, w, b.entries)
      BY <3>2, <3>4 DEF IsListOf
    <3> QED
      BY <3>5, <3>6
  <2> QED
    BY <2>1, <2>2
<1>4. /\ IsListOf(tk2, w, c.entries)
      /\ LinearInOrder(c) \/ GroupedInOrder(c)
      /\ HeldIn(c.entries) = HeldIn(b.entries) \cup {e}
  <2>1. /\ IsListOf(Append(tk, t), w, c.entries)
        /\ LinearInOrder(c) \/ GroupedInOrder(c)
        /\ HeldIn(c.entries) = HeldIn(b.entries) \cup {e}
    <3> HIDE DEF n, tk2
    <3>1. /\ tk \in Seq(Token) /\ NeverTwice(tk) /\ t \in Token /\ ~IsShort(t)
          /\ t \notin HeldIn(tk) /\ w = LoadWord(t, WordSize) /\ IsListOf(tk, w, b.entries)
          /\ LinearInOrder(b) \/ GroupedInOrder(b)
          /\ e = Entry(t, Len(tk))
          /\ c = IF b.grouped THEN GroupedInserted(b, e) ELSE LinearInserted(b, e)
      BY <1>3
    <3> QED
      BY ONLY <3>1, BucketGrows
  <2> QED
    BY <2>1
<1>5. /\ DOMAIN lm2 = DOMAIN lm \cup {w} /\ lm2[w] = c
      /\ \A k \in DOMAIN lm : k # w => lm2[k] = lm[k]
  OBVIOUS
<1>6. \A k \in DOMAIN lm : IsListOf(tk2, k, lm[k].entries)
  BY ListGrows DEF LongHolds
<1> HIDE DEF n, tk2
<1>7. ASSUME NEW k \in DOMAIN lm2
      PROVE  /\ k \in Word /\ IsListOf(tk2, k, lm2[k].entries)
             /\ LinearInOrder(lm2[k]) \/ GroupedInOrder(lm2[k])
  <2>1. CASE k = w
    <3>1. w \in Word
      BY TokenType, LoadWordType, Sizes
    <3> QED
      BY <1>4, <1>5, <2>1, <3>1
  <2>2. CASE k # w
    <3>1. k \in DOMAIN lm /\ lm2[k] = lm[k]
      BY <1>5, <2>2
    <3>2. k \in Word /\ (LinearInOrder(lm[k]) \/ GroupedInOrder(lm[k]))
      BY <3>1 DEF LongHolds
    <3> QED
      BY <1>6, <3>1, <3>2
  <2> QED
    BY <2>1, <2>2
<1>8. \A x : x \in HeldIn(c.entries) => \E k \in 1 .. Len(c.entries) : c.entries[k] = x
  BY DEF HeldIn
<1>9. ASSUME NEW id \in 0 .. n
      PROVE  IsHeld(tk2, sm, lm2, id)
  <2>1. CASE id = n
    <3>1. e \in HeldIn(c.entries) /\ e.token = n
      BY <1>4 DEF Entry, n
    <3>2. \E k \in 1 .. Len(c.entries) : c.entries[k].token = id
      BY <1>8, <2>1, <3>1
    <3> QED
      BY <1>1, <1>5, <2>1, <3>2 DEF IsHeld
  <2>2. CASE id \in 0 .. n - 1
    <3> DEFINE u == TokenOf(tk, id)
               v == LoadWord(u, WordSize)
    <3>1. TokenOf(tk2, id) = u
      BY <1>1, <2>2
    <3>2. IsHeld(tk, sm, lm, id)
      BY <2>2 DEF n
    <3>3. /\ IsShort(u) => ShortKey(u) \in DOMAIN sm /\ sm[ShortKey(u)] = id
          /\ ~IsShort(u) => /\ v \in DOMAIN lm
                            /\ \E k \in 1 .. Len(lm[v].entries) : lm[v].entries[k].token = id
      BY <3>2 DEF IsHeld
    <3> HIDE DEF u, v
    <3>4. ASSUME ~IsShort(u)
          PROVE  \E k \in 1 .. Len(lm2[v].entries) : lm2[v].entries[k].token = id
      <4>1. CASE v # w
        BY <1>5, <3>3, <3>4, <4>1
      <4>2. CASE v = w
        <5>1. b = lm[v]
          BY <3>3, <3>4, <4>2
        <5>2. PICK k \in 1 .. Len(b.entries) : b.entries[k].token = id
          BY <3>3, <3>4, <5>1
        <5>3. b.entries[k] \in HeldIn(b.entries)
          BY DEF HeldIn
        <5>4. b.entries[k] \in HeldIn(c.entries)
          BY <1>4, <5>3
        <5>5. PICK i \in 1 .. Len(c.entries) : c.entries[i] = b.entries[k]
          BY <1>8, <5>4
        <5>6. lm2[v] = c /\ c.entries[i].token = id
          BY <1>5, <4>2, <5>2, <5>5
        <5> QED
          BY <5>5, <5>6
      <4> QED
        BY <4>1, <4>2
    <3>5. ~IsShort(u) => v \in DOMAIN lm2
      BY <1>5, <3>3
    <3> QED
      BY <3>1, <3>3, <3>4, <3>5 DEF IsHeld, v
  <2> QED
    BY <1>2, <2>1, <2>2
<1> QED
  BY <1>0, <1>7, <1>9 DEF LongHolds, n, tk2

LEMMA SingleBytes ==
    ASSUME NEW b \in Byte
    PROVE  /\ <<b>> \in Token /\ Len(<<b>>) = 1 /\ IsShort(<<b>>)
           /\ ShortKey(<<b>>) = <<LoadWord(<<b>>, 1), 1>>
           /\ LoadWord(<<b>>, 1)[1] = b
<1>1. <<b>> \in ByteSeq /\ Len(<<b>>) = 1 /\ <<b>>[1] = b
  BY DEF ByteSeq
<1>2. 1 \in 1 .. MaxTokenSize /\ 1 \in 1 .. WordSize /\ 1 <= WordSize
  BY Sizes
<1>3. <<b>> \in Token
  BY <1>1, <1>2, TokenIntro
<1>4. LoadWord(<<b>>, 1)[1] = b
  BY <1>1, <1>2, LoadWordType
<1> QED
  BY <1>1, <1>2, <1>3, <1>4 DEF IsShort, ShortKey

LEMMA LpmInvAtStart ==
    ASSUME LpmInit
    PROVE  LpmInv
<1> DEFINE tk == [k \in 1 .. NumBytes |-> <<k - 1>>]
           Keys == {<<LoadWord(<<b>>, 1), 1>> : b \in Byte}
           sm == [key \in Keys |-> key[1][1]]
           lm == [w \in {} |-> 0]
<1>1. tokens = tk /\ shortMap = sm /\ longMap = lm /\ maxShortLen = 1 /\ nextId = NumBytes
  BY DEF LpmInit
<1>2. NumBytes \in Nat /\ 1 \in 1 .. WordSize
  BY Sizes
<1>3. \A k \in 1 .. NumBytes : k - 1 \in Byte
  BY <1>2 DEF Byte
<1>4. tk \in [1 .. NumBytes -> Token]
  BY <1>3, SingleBytes
<1>5. tk \in Seq(Token) /\ Len(tk) = NumBytes
  <2> HIDE DEF tk
  <2> QED
    BY <1>2, <1>4
<1>6. \A k \in 1 .. NumBytes : tk[k] = <<k - 1>>
  OBVIOUS
<1>7. \A b \in Byte : TokenOf(tk, b) = <<b>> /\ b + 1 \in 1 .. NumBytes
  <2> SUFFICES ASSUME NEW b \in Byte
               PROVE  TokenOf(tk, b) = <<b>> /\ b + 1 \in 1 .. NumBytes
    OBVIOUS
  <2>1. b + 1 \in 1 .. NumBytes /\ (b + 1) - 1 = b
    BY <1>2 DEF Byte
  <2>2. tk[b + 1] = <<(b + 1) - 1>>
    BY <1>6, <2>1
  <2> QED
    BY <2>1, <2>2 DEF TokenOf
<1>8. \A b \in Byte : ShortKey(<<b>>) \in Keys /\ sm[ShortKey(<<b>>)] = b
  <2> SUFFICES ASSUME NEW b \in Byte
               PROVE  ShortKey(<<b>>) \in Keys /\ sm[ShortKey(<<b>>)] = b
    OBVIOUS
  <2>1. ShortKey(<<b>>) = <<LoadWord(<<b>>, 1), 1>> /\ LoadWord(<<b>>, 1)[1] = b
    BY SingleBytes
  <2>2. ShortKey(<<b>>) \in Keys
    BY <2>1
  <2>3. ShortKey(<<b>>)[1][1] = b
    BY <2>1
  <2> HIDE DEF Keys
  <2> QED
    BY <2>2, <2>3
<1>9. \A key \in Keys : \E b \in Byte : key = ShortKey(<<b>>)
  BY SingleBytes
<1>10. DOMAIN sm = Keys /\ DOMAIN lm = {}
  OBVIOUS
<1> HIDE DEF tk, Keys, sm, lm
<1>11. Byte = 0 .. Len(tk) - 1
  BY <1>5 DEF Byte
<1>12. NeverTwice(tk)
  <2> SUFFICES ASSUME NEW j \in 1 .. NumBytes, NEW k \in 1 .. NumBytes, tk[j] = tk[k]
               PROVE  j = k
    BY <1>5 DEF NeverTwice
  <2>1. <<j - 1>>[1] = <<k - 1>>[1]
    BY <1>6
  <2> QED
    BY <2>1
<1>13. SingleByteTokens \subseteq HeldIn(tk)
  <2> SUFFICES ASSUME NEW b \in Byte
               PROVE  <<b>> \in HeldIn(tk)
    BY DEF SingleByteTokens
  <2>1. tk[b + 1] = <<b>> /\ b + 1 \in 1 .. Len(tk)
    BY <1>5, <1>7 DEF TokenOf
  <2> QED
    BY <2>1 DEF HeldIn
<1>14. ShortHolds(tk, sm, 1)
  <2> SUFFICES ASSUME NEW key \in Keys
               PROVE  /\ sm[key] \in 0 .. Len(tk) - 1
                      /\ IsShort(TokenOf(tk, sm[key]))
                      /\ key = ShortKey(TokenOf(tk, sm[key]))
                      /\ Len(TokenOf(tk, sm[key])) <= 1
    BY <1>10 DEF ShortHolds
  <2>1. PICK b \in Byte : key = ShortKey(<<b>>)
    BY <1>9
  <2>2. sm[key] = b /\ TokenOf(tk, b) = <<b>>
    BY <1>7, <1>8, <2>1
  <2>3. IsShort(<<b>>) /\ Len(<<b>>) <= 1
    BY SingleBytes
  <2> QED
    BY <1>11, <2>1, <2>2, <2>3
<1>15. LongHolds(tk, lm)
  BY <1>10 DEF LongHolds
<1>16. \A id \in 0 .. Len(tk) - 1 : IsHeld(tk, sm, lm, id)
  <2> SUFFICES ASSUME NEW b \in Byte
               PROVE  IsHeld(tk, sm, lm, b)
    BY <1>11
  <2>1. TokenOf(tk, b) = <<b>> /\ IsShort(<<b>>)
    BY <1>7, SingleBytes
  <2> QED
    BY <1>8, <1>10, <2>1 DEF IsHeld
<1> QED
  BY <1>1, <1>2, <1>5, <1>12, <1>13, <1>14, <1>15, <1>16 DEF LpmInv

LEMMA LpmInvKept ==
    ASSUME LpmInv, [LpmNext]_lpm_vars
    PROVE  LpmInv'
<1>1. CASE UNCHANGED lpm_vars
  BY <1>1 DEF lpm_vars, LpmInv
<1>2. ASSUME NEW data \in Insertable, Insert(data)
      PROVE  LpmInv'
  <2> DEFINE n == Len(tokens)
             tk2 == Append(tokens, data)
  <2>1. /\ data \in Token /\ data \notin HeldIn(tokens) /\ nextId = n
        /\ nextId' = n + 1 /\ tokens' = tk2
        /\ tokens \in Seq(Token) /\ maxShortLen \in 1 .. WordSize
        /\ NeverTwice(tokens) /\ SingleByteTokens \subseteq HeldIn(tokens)
        /\ ShortHolds(tokens, shortMap, maxShortLen) /\ LongHolds(tokens, longMap)
        /\ \A id \in 0 .. n - 1 : IsHeld(tokens, shortMap, longMap, id)
    BY <1>2, LpmAssumption DEF Insert, LpmInv, HeldIn
  <2>2. /\ tk2 \in Seq(Token) /\ Len(tk2) = n + 1 /\ n \in Nat
        /\ \A k \in 1 .. n : tk2[k] = tokens[k]
        /\ tk2[n + 1] = data
        /\ \A id \in 0 .. n - 1 : TokenOf(tk2, id) = TokenOf(tokens, id)
    BY <2>1, AppendIs
  <2>3. \A k \in 1 .. n + 1 : k \in 1 .. n \/ k = n + 1
    BY <2>2
  <2> HIDE DEF n, tk2
  <2>4. NeverTwice(tk2)
    BY <2>1, <2>2, <2>3 DEF NeverTwice, HeldIn, n
  <2>5. SingleByteTokens \subseteq HeldIn(tk2)
    <3>1. \A k \in 1 .. n : k \in 1 .. Len(tk2)
      BY <2>2
    <3>2. HeldIn(tokens) \subseteq HeldIn(tk2)
      BY <2>2, <3>1 DEF HeldIn, n
    <3> QED
      BY <2>1, <3>2
  <2>6. ASSUME InsertShort(data)
        PROVE  /\ maxShortLen' \in 1 .. WordSize
               /\ ShortHolds(tk2, shortMap', maxShortLen') /\ LongHolds(tk2, longMap')
               /\ \A id \in 0 .. n : IsHeld(tk2, shortMap', longMap', id)
    <3>1. /\ IsShort(data)
          /\ shortMap' = [k \in DOMAIN shortMap \cup {ShortKey(data)} |->
                            IF k = ShortKey(data) THEN n ELSE shortMap[k]]
          /\ maxShortLen' = IF Len(data) > maxShortLen THEN Len(data) ELSE maxShortLen
          /\ longMap' = longMap
      BY <2>1, <2>6 DEF InsertShort, ShortKey
    <3>2. /\ maxShortLen' \in 1 .. WordSize
          /\ ShortHolds(tk2, shortMap', maxShortLen')
          /\ \A id \in 0 .. n : IsHeld(tk2, shortMap', longMap, id)
      BY <2>1, <3>1, ShortMapGrows DEF n, tk2
    <3>3. LongHolds(tk2, longMap)
      BY <2>1, ListGrows DEF LongHolds, tk2
    <3> QED
      BY <3>1, <3>2, <3>3
  <2>7. ASSUME InsertLong(data)
        PROVE  /\ maxShortLen' \in 1 .. WordSize
               /\ ShortHolds(tk2, shortMap', maxShortLen') /\ LongHolds(tk2, longMap')
               /\ \A id \in 0 .. n : IsHeld(tk2, shortMap', longMap', id)
    <3>1. /\ ~IsShort(data) /\ shortMap' = shortMap /\ maxShortLen' = maxShortLen
          /\ longMap' = WithLong(longMap, data, n)
      BY <2>1, <2>7 DEF InsertLong, WithLong
    <3>2. /\ LongHolds(tk2, longMap')
          /\ \A id \in 0 .. n : IsHeld(tk2, shortMap, longMap', id)
      BY <2>1, <3>1, LongMapGrows DEF n, tk2
    <3>3. ShortHolds(tk2, shortMap, maxShortLen)
      <4>1. \A id \in 0 .. n - 1 : id \in 0 .. Len(tk2) - 1
        BY <2>2
      <4> QED
        BY <2>1, <2>2, <4>1 DEF ShortHolds, n
    <3> QED
      BY <2>1, <3>1, <3>2, <3>3
  <2>8. InsertShort(data) \/ InsertLong(data)
    BY <1>2 DEF Insert
  <2>9. Len(tk2) - 1 = n
    BY <2>2
  <2> DEFINE sm == shortMap'
             lm == longMap'
             mx == maxShortLen'
  <2>10. /\ mx \in 1 .. WordSize /\ ShortHolds(tk2, sm, mx) /\ LongHolds(tk2, lm)
         /\ \A id \in 0 .. n : IsHeld(tk2, sm, lm, id)
    BY <2>6, <2>7, <2>8
  <2> HIDE DEF sm, lm, mx
  <2>11. \A id \in 0 .. Len(tk2) - 1 : IsHeld(tk2, sm, lm, id)
    BY <2>9, <2>10
  <2> DEFINE Inv(tk, id, s, l, m) ==
                /\ tk \in Seq(Token) /\ id = Len(tk)
                /\ m \in 1 .. WordSize
                /\ NeverTwice(tk)
                /\ SingleByteTokens \subseteq HeldIn(tk)
                /\ ShortHolds(tk, s, m)
                /\ LongHolds(tk, l)
                /\ \A i \in 0 .. Len(tk) - 1 : IsHeld(tk, s, l, i)
  <2>12. Inv(tk2, nextId', sm, lm, mx)
    BY <2>1, <2>2, <2>4, <2>5, <2>10, <2>11
  <2>13. Inv(tokens', nextId', shortMap', longMap', maxShortLen')
    <3> HIDE DEF Inv
    <3> QED
      BY <2>1, <2>12 DEF sm, lm, mx
  <2>14. LpmInv' = Inv(tokens', nextId', shortMap', longMap', maxShortLen')
    BY DEF LpmInv
  <2> QED
    BY <2>13, <2>14
<1> QED
  BY <1>1, <1>2 DEF LpmNext

\* The maps hold the tokens, each once and under its id, and the buckets are in
\* order: the inductive invariant of the matcher that training inserts into.
THEOREM LpmInvHolds == LpmSpec => []LpmInv
<1>1. LpmInit => LpmInv
  BY LpmInvAtStart
<1>2. LpmInv /\ [LpmNext]_lpm_vars => LpmInv'
  BY LpmInvKept
<1> QED
  BY <1>1, <1>2, PTL DEF LpmSpec

-----------------------------------------------------------------------------
(***************************************************************************)
(* What the maps hold spells the tokens.                                   *)
(***************************************************************************)

LEMMA ShortSpelled ==
    ASSUME NEW t \in Token, IsShort(t)
    PROVE  /\ SubSeq(ShortKey(t)[1], 1, ShortKey(t)[2]) = t
           /\ ShortKey(t) \in Word \X (1 .. WordSize)
<1> DEFINE x == LoadWord(t, Len(t))
           n == Len(t)
<1>1. /\ t \in Seq(Byte) /\ n \in Nat /\ n \in 1 .. WordSize /\ n <= WordSize /\ WordSize \in Nat
      /\ t \in ByteSeq
  BY TokenType, Sizes DEF IsShort, ByteSeq
<1>2. x \in Word /\ \A k \in 1 .. WordSize : x[k] = IF k <= n THEN t[k] ELSE 0
  BY <1>1, LoadWordType
<1>3. x \in Seq(Byte) /\ Len(x) = WordSize
  <2> HIDE DEF x
  <2> QED
    BY <1>1, <1>2 DEF Word
<1> HIDE DEF x, n
<1>4. /\ SubSeq(x, 1, n) \in Seq(Byte) /\ Len(SubSeq(x, 1, n)) = n
      /\ \A i \in 1 .. n : SubSeq(x, 1, n)[i] = x[i]
  <2>1. 0 \in 0 .. Len(x) /\ n \in 0 .. Len(x)
    BY <1>1, <1>3
  <2>2. /\ SubSeq(x, 0 + 1, n) \in Seq(Byte) /\ Len(SubSeq(x, 0 + 1, n)) = n - 0
        /\ \A i \in 1 .. n - 0 : SubSeq(x, 0 + 1, n)[i] = x[0 + i]
    BY <1>3, <2>1, MiddlePiece
  <2> QED
    BY <1>1, <2>2
<1>5. \A i \in 1 .. n : SubSeq(x, 1, n)[i] = t[i]
  <2>1. \A i \in 1 .. n : i \in 1 .. WordSize /\ i <= n
    BY <1>1
  <2> QED
    BY <1>2, <1>4, <2>1
<1>6. SubSeq(x, 1, n) = t
  <2> DEFINE y == SubSeq(x, 1, n)
  <2>1. y \in Seq(Byte) /\ Len(y) = Len(t) /\ \A i \in 1 .. Len(y) : y[i] = t[i]
    BY <1>4, <1>5 DEF n
  <2> HIDE DEF y
  <2>2. y = t
    BY <1>1, <2>1, SeqEqual
  <2> QED
    BY <2>2 DEF y
<1> QED
  BY <1>1, <1>2, <1>6 DEF ShortKey, x, n

LEMMA LongSpelled ==
    ASSUME NEW t \in Token, ~IsShort(t), NEW id \in Nat
    PROVE  LoadWord(t, WordSize) \o SubSeq(Entry(t, id).suffix, 1, Entry(t, id).slen) = t
<1> DEFINE w == LoadWord(t, WordSize)
           x == Entry(t, id).suffix
           n == Entry(t, id).slen
           y == SubSeq(x, 1, n)
<1>1. /\ t \in Seq(Byte) /\ t \in ByteSeq /\ Len(t) \in Nat /\ WordSize \in Nat
  BY TokenType, Sizes DEF ByteSeq
<1>2. /\ n = Len(t) - WordSize /\ n \in 1 .. WordSize /\ n \in Nat /\ x \in Word
      /\ \A k \in 1 .. WordSize : x[k] = IF k <= n THEN t[WordSize + k] ELSE 0
  BY EntryIs, Sizes
<1>3. w \in Word /\ \A k \in 1 .. WordSize : w[k] = t[k]
  <2>1. WordSize <= Len(t)
    BY <1>1, <1>2
  <2>2. w \in Word /\ \A k \in 1 .. WordSize :
            w[k] = IF k <= WordSize /\ k <= Len(t) THEN t[k] ELSE 0
    BY <1>1, LoadWordType
  <2> HIDE DEF w
  <2> QED
    BY <1>1, <2>1, <2>2
<1> HIDE DEF w, x, n
<1>4. w \in Seq(Byte) /\ Len(w) = WordSize /\ x \in Seq(Byte) /\ Len(x) = WordSize
  BY <1>1, <1>2, <1>3 DEF Word
<1>5. /\ y \in Seq(Byte) /\ Len(y) = n
      /\ \A i \in 1 .. n : y[i] = x[i]
  <2>1. 0 \in 0 .. Len(x) /\ n \in 0 .. Len(x)
    BY <1>1, <1>2, <1>4
  <2>2. /\ SubSeq(x, 0 + 1, n) \in Seq(Byte) /\ Len(SubSeq(x, 0 + 1, n)) = n - 0
        /\ \A i \in 1 .. n - 0 : SubSeq(x, 0 + 1, n)[i] = x[0 + i]
    BY <1>4, <2>1, MiddlePiece
  <2> QED
    BY <1>2, <2>2
<1> HIDE DEF y
<1>6. \A i \in 1 .. n : y[i] = t[WordSize + i]
  <2>1. \A i \in 1 .. n : i \in 1 .. WordSize /\ i <= n
    BY <1>1, <1>2
  <2> QED
    BY <1>2, <1>5, <2>1
<1> DEFINE z == w \o y
<1>7. /\ z \in Seq(Byte) /\ Len(z) = WordSize + n
      /\ \A i \in 1 .. WordSize + n : z[i] = IF i <= WordSize THEN w[i] ELSE y[i - WordSize]
  <2>1. w \in Seq(Byte) /\ y \in Seq(Byte) /\ Len(w) = WordSize /\ Len(y) = n
    BY <1>4, <1>5
  <2> QED
    BY <2>1, ConcatProperties
<1> HIDE DEF z
<1>8. ASSUME NEW i \in 1 .. Len(z)
      PROVE  z[i] = t[i]
  <2>1. CASE i <= WordSize
    <3>1. i \in 1 .. WordSize /\ i \in 1 .. WordSize + n
      BY <1>1, <1>2, <2>1
    <3> QED
      BY <1>3, <1>7, <2>1, <3>1
  <2>2. CASE ~(i <= WordSize)
    <3>1. i - WordSize \in 1 .. n /\ i \in 1 .. WordSize + n /\ WordSize + (i - WordSize) = i
      BY <1>1, <1>2, <1>7, <2>2
    <3> QED
      BY <1>6, <1>7, <2>2, <3>1
  <2> QED
    BY <2>1, <2>2
<1>9. Len(z) = Len(t)
  BY <1>1, <1>2, <1>7
<1>10. z = t
  BY <1>1, <1>7, <1>8, <1>9, SeqEqual
<1> QED
  BY <1>10 DEF z, y, w, x, n

\* The words, ids and lengths in the maps have their types.
LEMMA LpmTyped ==
    ASSUME LpmInv
    PROVE  LpmTypeOK
<1>1. /\ tokens \in Seq(Token) /\ nextId = Len(tokens) /\ nextId \in Nat
      /\ maxShortLen \in 1 .. WordSize
      /\ ShortHolds(tokens, shortMap, maxShortLen) /\ LongHolds(tokens, longMap)
  BY LenProperties DEF LpmInv
<1>2. ASSUME NEW key \in DOMAIN shortMap
      PROVE  key \in Word \X (1 .. WordSize) /\ shortMap[key] \in 0 .. nextId - 1
  <2> DEFINE id == shortMap[key]
  <2>1. id \in 0 .. Len(tokens) - 1 /\ IsShort(TokenOf(tokens, id)) /\ key = ShortKey(TokenOf(tokens, id))
    BY <1>1 DEF ShortHolds
  <2> HIDE DEF id
  <2>2. TokenOf(tokens, id) \in Token
    BY <1>1, <2>1, TokenOfType
  <2>3. key \in Word \X (1 .. WordSize)
    BY <2>1, <2>2, ShortSpelled
  <2> QED
    BY <1>1, <2>1, <2>3 DEF id
<1>3. ASSUME NEW w \in DOMAIN longMap, NEW k \in 1 .. Len(longMap[w].entries)
      PROVE  longMap[w].entries[k] \in
                [suffix : Word, slen : 1 .. MaxSuffixLen, token : 0 .. nextId - 1]
  <2> DEFINE e == longMap[w].entries[k]
  <2>1. longMap[w].entries \in Seq(EntryType) /\ e.token \in 0 .. nextId - 1
    BY <1>1 DEF LongHolds, IsListOf
  <2>2. e \in EntryType
    BY <2>1, EntriesTyped
  <2> HIDE DEF e
  <2>3. e \in [suffix : Word, slen : 1 .. MaxSuffixLen, token : 0 .. nextId - 1]
    BY <2>1, <2>2 DEF EntryType
  <2> QED
    BY <2>3 DEF e
<1>4. DOMAIN longMap \subseteq Word
  BY <1>1 DEF LongHolds
<1> QED
  BY <1>1, <1>2, <1>3, <1>4 DEF LpmTypeOK, Buckets

LEMMA LpmGrouped ==
    ASSUME LpmInv
    PROVE  GroupsInOrder
<1> SUFFICES ASSUME NEW w \in DOMAIN longMap, NEW b, b = longMap[w]
             PROVE  /\ b.grouped <=> Len(b.entries) > PromoteThreshold
                    /\ b.grouped =>
                       \A slen \in 1 .. MaxSuffixLen :
                           /\ {k \in 1 .. Len(b.entries) : b.entries[k].slen = slen}
                                   = b.ends[slen + 1] + 1 .. b.ends[slen]
                           /\ slen \in b.present <=> b.ends[slen + 1] < b.ends[slen]
                           /\ \A j, k \in b.ends[slen + 1] + 1 .. b.ends[slen] :
                               j < k => WordLess(b.entries[j].suffix, b.entries[k].suffix)
  BY DEF GroupsInOrder, Buckets
<1>1. b.entries \in Seq(EntryType) /\ (LinearInOrder(b) \/ GroupedInOrder(b))
  BY DEF LpmInv, LongHolds, IsListOf
<1>2. Len(b.entries) \in Nat /\ PromoteThreshold \in Nat
  BY <1>1, LenProperties, Sizes
<1>3. CASE LinearInOrder(b)
  <2>1. b.grouped = FALSE /\ Len(b.entries) <= PromoteThreshold
    BY <1>3 DEF LinearInOrder, Linear
  <2> QED
    BY <1>2, <2>1
<1>4. CASE GroupedInOrder(b)
  <2>1. b.grouped = TRUE /\ Len(b.entries) > PromoteThreshold
    BY <1>4 DEF GroupedInOrder, Grouped
  <2>2. ASSUME NEW v \in 1 .. MaxSuffixLen
        PROVE  /\ {k \in 1 .. Len(b.entries) : b.entries[k].slen = v} = b.ends[v + 1] + 1 .. b.ends[v]
               /\ v \in b.present <=> b.ends[v + 1] < b.ends[v]
               /\ \A j, k \in b.ends[v + 1] + 1 .. b.ends[v] :
                    j < k => WordLess(b.entries[j].suffix, b.entries[k].suffix)
    <3> DEFINE es == b.entries
               p == b.ends[v]
               q == b.ends[v + 1]
               n == Len(es)
    <3>1. /\ p \in Nat /\ q \in Nat /\ q <= p /\ p <= n /\ n \in Nat
          /\ \A k \in 1 .. n : es[k].slen = v <=> k \in q + 1 .. p
      BY <1>1, <1>2, <1>4, GroupIs
    <3>2. b.present = {es[k].slen : k \in 1 .. n}
      BY <1>4 DEF GroupedInOrder
    <3>3. \A j, k \in 1 .. n : j < k /\ es[j].slen = es[k].slen => WordLess(es[j].suffix, es[k].suffix)
      BY <1>4 DEF GroupedInOrder
    <3> HIDE DEF es, p, q, n
    <3>4. \A k \in q + 1 .. p : k \in 1 .. n
      BY <3>1
    <3>5. {k \in 1 .. n : es[k].slen = v} = q + 1 .. p
      BY <3>1, <3>4
    <3>6. v \in b.present <=> \E k \in 1 .. n : es[k].slen = v
      BY <3>2
    <3>7. (\E k \in 1 .. n : es[k].slen = v) <=> \E k \in q + 1 .. p : TRUE
      BY <3>1, <3>4
    <3>8. (\E k \in q + 1 .. p : TRUE) <=> q < p
      <4>1. q < p => p \in q + 1 .. p
        BY <3>1
      <4> QED
        BY <3>1, <4>1
    <3>9. \A j, k \in q + 1 .. p : j < k => WordLess(es[j].suffix, es[k].suffix)
      BY <3>1, <3>3, <3>4
    <3> QED
      BY <3>5, <3>6, <3>7, <3>8, <3>9 DEF es, p, q, n
  <2> QED
    BY <2>1, <2>2
<1> QED
  BY <1>1, <1>3, <1>4

LEMMA LpmHolds ==
    ASSUME LpmInv
    PROVE  HoldsEveryToken
<1> DEFINE short == {<<SubSeq(key[1], 1, key[2]), shortMap[key]>> : key \in DOMAIN shortMap}
           of(w) == {<<w \o SubSeq(e.suffix, 1, e.slen), e.token>> :
                        e \in {longMap[w].entries[k] : k \in 1 .. Len(longMap[w].entries)}}
           long == UNION {of(w) : w \in DOMAIN longMap}
           all == {<<tokens[k], k - 1>> : k \in 1 .. Len(tokens)}
<1>1. /\ tokens \in Seq(Token) /\ nextId = Len(tokens) /\ Len(tokens) \in Nat
      /\ ShortHolds(tokens, shortMap, maxShortLen) /\ LongHolds(tokens, longMap)
      /\ \A id \in 0 .. Len(tokens) - 1 : IsHeld(tokens, shortMap, longMap, id)
  BY LenProperties DEF LpmInv
<1>2. ASSUME NEW id \in 0 .. Len(tokens) - 1
      PROVE  /\ TokenOf(tokens, id) \in Token /\ id \in Nat
             /\ <<TokenOf(tokens, id), id>> \in all
  <2>1. TokenOf(tokens, id) \in Token /\ id + 1 \in 1 .. Len(tokens) /\ id \in Nat /\ (id + 1) - 1 = id
    BY <1>1, TokenOfType
  <2> QED
    BY <2>1 DEF TokenOf
<1>3. ASSUME NEW x \in all
      PROVE  \E id \in 0 .. Len(tokens) - 1 : x = <<TokenOf(tokens, id), id>>
  <2>1. PICK k \in 1 .. Len(tokens) : x = <<tokens[k], k - 1>>
    OBVIOUS
  <2>2. k - 1 \in 0 .. Len(tokens) - 1 /\ (k - 1) + 1 = k
    BY <1>1
  <2> QED
    BY <2>1, <2>2 DEF TokenOf
<1>4. ASSUME NEW key \in DOMAIN shortMap, NEW id, NEW t, id = shortMap[key], t = TokenOf(tokens, id)
      PROVE  /\ id \in 0 .. Len(tokens) - 1 /\ t \in Token /\ IsShort(t) /\ key = ShortKey(t)
             /\ SubSeq(key[1], 1, key[2]) = t
  <2>1. id \in 0 .. Len(tokens) - 1 /\ IsShort(t) /\ key = ShortKey(t)
    BY <1>1, <1>4 DEF ShortHolds
  <2>2. t \in Token
    BY <1>2, <1>4, <2>1
  <2>3. SubSeq(key[1], 1, key[2]) = t
    BY <2>1, <2>2, ShortSpelled
  <2> QED
    BY <2>1, <2>2, <2>3
<1>5. ASSUME NEW w \in DOMAIN longMap, NEW k \in 1 .. Len(longMap[w].entries), NEW e,
             e = longMap[w].entries[k], NEW t, t = TokenOf(tokens, e.token)
      PROVE  /\ e.token \in 0 .. Len(tokens) - 1 /\ t \in Token
             /\ w \o SubSeq(e.suffix, 1, e.slen) = t
  <2>1. e.token \in 0 .. Len(tokens) - 1 /\ ~IsShort(t) /\ w = LoadWord(t, WordSize)
        /\ e = Entry(t, e.token)
    BY <1>1, <1>5 DEF LongHolds, IsListOf
  <2>2. t \in Token /\ e.token \in Nat
    BY <1>2, <1>5, <2>1
  <2> DEFINE id == e.token
  <2>3. id \in Nat /\ e = Entry(t, id)
    BY <2>1, <2>2
  <2> HIDE DEF id
  <2>4. LoadWord(t, WordSize) \o SubSeq(Entry(t, id).suffix, 1, Entry(t, id).slen) = t
    BY <2>1, <2>2, <2>3, LongSpelled
  <2> QED
    BY <2>1, <2>2, <2>3, <2>4
<1> HIDE DEF all
<1>6. short \subseteq all
  <2> SUFFICES ASSUME NEW key \in DOMAIN shortMap
               PROVE  <<SubSeq(key[1], 1, key[2]), shortMap[key]>> \in all
    OBVIOUS
  <2> QED
    BY <1>2, <1>4
<1>7. long \subseteq all
  <2>1. ASSUME NEW w \in DOMAIN longMap, NEW x \in of(w)
        PROVE  x \in all
    <3>1. PICK k \in 1 .. Len(longMap[w].entries) :
            \E e : e = longMap[w].entries[k] /\ x = <<w \o SubSeq(e.suffix, 1, e.slen), e.token>>
      OBVIOUS
    <3>2. PICK e : e = longMap[w].entries[k] /\ x = <<w \o SubSeq(e.suffix, 1, e.slen), e.token>>
      BY <3>1
    <3> QED
      BY <1>2, <1>5, <3>2
  <2> HIDE DEF of
  <2> QED
    BY <2>1
<1>8. ASSUME NEW id \in 0 .. Len(tokens) - 1
      PROVE  <<TokenOf(tokens, id), id>> \in short \cup long
  <2> DEFINE t == TokenOf(tokens, id)
             w == LoadWord(t, WordSize)
  <2>1. /\ IsShort(t) => ShortKey(t) \in DOMAIN shortMap /\ shortMap[ShortKey(t)] = id
        /\ ~IsShort(t) => /\ w \in DOMAIN longMap
                          /\ \E k \in 1 .. Len(longMap[w].entries) : longMap[w].entries[k].token = id
    BY <1>1 DEF IsHeld
  <2>2. t = TokenOf(tokens, id)
    OBVIOUS
  <2> HIDE DEF t, w
  <2>3. CASE IsShort(t)
    <3>1. PICK key \in DOMAIN shortMap : key = ShortKey(t) /\ shortMap[key] = id
      BY <2>1, <2>3
    <3>2. SubSeq(key[1], 1, key[2]) = t
      BY <1>4, <2>2, <3>1
    <3>3. <<t, id>> \in short
      BY <3>1, <3>2
    <3> QED
      BY <2>2, <3>3
  <2>4. CASE ~IsShort(t)
    <3>1. PICK k \in 1 .. Len(longMap[w].entries) : longMap[w].entries[k].token = id
      BY <2>1, <2>4
    <3>2. PICK e : e = longMap[w].entries[k]
      OBVIOUS
    <3>3. w \in DOMAIN longMap /\ e.token = id
      BY <2>1, <2>4, <3>1, <3>2
    <3>4. w \o SubSeq(e.suffix, 1, e.slen) = t
      BY <1>5, <2>2, <3>2, <3>3
    <3>5. <<t, id>> \in of(w)
      BY <3>2, <3>3, <3>4
    <3>6. <<t, id>> \in long
      <4> HIDE DEF of
      <4> QED
        BY <3>3, <3>5
    <3> QED
      BY <2>2, <3>6
  <2> QED
    BY <2>3, <2>4
<1>9. short \cup long = all
  <2> HIDE DEF short, long
  <2> QED
    BY <1>3, <1>6, <1>7, <1>8
<1>10. \A b \in Buckets : \A j, k \in 1 .. Len(b.entries) : b.entries[j] = b.entries[k] => j = k
  BY <1>1 DEF Buckets, LongHolds, IsListOf
<1>11. LpmTypeOK /\ GroupsInOrder
  BY LpmTyped, LpmGrouped
<1> QED
  BY <1>1, <1>9, <1>10, <1>11 DEF HoldsEveryToken, all

\* Every token that training inserted is in the maps once, spelled by its words
\* and under its id, and promotion and later insertions keep the groups of a
\* bucket those of its entries.
THEOREM LpmHoldsEveryToken == LpmSpec => []HoldsEveryToken
BY LpmInvHolds, LpmHolds, PTL

-----------------------------------------------------------------------------
(***************************************************************************)
(* Binary search.                                                          *)
(***************************************************************************)

\* f goes on from an argument to the next until that is of size one at most, for
\* arguments of size m at most.
Follows(f, m, next) ==
    f = [p \in Nat \X (0 .. m) |-> IF p[2] <= 1 THEN p[1] ELSE f[next[p]]]

LEMMA FollowsUnfolds ==
    ASSUME NEW m \in Nat, NEW next, NEW f, Follows(f, m, next), NEW p \in Nat \X (0 .. m)
    PROVE  f[p] = IF p[2] <= 1 THEN p[1] ELSE f[next[p]]
<1> DEFINE D == Nat \X (0 .. m)
           rhs(q) == IF q[2] <= 1 THEN q[1] ELSE f[next[q]]
<1>1. f = [q \in D |-> rhs(q)]
  BY DEF Follows
<1>2. p \in D
  OBVIOUS
<1> HIDE DEF D, rhs
<1>3. f[p] = rhs(p)
  BY <1>1, <1>2
<1> QED
  BY <1>3 DEF rhs

LEMMA FollowsExist ==
    ASSUME NEW n \in Nat, NEW next,
           \A p \in Nat \X Nat : p[2] > 1 => next[p] \in Nat \X Nat /\ next[p][2] < p[2]
    PROVE  \E f : Follows(f, n, next)
<1> DEFINE Good == {m \in 0 .. n : \E f : Follows(f, m, next)}
<1>1. 0 \in Good
  <2> DEFINE f == [p \in Nat \X (0 .. 0) |-> p[1]]
  <2>1. \A p \in Nat \X (0 .. 0) : p[2] <= 1
    OBVIOUS
  <2>2. f = [p \in Nat \X (0 .. 0) |-> IF p[2] <= 1 THEN p[1] ELSE f[next[p]]]
    BY <2>1
  <2>3. Follows(f, 0, next)
    BY <2>2 DEF Follows
  <2> HIDE DEF f
  <2> QED
    BY <2>3
<1>2. ASSUME NEW k \in 0 .. n - 1, k \in Good
      PROVE  k + 1 \in Good
  <2>1. PICK g : Follows(g, k, next)
    BY <1>2
  <2> DEFINE m == k + 1
             rhs(h, p) == IF p[2] <= 1 THEN p[1] ELSE h[next[p]]
             f == [p \in Nat \X (0 .. m) |-> IF p[2] <= k THEN g[p] ELSE rhs(g, p)]
  <2>2. k \in Nat /\ m \in Nat /\ m \in 0 .. n
    OBVIOUS
  <2>3. ASSUME NEW p \in Nat \X (0 .. m)
        PROVE  f[p] = rhs(f, p)
    <3>1. p[1] \in Nat /\ p[2] \in Nat /\ p[2] <= m /\ p \in Nat \X Nat
      BY <2>2
    <3>2. f[p] = rhs(g, p)
      <4>1. CASE p[2] <= k
        <5>1. p \in Nat \X (0 .. k)
          BY <2>2, <3>1, <4>1
        <5>2. g[p] = rhs(g, p)
          BY <2>1, <2>2, <5>1, FollowsUnfolds
        <5> HIDE DEF rhs
        <5> QED
          BY <4>1, <5>2
      <4>2. CASE ~(p[2] <= k)
        <5> HIDE DEF rhs
        <5> QED
          BY <4>2
      <4> QED
        BY <4>1, <4>2
    <3>3. CASE p[2] <= 1
      <4> HIDE DEF f
      <4> QED
        BY <3>2, <3>3
    <3>4. CASE ~(p[2] <= 1)
      <4> DEFINE q == next[p]
      <4>1. q \in Nat \X Nat /\ q[2] < p[2]
        BY <3>1, <3>4
      <4> HIDE DEF q
      <4>2. q[2] \in Nat /\ q[2] <= k /\ q[2] \in 0 .. m /\ q \in Nat \X (0 .. m)
        BY <2>2, <3>1, <4>1
      <4>3. f[q] = g[q]
        BY <4>2
      <4> HIDE DEF f
      <4> QED
        BY <3>2, <3>4, <4>3 DEF q
    <3> QED
      BY <3>3, <3>4
  <2>4. f = [p \in Nat \X (0 .. m) |-> rhs(f, p)]
    <3>1. f = [p \in Nat \X (0 .. m) |-> f[p]]
      OBVIOUS
    <3> HIDE DEF f, rhs
    <3> QED
      BY <2>3, <3>1
  <2>5. Follows(f, m, next)
    <3> HIDE DEF f
    <3> QED
      BY <2>4 DEF Follows
  <2> HIDE DEF f
  <2> QED
    BY <2>2, <2>5
<1>3. \A k \in 0 .. n : k \in Good
  <2> HIDE DEF Good
  <2> QED
    BY <1>1, <1>2, UpwardInduction
<1> QED
  BY <1>3

LEMMA FollowsAgree ==
    ASSUME NEW n \in Nat, NEW k \in Nat, n <= k, NEW next,
           \A p \in Nat \X Nat : p[2] > 1 => next[p] \in Nat \X Nat /\ next[p][2] < p[2],
           NEW f, NEW g, Follows(f, n, next), Follows(g, k, next)
    PROVE  \A p \in Nat \X (0 .. n) : f[p] = g[p]
<1> DEFINE Same == {m \in 0 .. n : \A p \in Nat \X (0 .. m) : f[p] = g[p]}
<1>0. ASSUME NEW p \in Nat \X (0 .. n)
      PROVE  /\ f[p] = IF p[2] <= 1 THEN p[1] ELSE f[next[p]]
             /\ g[p] = IF p[2] <= 1 THEN p[1] ELSE g[next[p]]
             /\ p[2] \in Nat /\ p[2] <= n /\ p \in Nat \X Nat
  <2>1. p \in Nat \X (0 .. k) /\ p[2] \in Nat /\ p[2] <= n /\ p \in Nat \X Nat
    OBVIOUS
  <2> QED
    BY <2>1, FollowsUnfolds
<1>1. 0 \in Same
  <2>1. ASSUME NEW p \in Nat \X (0 .. 0)
        PROVE  f[p] = g[p]
    <3>1. p \in Nat \X (0 .. n) /\ p[2] <= 1
      OBVIOUS
    <3> QED
      BY <1>0, <3>1
  <2> QED
    BY <2>1
<1>2. ASSUME NEW m \in 0 .. n - 1, m \in Same
      PROVE  m + 1 \in Same
  <2>1. ASSUME NEW p \in Nat \X (0 .. m + 1)
        PROVE  f[p] = g[p]
    <3>1. p \in Nat \X (0 .. n) /\ p[2] \in Nat /\ p[2] <= m + 1 /\ p \in Nat \X Nat
      OBVIOUS
    <3>2. CASE p[2] <= 1
      BY <1>0, <3>1, <3>2
    <3>3. CASE ~(p[2] <= 1)
      <4> DEFINE q == next[p]
      <4>1. q \in Nat \X Nat /\ q[2] < p[2]
        BY <3>1, <3>3
      <4> HIDE DEF q
      <4>2. q \in Nat \X (0 .. m)
        BY <3>1, <4>1
      <4>3. f[q] = g[q]
        BY <1>2, <4>2
      <4> QED
        BY <1>0, <3>1, <3>3, <4>3 DEF q
    <3> QED
      BY <3>2, <3>3
  <2> QED
    BY <2>1
<1>3. \A m \in 0 .. n : m \in Same
  <2> HIDE DEF Same
  <2> QED
    BY <1>1, <1>2, UpwardInduction
<1> QED
  BY <1>3

\* There is a function that goes on until the size is one.
LEMMA HalvingExists ==
    ASSUME NEW next,
           \A p \in Nat \X Nat : p[2] > 1 => next[p] \in Nat \X Nat /\ next[p][2] < p[2]
    PROVE  \E f : f = [p \in Nat \X Nat |-> IF p[2] <= 1 THEN p[1] ELSE f[next[p]]]
<1> DEFINE upTo(n) == CHOOSE f : Follows(f, n, next)
           rhs(h, p) == IF p[2] <= 1 THEN p[1] ELSE h[next[p]]
           f == [p \in Nat \X Nat |-> upTo(p[2])[p]]
<1>1. \A n \in Nat : Follows(upTo(n), n, next)
  BY FollowsExist
<1> HIDE DEF upTo
<1>2. ASSUME NEW p \in Nat \X Nat
      PROVE  f[p] = rhs(f, p)
  <2>1. p[2] \in Nat /\ p \in Nat \X (0 .. p[2])
    OBVIOUS
  <2>2. f[p] = upTo(p[2])[p]
    OBVIOUS
  <2>3. upTo(p[2])[p] = rhs(upTo(p[2]), p)
    BY <1>1, <2>1, FollowsUnfolds
  <2>4. CASE p[2] <= 1
    <3> HIDE DEF f
    <3> QED
      BY <2>2, <2>3, <2>4
  <2>5. CASE ~(p[2] <= 1)
    <3> DEFINE q == next[p]
               n == p[2]
    <3>1. q \in Nat \X Nat /\ q[2] < n /\ n \in Nat
      BY <2>1, <2>5
    <3>2. q[2] \in Nat /\ q \in Nat \X (0 .. q[2]) /\ q[2] <= n
      <4> HIDE DEF q, n
      <4> QED
        BY <3>1
    <3>3. f[q] = upTo(q[2])[q]
      <4> HIDE DEF q
      <4> QED
        BY <3>1
    <3> HIDE DEF f, q, n
    <3>4. upTo(q[2])[q] = upTo(n)[q]
      BY <1>1, <3>1, <3>2, FollowsAgree
    <3> QED
      BY <2>2, <2>3, <2>5, <3>3, <3>4 DEF q, n
  <2> QED
    BY <2>4, <2>5
<1>3. f = [p \in Nat \X Nat |-> rhs(f, p)]
  <2>1. f = [p \in Nat \X Nat |-> f[p]]
    OBVIOUS
  <2> HIDE DEF f, rhs
  <2> QED
    BY <1>2, <2>1
<1>4. f = [p \in Nat \X Nat |-> IF p[2] <= 1 THEN p[1] ELSE f[next[p]]]
  <2> HIDE DEF f
  <2> QED
    BY <1>3
<1> HIDE DEF f
<1> QED
  BY <1>4

\* Half of a size of two or more.
LEMMA HalfIs ==
    ASSUME NEW n \in Nat, n > 1
    PROVE  /\ n \div 2 \in Nat /\ n - n \div 2 \in Nat
           /\ 1 <= n \div 2 /\ n \div 2 <= n - n \div 2 /\ n - n \div 2 < n
OBVIOUS

\* The entries of a stretch have words as suffixes, in rising order.
Rising(es, from, to) ==
    /\ \A k \in from + 1 .. to : es[k].suffix \in Word
    /\ \A j, k \in from + 1 .. to : j < k => WordLess(es[j].suffix, es[k].suffix)

\* In a stretch of entries in order of their suffixes a binary search finds the
\* target if it is there.
LEMMA BinarySearchFinds ==
    ASSUME NEW es, NEW from \in Nat, NEW to \in Nat, from < to, NEW target \in Word,
           Rising(es, from, to), NEW at, at = BinarySearch(es, from, to, target)
    PROVE  /\ at # 0 => at \in from + 1 .. to /\ es[at].suffix = target
           /\ \A k \in from + 1 .. to : es[k].suffix = target => at = k
<1> DEFINE middle(p) == p[1] + p[2] \div 2
           lower(p) == IF WordLess(target, es[middle(p) + 1].suffix) THEN p[1] ELSE middle(p)
           Solves(f) == f = [p \in Nat \X Nat |->
                                IF p[2] <= 1 THEN p[1] ELSE f[<<lower(p), p[2] - p[2] \div 2>>]]
           halve == CHOOSE f : Solves(f)
           next == [p \in Nat \X Nat |-> <<lower(p), p[2] - p[2] \div 2>>]
<1>0. /\ \A k \in from + 1 .. to : es[k].suffix \in Word
      /\ \A j, k \in from + 1 .. to : j < k => WordLess(es[j].suffix, es[k].suffix)
  BY DEF Rising
<1>1. at = IF from < to /\ es[halve[<<from, to - from>>] + 1].suffix = target
           THEN halve[<<from, to - from>>] + 1 ELSE 0
  BY DEF BinarySearch
<1>2. ASSUME NEW p \in Nat \X Nat, p[2] > 1
      PROVE  next[p] \in Nat \X Nat /\ next[p][2] < p[2]
  <2>1. p[1] \in Nat /\ p[2] \in Nat /\ p[2] - p[2] \div 2 \in Nat /\ p[2] - p[2] \div 2 < p[2]
        /\ middle(p) \in Nat
    BY <1>2, HalfIs
  <2>2. lower(p) \in Nat
    <3> HIDE DEF middle
    <3> QED
      BY <2>1
  <2>3. next[p] = <<lower(p), p[2] - p[2] \div 2>>
    <3> HIDE DEF lower
    <3> QED
      OBVIOUS
  <2> HIDE DEF lower, next, middle
  <2> QED
    BY <2>1, <2>2, <2>3
<1>3. \E f : Solves(f)
  <2> HIDE DEF next
  <2>1. PICK f : f = [p \in Nat \X Nat |-> IF p[2] <= 1 THEN p[1] ELSE f[next[p]]]
    BY <1>2, HalvingExists
  <2>2. \A p \in Nat \X Nat : next[p] = <<lower(p), p[2] - p[2] \div 2>>
    <3> HIDE DEF lower
    <3> QED
      BY DEF next
  <2> HIDE DEF lower
  <2>3. \A p \in Nat \X Nat :
            f[p] = IF p[2] <= 1 THEN p[1] ELSE f[<<lower(p), p[2] - p[2] \div 2>>]
    BY <2>1, <2>2
  <2>4. f = [p \in Nat \X Nat |-> f[p]]
    BY <2>1
  <2>5. Solves(f)
    BY <2>3, <2>4
  <2> HIDE DEF Solves
  <2> QED
    BY <2>5
<1>4. Solves(halve)
  <2> HIDE DEF Solves
  <2> QED
    BY <1>3
<1> HIDE DEF halve
<1>5. \A p \in Nat \X Nat :
        halve[p] = IF p[2] <= 1 THEN p[1] ELSE halve[<<lower(p), p[2] - p[2] \div 2>>]
  <2> HIDE DEF lower
  <2> QED
    BY <1>4, Zenon
<1> HIDE DEF Solves, next
\* What halving a stretch leads to, for stretches of m entries at most.
<1> DEFINE Right(b, n) ==
                /\ halve[<<b, n>>] \in b .. b + n - 1
                /\ \A k \in b + 1 .. b + n : es[k].suffix = target => halve[<<b, n>>] + 1 = k
           Good == {m \in 0 .. to - from :
                        \A n \in 1 .. m, b \in from .. to : b + n <= to => Right(b, n)}
<1>6. 0 \in Good
  BY DEF Good
<1>7. ASSUME NEW m \in 0 .. to - from - 1, m \in Good
      PROVE  m + 1 \in Good
  <2> SUFFICES ASSUME NEW n \in 1 .. m + 1, NEW b \in from .. to, b + n <= to
               PROVE  Right(b, n)
    <3> HIDE DEF Right
    <3> QED
      OBVIOUS
  <2>1. n \in Nat /\ b \in Nat /\ m \in Nat /\ n >= 1
        /\ <<b, n>> \in Nat \X Nat /\ <<b, n>>[1] = b /\ <<b, n>>[2] = n
    OBVIOUS
  <2>2. CASE n <= 1
    <3>1. halve[<<b, n>>] = b /\ n = 1
      <4>1. halve[<<b, n>>] = b
        <5> HIDE DEF lower
        <5> QED
          BY <1>5, <2>1, <2>2
      <4> QED
        BY <2>1, <2>2, <4>1
    <3> QED
      BY <2>1, <3>1
  <2>3. CASE n > 1
    <3> DEFINE h == n \div 2
               d == b + h
               l == IF WordLess(target, es[d + 1].suffix) THEN b ELSE d
               r == n - h
    <3>1. h \in Nat /\ r \in Nat /\ 1 <= h /\ h <= r /\ r < n
      BY <2>1, <2>3, HalfIs
    <3>2. halve[<<b, n>>] = halve[<<l, r>>]
      <4>1. ~(n <= 1)
        BY <2>1, <2>3
      <4>2. lower(<<b, n>>) = l
        BY <2>1
      <4> HIDE DEF lower, l
      <4>3. halve[<<b, n>>] = halve[<<lower(<<b, n>>), n - n \div 2>>]
        BY <1>5, <2>1, <4>1
      <4> QED
        BY <4>2, <4>3
    <3>3. r = n - h /\ d = b + h
      OBVIOUS
    <3> HIDE DEF h, r, d
    <3>4. \A x \in from .. to : x + r <= to => Right(x, r)
      <4>1. r \in 1 .. m
        BY <2>1, <3>1
      <4> HIDE DEF Right
      <4> QED
        BY <1>7, <4>1
    <3>5. d + 1 \in from + 1 .. to /\ d \in from .. to /\ d \in Nat /\ d + r = b + n
      BY <2>1, <3>1, <3>3
    <3>6. CASE WordLess(target, es[d + 1].suffix)
      <4>1. l = b
        BY <3>6
      <4>2. b + r <= to /\ b + r <= b + n
        BY <2>1, <3>1
      <4>3. Right(b, r)
        BY <3>4, <4>2
      <4>4. ASSUME NEW k \in b + 1 .. b + n, es[k].suffix = target
            PROVE  k \in b + 1 .. b + r
        <5>1. k \in from + 1 .. to /\ k \in Nat
          BY <2>1
        <5>2. ~(d + 1 < k)
          <6>1. d + 1 < k => WordLess(es[d + 1].suffix, target)
            BY <1>0, <3>5, <4>4, <5>1
          <6>2. es[d + 1].suffix \in Word
            BY <1>0, <3>5
          <6>3. ~WordLess(es[d + 1].suffix, target)
            BY <3>6, <6>2, WordLessOrders
          <6> QED
            BY <6>1, <6>3
        <5>3. k # d + 1
          BY <3>6, <4>4, WordLessOrders
        <5> QED
          BY <2>1, <3>1, <3>3, <3>5, <5>1, <5>2, <5>3
      <4>5. halve[<<b, n>>] = halve[<<b, r>>]
        BY <3>2, <4>1
      <4> HIDE DEF l
      <4>6. halve[<<b, n>>] \in b .. b + r - 1
        BY <4>3, <4>5
      <4>7. halve[<<b, n>>] \in b .. b + n - 1
        BY <2>1, <3>1, <4>6
      <4>8. ASSUME NEW k \in b + 1 .. b + n, es[k].suffix = target
            PROVE  halve[<<b, n>>] + 1 = k
        BY <4>3, <4>4, <4>5, <4>8
      <4> QED
        BY <4>7, <4>8
    <3>7. CASE ~WordLess(target, es[d + 1].suffix)
      <4>1. l = d
        BY <3>7
      <4>2. d + r <= to
        BY <2>1, <3>5
      <4>3. Right(d, r)
        BY <3>4, <3>5, <4>2
      <4>4. ASSUME NEW k \in b + 1 .. b + n, es[k].suffix = target
            PROVE  k \in d + 1 .. d + r
        <5>1. k \in from + 1 .. to /\ k \in Nat
          BY <2>1
        <5>2. ~(k < d + 1)
          BY <1>0, <3>5, <3>7, <4>4, <5>1
        <5> QED
          BY <2>1, <3>1, <3>5, <5>1, <5>2
      <4>5. halve[<<b, n>>] = halve[<<d, r>>]
        BY <3>2, <4>1
      <4> HIDE DEF l
      <4>6. halve[<<b, n>>] \in d .. d + r - 1
        BY <4>3, <4>5
      <4>7. halve[<<b, n>>] \in b .. b + n - 1
        BY <2>1, <3>1, <3>3, <3>5, <4>6
      <4>8. ASSUME NEW k \in b + 1 .. b + n, es[k].suffix = target
            PROVE  halve[<<b, n>>] + 1 = k
        BY <4>3, <4>4, <4>5, <4>8
      <4> QED
        BY <4>7, <4>8
    <3> QED
      BY <3>6, <3>7
  <2> QED
    BY <2>1, <2>2, <2>3
<1>8. Right(from, to - from)
  <2> DEFINE n == to - from
  <2>1. n \in Nat /\ n \in 1 .. n /\ n \in 0 .. n /\ from \in from .. to /\ from + n <= to
    OBVIOUS
  <2>2. \A m \in 0 .. n : m \in Good
    <3>1. 0 \in Good /\ \A m \in 0 .. n - 1 : m \in Good => m + 1 \in Good
      <4> HIDE DEF Good
      <4> QED
        BY <1>6, <1>7
    <3> HIDE DEF Good, n
    <3> QED
      BY <2>1, <3>1, UpwardInduction
  <2>3. n \in Good
    <3> HIDE DEF Good, n
    <3> QED
      BY <2>1, <2>2
  <2> HIDE DEF Right
  <2>4. Right(from, n)
    <3> HIDE DEF n
    <3> QED
      BY <2>1, <2>3
  <2> QED
    BY <2>4
<1> DEFINE x == halve[<<from, to - from>>]
<1>9. /\ x \in from .. to - 1
      /\ \A k \in from + 1 .. to : es[k].suffix = target => x + 1 = k
  <2>1. from + (to - from) = to
    OBVIOUS
  <2> HIDE DEF x
  <2> QED
    BY <1>8, <2>1 DEF x
<1>10. at = IF es[x + 1].suffix = target THEN x + 1 ELSE 0
  BY <1>1
<1> HIDE DEF x
<1>11. x + 1 \in from + 1 .. to /\ x + 1 # 0
  BY <1>9
<1> QED
  BY <1>9, <1>10, <1>11

-----------------------------------------------------------------------------
(***************************************************************************)
(* The words of a window, and what they tell of the tokens that start it.  *)
(***************************************************************************)

\* One read, or two that meet, load the first word of a window.
LEMMA LowerWordIs ==
    ASSUME NEW data \in ByteSeq, Len(data) > 0
    PROVE  LowerWord(data) = LoadWord(data, WordSize)
<1> DEFINE n == Len(data)
           Fits(e) == TwoTo[e] <= n /\ n < TwoTo[e + 1]
           part == TwoTo[CHOOSE e \in 0 .. n : Fits(e)]
           last == [k \in 1 .. part |-> data[n - part + k]]
           short == [k \in 1 .. WordSize |->
                        IF k <= part THEN data[k] ELSE IF k <= n THEN last[k - (n - part)] ELSE 0]
<1>1. n \in Nat /\ n > 0 /\ WordSize \in Nat
  BY LenProperties, Sizes DEF ByteSeq
<1>2. LowerWord(data) = IF n >= WordSize THEN LoadWord(data, WordSize) ELSE short
  BY DEF LowerWord
<1>3. ASSUME n < WordSize
      PROVE  short = LoadWord(data, WordSize)
  <2>1. \E e \in 0 .. n : Fits(e)
    <3> DEFINE S == {e \in 0 .. n : TwoTo[e] <= n}
    <3>1. 0 \in S /\ S \in SUBSET Nat /\ \A e \in S : e <= n
      BY <1>1, TwoToSteps
    <3>2. PICK m \in S : \A e \in S : e <= m
      <4> HIDE DEF S
      <4> QED
        BY <1>1, <3>1, LargestNatural
    <3>3. m \in 0 .. n /\ m \in Nat /\ m + 1 \in Nat /\ TwoTo[m] <= n /\ m + 1 \notin S
      BY <3>2
    <3>4. TwoTo[m + 1] \in Nat /\ TwoTo[m + 1] > m + 1
      BY <3>3, TwoToSteps
    <3>5. n < TwoTo[m + 1]
      <4>1. CASE m + 1 \in 0 .. n
        BY <1>1, <3>3, <3>4, <4>1
      <4>2. CASE m + 1 \notin 0 .. n
        BY <1>1, <3>3, <3>4, <4>2
      <4> QED
        BY <4>1, <4>2
    <3> QED
      BY <3>3, <3>5
  <2>2. PICK e \in 0 .. n : part = TwoTo[e] /\ Fits(e)
    <3> HIDE DEF Fits
    <3> QED
      BY <2>1
  <2>3. part \in Nat /\ part <= n /\ n < 2 * part
    <3>1. e \in Nat /\ TwoTo[e] <= n /\ n < TwoTo[e + 1]
      BY <1>1, <2>2
    <3>2. TwoTo[e] \in Nat /\ TwoTo[e + 1] = 2 * TwoTo[e]
      BY <3>1, TwoToSteps
    <3> HIDE DEF part
    <3> QED
      BY <2>2, <3>1, <3>2
  <2> HIDE DEF part
  <2>4. \A k \in 1 .. n : part < k => last[k - (n - part)] = data[k]
    <3> SUFFICES ASSUME NEW k \in 1 .. n, part < k
                 PROVE  last[k - (n - part)] = data[k]
      OBVIOUS
    <3>1. k - (n - part) \in 1 .. part /\ n - part + (k - (n - part)) = k
      BY <1>1, <2>3
    <3> DEFINE i == k - (n - part)
    <3>2. last[i] = data[n - part + i]
      BY <3>1
    <3> QED
      BY <3>1, <3>2
  <2> HIDE DEF last
  <2>5. \A k \in 1 .. WordSize : short[k] = IF k <= n THEN data[k] ELSE 0
    BY <1>1, <2>3, <2>4
  <2>6. /\ LoadWord(data, WordSize) \in Word
        /\ \A k \in 1 .. WordSize : LoadWord(data, WordSize)[k] = IF k <= n THEN data[k] ELSE 0
    BY <1>1, LoadWordType
  <2> DEFINE x == LoadWord(data, WordSize)
  <2>7. x = [k \in 1 .. WordSize |-> x[k]]
    BY <2>6 DEF Word
  <2>8. short = [k \in 1 .. WordSize |-> short[k]]
    OBVIOUS
  <2> HIDE DEF x, short
  <2>9. \A k \in 1 .. WordSize : short[k] = x[k]
    BY <2>5, <2>6 DEF x
  <2>10. short = x
    BY <2>7, <2>8, <2>9
  <2> QED
    BY <2>10 DEF x
<1> HIDE DEF short
<1> QED
  BY <1>1, <1>2, <1>3

\* The second word of a window holds what follows its first.
LEMMA UpperWordIs ==
    ASSUME NEW data \in ByteSeq, Len(data) > WordSize
    PROVE  LET n == Least(Len(data), MaxTokenSize)
           IN  /\ n \in Nat /\ n <= Len(data) /\ n <= 2 * WordSize /\ n > WordSize
               /\ UpperWord(data) \in Word
               /\ \A k \in 1 .. WordSize :
                    UpperWord(data)[k] = IF WordSize + k <= n THEN data[WordSize + k] ELSE 0
<1> DEFINE n == Least(Len(data), MaxTokenSize)
           x == [k \in 1 .. WordSize |-> data[n - WordSize + k]]
           by == MaxTokenSize - n
<1>1. /\ WordSize \in Nat /\ Len(data) \in Nat /\ MaxTokenSize = 2 * WordSize /\ MaxTokenSize \in Nat
      /\ WordSize > 0
  BY LenProperties, Sizes DEF ByteSeq
<1>2. n \in Nat /\ n <= Len(data) /\ n <= 2 * WordSize /\ n > WordSize
  <2>1. n \in Nat /\ n <= Len(data) /\ n <= MaxTokenSize /\ n \in {Len(data), MaxTokenSize}
    BY <1>1, LeastIs
  <2> HIDE DEF n
  <2> QED
    BY <1>1, <2>1
<1>3. UpperWord(data) = IF n > WordSize THEN ShiftedDown(x, by) ELSE [k \in 1 .. WordSize |-> 0]
  BY DEF UpperWord
<1> HIDE DEF n
<1>4. by \in Nat /\ by + n = 2 * WordSize
  BY <1>1, <1>2
<1> HIDE DEF by
<1>5. UpperWord(data) = ShiftedDown(x, by)
  BY <1>2, <1>3
<1>6. ASSUME NEW k \in 1 .. WordSize
      PROVE  UpperWord(data)[k] = IF WordSize + k <= n THEN data[WordSize + k] ELSE 0
  <2>1. ShiftedDown(x, by)[k] = IF k + by <= WordSize THEN x[k + by] ELSE 0
    BY DEF ShiftedDown
  <2>2. k + by <= WordSize <=> WordSize + k <= n
    BY <1>1, <1>2, <1>4
  <2>3. ASSUME k + by <= WordSize
        PROVE  x[k + by] = data[WordSize + k]
    <3>1. k + by \in 1 .. WordSize /\ n - WordSize + (k + by) = WordSize + k
      BY <1>1, <1>2, <1>4, <2>3
    <3> DEFINE i == k + by
    <3>2. x[i] = data[n - WordSize + i]
      BY <3>1
    <3> QED
      BY <3>1, <3>2
  <2> HIDE DEF x
  <2> QED
    BY <1>5, <2>1, <2>2, <2>3
<1>7. UpperWord(data) \in Word
  <2>1. UpperWord(data) = [k \in 1 .. WordSize |-> UpperWord(data)[k]]
    BY <1>5 DEF ShiftedDown
  <2>2. \A k \in 1 .. Len(data) : data[k] \in Byte
    BY ElementOfSeq DEF ByteSeq
  <2>3. \A k \in 1 .. WordSize : WordSize + k <= n => WordSize + k \in 1 .. Len(data)
    BY <1>1, <1>2
  <2>4. \A k \in 1 .. WordSize : UpperWord(data)[k] \in Byte
    BY <1>6, <2>2, <2>3, Sizes
  <2> QED
    BY <2>1, <2>4 DEF Word
<1> QED
  BY <1>2, <1>6, <1>7 DEF n

LEMMA StartsIs ==
    ASSUME NEW data, NEW t, Len(data) \in Nat, Len(t) \in Nat
    PROVE  StartsAt(data, 0, t) <=> /\ Len(t) <= Len(data)
                                    /\ \A k \in 1 .. Len(t) : data[k] = t[k]
<1>1. 0 + Len(t) = Len(t) /\ \A k \in 1 .. Len(t) : 0 + k = k
  OBVIOUS
<1> QED
  BY <1>1 DEF StartsAt

\* The key of a short token, read from the window, tells whether the token starts it.
LEMMA ShortStarts ==
    ASSUME NEW data \in ByteSeq, Len(data) > 0, NEW t \in Token, IsShort(t)
    PROVE  StartsAt(data, 0, t) <=> /\ Len(t) <= Len(data)
                                    /\ ShortKey(t) = <<Masked(LowerWord(data), Len(t)), Len(t)>>
<1> DEFINE n == Len(t)
           x == Masked(LowerWord(data), n)
           y == LoadWord(t, n)
<1>1. /\ Len(data) \in Nat /\ n \in Nat /\ n <= WordSize /\ WordSize \in Nat /\ t \in ByteSeq
  BY TokenType, LenProperties, Sizes DEF IsShort, ByteSeq
<1>2. StartsAt(data, 0, t) <=> n <= Len(data) /\ \A k \in 1 .. n : data[k] = t[k]
  BY <1>1, StartsIs
<1>3. y \in Word /\ \A k \in 1 .. WordSize : y[k] = IF k <= n THEN t[k] ELSE 0
  BY <1>1, LoadWordType
<1>4. ASSUME n <= Len(data)
      PROVE  \A k \in 1 .. WordSize : x[k] = IF k <= n THEN data[k] ELSE 0
  <2> SUFFICES ASSUME NEW k \in 1 .. WordSize
               PROVE  x[k] = IF k <= n THEN data[k] ELSE 0
    OBVIOUS
  <2>1. x[k] = IF k <= n THEN LoadWord(data, WordSize)[k] ELSE 0
    BY LowerWordIs DEF Masked
  <2>2. LoadWord(data, WordSize)[k] = IF k <= WordSize /\ k <= Len(data) THEN data[k] ELSE 0
    BY <1>1, LoadWordType
  <2>3. k <= n => k <= Len(data)
    BY <1>1, <1>4
  <2> HIDE DEF x, n
  <2> QED
    BY <2>1, <2>2, <2>3
<1>5. x = [k \in 1 .. WordSize |-> x[k]]
  BY DEF Masked
<1>6. y = [k \in 1 .. WordSize |-> y[k]]
  BY <1>3 DEF Word
<1>7. ShortKey(t) = <<y, n>>
  BY DEF ShortKey
<1> HIDE DEF x, y, n
<1>8. ASSUME n <= Len(data)
      PROVE  x = y <=> \A k \in 1 .. n : data[k] = t[k]
  <2>1. ASSUME x = y, NEW k \in 1 .. n
        PROVE  data[k] = t[k]
    <3>1. k \in 1 .. WordSize /\ k <= n
      BY <1>1
    <3> QED
      BY <1>3, <1>4, <1>8, <2>1, <3>1
  <2>2. ASSUME \A k \in 1 .. n : data[k] = t[k]
        PROVE  x = y
    <3>1. \A k \in 1 .. WordSize : k <= n => k \in 1 .. n
      BY <1>1
    <3>2. \A k \in 1 .. WordSize : x[k] = y[k]
      BY <1>3, <1>4, <1>8, <2>2, <3>1
    <3> QED
      BY <1>5, <1>6, <3>2
  <2> QED
    BY <2>1, <2>2
<1>9. <<y, n>> = <<x, n>> <=> x = y
  OBVIOUS
<1> QED
  BY <1>2, <1>7, <1>8, <1>9 DEF x, n

\* So does the first word of a long token with its entry.
LEMMA LongStarts ==
    ASSUME NEW data \in ByteSeq, Len(data) > WordSize, NEW t \in Token, ~IsShort(t), NEW id \in Nat,
           NEW e, e = Entry(t, id), NEW max, max = Least(Len(data), MaxTokenSize) - WordSize
    PROVE  StartsAt(data, 0, t) <=> /\ LowerWord(data) = LoadWord(t, WordSize)
                                    /\ e.slen <= max
                                    /\ SuffixMatches(e, UpperWord(data))
<1> DEFINE n == Least(Len(data), MaxTokenSize)
           u == UpperWord(data)
           x == LowerWord(data)
           y == LoadWord(t, WordSize)
           s == e.slen
<1>1. /\ Len(data) \in Nat /\ Len(t) \in Nat /\ WordSize \in Nat /\ t \in ByteSeq
      /\ Len(t) > WordSize /\ Len(t) <= MaxTokenSize /\ MaxTokenSize = 2 * WordSize
      /\ WordSize > 0
  BY TokenType, LenProperties, Sizes DEF IsShort, ByteSeq
<1>2. /\ s = Len(t) - WordSize /\ s \in 1 .. WordSize /\ s \in Nat
      /\ \A k \in 1 .. WordSize : e.suffix[k] = IF k <= s THEN t[WordSize + k] ELSE 0
  <2> USE DEF s
  <2>1. /\ e.slen = Len(t) - WordSize /\ e.slen \in 1 .. WordSize
        /\ \A k \in 1 .. WordSize : e.suffix[k] = IF k <= e.slen THEN t[WordSize + k] ELSE 0
    BY ONLY EntryIs, t \in Token, ~IsShort(t), id \in Nat, e = Entry(t, id)
  <2> QED
    BY ONLY <2>1, Sizes
<1>3. /\ n \in Nat /\ n <= Len(data) /\ n <= 2 * WordSize /\ n > WordSize
      /\ \A k \in 1 .. WordSize : u[k] = IF WordSize + k <= n THEN data[WordSize + k] ELSE 0
  BY UpperWordIs
<1>4. n = Len(data) \/ n = 2 * WordSize
  BY <1>1, LeastIs, Sizes
<1>5. StartsAt(data, 0, t) <=> Len(t) <= Len(data) /\ \A k \in 1 .. Len(t) : data[k] = t[k]
  BY <1>1, StartsIs
<1>6. SuffixMatches(e, u) <=> \A k \in 1 .. s : u[k] = e.suffix[k]
  BY DEF SuffixMatches
<1>7. x = y <=> \A k \in 1 .. WordSize : data[k] = t[k]
  <2>1. x \in Word /\ \A k \in 1 .. WordSize : x[k] = data[k]
    <3>1. x = LoadWord(data, WordSize)
      BY <1>1, LowerWordIs
    <3>2. x \in Word /\ \A k \in 1 .. WordSize :
            x[k] = IF k <= WordSize /\ k <= Len(data) THEN data[k] ELSE 0
      BY <1>1, <3>1, LoadWordType
    <3>3. \A k \in 1 .. WordSize : k <= WordSize /\ k <= Len(data)
      BY <1>1
    <3> HIDE DEF x
    <3> QED
      BY <3>2, <3>3
  <2>2. y \in Word /\ \A k \in 1 .. WordSize : y[k] = t[k]
    <3>1. y \in Word /\ \A k \in 1 .. WordSize :
            y[k] = IF k <= WordSize /\ k <= Len(t) THEN t[k] ELSE 0
      BY <1>1, LoadWordType
    <3>2. \A k \in 1 .. WordSize : k <= WordSize /\ k <= Len(t)
      BY <1>1
    <3> HIDE DEF y
    <3> QED
      BY <3>1, <3>2
  <2> HIDE DEF x, y
  <2>3. ASSUME \A k \in 1 .. WordSize : data[k] = t[k]
        PROVE  x = y
    <3>1. \A k \in 1 .. WordSize : x[k] = y[k]
      BY <2>1, <2>2, <2>3
    <3> QED
      BY <2>1, <2>2, <3>1, WordsEqual
  <2>4. ASSUME x = y
        PROVE  \A k \in 1 .. WordSize : data[k] = t[k]
    BY <2>1, <2>2, <2>4
  <2> QED
    BY <2>3, <2>4
<1> HIDE DEF n, u, x, y, s
<1>8. s <= max <=> Len(t) <= Len(data)
  <2>1. max = n - WordSize
    BY DEF n
  <2> QED
    BY <1>1, <1>2, <1>3, <1>4, <2>1
<1>9. ASSUME Len(t) <= Len(data)
      PROVE  (\A k \in 1 .. s : u[k] = e.suffix[k]) <=> \A k \in 1 .. s : data[WordSize + k] = t[WordSize + k]
  <2>1. \A k \in 1 .. s : /\ k \in 1 .. WordSize /\ k <= s /\ WordSize + k <= n
    BY <1>1, <1>2, <1>3, <1>4, <1>9
  <2>2. \A k \in 1 .. s : u[k] = data[WordSize + k] /\ e.suffix[k] = t[WordSize + k]
    BY <1>2, <1>3, <2>1
  <2> QED
    BY <2>2
<1>10. (\A k \in 1 .. Len(t) : data[k] = t[k])
        <=> /\ \A k \in 1 .. WordSize : data[k] = t[k]
            /\ \A k \in 1 .. s : data[WordSize + k] = t[WordSize + k]
  <2>1. ASSUME \A k \in 1 .. Len(t) : data[k] = t[k]
        PROVE  /\ \A k \in 1 .. WordSize : data[k] = t[k]
               /\ \A k \in 1 .. s : data[WordSize + k] = t[WordSize + k]
    <3>1. /\ \A k \in 1 .. WordSize : k \in 1 .. Len(t)
          /\ \A k \in 1 .. s : WordSize + k \in 1 .. Len(t)
      BY <1>1, <1>2
    <3> QED
      BY <2>1, <3>1
  <2>2. ASSUME \A k \in 1 .. WordSize : data[k] = t[k],
               \A k \in 1 .. s : data[WordSize + k] = t[WordSize + k],
               NEW k \in 1 .. Len(t)
        PROVE  data[k] = t[k]
    <3>1. CASE k <= WordSize
      BY <1>1, <2>2, <3>1
    <3>2. CASE k > WordSize
      <4>1. k - WordSize \in 1 .. s /\ WordSize + (k - WordSize) = k
        BY <1>1, <1>2, <3>2
      <4> QED
        BY <2>2, <4>1
    <3> QED
      BY <1>1, <3>1, <3>2
  <2> QED
    BY <2>1, <2>2
<1> QED
  BY <1>5, <1>6, <1>7, <1>8, <1>9, <1>10 DEF x, y, u, s

-----------------------------------------------------------------------------
(***************************************************************************)
(* Searching a bucket.                                                     *)
(***************************************************************************)

\* The suffix of an entry fits the rest of a window and starts it.
Fits(e, val, max) == e.slen <= max /\ SuffixMatches(e, val)

\* What the search of a bucket is to find.
IsBest(es, val, max, hit) ==
    \/ hit = NoMatch /\ \A k \in 1 .. Len(es) : ~Fits(es[k], val, max)
    \/ \E k \in 1 .. Len(es) :
        /\ Fits(es[k], val, max)
        /\ hit = [token |-> es[k].token, len |-> es[k].slen]
        /\ \A j \in 1 .. Len(es) : Fits(es[j], val, max) => es[j].slen <= es[k].slen

ZeroPadded(e) == \A k \in 1 .. WordSize : k > e.slen => e.suffix[k] = 0

LEMMA SearchLinearFinds ==
    ASSUME NEW es \in Seq(EntryType), Falling(es), NEW val, NEW max
    PROVE  IsBest(es, val, max, SearchLinear(es, val, max))
<1> DEFINE n == Len(es)
           hits == {k \in 1 .. n : es[k].slen <= max /\ SuffixMatches(es[k], val)}
           first == CHOOSE k \in hits : \A j \in hits : k <= j
           hit == SearchLinear(es, val, max)
<1>1. n \in Nat /\ \A k \in 1 .. n : es[k].slen \in Nat
  BY EntriesTyped
<1>2. hit = IF hits = {} THEN NoMatch
              ELSE [token |-> es[first].token, len |-> es[first].slen]
  BY DEF SearchLinear
<1>3. \A k \in 1 .. n : k \in hits <=> Fits(es[k], val, max)
  BY DEF Fits
<1>4. hits \in SUBSET (1 .. n) /\ hits \in SUBSET Nat
  BY <1>1
<1> HIDE DEF hits, hit
<1>5. CASE hits = {}
  BY <1>2, <1>3, <1>5 DEF IsBest, hit
<1>6. CASE hits # {}
  <2>1. \E k \in hits : \A j \in hits : k <= j
    BY <1>4, <1>6, LeastNatural
  <2>2. first \in hits /\ \A j \in hits : first <= j
    BY <2>1
  <2> HIDE DEF first
  <2>3. first \in 1 .. n /\ Fits(es[first], val, max)
    BY <1>3, <1>4, <2>2
  <2>4. hit = [token |-> es[first].token, len |-> es[first].slen]
    BY <1>2, <1>6
  <2>5. ASSUME NEW j \in 1 .. n, Fits(es[j], val, max)
        PROVE  es[j].slen <= es[first].slen
    <3>1. first <= j
      BY <1>3, <2>2, <2>5
    <3>2. CASE first = j
      BY <1>1, <3>2
    <3>3. CASE first < j
      BY <2>3, <3>3 DEF Falling
    <3> QED
      BY <1>1, <2>3, <3>1, <3>2, <3>3
  <2> QED
    BY <2>3, <2>4, <2>5 DEF IsBest, hit
<1> QED
  BY <1>5, <1>6

\* A suffix starts the window's upper word exactly when it is what masking leaves of it.
LEMMA MaskedIs ==
    ASSUME NEW val \in Word, NEW e, e.suffix \in Word, e.slen \in 1 .. WordSize, ZeroPadded(e)
    PROVE  /\ Masked(val, e.slen) \in Word
           /\ e.suffix = Masked(val, e.slen) <=> SuffixMatches(e, val)
<1> DEFINE x == Masked(val, e.slen)
           y == e.suffix
           s == e.slen
<1>1. \A k \in 1 .. WordSize : x[k] = IF k <= s THEN val[k] ELSE 0
  BY DEF Masked
<1>2. x = [k \in 1 .. WordSize |-> x[k]]
  BY DEF Masked
<1>3. WordSize \in Nat /\ 0 \in Byte /\ s \in Nat /\ s <= WordSize
      /\ \A k \in 1 .. WordSize : val[k] \in Byte
  BY Sizes DEF Word
<1>4. x \in Word
  <2> HIDE DEF x
  <2>1. \A k \in 1 .. WordSize : x[k] \in Byte
    BY <1>1, <1>3
  <2> QED
    BY <1>2, <2>1 DEF Word
<1>5. \A k \in 1 .. WordSize : k > s => y[k] = 0
  BY DEF ZeroPadded
<1>6. SuffixMatches(e, val) <=> \A k \in 1 .. s : val[k] = y[k]
  BY DEF SuffixMatches
<1> HIDE DEF x, y, s
<1>7. ASSUME y = x, NEW k \in 1 .. s
      PROVE  val[k] = y[k]
  BY <1>1, <1>3, <1>7
<1>8. ASSUME \A k \in 1 .. s : val[k] = y[k]
      PROVE  y = x
  <2>1. \A k \in 1 .. WordSize : (k <= s /\ k \in 1 .. s) \/ k > s
    BY <1>3
  <2>2. \A k \in 1 .. WordSize : y[k] = x[k]
    BY <1>1, <1>3, <1>5, <1>8, <2>1
  <2>3. y \in Word
    BY DEF y
  <2> QED
    BY <1>4, <2>2, <2>3, WordsEqual
<1> QED
  BY <1>4, <1>6, <1>7, <1>8 DEF x, y

LEMMA FindGroupedFinds ==
    ASSUME NEW b, b.entries \in Seq(EntryType), GroupedInOrder(b),
           \A k \in 1 .. Len(b.entries) : ZeroPadded(b.entries[k]),
           NEW val \in Word, NEW max \in Nat
    PROVE  IsBest(b.entries, val, max, FindGrouped(b, val, max))
<1> DEFINE es == b.entries
           n == Len(es)
           at(v) == BinarySearch(es, b.ends[v + 1], b.ends[v], Masked(val, v))
           hits == {v \in b.present : v <= max /\ at(v) # 0}
           longest == CHOOSE v \in hits : \A other \in hits : other <= v
           hit == FindGrouped(b, val, max)
<1>1. /\ n \in Nat
      /\ \A k \in 1 .. n : /\ es[k].slen \in 1 .. WordSize /\ es[k].slen \in Nat
                           /\ es[k].suffix \in Word
  BY EntriesTyped
<1>2. hit = IF hits = {} THEN NoMatch
              ELSE [token |-> es[at(longest)].token, len |-> longest]
  BY DEF FindGrouped
<1>3. b.present = {es[k].slen : k \in 1 .. n}
  BY DEF GroupedInOrder
<1>4. ASSUME NEW v \in b.present
      PROVE  /\ at(v) # 0 => /\ at(v) \in 1 .. n /\ es[at(v)].slen = v
                             /\ SuffixMatches(es[at(v)], val)
             /\ \A k \in 1 .. n : es[k].slen = v /\ SuffixMatches(es[k], val) => at(v) = k /\ at(v) # 0
  <2> DEFINE q == b.ends[v + 1]
             p == b.ends[v]
             target == Masked(val, v)
  <2>1. PICK i \in 1 .. n : es[i].slen = v
    BY <1>3
  <2>2. v \in 1 .. MaxSuffixLen /\ v \in 1 .. WordSize
    BY <1>1, <2>1, Sizes
  <2>3. /\ p \in Nat /\ q \in Nat /\ q <= p /\ p <= n
        /\ \A k \in 1 .. n : es[k].slen = v <=> k \in q + 1 .. p
    BY <2>2, GroupIs
  <2>4. \A j, k \in 1 .. n : j < k /\ es[j].slen = es[k].slen => WordLess(es[j].suffix, es[k].suffix)
    BY DEF GroupedInOrder
  <2>5. \A k \in 1 .. n : es[k].slen = v => /\ target \in Word
                                            /\ es[k].suffix = target <=> SuffixMatches(es[k], val)
    <3> SUFFICES ASSUME NEW k \in 1 .. n, es[k].slen = v
                 PROVE  target \in Word /\ (es[k].suffix = target <=> SuffixMatches(es[k], val))
      OBVIOUS
    <3> DEFINE e == es[k]
    <3>1. e.suffix \in Word /\ e.slen \in 1 .. WordSize /\ ZeroPadded(e) /\ e.slen = v
      BY <1>1
    <3> HIDE DEF e
    <3>2. /\ Masked(val, e.slen) \in Word
          /\ e.suffix = Masked(val, e.slen) <=> SuffixMatches(e, val)
      BY <3>1, MaskedIs
    <3> QED
      BY <3>1, <3>2 DEF e
  <2>6. target \in Word
    BY <2>1, <2>5
  <2>7. PICK a : a = at(v)
    OBVIOUS
  <2>8. a = BinarySearch(es, q, p, target)
    BY <2>7
  <2> HIDE DEF es, n, at, p, q, target
  <2>9. q < p
    BY <2>1, <2>3
  <2>10. \A k \in q + 1 .. p : k \in 1 .. n /\ k # 0
    BY <1>1, <2>3
  <2>11. Rising(es, q, p)
    BY <1>1, <2>3, <2>4, <2>10 DEF Rising
  <2>12. /\ a # 0 => a \in q + 1 .. p /\ es[a].suffix = target
         /\ \A k \in q + 1 .. p : es[k].suffix = target => a = k
    BY <2>3, <2>6, <2>8, <2>9, <2>11, BinarySearchFinds
  <2>13. a # 0 => a \in 1 .. n /\ es[a].slen = v /\ SuffixMatches(es[a], val)
    BY <2>3, <2>5, <2>10, <2>12
  <2>14. \A k \in 1 .. n : es[k].slen = v /\ SuffixMatches(es[k], val) => a = k /\ a # 0
    BY <2>3, <2>5, <2>10, <2>12
  <2> QED
    BY <2>7, <2>13, <2>14
<1>5. hits \in SUBSET Nat /\ hits \in SUBSET b.present /\ \A v \in hits : v <= max /\ at(v) # 0
  BY <1>1, <1>3
<1>6. \A v \in b.present : v <= max /\ at(v) # 0 => v \in hits
  OBVIOUS
<1>7. ASSUME NEW k \in 1 .. n, Fits(es[k], val, max)
      PROVE  es[k].slen \in hits
  <2>1. es[k].slen \in b.present /\ es[k].slen <= max /\ SuffixMatches(es[k], val)
    BY <1>3, <1>7 DEF Fits
  <2> HIDE DEF at, hits, es, n
  <2>2. at(es[k].slen) # 0
    BY <1>4, <2>1
  <2> QED
    BY <1>6, <2>1, <2>2
<1> HIDE DEF at, hits, hit, n, es
<1>8. CASE hits = {}
  BY <1>2, <1>7, <1>8 DEF IsBest, hit, n, es
<1>9. CASE hits # {}
  <2>1. \E v \in hits : \A other \in hits : other <= v
    BY <1>5, <1>9, LargestNatural
  <2>2. longest \in hits /\ \A other \in hits : other <= longest
    BY <2>1
  <2> HIDE DEF longest
  <2>3. PICK k : k = at(longest)
    OBVIOUS
  <2>4. /\ k \in 1 .. n /\ es[k].slen = longest /\ SuffixMatches(es[k], val) /\ longest <= max
    BY <1>4, <1>5, <2>2, <2>3
  <2>5. hit = [token |-> es[k].token, len |-> es[k].slen]
    BY <1>2, <1>9, <2>3, <2>4
  <2>6. Fits(es[k], val, max)
    BY <2>4 DEF Fits
  <2>7. \A j \in 1 .. n : Fits(es[j], val, max) => es[j].slen <= es[k].slen
    BY <1>7, <2>2, <2>4
  <2> QED
    BY <2>4, <2>5, <2>6, <2>7 DEF IsBest, hit, n, es
<1> QED
  BY <1>8, <1>9

-----------------------------------------------------------------------------
(***************************************************************************)
(* The longest token.                                                      *)
(***************************************************************************)

Starts(data, id) == StartsAt(data, 0, TokenOf(tokens, id))

IsShortId(id) == IsShort(TokenOf(tokens, id))

\* The tokens and the maps, read off the invariant.
LEMMA LpmFacts ==
    ASSUME LpmInv
    PROVE  /\ tokens \in Seq(Token) /\ Len(tokens) \in Nat
           /\ \A id \in 0 .. Len(tokens) - 1 :
                /\ TokenOf(tokens, id) \in Token /\ id \in Nat
                /\ Len(TokenOf(tokens, id)) \in Nat /\ Len(TokenOf(tokens, id)) > 0
                /\ IsShortId(id) => /\ ShortKey(TokenOf(tokens, id)) \in DOMAIN shortMap
                                    /\ shortMap[ShortKey(TokenOf(tokens, id))] = id
                                    /\ Len(TokenOf(tokens, id)) <= maxShortLen
                /\ ~IsShortId(id) =>
                    /\ LoadWord(TokenOf(tokens, id), WordSize) \in DOMAIN longMap
                    /\ \E k \in 1 .. Len(longMap[LoadWord(TokenOf(tokens, id), WordSize)].entries) :
                        longMap[LoadWord(TokenOf(tokens, id), WordSize)].entries[k].token = id
<1>1. /\ tokens \in Seq(Token) /\ Len(tokens) \in Nat
      /\ ShortHolds(tokens, shortMap, maxShortLen) /\ LongHolds(tokens, longMap)
      /\ \A id \in 0 .. Len(tokens) - 1 : IsHeld(tokens, shortMap, longMap, id)
  BY LenProperties DEF LpmInv
<1> SUFFICES ASSUME NEW id \in 0 .. Len(tokens) - 1, NEW t, t = TokenOf(tokens, id)
             PROVE  /\ t \in Token /\ id \in Nat
                    /\ Len(t) \in Nat /\ Len(t) > 0
                    /\ IsShort(t) => /\ ShortKey(t) \in DOMAIN shortMap
                                     /\ shortMap[ShortKey(t)] = id
                                     /\ Len(t) <= maxShortLen
                    /\ ~IsShort(t) =>
                        /\ LoadWord(t, WordSize) \in DOMAIN longMap
                        /\ \E k \in 1 .. Len(longMap[LoadWord(t, WordSize)].entries) :
                            longMap[LoadWord(t, WordSize)].entries[k].token = id
  BY <1>1 DEF IsShortId
<1>2. t \in Token /\ id \in Nat
  BY <1>1, TokenOfType
<1>3. Len(t) \in Nat /\ Len(t) > 0
  BY <1>2, TokenType, Sizes
<1>4. /\ IsShort(t) => ShortKey(t) \in DOMAIN shortMap /\ shortMap[ShortKey(t)] = id
      /\ ~IsShort(t) =>
            /\ LoadWord(t, WordSize) \in DOMAIN longMap
            /\ \E k \in 1 .. Len(longMap[LoadWord(t, WordSize)].entries) :
                longMap[LoadWord(t, WordSize)].entries[k].token = id
  BY <1>1 DEF IsHeld
<1>5. IsShort(t) => Len(t) <= maxShortLen
  BY <1>1, <1>4 DEF ShortHolds
<1> QED
  BY <1>2, <1>3, <1>4, <1>5

\* A bucket found by its word, and the tokens of its entries.
LEMMA BucketTells ==
    ASSUME LpmInv, NEW data \in ByteSeq, Len(data) > WordSize,
           NEW w \in DOMAIN longMap, w = LowerWord(data), NEW es, es = longMap[w].entries,
           NEW max, max = Least(Len(data), MaxTokenSize) - WordSize,
           NEW k \in 1 .. Len(es)
    PROVE  /\ es \in Seq(EntryType) /\ es[k] \in EntryType /\ ZeroPadded(es[k])
           /\ es[k].token \in 0 .. Len(tokens) - 1 /\ ~IsShortId(es[k].token)
           /\ es[k].slen = Len(TokenOf(tokens, es[k].token)) - WordSize
           /\ Fits(es[k], UpperWord(data), max) <=> Starts(data, es[k].token)
<1> DEFINE e == es[k]
           id == e.token
           t == TokenOf(tokens, id)
<1>1. /\ es \in Seq(EntryType) /\ id \in 0 .. Len(tokens) - 1 /\ ~IsShort(t)
      /\ LoadWord(t, WordSize) = w /\ e = Entry(t, id)
  BY DEF LpmInv, LongHolds, IsListOf
<1>2. e \in EntryType
  BY <1>1, EntriesTyped
<1> HIDE DEF id
<1>3. t \in Token /\ id \in Nat
  BY <1>1, LpmFacts
<1> HIDE DEF e, t
<1>4. /\ e.slen = Len(t) - WordSize /\ e.slen \in 1 .. WordSize
      /\ \A i \in 1 .. WordSize : e.suffix[i] = IF i <= e.slen THEN t[WordSize + i] ELSE 0
  BY <1>1, <1>3, EntryIs
<1>5. ZeroPadded(e)
  <2>1. e.slen \in Nat
    BY <1>4, Sizes
  <2> QED
    BY <1>4, <2>1, Sizes DEF ZeroPadded
<1>6. StartsAt(data, 0, t) <=> e.slen <= max /\ SuffixMatches(e, UpperWord(data))
  <2>1. StartsAt(data, 0, t) <=> /\ LowerWord(data) = LoadWord(t, WordSize)
                                 /\ e.slen <= max /\ SuffixMatches(e, UpperWord(data))
    BY <1>1, <1>3, LongStarts
  <2> QED
    BY <1>1, <2>1
<1> QED
  BY <1>1, <1>2, <1>4, <1>5, <1>6 DEF Fits, Starts, IsShortId, e, id, t

\* Masking the window's word beyond what is left of it changes no match.
LEMMA MaskedFits ==
    ASSUME NEW val, NEW max \in Nat, NEW e \in EntryType
    PROVE  Fits(e, Masked(val, max), max) <=> Fits(e, val, max)
<1>1. e.slen \in Nat /\ e.slen <= WordSize /\ WordSize \in Nat
  BY Sizes DEF EntryType
<1>2. ASSUME e.slen <= max, NEW k \in 1 .. e.slen
      PROVE  Masked(val, max)[k] = val[k]
  <2>1. k \in 1 .. WordSize /\ k <= max
    BY <1>1, <1>2
  <2> QED
    BY <2>1 DEF Masked
<1> QED
  BY <1>2 DEF Fits, SuffixMatches

LEMMA FindLongFinds ==
    ASSUME LpmInv, NEW data \in ByteSeq, Len(data) > 0
    PROVE  \/ /\ FindLong(data) = NoMatch
              /\ \A id \in 0 .. Len(tokens) - 1 : ~IsShortId(id) => ~Starts(data, id)
           \/ \E id \in 0 .. Len(tokens) - 1 :
                /\ ~IsShortId(id) /\ Starts(data, id)
                /\ FindLong(data) = [token |-> id, len |-> Len(TokenOf(tokens, id)) - WordSize]
                /\ \A other \in 0 .. Len(tokens) - 1 : ~IsShortId(other) /\ Starts(data, other)
                        => Len(TokenOf(tokens, other)) <= Len(TokenOf(tokens, id))
<1> DEFINE n == Least(Len(data), MaxTokenSize)
           max == n - WordSize
           w == LowerWord(data)
           b == longMap[w]
           u == UpperWord(data)
           hit == FindLong(data)
           es == b.entries
           Len_(id) == Len(TokenOf(tokens, id))
<1>1. hit = IF max < 1 \/ w \notin DOMAIN longMap THEN NoMatch
              ELSE IF b.grouped THEN FindGrouped(b, u, max)
              ELSE SearchLinear(es, Masked(u, max), max)
  BY DEF FindLong
<1>2. /\ Len(data) \in Nat /\ WordSize \in Nat /\ MaxTokenSize = 2 * WordSize
      /\ MaxTokenSize \in Nat /\ WordSize > 0
      /\ Len(tokens) \in Nat
  BY LenProperties, LpmFacts, Sizes DEF ByteSeq
<1>3. n \in Nat /\ n <= Len(data) /\ n <= MaxTokenSize /\ (n = Len(data) \/ n = MaxTokenSize)
  BY <1>2, LeastIs
<1>4. max = n - WordSize
  OBVIOUS
<1>5. \A id \in 0 .. Len(tokens) - 1 :
        /\ TokenOf(tokens, id) \in Token /\ id \in Nat /\ Len_(id) \in Nat
        /\ ~IsShortId(id) => Len_(id) > WordSize
        /\ ~IsShortId(id) =>
            /\ LoadWord(TokenOf(tokens, id), WordSize) \in DOMAIN longMap
            /\ \E k \in 1 .. Len(longMap[LoadWord(TokenOf(tokens, id), WordSize)].entries) :
                longMap[LoadWord(TokenOf(tokens, id), WordSize)].entries[k].token = id
  <2>1. \A id \in 0 .. Len(tokens) - 1 : Len_(id) \in Nat /\ (~IsShortId(id) => Len_(id) > WordSize)
    BY <1>2, LpmFacts DEF IsShortId, IsShort
  <2> QED
    BY <2>1, LpmFacts
<1>6. \A id \in 0 .. Len(tokens) - 1 : Starts(data, id) => Len_(id) <= Len(data)
  BY <1>2, <1>5, StartsIs DEF Starts
<1> HIDE DEF n, max, hit, Len_
<1>7. CASE max < 1
  <2>1. Len(data) <= WordSize
    BY <1>2, <1>3, <1>4, <1>7
  <2>2. \A id \in 0 .. Len(tokens) - 1 : ~IsShortId(id) => ~Starts(data, id)
    BY <1>2, <1>5, <1>6, <2>1
  <2> QED
    BY <1>1, <1>7, <2>2 DEF hit
<1>8. CASE ~(max < 1)
  <2>1. max \in Nat /\ Len(data) > WordSize /\ max = Least(Len(data), MaxTokenSize) - WordSize
    BY <1>2, <1>3, <1>4, <1>8 DEF n
  <2>2. ASSUME NEW id \in 0 .. Len(tokens) - 1, ~IsShortId(id), Starts(data, id)
        PROVE  /\ w \in DOMAIN longMap
               /\ \E k \in 1 .. Len(es) : es[k].token = id
    <3> DEFINE t == TokenOf(tokens, id)
    <3>1. t \in Token /\ id \in Nat /\ ~IsShort(t) /\ StartsAt(data, 0, t)
      BY <1>5, <2>2 DEF IsShortId, Starts
    <3>2. /\ LoadWord(t, WordSize) \in DOMAIN longMap
          /\ \E k \in 1 .. Len(longMap[LoadWord(t, WordSize)].entries) :
                longMap[LoadWord(t, WordSize)].entries[k].token = id
      BY <1>5, <2>2
    <3> HIDE DEF t
    <3>3. w = LoadWord(t, WordSize)
      BY <2>1, <3>1, LongStarts
    <3> QED
      BY <3>2, <3>3
  <2>3. CASE w \notin DOMAIN longMap
    BY <1>1, <2>2, <2>3 DEF hit
  <2>4. CASE w \in DOMAIN longMap
    <3>0. PICK es2 : es2 = es
      OBVIOUS
    <3>1. \A k \in 1 .. Len(es2) :
            /\ es2[k] \in EntryType /\ ZeroPadded(es2[k])
            /\ es2[k].token \in 0 .. Len(tokens) - 1 /\ ~IsShortId(es2[k].token)
            /\ es2[k].slen = Len_(es2[k].token) - WordSize
            /\ Fits(es2[k], u, max) <=> Starts(data, es2[k].token)
      BY <2>1, <2>4, <3>0, BucketTells DEF Len_
    <3>2. es \in Seq(EntryType) /\ (LinearInOrder(b) \/ GroupedInOrder(b))
      BY <2>4 DEF LpmInv, LongHolds, IsListOf
    <3>3. hit = IF b.grouped THEN FindGrouped(b, u, max)
                  ELSE SearchLinear(es, Masked(u, max), max)
      BY <1>1, <1>8, <2>4
    <3>4. u \in Word
      BY <2>1, UpperWordIs
    <3> HIDE DEF u, w
    <3>5. IsBest(es2, u, max, hit)
      <4>1. CASE GroupedInOrder(b)
        <5>1. b.grouped = TRUE
          BY <4>1 DEF GroupedInOrder, Grouped
        <5>2. \A k \in 1 .. Len(b.entries) : ZeroPadded(b.entries[k])
          BY <3>0, <3>1
        <5>3. IsBest(b.entries, u, max, FindGrouped(b, u, max))
          BY <2>1, <3>2, <3>4, <4>1, <5>2, FindGroupedFinds
        <5> QED
          BY <3>0, <3>3, <5>1, <5>3
      <4>2. CASE LinearInOrder(b)
        <5>1. b.grouped = FALSE /\ Falling(es)
          BY <4>2 DEF LinearInOrder, Linear
        <5>2. IsBest(es, Masked(u, max), max, SearchLinear(es, Masked(u, max), max))
          BY <3>2, <5>1, SearchLinearFinds
        <5>3. IsBest(es2, Masked(u, max), max, hit)
          BY <3>0, <3>3, <5>1, <5>2
        <5>4. \A k \in 1 .. Len(es2) : Fits(es2[k], Masked(u, max), max) <=> Fits(es2[k], u, max)
          BY <2>1, <3>1, MaskedFits
        <5> QED
          BY <5>3, <5>4 DEF IsBest
      <4> QED
        BY <3>2, <4>1, <4>2
    <3>6. \A id \in 0 .. Len(tokens) - 1 : ~IsShortId(id) /\ Starts(data, id) =>
            \E k \in 1 .. Len(es2) : es2[k].token = id
      BY <2>2, <3>0
    <3> HIDE DEF es, b
    <3>7. CASE hit = NoMatch /\ \A k \in 1 .. Len(es2) : ~Fits(es2[k], u, max)
      <4>1. \A id \in 0 .. Len(tokens) - 1 : ~IsShortId(id) => ~Starts(data, id)
        BY <3>1, <3>6, <3>7
      <4> QED
        BY <3>7, <4>1 DEF hit
    <3>8. ASSUME NEW k \in 1 .. Len(es2), Fits(es2[k], u, max),
                 hit = [token |-> es2[k].token, len |-> es2[k].slen],
                 \A j \in 1 .. Len(es2) : Fits(es2[j], u, max) => es2[j].slen <= es2[k].slen
          PROVE  \E id \in 0 .. Len(tokens) - 1 :
                    /\ ~IsShortId(id) /\ Starts(data, id)
                    /\ hit = [token |-> id, len |-> Len_(id) - WordSize]
                    /\ \A other \in 0 .. Len(tokens) - 1 :
                        ~IsShortId(other) /\ Starts(data, other) => Len_(other) <= Len_(id)
      <4> DEFINE id == es2[k].token
      <4>1. /\ id \in 0 .. Len(tokens) - 1 /\ ~IsShortId(id) /\ Starts(data, id)
            /\ es2[k].slen = Len_(id) - WordSize
            /\ hit = [token |-> id, len |-> Len_(id) - WordSize]
        BY <3>1, <3>8
      <4>2. ASSUME NEW other \in 0 .. Len(tokens) - 1, ~IsShortId(other), Starts(data, other)
            PROVE  Len_(other) <= Len_(id)
        <5>1. PICK j \in 1 .. Len(es2) : es2[j].token = other
          BY <3>6, <4>2
        <5>2. es2[j].slen = Len_(other) - WordSize /\ Fits(es2[j], u, max)
          BY <3>1, <4>2, <5>1
        <5>3. es2[j].slen <= es2[k].slen
          BY <3>8, <5>2
        <5>4. Len_(other) \in Nat /\ Len_(id) \in Nat
          BY <1>5, <4>1
        <5> QED
          BY <1>2, <4>1, <5>2, <5>3, <5>4
      <4> HIDE DEF id
      <4> QED
        BY <4>1, <4>2
    <3>9. \/ hit = NoMatch /\ \A k \in 1 .. Len(es2) : ~Fits(es2[k], u, max)
          \/ \E k \in 1 .. Len(es2) :
              /\ Fits(es2[k], u, max)
              /\ hit = [token |-> es2[k].token, len |-> es2[k].slen]
              /\ \A j \in 1 .. Len(es2) : Fits(es2[j], u, max) => es2[j].slen <= es2[k].slen
      BY <3>5 DEF IsBest
    <3> QED
      BY <3>7, <3>8, <3>9 DEF hit, Len_
  <2> QED
    BY <2>3, <2>4
<1> QED
  BY <1>7, <1>8

LEMMA FindShortFinds ==
    ASSUME LpmInv, NEW data \in ByteSeq, Len(data) > 0
    PROVE  \E id \in 0 .. Len(tokens) - 1 :
                /\ IsShortId(id) /\ Starts(data, id)
                /\ FindShort(data) = [token |-> id, len |-> Len(TokenOf(tokens, id))]
                /\ \A other \in 0 .. Len(tokens) - 1 : IsShortId(other) /\ Starts(data, other)
                        => Len(TokenOf(tokens, other)) <= Len(TokenOf(tokens, id))
<1> DEFINE m == ShortMax(data)
           key(len) == <<Masked(LowerWord(data), len), len>>
           hits == {len \in 1 .. m : key(len) \in DOMAIN shortMap}
           longest == CHOOSE len \in hits : \A other \in hits : other <= len
           hit == FindShort(data)
           Len_(id) == Len(TokenOf(tokens, id))
<1>1. hit = IF hits = {} THEN NoMatch ELSE [token |-> shortMap[key(longest)], len |-> longest]
  BY DEF FindShort
<1>2. /\ Len(data) \in Nat /\ WordSize \in Nat /\ MaxTokenSize = 2 * WordSize
      /\ MaxTokenSize \in Nat /\ WordSize > 0
      /\ Len(tokens) \in Nat /\ maxShortLen \in Nat /\ maxShortLen <= WordSize /\ maxShortLen >= 1
  BY LenProperties, LpmFacts, Sizes DEF ByteSeq, LpmInv
<1>3. /\ m \in Nat /\ m <= Len(data)
      /\ \A k \in Nat : k <= Len(data) /\ k <= maxShortLen => k <= m
  <2> DEFINE l == Least(Len(data), MaxTokenSize)
  <2>1. l \in Nat /\ l <= Len(data) /\ (l = Len(data) \/ l = MaxTokenSize)
    BY <1>2, LeastIs
  <2>2. m = Least(l, maxShortLen)
    BY DEF ShortMax
  <2> HIDE DEF l, m
  <2>3. m \in Nat /\ m <= l /\ (m = l \/ m = maxShortLen)
    BY <1>2, <2>1, <2>2, LeastIs
  <2> QED
    BY <1>2, <2>1, <2>3
<1>4. \A id \in 0 .. Len(tokens) - 1 :
        /\ TokenOf(tokens, id) \in Token /\ id \in Nat
        /\ Len_(id) \in Nat /\ Len_(id) > 0
        /\ IsShortId(id) => /\ ShortKey(TokenOf(tokens, id)) \in DOMAIN shortMap
                            /\ shortMap[ShortKey(TokenOf(tokens, id))] = id
                            /\ Len_(id) <= maxShortLen
  BY LpmFacts
<1>5. \A id \in 0 .. Len(tokens) - 1 : IsShortId(id) =>
        (Starts(data, id) <=> Len_(id) <= Len(data) /\ ShortKey(TokenOf(tokens, id)) = key(Len_(id)))
  BY <1>4, ShortStarts DEF IsShortId, Starts
<1>6. \A k \in DOMAIN shortMap :
        /\ shortMap[k] \in 0 .. Len(tokens) - 1 /\ IsShortId(shortMap[k])
        /\ k = ShortKey(TokenOf(tokens, shortMap[k]))
  BY DEF LpmInv, ShortHolds, IsShortId
<1>7. \A id \in 0 .. Len(tokens) - 1 : ShortKey(TokenOf(tokens, id))[2] = Len_(id)
  BY DEF ShortKey
<1>8. \A len : key(len)[2] = len
  OBVIOUS
<1> HIDE DEF m, key, hit, Len_
<1>9. hits \in SUBSET Nat /\ \A k \in hits : k <= m /\ k \in 1 .. m /\ key(k) \in DOMAIN shortMap
  BY <1>3
<1>10. \A id \in 0 .. Len(tokens) - 1 : IsShortId(id) /\ Starts(data, id) => Len_(id) \in hits
  <2> SUFFICES ASSUME NEW id \in 0 .. Len(tokens) - 1, IsShortId(id), Starts(data, id)
               PROVE  Len_(id) \in hits
    OBVIOUS
  <2>1. /\ Len_(id) \in Nat /\ Len_(id) > 0 /\ Len_(id) <= maxShortLen /\ Len_(id) <= Len(data)
        /\ key(Len_(id)) \in DOMAIN shortMap
    BY <1>4, <1>5
  <2>2. Len_(id) \in 1 .. m
    BY <1>3, <2>1
  <2> QED
    BY <2>1, <2>2
<1> HIDE DEF hits
<1>11. hits # {}
  <2>1. data[1] \in Byte
    BY <1>2, ElementOfSeq DEF ByteSeq
  <2>2. PICK b \in Byte : b = data[1]
    BY <2>1
  <2>3. <<b>> \in Token /\ Len(<<b>>) = 1 /\ IsShort(<<b>>) /\ <<b>>[1] = b
    BY SingleBytes
  <2>4. <<b>> \in HeldIn(tokens)
    BY DEF LpmInv, SingleByteTokens
  <2>5. PICK k \in 1 .. Len(tokens) : tokens[k] = <<b>>
    BY <2>4 DEF HeldIn
  <2>6. PICK id \in 0 .. Len(tokens) - 1 : TokenOf(tokens, id) = <<b>>
    <3>1. k - 1 \in 0 .. Len(tokens) - 1 /\ (k - 1) + 1 = k
      BY <1>2
    <3> QED
      BY <2>5, <3>1 DEF TokenOf
  <2>7. StartsAt(data, 0, <<b>>)
    <3>1. \A i \in 1 .. 1 : i = 1
      OBVIOUS
    <3>2. 1 <= Len(data) /\ \A i \in 1 .. 1 : data[i] = <<b>>[i]
      BY <1>2, <2>2, <2>3, <3>1
    <3> QED
      BY <1>2, <2>3, <3>2, StartsIs
  <2>8. IsShortId(id) /\ Starts(data, id)
    BY <2>3, <2>6, <2>7 DEF IsShortId, Starts
  <2> QED
    BY <1>10, <2>8
<1>12. \E len \in hits : \A other \in hits : other <= len
  BY <1>3, <1>9, <1>11, LargestNatural
<1>13. longest \in hits /\ \A other \in hits : other <= longest
  BY <1>12
<1> HIDE DEF longest
<1>14. PICK id : id = shortMap[key(longest)]
  OBVIOUS
<1>15. /\ id \in 0 .. Len(tokens) - 1 /\ IsShortId(id) /\ key(longest) = ShortKey(TokenOf(tokens, id))
       /\ longest <= m
  BY <1>6, <1>9, <1>13, <1>14
<1>16. Len_(id) = longest
  BY <1>7, <1>8, <1>15
<1>17. Starts(data, id)
  <2>1. longest <= Len(data)
    BY <1>2, <1>3, <1>9, <1>13, <1>15
  <2> QED
    BY <1>5, <1>15, <1>16, <2>1
<1>18. hit = [token |-> id, len |-> Len_(id)]
  BY <1>1, <1>11, <1>14, <1>16
<1>19. \A other \in 0 .. Len(tokens) - 1 : IsShortId(other) /\ Starts(data, other) => Len_(other) <= Len_(id)
  BY <1>10, <1>13, <1>16
<1> QED
  BY <1>15, <1>17, <1>18, <1>19 DEF hit, Len_

LEMMA LpmFinds ==
    ASSUME LpmInv
    PROVE  FindsLongest
<1> SUFFICES ASSUME NEW data \in Windows
             PROVE  LET hit == FindLongestMatch(data)
                        T == {tokens[k] : k \in 1 .. Len(tokens)}
                    IN  /\ hit.token \in 0 .. Len(tokens) - 1
                        /\ tokens[hit.token + 1] = LongestMatch(T, data, 0)
                        /\ hit.len = Len(tokens[hit.token + 1])
  BY DEF FindsLongest
<1> DEFINE hit == FindLongestMatch(data)
           T == {tokens[k] : k \in 1 .. Len(tokens)}
           Len_(id) == Len(TokenOf(tokens, id))
<1>1. data \in ByteSeq /\ Len(data) \in Nat /\ Len(data) > 0
  <2>1. data \in ByteSeq /\ data # <<>>
    BY LpmAssumption
  <2> QED
    BY <2>1, LenProperties, EmptySeq DEF ByteSeq
<1>2. /\ WordSize \in Nat /\ Len(tokens) \in Nat /\ tokens \in Seq(Token)
      /\ \A id \in 0 .. Len(tokens) - 1 : TokenOf(tokens, id) \in Token /\ id \in Nat /\ Len_(id) \in Nat
  BY Sizes, LpmFacts
<1>3. \A id \in 0 .. Len(tokens) - 1 : /\ IsShortId(id) => Len_(id) <= WordSize
                                       /\ ~IsShortId(id) => Len_(id) > WordSize
  BY <1>2 DEF IsShortId, IsShort
<1>4. hit = IF FindLong(data) = NoMatch THEN FindShort(data)
              ELSE [token |-> FindLong(data).token, len |-> WordSize + FindLong(data).len]
  BY DEF FindLongestMatch
<1> HIDE DEF hit, Len_
<1>5. PICK id \in 0 .. Len(tokens) - 1 :
            /\ Starts(data, id)
            /\ hit = [token |-> id, len |-> Len_(id)]
            /\ \A other \in 0 .. Len(tokens) - 1 : Starts(data, other) => Len_(other) <= Len_(id)
  <2>1. CASE /\ FindLong(data) = NoMatch
             /\ \A id \in 0 .. Len(tokens) - 1 : ~IsShortId(id) => ~Starts(data, id)
    <3>1. PICK id \in 0 .. Len(tokens) - 1 :
                /\ IsShortId(id) /\ Starts(data, id)
                /\ FindShort(data) = [token |-> id, len |-> Len_(id)]
                /\ \A other \in 0 .. Len(tokens) - 1 : IsShortId(other) /\ Starts(data, other)
                        => Len_(other) <= Len_(id)
      BY <1>1, FindShortFinds DEF Len_
    <3> QED
      BY <1>4, <2>1, <3>1
  <2>2. ASSUME NEW id \in 0 .. Len(tokens) - 1,
               ~IsShortId(id), Starts(data, id),
               FindLong(data) = [token |-> id, len |-> Len_(id) - WordSize],
               \A other \in 0 .. Len(tokens) - 1 : ~IsShortId(other) /\ Starts(data, other)
                    => Len_(other) <= Len_(id)
        PROVE  /\ Starts(data, id)
               /\ hit = [token |-> id, len |-> Len_(id)]
               /\ \A other \in 0 .. Len(tokens) - 1 : Starts(data, other) => Len_(other) <= Len_(id)
    <3>1. FindLong(data).token = id /\ FindLong(data).len = Len_(id) - WordSize /\ id \in Nat
          /\ Len_(id) \in Nat
      BY <1>2, <2>2
    <3>2. FindLong(data) # NoMatch
      BY <3>1 DEF NoMatch
    <3>3. hit = [token |-> id, len |-> WordSize + (Len_(id) - WordSize)]
      BY <1>4, <3>1, <3>2
    <3>4. WordSize + (Len_(id) - WordSize) = Len_(id)
      BY <1>2, <3>1
    <3>5. ASSUME NEW other \in 0 .. Len(tokens) - 1, Starts(data, other)
          PROVE  Len_(other) <= Len_(id)
      <4>1. CASE IsShortId(other)
        BY <1>2, <1>3, <2>2, <4>1
      <4>2. CASE ~IsShortId(other)
        BY <2>2, <3>5, <4>2
      <4> QED
        BY <4>1, <4>2
    <3> QED
      BY <2>2, <3>3, <3>4, <3>5
  <2>3. \/ /\ FindLong(data) = NoMatch
           /\ \A id \in 0 .. Len(tokens) - 1 : ~IsShortId(id) => ~Starts(data, id)
        \/ \E id \in 0 .. Len(tokens) - 1 :
             /\ ~IsShortId(id) /\ Starts(data, id)
             /\ FindLong(data) = [token |-> id, len |-> Len_(id) - WordSize]
             /\ \A other \in 0 .. Len(tokens) - 1 : ~IsShortId(other) /\ Starts(data, other)
                        => Len_(other) <= Len_(id)
    BY <1>1, FindLongFinds DEF Len_
  <2> QED
    BY <2>1, <2>2, <2>3
<1> DEFINE t == TokenOf(tokens, id)
<1>6. T \in SUBSET Token /\ SingleByteTokens \subseteq T
  <2>1. \A k \in 1 .. Len(tokens) : tokens[k] \in Token
    BY <1>2, ElementOfSeq
  <2>2. SingleByteTokens \subseteq T
    BY DEF LpmInv, HeldIn
  <2> QED
    BY <2>1, <2>2
<1>7. \A x \in T : \E other \in 0 .. Len(tokens) - 1 : x = TokenOf(tokens, other)
  <2> SUFFICES ASSUME NEW k \in 1 .. Len(tokens)
               PROVE  \E other \in 0 .. Len(tokens) - 1 : tokens[k] = TokenOf(tokens, other)
    OBVIOUS
  <2>1. k - 1 \in 0 .. Len(tokens) - 1 /\ (k - 1) + 1 = k
    BY <1>2
  <2> QED
    BY <2>1 DEF TokenOf
<1>8. t \in T
  <2>1. id + 1 \in 1 .. Len(tokens)
    BY <1>2
  <2> QED
    BY <2>1 DEF TokenOf
<1> HIDE DEF T
<1>9. IsLongestAt(T, data, 0, t)
  BY <1>5, <1>7, <1>8 DEF IsLongestAt, Starts, Len_
<1>10. IsLongestAt(T, data, 0, LongestMatch(T, data, 0))
  BY <1>1, <1>6, LongestMatchFound
<1>11. t = LongestMatch(T, data, 0)
  BY <1>1, <1>6, <1>9, <1>10, LongestIsUnique
<1>12. hit.token = id /\ tokens[hit.token + 1] = t /\ hit.len = Len(t)
  BY <1>5 DEF TokenOf, Len_
<1> QED
  BY <1>11, <1>12 DEF hit, T

\* Whatever the tokens, the maps and the window, the search returns the longest
\* token that starts the window, with its id and its length.
THEOREM LpmFindsLongest == LpmSpec => []FindsLongest
BY LpmInvHolds, LpmFinds, PTL
=============================================================================
