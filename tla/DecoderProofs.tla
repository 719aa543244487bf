--------------------------- MODULE DecoderProofs ---------------------------
(***************************************************************************)
(* Proofs about Decoder and ColumnCodec, for every dictionary, code        *)
(* stream, buffer length, token size and offset width.                     *)
(*                                                                         *)
(* Decoder: no store leaves the buffer, the cursor stands behind exactly   *)
(* the tokens decoded so far, and a buffer is refused only when the bytes  *)
(* do not fit it.  The argument is the one of the SAFETY comments: while k *)
(* codes of a batch are left, the cursor is at least k full token slots    *)
(* before the end of the buffer.                                           *)
(*                                                                         *)
(* ColumnCodec: rows come back as they went in.  A column is what some     *)
(* parser makes of the input's rows (ColumnInv), so the codes between the  *)
(* ends of two rows stand for the bytes between them (RowsComeBack), and   *)
(* those are what the decoder has been given (AnswerInv).                  *)
(***************************************************************************)
EXTENDS ColumnCodec, ByteStringsProofs

Total == DecodedLen(dict, codes, Len(codes))

\* Every code decoded so far names a token.
GoodSoFar == \A j \in 1 .. i : InRange(codes[j])

\* The room each mode relies on for its next stores.
Room ==
    /\ w <= cap
    /\ mode = "unchecked" =>
        \/ Total + MaxTokenSize <= cap
        \/ w + MaxTokenSize * (Len(codes) - i) <= cap
    /\ mode = "batch" =>
        /\ i <= end
        /\ w + MaxTokenSize * (end - i) <= cap

\* Where a decoder that gave up stands.
Stuck ==
    /\ mode = "too_small" => i < Len(codes)
    /\ mode = "panic" => i < Len(codes) /\ ~InRange(codes[i + 1])

IInv ==
    TypeOK /\ InBounds /\ GoodSoFar /\ DecodedSoFar /\ TooSmallIsExact /\ Room /\ Stuck

-----------------------------------------------------------------------------
(***************************************************************************)
(* Tokens and the lengths of what was decoded.                             *)
(***************************************************************************)

\* A code in range names a token whose chunk lies within the dictionary.
LEMMA TokenFacts ==
    ASSUME NEW d \in Dictionaries, NEW code \in Nat, code < TokenCount(d)
    PROVE  /\ TokenLen(d, code) \in 1 .. MaxTokenSize
           /\ TokenBytes(d, code) \in ByteSeq
           /\ Len(TokenBytes(d, code)) = TokenLen(d, code)
           /\ Chunk(d, code) \in ByteSeq
           /\ Len(Chunk(d, code)) = MaxTokenSize
           /\ \A k \in 1 .. TokenLen(d, code) : Chunk(d, code)[k] = TokenBytes(d, code)[k]
<1> DEFINE start == TokenStart(d, code)
           len == TokenLen(d, code)
<1>1. /\ d.bytes \in ByteSeq /\ d.offsets \in Seq(Nat) /\ Len(d.offsets) >= 1
      /\ \A c \in 0 .. TokenCount(d) - 1 :
            /\ TokenLen(d, c) \in 1 .. MaxTokenSize
            /\ TokenStart(d, c) + MaxTokenSize <= Len(d.bytes)
  BY DecoderAssumption DEF Readable
<1>2. TokenCount(d) \in Nat /\ Len(d.offsets) \in Nat /\ Len(d.bytes) \in Nat
  BY <1>1, LenProperties DEF TokenCount, ByteSeq
<1>3. code \in 0 .. TokenCount(d) - 1
  BY <1>2
<1>4. len \in 1 .. MaxTokenSize /\ start + MaxTokenSize <= Len(d.bytes)
  BY <1>1, <1>3
<1>5. d.offsets[code + 1] \in Nat /\ d.offsets[code + 2] \in Nat
  <2>1. code + 1 \in 1 .. Len(d.offsets) /\ code + 2 \in 1 .. Len(d.offsets)
    BY <1>2, <1>3 DEF TokenCount
  <2> QED
    BY <1>1, <2>1, ElementOfSeq
<1>6. start \in Nat /\ d.offsets[code + 2] = start + len /\ MaxTokenSize \in Nat
  BY <1>5, BytesAssumption DEF TokenStart, TokenLen
<1>7. len \in Nat /\ len <= MaxTokenSize
  BY <1>4, <1>6
<1> HIDE DEF start, len
<1>8. \A to \in Nat : start <= to /\ to <= Len(d.bytes) =>
        /\ Slice(d.bytes, start, to) \in ByteSeq
        /\ Len(Slice(d.bytes, start, to)) = to - start
        /\ \A k \in 1 .. to - start : Slice(d.bytes, start, to)[k] = d.bytes[start + k]
  BY <1>1, <1>6, SliceProperties
<1>9. /\ start + len \in Nat /\ start <= start + len /\ start + len <= Len(d.bytes)
      /\ start + MaxTokenSize \in Nat /\ start <= start + MaxTokenSize
  BY <1>2, <1>4, <1>6, <1>7
<1>10. start + len - start = len /\ start + MaxTokenSize - start = MaxTokenSize
  BY <1>6, <1>7
<1>11. TokenBytes(d, code) = Slice(d.bytes, start, start + len)
  BY <1>6 DEF TokenBytes, start
<1>12. Chunk(d, code) = Slice(d.bytes, start, start + MaxTokenSize)
  BY DEF Chunk, start
<1>13. \A k \in 1 .. len : k \in 1 .. MaxTokenSize
  BY <1>6, <1>7
<1>14. /\ TokenBytes(d, code) \in ByteSeq /\ Len(TokenBytes(d, code)) = len
       /\ \A k \in 1 .. len : TokenBytes(d, code)[k] = d.bytes[start + k]
  BY <1>6, <1>7, <1>8, <1>9, <1>10, <1>11
<1>15. /\ Chunk(d, code) \in ByteSeq /\ Len(Chunk(d, code)) = MaxTokenSize
       /\ \A k \in 1 .. MaxTokenSize : Chunk(d, code)[k] = d.bytes[start + k]
  <2> DEFINE to == start + MaxTokenSize
  <2>1. to \in Nat /\ start <= to /\ to <= Len(d.bytes) /\ to - start = MaxTokenSize
    <3>1. start + MaxTokenSize <= Len(d.bytes)
      BY <1>4
    <3> QED
      BY <1>6, <3>1
  <2>2. Chunk(d, code) = Slice(d.bytes, start, to)
    BY <1>12
  <2> HIDE DEF to
  <2> QED
    BY <1>8, <2>1, <2>2
<1> QED
  BY <1>4, <1>13, <1>14, <1>15 DEF len

LEMMA DecodedType ==
    ASSUME NEW d \in Dictionaries, NEW cs \in Seq(Nat)
    PROVE  Decoded(d, cs) \in Seq(ByteSeq) /\ Len(Decoded(d, cs)) = Len(cs)
<1>1. Len(cs) \in Nat /\ \A j \in 1 .. Len(cs) : cs[j] \in Nat
  BY LenProperties, ElementOfSeq
<1>2. \A j \in 1 .. Len(cs) : cs[j] < TokenCount(d) => TokenBytes(d, cs[j]) \in ByteSeq
  BY <1>1, TokenFacts
<1>3. <<>> \in ByteSeq
  BY DEF ByteSeq
<1>4. Decoded(d, cs) \in [1 .. Len(cs) -> ByteSeq]
  BY <1>2, <1>3 DEF Decoded
<1> QED
  BY <1>1, <1>4

\* The decompressed length grows by each token, and never shrinks.
LEMMA DecodedLenFacts ==
    ASSUME NEW d \in Dictionaries, NEW cs \in Seq(Nat)
    PROVE  /\ DecodedLen(d, cs, 0) = 0
           /\ \A n \in 0 .. Len(cs) : DecodedLen(d, cs, n) \in Nat
           /\ \A n \in 1 .. Len(cs) : cs[n] < TokenCount(d) =>
                DecodedLen(d, cs, n) = DecodedLen(d, cs, n - 1) + TokenLen(d, cs[n])
           /\ \A m, n \in 0 .. Len(cs) :
                m <= n => DecodedLen(d, cs, m) <= DecodedLen(d, cs, n)
<1> DEFINE rows == Decoded(d, cs)
<1>1. rows \in Seq(ByteSeq) /\ Len(rows) = Len(cs) /\ Len(cs) \in Nat
  BY DecodedType, LenProperties
<1>2. ASSUME NEW n \in 1 .. Len(cs), cs[n] < TokenCount(d)
      PROVE  Len(rows[n]) = TokenLen(d, cs[n])
  <2>1. cs[n] \in Nat
    BY ElementOfSeq
  <2> QED
    BY <1>2, <2>1, TokenFacts DEF Decoded
<1> HIDE DEF rows
<1>3. /\ ByteCount(rows, 0) = 0
      /\ \A n \in 0 .. Len(cs) : ByteCount(rows, n) \in Nat
      /\ \A n \in 1 .. Len(cs) : ByteCount(rows, n) = ByteCount(rows, n - 1) + Len(rows[n])
  BY <1>1, ByteCountSteps
<1>4. ASSUME NEW m \in 0 .. Len(cs), NEW n \in 0 .. Len(cs), m <= n
      PROVE  ByteCount(rows, m) <= ByteCount(rows, n)
  <2>1. m \in 0 .. Len(rows) /\ n \in m .. Len(rows)
    BY <1>1, <1>4
  <2> QED
    BY <1>1, <2>1, ByteCountMonotone
<1> QED
  BY <1>2, <1>3, <1>4 DEF DecodedLen, rows

\* Products of the token size, and the quotient that sizes a batch.
LEMMA SlotArithmetic ==
    /\ \A n \in Nat : MaxTokenSize * n \in Nat
    /\ MaxTokenSize * 0 = 0
    /\ \A n \in Nat \ {0} : MaxTokenSize * n = MaxTokenSize + MaxTokenSize * (n - 1)
    /\ \A m, n \in Nat : m <= n => MaxTokenSize * m <= MaxTokenSize * n
    /\ \A x \in Nat : x \div MaxTokenSize \in Nat
                      /\ MaxTokenSize * (x \div MaxTokenSize) <= x
<1> MaxTokenSize \in Nat \ {0}
  BY BytesAssumption
<1>1. \A n \in Nat : MaxTokenSize * n \in Nat
  OBVIOUS
<1>2. \A n \in Nat \ {0} : MaxTokenSize * n = MaxTokenSize + MaxTokenSize * (n - 1)
  OBVIOUS
<1>3. \A m, n \in Nat : m <= n => MaxTokenSize * m <= MaxTokenSize * n
  OBVIOUS
<1>4. \A x \in Nat : x \div MaxTokenSize \in Nat
                     /\ MaxTokenSize * (x \div MaxTokenSize) <= x
  OBVIOUS
<1>5. MaxTokenSize * 0 = 0
  OBVIOUS
<1> QED
  BY <1>1, <1>2, <1>3, <1>4, <1>5

-----------------------------------------------------------------------------
(***************************************************************************)
(* Stores.                                                                 *)
(***************************************************************************)

\* The two copies of a short token overlap, so that they cover all of it and
\* nothing else.
LEMMA CopiesCover ==
    ASSUME NEW len \in Nat, len # 0
    PROVE  CopiedCells(len) = 0 .. len - 1
<1>1. CASE len = 1
  BY <1>1 DEF CopiedCells, ChunkSize
<1>2. CASE len \in 2 .. 3
  BY <1>2 DEF CopiedCells, ChunkSize
<1>3. CASE len \in 4 .. 7
  BY <1>3 DEF CopiedCells, ChunkSize
<1>4. CASE len \in 8 .. 15
  BY <1>4 DEF CopiedCells, ChunkSize
<1>5. CASE len >= 16
  BY <1>5 DEF CopiedCells, ChunkSize
<1> QED
  BY <1>1, <1>2, <1>3, <1>4, <1>5

\* A store of at least the token's bytes, within the buffer, extends what is
\* decoded by the token and disturbs nothing before the cursor.
LEMMA StoreStep ==
    ASSUME IInv, i < Len(codes), InRange(codes[i + 1]),
           NEW cells \in SUBSET (0 .. MaxTokenSize - 1),
           0 .. TokenLen(dict, codes[i + 1]) - 1 \subseteq cells,
           \A c \in cells : w + c < cap,
           out' = Stored(w, Chunk(dict, codes[i + 1]), cells),
           w' = w + TokenLen(dict, codes[i + 1]),
           i' = i + 1,
           UNCHANGED <<dict, codes, cap>>
    PROVE  /\ w' \in Nat /\ i' \in 0 .. Len(codes')
           /\ \A k \in DOMAIN out' : k \in Nat /\ out'[k] \in Byte
           /\ InBounds' /\ GoodSoFar' /\ DecodedSoFar'
<1> DEFINE code == codes[i + 1]
           len == TokenLen(dict, code)
           src == Chunk(dict, code)
<1>1. /\ dict \in Dictionaries /\ codes \in Seq(Nat) /\ cap \in Nat /\ w \in Nat
      /\ i \in 0 .. Len(codes) /\ Len(codes) \in Nat
      /\ \A k \in DOMAIN out : k \in Nat /\ out[k] \in Byte
  BY DecoderAssumption, LenProperties DEF IInv, TypeOK
<1>2. i \in Nat /\ i + 1 \in 1 .. Len(codes)
  BY <1>1
<1>3. code \in Nat /\ code < TokenCount(dict)
  BY <1>1, <1>2, ElementOfSeq DEF InRange
<1>4. /\ len \in 1 .. MaxTokenSize
      /\ src \in ByteSeq /\ Len(src) = MaxTokenSize
      /\ \A k \in 1 .. len : src[k] = TokenBytes(dict, code)[k]
  <2> HIDE DEF code
  <2> QED
    BY <1>1, <1>3, TokenFacts
<1>5. DecodedLen(dict, codes, i + 1) = w + len
  <2>1. DecodedLen(dict, codes, i + 1) = DecodedLen(dict, codes, i + 1 - 1) + len
    BY <1>1, <1>2, <1>3, DecodedLenFacts
  <2>2. i + 1 - 1 = i /\ w = DecodedLen(dict, codes, i)
    BY <1>2 DEF IInv, DecodedSoFar
  <2> QED
    BY <2>1, <2>2
<1>6. MaxTokenSize \in Nat \ {0}
  BY BytesAssumption
<1>7. \A c \in cells : c \in Nat /\ c < MaxTokenSize /\ src[c + 1] \in Byte
  <2>1. \A k \in 1 .. Len(src) : src[k] \in Byte
    BY <1>4, ElementOfSeq DEF ByteSeq
  <2>2. \A c \in cells : c \in Nat /\ c < MaxTokenSize /\ c + 1 \in 1 .. MaxTokenSize
    BY <1>6
  <2> QED
    BY <1>4, <2>1, <2>2
<1>8. /\ DOMAIN out' = DOMAIN out \cup {w + c : c \in cells}
      /\ \A k \in DOMAIN out' :
            out'[k] = IF k - w \in cells THEN src[k - w + 1] ELSE out[k]
  BY DEF Stored
<1> HIDE DEF src
<1>9. \A k \in DOMAIN out' : k \in Nat /\ out'[k] \in Byte /\ k \in 0 .. cap - 1
  <2> TAKE k \in DOMAIN out'
  <2>1. CASE k \in DOMAIN out
    <3>1. k \in Nat /\ out[k] \in Byte /\ k \in 0 .. cap - 1
      BY <1>1, <2>1 DEF IInv, InBounds
    <3> QED
      BY <1>7, <1>8, <3>1
  <2>2. CASE k \notin DOMAIN out
    <3>1. PICK c \in cells : k = w + c
      BY <1>8, <2>2
    <3>2. k \in Nat /\ k - w = c /\ k \in 0 .. cap - 1
      BY <1>1, <1>7, <3>1
    <3>3. out'[k] = src[c + 1]
      BY <1>8, <3>2
    <3> QED
      BY <1>7, <3>2, <3>3
  <2> QED
    BY <2>1, <2>2
<1>10. InBounds'
  BY <1>9 DEF InBounds
<1>11. GoodSoFar'
  <2> SUFFICES ASSUME NEW j \in 1 .. i + 1
               PROVE  InRange(codes[j])
    BY DEF GoodSoFar, InRange
  <2>1. CASE j = i + 1
    BY <2>1
  <2>2. CASE j # i + 1
    <3>1. j \in 1 .. i
      BY <1>2, <2>2
    <3> QED
      BY <3>1 DEF IInv, GoodSoFar
  <2> QED
    BY <2>1, <2>2
<1>12. \A j \in 1 .. i : \A k \in 1 .. TokenLen(dict, codes[j]) :
          LET cell == DecodedLen(dict, codes, j - 1) + k - 1
          IN  cell \in DOMAIN out' /\ out'[cell] = TokenBytes(dict, codes[j])[k]
  <2> TAKE j \in 1 .. i
  <2> TAKE k \in 1 .. TokenLen(dict, codes[j])
  <2> DEFINE before == DecodedLen(dict, codes, j - 1)
             cell == before + k - 1
  <2>1. cell \in DOMAIN out /\ out[cell] = TokenBytes(dict, codes[j])[k]
    BY DEF IInv, DecodedSoFar
  <2>2. j \in 1 .. Len(codes) /\ j \in 0 .. Len(codes) /\ j - 1 \in 0 .. Len(codes)
        /\ j <= i
    BY <1>1
  <2>3. codes[j] \in Nat /\ codes[j] < TokenCount(dict)
    BY <1>1, <2>2, ElementOfSeq DEF IInv, GoodSoFar, InRange
  <2>4. TokenLen(dict, codes[j]) \in 1 .. MaxTokenSize
    BY <1>1, <2>3, TokenFacts
  <2>5. /\ before \in Nat
        /\ DecodedLen(dict, codes, j) = before + TokenLen(dict, codes[j])
        /\ DecodedLen(dict, codes, j) <= DecodedLen(dict, codes, i)
    BY <1>1, <2>2, <2>3, DecodedLenFacts
  <2>6. DecodedLen(dict, codes, i) = w
    BY DEF IInv, DecodedSoFar
  <2> HIDE DEF before
  <2>7. TokenLen(dict, codes[j]) \in Nat
    BY <1>6, <2>4
  <2>8. cell \in Int /\ cell < w
    BY <1>1, <2>5, <2>6, <2>7
  <2> HIDE DEF cell
  <2>9. cell - w \notin cells
    BY <1>1, <1>7, <2>8
  <2>10. cell \in DOMAIN out' /\ out'[cell] = out[cell]
    BY <1>8, <2>1, <2>9
  <2> QED
    BY <2>1, <2>10 DEF cell, before
<1>13. \A k \in 1 .. len :
          w + k - 1 \in DOMAIN out' /\ out'[w + k - 1] = TokenBytes(dict, code)[k]
  <2> TAKE k \in 1 .. len
  <2> HIDE DEF len
  <2>1. len \in Nat
    BY <1>4, <1>6
  <2>2. k - 1 \in 0 .. len - 1 /\ k \in Nat
    BY <2>1
  <2>3. k - 1 \in cells
    BY <2>2 DEF len
  <2> DEFINE cell == w + k - 1
  <2>4. cell = w + (k - 1) /\ cell - w = k - 1 /\ k - 1 + 1 = k
    BY <1>1, <2>2
  <2> HIDE DEF cell
  <2>5. cell \in DOMAIN out'
    BY <1>8, <2>3, <2>4
  <2>6. out'[cell] = src[k]
    BY <1>8, <2>3, <2>4, <2>5
  <2> QED
    BY <1>4, <2>5, <2>6 DEF cell, len
<1>14. DecodedSoFar'
  <2>1. w' = DecodedLen(dict, codes, i + 1)
    BY <1>5
  <2>2. \A j \in 1 .. i + 1 : \A k \in 1 .. TokenLen(dict, codes[j]) :
          LET cell == DecodedLen(dict, codes, j - 1) + k - 1
          IN  cell \in DOMAIN out' /\ out'[cell] = TokenBytes(dict, codes[j])[k]
    <3> TAKE j \in 1 .. i + 1
    <3>1. CASE j = i + 1
      <4>1. DecodedLen(dict, codes, j - 1) = w
        <5>1. j - 1 = i
          BY <1>2, <3>1
        <5> QED
          BY <5>1 DEF IInv, DecodedSoFar
      <4> QED
        BY <1>13, <3>1, <4>1
    <3>2. CASE j # i + 1
      <4>1. j \in 1 .. i
        BY <1>2, <3>2
      <4> QED
        BY <1>12, <4>1
    <3> QED
      BY <3>1, <3>2
  <2>3. dict' = dict /\ codes' = codes /\ i' = i + 1
    OBVIOUS
  <2>4. w' = DecodedLen(dict', codes', i')
    BY <2>1, <2>3
  <2>5. \A j \in 1 .. i' : \A k \in 1 .. TokenLen(dict', codes'[j]) :
          LET cell == DecodedLen(dict', codes', j - 1) + k - 1
          IN  cell \in DOMAIN out' /\ out'[cell] = TokenBytes(dict', codes'[j])[k]
    BY <2>2, <2>3
  <2> QED
    BY <2>4, <2>5 DEF DecodedSoFar
<1>15. w' \in Nat /\ i' \in 0 .. Len(codes')
  <2>1. len \in Nat
    BY <1>4, <1>6
  <2> QED
    BY <1>1, <1>2, <2>1
<1> QED
  BY <1>9, <1>10, <1>11, <1>14, <1>15

-----------------------------------------------------------------------------
(***************************************************************************)
(* The inductive invariant.                                                *)
(***************************************************************************)

\* A decoder that has just been called, or let go.
Fresh ==
    /\ dict \in Dictionaries /\ codes \in Seq(Nat) /\ cap \in Nat
    /\ w = 0 /\ i = 0 /\ end = 0
    /\ out = [k \in {} |-> 0]
    /\ \/ mode = Dispatch
       \/ mode = "unchecked" /\ Promised
       \/ mode = "ok" /\ codes = <<>>

LEMMA FreshInv == Fresh => IInv
<1> SUFFICES ASSUME Fresh
             PROVE  IInv
  OBVIOUS
<1> DEFINE n == Len(codes)
<1>1. /\ dict \in Dictionaries /\ codes \in Seq(Nat) /\ cap \in Nat /\ n \in Nat
      /\ w = 0 /\ i = 0 /\ end = 0 /\ DOMAIN out = {}
      /\ mode \in {"unchecked", "round", "ok"} /\ (mode = "ok" => codes = <<>>)
  BY LenProperties DEF Fresh, Dispatch
<1>2. DecodedLen(dict, codes, 0) = 0
  BY <1>1, DecodedLenFacts
<1>3. mode = "unchecked" => Total + MaxTokenSize <= cap \/ MaxTokenSize * n <= cap
  <2>0. SUFFICES ASSUME mode = "unchecked"
                 PROVE  Total + MaxTokenSize <= cap \/ MaxTokenSize * n <= cap
    OBVIOUS
  <2>1. CASE mode = Dispatch
    <3>1. SUFFICES ASSUME cap \div MaxTokenSize >= n
                   PROVE  MaxTokenSize * n <= cap
      BY <2>0, <2>1 DEF Dispatch
    <3> DEFINE q == cap \div MaxTokenSize
    <3>2. q \in Nat /\ MaxTokenSize * q <= cap
      BY <1>1, SlotArithmetic
    <3>3. MaxTokenSize * n <= MaxTokenSize * q
      BY <1>1, <3>1, <3>2, SlotArithmetic
    <3>4. MaxTokenSize * n \in Nat /\ MaxTokenSize * q \in Nat
      BY <1>1, <3>2, SlotArithmetic
    <3> HIDE DEF q, n
    <3> QED
      BY <1>1, <3>2, <3>3, <3>4
  <2>2. CASE Promised
    BY <2>2 DEF Promised, Padding, Total
  <2> QED
    BY <2>0, <2>1, <2>2 DEF Fresh
<1>4. Room
  <2>1. w + MaxTokenSize * (n - i) = MaxTokenSize * n
    <3>1. MaxTokenSize * n \in Nat /\ n - 0 = n
      BY <1>1, SlotArithmetic
    <3> QED
      BY <1>1, <3>1
  <2> QED
    BY <1>1, <1>3, <2>1 DEF Room
<1>5. TypeOK
  BY <1>1 DEF TypeOK
<1>6. TooSmallIsExact
  <2>1. codes = <<>> => n = 0
    OBVIOUS
  <2> QED
    BY <1>1, <1>2, <2>1 DEF TooSmallIsExact
<1> QED
  BY <1>1, <1>2, <1>4, <1>5, <1>6
  DEF IInv, InBounds, GoodSoFar, DecodedSoFar, Stuck

\* A step that touches neither the arguments, the cursors nor the buffer keeps
\* all that IInv says about them.
LEMMA QuietStep ==
    ASSUME IInv, UNCHANGED <<dict, codes, cap, w, i, out>>
    PROVE  InBounds' /\ GoodSoFar' /\ DecodedSoFar'
BY DEF IInv, InBounds, GoodSoFar, DecodedSoFar, InRange, TokenLen, TokenBytes,
       DecodedLen, Decoded, TokenCount, TokenStart

\* An over-copying store, of a code that has a full slot of the buffer left.
LEMMA OverCopyStep ==
    ASSUME IInv, i < Len(codes), InRange(codes[i + 1]),
           w + MaxTokenSize <= cap,
           OverCopy(codes[i + 1]), i' = i + 1,
           UNCHANGED <<dict, codes, cap>>
    PROVE  /\ w' \in Nat /\ i' \in 0 .. Len(codes')
           /\ w' <= w + MaxTokenSize
           /\ \A k \in DOMAIN out' : k \in Nat /\ out'[k] \in Byte
           /\ InBounds' /\ GoodSoFar' /\ DecodedSoFar'
<1> DEFINE len == TokenLen(dict, codes[i + 1])
           cells == 0 .. MaxTokenSize - 1
<1>1. /\ dict \in Dictionaries /\ codes \in Seq(Nat) /\ cap \in Nat /\ w \in Nat
      /\ i \in 0 .. Len(codes) /\ Len(codes) \in Nat /\ MaxTokenSize \in Nat \ {0}
  BY BytesAssumption, LenProperties DEF IInv, TypeOK
<1>2. i + 1 \in 1 .. Len(codes)
  BY <1>1
<1>3. codes[i + 1] \in Nat
  BY <1>1, <1>2, ElementOfSeq
<1>4. len \in 1 .. MaxTokenSize
  BY <1>1, <1>3, TokenFacts DEF InRange
<1>5. out' = Stored(w, Chunk(dict, codes[i + 1]), cells) /\ w' = w + len
  BY DEF OverCopy
<1> HIDE DEF len
<1>6. cells \in SUBSET (0 .. MaxTokenSize - 1) /\ 0 .. len - 1 \subseteq cells
  BY <1>1, <1>4
<1>7. \A c \in cells : w + c < cap
  BY <1>1
<1> HIDE DEF cells
<1>8. w' <= w + MaxTokenSize
  BY <1>1, <1>4, <1>5
<1> QED
  BY <1>5, <1>6, <1>7, <1>8, StoreStep DEF len

LEMMA NextInv == IInv /\ [Next]_vars => IInv'
<1> SUFFICES ASSUME IInv, [Next]_vars
             PROVE  IInv'
  OBVIOUS
<1> DEFINE n == Len(codes)
<1>1. /\ dict \in Dictionaries /\ codes \in Seq(Nat) /\ cap \in Nat /\ w \in Nat /\ n \in Nat
      /\ i \in 0 .. n /\ end \in 0 .. n /\ w <= cap
      /\ MaxTokenSize \in Nat \ {0}
      /\ \A k \in DOMAIN out : k \in Nat /\ out[k] \in Byte
  BY BytesAssumption, LenProperties DEF IInv, TypeOK, Room
<1>2. CASE UncheckedStore
  <2>1. /\ mode = "unchecked" /\ i < n /\ InRange(codes[i + 1])
        /\ OverCopy(codes[i + 1]) /\ i' = i + 1
        /\ UNCHANGED <<dict, codes, cap, mode, end>>
    BY <1>2 DEF UncheckedStore
  <2>2. Total \in Nat /\ w <= Total
    <3>1. w = DecodedLen(dict, codes, i)
      BY DEF IInv, DecodedSoFar
    <3> QED
      BY <1>1, <3>1, DecodedLenFacts DEF Total
  <2>3. /\ n - i \in Nat \ {0} /\ n - i - 1 = n - (i + 1) /\ n - (i + 1) \in Nat
        /\ MaxTokenSize * (n - i) = MaxTokenSize + MaxTokenSize * (n - (i + 1))
        /\ MaxTokenSize * (n - (i + 1)) \in Nat
    <3>1. n - i \in Nat \ {0} /\ n - i - 1 = n - (i + 1) /\ n - (i + 1) \in Nat
      BY <1>1, <2>1
    <3> HIDE DEF n
    <3> QED
      BY <3>1, SlotArithmetic
  <2> DEFINE rest == MaxTokenSize * (n - (i + 1))
  <2>4. Total + MaxTokenSize <= cap \/ w + (MaxTokenSize + rest) <= cap
    BY <2>1, <2>3 DEF IInv, Room
  <2>5. rest \in Nat
    BY <2>3
  <2> HIDE DEF rest
  <2>6. w + MaxTokenSize <= cap
    BY <1>1, <2>2, <2>4, <2>5
  <2>7. /\ w' \in Nat /\ i' \in 0 .. Len(codes') /\ w' <= w + MaxTokenSize
        /\ \A k \in DOMAIN out' : k \in Nat /\ out'[k] \in Byte
        /\ InBounds' /\ GoodSoFar' /\ DecodedSoFar'
    BY <2>1, <2>6, OverCopyStep
  <2>8. w' <= cap /\ (Total + MaxTokenSize <= cap \/ w' + rest <= cap)
    BY <1>1, <2>2, <2>4, <2>5, <2>6, <2>7
  <2>9. Total' = Total
    BY <2>1 DEF Total
  <2>10. Room'
    BY <2>1, <2>8, <2>9 DEF Room, rest
  <2>11. TypeOK'
    BY <1>1, <2>1, <2>7 DEF TypeOK
  <2> QED
    BY <2>1, <2>7, <2>10, <2>11 DEF IInv, TooSmallIsExact, Stuck
<1>3. CASE StartBatch
  <2>1. /\ mode = "round" /\ HasBatch /\ end' = BatchEnd /\ mode' = "batch"
        /\ UNCHANGED <<dict, codes, cap, w, i, out>>
    BY <1>3 DEF StartBatch
  <2> DEFINE size == BatchSize
             taken == BatchEnd - i
  <2>2. size \in Nat /\ MaxTokenSize * size <= cap - w
    <3>1. cap - w \in Nat
      BY <1>1
    <3> QED
      BY <3>1, SlotArithmetic DEF BatchSize
  <2>3. /\ BatchEnd \in 0 .. n /\ i <= BatchEnd
        /\ taken \in Nat /\ taken <= size
    <3> HIDE DEF size
    <3>1. BatchEnd = IF i + size < n THEN i + size ELSE n
      BY DEF BatchEnd, size
    <3> HIDE DEF n
    <3>2. BatchEnd \in 0 .. n /\ i <= BatchEnd /\ BatchEnd <= i + size
      BY <1>1, <2>2, <3>1
    <3> QED
      BY <1>1, <2>2, <3>2
  <2> HIDE DEF size, taken
  <2>4. MaxTokenSize * taken <= MaxTokenSize * size
        /\ MaxTokenSize * taken \in Nat /\ MaxTokenSize * size \in Nat
    BY <2>2, <2>3, SlotArithmetic
  <2>5. w + MaxTokenSize * taken <= cap
    BY <1>1, <2>2, <2>4
  <2>6. Room'
    BY <1>1, <2>1, <2>3, <2>5 DEF Room, taken
  <2>7. TypeOK'
    BY <1>1, <2>1, <2>3 DEF TypeOK
  <2> QED
    BY <2>1, <2>6, <2>7, QuietStep DEF IInv, TooSmallIsExact, Stuck
<1>4. CASE BatchStore
  <2>1. /\ mode = "batch" /\ i < end /\ InRange(codes[i + 1])
        /\ OverCopy(codes[i + 1]) /\ i' = i + 1
        /\ UNCHANGED <<dict, codes, cap, mode, end>>
    BY <1>4 DEF BatchStore
  <2>2. i < n
    BY <1>1, <2>1
  <2>3. /\ end - i \in Nat \ {0} /\ end - i - 1 = end - (i + 1) /\ end - (i + 1) \in Nat
        /\ i + 1 <= end
    BY <1>1, <2>1
  <2> DEFINE rest == MaxTokenSize * (end - (i + 1))
  <2>4. MaxTokenSize * (end - i) = MaxTokenSize + rest /\ rest \in Nat
    BY <2>3, SlotArithmetic
  <2>5. w + (MaxTokenSize + rest) <= cap
    BY <2>1, <2>4 DEF IInv, Room
  <2> HIDE DEF rest
  <2>6. w + MaxTokenSize <= cap
    BY <1>1, <2>4, <2>5
  <2>7. /\ w' \in Nat /\ i' \in 0 .. Len(codes') /\ w' <= w + MaxTokenSize
        /\ \A k \in DOMAIN out' : k \in Nat /\ out'[k] \in Byte
        /\ InBounds' /\ GoodSoFar' /\ DecodedSoFar'
    BY <2>1, <2>2, <2>6, OverCopyStep
  <2>8. w' <= cap /\ w' + rest <= cap
    <3>1. w' \in Nat /\ w' <= w + MaxTokenSize
      BY <2>7
    <3>2. w \in Nat /\ cap \in Nat /\ MaxTokenSize \in Nat /\ rest \in Nat
      BY <1>1, <2>4
    <3> DEFINE v == w'
    <3>3. v \in Nat /\ v <= w + MaxTokenSize
      BY <3>1
    <3> HIDE DEF v
    <3>4. v <= cap /\ v + rest <= cap
      BY <2>5, <3>2, <3>3
    <3> QED
      BY <3>4 DEF v
  <2>9. Room'
    BY <2>1, <2>3, <2>8 DEF Room, rest
  <2>10. TypeOK'
    BY <1>1, <2>1, <2>7 DEF TypeOK
  <2> QED
    BY <2>1, <2>7, <2>9, <2>10 DEF IInv, TooSmallIsExact, Stuck
<1>5. CASE EndBatch
  <2>1. mode' = "round" /\ UNCHANGED <<dict, codes, cap, w, i, end, out>>
    BY <1>5 DEF EndBatch
  <2> QED
    BY <1>1, <2>1, QuietStep DEF IInv, TypeOK, Room, TooSmallIsExact, Stuck
<1>6. CASE StartTail
  <2>1. mode' = "tail" /\ UNCHANGED <<dict, codes, cap, w, i, end, out>>
    BY <1>6 DEF StartTail
  <2> QED
    BY <1>1, <2>1, QuietStep DEF IInv, TypeOK, Room, TooSmallIsExact, Stuck
<1>7. CASE TailCopy
  <2> DEFINE len == TokenLen(dict, codes[i + 1])
             cells == CopiedCells(len)
  <2>1. /\ mode = "tail" /\ i < n /\ InRange(codes[i + 1]) /\ Fits(len)
        /\ out' = Stored(w, Chunk(dict, codes[i + 1]), cells)
        /\ w' = w + len /\ i' = i + 1
        /\ UNCHANGED <<dict, codes, cap, mode, end>>
    BY <1>7 DEF TailCopy
  <2>2. i + 1 \in 1 .. n
    BY <1>1, <2>1
  <2>3. codes[i + 1] \in Nat
    BY <1>1, <2>2, ElementOfSeq
  <2>4. len \in 1 .. MaxTokenSize
    BY <1>1, <2>1, <2>3, TokenFacts DEF InRange
  <2>5. w + len <= cap
    BY <2>1 DEF Fits
  <2> HIDE DEF len
  <2>6. len \in Nat /\ len # 0 /\ len <= MaxTokenSize
    BY <1>1, <2>4
  <2>7. cells = 0 .. len - 1
    BY <2>6, CopiesCover
  <2>8. cells \in SUBSET (0 .. MaxTokenSize - 1) /\ 0 .. len - 1 \subseteq cells
    BY <1>1, <2>6, <2>7
  <2>9. \A c \in cells : w + c < cap
    BY <1>1, <2>5, <2>6, <2>7
  <2> HIDE DEF cells
  <2>10. /\ w' \in Nat /\ i' \in 0 .. Len(codes')
         /\ \A k \in DOMAIN out' : k \in Nat /\ out'[k] \in Byte
         /\ InBounds' /\ GoodSoFar' /\ DecodedSoFar'
    BY <2>1, <2>8, <2>9, StoreStep DEF len
  <2>11. TypeOK' /\ Room'
    BY <1>1, <2>1, <2>5, <2>10 DEF TypeOK, Room
  <2> QED
    BY <2>1, <2>10, <2>11 DEF IInv, TooSmallIsExact, Stuck
<1>8. CASE TooSmall
  <2> DEFINE len == TokenLen(dict, codes[i + 1])
  <2>1. /\ i < n /\ InRange(codes[i + 1]) /\ ~Fits(len) /\ mode' = "too_small"
        /\ UNCHANGED <<dict, codes, cap, w, i, end, out>>
    BY <1>8 DEF TooSmall
  <2>2. i + 1 \in 1 .. n /\ i + 1 - 1 = i
    BY <1>1, <2>1
  <2>3. codes[i + 1] \in Nat /\ codes[i + 1] < TokenCount(dict)
    BY <1>1, <2>1, <2>2, ElementOfSeq DEF InRange
  <2>4. len \in 1 .. MaxTokenSize
    BY <1>1, <2>3, TokenFacts
  <2>5. DecodedLen(dict, codes, i + 1) = w + len
    <3>1. DecodedLen(dict, codes, i + 1) = DecodedLen(dict, codes, i + 1 - 1) + len
      BY <1>1, <2>2, <2>3, DecodedLenFacts
    <3> QED
      BY <2>2, <3>1 DEF IInv, DecodedSoFar
  <2> HIDE DEF len
  <2>6. w + len > cap
    BY <1>1, <2>1, <2>4 DEF Fits
  <2>7. TooSmallIsExact'
    <3>1. DecodedLen(dict, codes, i + 1) > cap
      BY <2>5, <2>6
    <3> QED
      BY <2>1, <3>1 DEF TooSmallIsExact
  <2> QED
    BY <1>1, <2>1, <2>7, QuietStep DEF IInv, TypeOK, Room, Stuck
<1>9. CASE BadCode
  <2>1. /\ mode' = "panic" /\ UNCHANGED <<dict, codes, cap, w, i, end, out>>
        /\ i < n /\ ~InRange(codes[i + 1])
    BY <1>1, <1>9 DEF BadCode
  <2>2. Stuck'
    BY <2>1 DEF Stuck, InRange, TokenCount
  <2> QED
    BY <1>1, <2>1, <2>2, QuietStep DEF IInv, TypeOK, Room, TooSmallIsExact
<1>10. CASE Finish
  <2>1. i = n /\ mode' = "ok" /\ UNCHANGED <<dict, codes, cap, w, i, end, out>>
    BY <1>10 DEF Finish
  <2>2. TooSmallIsExact'
    BY <1>1, <2>1 DEF IInv, DecodedSoFar, TooSmallIsExact
  <2> QED
    BY <1>1, <2>1, <2>2, QuietStep DEF IInv, TypeOK, Room, Stuck
<1>11. CASE UNCHANGED vars
  BY <1>1, <1>11, QuietStep DEF vars, IInv, TypeOK, Room, TooSmallIsExact, Total, Stuck, InRange, TokenCount
<1> QED
  BY <1>2, <1>3, <1>4, <1>5, <1>6, <1>7, <1>8, <1>9, <1>10, <1>11 DEF Next

\* IInv is an invariant of decoding.
THEOREM Invariance == Spec => []IInv
<1>1. Init => IInv
  BY FreshInv, DecoderAssumption DEF Init, Fresh
<1>2. IInv /\ [Next]_vars => IInv'
  BY NextInv
<1> QED
  BY <1>1, <1>2, PTL DEF Spec

\* No over-copying store of decompress_into, or of decompress_into_unchecked
\* under its safety condition, leaves the output buffer, and no variable its type.
THEOREM NoOverrun == Spec => []StoresInBounds
<1>1. IInv => StoresInBounds
  BY DEF IInv, StoresInBounds
<1> QED
  BY Invariance, <1>1, PTL

\* The bytes before the cursor are always those of the codes decoded so far.
THEOREM DecodesFaithfully == Spec => []DecodedSoFar
BY Invariance, PTL DEF IInv

\* OutputTooSmall is returned only when the decompressed bytes exceed the buffer,
\* and success only when they do not.
THEOREM RefusalIsExact == Spec => []TooSmallIsExact
BY Invariance, PTL DEF IInv

-----------------------------------------------------------------------------
(***************************************************************************)
(* Tokens one after the other.                                             *)
(***************************************************************************)

LEMMA FlatOfConcat ==
    ASSUME NEW S, NEW s \in Seq(Seq(S)), NEW t \in Seq(Seq(S))
    PROVE  Flat(s \o t) = Flat(s) \o Flat(t)
<1> DEFINE st == s \o t
           m == Len(s)
           n == Len(t)
<1>1. /\ st \in Seq(Seq(S)) /\ Len(st) = m + n /\ m \in Nat /\ n \in Nat
      /\ \A h \in 1 .. m : st[h] = s[h]
      /\ \A h \in 1 .. n : st[m + h] = t[h]
  <2>1. st \in Seq(Seq(S)) /\ Len(st) = m + n /\ m \in Nat /\ n \in Nat
    BY ConcatProperties, LenProperties
  <2>2. \A h \in 1 .. m + n : st[h] = IF h <= m THEN s[h] ELSE t[h - m]
    BY ConcatProperties
  <2> HIDE DEF st, m, n
  <2>3. \A h \in 1 .. m : h \in 1 .. m + n /\ h <= m
    BY <2>1
  <2>4. \A h \in 1 .. n : m + h \in 1 .. m + n /\ ~(m + h <= m) /\ m + h - m = h
    BY <2>1
  <2> QED
    BY <2>1, <2>2, <2>3, <2>4
<1>2. FlatTo(st)[m] = FlatTo(s)[m]
  <2>1. m \in 0 .. Len(s) /\ m <= Len(st)
    BY <1>1
  <2> HIDE DEF st, m
  <2> QED
    BY <1>1, <2>1, FlatToAgrees
<1>3. SubSeq(st, m + 1, m + n) = t
  <2>1. m \in 0 .. Len(st) /\ m + n \in m .. Len(st) /\ m + n - m = n
    BY <1>1
  <2> DEFINE rest == SubSeq(st, m + 1, m + n)
             top == m + n
  <2>2. /\ rest \in Seq(Seq(S)) /\ Len(rest) = n
        /\ \A h \in 1 .. n : rest[h] = st[m + h]
    <3>1. top \in m .. Len(st) /\ top - m = n /\ rest = SubSeq(st, m + 1, top)
      BY <2>1 DEF top
    <3> HIDE DEF st, m, n
    <3> HIDE DEF top, rest
    <3> QED
      BY <1>1, <2>1, <3>1, MiddlePiece
  <2> HIDE DEF st, rest, m
  <2>3. \A h \in 1 .. n : rest[h] = t[h]
    BY <1>1, <2>2
  <2> QED
    BY <2>2, <2>3, SeqEqual DEF rest
<1>4. FlatTo(st)[m] \o FlatTo(SubSeq(st, m + 1, m + n))[n] = FlatTo(st)[m + n]
  <2> DEFINE top == m + n
  <2>1. m \in 0 .. Len(st) /\ top \in m .. Len(st) /\ n \in 0 .. top - m
    BY <1>1
  <2> HIDE DEF st, m, n, top
  <2>2. FlatTo(st)[m] \o FlatTo(SubSeq(st, m + 1, top))[n] = FlatTo(st)[m + n]
    BY <1>1, <2>1, FlatToOfRest
  <2> QED
    BY <2>2 DEF top
<1> QED
  BY <1>1, <1>2, <1>3, <1>4 DEF Flat

\* No token is empty: codes are at most as many as their bytes.
LEMMA SpelledLength ==
    ASSUME NEW vocab \in Seq(Token), NEW cs \in Seq(Ids(vocab))
    PROVE  Len(cs) <= Len(Flat(Spelled(vocab, cs)))
<1> DEFINE s == Spelled(vocab, cs)
           f == FlatTo(s)
           N == Len(cs)
           Held == {n \in 0 .. N : n <= Len(f[n])}
<1>1. /\ s \in Seq(Seq(Byte)) /\ N \in Nat /\ Len(s) = N
      /\ \A n \in 1 .. N : s[n] \in Token
  BY SpelledType
<1>2. /\ f[0] = <<>> /\ \A n \in 1 .. N : f[n] = f[n - 1] \o s[n]
      /\ \A n \in 0 .. N : f[n] \in Seq(Byte)
  <2> HIDE DEF s
  <2> QED
    BY <1>1, FlatToSteps
<1> HIDE DEF s, f
<1>3. 0 \in Held
  <2>1. Len(f[0]) = 0
    BY <1>2
  <2> QED
    BY <1>1, <2>1
<1>4. ASSUME NEW n \in 0 .. N - 1, n \in Held
      PROVE  n + 1 \in Held
  <2>1. n + 1 \in 1 .. N /\ n + 1 - 1 = n /\ n \in 0 .. N /\ n \in Nat
    BY <1>1
  <2>2. f[n + 1] = f[n] \o s[n + 1] /\ s[n + 1] \in Token /\ f[n] \in Seq(Byte)
    <3>1. s[n + 1] \in Token /\ f[n] \in Seq(Byte)
      BY <1>1, <1>2, <2>1
    <3> DEFINE m == n + 1
    <3>2. m \in 1 .. N /\ m - 1 = n
      BY <2>1
    <3> HIDE DEF m
    <3>3. f[m] = f[m - 1] \o s[m]
      BY <1>2, <3>2
    <3> QED
      BY <3>1, <3>2, <3>3 DEF m
  <2>3. s[n + 1] \in Seq(Byte) /\ Len(s[n + 1]) \in 1 .. MaxTokenSize
    BY <2>2, TokenType DEF ByteSeq
  <2>4. Len(f[n + 1]) = Len(f[n]) + Len(s[n + 1])
    BY <2>2, <2>3, ConcatProperties
  <2>5. Len(f[n]) \in Nat /\ MaxTokenSize \in Nat /\ n <= Len(f[n])
    BY <2>2, <1>4, LenProperties, BytesAssumption
  <2>6. n + 1 <= Len(f[n + 1])
    <3> DEFINE x == Len(f[n])
               y == Len(s[n + 1])
    <3>1. x \in Nat /\ y \in 1 .. MaxTokenSize /\ MaxTokenSize \in Nat /\ n <= x
      BY <2>3, <2>5
    <3> HIDE DEF x, y
    <3>2. n + 1 <= x + y
      BY <2>1, <3>1
    <3> QED
      BY <2>4, <3>2 DEF x, y
  <2> QED
    BY <1>1, <2>1, <2>6
<1> HIDE DEF Held
<1>5. \A n \in 0 .. N : n \in Held
  BY <1>1, <1>3, <1>4, UpwardInduction
<1>6. N \in Held
  BY <1>1, <1>5
<1> QED
  BY <1>1, <1>6 DEF Held, Flat, s, f

\* The codes of rows stand for the rows' bytes.
LEMMA CodesOfSpells ==
    ASSUME NEW vocab, Conforms(vocab), NEW rows \in Seq(ByteSeq), NEW top \in 0 .. Len(rows)
    PROVE  /\ CodesOf(vocab, rows, top) \in Seq(Ids(vocab))
           /\ Flat(Spelled(vocab, CodesOf(vocab, rows, top))) = FlatTo(rows)[top]
<1> DEFINE N == Len(rows)
           c(n) == CodesOf(vocab, rows, n)
           f == FlatTo(rows)
           Held == {n \in 0 .. N : Flat(Spelled(vocab, c(n))) = f[n]}
<1>1. /\ N \in Nat /\ vocab \in Seq(Token)
      /\ rows \in Seq(Seq(Byte)) /\ \A n \in 1 .. N : rows[n] \in ByteSeq
  BY LenProperties, ElementOfSeq DEF ByteSeq, Conforms
<1>2. /\ c(0) = <<>> /\ \A n \in 0 .. N : c(n) \in Seq(Ids(vocab))
      /\ \A n \in 1 .. N : c(n) = c(n - 1) \o Greedy(vocab, rows[n])
  BY CodesOfSteps
<1>3. f[0] = <<>> /\ \A n \in 1 .. N : f[n] = f[n - 1] \o rows[n]
  BY <1>1, FlatToSteps
<1> HIDE DEF c, f
<1>4. 0 \in Held
  <2>1. Spelled(vocab, <<>>) \in Seq(Seq(Byte)) /\ Len(Spelled(vocab, <<>>)) = 0
    <3>1. <<>> \in Seq(Ids(vocab)) /\ Len(<<>>) = 0
      OBVIOUS
    <3> QED
      BY <1>1, <3>1, SpelledType
  <2>2. FlatTo(Spelled(vocab, <<>>))[0] = <<>>
    BY <2>1, FlatToSteps
  <2>3. Flat(Spelled(vocab, c(0))) = f[0]
    BY <1>2, <1>3, <2>1, <2>2 DEF Flat
  <2> QED
    BY <1>1, <2>3
<1>5. ASSUME NEW n \in 0 .. N - 1, n \in Held
      PROVE  n + 1 \in Held
  <2> DEFINE m == n + 1
             g == Greedy(vocab, rows[m])
  <2>1. m \in 1 .. N /\ m - 1 = n /\ n \in 0 .. N /\ m \in 0 .. N
    BY <1>1
  <2> HIDE DEF m
  <2>2. c(m) = c(n) \o g /\ f[m] = f[n] \o rows[m] /\ c(n) \in Seq(Ids(vocab))
    BY <1>2, <1>3, <2>1
  <2>3. rows[m] \in ByteSeq
    BY <1>1, <2>1
  <2>4. g \in Seq(Ids(vocab)) /\ Flat(Spelled(vocab, g)) = rows[m]
    BY <2>3, GreedySpells
  <2> HIDE DEF g
  <2>5. /\ Spelled(vocab, c(n)) \in Seq(Seq(Byte)) /\ Len(Spelled(vocab, c(n))) = Len(c(n))
        /\ Spelled(vocab, g) \in Seq(Seq(Byte)) /\ Len(Spelled(vocab, g)) = Len(g)
    BY <1>1, <2>2, <2>4, SpelledType
  <2>6. Spelled(vocab, c(n) \o g) = Spelled(vocab, c(n)) \o Spelled(vocab, g)
    <3> DEFINE a == c(n)
               sa == Spelled(vocab, a)
               sg == Spelled(vocab, g)
               sc == Spelled(vocab, a \o g)
    <3>1. a \in Seq(Ids(vocab)) /\ g \in Seq(Ids(vocab)) /\ Len(a) \in Nat /\ Len(g) \in Nat
      BY <2>2, <2>4, LenProperties
    <3>2. sa \in Seq(Seq(Byte)) /\ sg \in Seq(Seq(Byte)) /\ Len(sa) = Len(a) /\ Len(sg) = Len(g)
      BY <2>5
    <3> HIDE DEF a
    <3>3. /\ Len(a \o g) = Len(a) + Len(g)
          /\ \A h \in 1 .. Len(a) + Len(g) :
                (a \o g)[h] = IF h <= Len(a) THEN a[h] ELSE g[h - Len(a)]
      BY <3>1, ConcatProperties
    <3>4. sc = [h \in 1 .. Len(a) + Len(g) |-> vocab[(a \o g)[h] + 1]]
      BY <3>3 DEF Spelled
    <3>5. \A h \in 1 .. Len(a) : sa[h] = vocab[a[h] + 1]
      BY DEF Spelled
    <3>6. \A h \in 1 .. Len(g) : sg[h] = vocab[g[h] + 1]
      BY DEF Spelled
    <3> HIDE DEF sa, sg, sc
    <3>7. /\ sa \o sg \in Seq(Seq(Byte)) /\ Len(sa \o sg) = Len(a) + Len(g)
          /\ \A h \in 1 .. Len(a) + Len(g) :
                (sa \o sg)[h] = IF h <= Len(a) THEN sa[h] ELSE sg[h - Len(a)]
      <4>1. /\ sa \o sg \in Seq(Seq(Byte)) /\ Len(sa \o sg) = Len(sa) + Len(sg)
            /\ \A h \in 1 .. Len(sa) + Len(sg) :
                (sa \o sg)[h] = IF h <= Len(sa) THEN sa[h] ELSE sg[h - Len(sa)]
        <5>1. sa \in Seq(Seq(Byte)) /\ sg \in Seq(Seq(Byte))
          BY <3>2
        <5> QED
          BY <5>1, ConcatProperties
      <4>2. Len(sa) = Len(a) /\ Len(sg) = Len(g)
        BY <3>2
      <4> QED
        BY <4>1, <4>2
    <3>8. \A h \in 1 .. Len(a) + Len(g) : sc[h] = (sa \o sg)[h]
      <4> TAKE h \in 1 .. Len(a) + Len(g)
      <4>1. CASE h <= Len(a)
        <5>1. h \in 1 .. Len(a)
          BY <3>1, <4>1
        <5> QED
          BY <3>3, <3>4, <3>5, <3>7, <4>1, <5>1
      <4>2. CASE ~(h <= Len(a))
        <5>1. h - Len(a) \in 1 .. Len(g)
          BY <3>1, <4>2
        <5> QED
          BY <3>3, <3>4, <3>6, <3>7, <4>2, <5>1
      <4> QED
        BY <4>1, <4>2
    <3>9. DOMAIN sc = 1 .. Len(a) + Len(g)
      BY <3>4
    <3>10. sa \o sg = [h \in 1 .. Len(a) + Len(g) |-> (sa \o sg)[h]]
      <4> DEFINE both == sa \o sg
      <4>1. both \in Seq(Seq(Byte)) /\ Len(both) = Len(a) + Len(g)
        BY <3>7
      <4> HIDE DEF both
      <4>2. both = [h \in 1 .. Len(both) |-> both[h]]
        BY <4>1
      <4> QED
        BY <4>1, <4>2 DEF both
    <3>11. sc = sa \o sg
      BY <3>4, <3>8, <3>9, <3>10
    <3> QED
      BY <3>11 DEF a, sa, sg, sc
  <2>7. Flat(Spelled(vocab, c(m))) = f[m]
    <3> DEFINE sa == Spelled(vocab, c(n))
               sg == Spelled(vocab, g)
    <3>1. sa \in Seq(Seq(Byte)) /\ sg \in Seq(Seq(Byte))
      BY <2>5
    <3>2. Flat(sa) = f[n] /\ Flat(sg) = rows[m]
      BY <1>5, <2>4
    <3>3. Spelled(vocab, c(m)) = sa \o sg
      BY <2>2, <2>6
    <3> HIDE DEF sa, sg
    <3>4. Flat(sa \o sg) = Flat(sa) \o Flat(sg)
      BY <3>1, FlatOfConcat
    <3> QED
      BY <2>2, <3>2, <3>3, <3>4
  <2>8. m \in Held
    BY <2>1, <2>7
  <2> QED
    BY <2>8 DEF m
<1> HIDE DEF Held
<1>6. \A n \in 0 .. N : n \in Held
  BY <1>1, <1>4, <1>5, UpwardInduction
<1> QED
  BY <1>2, <1>6 DEF Held, c, f

-----------------------------------------------------------------------------
(***************************************************************************)
(* Encoded columns.                                                        *)
(***************************************************************************)

\* A parser's dictionary holds its vocabulary: codes of the one decode to the
\* tokens of the other.
LEMMA ParserTyped ==
    ASSUME NEW p \in Parsers
    PROVE  /\ Conforms(p.vocab) /\ p.vocab \in Seq(Token)
           /\ p.dict \in Dictionaries
           /\ \A cs \in Seq(Ids(p.vocab)) :
                /\ cs \in Seq(Nat)
                /\ Decoded(p.dict, cs) = Spelled(p.vocab, cs)
                /\ \A j \in 1 .. Len(cs) : cs[j] < TokenCount(p.dict)
<1> DEFINE v == p.vocab
           d == p.dict
<1>1. /\ Conforms(v) /\ v \in Seq(Token) /\ d \in Dictionaries
      /\ v = [n \in 1 .. TokenCount(d) |-> TokenBytes(d, n - 1)]
  BY ColumnCodecAssumption DEF Conforms
<1>2. TokenCount(d) \in Nat
  <2>1. d.offsets \in Seq(Nat) /\ Len(d.offsets) >= 1
    BY <1>1, DecoderAssumption DEF Readable
  <2> QED
    BY <2>1, LenProperties DEF TokenCount
<1> HIDE DEF v, d
<1>3. Len(v) = TokenCount(d)
  <2> DEFINE c == TokenCount(d)
             t(n) == TokenBytes(d, n - 1)
  <2>1. v = [n \in 1 .. c |-> t(n)] /\ c \in Nat /\ v \in Seq(Token)
    BY <1>1, <1>2
  <2> HIDE DEF c, t
  <2>2. DOMAIN v = 1 .. c
    BY <2>1
  <2> QED
    BY <2>1, <2>2, LenProperties DEF c
<1>4. ASSUME NEW cs \in Seq(Ids(v))
      PROVE  /\ cs \in Seq(Nat)
             /\ Decoded(d, cs) = Spelled(v, cs)
             /\ \A j \in 1 .. Len(cs) : cs[j] < TokenCount(d)
  <2>1. \A j \in 1 .. Len(cs) : cs[j] \in Ids(v)
    BY ElementOfSeq
  <2>2. \A j \in 1 .. Len(cs) :
            /\ cs[j] \in Nat /\ cs[j] < TokenCount(d)
            /\ cs[j] + 1 \in 1 .. TokenCount(d) /\ cs[j] + 1 - 1 = cs[j]
    BY <1>2, <1>3, <2>1 DEF Ids
  <2>3. cs \in Seq(Nat)
    <3>1. Ids(v) \subseteq Nat
      BY <1>2, <1>3 DEF Ids
    <3> QED
      BY <3>1
  <2>4. \A j \in 1 .. Len(cs) : v[cs[j] + 1] = TokenBytes(d, cs[j])
    BY <1>1, <2>2
  <2> QED
    BY <2>2, <2>3, <2>4 DEF Decoded, Spelled
<1> QED
  BY <1>1, <1>4 DEF v, d

\* The codes of rows a + 1 up to b, between the ends of rows a and b.
Window(vocab, rows, a, b) ==
    SubSeq(CodesOf(vocab, rows, Len(rows)),
           Len(CodesOf(vocab, rows, a)) + 1, Len(CodesOf(vocab, rows, b)))

\* They stand for the bytes of those rows.
LEMMA WindowSpells ==
    ASSUME NEW vocab, Conforms(vocab), NEW rows \in Seq(ByteSeq),
           NEW a \in 0 .. Len(rows), NEW b \in a .. Len(rows)
    PROVE  LET rest == SubSeq(rows, a + 1, Len(rows))
           IN  /\ Window(vocab, rows, a, b) \in Seq(Ids(vocab))
               /\ Flat(Spelled(vocab, Window(vocab, rows, a, b))) = FlatTo(rest)[b - a]
               /\ rest \in Seq(ByteSeq) /\ Len(rest) = Len(rows) - a
               /\ \A n \in 1 .. b - a : rest[n] = rows[a + n]
<1> DEFINE N == Len(rows)
           rest == SubSeq(rows, a + 1, N)
           n == b - a
           A == CodesOf(vocab, rows, a)
           B == CodesOf(vocab, rows, b)
           C == CodesOf(vocab, rows, N)
           X == CodesOf(vocab, rest, n)
<1>1. N \in Nat /\ a \in Nat /\ b \in Nat /\ a <= b /\ b <= N /\ n \in 0 .. N - a /\ a + n = b
      /\ b \in 0 .. N /\ N \in b .. Len(rows) /\ N \in a .. Len(rows) /\ N \in 0 .. N
  BY LenProperties
<1>2. /\ rest \in Seq(ByteSeq) /\ Len(rest) = N - a
      /\ \A h \in 1 .. N - a : rest[h] = rows[a + h]
  BY <1>1, MiddlePiece
<1> HIDE DEF N, n
<1>3. A \o X = B
  <2>1. A \o X = CodesOf(vocab, rows, a + n)
    BY <1>1, CodesOfRest DEF N
  <2> QED
    BY <1>1, <2>1
<1> HIDE DEF rest
<1>4. X \in Seq(Ids(vocab)) /\ Flat(Spelled(vocab, X)) = FlatTo(rest)[n]
  <2>1. n \in 0 .. Len(rest)
    BY <1>1, <1>2
  <2> QED
    BY <1>2, <2>1, CodesOfSpells
<1>5. /\ A \in Seq(Ids(vocab)) /\ B \in Seq(Ids(vocab)) /\ C \in Seq(Ids(vocab))
      /\ Len(A) \in Nat /\ Len(B) \in Nat /\ Len(C) \in Nat /\ Len(X) \in Nat
  <2>1. A \in Seq(Ids(vocab)) /\ B \in Seq(Ids(vocab)) /\ C \in Seq(Ids(vocab))
    BY <1>1, CodesOfSteps DEF N
  <2> QED
    BY <1>4, <2>1, LenProperties
<1>6. StartsAt(C, 0, B)
  BY <1>1, CodesOfBegins DEF N
<1> HIDE DEF A, B, C, X
<1>7. Len(B) = Len(A) + Len(X) /\ \A h \in 1 .. Len(X) : B[Len(A) + h] = X[h]
  <2>1. /\ Len(A \o X) = Len(A) + Len(X)
        /\ \A h \in 1 .. Len(A) + Len(X) :
              (A \o X)[h] = IF h <= Len(A) THEN A[h] ELSE X[h - Len(A)]
    BY <1>4, <1>5, ConcatProperties
  <2>2. \A h \in 1 .. Len(X) : /\ Len(A) + h \in 1 .. Len(A) + Len(X)
                               /\ ~(Len(A) + h <= Len(A)) /\ Len(A) + h - Len(A) = h
    BY <1>5
  <2> QED
    BY <1>3, <2>1, <2>2
<1>8. Len(B) <= Len(C) /\ \A h \in 1 .. Len(B) : C[h] = B[h]
  BY <1>5, <1>6 DEF StartsAt
<1> DEFINE W == SubSeq(C, Len(A) + 1, Len(B))
<1>9. W \in Seq(Ids(vocab)) /\ Len(W) = Len(X) /\ \A h \in 1 .. Len(X) : W[h] = C[Len(A) + h]
  <2> DEFINE la == Len(A)
             lb == Len(B)
  <2>1. la \in 0 .. Len(C) /\ lb \in la .. Len(C) /\ lb - la = Len(X)
    BY <1>5, <1>7, <1>8
  <2>2. W = SubSeq(C, la + 1, lb)
    OBVIOUS
  <2> HIDE DEF la, lb, W
  <2>3. W \in Seq(Ids(vocab)) /\ Len(W) = lb - la /\ \A h \in 1 .. lb - la : W[h] = C[la + h]
    BY <1>5, <2>1, <2>2, MiddlePiece
  <2> QED
    BY <2>1, <2>3 DEF la
<1>10. \A h \in 1 .. Len(X) : W[h] = X[h]
  <2> HIDE DEF W
  <2>1. \A h \in 1 .. Len(X) : Len(A) + h \in 1 .. Len(B)
    BY <1>5, <1>7
  <2> QED
    BY <1>7, <1>8, <1>9, <2>1
<1>11. W = X
  <2> HIDE DEF W
  <2> QED
    BY <1>4, <1>9, <1>10, SeqEqual
<1>12. Window(vocab, rows, a, b) = X
  BY <1>11 DEF Window, A, B, C, N
<1>13. \A h \in 1 .. b - a : rest[h] = rows[a + h]
  <2>1. \A h \in 1 .. b - a : h \in 1 .. N - a
    BY <1>1
  <2> QED
    BY <1>2, <2>1
<1>14. SubSeq(rows, a + 1, Len(rows)) = rest
  BY DEF rest, N
<1> QED
  BY <1>2, <1>4, <1>12, <1>13, <1>14 DEF n, N

\* What parse leaves in the buffers.
LEMMA EncodedIs ==
    ASSUME NEW p \in Parsers, NEW rows \in Seq(ByteSeq), NEW buffers
    PROVE  LET c == Encoded(p, rows, Cleared(buffers))
               ends(n) == Len(CodesOf(p.vocab, rows, n))
           IN  /\ c.dict = p.dict
               /\ c.codes = CodesOf(p.vocab, rows, Len(rows))
               /\ c.codes \in Seq(Ids(p.vocab)) /\ Len(c.codes) \in Nat
               /\ c.rowOffsets \in Seq(Nat) /\ Len(c.rowOffsets) = Len(rows) + 1
               /\ NumRows(c) = Len(rows)
               /\ Len(c.codes) < OffsetLimit =>
                    \A n \in 0 .. Len(rows) : c.rowOffsets[n + 1] = ends(n)
<1> DEFINE c == Encoded(p, rows, Cleared(buffers))
           N == Len(rows)
           ends(n) == Len(CodesOf(p.vocab, rows, n))
           all == CodesOf(p.vocab, rows, N)
           offsets == OffsetsOf(p.vocab, rows, N)
           tail == [n \in 1 .. N |-> FromUsize(0 + offsets[n + 1])]
<1>1. /\ N \in Nat /\ Conforms(p.vocab) /\ OffsetLimit \in Nat \ {0}
      /\ N \in 0 .. N
  BY ParserTyped, LenProperties, ColumnCodecAssumption
<1>2. \A n \in 0 .. N : /\ CodesOf(p.vocab, rows, n) \in Seq(Ids(p.vocab))
                        /\ ends(n) \in Nat
  <2>1. \A n \in 0 .. N : CodesOf(p.vocab, rows, n) \in Seq(Ids(p.vocab))
    BY <1>1, CodesOfSteps
  <2> QED
    BY <2>1, LenProperties
<1>3. \A n \in 0 .. N : ends(n) <= ends(N)
  <2> TAKE n \in 0 .. N
  <2>1. N \in n .. Len(rows)
    BY <1>1
  <2> QED
    BY <1>1, <2>1, CodesOfBegins
<1>4. all \in Seq(Ids(p.vocab)) /\ Len(all) \in Nat /\ Len(all) = ends(N)
  BY <1>1, <1>2
<1>5. ends(0) = 0
  <2>1. CodesOf(p.vocab, rows, 0) = <<>>
    BY <1>1, CodesOfSteps
  <2> QED
    BY <2>1
<1>6. c = [dict |-> p.dict, codes |-> <<>> \o all, rowOffsets |-> <<0>> \o tail]
  BY DEF Encoded, Cleared
<1>7. <<>> \o all = all
  BY <1>4
<1>8. \A n \in 1 .. N : offsets[n + 1] = ends(n)
  <2> TAKE n \in 1 .. N
  <2>1. n + 1 \in 1 .. N + 1 /\ n + 1 - 1 = n
    BY <1>1
  <2> QED
    BY <2>1 DEF OffsetsOf
<1> HIDE DEF all, ends, offsets
<1>9. \A n \in 1 .. N : /\ tail[n] = ends(n) % OffsetLimit /\ tail[n] \in Nat
                        /\ ends(N) < OffsetLimit => tail[n] = ends(n)
  <2> TAKE n \in 1 .. N
  <2>1. ends(n) \in Nat /\ ends(N) \in Nat /\ ends(n) <= ends(N)
    <3>1. n \in 0 .. N
      BY <1>1
    <3> QED
      BY <1>1, <1>2, <1>3, <3>1
  <2>2. tail[n] = ends(n) % OffsetLimit
    BY <1>8, <2>1 DEF FromUsize
  <2> DEFINE e == ends(n)
             last == ends(N)
             L == OffsetLimit
  <2>3. e \in Nat /\ last \in Nat /\ e <= last /\ L \in Nat \ {0}
    BY <1>1, <2>1
  <2> HIDE DEF e, last, L
  <2>4. e % L \in Nat /\ (last < L => e % L = e)
    BY <2>3
  <2> QED
    BY <2>2, <2>4 DEF e, last, L
<1>10. tail \in Seq(Nat) /\ Len(tail) = N
  BY <1>1, <1>9
<1> HIDE DEF tail
<1>11. /\ <<0>> \o tail \in Seq(Nat) /\ Len(<<0>> \o tail) = N + 1
       /\ (<<0>> \o tail)[1] = 0
       /\ \A n \in 1 .. N : (<<0>> \o tail)[n + 1] = tail[n]
  <2>1. 0 \in Nat
    OBVIOUS
  <2> QED
    BY <1>10, <2>1, HeadOfConcat
<1>12. /\ c.dict = p.dict /\ c.codes = all /\ c.rowOffsets = <<0>> \o tail
  BY <1>6, <1>7
<1> HIDE DEF c
<1>13. NumRows(c) = N
  <2>1. c.rowOffsets # <<>>
    BY <1>1, <1>11, <1>12
  <2>2. Len(c.rowOffsets) - 1 = N
    BY <1>1, <1>11, <1>12
  <2> QED
    BY <2>1, <2>2 DEF NumRows
<1>14. Len(c.codes) < OffsetLimit =>
          \A n \in 0 .. N : c.rowOffsets[n + 1] = ends(n)
  <2> SUFFICES ASSUME Len(c.codes) < OffsetLimit, NEW n \in 0 .. N
               PROVE  c.rowOffsets[n + 1] = ends(n)
    OBVIOUS
  <2>1. CASE n = 0
    BY <1>5, <1>11, <1>12, <2>1
  <2>2. CASE n # 0
    <3>1. n \in 1 .. N
      BY <2>2
    <3> QED
      BY <1>4, <1>9, <1>11, <1>12, <3>1
  <2> QED
    BY <2>1, <2>2
<1> QED
  BY <1>4, <1>11, <1>12, <1>13, <1>14 DEF c, all, ends

\* Neighbouring slices make one.
LEMMA SlicesJoin ==
    ASSUME NEW s \in ByteSeq, NEW x \in Nat, NEW y \in Nat, NEW z \in Nat,
           x <= y, y <= z, z <= Len(s)
    PROVE  Slice(s, x, y) \o Slice(s, y, z) = Slice(s, x, z)
<1> DEFINE a == Slice(s, x, y)
           b == Slice(s, y, z)
           c == Slice(s, x, z)
<1>0. Len(s) \in Nat /\ x <= z /\ y <= Len(s)
  BY LenProperties DEF ByteSeq
<1>1. /\ a \in ByteSeq /\ Len(a) = y - x /\ \A k \in 1 .. y - x : a[k] = s[x + k]
  BY <1>0, SliceProperties
<1>2. /\ b \in ByteSeq /\ Len(b) = z - y /\ \A k \in 1 .. z - y : b[k] = s[y + k]
  BY <1>0, SliceProperties
<1>3. /\ c \in ByteSeq /\ Len(c) = z - x /\ \A k \in 1 .. z - x : c[k] = s[x + k]
  BY <1>0, SliceProperties
<1> HIDE DEF a, b, c
<1> DEFINE ab == a \o b
<1>4. /\ ab \in ByteSeq /\ Len(ab) = Len(a) + Len(b)
      /\ \A k \in 1 .. Len(a) + Len(b) : ab[k] = IF k <= Len(a) THEN a[k] ELSE b[k - Len(a)]
  <2>1. a \in Seq(Byte) /\ b \in Seq(Byte)
    BY <1>1, <1>2 DEF ByteSeq
  <2> QED
    BY <2>1, ConcatProperties DEF ByteSeq
<1> HIDE DEF ab
<1>5. Len(a) + Len(b) = z - x
  BY <1>1, <1>2
<1>6. \A k \in 1 .. z - x : ab[k] = c[k]
  <2> TAKE k \in 1 .. z - x
  <2>1. CASE k <= y - x
    <3>1. k \in 1 .. y - x
      BY <2>1
    <3> QED
      BY <1>1, <1>3, <1>4, <1>5, <2>1, <3>1
  <2>2. CASE ~(k <= y - x)
    <3> DEFINE m == k - (y - x)
    <3>1. m \in 1 .. z - y /\ y + m = x + k
      BY <2>2
    <3>2. ab[k] = b[m]
      BY <1>1, <1>4, <1>5, <2>2
    <3> HIDE DEF m
    <3> QED
      BY <1>2, <1>3, <3>1, <3>2
  <2> QED
    BY <2>1, <2>2
<1>7. ab = c
  <2>1. ab \in Seq(Byte) /\ c \in Seq(Byte) /\ Len(ab) = Len(c)
    BY <1>3, <1>4, <1>5 DEF ByteSeq
  <2> QED
    BY <1>3, <1>6, <2>1, SeqEqual
<1> QED
  BY <1>7 DEF ab, a, b, c

\* An array whose offsets ascend and do not pass its bytes.
WellFormed(a) ==
    /\ a.bytes \in ByteSeq /\ a.offsets \in Seq(Nat) /\ a.offsets # <<>>
    /\ Ascending(a.offsets)
    /\ a.offsets[Len(a.offsets)] <= Len(a.bytes)

\* Its rows, and the bytes of some of them that follow each other.
LEMMA ArrayRows ==
    ASSUME NEW arr, WellFormed(arr)
    PROVE  /\ Len(arr.offsets) - 1 \in Nat /\ Len(arr.bytes) \in Nat
           /\ RowsOf(arr) \in Seq(ByteSeq)
           /\ Len(RowsOf(arr)) = Len(arr.offsets) - 1
           /\ \A n \in 1 .. Len(arr.offsets) - 1 :
                RowsOf(arr)[n] = Slice(arr.bytes, arr.offsets[n], arr.offsets[n + 1])
           /\ \A n \in 1 .. Len(arr.offsets) :
                arr.offsets[n] \in Nat /\ arr.offsets[n] <= Len(arr.bytes)
           /\ \A m, n \in 1 .. Len(arr.offsets) : m <= n => arr.offsets[m] <= arr.offsets[n]
<1> DEFINE o == arr.offsets
           N == Len(o) - 1
<1>1. arr.bytes \in ByteSeq /\ o \in Seq(Nat) /\ o # <<>>
      /\ (\A m, n \in 1 .. Len(o) : m < n => o[m] <= o[n]) /\ o[Len(o)] <= Len(arr.bytes)
  BY DEF WellFormed, Ascending
<1>2. Len(o) \in Nat \ {0} /\ Len(arr.bytes) \in Nat /\ N \in Nat
  <2>1. Len(o) \in Nat /\ Len(arr.bytes) \in Nat
    BY <1>1, LenProperties DEF ByteSeq
  <2>2. Len(o) # 0
    BY <1>1
  <2> QED
    BY <2>1, <2>2
<1>3. \A n \in 1 .. Len(o) : o[n] \in Nat
  BY <1>1, ElementOfSeq
<1>4. \A m, n \in 1 .. Len(o) : m <= n => o[m] <= o[n]
  <2> SUFFICES ASSUME NEW m \in 1 .. Len(o), NEW n \in 1 .. Len(o), m <= n
               PROVE  o[m] <= o[n]
    OBVIOUS
  <2>1. CASE m = n
    <3>1. o[m] \in Nat
      BY <1>3
    <3> HIDE DEF o
    <3> QED
      BY <2>1, <3>1
  <2>2. CASE m # n
    <3>1. m < n
      BY <1>2, <2>2
    <3> QED
      BY <1>1, <3>1
  <2> QED
    BY <2>1, <2>2
<1>5. \A n \in 1 .. Len(o) : o[n] <= Len(arr.bytes)
  <2> TAKE n \in 1 .. Len(o)
  <2>1. Len(o) \in 1 .. Len(o) /\ n <= Len(o)
    BY <1>2
  <2>2. o[n] <= o[Len(o)] /\ o[n] \in Nat /\ o[Len(o)] \in Nat
    BY <1>3, <1>4, <2>1
  <2> QED
    BY <1>1, <1>2, <2>2
<1>6. \A n \in 1 .. N : Slice(arr.bytes, o[n], o[n + 1]) \in ByteSeq
  <2> TAKE n \in 1 .. N
  <2>1. n \in 1 .. Len(o) /\ n + 1 \in 1 .. Len(o) /\ n <= n + 1
    BY <1>2
  <2>2. o[n] \in Nat /\ o[n + 1] \in Nat /\ o[n] <= o[n + 1] /\ o[n + 1] <= Len(arr.bytes)
    BY <1>3, <1>4, <1>5, <2>1
  <2> QED
    BY <1>1, <2>2, SliceProperties
<1>7. RowsOf(arr) = [n \in 1 .. N |-> Slice(arr.bytes, o[n], o[n + 1])]
  BY DEF RowsOf, Row
<1>8. RowsOf(arr) \in [1 .. N -> ByteSeq]
  BY <1>6, <1>7
<1>9. RowsOf(arr) \in Seq(ByteSeq) /\ Len(RowsOf(arr)) = N
  <2> DEFINE r == RowsOf(arr)
  <2>1. r \in [1 .. N -> ByteSeq]
    BY <1>8
  <2> HIDE DEF r, N
  <2> QED
    BY <1>2, <2>1 DEF r
<1> QED
  BY <1>2, <1>3, <1>4, <1>5, <1>7, <1>9

LEMMA ArrayWindow ==
    ASSUME NEW arr, WellFormed(arr), NEW a \in 0 .. Len(RowsOf(arr)), NEW b \in a .. Len(RowsOf(arr)),
           NEW rest \in Seq(ByteSeq), Len(rest) = Len(RowsOf(arr)) - a,
           \A n \in 1 .. b - a : rest[n] = RowsOf(arr)[a + n]
    PROVE  FlatTo(rest)[b - a] = Slice(arr.bytes, arr.offsets[a + 1], arr.offsets[b + 1])
<1> DEFINE o == arr.offsets
           s == arr.bytes
           N == Len(RowsOf(arr))
           f == FlatTo(rest)
           top == b - a
           Same == {n \in 0 .. top : f[n] = Slice(s, o[a + 1], o[a + n + 1])}
<1>1. /\ N \in Nat /\ a \in Nat /\ b \in Nat /\ top \in Nat /\ a + top = b /\ top <= N - a
      /\ a <= b /\ b <= N /\ Len(o) = N + 1 /\ s \in ByteSeq /\ Len(s) \in Nat
  <2>1. N \in Nat /\ Len(o) = N + 1 /\ s \in ByteSeq /\ Len(s) \in Nat
    <3>1. Len(o) - 1 \in Nat /\ N = Len(o) - 1 /\ Len(s) \in Nat
      BY ArrayRows
    <3>2. Len(o) \in Nat
      BY LenProperties DEF WellFormed
    <3> HIDE DEF N, o
    <3> QED
      BY <3>1, <3>2 DEF WellFormed
  <2> HIDE DEF N
  <2>2. a \in Nat /\ b \in Nat /\ a <= b /\ b <= N
    BY <2>1 DEF N
  <2> QED
    BY <2>1, <2>2
<1>2. /\ \A n \in 1 .. N : RowsOf(arr)[n] = Slice(s, o[n], o[n + 1])
      /\ \A n \in 1 .. N + 1 : o[n] \in Nat /\ o[n] <= Len(s)
      /\ \A m, n \in 1 .. N + 1 : m <= n => o[m] <= o[n]
  <2>1. Len(o) = N + 1 /\ Len(o) - 1 = N
    BY <1>1
  <2> HIDE DEF N
  <2> QED
    BY <2>1, ArrayRows
<1>3. \A n \in 1 .. top : rest[n] = RowsOf(arr)[a + n]
  OBVIOUS
<1>4. /\ f[0] = <<>>
      /\ \A n \in 1 .. top : f[n] = f[n - 1] \o rest[n]
  <2>1. rest \in Seq(Seq(Byte))
    BY DEF ByteSeq
  <2>2. \A n \in 1 .. top : n \in 1 .. Len(rest)
    BY <1>1
  <2> QED
    BY <2>1, <2>2, FlatToSteps
<1> HIDE DEF N, f, top, o, s
<1>5. 0 \in Same
  <2>1. a + 0 + 1 = a + 1 /\ a + 1 \in 1 .. N + 1
    BY <1>1
  <2>2. o[a + 1] \in Nat
    BY <1>2, <2>1
  <2>3. Slice(s, o[a + 1], o[a + 1]) = <<>>
    <3> DEFINE x == o[a + 1]
    <3>1. 1 .. x - x = {}
      BY <2>2
    <3> HIDE DEF x
    <3>2. Slice(s, x, x) = <<>>
      BY <3>1 DEF Slice
    <3> QED
      BY <3>2 DEF x
  <2> QED
    BY <1>1, <1>4, <2>1, <2>3
<1>6. ASSUME NEW n \in 0 .. top - 1, n \in Same
      PROVE  n + 1 \in Same
  <2> DEFINE m == n + 1
             h == a + 1
             j == a + n + 1
             k == a + m + 1
  <2>1. /\ m \in 1 .. top /\ m - 1 = n /\ a + m = j /\ k = j + 1 /\ h <= j /\ j <= k
        /\ h \in 1 .. N + 1 /\ j \in 1 .. N /\ j \in 1 .. N + 1 /\ k \in 1 .. N + 1
    BY <1>1
  <2>2. f[n] = Slice(s, o[h], o[j])
    BY <1>6
  <2> HIDE DEF m, h, j, k
  <2>3. rest[m] = Slice(s, o[j], o[k])
    BY <1>2, <1>3, <2>1
  <2>4. f[m] = f[n] \o rest[m]
    BY <1>4, <2>1
  <2>5. o[h] \in Nat /\ o[j] \in Nat /\ o[k] \in Nat /\ o[k] <= Len(s)
        /\ o[h] <= o[j] /\ o[j] <= o[k]
    BY <1>2, <2>1
  <2>6. Slice(s, o[h], o[j]) \o Slice(s, o[j], o[k]) = Slice(s, o[h], o[k])
    <3> DEFINE x == o[h]
               y == o[j]
               z == o[k]
    <3>1. x \in Nat /\ y \in Nat /\ z \in Nat /\ z <= Len(s) /\ x <= y /\ y <= z
      BY <2>5
    <3>2. s \in ByteSeq
      BY <1>1
    <3> HIDE DEF x, y, z
    <3>3. Slice(s, x, y) \o Slice(s, y, z) = Slice(s, x, z)
      BY <3>1, <3>2, SlicesJoin
    <3> QED
      BY <3>3 DEF x, y, z
  <2>7. f[m] = Slice(s, o[h], o[k])
    BY <2>2, <2>3, <2>4, <2>6
  <2>8. m \in 0 .. top
    BY <1>1, <2>1
  <2> QED
    BY <2>7, <2>8 DEF m, h, k
<1> HIDE DEF Same
<1>7. \A n \in 0 .. top : n \in Same
  BY <1>1, <1>5, <1>6, UpwardInduction
<1>8. top \in Same
  BY <1>1, <1>7
<1>9. f[top] = Slice(s, o[a + 1], o[b + 1])
  BY <1>1, <1>8 DEF Same
<1> QED
  BY <1>9 DEF f, s, o, top

\* A list of rows, laid out by parse_rows as an array.
LEMMA ListAsArray ==
    ASSUME NEW rows \in Seq(ByteSeq)
    PROVE  LET arr == [bytes |-> Flat(rows),
                       offsets |-> [n \in 1 .. Len(rows) + 1 |-> ByteCount(rows, n - 1)]]
           IN  WellFormed(arr) /\ RowsOf(arr) = rows
<1> DEFINE N == Len(rows)
           s == Flat(rows)
           o == [n \in 1 .. N + 1 |-> ByteCount(rows, n - 1)]
           arr == [bytes |-> s, offsets |-> o]
<1>1. N \in Nat /\ rows \in Seq(Seq(Byte)) /\ \A n \in 1 .. N : rows[n] \in ByteSeq
  BY LenProperties, ElementOfSeq DEF ByteSeq
<1>2. s \in ByteSeq /\ s = FlatTo(rows)[N] /\ Len(s) = ByteCount(rows, N) /\ Len(s) \in Nat
  <2>1. N \in 0 .. Len(rows)
    BY <1>1
  <2>2. s = FlatTo(rows)[N] /\ s \in Seq(Byte)
    BY <1>1, <2>1, FlatToSteps DEF Flat
  <2>3. Len(FlatTo(rows)[N]) = ByteCount(rows, N)
    BY <2>1, FlatToLength
  <2> QED
    BY <2>2, <2>3, LenProperties DEF ByteSeq
<1>3. \A n \in 0 .. N : ByteCount(rows, n) \in Nat
  BY ByteCountSteps
<1>4. \A n \in 1 .. N + 1 : o[n] = ByteCount(rows, n - 1) /\ n - 1 \in 0 .. N
  BY <1>1
<1>5. o \in Seq(Nat) /\ Len(o) = N + 1
  <2>1. \A n \in 1 .. N + 1 : o[n] \in Nat
    BY <1>3, <1>4
  <2>2. o \in [1 .. N + 1 -> Nat]
    BY <2>1
  <2> DEFINE M == N + 1
  <2>3. M \in Nat /\ o \in [1 .. M -> Nat]
    BY <1>1, <2>2
  <2> HIDE DEF M, o
  <2> QED
    BY <2>3 DEF M
<1> HIDE DEF o, s, N
<1>6. \A m, n \in 1 .. N + 1 : m < n => o[m] <= o[n]
  <2> SUFFICES ASSUME NEW m \in 1 .. N + 1, NEW n \in 1 .. N + 1, m < n
               PROVE  o[m] <= o[n]
    OBVIOUS
  <2> DEFINE x == m - 1
             y == n - 1
  <2>1. x \in 0 .. N /\ y \in x .. N
    BY <1>1
  <2>2. o[m] = ByteCount(rows, x) /\ o[n] = ByteCount(rows, y)
    BY <1>4
  <2> HIDE DEF x, y
  <2> QED
    BY <2>1, <2>2, ByteCountMonotone DEF N
<1>7. WellFormed(arr)
  <2>1. o # <<>>
    BY <1>1, <1>5
  <2>2. o[Len(o)] = ByteCount(rows, N)
    <3> DEFINE M == N + 1
    <3>1. M \in 1 .. N + 1 /\ M - 1 = N /\ Len(o) = M
      BY <1>1, <1>5
    <3> HIDE DEF M
    <3> QED
      BY <1>4, <3>1
  <2>3. o[Len(o)] <= Len(s)
    BY <1>2, <2>2
  <2>4. Ascending(o)
    BY <1>5, <1>6 DEF Ascending
  <2> QED
    BY <1>2, <1>5, <2>1, <2>3, <2>4 DEF WellFormed
<1>8. \A n \in 1 .. N : Slice(s, o[n], o[n + 1]) = rows[n]
  <2> TAKE n \in 1 .. N
  <2> DEFINE x == o[n]
             y == o[n + 1]
             m == n + 1
             r == rows[n]
  <2>1. n \in 1 .. N + 1 /\ m \in 1 .. N + 1 /\ m - 1 = n
    BY <1>1
  <2>2. x = ByteCount(rows, n - 1) /\ y = ByteCount(rows, n) /\ n - 1 \in 0 .. N
    BY <1>4, <2>1
  <2>3. y = x + Len(r) /\ x \in Nat
    BY <1>3, <2>2, ByteCountSteps DEF N
  <2>4. Len(FlatTo(rows)[n - 1]) = x
    <3>1. n - 1 \in 0 .. Len(rows)
      BY <2>2 DEF N
    <3> QED
      BY <2>2, <3>1, FlatToLength
  <2>5. StartsAt(s, x, r)
    <3>1. n \in 1 .. Len(rows) /\ N \in n .. Len(rows)
      BY <1>1 DEF N
    <3>2. StartsAt(FlatTo(rows)[N], Len(FlatTo(rows)[n - 1]), rows[n])
      BY <1>1, <3>1, PiecesOfFlat
    <3> QED
      BY <1>2, <2>4, <3>2
  <2>6. r \in Seq(Byte) /\ Len(r) \in Nat
    BY <1>1, LenProperties DEF ByteSeq
  <2> HIDE DEF x, y, r
  <2>7. x <= y /\ y <= Len(s) /\ y \in Nat /\ y - x = Len(r)
        /\ \A k \in 1 .. Len(r) : s[x + k] = r[k]
    BY <2>3, <2>5, <2>6 DEF StartsAt
  <2>8. /\ Slice(s, x, y) \in ByteSeq /\ Len(Slice(s, x, y)) = Len(r)
        /\ \A k \in 1 .. Len(r) : Slice(s, x, y)[k] = r[k]
    <3>1. s \in ByteSeq /\ x \in Nat /\ y \in Nat /\ x <= y /\ y <= Len(s)
      BY <1>2, <2>3, <2>7
    <3>2. /\ Slice(s, x, y) \in ByteSeq /\ Len(Slice(s, x, y)) = y - x
          /\ \A k \in 1 .. y - x : Slice(s, x, y)[k] = s[x + k]
      BY <3>1, SliceProperties
    <3> QED
      BY <2>7, <3>2
  <2>9. Slice(s, x, y) = r
    BY <2>6, <2>8, SeqEqual DEF ByteSeq
  <2> QED
    BY <2>9 DEF x, y, r
<1>9. RowsOf(arr) = rows
  <2>1. RowsOf(arr) = [n \in 1 .. Len(o) - 1 |-> Slice(s, o[n], o[n + 1])]
    BY DEF RowsOf, Row
  <2>2. Len(o) - 1 = N
    BY <1>1, <1>5
  <2>3. RowsOf(arr) = [n \in 1 .. N |-> rows[n]]
    BY <1>8, <2>1, <2>2
  <2>4. rows = [n \in 1 .. N |-> rows[n]]
    BY DEF N
  <2> QED
    BY <2>3, <2>4
<1> QED
  BY <1>7, <1>9 DEF arr, s, o, N

-----------------------------------------------------------------------------
(***************************************************************************)
(* The round trip.                                                         *)
(***************************************************************************)

\* The column is what some parser made of the input's rows, or no parser has
\* filled it yet.
EncodedBy(p) == column = Encoded(p, RowsOf(input), Cleared(Empty))

Unfilled ==
    /\ column.dict \in Dictionaries /\ column.codes = <<>> /\ column.rowOffsets = <<>>
    /\ input = [bytes |-> <<>>, offsets |-> <<0>>]

ColumnInv == WellFormed(input) /\ (Unfilled \/ \E p \in Parsers : EncodedBy(p))

\* The codes being decoded are those of the rows asked for.
AnswerInv ==
    /\ answer = "ok" /\ Addressable =>
        /\ Flat(Decoded(dict, codes)) = Wanted
        /\ \A j \in 1 .. Len(codes) : InRange(codes[j])
    /\ answer = "panic" /\ Addressable => asked[1] = NumRows(column)

CodecInv == IInv /\ ColumnInv /\ AnswerInv

LEMMA ColumnTyped ==
    ASSUME ColumnInv
    PROVE  /\ column.dict \in Dictionaries
           /\ column.codes \in Seq(Nat) /\ Len(column.codes) \in Nat
           /\ column.rowOffsets \in Seq(Nat)
           /\ NumRows(column) = Len(RowsOf(input)) /\ NumRows(column) \in Nat
           /\ NumRows(column) # 0 => Len(column.rowOffsets) = NumRows(column) + 1
<1>1. RowsOf(input) \in Seq(ByteSeq) /\ Len(RowsOf(input)) = Len(input.offsets) - 1
  BY ArrayRows DEF ColumnInv
<1>2. CASE Unfilled
  <2>1. Len(input.offsets) = 1
    BY <1>2 DEF Unfilled
  <2>2. Len(column.codes) = 0 /\ NumRows(column) = 0
    BY <1>2 DEF Unfilled, NumRows
  <2> QED
    BY <1>1, <1>2, <2>1, <2>2 DEF Unfilled
<1>3. CASE \E p \in Parsers : EncodedBy(p)
  <2>1. PICK p \in Parsers : EncodedBy(p)
    BY <1>3
  <2> DEFINE rows == RowsOf(input)
             c == Encoded(p, rows, Cleared(Empty))
  <2>2. column = c
    BY <2>1 DEF EncodedBy
  <2>3. rows \in Seq(ByteSeq)
    BY <1>1
  <2> HIDE DEF rows
  <2>4. /\ c.dict = p.dict /\ c.codes \in Seq(Ids(p.vocab)) /\ Len(c.codes) \in Nat
        /\ c.rowOffsets \in Seq(Nat) /\ Len(c.rowOffsets) = Len(rows) + 1
        /\ NumRows(c) = Len(rows)
    BY <2>3, EncodedIs
  <2> HIDE DEF c
  <2>5. c.codes \in Seq(Nat) /\ p.dict \in Dictionaries
    BY <2>4, ParserTyped
  <2>6. Len(rows) \in Nat
    BY <2>3, LenProperties
  <2> QED
    BY <2>2, <2>4, <2>5, <2>6 DEF rows
<1> QED
  BY <1>2, <1>3 DEF ColumnInv

\* Offsets as wide as the input's always suffice: no code stands for less than
\* one byte.
LEMMA CodesFit ==
    ASSUME ColumnInv
    PROVE  Len(column.codes) <= Len(input.bytes)
<1> DEFINE rows == RowsOf(input)
           N == Len(rows)
           o == input.offsets
<1>1. /\ WellFormed(input) /\ rows \in Seq(ByteSeq) /\ N \in Nat /\ Len(o) = N + 1
      /\ Len(input.bytes) \in Nat
      /\ \A n \in 1 .. N + 1 : o[n] \in Nat /\ o[n] <= Len(input.bytes)
      /\ \A m, n \in 1 .. N + 1 : m <= n => o[m] <= o[n]
  <2>1. WellFormed(input)
    BY DEF ColumnInv
  <2>2. Len(o) \in Nat
    BY <2>1, LenProperties DEF WellFormed
  <2>3. /\ N \in Nat /\ N = Len(o) - 1
    BY <2>1, ArrayRows
  <2>4. Len(o) = N + 1
    BY <2>2, <2>3
  <2> HIDE DEF N
  <2> QED
    BY <2>1, <2>3, <2>4, ArrayRows
<1>2. CASE Unfilled
  <2>1. Len(column.codes) = 0
    BY <1>2 DEF Unfilled
  <2> QED
    BY <1>1, <2>1
<1>3. CASE \E p \in Parsers : EncodedBy(p)
  <2>1. PICK p \in Parsers : EncodedBy(p)
    BY <1>3
  <2> DEFINE all == CodesOf(p.vocab, rows, N)
  <2>2. column.codes = all
    BY <1>1, <2>1, EncodedIs DEF EncodedBy
  <2>3. Conforms(p.vocab) /\ p.vocab \in Seq(Token) /\ N \in 0 .. Len(rows)
    BY <1>1, ParserTyped
  <2>4. all \in Seq(Ids(p.vocab)) /\ Flat(Spelled(p.vocab, all)) = FlatTo(rows)[N]
    BY <1>1, <2>3, CodesOfSpells
  <2>5. Len(all) <= Len(FlatTo(rows)[N])
    BY <2>3, <2>4, SpelledLength
  <2>6. FlatTo(rows)[N - 0] = Slice(input.bytes, o[0 + 1], o[N + 1])
    <3>1. /\ 0 \in 0 .. Len(RowsOf(input)) /\ N \in 0 .. Len(RowsOf(input))
          /\ Len(rows) = Len(RowsOf(input)) - 0
          /\ \A n \in 1 .. N - 0 : rows[n] = RowsOf(input)[0 + n]
      BY <1>1
    <3> HIDE DEF N, o
    <3>2. rows \in Seq(ByteSeq) /\ WellFormed(input)
      BY <1>1
    <3> HIDE DEF rows
    <3> QED
      BY <3>1, <3>2, ArrayWindow DEF o
  <2>7. 1 \in 1 .. N + 1 /\ N + 1 \in 1 .. N + 1 /\ N - 0 = N /\ 0 + 1 = 1
    BY <1>1
  <2> DEFINE x == o[1]
             y == o[N + 1]
  <2>8. x \in Nat /\ y \in Nat /\ x <= y /\ y <= Len(input.bytes)
    BY <1>1, <2>7
  <2>9. FlatTo(rows)[N] = Slice(input.bytes, x, y)
    BY <2>6, <2>7
  <2> HIDE DEF x, y, all
  <2>10. Len(FlatTo(rows)[N]) = y - x
    BY <2>8, <2>9, SliceProperties DEF ColumnInv, WellFormed
  <2>11. Len(all) \in Nat
    BY <2>4, LenProperties
  <2> HIDE DEF N, rows, o
  <2> QED
    BY <1>1, <2>2, <2>5, <2>8, <2>10, <2>11
<1> QED
  BY <1>2, <1>3 DEF ColumnInv

\* Decoding the codes between the ends of two rows gives the bytes between them.
LEMMA RowsComeBack ==
    ASSUME ColumnInv, Addressable, column.rowOffsets # <<>>,
           NEW a \in 0 .. NumRows(column), NEW b \in a .. NumRows(column)
    PROVE  LET from == column.rowOffsets[a + 1]
               to == column.rowOffsets[b + 1]
               slice == SubSeq(column.codes, from + 1, to)
           IN  /\ from <= to /\ to <= Len(column.codes)
               /\ b = NumRows(column) => to = Len(column.codes)
               /\ a = 0 => from = 0
               /\ Flat(Decoded(column.dict, slice))
                    = Slice(input.bytes, input.offsets[a + 1], input.offsets[b + 1])
               /\ \A j \in 1 .. Len(slice) : slice[j] < TokenCount(column.dict)
<1> DEFINE rows == RowsOf(input)
           N == Len(rows)
<1>1. PICK p \in Parsers : EncodedBy(p)
  BY DEF ColumnInv, Unfilled
<1>2. /\ WellFormed(input) /\ rows \in Seq(ByteSeq) /\ N \in Nat /\ NumRows(column) = N
      /\ a \in 0 .. Len(rows) /\ b \in a .. Len(rows) /\ Conforms(p.vocab)
      /\ a \in Nat /\ b \in Nat /\ b \in 0 .. N
  <2>1. WellFormed(input) /\ rows \in Seq(ByteSeq)
    BY ArrayRows DEF ColumnInv
  <2>2. N \in Nat /\ NumRows(column) = N
    BY ColumnTyped
  <2> QED
    BY <2>1, <2>2, ParserTyped
<1> HIDE DEF rows
<1> DEFINE ends(n) == Len(CodesOf(p.vocab, rows, n))
           win == Window(p.vocab, rows, a, b)
           rest == SubSeq(rows, a + 1, Len(rows))
<1>3. /\ column.dict = p.dict /\ column.codes = CodesOf(p.vocab, rows, N)
      /\ \A n \in 0 .. N : column.rowOffsets[n + 1] = ends(n)
  <2> DEFINE c == Encoded(p, rows, Cleared(Empty))
  <2>1. column = c
    BY <1>1 DEF EncodedBy, rows
  <2>2. /\ c.dict = p.dict /\ c.codes = CodesOf(p.vocab, rows, Len(rows))
        /\ Len(c.codes) < OffsetLimit =>
            \A n \in 0 .. Len(rows) : c.rowOffsets[n + 1] = Len(CodesOf(p.vocab, rows, n))
    BY <1>2, EncodedIs
  <2> HIDE DEF c
  <2> QED
    BY <2>1, <2>2 DEF Addressable
<1>4. ends(a) <= ends(b) /\ ends(b) <= ends(N)
  <2>1. N \in b .. Len(rows)
    BY <1>2
  <2> QED
    BY <1>2, <2>1, CodesOfBegins
<1>5. ends(0) = 0
  <2>1. CodesOf(p.vocab, rows, 0) = <<>>
    BY <1>2, CodesOfSteps
  <2> QED
    BY <2>1
<1>6. /\ win \in Seq(Ids(p.vocab))
      /\ Flat(Spelled(p.vocab, win)) = FlatTo(rest)[b - a]
      /\ rest \in Seq(ByteSeq) /\ Len(rest) = Len(rows) - a
      /\ \A n \in 1 .. b - a : rest[n] = rows[a + n]
  BY <1>2, WindowSpells
<1>7. column.rowOffsets[a + 1] = ends(a) /\ column.rowOffsets[b + 1] = ends(b)
  BY <1>2, <1>3
<1>8. win = SubSeq(column.codes, column.rowOffsets[a + 1] + 1, column.rowOffsets[b + 1])
  BY <1>3, <1>7 DEF Window
<1> HIDE DEF win, rest, ends
<1>9. /\ Decoded(column.dict, win) = Spelled(p.vocab, win)
      /\ \A j \in 1 .. Len(win) : win[j] < TokenCount(column.dict)
  BY <1>3, <1>6, ParserTyped
<1>10. FlatTo(rest)[b - a] = Slice(input.bytes, input.offsets[a + 1], input.offsets[b + 1])
  <2>1. /\ a \in 0 .. Len(RowsOf(input)) /\ b \in a .. Len(RowsOf(input))
        /\ Len(rest) = Len(RowsOf(input)) - a
        /\ \A n \in 1 .. b - a : rest[n] = RowsOf(input)[a + n]
    BY <1>2, <1>6 DEF rows
  <2> QED
    BY <1>2, <1>6, <2>1, ArrayWindow
<1>11. Len(column.codes) = ends(N)
  BY <1>3 DEF ends
<1>12. b = NumRows(column) => ends(b) = Len(column.codes)
  BY <1>2, <1>11
<1> QED
  BY <1>4, <1>5, <1>6, <1>7, <1>8, <1>9, <1>10, <1>11, <1>12

\* No rows, no bytes.
LEMMA NothingDecodes ==
    ASSUME NEW d \in Dictionaries, NEW arr, WellFormed(arr)
    PROVE  Flat(Decoded(d, <<>>)) = Slice(arr.bytes, arr.offsets[1], arr.offsets[1])
<1>1. Decoded(d, <<>>) \in Seq(Seq(Byte)) /\ Len(Decoded(d, <<>>)) = 0
  <2>1. <<>> \in Seq(Nat) /\ Len(<<>>) = 0
    OBVIOUS
  <2> QED
    BY <2>1, DecodedType DEF ByteSeq
<1>2. Flat(Decoded(d, <<>>)) = <<>>
  BY <1>1, FlatToSteps DEF Flat
<1>3. arr.offsets[1] \in Nat
  <2>1. Len(arr.offsets) - 1 \in Nat /\ Len(arr.offsets) \in Nat
    BY ArrayRows, LenProperties DEF WellFormed
  <2>2. 1 \in 1 .. Len(arr.offsets)
    BY <2>1
  <2> QED
    BY <2>2, ArrayRows
<1> DEFINE x == arr.offsets[1]
<1>4. 1 .. x - x = {}
  BY <1>3
<1> HIDE DEF x
<1>5. Slice(arr.bytes, x, x) = <<>>
  BY <1>4 DEF Slice
<1> QED
  BY <1>2, <1>5 DEF x

\* What a decoder has written, when every code names a token.
LEMMA WrittenBytes ==
    ASSUME IInv, \A j \in 1 .. Len(codes) : InRange(codes[j])
    PROVE  LET all == FlatTo(Decoded(dict, codes))
           IN  /\ \A n \in 0 .. Len(codes) : Len(all[n]) = DecodedLen(dict, codes, n)
               /\ Len(all[i]) = w
               /\ \A k \in 1 .. w : out[k - 1] = all[i][k]
<1> DEFINE tokens == Decoded(dict, codes)
           all == FlatTo(tokens)
           N == Len(codes)
           upTo(n) == DecodedLen(dict, codes, n)
           Done == {n \in 0 .. i : \A k \in 1 .. upTo(n) : out[k - 1] = all[n][k]}
<1>1. /\ dict \in Dictionaries /\ codes \in Seq(Nat) /\ N \in Nat /\ i \in 0 .. N /\ i \in Nat
      /\ i <= N /\ w = upTo(i)
  BY LenProperties DEF IInv, TypeOK, DecodedSoFar
<1>2. /\ tokens \in Seq(ByteSeq) /\ tokens \in Seq(Seq(Byte)) /\ Len(tokens) = N
  BY <1>1, DecodedType DEF ByteSeq
<1>3. \A n \in 1 .. N : /\ tokens[n] = TokenBytes(dict, codes[n])
                        /\ tokens[n] \in Seq(Byte)
                        /\ Len(tokens[n]) = TokenLen(dict, codes[n])
                        /\ Len(tokens[n]) \in Nat
  <2> TAKE n \in 1 .. N
  <2>1. codes[n] \in Nat /\ codes[n] < TokenCount(dict)
    BY <1>1, ElementOfSeq DEF InRange
  <2>2. tokens[n] = TokenBytes(dict, codes[n])
    BY <2>1 DEF Decoded
  <2>3. TokenBytes(dict, codes[n]) \in Seq(Byte)
        /\ Len(TokenBytes(dict, codes[n])) = TokenLen(dict, codes[n])
    BY <1>1, <2>1, TokenFacts DEF ByteSeq
  <2> HIDE DEF tokens
  <2> QED
    BY <2>2, <2>3, LenProperties
<1> HIDE DEF tokens
<1>4. /\ \A n \in 1 .. N : all[n] = all[n - 1] \o tokens[n]
      /\ \A n \in 0 .. N : all[n] \in Seq(Byte)
  BY <1>2, FlatToSteps
<1>5. \A n \in 0 .. N : Len(all[n]) = upTo(n) /\ upTo(n) \in Nat
  <2> TAKE n \in 0 .. N
  <2>1. Len(all[n]) = upTo(n)
    BY <1>2, FlatToLength DEF DecodedLen, tokens
  <2> QED
    BY <1>4, <2>1, LenProperties
<1>6. upTo(0) = 0
  BY <1>1, DecodedLenFacts
<1>7. \A n \in 1 .. i : \A k \in 1 .. Len(tokens[n]) :
          out[upTo(n - 1) + k - 1] = tokens[n][k]
  <2> TAKE n \in 1 .. i
  <2>1. n \in 1 .. N
    BY <1>1
  <2> QED
    BY <1>3, <2>1 DEF IInv, DecodedSoFar
<1> HIDE DEF all, upTo, N
<1>8. 0 \in Done
  BY <1>1, <1>6
<1>9. ASSUME NEW n \in 0 .. i - 1, n \in Done
      PROVE  n + 1 \in Done
  <2> DEFINE m == n + 1
             t == tokens[m]
             at == upTo(n)
             front == all[n]
  <2>1. m \in 1 .. i /\ m \in 1 .. N /\ m - 1 = n /\ n \in 0 .. N /\ m \in 0 .. i /\ m \in 0 .. N
    BY <1>1
  <2> HIDE DEF m
  <2>2. /\ all[m] = front \o t /\ front \in Seq(Byte) /\ t \in Seq(Byte)
        /\ Len(front) = at /\ at \in Nat /\ Len(t) \in Nat
        /\ Len(all[m]) = upTo(m)
    BY <1>3, <1>4, <1>5, <2>1
  <2>3. /\ \A k \in 1 .. at : out[k - 1] = front[k]
        /\ \A k \in 1 .. Len(t) : out[at + k - 1] = t[k]
    BY <1>7, <1>9, <2>1
  <2> HIDE DEF t, at, front
  <2>4. /\ Len(front \o t) = at + Len(t)
        /\ \A k \in 1 .. at + Len(t) : (front \o t)[k] = IF k <= at THEN front[k] ELSE t[k - at]
    <3>1. /\ Len(front \o t) = Len(front) + Len(t)
          /\ \A k \in 1 .. Len(front) + Len(t) :
                (front \o t)[k] = IF k <= Len(front) THEN front[k] ELSE t[k - Len(front)]
      <4>1. front \in Seq(Byte) /\ t \in Seq(Byte)
        BY <2>2
      <4> QED
        BY <4>1, ConcatProperties
    <3> QED
      BY <2>2, <3>1
  <2>5. upTo(m) = at + Len(t)
    BY <2>2, <2>4
  <2>6. \A k \in 1 .. upTo(m) : out[k - 1] = all[m][k]
    <3> TAKE k \in 1 .. upTo(m)
    <3>1. k \in 1 .. at + Len(t)
      BY <2>5
    <3>2. CASE k <= at
      <4>1. k \in 1 .. at
        BY <3>1, <3>2
      <4> QED
        BY <2>2, <2>3, <2>4, <3>1, <3>2, <4>1
    <3>3. CASE ~(k <= at)
      <4> DEFINE l == k - at
      <4>1. l \in 1 .. Len(t) /\ at + l - 1 = k - 1
        BY <2>2, <3>1, <3>3
      <4>2. all[m][k] = t[l]
        BY <2>2, <2>4, <3>1, <3>3
      <4> HIDE DEF l
      <4> QED
        BY <2>3, <4>1, <4>2
    <3> QED
      BY <3>2, <3>3
  <2> QED
    BY <2>1, <2>6 DEF m
<1> HIDE DEF Done
<1>10. \A n \in 0 .. i : n \in Done
  BY <1>1, <1>8, <1>9, UpwardInduction
<1>11. i \in Done
  BY <1>1, <1>10
<1> QED
  BY <1>1, <1>5, <1>11 DEF Done, all, upTo, tokens, N

\* What CodecInv says of an answer is what the caller was promised.
LEMMA InvGivesRoundTrip == CodecInv => RoundTripIsExact
<1> SUFFICES ASSUME CodecInv
             PROVE  RoundTripIsExact
  OBVIOUS
<1>0. IInv /\ ColumnInv /\ AnswerInv
  BY DEF CodecInv
<1>1. Len(input.bytes) < OffsetLimit => Addressable
  <2>1. Len(column.codes) <= Len(input.bytes) /\ Len(column.codes) \in Nat
    BY <1>0, CodesFit, ColumnTyped
  <2>2. Len(input.bytes) \in Nat /\ OffsetLimit \in Nat
    BY <1>0, LenProperties, ColumnCodecAssumption DEF ColumnInv, WellFormed, ByteSeq
  <2> QED
    BY <2>1, <2>2 DEF Addressable
<1>2. ASSUME answer = "ok", Addressable
      PROVE  /\ mode = "ok" => w = Len(Wanted) /\ \A k \in 1 .. w : out[k - 1] = Wanted[k]
             /\ mode = "too_small" => cap < Len(Wanted)
             /\ mode # "panic"
  <2> DEFINE N == Len(codes)
             all == FlatTo(Decoded(dict, codes))
  <2>1. Flat(Decoded(dict, codes)) = Wanted /\ \A j \in 1 .. N : InRange(codes[j])
    BY <1>0, <1>2 DEF AnswerInv
  <2>2. /\ dict \in Dictionaries /\ codes \in Seq(Nat) /\ N \in Nat /\ i \in 0 .. N /\ cap \in Nat
    BY <1>0, LenProperties DEF IInv, TypeOK
  <2>3. Wanted = all[N]
    <3>1. Len(Decoded(dict, codes)) = N
      BY <2>2, DecodedType
    <3> QED
      BY <2>1, <3>1 DEF Flat
  <2>4. /\ \A n \in 0 .. N : Len(all[n]) = DecodedLen(dict, codes, n)
        /\ Len(all[i]) = w
        /\ \A k \in 1 .. w : out[k - 1] = all[i][k]
    BY <1>0, <2>1, WrittenBytes
  <2> HIDE DEF all
  <2>5. mode = "ok" => w = Len(Wanted) /\ \A k \in 1 .. w : out[k - 1] = Wanted[k]
    <3>1. mode = "ok" => i = N
      BY <1>0 DEF IInv, TooSmallIsExact
    <3> QED
      BY <2>3, <2>4, <3>1
  <2>6. mode = "too_small" => cap < Len(Wanted)
    <3> SUFFICES ASSUME mode = "too_small"
                 PROVE  cap < Len(Wanted)
      OBVIOUS
    <3> DEFINE m == i + 1
    <3>1. m \in 0 .. N /\ m <= N /\ N \in 0 .. N
      BY <1>0, <2>2 DEF IInv, Stuck
    <3>2. DecodedLen(dict, codes, m) > cap
      BY <1>0 DEF IInv, TooSmallIsExact
    <3> HIDE DEF m, N
    <3>3. /\ DecodedLen(dict, codes, m) <= DecodedLen(dict, codes, N)
          /\ DecodedLen(dict, codes, m) \in Nat /\ DecodedLen(dict, codes, N) \in Nat
      BY <2>2, <3>1, DecodedLenFacts DEF N
    <3>4. Len(Wanted) = DecodedLen(dict, codes, N)
      BY <2>3, <2>4, <3>1
    <3> QED
      BY <2>2, <3>2, <3>3, <3>4
  <2>7. mode # "panic"
    <3> SUFFICES ASSUME mode = "panic"
                 PROVE  FALSE
      OBVIOUS
    <3>1. i < N /\ ~InRange(codes[i + 1])
      BY <1>0 DEF IInv, Stuck
    <3>2. i + 1 \in 1 .. N
      BY <2>2, <3>1
    <3> QED
      BY <2>1, <3>1, <3>2
  <2> QED
    BY <2>5, <2>6, <2>7
<1>3. answer = "panic" /\ Addressable => asked[1] = NumRows(column)
  BY <1>0 DEF AnswerInv
<1> QED
  BY <1>1, <1>2, <1>3 DEF RoundTripIsExact

-----------------------------------------------------------------------------
\* FreshInv of the next state.
LEMMA FreshNext == Fresh' => IInv'
BY FreshInv, PTL

LEMMA CodecInitInv == CodecInit => CodecInv
<1> SUFFICES ASSUME CodecInit
             PROVE  CodecInv
  OBVIOUS
<1>1. IInv /\ dict \in Dictionaries
  BY FreshInv, DecoderAssumption DEF CodecInit, Init, Fresh
<1>2. /\ column = [dict |-> dict, codes |-> <<>>, rowOffsets |-> <<>>]
      /\ input = [bytes |-> <<>>, offsets |-> <<0>>] /\ answer = "stored"
  BY DEF CodecInit
<1>3. Unfilled
  BY <1>1, <1>2 DEF Unfilled
<1>4. WellFormed(input)
  <2> DEFINE s == <<>>
             o == <<0>>
  <2>1. s \in ByteSeq /\ o \in Seq(Nat) /\ o # <<>> /\ Len(o) = 1 /\ Len(s) = 0 /\ o[1] = 0
    BY DEF ByteSeq
  <2>2. Ascending(o)
    BY <2>1 DEF Ascending
  <2>3. input.bytes = s /\ input.offsets = o
    BY <1>2
  <2> HIDE DEF s, o
  <2>4. o[Len(o)] <= Len(s)
    BY <2>1
  <2> QED
    BY <2>1, <2>2, <2>3, <2>4 DEF WellFormed
<1>5. AnswerInv
  BY <1>2 DEF AnswerInv
<1> QED
  BY <1>1, <1>3, <1>4, <1>5 DEF CodecInv, ColumnInv

\* A step that decodes nothing new leaves what the answer is about alone.
LEMMA AnswerKept ==
    ASSUME CodecInv, UNCHANGED <<dict, codes, column, input, asked, answer>>
    PROVE  ColumnInv' /\ AnswerInv'
<1>1. ColumnInv'
  BY DEF CodecInv, ColumnInv, WellFormed, Unfilled, EncodedBy
<1>2. AnswerInv'
  BY DEF CodecInv, AnswerInv, Addressable, Wanted, InRange
<1> QED
  BY <1>1, <1>2

\* A call that leaves the decoder alone.
LEMMA DecoderKept ==
    ASSUME CodecInv, UNCHANGED decoder
    PROVE  IInv'
BY NextInv DEF CodecInv, decoder, vars

\* A call that answers with no rows.
LEMMA NothingAsked ==
    ASSUME ColumnInv', dict' \in Dictionaries, codes' = <<>>, asked' = <<0, 0>>, answer' = "ok"
    PROVE  AnswerInv'
<1>1. WellFormed(input')
  BY DEF ColumnInv, WellFormed
<1>2. Flat(Decoded(dict', <<>>)) = Slice(input'.bytes, input'.offsets[1], input'.offsets[1])
  BY <1>1, NothingDecodes
<1>3. Wanted' = Slice(input'.bytes, input'.offsets[1], input'.offsets[1])
  BY DEF Wanted
<1>4. \A j \in 1 .. Len(codes') : FALSE
  OBVIOUS
<1> QED
  BY <1>2, <1>3, <1>4 DEF AnswerInv

\* A call of the decoder starts it afresh.
LEMMA DecodeStarts ==
    ASSUME CodecInv, NEW slice \in Seq(Nat), Decode(slice)
    PROVE  IInv' /\ ColumnInv'
<1>1. column.dict \in Dictionaries
  BY ColumnTyped DEF CodecInv
<1>2. /\ dict' = column.dict /\ codes' = slice /\ cap' \in Capacities
      /\ w' = 0 /\ i' = 0 /\ end' = 0 /\ out' = [k \in {} |-> 0]
      /\ UNCHANGED <<column, input>>
  BY DEF Decode
<1>3. cap' \in Nat
  BY <1>2, DecoderAssumption
<1>4. Fresh'
  <2>1. (mode = Dispatch)' \/ (mode = "unchecked" /\ Promised)'
    BY DEF Decode
  <2> QED
    BY <1>1, <1>2, <1>3, <2>1 DEF Fresh
<1>5. ColumnInv'
  BY <1>2 DEF CodecInv, ColumnInv, WellFormed, Unfilled, EncodedBy
<1> QED
  BY <1>4, <1>5, FreshNext

LEMMA ParseStep ==
    ASSUME CodecInv, Parse
    PROVE  CodecInv'
<1>1. PICK p \in Parsers, a \in Arrays :
        /\ Idle /\ Valid(a) /\ column' = Encoded(p, RowsOf(a), Cleared(Empty))
        /\ input' = a /\ asked' = <<0, 0>> /\ answer' = "ok"
        /\ UNCHANGED decoder
  BY DEF Parse
<1>2. IInv'
  BY <1>1, DecoderKept
<1>3. WellFormed(a)
  <2>1. a.bytes \in ByteSeq /\ a.offsets \in Seq(0 .. OffsetLimit - 1) /\ Ascending(a.offsets)
    BY ColumnCodecAssumption
  <2>2. a.offsets \in Seq(Nat)
    <3> DEFINE S == 0 .. OffsetLimit - 1
               o == a.offsets
    <3>1. S \subseteq Nat /\ o \in Seq(S)
      BY <2>1, ColumnCodecAssumption
    <3> HIDE DEF S, o
    <3>2. \A n \in 1 .. Len(o) : o[n] \in Nat
      BY <3>1, ElementOfSeq
    <3>3. Len(o) \in Nat /\ o = [n \in 1 .. Len(o) |-> o[n]]
      BY <3>1, LenProperties
    <3>4. o \in Seq(Nat)
      BY <3>2, <3>3
    <3> QED
      BY <3>4 DEF o
  <2> QED
    BY <1>1, <2>1, <2>2 DEF Valid, WellFormed
<1>4. ColumnInv'
  <2>1. WellFormed(input')
    BY <1>1, <1>3
  <2>2. column' = Encoded(p, RowsOf(input'), Cleared(Empty))
    BY <1>1
  <2> QED
    BY <2>1, <2>2 DEF ColumnInv, EncodedBy, WellFormed
<1>5. AnswerInv'
  <2>1. dict' \in Dictionaries /\ codes' = <<>>
    BY <1>1 DEF CodecInv, IInv, TypeOK, Idle, decoder
  <2> QED
    BY <1>1, <1>4, <2>1, NothingAsked
<1> QED
  BY <1>2, <1>4, <1>5 DEF CodecInv

LEMMA ParseRowsStep ==
    ASSUME CodecInv, ParseRows
    PROVE  CodecInv'
<1>1. PICK p \in Parsers, rows \in RowLists, buffers \in {Empty, column} :
        /\ Idle /\ column' = Encoded(p, rows, Cleared(buffers))
        /\ input' = [bytes |-> Flat(rows),
                     offsets |-> [n \in 1 .. Len(rows) + 1 |-> ByteCount(rows, n - 1)]]
        /\ asked' = <<0, 0>> /\ answer' = "ok"
        /\ UNCHANGED decoder
  BY DEF ParseRows
<1>2. IInv'
  BY <1>1, DecoderKept
<1>3. rows \in Seq(ByteSeq)
  BY ColumnCodecAssumption
<1>4. WellFormed(input') /\ RowsOf(input') = rows
  BY <1>1, <1>3, ListAsArray
<1>5. ColumnInv'
  <2>1. column' = Encoded(p, RowsOf(input'), Cleared(Empty))
    BY <1>1, <1>4 DEF Cleared
  <2> QED
    BY <1>4, <2>1 DEF ColumnInv, EncodedBy, WellFormed
<1>6. AnswerInv'
  <2>1. dict' \in Dictionaries /\ codes' = <<>>
    BY <1>1 DEF CodecInv, IInv, TypeOK, Idle, decoder
  <2> QED
    BY <1>1, <1>5, <2>1, NothingAsked
<1> QED
  BY <1>2, <1>5, <1>6 DEF CodecInv

LEMMA ColumnStep ==
    ASSUME CodecInv, DecompressColumn
    PROVE  CodecInv'
<1> DEFINE N == NumRows(column)
<1>1. asked' = <<0, N>> /\ answer' = "ok" /\ Decode(column.codes)
  BY DEF DecompressColumn
<1>2. /\ column.dict \in Dictionaries /\ column.codes \in Seq(Nat) /\ N \in Nat /\ ColumnInv
      /\ Len(column.codes) \in Nat
  BY ColumnTyped DEF CodecInv
<1>3. IInv' /\ ColumnInv'
  BY <1>1, <1>2, DecodeStarts
<1>4. dict' = column.dict /\ codes' = column.codes /\ UNCHANGED <<column, input>>
  BY <1>1 DEF Decode
<1>5. CASE column.rowOffsets = <<>>
  <2>1. column.codes = <<>> /\ N = 0
    <3>1. \A p \in Parsers : ~EncodedBy(p)
      <4> SUFFICES ASSUME NEW p \in Parsers, EncodedBy(p)
                   PROVE  FALSE
        OBVIOUS
      <4> DEFINE rows == RowsOf(input)
      <4>1. rows \in Seq(ByteSeq)
        BY <1>2, ArrayRows DEF ColumnInv
      <4> HIDE DEF rows
      <4>2. Len(column.rowOffsets) = Len(rows) + 1 /\ Len(rows) \in Nat
        BY <4>1, EncodedIs, LenProperties DEF EncodedBy, rows
      <4>3. Len(column.rowOffsets) = 0
        BY <1>5
      <4> QED
        BY <4>2, <4>3
    <3> QED
      BY <1>2, <1>5, <3>1 DEF ColumnInv, Unfilled, NumRows
  <2> QED
    BY <1>1, <1>2, <1>3, <1>4, <2>1, NothingAsked DEF CodecInv
<1>6. CASE column.rowOffsets # <<>>
  <2>1. ASSUME Addressable
        PROVE  /\ Flat(Decoded(column.dict, column.codes))
                    = Slice(input.bytes, input.offsets[0 + 1], input.offsets[N + 1])
               /\ \A j \in 1 .. Len(column.codes) : column.codes[j] < TokenCount(column.dict)
    <3> DEFINE from == column.rowOffsets[0 + 1]
               to == column.rowOffsets[N + 1]
               slice == SubSeq(column.codes, from + 1, to)
    <3>1. 0 \in 0 .. N /\ N \in 0 .. N
      BY <1>2
    <3>2. /\ N = NumRows(column) => to = Len(column.codes)
          /\ 0 = 0 => from = 0
          /\ Flat(Decoded(column.dict, slice))
                = Slice(input.bytes, input.offsets[0 + 1], input.offsets[N + 1])
          /\ \A j \in 1 .. Len(slice) : slice[j] < TokenCount(column.dict)
      BY <1>2, <1>6, <2>1, <3>1, RowsComeBack
    <3>3. slice = SubSeq(column.codes, 1, Len(column.codes))
      BY <3>2
    <3> HIDE DEF slice
    <3>4. slice = column.codes
      <4> DEFINE s == column.codes
                 n == Len(s)
      <4>1. s \in Seq(Nat) /\ n \in Nat /\ 0 \in 0 .. Len(s) /\ n \in 0 .. Len(s) /\ n - 0 = n
        BY <1>2
      <4>2. slice = SubSeq(s, 0 + 1, n)
        BY <3>3
      <4> HIDE DEF s, n
      <4>3. slice \in Seq(Nat) /\ Len(slice) = n - 0 /\ \A j \in 1 .. n - 0 : slice[j] = s[0 + j]
        BY <4>1, <4>2, MiddlePiece
      <4>4. Len(slice) = Len(s) /\ \A j \in 1 .. Len(s) : slice[j] = s[j]
        BY <4>1, <4>3 DEF n
      <4> QED
        BY <4>1, <4>3, <4>4, SeqEqual DEF s
    <3> QED
      BY <3>2, <3>4
  <2>2. AnswerInv'
    <3>1. Addressable' = Addressable
      BY <1>4 DEF Addressable
    <3>2. Wanted' = Slice(input.bytes, input.offsets[0 + 1], input.offsets[N + 1])
      BY <1>1, <1>4 DEF Wanted
    <3>3. ASSUME Addressable'
          PROVE  /\ Flat(Decoded(dict', codes')) = Wanted'
                 /\ \A j \in 1 .. Len(codes') : codes'[j] < TokenCount(dict')
      BY <1>4, <2>1, <3>1, <3>2, <3>3
    <3>4. answer' # "panic"
      BY <1>1
    <3> QED
      BY <3>3, <3>4 DEF AnswerInv, InRange
  <2> QED
    BY <1>3, <2>2 DEF CodecInv
<1> QED
  BY <1>5, <1>6

LEMMA RowStep ==
    ASSUME CodecInv, DecompressRow
    PROVE  CodecInv'
<1> DEFINE N == NumRows(column)
<1>1. PICK k \in 0 .. N - 1 :
        /\ ~BadRow(column, k) /\ asked' = <<k, k + 1>> /\ answer' = "ok"
        /\ Decode(RowCodes(column, k))
  BY DEF DecompressRow
<1>2. /\ column.dict \in Dictionaries /\ column.codes \in Seq(Nat) /\ N \in Nat /\ ColumnInv
      /\ Len(column.codes) \in Nat /\ column.rowOffsets \in Seq(Nat)
      /\ N # 0 => Len(column.rowOffsets) = N + 1
  BY ColumnTyped DEF CodecInv
<1> DEFINE m == k + 1
           from == column.rowOffsets[k + 1]
           to == column.rowOffsets[m + 1]
           slice == SubSeq(column.codes, from + 1, to)
<1>3. /\ k \in 0 .. N /\ m \in k .. N /\ N # 0 /\ k \in Nat /\ m + 1 = k + 2
      /\ k + 1 \in 1 .. N + 1 /\ m + 1 \in 1 .. N + 1
  BY <1>1, <1>2
<1>4. from \in Nat /\ to \in Nat /\ from <= to /\ to <= Len(column.codes)
  <2>1. from \in Nat /\ to \in Nat
    BY <1>2, <1>3, ElementOfSeq
  <2>2. to = column.rowOffsets[k + 2]
    BY <1>3
  <2>3. ~(to < from) /\ ~(to > Len(column.codes))
    BY <1>1, <2>2 DEF BadRow
  <2> HIDE DEF from, to
  <2> QED
    BY <1>2, <2>1, <2>3
<1>5. RowCodes(column, k) = slice
  BY <1>3 DEF RowCodes
<1>6. slice \in Seq(Nat)
  <2> HIDE DEF from, to
  <2>1. from \in 0 .. Len(column.codes) /\ to \in from .. Len(column.codes)
    BY <1>2, <1>4
  <2> QED
    BY <1>2, <2>1, MiddlePiece
<1>7. IInv' /\ ColumnInv'
  BY <1>1, <1>5, <1>6, DecodeStarts
<1>8. dict' = column.dict /\ codes' = slice /\ UNCHANGED <<column, input>>
  BY <1>1, <1>5 DEF Decode
<1>9. column.rowOffsets # <<>>
  BY <1>3 DEF NumRows
<1>10. ASSUME Addressable
       PROVE  /\ Flat(Decoded(column.dict, slice))
                    = Slice(input.bytes, input.offsets[k + 1], input.offsets[m + 1])
              /\ \A j \in 1 .. Len(slice) : slice[j] < TokenCount(column.dict)
  <2>1. k \in 0 .. NumRows(column) /\ m \in k .. NumRows(column)
    BY <1>3
  <2> HIDE DEF m
  <2> QED
    BY <1>2, <1>9, <1>10, <2>1, RowsComeBack
<1>11. AnswerInv'
  <2> HIDE DEF slice
  <2>1. Addressable' = Addressable
    BY <1>8 DEF Addressable
  <2>2. Wanted' = Slice(input.bytes, input.offsets[k + 1], input.offsets[m + 1])
    BY <1>1, <1>8 DEF Wanted
  <2>3. ASSUME Addressable'
        PROVE  /\ Flat(Decoded(dict', codes')) = Wanted'
               /\ \A j \in 1 .. Len(codes') : codes'[j] < TokenCount(dict')
    BY <1>8, <1>10, <2>1, <2>2, <2>3
  <2>4. answer' # "panic"
    BY <1>1
  <2> QED
    BY <2>3, <2>4 DEF AnswerInv, InRange
<1> QED
  BY <1>7, <1>11 DEF CodecInv

LEMMA RowPanicStep ==
    ASSUME CodecInv, RowPanic
    PROVE  CodecInv'
<1> DEFINE N == NumRows(column)
<1>1. PICK k \in 0 .. N :
        /\ k < N => BadRow(column, k)
        /\ asked' = <<k, k + 1>> /\ answer' = "panic"
        /\ UNCHANGED <<decoder, column, input>>
  BY DEF RowPanic
<1>2. IInv'
  BY <1>1, DecoderKept
<1>3. ColumnInv'
  BY <1>1 DEF CodecInv, ColumnInv, WellFormed, Unfilled, EncodedBy
<1>4. N \in Nat /\ ColumnInv /\ Len(column.codes) \in Nat
  BY ColumnTyped DEF CodecInv
<1>5. ASSUME Addressable
      PROVE  k = N
  <2> SUFFICES ASSUME k < N
               PROVE  FALSE
    BY <1>4
  <2> DEFINE m == k + 1
             from == column.rowOffsets[k + 1]
             to == column.rowOffsets[m + 1]
  <2>1. k \in 0 .. NumRows(column) /\ m \in k .. NumRows(column) /\ m + 1 = k + 2
        /\ column.rowOffsets # <<>> /\ N # 0 /\ k + 1 \in 1 .. N + 1 /\ m + 1 \in 1 .. N + 1
    <3>1. N # 0 /\ k \in Nat /\ m \in k .. N /\ m + 1 = k + 2
          /\ k + 1 \in 1 .. N + 1 /\ m + 1 \in 1 .. N + 1
      <4> HIDE DEF N
      <4> QED
        BY <1>4
    <3>2. column.rowOffsets # <<>>
      BY <3>1 DEF NumRows
    <3> QED
      BY <3>1, <3>2
  <2>2. from <= to /\ to <= Len(column.codes)
    <3> HIDE DEF m
    <3> QED
      BY <1>4, <1>5, <2>1, RowsComeBack
  <2>3. from \in Nat /\ to \in Nat
    <3>1. column.rowOffsets \in Seq(Nat) /\ Len(column.rowOffsets) = N + 1
      BY <1>4, <2>1, ColumnTyped
    <3> QED
      BY <2>1, <3>1, ElementOfSeq
  <2>4. to < from \/ to > Len(column.codes)
    BY <1>1, <2>1 DEF BadRow
  <2> HIDE DEF from, to
  <2> QED
    BY <1>4, <2>2, <2>3, <2>4
<1>6. AnswerInv'
  <2>1. Addressable' = Addressable /\ NumRows(column)' = N /\ asked'[1] = k
        /\ answer' = "panic"
    BY <1>1 DEF Addressable, NumRows
  <2> QED
    BY <1>5, <2>1 DEF AnswerInv
<1> QED
  BY <1>2, <1>3, <1>6 DEF CodecInv

LEMMA CodecNextInv == CodecInv /\ [CodecNext]_codecVars => CodecInv'
<1> SUFFICES ASSUME CodecInv, [CodecNext]_codecVars
             PROVE  CodecInv'
  OBVIOUS
<1>1. CASE Refuse
  <2>1. UNCHANGED <<decoder, column, input>> /\ answer' = "invalid_arg"
    BY <1>1 DEF Refuse
  <2>2. ColumnInv'
    BY <2>1 DEF CodecInv, ColumnInv, WellFormed, Unfilled, EncodedBy
  <2>3. AnswerInv'
    BY <2>1 DEF AnswerInv
  <2> QED
    BY <2>1, <2>2, <2>3, DecoderKept DEF CodecInv
<1>2. CASE DecoderStep
  <2>1. Next /\ UNCHANGED <<column, input, asked, answer>>
    BY <1>2 DEF DecoderStep
  <2>2. IInv'
    BY <2>1, NextInv DEF CodecInv
  <2>3. UNCHANGED <<dict, codes>>
    BY <2>1 DEF Next, UncheckedStore, StartBatch, BatchStore, EndBatch, StartTail,
                TailCopy, TooSmall, BadCode, Finish
  <2> QED
    BY <2>1, <2>2, <2>3, AnswerKept DEF CodecInv
<1>3. CASE Release
  <2>1. /\ dict' = column.dict /\ codes' = <<>> /\ cap' = 0 /\ mode' = "ok"
        /\ w' = 0 /\ i' = 0 /\ end' = 0 /\ out' = [k \in {} |-> 0]
        /\ asked' = <<0, 0>> /\ answer' = "ok"
        /\ UNCHANGED <<column, input>>
    BY <1>3 DEF Release
  <2>2. column.dict \in Dictionaries
    BY ColumnTyped DEF CodecInv
  <2>3. <<>> \in Seq(Nat)
    OBVIOUS
  <2>4. Fresh'
    BY <2>1, <2>2, <2>3 DEF Fresh
  <2>5. ColumnInv'
    BY <2>1 DEF CodecInv, ColumnInv, WellFormed, Unfilled, EncodedBy
  <2> QED
    BY <2>1, <2>2, <2>4, <2>5, FreshNext, NothingAsked DEF CodecInv
<1>4. CASE UNCHANGED codecVars
  <2>1. UNCHANGED <<decoder, column, input, asked, answer>>
    BY <1>4 DEF codecVars
  <2> QED
    BY <2>1, DecoderKept, AnswerKept DEF CodecInv, decoder
<1> QED
  BY <1>1, <1>2, <1>3, <1>4, ParseStep, ParseRowsStep, ColumnStep, RowStep, RowPanicStep
  DEF CodecNext

\* CodecInv is an invariant of every use of a column.
THEOREM CodecInvariance == CodecSpec => []CodecInv
BY CodecInitInv, CodecNextInv, PTL DEF CodecSpec

\* Rows come back as they went in, in every buffer that holds them, and a smaller
\* one is refused; no call on a column whose offsets were not truncated panics but
\* for a row that is not there.
THEOREM RoundTrip == CodecSpec => []RoundTripIsExact
BY CodecInvariance, InvGivesRoundTrip, PTL

\* Whatever a column was encoded from and whichever of its rows is decompressed, no
\* store leaves the buffer, the bytes written are those of the codes, and the
\* buffer is refused only when they do not fit it.
THEOREM CodecDecodes == CodecSpec => [](StoresInBounds /\ DecodedSoFar /\ TooSmallIsExact)
<1>1. CodecInv => StoresInBounds /\ DecodedSoFar /\ TooSmallIsExact
  BY DEF CodecInv, IInv, StoresInBounds
<1> QED
  BY CodecInvariance, <1>1, PTL
=============================================================================
