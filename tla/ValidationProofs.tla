-------------------------- MODULE ValidationProofs --------------------------
(***************************************************************************)
(* Proofs about what arrives from storage and has to be checked: by        *)
(* DictionaryValidation as a whole, by SubstringScan only where a hit is.  *)
(*                                                                         *)
(* DictionaryValidation, for buffers of any kind and any limits:           *)
(* validate_safety accepts exactly the buffers that the decoder can read,  *)
(* and padding makes the trainer's buffers such.  This is what Decoder     *)
(* assumes of its dictionaries.  The fused check of the wide form agrees   *)
(* with it, and validate_conformance accepts exactly the conformant        *)
(* vocabularies that Lookup, the encoder and the search assume.  The loop  *)
(* looks at pairs of neighbouring offsets, and at the padding of the last  *)
(* token only.  That suffices because increasing pairs make every token    *)
(* start before the last one (Ascent).                                     *)
(*                                                                         *)
(* SubstringScan, for every dictionary, pattern, column and block length:  *)
(* a hit is verified in the row that holds it (ResolverInv), although      *)
(* nothing is known of the row offsets between the first and the last, as  *)
(* galloping and bisecting only ever keep a bracket of the hit             *)
(* (FindRowFinds).  And the alignment graph lists exactly the tokens that  *)
(* an occurrence can begin inside (GraphInv): every one with its tail, or  *)
(* the pattern, before the cursor is collected, and what scan_payload      *)
(* skips behind a match holds no other (HoldersPassed, LeadsStayPassed).   *)
(* The expected hits count every code with a token of the cover once       *)
(* (HitsInv), as merged runs are apart (MergedRunsAre).                    *)
(***************************************************************************)
EXTENDS DictionaryValidation, SubstringScan, ByteStringsProofs

Raw(d) == d \in [bytes : ByteSeq, offsets : Seq(0 .. OffsetLimit - 1)]

\* What an accepted dictionary is.
Acceptable(d) ==
    /\ Readable(d)
    /\ TokenCount(d) \in 1 .. MaxNumTokens
    /\ d.offsets[1] = 0

PairFlag == {"DecreasingOffsets", "EmptyToken", "TokenTooLarge"}

IInv ==
    /\ Raw(dict)
    /\ mode \in {"raw", "compact", "between", "wide", "sealed", "conform", "done"}
    /\ id \in Nat
    /\ mode \in {"raw", "compact"} => compact = Unknown
    /\ mode = "compact" =>
        /\ Refusal = Ok
        /\ id <= TokenCount(dict)
        /\ flaws = UNION {PairFlaws(n) : n \in 0 .. id - 1}
    /\ compact # Unknown => (compact = Ok <=> Acceptable(dict))

-----------------------------------------------------------------------------
(***************************************************************************)
(* Offsets and tokens.                                                     *)
(***************************************************************************)

LEMMA RawFacts ==
    ASSUME NEW d, Raw(d)
    PROVE  /\ d.bytes \in ByteSeq /\ d.offsets \in Seq(Nat)
           /\ Len(d.bytes) \in Nat /\ Len(d.offsets) \in Nat
           /\ TokenCount(d) \in Int /\ Len(d.offsets) = TokenCount(d) + 1
           /\ \A n \in 0 .. TokenCount(d) : d.offsets[n + 1] \in 0 .. OffsetLimit - 1
<1>1. /\ d.bytes \in ByteSeq /\ d.offsets \in Seq(0 .. OffsetLimit - 1)
      /\ OffsetLimit \in Nat
  BY ValidationAssumption DEF Raw
<1>2. Len(d.bytes) \in Nat /\ Len(d.offsets) \in Nat
  BY <1>1, LenProperties DEF ByteSeq
<1>3. \A n \in 1 .. Len(d.offsets) : d.offsets[n] \in 0 .. OffsetLimit - 1
  BY <1>1, ElementOfSeq
<1>4. d.offsets \in Seq(Nat)
  BY <1>1
<1>5. TokenCount(d) = Len(d.offsets) - 1
  BY DEF TokenCount
<1> QED
  BY <1>1, <1>2, <1>3, <1>4, <1>5

\* A subtraction that does not pass zero does not wrap.
LEMMA SmallRemainder ==
    ASSUME NEW limit \in Nat \ {0}, NEW a \in 0 .. limit - 1
    PROVE  a % limit = a
OBVIOUS

LEMMA PositiveGap ==
    ASSUME NEW a \in Nat, NEW b \in Nat, NEW m, b - a \in 1 .. m
    PROVE  a <= b
OBVIOUS

LEMMA RoomBelow ==
    ASSUME NEW a \in Nat, NEW b \in Nat, NEW m \in Nat, NEW end \in Nat,
           a <= b, b + m <= end
    PROVE  a + m <= end
OBVIOUS

\* Offsets that never step back are all at most the last of them.
LEMMA Ascent ==
    ASSUME NEW s \in Seq(Nat), NEW last \in Nat, last < Len(s),
           \A n \in 0 .. last - 1 : s[n + 1] <= s[n + 2]
    PROVE  \A n \in 0 .. last : s[n + 1] <= s[last + 1]
<1>1. Len(s) \in Nat /\ \A n \in 1 .. Len(s) : s[n] \in Nat
  BY LenProperties, ElementOfSeq
<1> DEFINE Above == {g \in 0 .. last : ~(s[last - g + 1] <= s[last + 1])}
<1>2. Above = {}
  <2> SUFFICES ASSUME Above # {} PROVE FALSE
    OBVIOUS
  <2>1. PICK g \in Above : \A h \in Above : g <= h
    <3>1. Above \in SUBSET Nat
      OBVIOUS
    <3> QED
      BY <3>1, LeastNatural
  <2>2. g \in 0 .. last /\ ~(s[last - g + 1] <= s[last + 1])
    BY <2>1
  <2>3. g # 0
    BY <1>1, <2>2
  <2>4. g - 1 \in 0 .. last /\ ~(g <= g - 1)
    BY <2>2, <2>3
  <2>5. s[last - (g - 1) + 1] <= s[last + 1]
    <3>1. g - 1 \notin Above
      BY <2>1, <2>4
    <3> QED
      BY <2>4, <3>1
  <2>6. s[(last - g) + 1] <= s[(last - g) + 2]
    <3> DEFINE n == last - g
    <3>1. n \in 0 .. last - 1
      BY <2>2, <2>3
    <3> HIDE DEF n
    <3>2. s[n + 1] <= s[n + 2]
      BY <3>1
    <3> QED
      BY <3>2 DEF n
  <2>7. last - (g - 1) + 1 = (last - g) + 2
    BY <2>2
  <2>8. /\ s[last - g + 1] \in Nat /\ s[(last - g) + 2] \in Nat /\ s[last + 1] \in Nat
    BY <1>1, <2>2, <2>3
  <2> QED
    BY <2>2, <2>5, <2>6, <2>7, <2>8
<1>3. ASSUME NEW n \in 0 .. last PROVE s[n + 1] <= s[last + 1]
  <2>1. last - n \in 0 .. last /\ last - (last - n) + 1 = n + 1
    OBVIOUS
  <2> QED
    BY <1>2, <2>1
<1> QED
  BY <1>3

\* A pair of offsets is without flaws if and only if it delimits a token.
LEMMA PairFlawsAreExact ==
    ASSUME Raw(dict), NEW n \in 0 .. TokenCount(dict) - 1
    PROVE  PairFlaws(n) = {} <=> TokenLen(dict, n) \in 1 .. MaxTokenSize
<1>1. /\ Start(n) \in 0 .. OffsetLimit - 1 /\ End(n) \in 0 .. OffsetLimit - 1
      /\ OffsetLimit \in Nat \ {0} /\ MaxTokenSize \in Nat
      /\ TokenLen(dict, n) = End(n) - Start(n)
  <2>1. TokenCount(dict) \in Int
    BY RawFacts
  <2>2. n \in 0 .. TokenCount(dict) /\ n + 1 \in 0 .. TokenCount(dict) /\ (n + 1) + 1 = n + 2
    BY <2>1
  <2> QED
    BY <2>2, RawFacts, ValidationAssumption, BytesAssumption DEF Start, End, TokenLen
<1>2. PairFlaws(n) = {} <=> End(n) > Start(n) /\ Length(n) <= MaxTokenSize
  <2>1. /\ "DecreasingOffsets" \in PairFlaws(n) <=> End(n) < Start(n)
        /\ "EmptyToken" \in PairFlaws(n) <=> End(n) = Start(n)
        /\ "TokenTooLarge" \in PairFlaws(n) <=> Length(n) > MaxTokenSize
        /\ PairFlaws(n) \subseteq PairFlag
    BY DEF PairFlaws, PairFlag
  <2>2. PairFlaws(n) = {} <=>
            ~(End(n) < Start(n)) /\ ~(End(n) = Start(n)) /\ ~(Length(n) > MaxTokenSize)
    BY <2>1 DEF PairFlag
  <2>3. Length(n) \in Nat
    BY <1>1 DEF Length
  <2> QED
    BY <1>1, <2>2, <2>3
<1>3. ASSUME End(n) > Start(n) PROVE Length(n) = End(n) - Start(n)
  <2>1. End(n) - Start(n) \in 0 .. OffsetLimit - 1
    BY <1>1, <1>3
  <2> QED
    BY <1>1, <2>1, SmallRemainder DEF Length
<1>4. TokenLen(dict, n) \in 1 .. MaxTokenSize =>
        End(n) > Start(n) /\ End(n) - Start(n) <= MaxTokenSize
  BY <1>1
<1>5. End(n) > Start(n) /\ End(n) - Start(n) <= MaxTokenSize =>
        TokenLen(dict, n) \in 1 .. MaxTokenSize
  BY <1>1
<1> QED
  BY <1>2, <1>3, <1>4, <1>5

\* Tokens are readable if and only if each has a length in range and the last can be
\* read with its padding.
LEMMA LastSuffices ==
    ASSUME NEW d, Raw(d), NEW last \in Nat, TokenCount(d) = last + 1
    PROVE  Readable(d) <=>
            /\ \A n \in 0 .. last : TokenLen(d, n) \in 1 .. MaxTokenSize
            /\ TokenStart(d, last) + MaxTokenSize <= Len(d.bytes)
<1>1. /\ d.bytes \in ByteSeq /\ d.offsets \in Seq(Nat)
      /\ Len(d.offsets) = last + 2 /\ Len(d.bytes) \in Nat /\ MaxTokenSize \in Nat
      /\ \A n \in 0 .. last + 1 : d.offsets[n + 1] \in Nat
  <2>1. OffsetLimit \in Nat /\ MaxTokenSize \in Nat
    BY BytesAssumption, ValidationAssumption
  <2> QED
    BY <2>1, RawFacts
<1>2. Readable(d) =>
        /\ \A n \in 0 .. last : TokenLen(d, n) \in 1 .. MaxTokenSize
        /\ TokenStart(d, last) + MaxTokenSize <= Len(d.bytes)
  BY DEF Readable
<1>3. ASSUME \A n \in 0 .. last : TokenLen(d, n) \in 1 .. MaxTokenSize,
             TokenStart(d, last) + MaxTokenSize <= Len(d.bytes)
      PROVE  Readable(d)
  <2>1. ASSUME NEW n \in 0 .. last - 1 PROVE d.offsets[n + 1] <= d.offsets[n + 2]
    <3>1. TokenLen(d, n) \in 1 .. MaxTokenSize
      BY <1>3
    <3>2. n \in 0 .. last + 1 /\ n + 1 \in 0 .. last + 1 /\ (n + 1) + 1 = n + 2
      OBVIOUS
    <3>3. d.offsets[n + 1] \in Nat /\ d.offsets[n + 2] \in Nat
      BY <1>1, <3>2
    <3>4. d.offsets[n + 2] - d.offsets[n + 1] \in 1 .. MaxTokenSize
      BY <3>1 DEF TokenLen
    <3> QED
      BY <3>3, <3>4, PositiveGap
  <2>2. \A n \in 0 .. last : d.offsets[n + 1] <= d.offsets[last + 1]
    <3> DEFINE s == d.offsets
    <3>1. s \in Seq(Nat) /\ last < Len(s)
      BY <1>1
    <3>2. \A n \in 0 .. last - 1 : s[n + 1] <= s[n + 2]
      BY <2>1
    <3> HIDE DEF s
    <3>3. \A n \in 0 .. last : s[n + 1] <= s[last + 1]
      BY <3>1, <3>2, Ascent
    <3> QED
      BY <3>3 DEF s
  <2>3. ASSUME NEW n \in 0 .. last
        PROVE  TokenStart(d, n) + MaxTokenSize <= Len(d.bytes)
    <3>1. d.offsets[n + 1] \in Nat /\ d.offsets[last + 1] \in Nat
      BY <1>1
    <3>2. d.offsets[n + 1] <= d.offsets[last + 1]
      BY <2>2
    <3>3. d.offsets[last + 1] + MaxTokenSize <= Len(d.bytes)
      BY <1>3 DEF TokenStart
    <3>4. TokenStart(d, n) = d.offsets[n + 1]
      BY DEF TokenStart
    <3>5. MaxTokenSize \in Nat /\ Len(d.bytes) \in Nat
      BY <1>1
    <3> QED
      BY <3>1, <3>2, <3>3, <3>4, <3>5, RoomBelow
  <2>4. Len(d.offsets) >= 1 /\ TokenCount(d) - 1 = last
    BY <1>1
  <2> QED
    BY <1>1, <1>3, <2>3, <2>4 DEF Readable
<1> QED
  BY <1>2, <1>3

\* The verdict after the loop, from the flaws of all pairs and the last token.
LEMMA CompactVerdictIsExact ==
    ASSUME Raw(dict), Refusal = Ok,
           flaws = UNION {PairFlaws(n) : n \in 0 .. TokenCount(dict) - 1}
    PROVE  CompactVerdict = Ok <=> Acceptable(dict)
<1>1. TokenCount(dict) \in 1 .. MaxNumTokens /\ dict.offsets[1] = 0
  <2>1. TokenCount(dict) \in Int /\ MaxNumTokens \in Nat
    BY RawFacts, ValidationAssumption
  <2> QED
    BY <2>1 DEF Refusal, Ok
<1>2. CompactVerdict = Ok <=> flaws = {} /\ LastIsReadable
  <2>1. flaws \subseteq PairFlag
    BY DEF PairFlaws, PairFlag
  <2> QED
    BY <2>1 DEF CompactVerdict, Verdict, Ok, PairFlag
<1>3. flaws = {} <=>
        \A n \in 0 .. TokenCount(dict) - 1 : TokenLen(dict, n) \in 1 .. MaxTokenSize
  <2>1. flaws = {} <=> \A n \in 0 .. TokenCount(dict) - 1 : PairFlaws(n) = {}
    OBVIOUS
  <2> QED
    BY <2>1, PairFlawsAreExact
<1>4. LastIsReadable <=>
        TokenStart(dict, TokenCount(dict) - 1) + MaxTokenSize <= Len(dict.bytes)
  BY DEF LastIsReadable, LastStart, Start, TokenStart
<1>5. Readable(dict) <=> flaws = {} /\ LastIsReadable
  <2>1. TokenCount(dict) - 1 \in Nat /\ TokenCount(dict) = (TokenCount(dict) - 1) + 1
    BY <1>1, ValidationAssumption
  <2> QED
    BY <1>3, <1>4, <2>1, LastSuffices
<1> QED
  BY <1>1, <1>2, <1>5 DEF Acceptable

\* Padding appends zeros, and enough of them for a read of the last token.
LEMMA PaddedFacts ==
    ASSUME NEW d, Raw(d), NEW last \in Nat, TokenCount(d) = last + 1
    PROVE  /\ Raw(Padded(d))
           /\ Padded(d).offsets = d.offsets
           /\ TokenStart(d, last) + MaxTokenSize <= Len(Padded(d).bytes)
<1> DEFINE required == TokenStart(d, last) + MaxTokenSize
           missing == IF Len(d.bytes) < required THEN required - Len(d.bytes) ELSE 0
           zeros == [k \in 1 .. missing |-> 0]
<1>1. last = TokenCount(d) - 1
  OBVIOUS
<1>2. Padded(d) = [d EXCEPT !.bytes = d.bytes \o zeros]
  BY <1>1 DEF Padded
<1>3. required \in Nat /\ Len(d.bytes) \in Nat
  <2>1. last \in 0 .. TokenCount(d) /\ OffsetLimit \in Nat /\ MaxTokenSize \in Nat
    BY BytesAssumption, ValidationAssumption
  <2>2. d.offsets[last + 1] \in Nat
    BY <2>1, RawFacts
  <2>3. TokenStart(d, last) \in Nat
    BY <2>2 DEF TokenStart
  <2> QED
    BY <2>1, <2>3, RawFacts
<1> HIDE DEF required
<1>4. missing \in Nat /\ Len(d.bytes) + missing >= required
  <2> DEFINE have == Len(d.bytes)
  <2>1. have \in Nat /\ required \in Nat
    BY <1>3
  <2> HIDE DEF have
  <2>2. LET gap == IF have < required THEN required - have ELSE 0
        IN  gap \in Nat /\ have + gap >= required
    BY <2>1
  <2> QED
    BY <2>2 DEF have
<1> HIDE DEF missing
<1>5. zeros \in Seq(Byte) /\ Len(zeros) = missing
  <2>1. 0 \in Byte
    BY BytesAssumption DEF Byte
  <2> QED
    BY <1>4, <2>1
<1> HIDE DEF zeros
<1>6. d \in [bytes : Seq(Byte), offsets : Seq(0 .. OffsetLimit - 1)]
  BY DEF Raw, ByteSeq
<1>7. d.bytes \o zeros \in Seq(Byte) /\ Len(d.bytes \o zeros) = Len(d.bytes) + missing
  BY <1>5, <1>6, ConcatProperties
<1>8. Padded(d).bytes = d.bytes \o zeros /\ Padded(d).offsets = d.offsets
  BY <1>2, <1>6
<1>9. Raw(Padded(d))
  BY <1>2, <1>6, <1>7 DEF Raw, ByteSeq
<1> QED
  BY <1>4, <1>7, <1>8, <1>9 DEF required

\* A token that is copied is read from within the bytes.
LEMMA CopiedInBounds ==
    ASSUME Raw(dict), NEW n \in 0 .. TokenCount(dict) - 1, Copied(n)
    PROVE  Start(n) \in Nat /\ Start(n) + MaxTokenSize <= Len(dict.bytes)
<1>1. /\ TokenCount(dict) \in Int /\ OffsetLimit \in Nat
      /\ MaxTokenSize \in Nat /\ Len(dict.bytes) \in Nat
  BY RawFacts, BytesAssumption, ValidationAssumption
<1>2. n \in 0 .. TokenCount(dict) /\ TokenCount(dict) - 1 \in 0 .. TokenCount(dict)
  BY <1>1
<1>3. Start(n) \in Nat /\ LastStart \in Nat
  <2>1. \A k \in 0 .. TokenCount(dict) : dict.offsets[k + 1] \in 0 .. OffsetLimit - 1
    BY RawFacts
  <2>2. \A k \in 0 .. TokenCount(dict) : dict.offsets[k + 1] \in Nat
    BY <1>1, <2>1
  <2>3. \A k \in 0 .. TokenCount(dict) : Start(k) \in Nat
    BY <2>2 DEF Start
  <2> QED
    BY <1>2, <2>3 DEF LastStart
<1>4. Start(n) <= LastStart /\ LastStart + MaxTokenSize <= Len(dict.bytes)
  BY DEF Copied, SourceIsReadable, LastIsReadable
<1> QED
  BY <1>1, <1>3, <1>4, RoomBelow

-----------------------------------------------------------------------------
(***************************************************************************)
(* The invariant.                                                          *)
(***************************************************************************)

LEMMA InitIInv == Init => IInv
<1> SUFFICES ASSUME Init PROVE IInv
  OBVIOUS
<1>1. Raw(dict)
  BY ValidationAssumption DEF Init, Raw
<1> QED
  BY <1>1 DEF Init, IInv

\* Buffers that are refused before the loop are not acceptable.
LEMMA RefusedAtOnce ==
    ASSUME Raw(dict), Refusal # Ok
    PROVE  ~Acceptable(dict)
<1>1. TokenCount(dict) \in Int /\ MaxNumTokens \in Nat
  BY RawFacts, ValidationAssumption
<1> QED
  BY <1>1 DEF Refusal, Acceptable

LEMMA CompactStepIInv == IInv /\ CompactStep => IInv'
<1> SUFFICES ASSUME IInv, CompactStep PROVE IInv'
  OBVIOUS
<1>1. /\ Raw(dict) /\ id \in Nat /\ TokenCount(dict) \in Int
      /\ id < TokenCount(dict) /\ id' = id + 1
      /\ dict' = dict /\ mode' = "compact" /\ mode = "compact" /\ compact' = compact
  BY RawFacts DEF IInv, CompactStep
<1>2. (\A n : PairFlaws(n)' = PairFlaws(n)) /\ Refusal' = Refusal
      /\ TokenCount(dict)' = TokenCount(dict)
  BY <1>1 DEF PairFlaws, Start, End, Length, Refusal
<1>3. flaws' = UNION {PairFlaws(n) : n \in 0 .. id'- 1}
  <2>1. flaws' = (UNION {PairFlaws(n) : n \in 0 .. id - 1}) \cup PairFlaws(id)
    BY <1>1 DEF IInv, CompactStep
  <2>2. \A n : n \in 0 .. id' - 1 <=> n \in 0 .. id - 1 \/ n = id
    BY <1>1
  <2> QED
    BY <2>1, <2>2, Zenon
<1>4. flaws' = UNION {PairFlaws(n)' : n \in 0 .. id'- 1}
  BY <1>2, <1>3
<1>5. Raw(dict)'
  BY <1>1 DEF Raw
<1> QED
  BY <1>1, <1>2, <1>4, <1>5 DEF IInv

LEMMA StepIInv == IInv /\ [Next]_vars => IInv'
<1> SUFFICES ASSUME IInv, [Next]_vars PROVE IInv'
  OBVIOUS
<1>1. Raw(dict) /\ TokenCount(dict) \in Int /\ id \in Nat /\ Len(dict.offsets) = TokenCount(dict) + 1
  BY RawFacts DEF IInv
<1>2. CASE Pad
  <2>1. TokenCount(dict) - 1 \in Nat /\ TokenCount(dict) = (TokenCount(dict) - 1) + 1
    BY <1>1, <1>2 DEF Pad
  <2>2. Raw(dict')
    BY <1>1, <1>2, <2>1, PaddedFacts DEF Pad
  <2>3. mode' = "raw" /\ id' = id /\ compact' = Unknown
    BY <1>2 DEF Pad, IInv
  <2> QED
    BY <1>1, <2>2, <2>3 DEF IInv
<1>3. CASE StartCompact
  <2>1. dict' = dict /\ id' = 0 /\ flaws' = {} /\ Refusal' = Refusal
    BY <1>3 DEF StartCompact, Refusal
  <2>2. Raw(dict)' /\ Acceptable(dict)' = Acceptable(dict) /\ TokenCount(dict)' = TokenCount(dict)
    BY <1>1, <2>1 DEF Raw
  <2>3. CASE Refusal = Ok
    <3>1. mode' = "compact" /\ compact' = Unknown
      BY <1>3, <2>3 DEF StartCompact, IInv
    <3>2. 0 <= TokenCount(dict)
      BY <1>1, <2>3 DEF Refusal, Ok
    <3>3. UNION {PairFlaws(n)' : n \in 0 .. 0 - 1} = {}
      OBVIOUS
    <3> QED
      BY <2>1, <2>2, <2>3, <3>1, <3>2, <3>3 DEF IInv
  <2>4. CASE Refusal # Ok
    <3>1. mode' = "between" /\ compact' = Refusal
      BY <1>3, <2>4 DEF StartCompact
    <3>2. ~Acceptable(dict)
      BY <1>1, <2>4, RefusedAtOnce
    <3> QED
      BY <2>1, <2>2, <2>4, <3>1, <3>2 DEF IInv
  <2> QED
    BY <2>3, <2>4
<1>4. CASE CompactStep
  BY <1>4, CompactStepIInv
<1>5. CASE CompactEnd
  <2>1. /\ dict' = dict /\ id' = id /\ mode' = "between" /\ mode = "compact"
        /\ compact' = CompactVerdict /\ id = TokenCount(dict)
    BY <1>5 DEF CompactEnd
  <2>2. CompactVerdict = Ok <=> Acceptable(dict)
    BY <1>1, <2>1, CompactVerdictIsExact DEF IInv
  <2>3. Raw(dict)' /\ Acceptable(dict)' = Acceptable(dict)
    BY <1>1, <2>1 DEF Raw
  <2> QED
    BY <1>1, <2>1, <2>2, <2>3 DEF IInv
<1>6. ASSUME dict' = dict, compact' = compact, id' \in Nat, mode # "raw", mode # "compact",
             mode' \in {"between", "wide", "sealed", "conform", "done"}
      PROVE  IInv'
  <2>1. Raw(dict)' /\ Acceptable(dict)' = Acceptable(dict)
    BY <1>1, <1>6 DEF Raw
  <2> QED
    BY <1>6, <2>1 DEF IInv
<1>7. CASE StartWide
  BY <1>6, <1>7 DEF StartWide
<1>8. CASE WideStep
  BY <1>1, <1>6, <1>8 DEF WideStep
<1>9. CASE WideEnd
  BY <1>1, <1>6, <1>9 DEF WideEnd
<1>10. CASE StartConform
  BY <1>6, <1>10 DEF StartConform
<1>11. CASE ConformStep
  BY <1>1, <1>6, <1>11 DEF ConformStep
<1>12. CASE ConformEnd
  BY <1>1, <1>6, <1>12 DEF ConformEnd
<1>13. CASE UNCHANGED vars
  <2>1. dict' = dict /\ compact' = compact /\ id' = id /\ mode' = mode /\ flaws' = flaws
    BY <1>13 DEF vars
  <2>2. /\ Raw(dict)' = Raw(dict) /\ Acceptable(dict)' = Acceptable(dict)
        /\ Refusal' = Refusal /\ \A n : PairFlaws(n)' = PairFlaws(n)
        /\ TokenCount(dict)' = TokenCount(dict)
    BY <2>1 DEF Raw, Refusal, PairFlaws, Start, End, Length
  <2> QED
    BY <2>1, <2>2 DEF IInv
<1> QED
  BY <1>2, <1>3, <1>4, <1>5, <1>7, <1>8, <1>9, <1>10, <1>11, <1>12, <1>13 DEF Next

LEMMA IInvImpliesAcceptedIsReadable == IInv => AcceptedIsReadable
<1> SUFFICES ASSUME IInv PROVE AcceptedIsReadable
  OBVIOUS
<1>1. ASSUME mode = "wide", id < TokenCount(dict), Copied(id)
      PROVE  Start(id) + MaxTokenSize <= Len(dict.bytes)
  <2>1. TokenCount(dict) \in Int /\ id \in Nat /\ Raw(dict)
    BY RawFacts DEF IInv
  <2>2. id \in 0 .. TokenCount(dict) - 1
    BY <1>1, <2>1
  <2> QED
    BY <1>1, <2>1, <2>2, CopiedInBounds
<1> QED
  BY <1>1 DEF IInv, AcceptedIsReadable, CopiesInBounds, Acceptable

\* validate_safety accepts exactly the buffers that the decoder can read, whatever the
\* offsets are, and the wide form is copied from within the bytes (compact.rs, wide.rs).
THEOREM SafeDictionaries == Spec => []AcceptedIsReadable
<1>1. Spec => []IInv
  BY InitIInv, StepIInv, PTL DEF Spec
<1>2. []IInv => []AcceptedIsReadable
  BY IInvImpliesAcceptedIsReadable, PTL
<1> QED
  BY <1>1, <1>2

LEMMA PadMakesReadable ==
    ASSUME IInv, Pad, LaysOutTokens(dict)
    PROVE  Readable(dict')
<1> DEFINE last == TokenCount(dict) - 1
<1>1. Raw(dict) /\ last \in Nat /\ TokenCount(dict) = last + 1
  BY RawFacts, ValidationAssumption DEF IInv, LaysOutTokens
<1> HIDE DEF last
<1>2. /\ Raw(dict') /\ dict'.offsets = dict.offsets
      /\ TokenStart(dict, last) + MaxTokenSize <= Len(dict'.bytes)
  BY <1>1, PaddedFacts DEF Pad
<1>3. /\ TokenCount(dict') = last + 1
      /\ TokenStart(dict', last) = TokenStart(dict, last)
      /\ \A n : TokenLen(dict', n) = TokenLen(dict, n)
  BY <1>1, <1>2 DEF TokenCount, TokenStart, TokenLen
<1>4. \A n \in 0 .. last : TokenLen(dict', n) \in 1 .. MaxTokenSize
  BY <1>1, <1>3 DEF LaysOutTokens
<1> QED
  BY <1>1, <1>2, <1>3, <1>4, LastSuffices

\* pad_raw makes any buffers that lay out tokens one after the other, such as those
\* the trainer leaves, ones that validate_safety accepts.
THEOREM PaddingIsEnough == Spec => PaddingSuffices
<1>1. Spec => []IInv
  BY InitIInv, StepIInv, PTL DEF Spec
<1>2. IInv /\ [Next]_vars => [(Pad /\ LaysOutTokens(dict)) => Readable(dict')]_vars
  BY PadMakesReadable
<1> QED
  BY <1>1, <1>2, PTL DEF Spec, PaddingSuffices

-----------------------------------------------------------------------------
(***************************************************************************)
(* The fused check gives the same verdict.                                 *)
(***************************************************************************)

\* The verdict that both safety checks are to give, and the flaws of the pairs before n.
FlawsBefore(n) == UNION {PairFlaws(k) : k \in 0 .. n - 1}
Padding(readable) == IF readable THEN {} ELSE {"MissingPadding"}
SafetyVerdict ==
    IF Refusal # Ok THEN Refusal
    ELSE Verdict(FlawsBefore(TokenCount(dict)) \cup Padding(LastIsReadable))

\* What the fused check makes of a token.
RowCopy(n) ==
    IF Copied(n) THEN SubSeq(dict.bytes, Start(n) + 1, Start(n) + MaxTokenSize)
    ELSE [k \in 1 .. MaxTokenSize |-> 0]
LenCopy(n) == IF Copied(n) THEN Length(n) ELSE 0

WideInv ==
    /\ TypeOK
    /\ compact # Unknown => compact = SafetyVerdict
    /\ compact # Unknown <=> mode \notin {"raw", "compact"}
    /\ mode \in {"raw", "compact", "between"} => rows = <<>> /\ wide = Unknown
    /\ mode = "wide" =>
        /\ Refusal = Ok /\ wide = Unknown
        /\ id <= TokenCount(dict) /\ Len(rows) = id
        /\ flaws = FlawsBefore(id) \cup Padding(LastIsReadable)
                    \cup Padding(\A n \in 0 .. id - 1 : SourceIsReadable(n))
        /\ \A n \in 0 .. id - 1 : rows[n + 1] = RowCopy(n) /\ lens[n + 1] = LenCopy(n)
    /\ VerdictsAgree

\* The tokens of the buffers, as the search and the encoder see them.
Vocab == [n \in 1 .. TokenCount(dict) |-> Sealed(n - 1)]

ConformInv ==
    /\ mode \notin {"conform", "done"} => seen = {} /\ conforms = Unknown
    /\ mode = "conform" =>
        /\ compact = Ok /\ conforms = Unknown
        /\ id <= TokenCount(dict)
        /\ \A n \in 1 .. id - 1 : LexLess(Sealed(n - 1), Sealed(n))
        /\ seen = {Sealed(n)[1] : n \in {k \in 0 .. id - 1 : TokenLen(dict, k) = 1}}
    /\ ConformanceIsExact

\* A decreasing pair is reported before a missing padding, and without one every token
\* starts before the last: what the fused check adds to the flaws changes nothing.
LEMMA SameVerdict ==
    ASSUME Raw(dict), Refusal = Ok
    PROVE  LET N == TokenCount(dict)
           IN  Verdict(FlawsBefore(N) \cup Padding(LastIsReadable)
                    \cup Padding(\A n \in 0 .. N - 1 : SourceIsReadable(n)))
                    = Verdict(FlawsBefore(N) \cup Padding(LastIsReadable))
<1> DEFINE N == TokenCount(dict)
           allReadable == \A n \in 0 .. N - 1 : SourceIsReadable(n)
<1>1. N \in Nat /\ N - 1 \in Nat
  <2>1. N \in Int
    BY RawFacts
  <2> QED
    BY <2>1 DEF Refusal, Ok
<1>2. CASE "DecreasingOffsets" \in FlawsBefore(N)
  BY <1>2 DEF Verdict
<1>3. CASE "DecreasingOffsets" \notin FlawsBefore(N)
  <2> DEFINE s == dict.offsets
             last == N - 1
  <2>1. ASSUME NEW n \in 0 .. last PROVE ~(End(n) < Start(n))
    <3>1. "DecreasingOffsets" \notin PairFlaws(n)
      BY <1>3 DEF FlawsBefore
    <3> QED
      BY <3>1 DEF PairFlaws
  <2>2. /\ s \in Seq(Nat) /\ last < Len(s) /\ OffsetLimit \in Nat
        /\ \A n \in 0 .. N : s[n + 1] \in Nat
    <3>1. OffsetLimit \in Nat
      BY ValidationAssumption
    <3>2. \A n \in 0 .. N : s[n + 1] \in 0 .. OffsetLimit - 1
      BY RawFacts
    <3> QED
      BY <1>1, <3>1, <3>2, RawFacts
  <2>3. ASSUME NEW n \in 0 .. last - 1 PROVE s[n + 1] <= s[n + 2]
    <3>1. n \in 0 .. last /\ n \in 0 .. N /\ n + 1 \in 0 .. N /\ (n + 1) + 1 = n + 2
      BY <1>1
    <3>2. s[n + 1] \in Nat /\ s[n + 2] \in Nat
      BY <2>2, <3>1
    <3>3. ~(s[n + 2] < s[n + 1])
      BY <2>1, <3>1 DEF End, Start
    <3> QED
      BY <3>2, <3>3
  <2>4. \A n \in 0 .. last : s[n + 1] <= s[last + 1]
    <3>1. last \in Nat
      BY <1>1
    <3> HIDE DEF s, last
    <3> QED
      BY <2>2, <2>3, <3>1, Ascent
  <2>5. \A n \in 0 .. N - 1 : Start(n) <= LastStart
    BY <2>4 DEF Start, LastStart
  <2>6. allReadable <=> LastIsReadable
    <3>1. LastIsReadable => allReadable
      BY <2>5 DEF SourceIsReadable
    <3>2. N - 1 \in 0 .. N - 1
      BY <1>1
    <3>3. allReadable => LastIsReadable
      BY <3>2 DEF SourceIsReadable
    <3> QED
      BY <3>1, <3>3
  <2> HIDE DEF allReadable
  <2>7. Padding(allReadable) = Padding(LastIsReadable)
    BY <2>6 DEF Padding
  <2>8. FlawsBefore(N) \cup Padding(LastIsReadable) \cup Padding(allReadable)
            = FlawsBefore(N) \cup Padding(LastIsReadable)
    BY <2>7
  <2> QED
    BY <2>8 DEF allReadable
<1> QED
  BY <1>2, <1>3

\* A copy is a whole row of bytes, and the one that to_wide makes.
LEMMA CopyIsChunk ==
    ASSUME Raw(dict), NEW n \in 0 .. TokenCount(dict) - 1
    PROVE  /\ RowCopy(n) \in [1 .. MaxTokenSize -> Byte] /\ LenCopy(n) \in 0 .. MaxTokenSize
           /\ Copied(n) => RowCopy(n) = Chunk(dict, n) /\ LenCopy(n) = TokenLen(dict, n)
<1> DEFINE M == MaxTokenSize
           at == Start(n)
<1>1. M \in Nat /\ 0 \in Byte /\ dict.bytes \in Seq(Byte) /\ Len(dict.bytes) \in Nat
  BY BytesAssumption, RawFacts DEF Byte, ByteSeq
<1>2. CASE ~Copied(n)
  BY <1>1, <1>2 DEF RowCopy, LenCopy
<1>3. CASE Copied(n)
  <2>1. at \in Nat /\ at + M <= Len(dict.bytes)
    BY <1>3, CopiedInBounds
  <2> HIDE DEF at
  <2>2. \A i \in at + 1 .. at + M : dict.bytes[i] \in Byte
    BY <1>1, <2>1, ElementOfSeq
  <2>3. /\ SubSeq(dict.bytes, at + 1, at + M) \in Seq(Byte)
        /\ Len(SubSeq(dict.bytes, at + 1, at + M)) = M
        /\ \A k \in 1 .. M : SubSeq(dict.bytes, at + 1, at + M)[k] = dict.bytes[at + k]
    <3>1. at + 1 \in Int /\ at + M \in Int /\ (at + M) - (at + 1) + 1 = M
          /\ \A k \in 1 .. M : (at + 1) + k - 1 = at + k
          /\ (at + 1 > at + M => M = 0)
      BY <1>1, <2>1
    <3> QED
      BY <1>1, <2>2, <3>1, SubSeqProperties
  <2> DEFINE sub == SubSeq(dict.bytes, at + 1, at + M)
  <2>4. sub = [k \in 1 .. M |-> dict.bytes[at + k]] /\ sub \in [1 .. M -> Byte]
    <3>1. sub \in Seq(Byte) /\ Len(sub) = M /\ \A k \in 1 .. M : sub[k] = dict.bytes[at + k]
      BY <2>3
    <3> HIDE DEF sub
    <3>2. sub \in [1 .. M -> Byte]
      BY <3>1, LenProperties
    <3> QED
      BY <3>1, <3>2
  <2>5. RowCopy(n) = sub
    BY <1>3 DEF RowCopy, at
  <2>6. Chunk(dict, n) = [k \in 1 .. M |-> dict.bytes[at + k]]
    <3>1. (at + M) - at = M /\ TokenStart(dict, n) = at
      BY <1>1, <2>1 DEF TokenStart, Start, at
    <3> QED
      BY <3>1 DEF Chunk, Slice
  <2>7. LenCopy(n) = TokenLen(dict, n) /\ LenCopy(n) \in 0 .. M
    <3>1. LenCopy(n) = Length(n) /\ End(n) > Start(n) /\ Length(n) <= M
      BY <1>3 DEF LenCopy, Copied
    <3>2. /\ Start(n) \in 0 .. OffsetLimit - 1 /\ End(n) \in 0 .. OffsetLimit - 1
          /\ OffsetLimit \in Nat \ {0} /\ TokenLen(dict, n) = End(n) - Start(n)
      <4>1. TokenCount(dict) \in Int
        BY RawFacts
      <4>2. n \in 0 .. TokenCount(dict) /\ n + 1 \in 0 .. TokenCount(dict) /\ (n + 1) + 1 = n + 2
        BY <4>1
      <4> QED
        BY <4>2, RawFacts, ValidationAssumption DEF Start, End, TokenLen
    <3>3. End(n) - Start(n) \in 0 .. OffsetLimit - 1
      BY <3>1, <3>2
    <3>4. Length(n) = End(n) - Start(n)
      BY <3>2, <3>3, SmallRemainder DEF Length
    <3> QED
      BY <1>1, <3>1, <3>2, <3>3, <3>4
  <2> HIDE DEF sub
  <2> QED
    BY <2>4, <2>5, <2>6, <2>7
<1> QED
  BY <1>2, <1>3

\* If nothing is flawed, every token is copied.
LEMMA AllCopied ==
    ASSUME Raw(dict), Refusal = Ok,
           Verdict(FlawsBefore(TokenCount(dict)) \cup Padding(LastIsReadable)
                    \cup Padding(\A n \in 0 .. TokenCount(dict) - 1 : SourceIsReadable(n))) = Ok
    PROVE  \A n \in 0 .. TokenCount(dict) - 1 : Copied(n)
<1> DEFINE N == TokenCount(dict)
           allReadable == \A n \in 0 .. N - 1 : SourceIsReadable(n)
           set == FlawsBefore(N) \cup Padding(LastIsReadable) \cup Padding(allReadable)
<1>1. FlawsBefore(N) \cap PairFlag = {} /\ allReadable
  <2>1. Verdict(set) = Ok
    OBVIOUS
  <2>2. set \cap (PairFlag \cup {"MissingPadding"}) = {}
    <3> HIDE DEF set
    <3> QED
      BY <2>1 DEF Verdict, PairFlag, Ok
  <2>3. "MissingPadding" \notin Padding(allReadable)
    BY <2>2
  <2>4. FlawsBefore(N) \cap PairFlag = {}
    BY <2>2
  <2> HIDE DEF allReadable
  <2> QED
    BY <2>3, <2>4 DEF Padding
<1>2. ASSUME NEW n \in 0 .. N - 1 PROVE Copied(n)
  <2>1. PairFlaws(n) = {}
    <3>1. PairFlaws(n) \subseteq FlawsBefore(N)
      BY DEF FlawsBefore
    <3>2. PairFlaws(n) \subseteq PairFlag
      BY DEF PairFlaws, PairFlag
    <3> QED
      BY <1>1, <3>1, <3>2
  <2>2. ~(End(n) < Start(n)) /\ ~(End(n) = Start(n)) /\ ~(Length(n) > MaxTokenSize)
    <3>1. "DecreasingOffsets" \notin PairFlaws(n) /\ "EmptyToken" \notin PairFlaws(n)
          /\ "TokenTooLarge" \notin PairFlaws(n)
      BY <2>1
    <3> QED
      BY <3>1 DEF PairFlaws
  <2>3. End(n) \in Nat /\ Start(n) \in Nat /\ Length(n) \in Nat /\ MaxTokenSize \in Nat
    <3>1. TokenCount(dict) \in Int /\ OffsetLimit \in Nat \ {0} /\ MaxTokenSize \in Nat
      BY RawFacts, BytesAssumption, ValidationAssumption
    <3>2. n \in 0 .. TokenCount(dict) /\ n + 1 \in 0 .. TokenCount(dict) /\ (n + 1) + 1 = n + 2
      BY <3>1
    <3>3. End(n) \in Nat /\ Start(n) \in Nat
      BY <3>1, <3>2, RawFacts DEF Start, End
    <3> QED
      BY <3>1, <3>3 DEF Length
  <2> QED
    BY <1>1, <2>2, <2>3 DEF Copied
<1> QED
  BY <1>2

\* What depends on the buffers only does not change while they do not.
LEMMA SameBuffers ==
    ASSUME dict' = dict
    PROVE  /\ TokenCount(dict)' = TokenCount(dict) /\ ToWide(dict)' = ToWide(dict)
           /\ Refusal' = Refusal /\ SafetyVerdict' = SafetyVerdict
           /\ LastIsReadable' = LastIsReadable
           /\ \A n : FlawsBefore(n)' = FlawsBefore(n)
           /\ \A n : SourceIsReadable(n)' = SourceIsReadable(n)
           /\ \A n : RowCopy(n)' = RowCopy(n) /\ LenCopy(n)' = LenCopy(n)
<1>1. /\ TokenCount(dict)' = TokenCount(dict) /\ ToWide(dict)' = ToWide(dict)
      /\ Refusal' = Refusal /\ LastIsReadable' = LastIsReadable
      /\ \A n : Start(n)' = Start(n) /\ End(n)' = End(n) /\ Length(n)' = Length(n)
      /\ \A n : PairFlaws(n)' = PairFlaws(n)
      /\ \A n : SourceIsReadable(n)' = SourceIsReadable(n)
      /\ \A n : Copied(n)' = Copied(n)
  BY DEF TokenCount, ToWide, Chunk, Slice, TokenStart, TokenLen, Refusal, LastIsReadable,
         LastStart, Start, End, Length, PairFlaws, SourceIsReadable, Copied
<1>2. \A n : FlawsBefore(n)' = FlawsBefore(n)
  BY <1>1 DEF FlawsBefore
<1>3. SafetyVerdict' = SafetyVerdict
  BY <1>1, <1>2 DEF SafetyVerdict
<1>4. \A n : RowCopy(n)' = RowCopy(n) /\ LenCopy(n)' = LenCopy(n)
  BY <1>1 DEF RowCopy, LenCopy
<1> QED
  BY <1>1, <1>2, <1>3, <1>4

LEMMA VerdictTypes ==
    /\ Refusal \in Safety \cup {Ok}
    /\ \A set : Verdict(set) \in Safety \cup {Ok}
    /\ \A n : PairFlaws(n) \subseteq Safety
    /\ \A b \in BOOLEAN : Padding(b) \subseteq Safety
    /\ Unknown \notin Safety \cup {Ok}
  BY DEF Refusal, Verdict, PairFlaws, Padding, Safety, Ok, Unknown

LEMMA WideInit == Init => WideInv
<1> SUFFICES ASSUME Init PROVE WideInv
  OBVIOUS
<1>1. dict \in [bytes : ByteSeq, offsets : Seq(0 .. OffsetLimit - 1)]
  BY ValidationAssumption DEF Init
<1>2. Unknown # Ok /\ Len(rows) = 0 /\ Len(lens) = 0
  BY DEF Init, Unknown, Ok
<1>3. TypeOK
  BY <1>1, <1>2 DEF Init, TypeOK, Unknown, Ok, Safety
<1> QED
  BY <1>2, <1>3 DEF Init, WideInv, VerdictsAgree

LEMMA PadWide == IInv /\ WideInv /\ Pad => WideInv'
<1> SUFFICES ASSUME IInv, WideInv, Pad PROVE WideInv'
  OBVIOUS
<1>1. Raw(dict) /\ TokenCount(dict) \in Int /\ Len(dict.offsets) = TokenCount(dict) + 1
  BY RawFacts DEF IInv
<1>2. TokenCount(dict) - 1 \in Nat /\ TokenCount(dict) = (TokenCount(dict) - 1) + 1
  BY <1>1 DEF Pad
<1>3. Raw(dict')
  BY <1>1, <1>2, PaddedFacts DEF Pad
<1>4. /\ mode = "raw" /\ compact = Unknown /\ wide = Unknown /\ rows = <<>>
      /\ mode' = mode /\ id' = id /\ flaws' = flaws /\ compact' = compact /\ wide' = wide
      /\ conforms' = conforms /\ rows' = rows /\ lens' = lens /\ seen' = seen
  BY DEF Pad, WideInv
<1>5. TypeOK'
  BY <1>3, <1>4 DEF TypeOK, WideInv, Raw
<1>6. Unknown # Ok
  BY DEF Unknown, Ok
<1> QED
  BY <1>4, <1>5, <1>6 DEF WideInv, VerdictsAgree

LEMMA CompactWide ==
    ASSUME IInv, WideInv, StartCompact \/ CompactStep \/ CompactEnd
    PROVE  WideInv'
<1>1. /\ dict' = dict /\ wide' = wide /\ conforms' = conforms
      /\ rows' = rows /\ lens' = lens /\ seen' = seen
      /\ mode \in {"raw", "compact"} /\ mode' \in {"compact", "between"}
  BY DEF StartCompact, CompactStep, CompactEnd
<1>2. wide = Unknown /\ rows = <<>> /\ Unknown # Ok
  BY <1>1 DEF WideInv, Unknown, Ok
<1>3. /\ compact' # Unknown => compact' = SafetyVerdict
      /\ compact' # Unknown <=> mode' = "between"
      /\ compact' \in Safety \cup {Ok, Unknown}
  <2>1. CASE StartCompact
    <3>1. compact = Unknown
      BY <2>1 DEF StartCompact, WideInv
    <3>2. CASE Refusal = Ok
      BY <2>1, <3>1, <3>2 DEF StartCompact
    <3>3. CASE Refusal # Ok
      <4>1. compact' = Refusal /\ mode' = "between" /\ compact' = SafetyVerdict
        BY <2>1, <3>3 DEF StartCompact, SafetyVerdict
      <4> QED
        BY <4>1, VerdictTypes, Zenon
    <3> QED
      BY <3>2, <3>3
  <2>2. CASE CompactStep
    BY <2>2 DEF CompactStep, WideInv
  <2>3. CASE CompactEnd
    <3>1. /\ mode = "compact" /\ mode' = "between" /\ id = TokenCount(dict)
          /\ compact' = CompactVerdict
      BY <2>3 DEF CompactEnd
    <3>2. Refusal = Ok /\ flaws = FlawsBefore(TokenCount(dict))
      BY <3>1 DEF IInv, FlawsBefore
    <3>3. compact' = SafetyVerdict
      BY <3>1, <3>2 DEF SafetyVerdict, CompactVerdict, Padding
    <3>4. compact' \in Safety \cup {Ok}
      BY <3>1, VerdictTypes DEF CompactVerdict
    <3> QED
      BY <3>1, <3>3, <3>4, VerdictTypes
  <2> QED
    BY <2>1, <2>2, <2>3
<1>4. flaws' \subseteq Safety /\ id' \in Nat
  <2>1. PairFlaws(id) \subseteq Safety /\ id \in Nat /\ flaws \subseteq Safety
    BY VerdictTypes DEF WideInv, TypeOK
  <2> QED
    BY <2>1 DEF StartCompact, CompactStep, CompactEnd
<1>5. TypeOK'
  BY <1>1, <1>3, <1>4 DEF TypeOK, WideInv
<1>6. SafetyVerdict' = SafetyVerdict
  BY <1>1, SameBuffers
<1> QED
  BY <1>1, <1>2, <1>3, <1>5, <1>6 DEF WideInv, VerdictsAgree

LEMMA StartWideWide ==
    ASSUME IInv, WideInv, StartWide
    PROVE  WideInv'
<1>1. /\ dict' = dict /\ compact' = compact /\ conforms' = conforms
      /\ rows' = rows /\ lens' = lens /\ seen' = seen /\ id' = 0
      /\ mode = "between" /\ mode' \in {"wide", "sealed"}
  BY DEF StartWide
<1>2. /\ wide = Unknown /\ rows = <<>> /\ Unknown # Ok
      /\ compact # Unknown /\ compact = SafetyVerdict
  BY <1>1 DEF WideInv, Unknown, Ok
<1>3. CASE Refusal = Ok
  <2>1. /\ mode' = "wide" /\ wide' = Unknown
        /\ flaws' = Padding(LastIsReadable)
    BY <1>2, <1>3 DEF StartWide, Padding
  <2>2. flaws' \subseteq Safety
    <3>1. LastIsReadable \in BOOLEAN
      BY DEF LastIsReadable
    <3> QED
      BY <2>1, VerdictTypes DEF Padding, Safety
  <2>3. TypeOK'
    BY <1>1, <2>1, <2>2 DEF TypeOK, WideInv
  <2>4. FlawsBefore(0) = {} /\ Padding(\A n \in 0 .. 0 - 1 : SourceIsReadable(n)) = {}
    BY DEF FlawsBefore, Padding
  <2>5. flaws' = FlawsBefore(0) \cup Padding(LastIsReadable)
                    \cup Padding(\A n \in 0 .. 0 - 1 : SourceIsReadable(n))
    BY <2>1, <2>4, Zenon
  <2>6. 0 <= TokenCount(dict) /\ Len(rows) = 0
    <3>1. TokenCount(dict) \in Int
      BY RawFacts DEF IInv
    <3> QED
      BY <1>2, <1>3, <3>1 DEF Refusal, Ok
  <2>7. /\ SafetyVerdict' = SafetyVerdict /\ Refusal' = Refusal
        /\ TokenCount(dict)' = TokenCount(dict)
        /\ flaws' = FlawsBefore(id)' \cup Padding(LastIsReadable)'
                    \cup Padding(\A n \in 0 .. id - 1 : SourceIsReadable(n))'
    <3>1. FlawsBefore(0)' = FlawsBefore(0) /\ LastIsReadable' = LastIsReadable
          /\ Padding(\A n \in 0 .. 0 - 1 : SourceIsReadable(n))'
                = Padding(\A n \in 0 .. 0 - 1 : SourceIsReadable(n))
      BY <1>1, SameBuffers DEF Padding
    <3>2. FlawsBefore(id)' = FlawsBefore(0)'
          /\ Padding(\A n \in 0 .. id - 1 : SourceIsReadable(n))'
                = Padding(\A n \in 0 .. 0 - 1 : SourceIsReadable(n))'
      BY <1>1 DEF FlawsBefore, Padding
    <3>3. Padding(LastIsReadable)' = Padding(LastIsReadable)
      BY <3>1 DEF Padding
    <3>4. SafetyVerdict' = SafetyVerdict /\ Refusal' = Refusal
          /\ TokenCount(dict)' = TokenCount(dict)
      BY <1>1, SameBuffers
    <3> QED
      BY <2>5, <3>1, <3>2, <3>3, <3>4
  <2> QED
    BY <1>1, <1>2, <1>3, <2>1, <2>3, <2>6, <2>7 DEF WideInv, VerdictsAgree
<1>4. CASE Refusal # Ok
  <2>1. mode' = "sealed" /\ wide' = Refusal /\ flaws' = flaws
    BY <1>4 DEF StartWide
  <2>2. wide' = compact' /\ wide' # Ok
    BY <1>1, <1>2, <1>4, <2>1 DEF SafetyVerdict
  <2>3. TypeOK'
    BY <1>1, <2>1, VerdictTypes DEF TypeOK, WideInv
  <2>4. SafetyVerdict' = SafetyVerdict
    BY <1>1, SameBuffers
  <2> QED
    BY <1>1, <1>2, <2>1, <2>2, <2>3, <2>4 DEF WideInv, VerdictsAgree
<1> QED
  BY <1>3, <1>4

\* The tokens of acceptable buffers are tokens.
LEMMA SealedIsToken ==
    ASSUME Raw(dict), Acceptable(dict), NEW n \in 0 .. TokenCount(dict) - 1
    PROVE  Sealed(n) \in Token /\ Len(Sealed(n)) = TokenLen(dict, n)
<1> DEFINE from == dict.offsets[n + 1]
           to == dict.offsets[n + 2]
<1>1. /\ to - from \in 1 .. MaxTokenSize /\ from + MaxTokenSize <= Len(dict.bytes)
      /\ dict.bytes \in ByteSeq /\ TokenLen(dict, n) = to - from
  BY DEF Acceptable, Readable, TokenLen, TokenStart
<1>2. from \in Nat /\ to \in Nat /\ Len(dict.bytes) \in Nat /\ MaxTokenSize \in Nat
  <2>1. TokenCount(dict) \in Int /\ OffsetLimit \in Nat
    BY RawFacts, ValidationAssumption
  <2>2. n \in 0 .. TokenCount(dict) /\ n + 1 \in 0 .. TokenCount(dict) /\ (n + 1) + 1 = n + 2
    BY <2>1
  <2> QED
    BY <2>1, <2>2, RawFacts, BytesAssumption
<1>3. Sealed(n) = Slice(dict.bytes, from, to)
  BY DEF Sealed, TokenBytes, TokenStart
<1> HIDE DEF from, to
<1>4. from <= to /\ to <= Len(dict.bytes)
  BY <1>1, <1>2
<1>5. Sealed(n) \in ByteSeq /\ Len(Sealed(n)) = to - from
  BY <1>1, <1>2, <1>3, <1>4, SliceProperties
<1> QED
  BY <1>1, <1>5, TokenIntro

LEMMA WideStepWide ==
    ASSUME IInv, WideInv, WideStep
    PROVE  WideInv'
<1>1. /\ dict' = dict /\ compact' = compact /\ conforms' = conforms /\ wide' = wide
      /\ seen' = seen /\ id' = id + 1 /\ mode = "wide" /\ mode' = "wide"
      /\ id < TokenCount(dict)
      /\ flaws' = flaws \cup PairFlaws(id) \cup Padding(SourceIsReadable(id))
      /\ rows' = Append(rows, RowCopy(id)) /\ lens' = Append(lens, LenCopy(id))
  BY DEF WideStep, RowCopy, LenCopy, Padding
<1>2. /\ wide = Unknown /\ Unknown # Ok /\ Refusal = Ok /\ Len(rows) = id /\ Len(lens) = id
      /\ compact # Unknown /\ compact = SafetyVerdict
      /\ flaws = FlawsBefore(id) \cup Padding(LastIsReadable)
                    \cup Padding(\A n \in 0 .. id - 1 : SourceIsReadable(n))
      /\ \A n \in 0 .. id - 1 : rows[n + 1] = RowCopy(n) /\ lens[n + 1] = LenCopy(n)
      /\ rows \in Seq([1 .. MaxTokenSize -> Byte]) /\ lens \in Seq(0 .. MaxTokenSize)
      /\ id \in Nat /\ flaws \subseteq Safety /\ TypeOK
  BY <1>1 DEF WideInv, TypeOK, Unknown, Ok
<1>3. TokenCount(dict) \in Int /\ Raw(dict)
  BY RawFacts DEF IInv
<1>4. id \in 0 .. TokenCount(dict) - 1
  BY <1>1, <1>2, <1>3
<1>5. RowCopy(id) \in [1 .. MaxTokenSize -> Byte] /\ LenCopy(id) \in 0 .. MaxTokenSize
  BY <1>3, <1>4, CopyIsChunk
<1>6. /\ rows' \in Seq([1 .. MaxTokenSize -> Byte]) /\ Len(rows') = id + 1
      /\ \A n \in 1 .. id : rows'[n] = rows[n]
      /\ rows'[id + 1] = RowCopy(id)
  BY <1>1, <1>2, <1>5, AppendProperties
<1>7. /\ lens' \in Seq(0 .. MaxTokenSize) /\ Len(lens') = id + 1
      /\ \A n \in 1 .. id : lens'[n] = lens[n]
      /\ lens'[id + 1] = LenCopy(id)
  BY <1>1, <1>2, <1>5, AppendProperties
<1>8. \A n \in 0 .. id' - 1 : rows'[n + 1] = RowCopy(n) /\ lens'[n + 1] = LenCopy(n)
  <2> SUFFICES ASSUME NEW n \in 0 .. id' - 1
               PROVE  rows'[n + 1] = RowCopy(n) /\ lens'[n + 1] = LenCopy(n)
    OBVIOUS
  <2>1. CASE n = id
    BY <1>6, <1>7, <2>1
  <2>2. CASE n # id
    <3>1. n \in 0 .. id - 1 /\ n + 1 \in 1 .. id
      BY <1>1, <1>2, <2>2
    <3> QED
      BY <1>2, <1>6, <1>7, <3>1
  <2> QED
    BY <2>1, <2>2
<1>9. flaws' = FlawsBefore(id') \cup Padding(LastIsReadable)
                    \cup Padding(\A n \in 0 .. id' - 1 : SourceIsReadable(n))
  <2>1. \A n : n \in 0 .. id' - 1 <=> n \in 0 .. id - 1 \/ n = id
    BY <1>1, <1>2
  <2>2. FlawsBefore(id') = FlawsBefore(id) \cup PairFlaws(id)
    BY <2>1, Zenon DEF FlawsBefore
  <2>3. Padding(\A n \in 0 .. id' - 1 : SourceIsReadable(n))
            = Padding(\A n \in 0 .. id - 1 : SourceIsReadable(n)) \cup Padding(SourceIsReadable(id))
    <3> DEFINE before == \A n \in 0 .. id - 1 : SourceIsReadable(n)
               all == \A n \in 0 .. id' - 1 : SourceIsReadable(n)
    <3>1. all <=> before /\ SourceIsReadable(id)
      BY <2>1, Zenon
    <3> HIDE DEF before, all
    <3>2. Padding(all) = Padding(before) \cup Padding(SourceIsReadable(id))
      BY <3>1 DEF Padding
    <3> QED
      BY <3>2 DEF before, all
  <2> QED
    BY <1>1, <1>2, <2>2, <2>3, Zenon
<1>10. flaws' \subseteq Safety
  <2>1. SourceIsReadable(id) \in BOOLEAN
    BY DEF SourceIsReadable
  <2> QED
    BY <1>1, <1>2, <2>1, VerdictTypes
<1>11. TypeOK'
  <2>1. id' \in Nat /\ Len(lens') = Len(rows')
    BY <1>1, <1>2, <1>6, <1>7
  <2> QED
    BY <1>1, <1>2, <1>6, <1>7, <1>10, <2>1 DEF TypeOK
<1>12. /\ SafetyVerdict' = SafetyVerdict /\ Refusal' = Refusal
       /\ TokenCount(dict)' = TokenCount(dict)
       /\ \A n : RowCopy(n)' = RowCopy(n) /\ LenCopy(n)' = LenCopy(n)
       /\ FlawsBefore(id)' = FlawsBefore(id') /\ Padding(LastIsReadable)' = Padding(LastIsReadable)
       /\ Padding(\A n \in 0 .. id - 1 : SourceIsReadable(n))'
                = Padding(\A n \in 0 .. id' - 1 : SourceIsReadable(n))
  BY <1>1, SameBuffers DEF Padding, FlawsBefore, PairFlaws, Start, End, Length
<1>13. id' <= TokenCount(dict) /\ Len(rows') = id'
  BY <1>1, <1>2, <1>3, <1>6
<1>14. \A n \in 0 .. id' - 1 : rows'[n + 1] = RowCopy(n)' /\ lens'[n + 1] = LenCopy(n)'
  BY <1>8, <1>12
<1>15. flaws' = FlawsBefore(id)' \cup Padding(LastIsReadable)'
                    \cup Padding(\A n \in 0 .. id - 1 : SourceIsReadable(n))'
  BY <1>9, <1>12
<1> QED
  BY <1>1, <1>2, <1>11, <1>12, <1>13, <1>14, <1>15 DEF WideInv, VerdictsAgree

\* At the end the verdicts are the same, and if they are good, nothing was held back.
LEMMA WideEndWide ==
    ASSUME IInv, WideInv, WideEnd
    PROVE  WideInv'
<1> DEFINE N == TokenCount(dict)
<1>1. /\ dict' = dict /\ compact' = compact /\ conforms' = conforms /\ wide' = Verdict(flaws)
      /\ seen' = seen /\ id' = id /\ mode = "wide" /\ mode' = "sealed" /\ id = N
      /\ rows' = rows /\ lens' = lens /\ flaws' = flaws
  BY DEF WideEnd
<1>2. /\ Refusal = Ok /\ Len(rows) = N /\ Len(lens) = N
      /\ compact # Unknown /\ compact = SafetyVerdict
      /\ flaws = FlawsBefore(N) \cup Padding(LastIsReadable)
                    \cup Padding(\A n \in 0 .. N - 1 : SourceIsReadable(n))
      /\ \A n \in 0 .. N - 1 : rows[n + 1] = RowCopy(n) /\ lens[n + 1] = LenCopy(n)
      /\ rows \in Seq([1 .. MaxTokenSize -> Byte]) /\ lens \in Seq(0 .. MaxTokenSize)
      /\ TypeOK
  BY <1>1 DEF WideInv, TypeOK
<1>3. Raw(dict) /\ N \in Nat
  BY <1>1, <1>2 DEF IInv, TypeOK
<1>4. wide' = compact
  BY <1>1, <1>2, <1>3, SameVerdict DEF SafetyVerdict
<1>5. ASSUME wide' = Ok
      PROVE  [rows |-> rows, lens |-> lens] = ToWide(dict)
  <2>1. \A n \in 0 .. N - 1 : Copied(n)
    BY <1>1, <1>2, <1>3, <1>5, AllCopied
  <2>2. \A n \in 0 .. N - 1 : /\ rows[n + 1] = Chunk(dict, n)
                              /\ lens[n + 1] = TokenLen(dict, n)
    BY <1>2, <1>3, <2>1, CopyIsChunk
  <2>3. \A k \in 1 .. N : k - 1 \in 0 .. N - 1 /\ (k - 1) + 1 = k
    BY <1>3
  <2>4. \A k \in 1 .. N : rows[k] = Chunk(dict, k - 1) /\ lens[k] = TokenLen(dict, k - 1)
    <3> SUFFICES ASSUME NEW k \in 1 .. N
                 PROVE  rows[k] = Chunk(dict, k - 1) /\ lens[k] = TokenLen(dict, k - 1)
      OBVIOUS
    <3>1. rows[(k - 1) + 1] = Chunk(dict, k - 1) /\ lens[(k - 1) + 1] = TokenLen(dict, k - 1)
      BY <2>2, <2>3
    <3> QED
      BY <2>3, <3>1
  <2>5. rows = [k \in 1 .. N |-> rows[k]] /\ lens = [k \in 1 .. N |-> lens[k]]
    BY <1>2, LenProperties
  <2>6. /\ rows = [n \in 1 .. N |-> Chunk(dict, n - 1)]
        /\ lens = [n \in 1 .. N |-> TokenLen(dict, n - 1)]
    BY <2>4, <2>5
  <2> QED
    BY <2>6 DEF ToWide
<1>6. TypeOK'
  BY <1>1, <1>2, VerdictTypes DEF TypeOK
<1>7. SafetyVerdict' = SafetyVerdict /\ ToWide(dict)' = ToWide(dict)
  BY <1>1, SameBuffers
<1> QED
  BY <1>1, <1>2, <1>4, <1>5, <1>6, <1>7 DEF WideInv, VerdictsAgree

LEMMA ConformWide ==
    ASSUME IInv, WideInv, ConformInv, StartConform \/ ConformStep \/ ConformEnd \/ UNCHANGED vars
    PROVE  WideInv'
<1>1. CASE UNCHANGED vars
  <2>1. dict' = dict /\ mode' = mode /\ id' = id /\ flaws' = flaws /\ compact' = compact
        /\ wide' = wide /\ conforms' = conforms /\ rows' = rows /\ lens' = lens /\ seen' = seen
    BY <1>1 DEF vars
  <2>2. /\ SafetyVerdict' = SafetyVerdict /\ Refusal' = Refusal
        /\ TokenCount(dict)' = TokenCount(dict)
        /\ \A n : RowCopy(n)' = RowCopy(n) /\ LenCopy(n)' = LenCopy(n)
        /\ FlawsBefore(id)' = FlawsBefore(id) /\ Padding(LastIsReadable)' = Padding(LastIsReadable)
        /\ Padding(\A n \in 0 .. id - 1 : SourceIsReadable(n))'
                = Padding(\A n \in 0 .. id - 1 : SourceIsReadable(n))
        /\ ToWide(dict)' = ToWide(dict)
    BY <2>1, SameBuffers DEF Padding, FlawsBefore, PairFlaws, Start, End, Length
  <2>3. TypeOK'
    BY <2>1 DEF TypeOK, WideInv
  <2> QED
    BY <2>1, <2>2, <2>3 DEF WideInv, VerdictsAgree
<1>2. CASE StartConform \/ ConformStep \/ ConformEnd
  <2>1. /\ dict' = dict /\ flaws' = flaws /\ compact' = compact /\ wide' = wide
        /\ rows' = rows /\ lens' = lens
        /\ mode \in {"sealed", "conform"} /\ mode' \in {"conform", "done"}
    BY <1>2 DEF StartConform, ConformStep, ConformEnd
  <2>2. id' \in Nat /\ conforms' \in Conformance \cup {Ok, Unknown}
    BY <1>2 DEF StartConform, ConformStep, ConformEnd, WideInv, TypeOK, Conformance
  <2>3. seen' \subseteq Byte
    <3>1. CASE ConformStep /\ seen' # seen
      <4>1. /\ mode = "conform" /\ id < TokenCount(dict) /\ TokenLen(dict, id) = 1
            /\ seen' = seen \cup {Sealed(id)[1]}
        BY <3>1 DEF ConformStep
      <4>2. Acceptable(dict)
        BY <4>1 DEF IInv, ConformInv, Unknown, Ok
      <4>3. id \in 0 .. TokenCount(dict) - 1
        <5>1. id \in Nat /\ TokenCount(dict) \in Int
          BY RawFacts DEF IInv
        <5> QED
          BY <4>1, <5>1
      <4>4. Sealed(id) \in Token /\ Len(Sealed(id)) = 1
        BY <4>1, <4>2, <4>3, SealedIsToken DEF IInv
      <4>5. Sealed(id)[1] \in Byte
        BY <4>4, TokenType
      <4> QED
        BY <4>1, <4>5 DEF WideInv, TypeOK
    <3> QED
      BY <1>2, <3>1 DEF StartConform, ConformStep, ConformEnd, WideInv, TypeOK
  <2>4. TypeOK'
    BY <2>1, <2>2, <2>3 DEF TypeOK, WideInv
  <2>5. SafetyVerdict' = SafetyVerdict /\ ToWide(dict)' = ToWide(dict)
    BY <2>1, SameBuffers
  <2> QED
    BY <2>1, <2>4, <2>5 DEF WideInv, VerdictsAgree
<1> QED
  BY <1>1, <1>2

-----------------------------------------------------------------------------
(***************************************************************************)
(* Conformance.                                                            *)
(***************************************************************************)

\* The vocabulary of acceptable buffers: its tokens, and the bytes that are tokens.
LEMMA VocabFacts ==
    ASSUME Raw(dict), Acceptable(dict)
    PROVE  /\ Vocab \in Seq(Token) /\ Len(Vocab) = TokenCount(dict) /\ TokenCount(dict) \in Nat \ {0}
           /\ \A n \in 0 .. TokenCount(dict) - 1 : Vocab[n + 1] = Sealed(n)
           /\ SingleByteTokens \subseteq TokensOf(Vocab) <=>
                Byte \subseteq {Sealed(n)[1] :
                    n \in {k \in 0 .. TokenCount(dict) - 1 : TokenLen(dict, k) = 1}}
<1> DEFINE N == TokenCount(dict)
           single == {k \in 0 .. N - 1 : TokenLen(dict, k) = 1}
<1>1. N \in Nat \ {0}
  BY ValidationAssumption DEF Acceptable
<1>2. \A n \in 0 .. N - 1 : Sealed(n) \in Token /\ Len(Sealed(n)) = TokenLen(dict, n)
  BY SealedIsToken
<1>3. \A k \in 1 .. N : k - 1 \in 0 .. N - 1
  BY <1>1
<1>4. Vocab \in [1 .. N -> Token]
  BY <1>2, <1>3 DEF Vocab
<1>5. Vocab \in Seq(Token) /\ Len(Vocab) = N
  BY <1>1, <1>4
<1>6. \A n \in 0 .. N - 1 : n + 1 \in 1 .. N /\ (n + 1) - 1 = n
  BY <1>1
<1>7. \A n \in 0 .. N - 1 : Vocab[n + 1] = Sealed(n)
  <2> SUFFICES ASSUME NEW n \in 0 .. N - 1 PROVE Vocab[n + 1] = Sealed(n)
    OBVIOUS
  <2>1. Vocab[n + 1] = Sealed((n + 1) - 1)
    BY <1>6 DEF Vocab
  <2> QED
    BY <1>6, <2>1
<1>8. ASSUME NEW b \in Byte
      PROVE  <<b>> \in TokensOf(Vocab) <=> \E n \in single : Sealed(n)[1] = b
  <2>1. ASSUME <<b>> \in TokensOf(Vocab)
        PROVE  \E n \in single : Sealed(n)[1] = b
    <3>1. PICK k \in 1 .. N : Vocab[k] = <<b>>
      BY <1>5, <2>1 DEF TokensOf
    <3>2. k - 1 \in 0 .. N - 1 /\ Sealed(k - 1) = <<b>>
      BY <1>3, <3>1 DEF Vocab
    <3>3. TokenLen(dict, k - 1) = 1 /\ Sealed(k - 1)[1] = b
      <4>1. Len(<<b>>) = 1 /\ <<b>>[1] = b
        OBVIOUS
      <4>2. Len(Sealed(k - 1)) = TokenLen(dict, k - 1)
        BY <1>2, <3>2
      <4> QED
        BY <3>2, <4>1, <4>2
    <3> QED
      BY <3>2, <3>3
  <2>2. ASSUME NEW n \in single, Sealed(n)[1] = b
        PROVE  <<b>> \in TokensOf(Vocab)
    <3>1. Sealed(n) \in Token /\ Len(Sealed(n)) = 1
      BY <1>2
    <3>2. Sealed(n) = <<b>>
      <4>1. Sealed(n) \in ByteSeq
        BY <3>1, TokenType
      <4>2. Sealed(n) \in Seq(Byte) /\ <<b>> \in Seq(Byte) /\ Len(<<b>>) = 1 /\ <<b>>[1] = b
        BY <4>1 DEF ByteSeq
      <4>3. \A k \in 1 .. Len(Sealed(n)) : Sealed(n)[k] = <<b>>[k]
        BY <2>2, <3>1, <4>2
      <4> QED
        BY <3>1, <4>2, <4>3, SeqEqual
    <3>3. n + 1 \in 1 .. Len(Vocab) /\ Vocab[n + 1] = <<b>>
      BY <1>5, <1>6, <1>7, <3>2
    <3> QED
      BY <3>3 DEF TokensOf
  <2> QED
    BY <2>1, <2>2
<1>9. SingleByteTokens \subseteq TokensOf(Vocab) <=> Byte \subseteq {Sealed(n)[1] : n \in single}
  <2>1. SingleByteTokens \subseteq TokensOf(Vocab) <=> \A b \in Byte : <<b>> \in TokensOf(Vocab)
    BY DEF SingleByteTokens
  <2>2. (\A b \in Byte : <<b>> \in TokensOf(Vocab))
            <=> \A b \in Byte : \E n \in single : Sealed(n)[1] = b
    BY <1>8
  <2> HIDE DEF single
  <2> QED
    BY <2>1, <2>2
<1> QED
  BY <1>1, <1>5, <1>7, <1>9

\* Once every token is greater than the one before it, the vocabulary is sorted.
LEMMA VocabSorted ==
    ASSUME Raw(dict), Acceptable(dict)
    PROVE  Sorted(Vocab) <=>
            \A n \in 1 .. TokenCount(dict) - 1 : LexLess(Sealed(n - 1), Sealed(n))
<1> DEFINE N == TokenCount(dict)
<1>1. /\ Vocab \in Seq(Token) /\ Len(Vocab) = N /\ N \in Nat \ {0}
      /\ \A n \in 0 .. N - 1 : Vocab[n + 1] = Sealed(n)
  BY VocabFacts
<1>2. \A n \in 1 .. N - 1 : Vocab[n] = Sealed(n - 1) /\ Vocab[n + 1] = Sealed(n)
  <2> SUFFICES ASSUME NEW n \in 1 .. N - 1
               PROVE  Vocab[n] = Sealed(n - 1) /\ Vocab[n + 1] = Sealed(n)
    OBVIOUS
  <2>1. n - 1 \in 0 .. N - 1 /\ n \in 0 .. N - 1 /\ (n - 1) + 1 = n
    BY <1>1
  <2>2. Vocab[(n - 1) + 1] = Sealed(n - 1) /\ Vocab[n + 1] = Sealed(n)
    BY <1>1, <2>1
  <2> QED
    BY <2>1, <2>2
<1>3. Sorted(Vocab) => \A n \in 1 .. N - 1 : LexLess(Vocab[n], Vocab[n + 1])
  BY <1>1 DEF Sorted
<1>4. (\A n \in 1 .. N - 1 : LexLess(Vocab[n], Vocab[n + 1])) => Sorted(Vocab)
  <2>1. Vocab \in Seq(ByteSeq)
    <3>1. \A k \in 1 .. N : Vocab[k] \in ByteSeq
      BY <1>1, ElementOfSeq, TokenType
    <3>2. Vocab \in [1 .. N -> ByteSeq]
      BY <1>1, <3>1, LenProperties
    <3> QED
      BY <1>1, <3>2
  <2>2. (\A n \in 1 .. Len(Vocab) - 1 : LexLess(Vocab[n], Vocab[n + 1])) =>
            \A j, k \in 1 .. Len(Vocab) : j < k => LexLess(Vocab[j], Vocab[k])
    BY <2>1, NeighboursSuffice
  <2> QED
    BY <1>1, <2>2 DEF Sorted
<1> QED
  BY <1>2, <1>3, <1>4

\* The empty token that the loop starts from is less than any token.
LEMMA FirstInOrder ==
    ASSUME Raw(dict), Acceptable(dict)
    PROVE  LexLess(<<>>, Sealed(0))
<1>1. TokenCount(dict) \in Nat \ {0} /\ 0 \in 0 .. TokenCount(dict) - 1
  BY ValidationAssumption DEF Acceptable
<1>2. Len(Sealed(0)) \in 1 .. MaxTokenSize /\ MaxTokenSize \in Nat
  BY <1>1, SealedIsToken, TokenType, BytesAssumption
<1>3. Len(<<>>) = 0 /\ 1 \in 1 .. Len(Sealed(0))
  BY <1>2
<1> QED
  BY <1>3 DEF LexLess

LEMMA SameTokens ==
    ASSUME dict' = dict
    PROVE  /\ TokenCount(dict)' = TokenCount(dict) /\ Vocab' = Vocab
           /\ \A n : Sealed(n)' = Sealed(n) /\ TokenLen(dict, n)' = TokenLen(dict, n)
<1>1. /\ TokenCount(dict)' = TokenCount(dict)
      /\ \A n : Sealed(n)' = Sealed(n) /\ TokenLen(dict, n)' = TokenLen(dict, n)
  BY DEF TokenCount, Sealed, TokenBytes, TokenStart, TokenLen, Slice
<1> QED
  BY <1>1 DEF Vocab

LEMMA ConformStepConform ==
    ASSUME IInv, ConformInv, ConformStep
    PROVE  ConformInv'
<1> DEFINE N == TokenCount(dict)
           singles(m) == {Sealed(n)[1] : n \in {k \in 0 .. m - 1 : TokenLen(dict, k) = 1}}
<1>1. /\ dict' = dict /\ compact' = compact /\ mode = "conform" /\ id < N
      /\ compact = Ok /\ conforms = Unknown /\ id \in Nat /\ Raw(dict) /\ N \in Int
      /\ seen = singles(id)
      /\ \A n \in 1 .. id - 1 : LexLess(Sealed(n - 1), Sealed(n))
  BY RawFacts DEF ConformStep, ConformInv, IInv
<1>2. Acceptable(dict)
  BY <1>1 DEF IInv, Ok, Unknown
<1>3. CASE InOrder
  <2>1. /\ id' = id + 1 /\ mode' = "conform" /\ conforms' = Unknown
        /\ seen' = IF TokenLen(dict, id) = 1 THEN seen \cup {Sealed(id)[1]} ELSE seen
    BY <1>1, <1>3 DEF ConformStep
  <2>2. \A n \in 1 .. id' - 1 : LexLess(Sealed(n - 1), Sealed(n))
    <3> SUFFICES ASSUME NEW n \in 1 .. id' - 1 PROVE LexLess(Sealed(n - 1), Sealed(n))
      OBVIOUS
    <3>1. n \in 1 .. id - 1 \/ (n = id /\ id # 0)
      BY <1>1, <2>1
    <3> QED
      BY <1>1, <1>3, <3>1 DEF InOrder, Previous
  <2>3. seen' = singles(id')
    <3> DEFINE before == {k \in 0 .. id - 1 : TokenLen(dict, k) = 1}
               upTo == {k \in 0 .. id' - 1 : TokenLen(dict, k) = 1}
    <3>1. upTo = IF TokenLen(dict, id) = 1 THEN before \cup {id} ELSE before
      <4>1. \A k : k \in 0 .. id' - 1 <=> k \in 0 .. id - 1 \/ k = id
        BY <1>1, <2>1
      <4> QED
        BY <4>1
    <3>2. seen = {Sealed(n)[1] : n \in before}
      BY <1>1
    <3> HIDE DEF before, upTo
    <3>3. {Sealed(n)[1] : n \in upTo} = IF TokenLen(dict, id) = 1
                                        THEN {Sealed(n)[1] : n \in before} \cup {Sealed(id)[1]}
                                        ELSE {Sealed(n)[1] : n \in before}
      BY <3>1, Zenon
    <3> QED
      BY <2>1, <3>2, <3>3 DEF upTo
  <2>4. id' <= N
    BY <1>1, <2>1
  <2>5. /\ singles(id)' = singles(id') /\ N' = N
        /\ \A n : Sealed(n)' = Sealed(n) /\ TokenLen(dict, n)' = TokenLen(dict, n)
    BY <1>1, SameTokens
  <2>6. \A n \in 1 .. id' - 1 : LexLess(Sealed(n - 1), Sealed(n))'
    BY <2>2, <2>5 DEF LexLess
  <2> QED
    BY <1>1, <2>1, <2>3, <2>4, <2>5, <2>6 DEF ConformInv, ConformanceIsExact
<1>4. CASE ~InOrder
  <2>1. mode' = "done" /\ conforms' = "UnsortedTokens"
    BY <1>4 DEF ConformStep
  <2>2. id # 0
    BY <1>2, <1>4, <1>1, FirstInOrder DEF InOrder, Previous
  <2>3. id \in 1 .. N - 1 /\ ~LexLess(Sealed(id - 1), Sealed(id))
    BY <1>1, <1>4, <2>2 DEF InOrder, Previous
  <2>4. ~Sorted(Vocab)
    BY <1>1, <1>2, <2>3, VocabSorted
  <2>5. ~Conforms(Vocab)'
    <3>1. Vocab' = Vocab
      BY <1>1, SameTokens
    <3> QED
      BY <2>4, <3>1 DEF Conforms, Sorted
  <2> QED
    BY <2>1, <2>5 DEF ConformInv, ConformanceIsExact, Vocab, Ok
<1> QED
  BY <1>3, <1>4

LEMMA ConformEndConform ==
    ASSUME IInv, WideInv, ConformInv, ConformEnd
    PROVE  ConformInv'
<1> DEFINE N == TokenCount(dict)
           singles == {Sealed(n)[1] : n \in {k \in 0 .. N - 1 : TokenLen(dict, k) = 1}}
<1>1. /\ dict' = dict /\ compact = Ok /\ mode' = "done" /\ id = N /\ Raw(dict)
      /\ seen = singles /\ seen \subseteq Byte
      /\ \A n \in 1 .. N - 1 : LexLess(Sealed(n - 1), Sealed(n))
      /\ conforms' = IF seen = Byte THEN Ok ELSE "IncompleteAlphabet"
  BY DEF ConformEnd, ConformInv, IInv, WideInv, TypeOK
<1>2. Acceptable(dict)
  BY <1>1 DEF IInv, Ok, Unknown
<1>3. Sorted(Vocab) /\ Vocab \in Seq(Token)
  BY <1>1, <1>2, VocabSorted, VocabFacts
<1>4. SingleByteTokens \subseteq TokensOf(Vocab) <=> Byte \subseteq singles
  BY <1>1, <1>2, VocabFacts
<1>5. conforms' = Ok <=> Byte \subseteq singles
  <2> HIDE DEF singles
  <2> QED
    BY <1>1 DEF Ok
<1>6. conforms' = Ok <=> Conforms(Vocab)
  BY <1>3, <1>4, <1>5 DEF Conforms
<1>7. Conforms(Vocab)' <=> Conforms(Vocab)
  <2>1. Vocab' = Vocab
    BY <1>1, SameTokens
  <2> QED
    BY <2>1 DEF Conforms, Sorted, TokensOf
<1> QED
  BY <1>1, <1>6, <1>7 DEF ConformInv, ConformanceIsExact, Vocab

LEMMA ConformInvStep ==
    ASSUME IInv, WideInv, ConformInv, [Next]_vars
    PROVE  ConformInv'
<1>1. CASE Pad \/ StartCompact \/ CompactStep \/ CompactEnd \/ StartWide \/ WideStep \/ WideEnd
  <2>1. mode \notin {"conform", "done"} /\ mode' \notin {"conform", "done"}
        /\ seen' = seen /\ conforms' = conforms
    BY <1>1 DEF Pad, StartCompact, CompactStep, CompactEnd, StartWide, WideStep, WideEnd
  <2> QED
    BY <2>1 DEF ConformInv, ConformanceIsExact
<1>2. CASE StartConform
  <2>1. /\ mode = "sealed" /\ mode' = "conform" /\ compact' = Ok /\ id' = 0 /\ dict' = dict
        /\ seen' = {} /\ conforms' = Unknown
    BY <1>2 DEF StartConform, ConformInv
  <2>2. 0 <= TokenCount(dict)'
    <3>1. Acceptable(dict)
      BY <1>2 DEF StartConform, IInv, Ok, Unknown
    <3>2. TokenCount(dict) \in Nat
      BY <3>1, ValidationAssumption DEF Acceptable
    <3> QED
      BY <2>1, <3>2, SameTokens
  <2>3. 0 .. id' - 1 = {} /\ 1 .. id' - 1 = {}
    BY <2>1
  <2>4. {Sealed(n)[1]' : n \in {k \in 0 .. id' - 1 : TokenLen(dict, k)' = 1}} = {}
    BY <2>3
  <2> QED
    BY <2>1, <2>2, <2>3, <2>4 DEF ConformInv, ConformanceIsExact
<1>3. CASE ConformStep
  BY <1>3, ConformStepConform
<1>4. CASE ConformEnd
  BY <1>4, ConformEndConform
<1>5. CASE UNCHANGED vars
  <2>1. /\ dict' = dict /\ mode' = mode /\ id' = id /\ compact' = compact
        /\ conforms' = conforms /\ seen' = seen
    BY <1>5 DEF vars
  <2>2. /\ TokenCount(dict)' = TokenCount(dict) /\ Vocab' = Vocab
        /\ \A n : Sealed(n)' = Sealed(n) /\ TokenLen(dict, n)' = TokenLen(dict, n)
    BY <2>1, SameTokens
  <2>3. Conforms(Vocab)' <=> Conforms(Vocab)
    BY <2>2 DEF Conforms, Sorted, TokensOf
  <2>4. ConformanceIsExact'
    BY <2>1, <2>2, <2>3 DEF ConformInv, ConformanceIsExact, Vocab
  <2>5. \A n : LexLess(Sealed(n - 1), Sealed(n))' <=> LexLess(Sealed(n - 1), Sealed(n))
    BY <2>2 DEF LexLess
  <2>6. {Sealed(n)[1] : n \in {k \in 0 .. id - 1 : TokenLen(dict, k) = 1}}'
            = {Sealed(n)[1] : n \in {k \in 0 .. id - 1 : TokenLen(dict, k) = 1}}
    BY <2>1, <2>2
  <2> QED
    BY <2>1, <2>2, <2>4, <2>5, <2>6 DEF ConformInv
<1> QED
  BY <1>1, <1>2, <1>3, <1>4, <1>5 DEF Next

LEMMA WideInvStep ==
    ASSUME IInv, WideInv, ConformInv, [Next]_vars
    PROVE  WideInv'
  BY PadWide, CompactWide, StartWideWide, WideStepWide, WideEndWide, ConformWide DEF Next

LEMMA VerdictInvariance == Spec => [](IInv /\ WideInv /\ ConformInv)
<1>1. Init => ConformInv
  BY DEF Init, ConformInv, ConformanceIsExact
<1>2. IInv /\ WideInv /\ ConformInv /\ [Next]_vars => IInv' /\ WideInv' /\ ConformInv'
  BY StepIInv, WideInvStep, ConformInvStep
<1> QED
  BY <1>1, <1>2, InitIInv, WideInit, PTL DEF Spec

\* The check of the compact form and the fused check of the wide form give the same
\* verdict on every buffer, and on good ones they leave the same dictionary (compact.rs,
\* wide.rs).
THEOREM VerdictsAlwaysAgree == Spec => []VerdictsAgree
<1>1. WideInv => VerdictsAgree
  BY DEF WideInv
<1> QED
  BY <1>1, VerdictInvariance, PTL

\* validate_conformance accepts exactly the dictionaries that search and the encoder
\* rely on: it looks at neighbours only, and counts the bytes that are tokens.
THEOREM ConformanceStaysExact == Spec => []ConformanceIsExact
<1>1. ConformInv => ConformanceIsExact
  BY DEF ConformInv
<1> QED
  BY <1>1, VerdictInvariance, PTL

-----------------------------------------------------------------------------
(***************************************************************************)
(* Searching a stream: the least of two numbers, and functions that        *)
(* descend to an end.                                                      *)
(***************************************************************************)

LEMMA LesserIs ==
    ASSUME NEW a \in Int, NEW b \in Int
    PROVE  Sets!Min({a, b}) = IF a <= b THEN a ELSE b
<1> DEFINE S == {a, b}
           m == IF a <= b THEN a ELSE b
<1>1. m \in S /\ \A y \in S : m <= y
  OBVIOUS
<1>2. \A x \in S : (\A y \in S : x <= y) => x = m
  BY <1>1
<1> QED
  BY <1>1, <1>2 DEF Sets!Min

\* A function that is its value at another argument, until its argument is in ends.
Descends(f, D, ends, value, to) ==
    f = [r \in D |-> IF r \in ends THEN value[r] ELSE f[to[r]]]

LEMMA DescentUnfolds ==
    ASSUME NEW D, NEW ends, NEW value, NEW to, NEW f, Descends(f, D, ends, value, to), NEW r \in D
    PROVE  f[r] = IF r \in ends THEN value[r] ELSE f[to[r]]
<1> DEFINE rhs(q) == IF q \in ends THEN value[q] ELSE f[to[q]]
<1>1. f = [q \in D |-> rhs(q)]
  BY DEF Descends
<1> HIDE DEF rhs
<1>2. f[r] = rhs(r)
  BY <1>1
<1> QED
  BY <1>2 DEF rhs

\* A function that is a step from its value at another argument, until its argument is in
\* ends.
Recurses(f, D, ends, value, to, step) ==
    f = [r \in D |-> IF r \in ends THEN value[r] ELSE step[<<r, f[to[r]]>>]]

\* There is one if each other argument has a lower rank.
LEMMA RecursionExists ==
    ASSUME NEW n \in Nat, NEW D, NEW V, NEW rank \in [D -> 0 .. n], NEW ends, NEW value, NEW to,
           NEW step,
           \A r \in D : r \in ends => value[r] \in V,
           \A r \in D : r \notin ends => to[r] \in D /\ rank[to[r]] < rank[r],
           \A r \in D, v \in V : r \notin ends => step[<<r, v>>] \in V
    PROVE  \E f \in [D -> V] : Recurses(f, D, ends, value, to, step)
<1> DEFINE Low(m) == {r \in D : rank[r] < m}
           rhs(h, r) == IF r \in ends THEN value[r] ELSE step[<<r, h[to[r]]>>]
           Good == {m \in 0 .. n + 1 :
                        \E f : f \in [Low(m) -> V] /\ \A r \in Low(m) : f[r] = rhs(f, r)}
<1>0. \A r \in D : rank[r] \in Nat /\ rank[r] <= n
  OBVIOUS
<1>1. 0 \in Good
  <2> DEFINE f == [r \in {} |-> r]
  <2>1. Low(0) = {}
    <3>1. \A r \in D : ~(rank[r] < 0)
      BY <1>0
    <3> QED
      BY <3>1
  <2>2. f \in [{} -> V] /\ \A r \in {} : f[r] = rhs(f, r)
    OBVIOUS
  <2> HIDE DEF f, rhs
  <2>3. f \in [Low(0) -> V] /\ \A r \in Low(0) : f[r] = rhs(f, r)
    BY <2>1, <2>2
  <2> HIDE DEF Low
  <2> QED
    BY <2>3
<1>2. ASSUME NEW m \in 0 .. n, m \in Good
      PROVE  m + 1 \in Good
  <2>1. PICK g : g \in [Low(m) -> V] /\ \A r \in Low(m) : g[r] = rhs(g, r)
    BY <1>2
  <2> DEFINE f == [r \in Low(m + 1) |-> rhs(g, r)]
  <2>2. ASSUME NEW r \in Low(m + 1), r \notin ends
        PROVE  to[r] \in Low(m) /\ to[r] \in Low(m + 1)
    <3>1. r \in D /\ rank[r] < m + 1 /\ m \in Nat
      OBVIOUS
    <3>2. to[r] \in D /\ rank[to[r]] < rank[r]
      BY <2>2, <3>1
    <3>3. rank[r] \in Nat /\ rank[to[r]] \in Nat
      BY <1>0, <3>1, <3>2
    <3>4. rank[to[r]] < m
      BY <3>1, <3>2, <3>3
    <3> QED
      BY <3>1, <3>2, <3>3, <3>4
  <2>3. \A r \in Low(m) : r \in Low(m + 1)
    BY <1>0
  <2>4. \A r \in Low(m + 1) : f[r] = rhs(g, r)
    <3> HIDE DEF rhs
    <3> QED
      OBVIOUS
  <2>5. \A r \in Low(m) : f[r] = g[r]
    <3> HIDE DEF rhs, f, Low
    <3> QED
      BY <2>1, <2>3, <2>4
  <2>6. ASSUME NEW r \in Low(m + 1)
        PROVE  f[r] = rhs(f, r) /\ f[r] \in V
    <3>1. r \in D
      OBVIOUS
    <3>2. f[r] = rhs(g, r)
      BY <2>4
    <3> HIDE DEF f, Low
    <3>3. CASE r \in ends
      BY <3>1, <3>2, <3>3
    <3>4. CASE r \notin ends
      <4>1. f[to[r]] = g[to[r]] /\ g[to[r]] \in V
        BY <2>1, <2>2, <2>5, <3>4
      <4>2. rhs(f, r) = rhs(g, r) /\ rhs(g, r) \in V
        BY <3>1, <3>4, <4>1
      <4> QED
        BY <3>2, <4>2
    <3> QED
      BY <3>3, <3>4
  <2>7. f \in [Low(m + 1) -> V]
    <3>1. f = [r \in Low(m + 1) |-> f[r]]
      <4> HIDE DEF rhs
      <4> QED
        OBVIOUS
    <3> HIDE DEF f, Low
    <3> QED
      BY <2>6, <3>1
  <2> HIDE DEF f, Low, rhs
  <2>8. m + 1 \in 0 .. n + 1
    OBVIOUS
  <2> QED
    BY <2>6, <2>7, <2>8
<1>3. n + 1 \in Good
  <2> HIDE DEF Good
  <2>1. n + 1 \in Nat /\ (n + 1) - 1 = n /\ n + 1 \in 0 .. n + 1
    OBVIOUS
  <2>2. \A m \in 0 .. (n + 1) - 1 : m \in Good => m + 1 \in Good
    BY <1>2, <2>1
  <2>3. \A m \in 0 .. n + 1 : m \in Good
    BY <1>1, <2>1, <2>2, UpwardInduction
  <2> QED
    BY <2>1, <2>3
<1>4. Low(n + 1) = D
  <2>1. \A r \in D : rank[r] < n + 1
    BY <1>0
  <2> QED
    BY <2>1
<1> HIDE DEF Low
<1>5. PICK f : f \in [D -> V] /\ \A r \in D : f[r] = rhs(f, r)
  <2> HIDE DEF rhs
  <2> QED
    BY <1>3, <1>4
<1>6. f = [r \in D |-> rhs(f, r)]
  <2>1. f = [r \in D |-> f[r]]
    BY <1>5
  <2> HIDE DEF rhs
  <2> QED
    BY <1>5, <2>1
<1>7. Recurses(f, D, ends, value, to, step)
  BY <1>6 DEF Recurses
<1> QED
  BY <1>5, <1>7

\* There is a function that descends.
LEMMA DescentExists ==
    ASSUME NEW n \in Nat, NEW D, NEW V, NEW rank \in [D -> 0 .. n], NEW ends, NEW value, NEW to,
           \A r \in D : r \in ends => value[r] \in V,
           \A r \in D : r \notin ends => to[r] \in D /\ rank[to[r]] < rank[r]
    PROVE  \E f \in [D -> V] : Descends(f, D, ends, value, to)
<1> DEFINE step == [x \in D \X V |-> x[2]]
<1>1. \A r \in D, v \in V : step[<<r, v>>] = v
  OBVIOUS
<1> HIDE DEF step
<1>2. PICK f \in [D -> V] : Recurses(f, D, ends, value, to, step)
  <2>1. \A r \in D, v \in V : r \notin ends => step[<<r, v>>] \in V
    BY <1>1
  <2> QED
    BY <2>1, RecursionExists
<1> DEFINE rhs(r) == IF r \in ends THEN value[r] ELSE step[<<r, f[to[r]]>>]
           goal(r) == IF r \in ends THEN value[r] ELSE f[to[r]]
<1>3. f = [r \in D |-> rhs(r)]
  BY <1>2 DEF Recurses
<1>4. ASSUME NEW r \in D
      PROVE  rhs(r) = goal(r)
  <2>1. r \notin ends => f[to[r]] \in V
    BY <1>2
  <2> QED
    BY <1>1, <2>1
<1>5. f = [r \in D |-> goal(r)]
  <2> HIDE DEF rhs, goal
  <2> QED
    BY <1>3, <1>4
<1> QED
  BY <1>2, <1>5 DEF Descends

\* What holds at the ends, and of an argument if it holds of the next one.
Climbs(S, D, ends, to) ==
    \A r \in D : /\ r \in ends => r \in S
                 /\ r \notin ends => (to[r] \in S => r \in S)

\* By rank: what holds at the ends and of an argument if it holds of the next one.
LEMMA DescentInduction ==
    ASSUME NEW n \in Nat, NEW D, NEW rank \in [D -> 0 .. n], NEW ends, NEW to, NEW S,
           Climbs(S, D, ends, to),
           \A r \in D : r \notin ends => to[r] \in D /\ rank[to[r]] < rank[r]
    PROVE  \A r \in D : r \in S
<1> DEFINE Good == {m \in 0 .. n + 1 : \A r \in D : rank[r] < m => r \in S}
<1>0. \A r \in D : rank[r] \in Nat /\ rank[r] <= n
  OBVIOUS
<1>1. 0 \in Good
  BY <1>0
<1>2. ASSUME NEW m \in 0 .. n, m \in Good
      PROVE  m + 1 \in Good
  <2>1. ASSUME NEW r \in D, rank[r] < m + 1
        PROVE  r \in S
    <3>1. CASE r \in ends
      BY <3>1 DEF Climbs
    <3>2. CASE r \notin ends
      <4>1. to[r] \in D /\ rank[to[r]] < rank[r]
        BY <3>2
      <4>2. rank[to[r]] < m
        BY <1>0, <2>1, <4>1
      <4>3. to[r] \in S
        BY <1>2, <4>1, <4>2
      <4> QED
        BY <3>2, <4>3 DEF Climbs
    <3> QED
      BY <3>1, <3>2
  <2> QED
    BY <2>1
<1>3. n + 1 \in Good
  <2> HIDE DEF Good
  <2>1. n + 1 \in Nat /\ (n + 1) - 1 = n /\ n + 1 \in 0 .. n + 1
    OBVIOUS
  <2>2. \A m \in 0 .. (n + 1) - 1 : m \in Good => m + 1 \in Good
    BY <1>2, <2>1
  <2>3. \A m \in 0 .. n + 1 : m \in Good
    BY <1>1, <2>1, <2>2, UpwardInduction
  <2> QED
    BY <2>1, <2>3
<1> QED
  BY <1>0, <1>3

-----------------------------------------------------------------------------
(***************************************************************************)
(* find_row.                                                               *)
(***************************************************************************)

\* The boundary that a step of the gallop looks at.
Ahead(offs, p) == Sets!Min({p[1] + p[2], Len(offs) - 1})

IsGallop(f, offs, code) ==
    f = [p \in Nat \X (Nat \ {0}) |->
            IF offs[Ahead(offs, p) + 1] > code THEN <<p[1], Ahead(offs, p)>>
            ELSE f[<<Ahead(offs, p), p[2] * 2>>]]

Between(p) == p[1] + (p[2] - p[1]) \div 2

IsBisect(f, offs, code) ==
    f = [p \in (0 .. Len(offs) - 1) \X (0 .. Len(offs) - 1) |->
            IF p[2] - p[1] <= 1 THEN p[1]
            ELSE IF offs[Between(p) + 1] <= code THEN f[<<Between(p), p[2]>>]
                                                ELSE f[<<p[1], Between(p)>>]]

\* A boundary at or before the code, and a later one past it.
Brackets(offs, code, from, q) ==
    /\ q \in Nat \X Nat
    /\ q[1] \in from .. Len(offs) - 1 /\ q[2] \in 0 .. Len(offs) - 1 /\ q[1] < q[2]
    /\ offs[q[1] + 1] <= code /\ code < offs[q[2] + 1]

\* Galloping brackets the code, since the last boundary is past it.
LEMMA GallopBrackets ==
    ASSUME NEW offs \in Seq(Nat), NEW code \in Nat, NEW from \in Nat, from < Len(offs) - 1,
           offs[from + 1] <= code, code < offs[Len(offs)]
    PROVE  LET gallop == CHOOSE f : IsGallop(f, offs, code)
           IN  Brackets(offs, code, from, gallop[<<from, 1>>])
<1> DEFINE N == Len(offs) - 1
           D == Nat \X (Nat \ {0})
           hi(p) == Ahead(offs, p)
           ends == {p \in D : offs[hi(p) + 1] > code}
           value == [p \in D |-> <<p[1], hi(p)>>]
           to == [p \in D |-> <<hi(p), p[2] * 2>>]
           rank == [p \in D |-> IF p[1] < N THEN N - p[1] ELSE 0]
           gallop == CHOOSE f : IsGallop(f, offs, code)
<1>1. /\ N \in Nat /\ N + 1 = Len(offs) /\ \A n \in 0 .. N : offs[n + 1] \in Nat
      /\ code < offs[N + 1] /\ from < N
  OBVIOUS
<1>2. \A p \in D : p[1] \in Nat /\ p[2] \in Nat /\ p[2] > 0
  OBVIOUS
<1>3. ASSUME NEW p \in D
      PROVE  hi(p) = IF p[1] + p[2] <= N THEN p[1] + p[2] ELSE N
  <2>1. p[1] + p[2] \in Int /\ N \in Int
    BY <1>1, <1>2
  <2> QED
    BY <2>1, LesserIs DEF Ahead
<1> HIDE DEF N
<1>4. ASSUME NEW p \in D
      PROVE  hi(p) \in 0 .. N /\ (p[1] < N => p[1] < hi(p)) /\ (p[1] >= N => hi(p) = N)
  <2> DEFINE x == p[1]
             y == p[2]
             h == hi(p)
  <2>1. x \in Nat /\ y \in Nat /\ y > 0 /\ N \in Nat /\ h = IF x + y <= N THEN x + y ELSE N
    <3> HIDE DEF hi, D
    <3> QED
      BY <1>1, <1>2, <1>3
  <2> HIDE DEF x, y, h
  <2>2. h \in 0 .. N /\ (x < N => x < h) /\ (x >= N => h = N)
    BY ONLY <2>1, SMT
  <2> QED
    BY <2>2 DEF x, h
<1>5. ASSUME NEW p \in D, p \notin ends
      PROVE  to[p] \in D /\ rank[to[p]] < rank[p] /\ to[p] = <<hi(p), p[2] * 2>> /\ p[1] < hi(p)
             /\ hi(p) < N /\ offs[hi(p) + 1] <= code
  <2>1. ~(offs[hi(p) + 1] > code)
    BY <1>5
  <2>2. to[p] = <<hi(p), p[2] * 2>>
    <3> HIDE DEF hi
    <3> QED
      OBVIOUS
  <2> DEFINE x == p[1]
             y == p[2]
             h == hi(p)
             ah == offs[h + 1]
  <2>3. h \in 0 .. N /\ (x < N => x < h) /\ (x >= N => h = N)
    BY <1>4
  <2>4. x \in Nat /\ y \in Nat /\ y > 0 /\ N \in Nat /\ from \in Nat
    BY <1>1, <1>2
  <2> HIDE DEF h
  <2>5. ah \in Nat /\ (h = N => code < ah)
    BY <1>1, <2>3
  <2>6. ~(ah > code)
    BY <2>1 DEF h
  <2> HIDE DEF x, y, ah
  <2>7. ah <= code /\ h # N
    BY ONLY <2>5, <2>6, code \in Nat, SMT
  <2>8. h \in Nat /\ h < N /\ x < h /\ x < N /\ y * 2 \in Nat \ {0} /\ N - h < N - x
    BY ONLY <2>3, <2>4, <2>7, SMT
  <2>9. to[p] = <<h, y * 2>>
    BY <2>2 DEF h, y
  <2> HIDE DEF to, ends
  <2>10. to[p] \in D /\ to[p][1] = h
    BY <2>8, <2>9
  <2>11. rank[to[p]] = N - h /\ rank[p] = N - x
    BY <2>8, <2>10 DEF x
  <2> HIDE DEF rank, D
  <2> QED
    BY <2>7, <2>8, <2>9, <2>10, <2>11 DEF x, y, h, ah
<1>6. rank \in [D -> 0 .. N]
  <2>1. ASSUME NEW p \in D
        PROVE  (IF p[1] < N THEN N - p[1] ELSE 0) \in 0 .. N
    <3> DEFINE x == p[1]
    <3>1. x \in Nat /\ N \in Nat
      BY <1>1, <1>2
    <3> HIDE DEF x
    <3>2. (IF x < N THEN N - x ELSE 0) \in 0 .. N
      BY ONLY <3>1, SMT
    <3> QED
      BY <3>2 DEF x
  <2> HIDE DEF D
  <2> QED
    BY <2>1
<1>7. \A p \in D : value[p] \in Nat \X Nat
  <2> SUFFICES ASSUME NEW p \in D
               PROVE  value[p] \in Nat \X Nat
    OBVIOUS
  <2> DEFINE x == p[1]
             h == hi(p)
  <2>1. value[p] = <<x, h>>
    <3> HIDE DEF hi
    <3> QED
      OBVIOUS
  <2>2. x \in Nat /\ h \in Nat
    BY <1>1, <1>2, <1>4
  <2> HIDE DEF value, x, h, D
  <2> QED
    BY <2>1, <2>2
<1>8. \E f : IsGallop(f, offs, code)
  <2>1. PICK f \in [D -> Nat \X Nat] : Descends(f, D, ends, value, to)
    <3>1. \A p \in D : p \notin ends => to[p] \in D /\ rank[to[p]] < rank[p]
      BY <1>5
    <3>2. \A p \in D : p \in ends => value[p] \in Nat \X Nat
      BY <1>7
    <3>3. N \in Nat
      BY <1>1
    <3> HIDE DEF D, ends, value, to, rank
    <3> QED
      BY ONLY <1>6, <3>1, <3>2, <3>3, DescentExists
  <2>2. ASSUME NEW p \in D
        PROVE  f[p] = IF offs[hi(p) + 1] > code THEN <<p[1], hi(p)>> ELSE f[<<hi(p), p[2] * 2>>]
    <3>1. f[p] = IF p \in ends THEN value[p] ELSE f[to[p]]
      <4> HIDE DEF D, ends, value, to
      <4> QED
        BY <2>1, DescentUnfolds
    <3> HIDE DEF hi
    <3>2. value[p] = <<p[1], hi(p)>> /\ to[p] = <<hi(p), p[2] * 2>>
          /\ (p \in ends <=> offs[hi(p) + 1] > code)
      OBVIOUS
    <3> HIDE DEF D, ends, value, to
    <3> QED
      BY <3>1, <3>2
  <2>3. f = [p \in D |-> f[p]]
    BY <2>1
  <2>4. f = [p \in D |-> IF offs[hi(p) + 1] > code THEN <<p[1], hi(p)>> ELSE f[<<hi(p), p[2] * 2>>]]
    <3> HIDE DEF D, hi
    <3> QED
      BY <2>2, <2>3
  <2> QED
    BY <2>4 DEF IsGallop
<1>9. IsGallop(gallop, offs, code)
  BY <1>8
<1> HIDE DEF gallop
<1>10. ASSUME NEW p \in D
       PROVE  gallop[p] = IF offs[hi(p) + 1] > code THEN <<p[1], hi(p)>>
                          ELSE gallop[<<hi(p), p[2] * 2>>]
  <2> DEFINE rhs(q) == IF offs[hi(q) + 1] > code THEN <<q[1], hi(q)>>
                       ELSE gallop[<<hi(q), q[2] * 2>>]
  <2>1. gallop = [q \in D |-> rhs(q)]
    BY <1>9 DEF IsGallop
  <2> HIDE DEF rhs
  <2>2. gallop[p] = rhs(p)
    BY <2>1
  <2> QED
    BY <2>2 DEF rhs
<1> DEFINE Good == {p \in D : from <= p[1] /\ p[1] < N /\ offs[p[1] + 1] <= code
                                => Brackets(offs, code, from, gallop[p])}
<1>11. ASSUME NEW p \in D, p \in ends
       PROVE  p \in Good
  <2> SUFFICES ASSUME from <= p[1], p[1] < N, offs[p[1] + 1] <= code
               PROVE  Brackets(offs, code, from, gallop[p])
    OBVIOUS
  <2>1. offs[hi(p) + 1] > code
    BY <1>11
  <2>2. gallop[p] = <<p[1], hi(p)>>
    BY <1>10, <2>1
  <2>3. hi(p) \in 0 .. N /\ p[1] < hi(p) /\ p[1] \in from .. N
    BY <1>1, <1>2, <1>4
  <2> HIDE DEF hi
  <2>4. offs[hi(p) + 1] \in Nat
    BY <1>1, <2>3
  <2> QED
    BY <2>1, <2>2, <2>3, <2>4 DEF Brackets, N
<1>12. ASSUME NEW p \in D, p \notin ends, to[p] \in Good
       PROVE  p \in Good
  <2> SUFFICES ASSUME from <= p[1], p[1] < N, offs[p[1] + 1] <= code
               PROVE  Brackets(offs, code, from, gallop[p])
    OBVIOUS
  <2>1. ~(offs[hi(p) + 1] > code)
    BY <1>12
  <2>2. gallop[p] = gallop[to[p]]
    BY <1>5, <1>10, <1>12, <2>1
  <2>3. to[p][1] = hi(p) /\ from <= hi(p) /\ hi(p) < N /\ offs[hi(p) + 1] <= code
    <3>1. to[p] = <<hi(p), p[2] * 2>> /\ p[1] < hi(p) /\ hi(p) < N /\ offs[hi(p) + 1] <= code
      BY <1>5, <1>12
    <3>2. p[1] \in Nat /\ hi(p) \in Nat
      BY <1>1, <1>2, <1>4
    <3> HIDE DEF to, hi
    <3> QED
      BY <3>1, <3>2
  <2> HIDE DEF hi, to
  <2> QED
    BY <1>12, <2>2, <2>3
<1>13. <<from, 1>> \in D /\ <<from, 1>>[1] = from
  OBVIOUS
<1>14. \A p \in D : p \in Good
  <2>1. \A p \in D : p \notin ends => to[p] \in D /\ rank[to[p]] < rank[p]
    BY <1>5
  <2>2. N \in Nat
    BY <1>1
  <2> HIDE DEF Good, D, ends, to, rank
  <2>3. Climbs(Good, D, ends, to)
    BY <1>11, <1>12 DEF Climbs
  <2> QED
    BY ONLY <1>6, <2>1, <2>2, <2>3, DescentInduction
<1>15. from < N /\ from <= from /\ offs[from + 1] <= code
  BY <1>1
<1> HIDE DEF D
<1>16. <<from, 1>> \in Good
  BY <1>13, <1>14
<1>17. Brackets(offs, code, from, gallop[<<from, 1>>])
  BY <1>13, <1>15, <1>16
<1> QED
  BY <1>17 DEF gallop

\* Bisecting keeps the brackets until they are neighbours.
LEMMA BisectFinds ==
    ASSUME NEW offs \in Seq(Nat), NEW code \in Nat, NEW from \in Nat, NEW z,
           Brackets(offs, code, from, z)
    PROVE  LET bisect == CHOOSE f : IsBisect(f, offs, code)
           IN  Brackets(offs, code, from, <<bisect[z], bisect[z] + 1>>)
<1> DEFINE N == Len(offs) - 1
           D == (0 .. N) \X (0 .. N)
           mid(p) == Between(p)
           ends == {p \in D : p[2] - p[1] <= 1}
           value == [p \in D |-> p[1]]
           step(p) == IF offs[mid(p) + 1] <= code THEN <<mid(p), p[2]>> ELSE <<p[1], mid(p)>>
           to == [p \in D |-> step(p)]
           rank == [p \in D |-> IF p[1] < p[2] THEN p[2] - p[1] ELSE 0]
           bisect == CHOOSE f : IsBisect(f, offs, code)
<1>1. N \in Nat /\ z \in D
      /\ \A n \in 0 .. N : offs[n + 1] \in Nat
  <2> DEFINE x == z[1]
             y == z[2]
  <2>1. z = <<x, y>> /\ x \in from .. N /\ y \in 0 .. N /\ x < y
    BY DEF Brackets
  <2>2. \A n \in 0 .. N : offs[n + 1] \in Nat
    OBVIOUS
  <2> HIDE DEF x, y
  <2>3. N \in Nat /\ x \in 0 .. N
    BY <2>1
  <2> QED
    BY <2>1, <2>2, <2>3
<1>2. \A p \in D : p[1] \in 0 .. N /\ p[2] \in 0 .. N
  OBVIOUS
<1>3. ASSUME NEW p \in D, p \notin ends
      PROVE  mid(p) \in 0 .. N /\ p[1] < mid(p) /\ mid(p) < p[2] /\ to[p] = step(p)
  <2>1. ~(p[2] - p[1] <= 1)
    BY <1>3
  <2>2. to[p] = step(p)
    <3> HIDE DEF step
    <3> QED
      OBVIOUS
  <2> DEFINE x == p[1]
             y == p[2]
             m == x + (y - x) \div 2
  <2>3. x \in Nat /\ y \in Nat /\ y <= N /\ ~(y - x <= 1)
    BY <1>1, <1>2, <2>1
  <2> HIDE DEF x, y
  <2>4. m \in Nat /\ x < m /\ m < y /\ m <= N
    BY <1>1, <2>3
  <2> QED
    BY <1>1, <2>2, <2>4 DEF Between, x, y
<1> HIDE DEF N, mid
<1>4. ASSUME NEW p \in D, p \notin ends
      PROVE  to[p] \in D /\ rank[to[p]] < rank[p]
  <2> DEFINE x == p[1]
             y == p[2]
             m == mid(p)
  <2>1. m \in 0 .. N /\ x < m /\ m < y /\ to[p] = step(p) /\ x \in 0 .. N /\ y \in 0 .. N
    BY <1>2, <1>3, <1>4
  <2>2. to[p] = <<m, y>> \/ to[p] = <<x, m>>
    BY <2>1
  <2>3. to[p] \in D
    BY <2>1, <2>2
  <2>4. rank[p] = y - x
    BY <2>1, <1>1
  <2>5. rank[to[p]] = y - m \/ rank[to[p]] = m - x
    BY <2>1, <2>2, <2>3
  <2> HIDE DEF x, y, m, to, rank, D
  <2> QED
    BY <1>1, <2>1, <2>3, <2>4, <2>5
<1>5. rank \in [D -> 0 .. N]
  <2>1. \A p \in D : (IF p[1] < p[2] THEN p[2] - p[1] ELSE 0) \in 0 .. N
    BY <1>1, <1>2
  <2> HIDE DEF D
  <2> QED
    BY <2>1
<1>6. \E f : IsBisect(f, offs, code)
  <2>1. PICK f \in [D -> 0 .. N] : Descends(f, D, ends, value, to)
    <3>1. \A p \in D : p \notin ends => to[p] \in D /\ rank[to[p]] < rank[p]
      BY <1>4
    <3>2. \A p \in D : p \in ends => value[p] \in 0 .. N
      BY <1>2
    <3>3. N \in Nat
      BY <1>1
    <3> HIDE DEF D, ends, value, to, rank
    <3> QED
      BY ONLY <1>5, <3>1, <3>2, <3>3, DescentExists
  <2> DEFINE rhs(p) == IF p[2] - p[1] <= 1 THEN p[1]
                       ELSE IF offs[mid(p) + 1] <= code THEN f[<<mid(p), p[2]>>]
                                                        ELSE f[<<p[1], mid(p)>>]
  <2>2. ASSUME NEW p \in D
        PROVE  f[p] = rhs(p)
    <3>1. f[p] = IF p \in ends THEN value[p] ELSE f[to[p]]
      <4> HIDE DEF D, ends, value, to
      <4> QED
        BY <2>1, DescentUnfolds
    <3>2. value[p] = p[1] /\ to[p] = step(p) /\ (p \in ends <=> p[2] - p[1] <= 1)
      OBVIOUS
    <3> HIDE DEF D, ends, value, to
    <3> QED
      BY <3>1, <3>2
  <2>3. f = [p \in D |-> f[p]]
    BY <2>1
  <2>4. f = [p \in D |-> rhs(p)]
    <3> HIDE DEF D, rhs
    <3> QED
      BY <2>2, <2>3
  <2> QED
    BY <2>4 DEF IsBisect, mid, N
<1>7. IsBisect(bisect, offs, code)
  BY <1>6
<1> HIDE DEF bisect
<1>8. ASSUME NEW p \in D
      PROVE  bisect[p] = IF p \in ends THEN p[1] ELSE bisect[to[p]]
  <2> DEFINE rhs(q) == IF q[2] - q[1] <= 1 THEN q[1]
                       ELSE IF offs[mid(q) + 1] <= code THEN bisect[<<mid(q), q[2]>>]
                                                        ELSE bisect[<<q[1], mid(q)>>]
  <2>1. bisect = [q \in D |-> rhs(q)]
    BY <1>7 DEF IsBisect, mid, N
  <2>2. bisect[p] = rhs(p)
    <3> HIDE DEF rhs
    <3> QED
      BY <2>1
  <2>3. to[p] = step(p) /\ (p \in ends <=> p[2] - p[1] <= 1)
    OBVIOUS
  <2> HIDE DEF D, ends, to
  <2> QED
    BY <2>2, <2>3
<1> DEFINE Good == {p \in D : Brackets(offs, code, from, p)
                                => Brackets(offs, code, from, <<bisect[p], bisect[p] + 1>>)}
<1>9. ASSUME NEW p \in D, p \in ends
      PROVE  p \in Good
  <2> SUFFICES ASSUME Brackets(offs, code, from, p)
               PROVE  Brackets(offs, code, from, <<bisect[p], bisect[p] + 1>>)
    OBVIOUS
  <2>1. p[2] - p[1] <= 1 /\ p[1] < p[2] /\ p[1] \in Nat /\ p[2] \in Nat
    BY <1>1, <1>2, <1>9 DEF Brackets
  <2>2. p[2] = p[1] + 1
    <3> DEFINE x == p[1]
               y == p[2]
    <3>1. y - x <= 1 /\ x < y /\ x \in Nat /\ y \in Nat
      BY <2>1
    <3> HIDE DEF x, y
    <3>2. y = x + 1
      BY ONLY <3>1, SMT
    <3> QED
      BY <3>2 DEF x, y
  <2>3. bisect[p] = p[1]
    <3> HIDE DEF D, ends, to
    <3> QED
      BY <1>8, <1>9
  <2> HIDE DEF D, ends
  <2> QED
    BY <2>2, <2>3 DEF Brackets
<1>10. ASSUME NEW p \in D, p \notin ends, to[p] \in Good
       PROVE  p \in Good
  <2> SUFFICES ASSUME Brackets(offs, code, from, p)
               PROVE  Brackets(offs, code, from, <<bisect[p], bisect[p] + 1>>)
    OBVIOUS
  <2>1. bisect[p] = bisect[to[p]]
    BY <1>8, <1>10
  <2> DEFINE m == mid(p)
  <2>2. m \in 0 .. N /\ p[1] < m /\ m < p[2] /\ to[p] = step(p)
    BY <1>3, <1>10
  <2> DEFINE x == p[1]
             y == p[2]
             Bracket(u, v) == /\ u \in from .. N /\ v \in 0 .. N /\ u < v
                              /\ offs[u + 1] <= code /\ code < offs[v + 1]
  <2>3. offs[m + 1] \in Nat
    BY <1>1, <2>2
  <2>4. ASSUME NEW u \in Nat, NEW v \in Nat
        PROVE  Brackets(offs, code, from, <<u, v>>) <=> Bracket(u, v)
    BY DEF Brackets, N
  <2>5. x \in Nat /\ y \in Nat /\ p = <<x, y>> /\ N \in Nat
    BY <1>1, <1>2
  <2>6. m \in 0 .. N /\ x < m /\ m < y
    BY <2>2
  <2> HIDE DEF x, y, m
  <2>7. Bracket(x, y)
    BY <2>4, <2>5
  <2>8. Brackets(offs, code, from, to[p])
    <3>1. CASE offs[m + 1] <= code
      <4>1. to[p] = <<m, y>>
        BY <2>2, <3>1 DEF m, y
      <4>2. Bracket(m, y)
        <5>1. m \in from .. N
          BY <2>5, <2>6, <2>7
        <5>2. y \in 0 .. N /\ code < offs[y + 1]
          BY <2>7
        <5> QED
          BY <2>6, <3>1, <5>1, <5>2
      <4>3. m \in Nat /\ y \in Nat
        BY <2>5, <2>6
      <4> HIDE DEF to, D, Bracket
      <4>4. Brackets(offs, code, from, <<m, y>>)
        BY <2>4, <4>2, <4>3
      <4> QED
        BY <4>1, <4>4
    <3>2. CASE ~(offs[m + 1] <= code)
      <4>1. to[p] = <<x, m>>
        BY <2>2, <3>2 DEF m, x
      <4>2. Bracket(x, m)
        <5>1. code < offs[m + 1]
          BY <2>3, <3>2
        <5>2. x \in from .. N /\ offs[x + 1] <= code
          BY <2>7
        <5> QED
          BY <2>6, <5>1, <5>2
      <4>3. x \in Nat /\ m \in Nat
        BY <2>5, <2>6
      <4> HIDE DEF to, D, Bracket
      <4>4. Brackets(offs, code, from, <<x, m>>)
        BY <2>4, <4>2, <4>3
      <4> QED
        BY <4>1, <4>4
    <3> QED
      BY <3>1, <3>2
  <2> HIDE DEF to
  <2> QED
    BY <1>10, <2>1, <2>8
<1>11. \A p \in D : p \in Good
  <2>1. \A p \in D : p \notin ends => to[p] \in D /\ rank[to[p]] < rank[p]
    BY <1>4
  <2>2. N \in Nat
    BY <1>1
  <2> HIDE DEF Good, D, ends, to, rank
  <2>3. Climbs(Good, D, ends, to)
    BY <1>9, <1>10 DEF Climbs
  <2> QED
    BY ONLY <1>5, <2>1, <2>2, <2>3, DescentInduction
<1>12. Brackets(offs, code, from, <<bisect[z], bisect[z] + 1>>)
  BY <1>1, <1>11
<1> QED
  BY <1>12 DEF bisect

\* The row found holds the code, however the offsets before and behind it are.
LEMMA FindRowFinds ==
    ASSUME view.rowOffsets \in Seq(Nat), NEW first \in Nat, NEW code \in Nat,
           first < NumRows(view), view.rowOffsets[first + 1] <= code, code < EndCode(view)
    PROVE  LET r == FindRow(first, code)
           IN  /\ r \in first .. NumRows(view) - 1
               /\ view.rowOffsets[r + 1] <= code /\ code < view.rowOffsets[r + 2]
<1> DEFINE offs == view.rowOffsets
           N == Len(offs) - 1
           gallop == CHOOSE f : IsGallop(f, offs, code)
           bisect == CHOOSE f : IsBisect(f, offs, code)
           g == gallop[<<first + 1, 1>>]
           r == FindRow(first, code)
<1>1. NumRows(view) = N /\ N \in Nat /\ N + 1 = Len(offs) /\ first < N
      /\ \A n \in 0 .. N : offs[n + 1] \in Nat
  BY DEF NumRows
<1>2. code < offs[Len(offs)]
  BY DEF EndCode
<1>3. r = IF offs[first + 1 + 1] > code THEN first ELSE bisect[g]
  BY <1>1 DEF FindRow, IsGallop, IsBisect, Ahead, Between
<1> HIDE DEF gallop, bisect, N, r
<1>4. first + 1 + 1 = first + 2 /\ first + 1 \in 0 .. N /\ first + 1 \in Nat
      /\ offs[first + 2] \in Nat
  <2>1. first + 1 + 1 = first + 2 /\ first + 1 \in 0 .. N /\ first + 1 \in Nat
    BY <1>1
  <2>2. offs[first + 1 + 1] \in Nat
    BY <1>1, <2>1
  <2> QED
    BY <2>1, <2>2
<1>5. CASE offs[first + 2] > code
  <2>1. r = first
    BY <1>3, <1>4, <1>5
  <2>2. first \in first .. N - 1
    BY <1>1
  <2>3. offs[first + 1] <= code /\ code < offs[first + 2]
    BY <1>4, <1>5
  <2> QED
    BY <1>1, <2>1, <2>2, <2>3 DEF r
<1>6. CASE ~(offs[first + 2] > code)
  <2>0. offs[first + 2] <= code
    BY <1>4, <1>6
  <2>1. first + 1 < Len(offs) - 1 /\ offs[(first + 1) + 1] <= code
    <3>1. first + 2 # Len(offs)
      BY <1>2, <1>4, <2>0
    <3> QED
      BY <1>1, <1>4, <2>0, <3>1 DEF N
  <2>2. Brackets(offs, code, first + 1, g)
    BY <1>2, <1>4, <2>1, GallopBrackets DEF gallop
  <2>3. r = bisect[g]
    BY <1>3, <1>4, <1>6
  <2>4. Brackets(offs, code, first + 1, <<r, r + 1>>)
    BY <1>4, <2>2, <2>3, BisectFinds DEF bisect
  <2>5. r \in first + 1 .. N /\ r + 1 \in 0 .. N /\ offs[r + 1] <= code /\ code < offs[r + 1 + 1]
    BY <2>4 DEF Brackets, N
  <2>6. r + 1 + 1 = r + 2 /\ r \in first .. N - 1
    BY <1>1, <2>5
  <2> QED
    BY <1>1, <2>5, <2>6 DEF r
<1> QED
  BY <1>5, <1>6 DEF r
-----------------------------------------------------------------------------
(***************************************************************************)
(* The resolver.                                                           *)
(***************************************************************************)

Scanning == {"blocks", "hits", "locate", "verify"}

\* The row is one of the view's, and ends within its codes.
RowIsOfView ==
    /\ view \in Views /\ view.rowOffsets # <<>> /\ ~BadOffsets(view)
    /\ row < NumRows(view) /\ rowEnd = view.rowOffsets[row + 2] /\ rowEnd <= EndCode(view)

\* Where the current row begins.
RowStart == view.rowOffsets[row + 1]

\* What the resolver knows of the row it is in: it begins before the codes that are left,
\* and no later than the next block.
ResolverInv ==
    /\ block \in Nat /\ next \in Nat /\ hit \in Nat
    /\ row \in Nat /\ rowEnd \in Nat /\ resolved \in Nat
    /\ phase \notin Scanning \cup {"done", "panic"} => row = 0
    /\ phase \in Scanning => RowIsOfView
    /\ phase = "blocks" => RowStart <= block
    /\ phase = "hits" => RowStart <= block + next /\ RowStart <= block + BlockLen
    /\ phase \in {"locate", "verify"} =>
        /\ block <= hit /\ hit < EndCode(view) /\ hit < block + BlockLen /\ RowStart <= hit
    /\ phase = "locate" => rowEnd <= hit
    /\ phase = "verify" => hit < rowEnd

LEMMA GreaterIs ==
    ASSUME NEW a \in Int, NEW b \in Int
    PROVE  Sets!Max({a, b}) = IF a >= b THEN a ELSE b
<1> DEFINE S == {a, b}
           m == IF a >= b THEN a ELSE b
<1>1. m \in S /\ \A y \in S : m >= y
  OBVIOUS
<1>2. \A x \in S : (\A y \in S : x >= y) => x = m
  BY <1>1
<1> QED
  BY <1>1, <1>2 DEF Sets!Max

LEMMA LeastIsIn ==
    ASSUME NEW S \in SUBSET Nat, S # {}
    PROVE  Sets!Min(S) \in S
<1>1. \E x \in S : \A y \in S : x <= y
  BY LeastNatural
<1> QED
  BY <1>1 DEF Sets!Min

\* A view whose offsets are not bad has codes up to the last of them.
LEMMA OffsetsFit ==
    ASSUME NEW v \in Views, v.rowOffsets # <<>>, ~BadOffsets(v)
    PROVE  /\ v.rowOffsets \in Seq(Nat) /\ v.codes \in Seq(Nat)
           /\ Len(v.rowOffsets) \in Nat \ {0} /\ NumRows(v) = Len(v.rowOffsets) - 1
           /\ FirstCode(v) \in Nat /\ EndCode(v) \in Nat
           /\ FirstCode(v) <= EndCode(v) /\ EndCode(v) <= Len(v.codes)
           /\ \A n \in 1 .. Len(v.rowOffsets) : v.rowOffsets[n] \in Nat
<1>1. v.rowOffsets \in Seq(Nat) /\ v.codes \in Seq(Nat)
  BY ScanAssumption
<1>2. Len(v.rowOffsets) \in Nat \ {0} /\ \A n \in 1 .. Len(v.rowOffsets) : v.rowOffsets[n] \in Nat
  BY <1>1
<1>3. FirstCode(v) \in Nat /\ EndCode(v) \in Nat /\ Len(v.codes) \in Nat
  BY <1>1, <1>2 DEF FirstCode, EndCode
<1> QED
  BY <1>1, <1>2, <1>3 DEF BadOffsets, NumRows

LEMMA RowFits ==
    ASSUME ResolverInv, phase \in Scanning
    PROVE  /\ view.rowOffsets \in Seq(Nat) /\ NumRows(view) \in Nat /\ row < NumRows(view)
           /\ NumRows(view) + 1 = Len(view.rowOffsets)
           /\ EndCode(view) \in Nat /\ Len(Codes) = EndCode(view) /\ RowStart \in Nat
           /\ rowEnd = view.rowOffsets[row + 2] /\ rowEnd <= EndCode(view)
<1>1. RowIsOfView /\ row \in Nat
  BY DEF ResolverInv
<1>2. /\ view \in Views /\ view.rowOffsets # <<>> /\ ~BadOffsets(view)
      /\ row < NumRows(view) /\ rowEnd = view.rowOffsets[row + 2] /\ rowEnd <= EndCode(view)
  BY <1>1 DEF RowIsOfView
<1>3. /\ view.rowOffsets \in Seq(Nat) /\ view.codes \in Seq(Nat)
      /\ Len(view.rowOffsets) \in Nat \ {0} /\ NumRows(view) = Len(view.rowOffsets) - 1
      /\ EndCode(view) \in Nat /\ EndCode(view) <= Len(view.codes)
      /\ \A n \in 1 .. Len(view.rowOffsets) : view.rowOffsets[n] \in Nat
  BY <1>2, OffsetsFit
<1>4. RowStart \in Nat
  <2>1. row + 1 \in 1 .. Len(view.rowOffsets)
    BY <1>1, <1>2, <1>3
  <2> QED
    BY <1>3, <2>1 DEF RowStart
<1>5. Len(Codes) = EndCode(view)
  BY <1>3 DEF Codes
<1> QED
  BY <1>1, <1>2, <1>3, <1>4, <1>5

\* Before the scan there is no row.
LEMMA ResolverInvBeforeScan ==
    ASSUME ResolverInv, phase \notin Scanning \cup {"done", "panic"},
           phase' \notin Scanning \cup {"done", "panic"}, UNCHANGED <<view, resolver>>
    PROVE  ResolverInv'
  BY DEF ResolverInv, resolver, Scanning

\* After it there is no more to know.
LEMMA ResolverInvAfterScan ==
    ASSUME ResolverInv, phase' \in {"done", "panic"},
           UNCHANGED <<block, next, hit, row, rowEnd, resolved>>
    PROVE  ResolverInv'
  BY DEF ResolverInv, Scanning

LEMMA ResolverInvStartScan ==
    ASSUME ResolverInv, StartScan
    PROVE  ResolverInv'
<1> DEFINE v == view'
<1>1. /\ v \in Views /\ v.rowOffsets # <<>> /\ ~BadOffsets(v) /\ FirstCode(v) # EndCode(v)
      /\ block' = FirstCode(v) /\ rowEnd' = v.rowOffsets[2] /\ row = 0 /\ row' = row
      /\ next' = next /\ hit' = hit /\ resolved' = resolved
      /\ phase' = IF rowEnd' > EndCode(v) THEN "panic" ELSE "blocks"
  BY DEF StartScan, Scannable, ResolverInv, Scanning
<1> HIDE DEF v
<1>2. /\ v.rowOffsets \in Seq(Nat)
      /\ Len(v.rowOffsets) \in Nat \ {0} /\ NumRows(v) = Len(v.rowOffsets) - 1
      /\ FirstCode(v) \in Nat /\ EndCode(v) \in Nat
      /\ \A n \in 1 .. Len(v.rowOffsets) : v.rowOffsets[n] \in Nat
  BY <1>1, OffsetsFit
<1>3. Len(v.rowOffsets) # 1
  BY <1>1 DEF FirstCode, EndCode
<1>4. NumRows(v) > 0 /\ 2 \in 1 .. Len(v.rowOffsets)
  <2> DEFINE count == Len(v.rowOffsets)
  <2>1. count \in Nat /\ count # 0 /\ count # 1 /\ NumRows(v) = count - 1
    BY <1>2, <1>3
  <2> HIDE DEF count
  <2>2. count - 1 > 0 /\ 2 \in 1 .. count
    BY <2>1
  <2> QED
    BY <2>1, <2>2 DEF count
<1>5. rowEnd' \in Nat /\ block' \in Nat
  BY <1>1, <1>2, <1>4
<1>6. next' \in Nat /\ hit' \in Nat /\ row' \in Nat /\ resolved' \in Nat
  BY <1>1 DEF ResolverInv
<1>7. phase' = "blocks" => RowIsOfView' /\ RowStart' <= block'
  <2> HAVE phase' = "blocks"
  <2>1. ~(rowEnd' > EndCode(v))
    BY <1>1
  <2>2. rowEnd' <= EndCode(v) /\ row' < NumRows(v) /\ rowEnd' = v.rowOffsets[row' + 2]
    BY <1>1, <1>2, <1>4, <1>5, <2>1
  <2>3. RowIsOfView'
    BY <1>1, <2>2 DEF RowIsOfView, v
  <2>4. RowStart' = v.rowOffsets[1]
    BY <1>1 DEF RowStart, v
  <2> QED
    BY <1>1, <1>5, <2>3, <2>4 DEF FirstCode
<1> QED
  BY <1>1, <1>5, <1>6, <1>7 DEF ResolverInv, Scanning

LEMMA ResolverInvStartBlock ==
    ASSUME ResolverInv, StartBlock
    PROVE  ResolverInv'
<1>1. /\ phase = "blocks" /\ phase' = "hits" /\ next' = Sets!Max({resolved - block, 0})
      /\ UNCHANGED <<view, block, hit, row, rowEnd, resolved>>
  BY DEF StartBlock
<1>2. /\ block \in Nat /\ hit \in Nat /\ row \in Nat /\ rowEnd \in Nat /\ resolved \in Nat
      /\ RowIsOfView /\ RowStart <= block
  BY <1>1 DEF ResolverInv, Scanning
<1>3. RowStart \in Nat
  BY <1>1, RowFits DEF Scanning
<1>4. next' \in Nat
  BY <1>1, <1>2, GreaterIs
<1>5. RowStart <= block + next' /\ RowStart <= block + BlockLen
  <2> DEFINE start == RowStart
             from == next'
  <2>1. start \in Nat /\ from \in Nat /\ block \in Nat /\ BlockLen \in Nat /\ start <= block
    BY <1>2, <1>3, <1>4, ScanAssumption
  <2> HIDE DEF start, from
  <2>2. start <= block + from /\ start <= block + BlockLen
    BY <2>1
  <2> QED
    BY <2>2 DEF start, from
<1>6. RowIsOfView' /\ RowStart' = RowStart
  BY <1>1, <1>2 DEF RowIsOfView, RowStart
<1> QED
  BY <1>1, <1>2, <1>4, <1>5, <1>6 DEF ResolverInv, Scanning

\* The bits left are codes of the stream, from the next on.
LEMMA HitsLeftFit ==
    ASSUME ResolverInv, phase = "hits", NEW n \in HitsLeft
    PROVE  n \in Nat /\ next <= n /\ n < BlockLen /\ block + n < EndCode(view)
<1>1. /\ block \in Nat /\ next \in Nat /\ EndCode(view) \in Nat /\ Len(Codes) = EndCode(view)
      /\ BlockLen \in Nat
  BY RowFits, ScanAssumption DEF ResolverInv, Scanning
<1>2. n \in 0 .. Valid - 1 /\ n >= next
  BY DEF HitsLeft, Mask
<1>3. Valid = IF BlockLen <= Len(Codes) - block THEN BlockLen ELSE Len(Codes) - block
  <2>1. BlockLen \in Int /\ Len(Codes) - block \in Int
    BY <1>1
  <2> QED
    BY <2>1, LesserIs DEF Valid
<1> QED
  BY <1>1, <1>2, <1>3

LEMMA ResolverInvTakeHit ==
    ASSUME ResolverInv, TakeHit
    PROVE  ResolverInv'
<1> DEFINE n == Sets!Min(HitsLeft)
<1>1. /\ phase = "hits" /\ HitsLeft # {} /\ hit' = block + n
      /\ phase' = IF hit' >= rowEnd THEN "locate" ELSE "verify"
      /\ UNCHANGED <<view, block, next, row, rowEnd, resolved>>
  BY DEF TakeHit
<1>2. /\ block \in Nat /\ next \in Nat /\ row \in Nat /\ rowEnd \in Nat /\ resolved \in Nat
      /\ RowIsOfView /\ RowStart <= block + next
  BY <1>1 DEF ResolverInv, Scanning
<1>3. RowStart \in Nat /\ EndCode(view) \in Nat
  BY <1>1, RowFits DEF Scanning
<1>4. n \in HitsLeft
  <2>1. HitsLeft \in SUBSET Nat
    BY <1>1, HitsLeftFit
  <2> QED
    BY <1>1, <2>1, LeastIsIn
<1> HIDE DEF n
<1>5. n \in Nat /\ next <= n /\ n < BlockLen /\ block + n < EndCode(view)
  BY <1>1, <1>4, HitsLeftFit
<1>6. RowIsOfView' /\ RowStart' = RowStart /\ EndCode(view)' = EndCode(view)
  BY <1>1, <1>2 DEF RowIsOfView, RowStart
<1>7. /\ hit' \in Nat /\ block <= hit' /\ hit' < EndCode(view) /\ hit' < block + BlockLen
      /\ RowStart <= hit' /\ (phase' = "locate" => rowEnd <= hit') /\ (phase' = "verify" => hit' < rowEnd)
  BY <1>1, <1>2, <1>3, <1>5, ScanAssumption
<1>8. phase' \in {"locate", "verify"}
  BY <1>1
<1> QED
  BY <1>1, <1>2, <1>6, <1>7, <1>8 DEF ResolverInv, Scanning

LEMMA ResolverInvEndBlock ==
    ASSUME ResolverInv, EndBlock
    PROVE  ResolverInv'
<1>1. /\ phase = "hits" /\ phase' = "blocks" /\ block' = block + BlockLen
      /\ UNCHANGED <<view, next, hit, row, rowEnd, resolved>>
  BY DEF EndBlock
<1>2. /\ block \in Nat /\ next \in Nat /\ hit \in Nat /\ row \in Nat /\ rowEnd \in Nat
      /\ resolved \in Nat /\ RowIsOfView /\ RowStart <= block + BlockLen
  BY <1>1 DEF ResolverInv, Scanning
<1>3. block' \in Nat
  BY <1>1, <1>2, ScanAssumption
<1>4. RowIsOfView' /\ RowStart' = RowStart
  BY <1>1, <1>2 DEF RowIsOfView, RowStart
<1> QED
  BY <1>1, <1>2, <1>3, <1>4 DEF ResolverInv, Scanning

\* A hit behind the current row is in a later one.
LEMMA HitIsInLaterRow ==
    ASSUME ResolverInv, phase = "locate"
    PROVE  row + 1 < NumRows(view)
<1>1. /\ view.rowOffsets \in Seq(Nat) /\ NumRows(view) \in Nat /\ row < NumRows(view)
      /\ NumRows(view) + 1 = Len(view.rowOffsets)
      /\ EndCode(view) \in Nat /\ rowEnd = view.rowOffsets[row + 2]
  BY RowFits DEF Scanning
<1>2. row \in Nat /\ rowEnd <= hit /\ hit < EndCode(view) /\ hit \in Nat /\ rowEnd \in Nat
  BY DEF ResolverInv
<1>3. EndCode(view) = view.rowOffsets[NumRows(view) + 1]
  BY <1>1 DEF EndCode
<1>4. row + 1 # NumRows(view)
  <2> SUFFICES ASSUME row + 1 = NumRows(view)
               PROVE  FALSE
    OBVIOUS
  <2>1. row + 2 = NumRows(view) + 1
    BY <1>1, <1>2
  <2>2. rowEnd = EndCode(view)
    BY <1>1, <1>3, <2>1
  <2> QED
    BY <1>1, <1>2, <2>2
<1> QED
  BY <1>1, <1>2, <1>4

LEMMA ResolverInvLocateRow ==
    ASSUME ResolverInv, LocateRow
    PROVE  ResolverInv'
<1>1. /\ phase = "locate" /\ row' = FindRow(row + 1, hit) /\ rowEnd' = view.rowOffsets[row' + 2]
      /\ phase' = IF rowEnd' > Len(Codes) THEN "panic" ELSE "verify"
      /\ UNCHANGED <<view, block, next, hit, resolved>>
  BY DEF LocateRow
<1>2. /\ block \in Nat /\ next \in Nat /\ hit \in Nat /\ row \in Nat /\ resolved \in Nat
      /\ block <= hit /\ hit < EndCode(view) /\ hit < block + BlockLen /\ rowEnd <= hit
      /\ view \in Views /\ view.rowOffsets # <<>> /\ ~BadOffsets(view)
  BY <1>1 DEF ResolverInv, RowIsOfView, Scanning
<1>3. /\ view.rowOffsets \in Seq(Nat) /\ NumRows(view) \in Nat
      /\ NumRows(view) + 1 = Len(view.rowOffsets)
      /\ EndCode(view) \in Nat /\ Len(Codes) = EndCode(view) /\ rowEnd = view.rowOffsets[row + 2]
  BY <1>1, RowFits DEF Scanning
<1>4. row + 1 \in Nat /\ row + 1 < NumRows(view) /\ view.rowOffsets[(row + 1) + 1] <= hit
  <2>1. (row + 1) + 1 = row + 2
    BY <1>2
  <2> QED
    BY <1>1, <1>2, <1>3, <2>1, HitIsInLaterRow
<1>5. /\ row' \in row + 1 .. NumRows(view) - 1
      /\ view.rowOffsets[row' + 1] <= hit /\ hit < view.rowOffsets[row' + 2]
  BY <1>1, <1>2, <1>3, <1>4, FindRowFinds
<1>6. row' \in Nat /\ row' < NumRows(view) /\ rowEnd' \in Nat
  <2> DEFINE r == row'
             count == NumRows(view)
  <2>1. r \in row + 1 .. count - 1 /\ row \in Nat /\ count \in Nat /\ Len(view.rowOffsets) = count + 1
    BY <1>2, <1>3, <1>5
  <2> HIDE DEF r, count
  <2>2. r \in Nat /\ r < count /\ r + 2 \in 1 .. count + 1
    BY <2>1
  <2>3. row' \in Nat /\ row' < NumRows(view) /\ row' + 2 \in 1 .. Len(view.rowOffsets)
    BY <2>1, <2>2 DEF r, count
  <2>4. view.rowOffsets[row' + 2] \in Nat
    BY <1>3, <2>3, ElementOfSeq
  <2> QED
    BY <1>1, <2>3, <2>4
<1>7. phase' = "verify" => rowEnd' <= EndCode(view)
  <2> DEFINE to == rowEnd'
             end == EndCode(view)
  <2>1. to \in Nat /\ end \in Nat /\ (phase' = "verify" => ~(to > end))
    BY <1>1, <1>3, <1>6
  <2> HIDE DEF to, end
  <2>2. phase' = "verify" => to <= end
    BY <2>1
  <2> QED
    BY <2>2 DEF to, end
<1>8. phase' \in {"verify", "panic"}
  BY <1>1
<1>9. phase' = "verify" => RowIsOfView'
  BY <1>1, <1>2, <1>6, <1>7 DEF RowIsOfView
<1>10. RowStart' = view.rowOffsets[row' + 1] /\ EndCode(view)' = EndCode(view)
  BY <1>1 DEF RowStart
<1>11. hit < rowEnd'
  BY <1>1, <1>5
<1> QED
  BY <1>1, <1>2, <1>5, <1>6, <1>8, <1>9, <1>10, <1>11 DEF ResolverInv, Scanning

LEMMA ResolverInvVerify ==
    ASSUME ResolverInv, Verify
    PROVE  ResolverInv'
<1>1. /\ phase = "verify" /\ phase' = "hits"
      /\ UNCHANGED <<view, block, hit, row, rowEnd>>
      /\ \/ resolved' = rowEnd /\ next' = rowEnd - block
         \/ next' = hit - block + 1 /\ UNCHANGED resolved
  BY DEF Verify
<1>2. /\ block \in Nat /\ hit \in Nat /\ row \in Nat /\ rowEnd \in Nat /\ resolved \in Nat
      /\ RowIsOfView /\ block <= hit /\ hit < block + BlockLen /\ RowStart <= hit /\ hit < rowEnd
  BY <1>1 DEF ResolverInv, Scanning
<1>3. RowStart \in Nat
  BY <1>1, RowFits DEF Scanning
<1>4. /\ next' \in Nat /\ resolved' \in Nat
      /\ RowStart <= block + next' /\ RowStart <= block + BlockLen
  BY <1>1, <1>2, <1>3, ScanAssumption
<1>5. RowIsOfView' /\ RowStart' = RowStart
  BY <1>1, <1>2 DEF RowIsOfView, RowStart
<1> QED
  BY <1>1, <1>2, <1>4, <1>5 DEF ResolverInv, Scanning

LEMMA ResolverInvStays ==
    ASSUME ResolverInv, [ScanNext]_scan_vars
    PROVE  ResolverInv'
<1>1. CASE RejectIndex
  <2>1. phase \in {"ready", "single", "payload"} /\ phase' = "error" /\ UNCHANGED <<view, resolver>>
    BY <1>1 DEF RejectIndex
  <2> QED
    BY <2>1, ResolverInvBeforeScan DEF Scanning
<1>2. CASE BuildGraph
  <2>1. phase \in {"single", "payload", "paths"}
        /\ phase' \in {"single", "payload", "paths", "graph", "error"} /\ UNCHANGED <<view, resolver>>
    BY <1>2 DEF BuildGraph, GraphStep, CollectSingleByte, SinglesCollected, ScanPayload,
                PayloadScanned, BuildPosition, MissingByte, NextPath, OnPath
  <2> QED
    BY <2>1, ResolverInvBeforeScan DEF Scanning
<1>3. CASE Select
  <2>1. phase = "graph" /\ phase' = "planned" /\ UNCHANGED <<view, resolver>>
    BY <1>3 DEF Select
  <2> QED
    BY <2>1, ResolverInvBeforeScan DEF Scanning
<1>4. CASE Prepare
  <2>1. phase = "planned" /\ phase' = "ready" /\ UNCHANGED <<view, resolver>>
    BY <1>4 DEF Prepare
  <2> QED
    BY <2>1, ResolverInvBeforeScan DEF Scanning
<1>5. CASE ExpectedHits
  <2>1. phase = "ready" /\ phase' \in {"error", "asked"} /\ UNCHANGED <<view, resolver>>
    BY <1>5 DEF ExpectedHits
  <2> QED
    BY <2>1, ResolverInvBeforeScan DEF Scanning
<1>6. CASE ScanNothing \/ ScanPanics \/ ScanEverything \/ FinishScan
  <2>1. phase' \in {"done", "panic"} /\ UNCHANGED <<block, next, hit, row, rowEnd, resolved>>
    BY <1>6 DEF ScanNothing, ScanPanics, ScanEverything, FinishScan, resolver
  <2> QED
    BY <2>1, ResolverInvAfterScan
<1>7. CASE UNCHANGED scan_vars
  BY <1>7 DEF scan_vars, resolver, call, plan, ResolverInv, RowIsOfView, RowStart, Scanning
<1> QED
  BY <1>1, <1>2, <1>3, <1>4, <1>5, <1>6, <1>7, ResolverInvStartScan, ResolverInvStartBlock,
     ResolverInvTakeHit, ResolverInvEndBlock, ResolverInvLocateRow, ResolverInvVerify DEF ScanNext

LEMMA ResolverInvStarts ==
    ASSUME ScanInit
    PROVE  ResolverInv
  BY DEF ScanInit, GraphInit, ResolverInv, Scanning

LEMMA ResolverInvKeepsHits ==
    ASSUME ResolverInv
    PROVE  HitsAreInTheirRow
<1>1. ASSUME phase = "locate"
      PROVE  row + 1 < NumRows(view) /\ hit \in rowEnd .. Len(Codes) - 1
  <2>1. EndCode(view) \in Nat /\ Len(Codes) = EndCode(view)
    BY <1>1, RowFits DEF Scanning
  <2>2. rowEnd \in Nat /\ hit \in Nat /\ rowEnd <= hit /\ hit < EndCode(view)
    BY <1>1 DEF ResolverInv
  <2> QED
    BY <1>1, <2>1, <2>2, HitIsInLaterRow
<1>2. ASSUME phase = "verify"
      PROVE  hit \in view.rowOffsets[row + 1] .. rowEnd - 1 /\ rowEnd <= Len(Codes)
  <2>1. EndCode(view) \in Nat /\ Len(Codes) = EndCode(view) /\ RowStart \in Nat /\ rowEnd <= EndCode(view)
    BY <1>2, RowFits DEF Scanning
  <2>2. rowEnd \in Nat /\ hit \in Nat /\ hit < rowEnd /\ RowStart <= hit
    BY <1>2 DEF ResolverInv
  <2> QED
    BY <2>1, <2>2 DEF RowStart
<1> QED
  BY <1>1, <1>2 DEF HitsAreInTheirRow

\* The resolver knows in every state what it needs of its row, whatever cut is searched
\* for and whatever the offsets between the first and the last are (Resolver::rows).
THEOREM ResolverInvHolds == ScanSpec => []ResolverInv
<1> QED
  BY ResolverInvStarts, ResolverInvStays, PTL DEF ScanSpec

\* A hit is verified in a row that holds it and ends within the codes, even if the
\* offsets decrease (scan/resolver.rs).
THEOREM HitsAreResolved == ScanSpec => []HitsAreInTheirRow
<1> QED
  BY ResolverInvHolds, ResolverInvKeepsHits, PTL
-----------------------------------------------------------------------------
(***************************************************************************)
(* The alignment graph.                                                    *)
(***************************************************************************)

\* The tokens to list for an overlap, and those whose tails begin before a position.
Tails(k) == {t \in Ids(vocab) : EndsWithPrefix(t, k)}
TailsBefore(k, at) == {t \in Tails(k) : PayloadOffsets[t + 1] - k < at}

Limit(k) == IF k = 1 THEN MaxSingleByteTokens ELSE MaxEnumeratedTokens

\* All of S is listed for an overlap, unless it is too many.
Lists(l, un, k, S) ==
    IF k \in un THEN l[k] = {} /\ Cardinality(S) > Limit(k)
    ELSE l[k] = S /\ Cardinality(S) <= Limit(k)

Leads(t) == StartsAt(vocab[t + 1], 0, pattern)

\* The tokens with the pattern inside, and those with it before a position.
Holders == {t \in Ids(vocab) : Inside(t) /\ ~Leads(t)}
HoldersBefore(at) ==
    {t \in Ids(vocab) : ~Leads(t) /\ \E i \in 1 .. LengthOf(t) :
                            StartsAt(vocab[t + 1], i, pattern) /\ PayloadOffsets[t] + i < at}

\* What is behind a token that begins with the pattern is never looked at before its
\* last bytes.
LeadsPassed(at) ==
    \A t \in Ids(vocab) : Leads(t) /\ PayloadOffsets[t] < at => AfterMatch(t) <= at

GraphTypeOK ==
    /\ vocab \in Dictionaries /\ pattern \in Patterns
    /\ phase \in {"single", "payload", "paths", "graph", "error", "planned", "ready",
                  "blocks", "hits", "locate", "verify", "done", "asked", "panic"}
    /\ token \in 0 .. Len(vocab) /\ cursor \in 0 .. Len(Payload)
    /\ listed \in [OverlapLengths -> SUBSET Ids(vocab)]
    /\ unenumerated \subseteq OverlapLengths /\ contained \subseteq Ids(vocab)
    /\ length \in 0 .. sink /\ offset \in 0 .. sink
    /\ DOMAIN nodes = 0 .. sink - 1
    /\ cut \subseteq Edges
    /\ phase \in {"single", "payload", "paths", "graph"} => cut = {} /\ sink > 0

SinglesInv ==
    /\ sink > 1 /\ cursor = 0 /\ contained = {}
    /\ \A k \in OverlapLengths :
        Lists(listed, unenumerated, k, IF k = 1 THEN {t \in Tails(1) : t < token} ELSE {})

PayloadInv ==
    /\ PayloadOffsets[token] <= cursor
    /\ \A k \in OverlapLengths :
        Lists(listed, unenumerated, k, IF k = 1 THEN Tails(1) ELSE TailsBefore(k, cursor))
    /\ contained = HoldersBefore(cursor)
    /\ LeadsPassed(cursor)

CollectedInv ==
    /\ \A k \in OverlapLengths : Lists(listed, unenumerated, k, Tails(k))
    /\ contained = Holders

Refusals == sink > MaxPatternLen \/ ~Conforms(vocab) \/ (index # Refused /\ Mismatch(index))

GraphInv ==
    /\ GraphTypeOK
    /\ phase = "single" => SinglesInv
    /\ phase = "payload" => PayloadInv
    /\ phase \in {"paths", "graph"} => CollectedInv
    /\ phase = "error" => Refusals

-----------------------------------------------------------------------------
(***************************************************************************)
(* The concatenated tokens.                                                *)
(***************************************************************************)

LEMMA PayloadTyped ==
    ASSUME vocab \in Dictionaries, pattern \in Patterns
    PROVE  /\ vocab \in Seq(Token) /\ vocab \in Seq(ByteSeq) /\ Len(vocab) \in Nat
           /\ pattern \in ByteSeq /\ sink \in Nat
           /\ PayloadOffsets \in [0 .. Len(vocab) -> Nat] /\ PayloadOffsets[0] = 0
           /\ \A t \in Ids(vocab) :
                /\ t \in Nat /\ t + 1 \in 1 .. Len(vocab) /\ vocab[t + 1] \in ByteSeq
                /\ LengthOf(t) \in 1 .. MaxTokenSize /\ LengthOf(t) \in Nat
                /\ PayloadOffsets[t] \in Nat /\ PayloadOffsets[t + 1] \in Nat
                /\ PayloadOffsets[t + 1] = PayloadOffsets[t] + LengthOf(t)
           /\ Payload \in ByteSeq /\ Len(Payload) = PayloadOffsets[Len(vocab)]
           /\ Len(Payload) \in Nat
<1>1. vocab \in Seq(Token) /\ pattern \in ByteSeq
  BY GraphAssumption
<1>2. vocab \in Seq(ByteSeq) /\ Len(vocab) \in Nat
  <2>1. \A n \in 1 .. Len(vocab) : vocab[n] \in ByteSeq
    BY <1>1, ElementOfSeq, TokenType
  <2> QED
    BY <1>1, <2>1
<1>3. sink \in Nat
  BY <1>1 DEF sink, ByteSeq
<1>4. PayloadOffsets \in [0 .. Len(vocab) -> Nat] /\ PayloadOffsets[0] = 0
      /\ \A i \in 1 .. Len(vocab) : PayloadOffsets[i] = PayloadOffsets[i - 1] + Len(vocab[i])
  BY <1>2, RowOffsetsExist DEF PayloadOffsets
<1>5. ASSUME NEW t \in Ids(vocab)
      PROVE  /\ t \in Nat /\ t + 1 \in 1 .. Len(vocab) /\ vocab[t + 1] \in ByteSeq
             /\ LengthOf(t) \in 1 .. MaxTokenSize /\ LengthOf(t) \in Nat
             /\ PayloadOffsets[t] \in Nat /\ PayloadOffsets[t + 1] \in Nat
             /\ PayloadOffsets[t + 1] = PayloadOffsets[t] + LengthOf(t)
  <2>1. t \in Nat /\ t + 1 \in 1 .. Len(vocab) /\ (t + 1) - 1 = t /\ t \in 0 .. Len(vocab)
        /\ t + 1 \in 0 .. Len(vocab)
    BY <1>2 DEF Ids
  <2>2. vocab[t + 1] \in Token
    BY <1>1, <2>1, ElementOfSeq
  <2>3. vocab[t + 1] \in ByteSeq /\ Len(vocab[t + 1]) \in 1 .. MaxTokenSize
    BY <2>2, TokenType
  <2>4. LengthOf(t) = Len(vocab[t + 1]) /\ LengthOf(t) \in Nat
    BY <2>3 DEF LengthOf, ByteSeq
  <2>5. PayloadOffsets[t + 1] = PayloadOffsets[t] + LengthOf(t)
    BY <1>4, <2>1, <2>4
  <2> QED
    BY <1>4, <2>1, <2>3, <2>4, <2>5
<1>6. Payload \in ByteSeq /\ Len(Payload) = PayloadOffsets[Len(vocab)]
  <2>1. Len(vocab) \in 0 .. Len(vocab)
    BY <1>2
  <2>2. Len(FlatTo(vocab)[Len(vocab)]) = ByteCount(vocab, Len(vocab))
    BY <1>2, <2>1, FlatToLength
  <2>3. FlatTo(vocab)[Len(vocab)] \in Seq(Byte)
    BY <1>2, <2>1, FlatToSteps DEF ByteSeq
  <2> QED
    BY <2>2, <2>3 DEF Payload, Flat, ByteCount, PayloadOffsets, ByteSeq
<1>7. Len(Payload) \in Nat
  BY <1>6 DEF ByteSeq
<1> QED
  BY <1>1, <1>2, <1>3, <1>4, <1>5, <1>6, <1>7

LEMMA OffsetsAscend ==
    ASSUME vocab \in Dictionaries, pattern \in Patterns,
           NEW i \in 0 .. Len(vocab), NEW j \in i .. Len(vocab)
    PROVE  PayloadOffsets[i] <= PayloadOffsets[j]
  BY PayloadTyped, ByteCountMonotone DEF ByteCount, PayloadOffsets

\* No two tokens hold the same position.
LEMMA OneOwner ==
    ASSUME vocab \in Dictionaries, pattern \in Patterns, NEW t \in Ids(vocab), NEW u \in Ids(vocab),
           NEW p \in Nat, PayloadOffsets[t] <= p, p < PayloadOffsets[t + 1],
           PayloadOffsets[u] <= p, p < PayloadOffsets[u + 1]
    PROVE  t = u
<1>1. /\ t \in Nat /\ t + 1 \in 1 .. Len(vocab) /\ u \in Nat /\ u + 1 \in 1 .. Len(vocab)
      /\ Len(vocab) \in Nat
      /\ PayloadOffsets[t] \in Nat /\ PayloadOffsets[t + 1] \in Nat
      /\ PayloadOffsets[u] \in Nat /\ PayloadOffsets[u + 1] \in Nat
  BY PayloadTyped
<1>2. ~(t < u)
  <2> SUFFICES ASSUME t < u PROVE FALSE
    OBVIOUS
  <2>1. t + 1 \in 0 .. Len(vocab) /\ u \in t + 1 .. Len(vocab)
    BY <1>1
  <2>2. PayloadOffsets[t + 1] <= PayloadOffsets[u]
    BY <2>1, OffsetsAscend
  <2> QED
    BY <1>1, <2>2
<1>3. ~(u < t)
  <2> SUFFICES ASSUME u < t PROVE FALSE
    OBVIOUS
  <2>1. u + 1 \in 0 .. Len(vocab) /\ t \in u + 1 .. Len(vocab)
    BY <1>1
  <2>2. PayloadOffsets[u + 1] <= PayloadOffsets[t]
    BY <2>1, OffsetsAscend
  <2> QED
    BY <1>1, <2>2
<1> QED
  BY <1>1, <1>2, <1>3

\* One does.
LEMMA AnOwner ==
    ASSUME vocab \in Dictionaries, pattern \in Patterns, NEW p \in Nat, p < Len(Payload)
    PROVE  \E t \in Ids(vocab) : PayloadOffsets[t] <= p /\ p < PayloadOffsets[t + 1]
<1> DEFINE S == {n \in 0 .. Len(vocab) : p < PayloadOffsets[n]}
<1>1. /\ Len(vocab) \in Nat /\ PayloadOffsets \in [0 .. Len(vocab) -> Nat]
      /\ PayloadOffsets[0] = 0 /\ Len(Payload) = PayloadOffsets[Len(vocab)]
  BY PayloadTyped
<1>2. S \in SUBSET Nat /\ S # {}
  <2>1. Len(vocab) \in S
    BY <1>1
  <2> QED
    BY <2>1
<1>3. PICK m \in S : \A n \in S : m <= n
  BY <1>2, LeastNatural
<1>4. m \in 0 .. Len(vocab) /\ m # 0 /\ p < PayloadOffsets[m]
  BY <1>1, <1>3
<1>5. m - 1 \in Ids(vocab) /\ (m - 1) + 1 = m /\ m - 1 \in 0 .. Len(vocab) /\ ~(m <= m - 1)
  BY <1>1, <1>4 DEF Ids
<1>6. ~(p < PayloadOffsets[m - 1])
  BY <1>3, <1>5
<1>7. PayloadOffsets[m - 1] \in Nat
  BY <1>1, <1>5
<1> QED
  BY <1>4, <1>5, <1>6, <1>7

LEMMA TokenInPayload ==
    ASSUME vocab \in Dictionaries, pattern \in Patterns, NEW t \in Ids(vocab)
    PROVE  StartsAt(Payload, PayloadOffsets[t], vocab[t + 1])
<1>1. /\ vocab \in Seq(Seq(Byte)) /\ vocab \in Seq(ByteSeq) /\ Len(vocab) \in Nat /\ t \in Nat
      /\ t + 1 \in 1 .. Len(vocab)
  BY PayloadTyped DEF ByteSeq
<1>2. (t + 1) - 1 = t /\ Len(vocab) \in t + 1 .. Len(vocab) /\ t \in 0 .. Len(vocab)
  BY <1>1
<1>3. StartsAt(FlatTo(vocab)[Len(vocab)], Len(FlatTo(vocab)[t]), vocab[t + 1])
  BY <1>1, <1>2, PiecesOfFlat
<1>4. Len(FlatTo(vocab)[t]) = PayloadOffsets[t]
  BY <1>1, <1>2, FlatToLength DEF ByteCount, PayloadOffsets
<1> QED
  BY <1>3, <1>4 DEF Payload, Flat

\* What is in a token is in the payload, and conversely.
LEMMA InPayload ==
    ASSUME vocab \in Dictionaries, pattern \in Patterns, NEW t \in Ids(vocab),
           NEW i \in Nat, NEW s \in ByteSeq, i + Len(s) <= LengthOf(t)
    PROVE  StartsAt(vocab[t + 1], i, s) <=> StartsAt(Payload, PayloadOffsets[t] + i, s)
<1>1. /\ vocab[t + 1] \in ByteSeq /\ LengthOf(t) = Len(vocab[t + 1]) /\ LengthOf(t) \in Nat
      /\ PayloadOffsets[t] \in Nat /\ Len(Payload) \in Nat
  BY PayloadTyped DEF LengthOf
<1>2. StartsAt(Payload, PayloadOffsets[t], vocab[t + 1])
  BY TokenInPayload
<1>3. Len(s) \in Nat
  BY DEF ByteSeq
<1> DEFINE v == vocab[t + 1]
           o == PayloadOffsets[t]
           P == Payload
<1>4. o + Len(v) <= Len(P) /\ \A k \in 1 .. Len(v) : P[o + k] = v[k]
  BY <1>2 DEF StartsAt
<1>5. o \in Nat /\ Len(v) \in Nat /\ Len(P) \in Nat /\ i + Len(s) <= Len(v)
  BY <1>1
<1> HIDE DEF v, o, P
<1>6. \A k \in 1 .. Len(s) : i + k \in 1 .. Len(v) /\ o + (i + k) = (o + i) + k
  BY <1>3, <1>5
<1>7. \A k \in 1 .. Len(s) : P[(o + i) + k] = v[i + k]
  BY <1>4, <1>6
<1>8. (o + i) + Len(s) <= Len(P)
  BY <1>3, <1>4, <1>5
<1>9. StartsAt(v, i, s) <=> StartsAt(P, o + i, s)
  BY <1>5, <1>7, <1>8 DEF StartsAt
<1> QED
  BY <1>9 DEF v, o, P

LEMMA WholePrefix ==
    ASSUME pattern \in ByteSeq
    PROVE  SubSeq(pattern, 1, sink) = pattern
  BY DEF ByteSeq, sink

\* What is searched for is at the start of the pattern and of all its longer prefixes.
LEMMA FrontFacts ==
    ASSUME pattern \in ByteSeq, sink > 0
    PROVE  /\ Front \in ByteSeq
           /\ Len(Front) = IF sink >= 2 THEN 2 ELSE 1
           /\ \A k \in 1 .. Len(Front) : Front[k] = pattern[k]
           /\ sink = 1 => Front = pattern
<1>1. sink \in Nat /\ sink = Len(pattern)
  BY DEF sink, ByteSeq
<1> DEFINE n == Sets!Min({sink, 2})
<1>2. n = IF sink <= 2 THEN sink ELSE 2
  BY <1>1, LesserIs
<1> HIDE DEF n
<1>3. n \in 1 .. Len(pattern) /\ (sink = 1 => n = 1) /\ n = IF sink >= 2 THEN 2 ELSE 1
  BY <1>1, <1>2
<1>4. Front = SubSeq(pattern, 1, n)
  BY DEF Front, n
<1>5. Front \in ByteSeq /\ Len(Front) = n /\ \A k \in 1 .. n : Front[k] = pattern[k]
  BY <1>3, <1>4 DEF ByteSeq
<1>6. sink = 1 => Front = pattern
  <2> HAVE sink = 1
  <2>1. n = sink
    BY <1>3
  <2> QED
    BY <1>4, <2>1, WholePrefix
<1> QED
  BY <1>3, <1>5, <1>6

LEMMA PrefixFacts ==
    ASSUME pattern \in ByteSeq, NEW k \in 1 .. sink
    PROVE  /\ SubSeq(pattern, 1, k) \in ByteSeq /\ Len(SubSeq(pattern, 1, k)) = k
           /\ \A j \in 1 .. k : SubSeq(pattern, 1, k)[j] = pattern[j]
  BY DEF ByteSeq, sink

LEMMA FrontIsFirst ==
    ASSUME pattern \in ByteSeq, NEW s \in ByteSeq, NEW at \in Nat, NEW k \in 1 .. sink,
           k >= 2 \/ k = sink, StartsAt(s, at, SubSeq(pattern, 1, k))
    PROVE  StartsAt(s, at, Front)
<1>1. sink \in Nat
  BY DEF sink, ByteSeq
<1>2. /\ Len(Front) = IF sink >= 2 THEN 2 ELSE 1
      /\ \A j \in 1 .. Len(Front) : Front[j] = pattern[j]
  BY <1>1, FrontFacts
<1>3. Len(SubSeq(pattern, 1, k)) = k /\ \A j \in 1 .. k : SubSeq(pattern, 1, k)[j] = pattern[j]
  BY PrefixFacts
<1>4. Len(Front) \in Nat /\ Len(Front) <= k
  BY <1>1, <1>2
<1>5. at + k <= Len(s) /\ \A j \in 1 .. k : s[at + j] = pattern[j]
  BY <1>3 DEF StartsAt
<1>6. Len(s) \in Nat
  BY DEF ByteSeq
<1>7. at + Len(Front) <= Len(s)
  BY <1>4, <1>5, <1>6
<1>8. \A j \in 1 .. Len(Front) : s[at + j] = Front[j]
  BY <1>2, <1>4, <1>5
<1> QED
  BY <1>7, <1>8 DEF StartsAt

LEMMA OverlapLengthsAre ==
    ASSUME pattern \in ByteSeq
    PROVE  /\ \A k \in OverlapLengths : k \in Nat /\ k \in 1 .. sink /\ 0 < k /\ k < sink /\ k < MaxTokenSize
           /\ \A k \in Nat : 0 < k /\ k < sink /\ k < MaxTokenSize => k \in OverlapLengths
<1>1. sink \in Nat /\ MaxTokenSize \in Nat
  BY BytesAssumption DEF sink, ByteSeq
<1>2. Sets!Min({sink, MaxTokenSize}) = IF sink <= MaxTokenSize THEN sink ELSE MaxTokenSize
  BY <1>1, LesserIs
<1> QED
  BY <1>1, <1>2 DEF OverlapLengths

\* The tail of the token that holds a position, from there on.
LEMMA TailOfToken ==
    ASSUME vocab \in Dictionaries, pattern \in Patterns, NEW t \in Ids(vocab), NEW p \in Nat,
           PayloadOffsets[t] <= p, p < PayloadOffsets[t + 1]
    PROVE  LET tail == Slice(Payload, p, PayloadOffsets[t + 1])
           IN  /\ tail \in ByteSeq /\ Len(tail) = PayloadOffsets[t + 1] - p
               /\ Len(tail) \in 1 .. LengthOf(t)
               /\ \A k \in 1 .. Len(tail) : tail[k] = vocab[t + 1][p - PayloadOffsets[t] + k]
<1> DEFINE o == PayloadOffsets[t]
           e == PayloadOffsets[t + 1]
           v == vocab[t + 1]
           P == Payload
           tail == Slice(P, p, e)
<1>1. /\ o \in Nat /\ e \in Nat /\ e = o + LengthOf(t) /\ LengthOf(t) = Len(v) /\ Len(v) \in Nat
      /\ P \in ByteSeq /\ Len(P) \in Nat
  BY PayloadTyped DEF LengthOf
<1>2. StartsAt(P, o, v)
  BY TokenInPayload
<1>3. o + Len(v) <= Len(P) /\ \A k \in 1 .. Len(v) : P[o + k] = v[k]
  BY <1>2 DEF StartsAt
<1> HIDE DEF o, e, v, P
<1>4. o <= p /\ p < e
  BY DEF o, e
<1>5. e <= Len(P) /\ p <= e
  BY <1>1, <1>3, <1>4
<1>6. tail \in ByteSeq /\ Len(tail) = e - p /\ \A k \in 1 .. e - p : tail[k] = P[p + k]
  BY <1>1, <1>5, SliceProperties
<1>7. \A k \in 1 .. e - p : (p - o) + k \in 1 .. Len(v) /\ o + ((p - o) + k) = p + k
  BY <1>1, <1>4
<1>8. \A k \in 1 .. e - p : tail[k] = v[(p - o) + k]
  BY <1>3, <1>6, <1>7
<1>9. e - p \in 1 .. LengthOf(t)
  BY <1>1, <1>4
<1> HIDE DEF tail
<1>10. /\ tail \in ByteSeq /\ Len(tail) = e - p /\ Len(tail) \in 1 .. LengthOf(t)
       /\ \A k \in 1 .. Len(tail) : tail[k] = v[p - o + k]
  BY <1>6, <1>8, <1>9
<1> QED
  BY <1>10 DEF tail, o, e, v, P

-----------------------------------------------------------------------------
(***************************************************************************)
(* token_at.                                                               *)
(***************************************************************************)

EndAt(first, j) == PayloadOffsets[first + 1 + j]

Behind(first, at, b) == b < Len(vocab) - first /\ EndAt(first, b - 1) <= at

IsTokenGallop(f, first, at) ==
    f = [b \in Nat \ {0} |-> IF Behind(first, at, b) THEN f[2 * b] ELSE b]

\* A bound that galloping may reach: the last one it passed is behind the position.
Reached(first, at, b) == b = 1 \/ \E c \in Nat \ {0} : b = 2 * c /\ Behind(first, at, c)

LEMMA TokenGallopStops ==
    ASSUME NEW first \in Nat, first <= Len(vocab), Len(vocab) \in Nat, NEW at \in Nat
    PROVE  LET gallop == CHOOSE f : IsTokenGallop(f, first, at)
           IN  /\ gallop[1] \in Nat \ {0}
               /\ Reached(first, at, gallop[1])
               /\ ~Behind(first, at, gallop[1])
<1> DEFINE size == Len(vocab) - first
           D == Nat \ {0}
           ends == {b \in D : ~Behind(first, at, b)}
           value == [b \in D |-> b]
           to == [b \in D |-> 2 * b]
           rank == [b \in D |-> IF b < size THEN size - b ELSE 0]
           gallop == CHOOSE f : IsTokenGallop(f, first, at)
<1>1. size \in Nat
  OBVIOUS
<1>2. ASSUME NEW b \in D, b \notin ends
      PROVE  to[b] \in D /\ rank[to[b]] < rank[b] /\ to[b] = 2 * b /\ Behind(first, at, b)
  <2>1. Behind(first, at, b)
    BY <1>2
  <2>2. b < size
    BY <2>1 DEF Behind
  <2> HIDE DEF size
  <2> QED
    BY <1>1, <2>1, <2>2
<1>3. rank \in [D -> 0 .. size]
  <2> HIDE DEF size
  <2> QED
    BY <1>1
<1> HIDE DEF size
<1>4. \E f : IsTokenGallop(f, first, at)
  <2>1. PICK f \in [D -> D] : Descends(f, D, ends, value, to)
    <3>1. \A b \in D : b \notin ends => to[b] \in D /\ rank[to[b]] < rank[b]
      BY <1>2
    <3>2. \A b \in D : b \in ends => value[b] \in D
      OBVIOUS
    <3> HIDE DEF D, ends, value, to, rank
    <3> QED
      BY ONLY <1>1, <1>3, <3>1, <3>2, DescentExists
  <2>2. ASSUME NEW b \in D
        PROVE  f[b] = IF Behind(first, at, b) THEN f[2 * b] ELSE b
    <3>1. f[b] = IF b \in ends THEN value[b] ELSE f[to[b]]
      <4> HIDE DEF D, ends, value, to
      <4> QED
        BY <2>1, DescentUnfolds
    <3>2. value[b] = b /\ to[b] = 2 * b /\ (b \in ends <=> ~Behind(first, at, b))
      OBVIOUS
    <3> HIDE DEF D, ends, value, to
    <3> QED
      BY <3>1, <3>2
  <2>3. f = [b \in D |-> f[b]]
    BY <2>1
  <2>4. f = [b \in D |-> IF Behind(first, at, b) THEN f[2 * b] ELSE b]
    <3> HIDE DEF D
    <3> QED
      BY <2>2, <2>3
  <2> QED
    BY <2>4 DEF IsTokenGallop
<1>5. IsTokenGallop(gallop, first, at)
  BY <1>4
<1> HIDE DEF gallop
<1>6. ASSUME NEW b \in D
      PROVE  gallop[b] = IF Behind(first, at, b) THEN gallop[2 * b] ELSE b
  <2> DEFINE rhs(c) == IF Behind(first, at, c) THEN gallop[2 * c] ELSE c
  <2>1. gallop = [c \in D |-> rhs(c)]
    BY <1>5 DEF IsTokenGallop
  <2> HIDE DEF rhs
  <2>2. gallop[b] = rhs(b)
    BY <2>1
  <2> QED
    BY <2>2 DEF rhs
<1> DEFINE Stopped(b) == b \in D /\ Reached(first, at, b) /\ ~Behind(first, at, b)
           Good == {b \in D : Reached(first, at, b) => Stopped(gallop[b])}
<1>7. ASSUME NEW b \in D, b \in ends
      PROVE  b \in Good
  <2>1. gallop[b] = b /\ ~Behind(first, at, b)
    BY <1>6, <1>7
  <2> QED
    BY <2>1
<1>8. ASSUME NEW b \in D, b \notin ends, to[b] \in Good
      PROVE  b \in Good
  <2>1. Behind(first, at, b) /\ to[b] = 2 * b /\ to[b] \in D
    BY <1>2, <1>8
  <2>2. gallop[b] = gallop[to[b]]
    BY <1>6, <2>1
  <2>3. Reached(first, at, to[b])
    BY <2>1 DEF Reached
  <2>4. Stopped(gallop[to[b]])
    <3> HIDE DEF to, Stopped
    <3> QED
      BY <1>8, <2>3
  <2> QED
    BY <2>2, <2>4
<1>9. \A b \in D : b \in Good
  <2>1. \A b \in D : b \notin ends => to[b] \in D /\ rank[to[b]] < rank[b]
    BY <1>2
  <2> HIDE DEF Good, D, ends, to, rank
  <2>2. Climbs(Good, D, ends, to)
    BY <1>7, <1>8 DEF Climbs
  <2> QED
    BY ONLY <1>1, <1>3, <2>1, <2>2, DescentInduction
<1>10. Stopped(gallop[1])
  <2>1. 1 \in D /\ Reached(first, at, 1)
    BY DEF Reached
  <2> HIDE DEF D, Stopped
  <2> QED
    BY <1>9, <2>1
<1> QED
  BY <1>10 DEF gallop

\* The token found is the one that holds the position.
LEMMA TokenAtFinds ==
    ASSUME vocab \in Dictionaries, pattern \in Patterns, NEW first \in 0 .. Len(vocab), NEW at \in Nat,
           PayloadOffsets[first] <= at, at < Len(Payload)
    PROVE  LET t == TokenAt(first, at)
           IN  t \in Ids(vocab) /\ PayloadOffsets[t] <= at /\ at < PayloadOffsets[t + 1]
<1> DEFINE gallop == CHOOSE f : IsTokenGallop(f, first, at)
           g == gallop[1]
           size == Len(vocab) - first
           passed == g \div 2
           S == {j \in passed .. Sets!Min({g, size}) - 1 : EndAt(first, j) <= at}
<1>1. Len(vocab) \in Nat /\ first \in Nat /\ first <= Len(vocab)
      /\ PayloadOffsets \in [0 .. Len(vocab) -> Nat]
  BY PayloadTyped
<1>2. g \in Nat \ {0} /\ Reached(first, at, g) /\ ~Behind(first, at, g)
  BY <1>1, TokenGallopStops
<1>3. TokenAt(first, at) = first + passed + Cardinality(S)
  BY DEF TokenAt, IsTokenGallop, Behind, EndAt
<1> HIDE DEF g, gallop
<1>4. PICK t \in Ids(vocab) : PayloadOffsets[t] <= at /\ at < PayloadOffsets[t + 1]
  BY AnOwner
<1>5. t \in Nat /\ t < Len(vocab) /\ t + 1 \in 0 .. Len(vocab) /\ t \in 0 .. Len(vocab)
  BY <1>1 DEF Ids
\* Tokens end behind the position from t on.
<1>6. ASSUME NEW n \in 1 .. Len(vocab)
      PROVE  PayloadOffsets[n] <= at <=> n <= t
  <2>0. PayloadOffsets[n] \in Nat /\ PayloadOffsets[t] \in Nat /\ PayloadOffsets[t + 1] \in Nat
    BY <1>1, <1>5
  <2>1. CASE n <= t
    <3>1. n \in 0 .. Len(vocab) /\ t \in n .. Len(vocab)
      BY <1>1, <1>5, <2>1
    <3>2. PayloadOffsets[n] <= PayloadOffsets[t]
      BY <3>1, OffsetsAscend
    <3> QED
      BY <1>4, <2>0, <2>1, <3>2
  <2>2. CASE ~(n <= t)
    <3>1. t + 1 \in 0 .. Len(vocab) /\ n \in t + 1 .. Len(vocab)
      BY <1>1, <1>5, <2>2
    <3>2. PayloadOffsets[t + 1] <= PayloadOffsets[n]
      BY <3>1, OffsetsAscend
    <3> QED
      BY <1>4, <2>0, <2>2, <3>2
  <2> QED
    BY <2>1, <2>2
<1>7. first <= t
  <2> SUFFICES ASSUME t < first PROVE FALSE
    BY <1>1, <1>5
  <2>1. first \in 1 .. Len(vocab)
    BY <1>1, <1>5
  <2> QED
    BY <1>1, <1>5, <1>6, <2>1
<1>8. ASSUME NEW j \in Nat, j < size
      PROVE  EndAt(first, j) <= at <=> j < t - first
  <2>1. first + 1 + j \in 1 .. Len(vocab)
    BY <1>1, <1>8
  <2> QED
    BY <1>1, <1>5, <1>6, <2>1 DEF EndAt
<1>9. passed \in Nat /\ passed <= t - first
  <2>1. CASE g = 1
    BY <1>1, <1>5, <1>7, <2>1
  <2>2. CASE \E c \in Nat \ {0} : g = 2 * c /\ Behind(first, at, c)
    <3>1. PICK c \in Nat \ {0} : g = 2 * c /\ Behind(first, at, c)
      BY <2>2
    <3>2. c < size /\ EndAt(first, c - 1) <= at /\ c - 1 \in Nat
      BY <3>1 DEF Behind
    <3>3. c - 1 < size
      BY <1>1, <3>2
    <3>4. c - 1 < t - first
      BY <1>8, <3>2, <3>3
    <3>5. passed = c
      BY <3>1
    <3> QED
      BY <1>1, <1>5, <3>4, <3>5
  <2> QED
    BY <1>2, <2>1, <2>2 DEF Reached
<1>10. Sets!Min({g, size}) = IF g <= size THEN g ELSE size
  BY <1>1, <1>2, LesserIs
<1>11. g < size => t - first <= g - 1
  <2> HAVE g < size
  <2>1. ~(EndAt(first, g - 1) <= at)
    BY <1>2 DEF Behind
  <2>2. g - 1 \in Nat /\ g - 1 < size
    BY <1>1, <1>2
  <2> QED
    BY <1>1, <1>2, <1>5, <1>8, <2>1, <2>2
<1>12. t - first < size /\ t - first \in Nat /\ size \in Nat
  BY <1>1, <1>5, <1>7
<1> HIDE DEF size, passed
<1>13. S = passed .. (t - first) - 1
  <2> DEFINE top == Sets!Min({g, size})
             d == t - first
  <2>0. top \in Nat /\ top <= size /\ d <= top
    BY <1>2, <1>10, <1>11, <1>12
  <2> HIDE DEF top
  <2>1. \A j \in passed .. top - 1 : EndAt(first, j) <= at <=> j < d
    BY <1>8, <1>9, <1>12, <2>0
  <2>2. d \in Nat /\ S = {j \in passed .. top - 1 : EndAt(first, j) <= at}
    BY <1>12 DEF top
  <2> HIDE DEF d, S
  <2> QED
    BY <1>9, <2>0, <2>1, <2>2 DEF d
<1>14. Cardinality(S) = (t - first) - passed
  <2> DEFINE d == t - first
  <2>1. passed \in Nat /\ d \in Nat /\ passed <= d /\ S = passed .. d - 1
    BY <1>9, <1>12, <1>13
  <2> HIDE DEF d, S
  <2>2. passed \in Int /\ d - 1 \in Int
    BY <2>1
  <2>3. Cardinality(passed .. d - 1) = IF passed > d - 1 THEN 0 ELSE (d - 1) - passed + 1
    BY <2>2, FS_Interval
  <2>4. Cardinality(S) = d - passed
    BY <2>1, <2>3
  <2> QED
    BY <2>4 DEF d
<1>15. TokenAt(first, at) = t
  BY <1>1, <1>3, <1>5, <1>9, <1>12, <1>14
<1> QED
  BY <1>4, <1>15

-----------------------------------------------------------------------------
(***************************************************************************)
(* One hit of scan_payload.                                                *)
(***************************************************************************)

\* The first hit from the cursor on, and the token that holds it.
AtHit(hit0, t) ==
    /\ hit0 \in Nat /\ cursor <= hit0 /\ hit0 < Len(Payload)
    /\ StartsAt(Payload, hit0, Front)
    /\ \A p \in Nat : cursor <= p /\ p < hit0 => ~StartsAt(Payload, p, Front)
    /\ t \in Ids(vocab) /\ PayloadOffsets[t] <= hit0 /\ hit0 < PayloadOffsets[t + 1]

TailFrom(t, p) == Slice(Payload, p, PayloadOffsets[t + 1])

Fits(t, p) == Len(TailFrom(t, p)) >= Len(Front)

IsWhole(t, p) == Fits(t, p) /\ StartsAt(TailFrom(t, p), 0, pattern)

IsPartial(t, p) ==
    Fits(t, p) /\ ~IsWhole(t, p) /\ p # PayloadOffsets[t] /\ StartsAt(pattern, 0, TailFrom(t, p))

NextCursor(t, p) == IF IsWhole(t, p) THEN AfterMatch(t) ELSE p + 1

LEMMA HitFound ==
    ASSUME GraphTypeOK, PayloadInv, Hits # {}
    PROVE  AtHit(Sets!Min(Hits), TokenAt(token, Sets!Min(Hits)))
<1> DEFINE h == Sets!Min(Hits)
           t == TokenAt(token, h)
<1>1. /\ vocab \in Dictionaries /\ pattern \in Patterns /\ token \in 0 .. Len(vocab)
      /\ cursor \in Nat /\ PayloadOffsets[token] <= cursor
  BY DEF GraphTypeOK, PayloadInv
<1>2. Len(Payload) \in Nat /\ PayloadOffsets \in [0 .. Len(vocab) -> Nat]
  BY <1>1, PayloadTyped
<1>3. Hits \in SUBSET Nat
  BY <1>1, <1>2 DEF Hits
<1>4. h \in Hits /\ \A p \in Hits : h <= p
  <2>1. \E m \in Hits : \A p \in Hits : m <= p
    BY <1>3, LeastNatural
  <2> QED
    BY <2>1 DEF Sets!Min
<1> HIDE DEF h
<1>5. h \in Nat /\ cursor <= h /\ h < Len(Payload) /\ StartsAt(Payload, h, Front)
  BY <1>1, <1>2, <1>4 DEF Hits
<1>6. ASSUME NEW p \in Nat, cursor <= p, p < h
      PROVE  ~StartsAt(Payload, p, Front)
  <2> SUFFICES ASSUME StartsAt(Payload, p, Front) PROVE FALSE
    OBVIOUS
  <2>1. p \in cursor .. Len(Payload) - 1
    BY <1>1, <1>2, <1>5, <1>6
  <2>2. p \in Hits
    BY <2>1 DEF Hits
  <2> QED
    BY <1>4, <1>5, <1>6, <2>2
<1>7. t \in Ids(vocab) /\ PayloadOffsets[t] <= h /\ h < PayloadOffsets[t + 1]
  <2>1. PayloadOffsets[token] \in Nat
    BY <1>1, <1>2
  <2>2. PayloadOffsets[token] <= h
    BY <1>1, <1>5, <2>1
  <2> QED
    BY <1>1, <1>5, <2>2, TokenAtFinds
<1> HIDE DEF t
<1>8. AtHit(h, t)
  BY <1>5, <1>6, <1>7 DEF AtHit
<1> QED
  BY <1>8 DEF t, h

LEMMA WholeIs ==
    ASSUME vocab \in Dictionaries, pattern \in Patterns, sink > 0, NEW t \in Ids(vocab), NEW p \in Nat,
           PayloadOffsets[t] <= p, p < PayloadOffsets[t + 1]
    PROVE  IsWhole(t, p) <=> StartsAt(vocab[t + 1], p - PayloadOffsets[t], pattern)
<1> DEFINE o == PayloadOffsets[t]
           e == PayloadOffsets[t + 1]
           v == vocab[t + 1]
           tail == TailFrom(t, p)
<1>1. /\ o \in Nat /\ e \in Nat /\ e = o + LengthOf(t) /\ LengthOf(t) = Len(v) /\ Len(v) \in Nat
      /\ sink \in Nat /\ pattern \in ByteSeq /\ Len(pattern) = sink
  BY PayloadTyped DEF LengthOf, sink
<1>2. /\ tail \in ByteSeq /\ Len(tail) = e - p /\ Len(tail) \in 1 .. LengthOf(t)
      /\ \A k \in 1 .. Len(tail) : tail[k] = v[p - o + k]
  BY TailOfToken DEF TailFrom
<1>3. Len(Front) = IF sink >= 2 THEN 2 ELSE 1
  BY <1>1, FrontFacts
<1>4. o <= p /\ p < e
  OBVIOUS
<1> HIDE DEF o, e, v, tail
<1>5. Len(tail) \in Nat /\ Len(tail) = Len(v) - (p - o) /\ p - o \in Nat
  <2>1. Len(tail) = e - p /\ Len(tail) \in 1 .. LengthOf(t)
    BY <1>2
  <2>2. o \in Nat /\ e \in Nat /\ e = o + Len(v) /\ Len(v) \in Nat
    BY <1>1
  <2> QED
    BY ONLY <1>4, <2>1, <2>2, p \in Nat, SMT
<1>6. StartsAt(tail, 0, pattern) => Fits(t, p)
  <2> HAVE StartsAt(tail, 0, pattern)
  <2>1. sink <= Len(tail)
    BY <1>1, <1>5 DEF StartsAt
  <2> QED
    BY <1>1, <1>3, <1>5, <2>1 DEF Fits, tail
<1>7. IsWhole(t, p) <=> StartsAt(tail, 0, pattern)
  BY <1>6 DEF IsWhole, tail
<1>8. StartsAt(tail, 0, pattern) <=> StartsAt(v, p - o, pattern)
  <2> DEFINE i == p - o
  <2>1. i \in Nat /\ Len(tail) = Len(v) - i /\ \A k \in 1 .. Len(tail) : tail[k] = v[i + k]
    BY <1>2, <1>5
  <2> HIDE DEF i
  <2>2. 0 + sink <= Len(tail) <=> i + sink <= Len(v)
    BY <1>1, <1>5, <2>1
  <2>3. StartsAt(tail, 0, pattern) <=> sink <= Len(tail) /\ \A k \in 1 .. sink : tail[k] = pattern[k]
    <3>1. (\A k \in 1 .. sink : 0 + k = k) /\ 0 + sink = sink
      BY <1>1
    <3> QED
      BY <1>1, <3>1 DEF StartsAt
  <2>4. StartsAt(v, i, pattern) <=> sink <= Len(tail) /\ \A k \in 1 .. sink : v[i + k] = pattern[k]
    BY <1>1, <2>2 DEF StartsAt
  <2>5. sink <= Len(tail) => \A k \in 1 .. sink : tail[k] = v[i + k]
    <3>1. sink <= Len(tail) => \A k \in 1 .. sink : k \in 1 .. Len(tail)
      BY <1>1, <1>5
    <3> QED
      BY <2>1, <3>1
  <2>6. StartsAt(tail, 0, pattern) <=> StartsAt(v, i, pattern)
    BY <2>3, <2>4, <2>5
  <2> QED
    BY <2>6 DEF i
<1> QED
  BY <1>7, <1>8 DEF v, o

LEMMA PartialIs ==
    ASSUME vocab \in Dictionaries, pattern \in Patterns, sink > 0, NEW t \in Ids(vocab), NEW p \in Nat,
           PayloadOffsets[t] <= p, p < PayloadOffsets[t + 1]
    PROVE  LET k == PayloadOffsets[t + 1] - p
           IN  /\ Len(TailFrom(t, p)) = k
               /\ IsPartial(t, p) <=> k \in OverlapLengths /\ k >= 2 /\ EndsWithPrefix(t, k)
<1> DEFINE o == PayloadOffsets[t]
           e == PayloadOffsets[t + 1]
           v == vocab[t + 1]
           tail == TailFrom(t, p)
           k == e - p
           front == SubSeq(pattern, 1, k)
<1>1. /\ o \in Nat /\ e \in Nat /\ e = o + LengthOf(t) /\ LengthOf(t) = Len(v) /\ Len(v) \in Nat
      /\ LengthOf(t) \in 1 .. MaxTokenSize /\ MaxTokenSize \in Nat
      /\ sink \in Nat /\ pattern \in ByteSeq /\ Len(pattern) = sink
  BY PayloadTyped, BytesAssumption DEF LengthOf, sink
<1>2. /\ tail \in ByteSeq /\ Len(tail) = e - p /\ Len(tail) \in 1 .. LengthOf(t)
      /\ \A j \in 1 .. Len(tail) : tail[j] = v[p - o + j]
  BY TailOfToken DEF TailFrom
<1>3. Len(Front) = IF sink >= 2 THEN 2 ELSE 1
  BY <1>1, FrontFacts
<1>4. o <= p /\ p < e
  OBVIOUS
<1> HIDE DEF o, e, v, tail
<1>5. /\ k \in Nat /\ k > 0 /\ Len(tail) = k /\ p - o = Len(v) - k /\ p - o \in Nat /\ k <= Len(v)
      /\ (p # o <=> k < Len(v)) /\ Len(v) <= MaxTokenSize
  BY <1>1, <1>2, <1>4
<1> HIDE DEF k
<1>6. Fits(t, p) <=> k >= Len(Front)
  BY <1>5 DEF Fits, tail
<1>7. StartsAt(tail, 0, pattern) <=> sink <= k /\ \A j \in 1 .. sink : tail[j] = pattern[j]
  <2>1. \A j \in 1 .. sink : 0 + j = j
    BY <1>1
  <2> QED
    BY <1>1, <1>5, <2>1 DEF StartsAt
<1>8. StartsAt(pattern, 0, tail) <=> k <= sink /\ \A j \in 1 .. k : pattern[j] = tail[j]
  <2>1. \A j \in 1 .. k : 0 + j = j
    BY <1>5
  <2> QED
    BY <1>1, <1>5, <2>1 DEF StartsAt
<1>9. k <= sink => (IsTail(k, t) <=> \A j \in 1 .. k : pattern[j] = tail[j])
  <2> HAVE k <= sink
  <2>1. Len(front) = k /\ \A j \in 1 .. k : front[j] = pattern[j]
    <3>1. k \in 1 .. sink
      BY <1>1, <1>5
    <3> QED
      BY <1>1, <3>1, PrefixFacts
  <2> HIDE DEF front
  <2>2. IsTail(k, t) <=> StartsAt(v, p - o, front)
    BY <1>1, <1>5 DEF IsTail, v, front
  <2>3. (p - o) + k <= Len(v) /\ \A j \in 1 .. k : tail[j] = v[p - o + j]
    <3>1. (p - o) + k <= Len(v)
      BY <1>1, <1>5
    <3> QED
      BY <1>2, <1>5, <3>1
  <2> QED
    BY <2>1, <2>2, <2>3 DEF StartsAt
<1>10. ASSUME IsPartial(t, p)
       PROVE  k \in OverlapLengths /\ k >= 2 /\ EndsWithPrefix(t, k)
  <2>1. k >= Len(Front) /\ ~IsWhole(t, p) /\ k < Len(v) /\ k <= sink
        /\ \A j \in 1 .. k : pattern[j] = tail[j]
    BY <1>5, <1>6, <1>8, <1>10 DEF IsPartial, o, tail
  <2>2. k # sink
    <3> SUFFICES ASSUME k = sink PROVE FALSE
      OBVIOUS
    <3>1. StartsAt(tail, 0, pattern)
      BY <1>1, <1>7, <2>1
    <3> QED
      BY <1>6, <2>1, <3>1 DEF IsWhole, tail
  <2>3. k < sink /\ k < MaxTokenSize /\ k >= 2
    BY <1>1, <1>3, <1>5, <2>1, <2>2
  <2>4. k \in OverlapLengths
    BY <1>1, <1>5, <2>3, OverlapLengthsAre
  <2>5. EndsWithPrefix(t, k)
    BY <1>1, <1>9, <2>1 DEF EndsWithPrefix
  <2> QED
    BY <2>3, <2>4, <2>5
<1>11. ASSUME k \in OverlapLengths, k >= 2, EndsWithPrefix(t, k)
       PROVE  IsPartial(t, p)
  <2>1. k < sink
    BY <1>1, <1>11, OverlapLengthsAre
  <2>2. k < Len(v) /\ IsTail(k, t)
    BY <1>1, <1>11 DEF EndsWithPrefix
  <2>3. k <= sink /\ ~(sink <= k)
    BY <1>1, <1>5, <2>1
  <2>4. StartsAt(pattern, 0, tail) /\ ~StartsAt(tail, 0, pattern)
    BY <1>7, <1>8, <1>9, <2>2, <2>3
  <2>5. Fits(t, p) /\ p # o
    BY <1>1, <1>3, <1>5, <1>6, <1>11, <2>1, <2>2
  <2> QED
    BY <2>4, <2>5 DEF IsPartial, IsWhole, o, tail
<1> QED
  BY <1>5, <1>10, <1>11 DEF k, e, tail

\* Where an overlap or the pattern is in a token, what is searched for is in the payload.
LEMMA FrontOfTail ==
    ASSUME vocab \in Dictionaries, pattern \in Patterns, NEW k \in OverlapLengths, k >= 2, NEW t \in Tails(k)
    PROVE  LET p == PayloadOffsets[t + 1] - k
           IN  /\ p \in Nat /\ PayloadOffsets[t] < p /\ p < PayloadOffsets[t + 1]
               /\ StartsAt(Payload, p, Front)
<1> DEFINE o == PayloadOffsets[t]
           i == LengthOf(t) - k
           front == SubSeq(pattern, 1, k)
           p == PayloadOffsets[t + 1] - k
<1>1. t \in Ids(vocab) /\ EndsWithPrefix(t, k)
  BY DEF Tails
<1>2. /\ o \in Nat /\ PayloadOffsets[t + 1] \in Nat /\ PayloadOffsets[t + 1] = o + LengthOf(t)
      /\ LengthOf(t) \in Nat
      /\ pattern \in ByteSeq /\ Payload \in ByteSeq
  BY <1>1, PayloadTyped
<1>3. k \in Nat /\ k \in 1 .. sink /\ k > 0
  BY <1>2, OverlapLengthsAre
<1>4. LengthOf(t) > k /\ StartsAt(vocab[t + 1], i, front)
  BY <1>1 DEF EndsWithPrefix, IsTail
<1>5. front \in ByteSeq /\ Len(front) = k
  BY <1>2, <1>3, PrefixFacts
<1> HIDE DEF o
<1>6. i \in Nat /\ i + k <= LengthOf(t) /\ o + i = p /\ p \in Nat /\ o < p /\ p < PayloadOffsets[t + 1]
  BY <1>2, <1>3, <1>4
<1> HIDE DEF i, front
<1>7. StartsAt(Payload, o + i, front)
  <2>1. i + Len(front) <= LengthOf(t)
    BY <1>5, <1>6
  <2> QED
    BY <1>1, <1>4, <1>5, <1>6, <2>1, InPayload DEF o
<1>8. StartsAt(Payload, p, Front)
  <2>1. StartsAt(Payload, p, SubSeq(pattern, 1, k))
    BY <1>6, <1>7 DEF front
  <2> HIDE DEF p
  <2> QED
    BY <1>2, <1>3, <1>6, <2>1, FrontIsFirst
<1> QED
  BY <1>6, <1>8 DEF o

LEMMA FrontOfPattern ==
    ASSUME vocab \in Dictionaries, pattern \in Patterns, sink > 0, NEW t \in Ids(vocab), NEW i \in Nat,
           StartsAt(vocab[t + 1], i, pattern)
    PROVE  LET p == PayloadOffsets[t] + i
           IN  /\ p \in Nat /\ PayloadOffsets[t] <= p /\ p + sink <= PayloadOffsets[t + 1]
               /\ p < PayloadOffsets[t + 1]
               /\ StartsAt(Payload, p, Front)
<1> DEFINE o == PayloadOffsets[t]
           p == o + i
<1>1. /\ o \in Nat /\ PayloadOffsets[t + 1] \in Nat /\ PayloadOffsets[t + 1] = o + LengthOf(t)
      /\ LengthOf(t) \in Nat /\ LengthOf(t) = Len(vocab[t + 1])
      /\ pattern \in ByteSeq /\ sink \in Nat /\ sink = Len(pattern) /\ Payload \in ByteSeq
  BY PayloadTyped DEF LengthOf, sink
<1>2. i + Len(pattern) <= LengthOf(t)
  BY <1>1 DEF StartsAt
<1> HIDE DEF o
<1>3. p \in Nat /\ o <= p /\ p + sink <= PayloadOffsets[t + 1] /\ p < PayloadOffsets[t + 1]
  BY <1>1, <1>2
<1>4. StartsAt(Payload, p, pattern)
  BY <1>1, <1>2, InPayload DEF o
<1>5. StartsAt(Payload, p, Front)
  <2>0. SubSeq(pattern, 1, sink) = pattern
    BY <1>1, WholePrefix
  <2> HIDE DEF p
  <2>1. StartsAt(Payload, p, SubSeq(pattern, 1, sink))
    BY <1>4, <2>0
  <2>2. sink \in 1 .. sink
    BY <1>1
  <2> QED
    BY <1>1, <1>3, <2>1, <2>2, FrontIsFirst
<1> QED
  BY <1>3, <1>5 DEF o

\* What is searched for is, of what the step passes, only at the hit and inside its token,
\* where no more than the pattern fits.
LEMMA PassedPositions ==
    ASSUME vocab \in Dictionaries, pattern \in Patterns, sink > 0, cursor \in Nat,
           NEW h, NEW t, AtHit(h, t),
           NEW p \in Nat, cursor <= p, p < NextCursor(t, h), StartsAt(Payload, p, Front)
    PROVE  /\ PayloadOffsets[t] <= p /\ p < PayloadOffsets[t + 1]
           /\ \/ p = h
              \/ IsWhole(t, h) /\ h < p /\ p + sink <= PayloadOffsets[t + 1]
<1>1. /\ h \in Nat /\ t \in Ids(vocab) /\ PayloadOffsets[t] <= h /\ h < PayloadOffsets[t + 1]
      /\ \A q \in Nat : cursor <= q /\ q < h => ~StartsAt(Payload, q, Front)
  BY DEF AtHit
<1>2. PayloadOffsets[t] \in Nat /\ PayloadOffsets[t + 1] \in Nat /\ sink \in Nat
  BY <1>1, PayloadTyped
<1>3. ~(p < h)
  BY <1>1
<1>4. CASE IsWhole(t, h)
  <2>1. p < PayloadOffsets[t + 1] - (sink - 1)
    BY <1>4 DEF NextCursor, AfterMatch
  <2> QED
    BY <1>1, <1>2, <1>3, <1>4, <2>1
<1>5. CASE ~IsWhole(t, h)
  <2>1. p < h + 1
    BY <1>5 DEF NextCursor
  <2> QED
    BY <1>1, <1>2, <1>3, <2>1
<1> QED
  BY <1>4, <1>5

\* The cursor goes forward, and stays in the token.
LEMMA NextCursorFits ==
    ASSUME vocab \in Dictionaries, pattern \in Patterns, sink > 0, cursor \in Nat,
           NEW h, NEW t, AtHit(h, t)
    PROVE  /\ NextCursor(t, h) \in Nat
           /\ h < NextCursor(t, h) /\ NextCursor(t, h) <= PayloadOffsets[t + 1]
           /\ NextCursor(t, h) <= Len(Payload) /\ cursor <= NextCursor(t, h)
           /\ PayloadOffsets[t] <= NextCursor(t, h)
<1> DEFINE o == PayloadOffsets[t]
           e == PayloadOffsets[t + 1]
<1>1. h \in Nat /\ cursor <= h /\ t \in Ids(vocab) /\ o <= h /\ h < e
  BY DEF AtHit
<1>2. /\ o \in Nat /\ e \in Nat /\ sink \in Nat /\ Len(vocab) \in Nat /\ t + 1 \in 1 .. Len(vocab)
      /\ Len(Payload) = PayloadOffsets[Len(vocab)] /\ Len(Payload) \in Nat
  BY <1>1, PayloadTyped
<1>3. e <= Len(Payload)
  <2>1. t + 1 \in 0 .. Len(vocab) /\ Len(vocab) \in t + 1 .. Len(vocab)
    BY <1>2
  <2> QED
    BY <1>2, <2>1, OffsetsAscend
<1>4. IsWhole(t, h) => h + sink <= e
  <2> HAVE IsWhole(t, h)
  <2>1. StartsAt(vocab[t + 1], h - o, pattern)
    BY <1>1, WholeIs
  <2>2. h - o \in Nat /\ o + (h - o) = h
    BY <1>1, <1>2
  <2> QED
    BY <1>1, <2>1, <2>2, FrontOfPattern
<1> HIDE DEF o, e
<1>5. CASE IsWhole(t, h)
  <2>1. NextCursor(t, h) = e - (sink - 1) /\ h + sink <= e
    BY <1>4, <1>5 DEF NextCursor, AfterMatch, e
  <2>2. e - (sink - 1) \in Nat /\ h < e - (sink - 1) /\ e - (sink - 1) <= e
        /\ e - (sink - 1) <= Len(Payload) /\ cursor <= e - (sink - 1) /\ o <= e - (sink - 1)
    BY <1>1, <1>2, <1>3, <2>1
  <2> QED
    BY <2>1, <2>2 DEF o, e
<1>6. CASE ~IsWhole(t, h)
  <2>1. NextCursor(t, h) = h + 1
    BY <1>6 DEF NextCursor
  <2>2. h + 1 \in Nat /\ h < h + 1 /\ h + 1 <= e /\ h + 1 <= Len(Payload) /\ cursor <= h + 1 /\ o <= h + 1
    BY <1>1, <1>2, <1>3
  <2> QED
    BY <2>1, <2>2 DEF o, e
<1> QED
  BY <1>5, <1>6

\* One hit adds its token to one overlap at most, the one that its tail is.
LEMMA TailsPassed ==
    ASSUME vocab \in Dictionaries, pattern \in Patterns, sink > 0, cursor \in Nat,
           NEW h, NEW t, AtHit(h, t), NEW k \in OverlapLengths, k >= 2
    PROVE  TailsBefore(k, NextCursor(t, h)) = TailsBefore(k, cursor)
               \cup (IF IsPartial(t, h) /\ Len(TailFrom(t, h)) = k THEN {t} ELSE {})
<1> DEFINE n == NextCursor(t, h)
           added == IF IsPartial(t, h) /\ Len(TailFrom(t, h)) = k THEN {t} ELSE {}
           at(u) == PayloadOffsets[u + 1] - k
<1>1. h \in Nat /\ cursor <= h /\ t \in Ids(vocab) /\ PayloadOffsets[t] <= h /\ h < PayloadOffsets[t + 1]
  BY DEF AtHit
<1>2. n \in Nat /\ h < n /\ cursor <= n
  BY NextCursorFits
<1>3. Len(TailFrom(t, h)) = PayloadOffsets[t + 1] - h
      /\ (IsPartial(t, h) <=> /\ PayloadOffsets[t + 1] - h \in OverlapLengths
                              /\ PayloadOffsets[t + 1] - h >= 2
                              /\ EndsWithPrefix(t, PayloadOffsets[t + 1] - h))
  BY <1>1, PartialIs
<1>4. pattern \in ByteSeq /\ sink \in Nat /\ PayloadOffsets[t + 1] \in Nat
  BY <1>1, PayloadTyped
<1>5. k \in Nat /\ k < sink
  BY <1>4, OverlapLengthsAre
<1>6. ASSUME NEW u \in Tails(k)
      PROVE  at(u) < n <=> at(u) < cursor \/ u \in added
  <2>1. /\ at(u) \in Nat /\ PayloadOffsets[u] < at(u) /\ at(u) < PayloadOffsets[u + 1]
        /\ StartsAt(Payload, at(u), Front)
    BY FrontOfTail
  <2>2. u \in Ids(vocab) /\ EndsWithPrefix(u, k)
    BY DEF Tails
  <2>3. PayloadOffsets[u] \in Nat /\ PayloadOffsets[u + 1] \in Nat
    BY <2>2, PayloadTyped
  <2>4. ASSUME cursor <= at(u), at(u) < n
        PROVE  u \in added
    <3> DEFINE p == at(u)
    <3>1. /\ PayloadOffsets[t] <= p /\ p < PayloadOffsets[t + 1]
          /\ \/ p = h
             \/ IsWhole(t, h) /\ h < p /\ p + sink <= PayloadOffsets[t + 1]
      <4> HIDE DEF at
      <4> QED
        BY <2>1, <2>4, PassedPositions
    <3>2. PayloadOffsets[u] <= p
      BY <2>1, <2>3
    <3>3. u = t
      <4> HIDE DEF at
      <4> QED
        BY <1>1, <2>1, <2>2, <3>1, <3>2, OneOwner
    <3>4. p = PayloadOffsets[t + 1] - k
      BY <3>3
    <3>5. ~(p + sink <= PayloadOffsets[t + 1])
      BY <1>4, <1>5, <3>4
    <3>6. p = h
      BY <3>1, <3>5
    <3>7. PayloadOffsets[t + 1] - h = k
      BY <1>1, <1>4, <1>5, <3>4, <3>6
    <3>8. IsPartial(t, h) /\ Len(TailFrom(t, h)) = k
      BY <1>3, <2>2, <3>3, <3>7
    <3> QED
      BY <3>3, <3>8
  <2>5. ASSUME u \in added
        PROVE  at(u) < n
    <3>1. u = t /\ PayloadOffsets[t + 1] - h = k
      BY <1>3, <2>5
    <3>2. at(u) = h
      BY <1>1, <1>4, <1>5, <3>1
    <3> QED
      BY <1>2, <3>2
  <2> DEFINE p == at(u)
  <2>6. p \in Nat /\ (cursor <= p /\ p < n => u \in added) /\ (u \in added => p < n)
    BY <2>1, <2>4, <2>5
  <2> HIDE DEF p, added, n
  <2>7. p < n <=> p < cursor \/ u \in added
    BY <1>2, <2>6
  <2> QED
    BY <2>7 DEF p, n
<1>7. added \subseteq Tails(k)
  <2> SUFFICES ASSUME IsPartial(t, h), Len(TailFrom(t, h)) = k
               PROVE  t \in Tails(k)
    OBVIOUS
  <2> QED
    BY <1>1, <1>3 DEF Tails
<1> HIDE DEF n, added
<1>8. TailsBefore(k, n) = TailsBefore(k, cursor) \cup added
  BY <1>6, <1>7 DEF TailsBefore
<1> QED
  BY <1>8 DEF n, added

\* A token with the pattern inside is found at its first hit, and what is skipped behind
\* that one is in the same token.
LEMMA HoldersPassed ==
    ASSUME vocab \in Dictionaries, pattern \in Patterns, sink > 0, cursor \in Nat, LeadsPassed(cursor),
           NEW h, NEW t, AtHit(h, t)
    PROVE  HoldersBefore(NextCursor(t, h)) = HoldersBefore(cursor)
               \cup (IF IsWhole(t, h) /\ h # PayloadOffsets[t] THEN {t} ELSE {})
<1> DEFINE n == NextCursor(t, h)
           added == IF IsWhole(t, h) /\ h # PayloadOffsets[t] THEN {t} ELSE {}
           Has(u, b) == ~Leads(u) /\ \E i \in 1 .. LengthOf(u) :
                            StartsAt(vocab[u + 1], i, pattern) /\ PayloadOffsets[u] + i < b
<1>1. h \in Nat /\ cursor <= h /\ t \in Ids(vocab) /\ PayloadOffsets[t] <= h /\ h < PayloadOffsets[t + 1]
      /\ \A q \in Nat : cursor <= q /\ q < h => ~StartsAt(Payload, q, Front)
  BY DEF AtHit
<1>2. n \in Nat /\ h < n /\ cursor <= n
  BY NextCursorFits
<1>3. IsWhole(t, h) <=> StartsAt(vocab[t + 1], h - PayloadOffsets[t], pattern)
  BY <1>1, WholeIs
<1>4. /\ pattern \in ByteSeq /\ sink \in Nat
      /\ PayloadOffsets[t] \in Nat /\ PayloadOffsets[t + 1] \in Nat
      /\ PayloadOffsets[t + 1] = PayloadOffsets[t] + LengthOf(t) /\ LengthOf(t) \in Nat
  BY <1>1, PayloadTyped
<1> HIDE DEF n
<1>5. ASSUME NEW u \in Ids(vocab), u \in HoldersBefore(n), u \notin HoldersBefore(cursor)
      PROVE  u \in added
  <2>1. PICK i \in 1 .. LengthOf(u) : StartsAt(vocab[u + 1], i, pattern) /\ PayloadOffsets[u] + i < n
    BY <1>5 DEF HoldersBefore
  <2>2. ~Leads(u)
    BY <1>5 DEF HoldersBefore
  <2>3. ~(PayloadOffsets[u] + i < cursor)
    BY <1>5, <2>1, <2>2 DEF HoldersBefore
  <2>4. PayloadOffsets[u] \in Nat /\ PayloadOffsets[u + 1] \in Nat /\ LengthOf(u) \in Nat /\ i \in Nat /\ i > 0
    BY PayloadTyped
  <2> DEFINE p == PayloadOffsets[u] + i
  <2>5. /\ p \in Nat /\ PayloadOffsets[u] <= p /\ p < PayloadOffsets[u + 1] /\ StartsAt(Payload, p, Front)
    BY <2>1, <2>4, FrontOfPattern
  <2>6. cursor <= p /\ p < n /\ p > PayloadOffsets[u] /\ i = p - PayloadOffsets[u]
    BY <2>1, <2>3, <2>4
  <2> HIDE DEF p
  <2>7. /\ PayloadOffsets[t] <= p /\ p < PayloadOffsets[t + 1]
        /\ \/ p = h
           \/ IsWhole(t, h) /\ h < p /\ p + sink <= PayloadOffsets[t + 1]
    BY <2>5, <2>6, PassedPositions DEF n
  <2>8. u = t
    BY <1>1, <2>5, <2>7, OneOwner
  <2>9. IsWhole(t, h)
    <3>1. CASE p = h
      BY <1>3, <2>1, <2>6, <2>8, <3>1
    <3> QED
      BY <2>7, <3>1
  <2>10. h # PayloadOffsets[t]
    <3> SUFFICES ASSUME h = PayloadOffsets[t] PROVE FALSE
      OBVIOUS
    <3>1. h - PayloadOffsets[t] = 0
      BY <1>1, <1>4
    <3>2. Leads(t)
      BY <1>3, <2>9, <3>1 DEF Leads
    <3> QED
      BY <2>2, <2>8, <3>2
  <2> QED
    BY <2>8, <2>9, <2>10
<1>6. ASSUME NEW u \in HoldersBefore(cursor)
      PROVE  u \in HoldersBefore(n)
  <2>1. u \in Ids(vocab) /\ ~Leads(u)
    BY DEF HoldersBefore
  <2>2. PICK i \in 1 .. LengthOf(u) : StartsAt(vocab[u + 1], i, pattern) /\ PayloadOffsets[u] + i < cursor
    BY DEF HoldersBefore
  <2>3. PayloadOffsets[u] \in Nat /\ i \in Nat
    <3>1. PayloadOffsets[u] \in Nat /\ LengthOf(u) \in Nat
      BY <2>1, PayloadTyped
    <3> QED
      BY <3>1
  <2>4. PayloadOffsets[u] + i < n
    BY <1>2, <2>2, <2>3
  <2> QED
    BY <2>1, <2>2, <2>4 DEF HoldersBefore
<1>7. ASSUME IsWhole(t, h), h # PayloadOffsets[t]
      PROVE  t \in HoldersBefore(n)
  <2> DEFINE i == h - PayloadOffsets[t]
  <2>1. i \in 1 .. LengthOf(t) /\ PayloadOffsets[t] + i = h /\ i \in Nat
    BY <1>1, <1>4, <1>7
  <2>2. StartsAt(vocab[t + 1], i, pattern)
    BY <1>3, <1>7
  <2>3. ~Leads(t)
    <3> SUFFICES ASSUME Leads(t) PROVE FALSE
      OBVIOUS
    <3>1. h + sink <= PayloadOffsets[t + 1]
      BY <1>1, <2>1, <2>2, FrontOfPattern
    <3>2. CASE PayloadOffsets[t] < cursor
      <4>1. AfterMatch(t) <= cursor
        BY <1>1, <3>2 DEF LeadsPassed
      <4> QED
        BY <1>1, <1>4, <3>1, <4>1 DEF AfterMatch
    <3>3. CASE ~(PayloadOffsets[t] < cursor)
      <4>1. PayloadOffsets[t] + 0 = PayloadOffsets[t]
        BY <1>4
      <4>2. StartsAt(Payload, PayloadOffsets[t], Front)
        BY <1>1, <4>1, FrontOfPattern DEF Leads
      <4>3. cursor <= PayloadOffsets[t] /\ PayloadOffsets[t] < h
        BY <1>1, <1>4, <1>7, <3>3
      <4> QED
        BY <1>1, <1>4, <4>2, <4>3
    <3> QED
      BY <3>2, <3>3
  <2> HIDE DEF i
  <2>4. PayloadOffsets[t] + i < n
    BY <1>2, <2>1
  <2> QED
    BY <1>1, <2>1, <2>2, <2>3, <2>4 DEF HoldersBefore
<1>8. \A b : HoldersBefore(b) \subseteq Ids(vocab)
  BY DEF HoldersBefore
<1>9. added \subseteq HoldersBefore(n)
  BY <1>7
<1> HIDE DEF added
<1>10. HoldersBefore(n) = HoldersBefore(cursor) \cup added
  BY <1>5, <1>6, <1>8, <1>9
<1> QED
  BY <1>10 DEF n, added

LEMMA LeadsStayPassed ==
    ASSUME vocab \in Dictionaries, pattern \in Patterns, sink > 0, cursor \in Nat, LeadsPassed(cursor),
           NEW h, NEW t, AtHit(h, t)
    PROVE  LeadsPassed(NextCursor(t, h))
<1> DEFINE n == NextCursor(t, h)
<1> SUFFICES ASSUME NEW u \in Ids(vocab), Leads(u), PayloadOffsets[u] < n
             PROVE  AfterMatch(u) <= n
  BY DEF LeadsPassed
<1>1. h \in Nat /\ cursor <= h /\ t \in Ids(vocab) /\ PayloadOffsets[t] <= h /\ h < PayloadOffsets[t + 1]
  BY DEF AtHit
<1>2. n \in Nat /\ h < n /\ cursor <= n
  BY NextCursorFits
<1>3. /\ sink \in Nat /\ PayloadOffsets[u] \in Nat /\ PayloadOffsets[u + 1] \in Nat
      /\ PayloadOffsets[u] + 0 = PayloadOffsets[u]
  BY PayloadTyped
<1>4. AfterMatch(u) \in Int
  BY <1>3 DEF AfterMatch
<1> HIDE DEF n
<1>5. CASE PayloadOffsets[u] < cursor
  <2>1. AfterMatch(u) <= cursor
    BY <1>5 DEF LeadsPassed
  <2> QED
    BY <1>2, <1>4, <2>1
<1>6. CASE ~(PayloadOffsets[u] < cursor)
  <2> DEFINE p == PayloadOffsets[u]
  <2>1. p < PayloadOffsets[u + 1] /\ StartsAt(Payload, p, Front)
    BY <1>3, FrontOfPattern DEF Leads
  <2>2. cursor <= p /\ p < NextCursor(t, h) /\ p \in Nat
    BY <1>3, <1>6 DEF n
  <2> HIDE DEF p
  <2>3. /\ PayloadOffsets[t] <= p /\ p < PayloadOffsets[t + 1] /\ (p = h \/ h < p)
    BY <2>1, <2>2, PassedPositions
  <2>4. u = t
    <3>1. PayloadOffsets[u] <= p
      BY <1>3 DEF p
    <3> QED
      BY <1>1, <2>1, <2>2, <2>3, <3>1, OneOwner
  <2>5. p = h
    BY <1>1, <1>3, <2>3, <2>4 DEF p
  <2>6. h - PayloadOffsets[t] = 0
    BY <1>1, <2>4, <2>5 DEF p
  <2>7. IsWhole(t, h)
    <3>1. StartsAt(vocab[t + 1], h - PayloadOffsets[t], pattern)
      BY <2>4, <2>6 DEF Leads
    <3> QED
      BY <1>1, <3>1, WholeIs
  <2>8. n = AfterMatch(u)
    BY <2>4, <2>7 DEF NextCursor, n
  <2> QED
    BY <1>4, <2>8
<1> QED
  BY <1>5, <1>6

-----------------------------------------------------------------------------
(***************************************************************************)
(* The steps that build the graph.                                         *)
(***************************************************************************)

LEMMA TailsFinite ==
    ASSUME vocab \in Dictionaries, pattern \in Patterns, NEW S \in SUBSET Ids(vocab)
    PROVE  IsFiniteSet(S) /\ Cardinality(S) \in Nat
<1>1. Len(vocab) \in Nat
  BY PayloadTyped
<1>2. IsFiniteSet(Ids(vocab))
  <2>1. 0 \in Int /\ Len(vocab) - 1 \in Int
    BY <1>1
  <2> QED
    BY <2>1, FS_Interval DEF Ids
<1>3. IsFiniteSet(S)
  BY <1>2, FS_Subset
<1> QED
  BY <1>3, FS_CardinalityType

\* record_overlap keeps the list complete, or gives it up when it is too long.
LEMMA RecordLists ==
    ASSUME vocab \in Dictionaries, pattern \in Patterns,
           listed \in [OverlapLengths -> SUBSET Ids(vocab)], unenumerated \subseteq OverlapLengths,
           NEW k \in OverlapLengths, NEW t \in Ids(vocab), NEW S \in SUBSET Ids(vocab), t \notin S,
           Lists(listed, unenumerated, k, S), Record(k, t, Limit(k))
    PROVE  /\ Lists(listed', unenumerated', k, S \cup {t})
           /\ \A j \in OverlapLengths : j # k =>
                listed'[j] = listed[j] /\ (j \in unenumerated' <=> j \in unenumerated)
           /\ listed' \in [OverlapLengths -> SUBSET Ids(vocab)]
           /\ unenumerated' \subseteq OverlapLengths
<1>1. Limit(k) \in Nat
  BY GraphAssumption DEF Limit
<1>2. IsFiniteSet(S) /\ Cardinality(S) \in Nat
  BY TailsFinite
<1>3. Cardinality(S \cup {t}) = Cardinality(S) + 1
  BY <1>2, FS_AddElement
<1>4. CASE k \notin unenumerated /\ Cardinality(listed[k]) < Limit(k)
  <2>1. listed' = [listed EXCEPT ![k] = @ \cup {t}] /\ unenumerated' = unenumerated
    BY <1>4 DEF Record
  <2>2. listed[k] = S
    BY <1>4 DEF Lists
  <2>3. listed'[k] = S \cup {t}
    BY <2>1, <2>2
  <2>4. Cardinality(S \cup {t}) <= Limit(k)
    BY <1>1, <1>2, <1>3, <1>4, <2>2
  <2> QED
    BY <1>4, <2>1, <2>3, <2>4 DEF Lists
<1>5. CASE ~(k \notin unenumerated /\ Cardinality(listed[k]) < Limit(k))
  <2>1. listed' = [listed EXCEPT ![k] = {}] /\ unenumerated' = unenumerated \cup {k}
    BY <1>5 DEF Record
  <2>2. Cardinality(S) >= Limit(k)
    <3>1. CASE k \in unenumerated
      BY <1>1, <1>2, <3>1 DEF Lists
    <3>2. CASE k \notin unenumerated
      <4>1. listed[k] = S
        BY <3>2 DEF Lists
      <4> QED
        BY <1>1, <1>2, <1>5, <3>2, <4>1
    <3> QED
      BY <3>1, <3>2
  <2>3. Cardinality(S \cup {t}) > Limit(k)
    BY <1>1, <1>2, <1>3, <2>2
  <2> QED
    BY <2>1, <2>3 DEF Lists
<1> QED
  BY <1>4, <1>5

\* Steps that leave the collected tokens alone.
LEMMA ListsStay ==
    ASSUME NEW k, NEW S, Lists(listed, unenumerated, k, S),
           listed'[k] = listed[k], k \in unenumerated' <=> k \in unenumerated
    PROVE  Lists(listed', unenumerated', k, S)
  BY DEF Lists

\* What the types need of a step that builds the graph.
LEMMA GraphTypeStays ==
    ASSUME GraphTypeOK, phase \in {"single", "payload", "paths"},
           phase' \in {"single", "payload", "paths", "graph", "error"},
           vocab' = vocab, pattern' = pattern, cut' = cut,
           token' \in 0 .. Len(vocab), cursor' \in 0 .. Len(Payload),
           listed' \in [OverlapLengths -> SUBSET Ids(vocab)],
           unenumerated' \subseteq OverlapLengths, contained' \subseteq Ids(vocab),
           length' \in 0 .. sink, offset' \in 0 .. sink, DOMAIN nodes' = 0 .. sink - 1
    PROVE  GraphTypeOK'
<1>1. cut' = {} /\ sink > 0
  BY DEF GraphTypeOK
<1>2. sink' = sink /\ OverlapLengths' = OverlapLengths /\ Payload' = Payload
  BY DEF sink, OverlapLengths, Payload
<1>3. vocab \in Dictionaries /\ pattern \in Patterns
  BY DEF GraphTypeOK
<1> QED
  BY <1>1, <1>2, <1>3 DEF GraphTypeOK

\* What is said of the dictionary and the pattern does not change.
LEMMA GraphTermsStay ==
    ASSUME vocab' = vocab, pattern' = pattern
    PROVE  /\ sink' = sink /\ OverlapLengths' = OverlapLengths
           /\ \A k : Tails(k)' = Tails(k)
           /\ \A k, at : TailsBefore(k, at)' = TailsBefore(k, at)
           /\ Holders' = Holders
           /\ \A at : HoldersBefore(at)' = HoldersBefore(at)
           /\ \A at : LeadsPassed(at)' = LeadsPassed(at)
           /\ PayloadOffsets' = PayloadOffsets
  BY DEF sink, OverlapLengths, Tails, TailsBefore, Holders, HoldersBefore, LeadsPassed, PayloadOffsets,
         EndsWithPrefix, IsTail, LengthOf, Inside, Leads, AfterMatch

LEMMA GraphInvCollectSingleByte ==
    ASSUME GraphInv, CollectSingleByte, cut' = cut
    PROVE  GraphInv'
<1>1. /\ phase = "single" /\ phase' = "single" /\ token < Len(vocab) /\ 1 \notin unenumerated
      /\ token' = token + 1
      /\ vocab' = vocab /\ pattern' = pattern /\ cursor' = cursor /\ contained' = contained
      /\ length' = length /\ offset' = offset /\ nodes' = nodes
      /\ IF EndsWithFirstByte(token) THEN Record(1, token, MaxSingleByteTokens)
                                     ELSE UNCHANGED <<listed, unenumerated>>
  BY DEF CollectSingleByte, paths
<1>2. GraphTypeOK /\ SinglesInv
  BY <1>1 DEF GraphInv
<1>3. /\ vocab \in Dictionaries /\ pattern \in Patterns
      /\ token \in 0 .. Len(vocab) /\ cursor \in 0 .. Len(Payload)
      /\ listed \in [OverlapLengths -> SUBSET Ids(vocab)]
      /\ unenumerated \subseteq OverlapLengths /\ contained \subseteq Ids(vocab)
      /\ length \in 0 .. sink /\ offset \in 0 .. sink
      /\ DOMAIN nodes = 0 .. sink - 1
  BY <1>2 DEF GraphTypeOK
<1>4. /\ sink > 1 /\ cursor = 0 /\ contained = {}
      /\ \A k \in OverlapLengths :
            Lists(listed, unenumerated, k, IF k = 1 THEN {u \in Tails(1) : u < token} ELSE {})
  BY <1>2 DEF SinglesInv
<1>5. /\ Len(vocab) \in Nat /\ sink \in Nat /\ pattern \in ByteSeq /\ Len(pattern) = sink
      /\ token \in Ids(vocab) /\ token \in Nat
      /\ vocab[token + 1] \in ByteSeq /\ LengthOf(token) = Len(vocab[token + 1])
      /\ LengthOf(token) \in 1 .. MaxTokenSize /\ LengthOf(token) \in Nat /\ MaxTokenSize \in Nat
  <2>1. Len(vocab) \in Nat
    BY <1>3, PayloadTyped
  <2>2. token \in Ids(vocab)
    BY <1>1, <1>3, <2>1 DEF Ids
  <2> QED
    BY <1>3, <2>1, <2>2, PayloadTyped, BytesAssumption DEF LengthOf, sink
<1> DEFINE S == {u \in Tails(1) : u < token}
           T == {u \in Tails(1) : u < token + 1}
<1>6. EndsWithFirstByte(token) <=> token \in Tails(1)
  <2> DEFINE len == LengthOf(token)
             v == vocab[token + 1]
             one == SubSeq(pattern, 1, 1)
  <2>1. Len(one) = 1 /\ one[1] = pattern[1]
    <3>1. 1 \in 1 .. sink
      BY <1>4, <1>5
    <3> QED
      BY <1>5, <3>1, PrefixFacts
  <2> HIDE DEF one
  <2>2. StartsAt(v, len - 1, one) <=> v[len] = pattern[1]
    <3>1. (len - 1) + 1 <= Len(v) /\ (len - 1) + 1 = len
      BY <1>5
    <3>2. (\A k \in 1 .. 1 : v[(len - 1) + k] = one[k]) <=> v[(len - 1) + 1] = one[1]
      OBVIOUS
    <3> QED
      BY <2>1, <3>1, <3>2 DEF StartsAt
  <2>3. len > 1 => (IsTail(1, token) <=> v[len] = pattern[1])
    BY <1>5, <2>2 DEF IsTail, one
  <2> QED
    BY <1>5, <2>3 DEF EndsWithFirstByte, Tails, EndsWithPrefix
<1>7. T = IF EndsWithFirstByte(token) THEN S \cup {token} ELSE S
  <2>1. \A u \in Tails(1) : u \in Nat
    BY <1>5 DEF Tails, Ids
  <2>2. \A u \in Tails(1) : u < token + 1 <=> u < token \/ u = token
    BY <1>5, <2>1
  <2>3. \A u : u \in T <=> u \in S \/ (u = token /\ token \in Tails(1))
    BY <2>2
  <2> HIDE DEF S, T
  <2> QED
    BY <1>6, <2>3
<1>8. S \in SUBSET Ids(vocab) /\ token \notin S
  BY <1>5 DEF Tails
<1> HIDE DEF S, T
<1>9. ASSUME EndsWithFirstByte(token)
      PROVE  1 \in OverlapLengths
  <2>1. LengthOf(token) > 1
    BY <1>9 DEF EndsWithFirstByte
  <2>2. 1 < MaxTokenSize
    BY <1>5, <2>1
  <2> QED
    BY <1>4, <1>5, <2>2, OverlapLengthsAre
<1>10. /\ listed' \in [OverlapLengths -> SUBSET Ids(vocab)] /\ unenumerated' \subseteq OverlapLengths
       /\ \A k \in OverlapLengths : Lists(listed', unenumerated', k, IF k = 1 THEN T ELSE {})
  <2>1. CASE EndsWithFirstByte(token)
    <3>1. 1 \in OverlapLengths /\ Record(1, token, Limit(1)) /\ T = S \cup {token}
      BY <1>1, <1>7, <1>9, <2>1 DEF Limit
    <3>2. Lists(listed, unenumerated, 1, S)
      BY <1>4, <3>1 DEF S
    <3>3. /\ Lists(listed', unenumerated', 1, S \cup {token})
          /\ \A j \in OverlapLengths : j # 1 =>
                listed'[j] = listed[j] /\ (j \in unenumerated' <=> j \in unenumerated)
          /\ listed' \in [OverlapLengths -> SUBSET Ids(vocab)]
          /\ unenumerated' \subseteq OverlapLengths
      BY <1>3, <1>5, <1>8, <3>1, <3>2, RecordLists
    <3>4. ASSUME NEW k \in OverlapLengths, k # 1
          PROVE  Lists(listed', unenumerated', k, {})
      <4>1. Lists(listed, unenumerated, k, {})
        BY <1>4, <3>4
      <4> QED
        BY <3>3, <3>4, <4>1, ListsStay
    <3> QED
      BY <3>1, <3>3, <3>4
  <2>2. CASE ~EndsWithFirstByte(token)
    <3>1. listed' = listed /\ unenumerated' = unenumerated /\ T = S
      BY <1>1, <1>7, <2>2
    <3> QED
      BY <1>3, <1>4, <3>1 DEF S
  <2> QED
    BY <2>1, <2>2
<1>11. GraphTypeOK'
  <2>1. token' \in 0 .. Len(vocab)
    BY <1>1, <1>5 DEF Ids
  <2> QED
    BY <1>1, <1>2, <1>3, <1>10, <2>1, GraphTypeStays
<1>12. SinglesInv'
  <2>1. sink' = sink /\ OverlapLengths' = OverlapLengths /\ Tails(1)' = Tails(1)
    BY <1>1, GraphTermsStay
  <2>2. {u \in Tails(1)' : u < token'} = T
    BY <1>1, <2>1 DEF T
  <2>3. \A k \in OverlapLengths :
            Lists(listed', unenumerated', k, IF k = 1 THEN {u \in Tails(1)' : u < token'} ELSE {})
    BY <1>10, <2>2
  <2>4. \A k \in OverlapLengths :
            Lists(listed, unenumerated, k, IF k = 1 THEN {u \in Tails(1) : u < token} ELSE {})'
    BY <2>3 DEF Lists, Limit
  <2> QED
    BY <1>1, <1>4, <2>1, <2>4 DEF SinglesInv
<1> QED
  BY <1>1, <1>11, <1>12 DEF GraphInv

LEMMA TailsAreIds ==
    ASSUME NEW k, NEW at
    PROVE  Tails(k) \in SUBSET Ids(vocab) /\ TailsBefore(k, at) \in SUBSET Ids(vocab)
           /\ Holders \in SUBSET Ids(vocab) /\ HoldersBefore(at) \in SUBSET Ids(vocab)
  BY DEF Tails, TailsBefore, Holders, HoldersBefore

\* Nothing is before the first position.
LEMMA NothingBefore ==
    ASSUME vocab \in Dictionaries, pattern \in Patterns, sink > 0
    PROVE  /\ \A k \in OverlapLengths : k # 1 => TailsBefore(k, 0) = {}
           /\ HoldersBefore(0) = {}
           /\ LeadsPassed(0)
<1>1. \A t \in Ids(vocab) : PayloadOffsets[t] \in Nat /\ LengthOf(t) \in Nat
  BY PayloadTyped
<1>2. ASSUME NEW k \in OverlapLengths, k # 1
      PROVE  TailsBefore(k, 0) = {}
  <2>1. k >= 2
    <3>1. k \in Nat /\ 0 < k
      BY PayloadTyped, OverlapLengthsAre
    <3> QED
      BY <1>2, <3>1
  <2>2. \A t \in Tails(k) : PayloadOffsets[t + 1] - k \in Nat
    BY <2>1, FrontOfTail
  <2>3. \A t \in Tails(k) : ~(PayloadOffsets[t + 1] - k < 0)
    BY <2>2
  <2> QED
    BY <2>3 DEF TailsBefore
<1>3. HoldersBefore(0) = {}
  <2>1. \A t \in Ids(vocab) : \A i \in 1 .. LengthOf(t) : ~(PayloadOffsets[t] + i < 0)
    BY <1>1
  <2> QED
    BY <2>1 DEF HoldersBefore
<1>4. LeadsPassed(0)
  <2>1. \A t \in Ids(vocab) : ~(PayloadOffsets[t] < 0)
    BY <1>1
  <2> QED
    BY <2>1 DEF LeadsPassed
<1> QED
  BY <1>2, <1>3, <1>4

\* A list that was given up stays so for more tokens.
LEMMA ListsGivenUp ==
    ASSUME vocab \in Dictionaries, pattern \in Patterns, NEW k \in OverlapLengths, k \in unenumerated,
           NEW S \in SUBSET Ids(vocab), NEW T \in SUBSET Ids(vocab), S \subseteq T,
           Lists(listed, unenumerated, k, S)
    PROVE  Lists(listed, unenumerated, k, T)
<1>1. listed[k] = {} /\ Cardinality(S) > Limit(k)
  BY DEF Lists
<1>2. Cardinality(S) <= Cardinality(T) /\ Cardinality(S) \in Nat /\ Cardinality(T) \in Nat
  BY TailsFinite, FS_Subset
<1>3. Limit(k) \in Nat
  BY GraphAssumption DEF Limit
<1>4. Cardinality(T) > Limit(k)
  BY <1>1, <1>2, <1>3
<1> QED
  BY <1>1, <1>4 DEF Lists

LEMMA GraphInvSinglesCollected ==
    ASSUME GraphInv, SinglesCollected, cut' = cut
    PROVE  GraphInv'
<1>1. /\ phase = "single" /\ phase' = "payload" /\ (token = Len(vocab) \/ 1 \in unenumerated) /\ token' = 0
      /\ vocab' = vocab /\ pattern' = pattern /\ cursor' = cursor /\ contained' = contained
      /\ listed' = listed /\ unenumerated' = unenumerated
      /\ length' = length /\ offset' = offset /\ nodes' = nodes
  BY DEF SinglesCollected, paths
<1>2. GraphTypeOK /\ SinglesInv
  BY <1>1 DEF GraphInv
<1>3. /\ vocab \in Dictionaries /\ pattern \in Patterns
      /\ token \in 0 .. Len(vocab) /\ cursor \in 0 .. Len(Payload)
      /\ listed \in [OverlapLengths -> SUBSET Ids(vocab)]
      /\ unenumerated \subseteq OverlapLengths /\ contained \subseteq Ids(vocab)
      /\ length \in 0 .. sink /\ offset \in 0 .. sink
      /\ DOMAIN nodes = 0 .. sink - 1
  BY <1>2 DEF GraphTypeOK
<1>4. /\ sink > 1 /\ cursor = 0 /\ contained = {}
      /\ \A k \in OverlapLengths :
            Lists(listed, unenumerated, k, IF k = 1 THEN {u \in Tails(1) : u < token} ELSE {})
  BY <1>2 DEF SinglesInv
<1>5. /\ Len(vocab) \in Nat /\ sink \in Nat /\ PayloadOffsets[0] = 0
  BY <1>3, PayloadTyped
<1>6. GraphTypeOK'
  <2>1. token' \in 0 .. Len(vocab)
    BY <1>1, <1>5
  <2> QED
    BY <1>1, <1>2, <1>3, <2>1, GraphTypeStays
<1>7. ASSUME NEW k \in OverlapLengths
      PROVE  Lists(listed, unenumerated, k, IF k = 1 THEN Tails(1) ELSE TailsBefore(k, 0))
  <2>1. CASE k = 1
    <3> DEFINE S == {u \in Tails(1) : u < token}
    <3>1. Lists(listed, unenumerated, 1, S)
      BY <1>4, <2>1
    <3>2. CASE token = Len(vocab)
      <4>1. \A u \in Tails(1) : u < token
        BY <1>5, <3>2 DEF Tails, Ids
      <4>2. S = Tails(1)
        BY <4>1
      <4> HIDE DEF S
      <4> QED
        BY <2>1, <3>1, <4>2
    <3>3. CASE 1 \in unenumerated
      <4>1. S \in SUBSET Ids(vocab) /\ Tails(1) \in SUBSET Ids(vocab) /\ S \subseteq Tails(1)
        BY DEF Tails
      <4> HIDE DEF S
      <4>2. Lists(listed, unenumerated, 1, Tails(1))
        BY <1>3, <2>1, <3>1, <3>3, <4>1, ListsGivenUp
      <4> QED
        BY <2>1, <4>2
    <3> QED
      BY <1>1, <3>2, <3>3
  <2>2. CASE k # 1
    <3>1. TailsBefore(k, 0) = {}
      BY <1>3, <1>4, <1>5, <2>2, NothingBefore
    <3>2. Lists(listed, unenumerated, k, {})
      BY <1>4, <2>2
    <3> QED
      BY <2>2, <3>1, <3>2
  <2> QED
    BY <2>1, <2>2
<1>8. HoldersBefore(0) = {} /\ LeadsPassed(0)
  BY <1>3, <1>4, <1>5, NothingBefore
<1>9. PayloadInv'
  <2>1. /\ OverlapLengths' = OverlapLengths /\ Tails(1)' = Tails(1)
        /\ \A k, at : TailsBefore(k, at)' = TailsBefore(k, at)
        /\ \A at : HoldersBefore(at)' = HoldersBefore(at)
        /\ \A at : LeadsPassed(at)' = LeadsPassed(at)
        /\ PayloadOffsets' = PayloadOffsets
    BY <1>1, GraphTermsStay
  <2>2. cursor' = 0 /\ token' = 0 /\ 0 <= 0
    BY <1>1, <1>4
  <2>3. PayloadOffsets'[token'] <= cursor'
    BY <1>5, <2>1, <2>2
  <2>4. \A k \in OverlapLengths :
            Lists(listed, unenumerated, k, IF k = 1 THEN Tails(1) ELSE TailsBefore(k, cursor))'
    <3>1. \A k \in OverlapLengths : TailsBefore(k, cursor)' = TailsBefore(k, 0)
      BY <1>1, <2>2 DEF TailsBefore, Tails, EndsWithPrefix, IsTail, LengthOf, PayloadOffsets
    <3> QED
      BY <1>1, <1>7, <2>1, <3>1 DEF Lists, Limit
  <2>5. HoldersBefore(cursor)' = HoldersBefore(0)
    BY <1>1, <2>2 DEF HoldersBefore, Leads, LengthOf, PayloadOffsets
  <2>6. LeadsPassed(cursor)' <=> LeadsPassed(0)
    BY <1>1, <2>2 DEF LeadsPassed, Leads, AfterMatch, LengthOf, PayloadOffsets, sink
  <2> QED
    BY <1>1, <1>4, <1>8, <2>1, <2>3, <2>4, <2>5, <2>6 DEF PayloadInv
<1> QED
  BY <1>1, <1>6, <1>9 DEF GraphInv

LEMMA GraphInvScanPayload ==
    ASSUME GraphInv, ScanPayload, cut' = cut
    PROVE  GraphInv'
<1> DEFINE h == Sets!Min(Hits)
           t == TokenAt(token, h)
           n == NextCursor(t, h)
           k0 == Len(TailFrom(t, h))
<1>1. /\ phase = "payload" /\ phase' = "payload" /\ Hits # {}
      /\ vocab' = vocab /\ pattern' = pattern
      /\ length' = length /\ offset' = offset /\ nodes' = nodes
      /\ token' = t
      /\ cursor' = IF IsWhole(t, h) THEN AfterMatch(t) ELSE h + 1
      /\ contained' = IF IsWhole(t, h) /\ h # PayloadOffsets[t] THEN contained \cup {t} ELSE contained
      /\ IF IsPartial(t, h) THEN Record(k0, t, MaxEnumeratedTokens)
                            ELSE UNCHANGED <<listed, unenumerated>>
  BY DEF ScanPayload, paths, TailFrom, Fits, IsWhole, IsPartial
<1>2. GraphTypeOK /\ PayloadInv
  BY <1>1 DEF GraphInv
<1>3. /\ vocab \in Dictionaries /\ pattern \in Patterns
      /\ token \in 0 .. Len(vocab) /\ cursor \in 0 .. Len(Payload) /\ cursor \in Nat
      /\ listed \in [OverlapLengths -> SUBSET Ids(vocab)]
      /\ unenumerated \subseteq OverlapLengths /\ contained \subseteq Ids(vocab)
      /\ length \in 0 .. sink /\ offset \in 0 .. sink
      /\ DOMAIN nodes = 0 .. sink - 1 /\ sink > 0
  BY <1>1, <1>2 DEF GraphTypeOK
<1>4. /\ \A k \in OverlapLengths :
            Lists(listed, unenumerated, k, IF k = 1 THEN Tails(1) ELSE TailsBefore(k, cursor))
      /\ contained = HoldersBefore(cursor) /\ LeadsPassed(cursor)
  BY <1>2 DEF PayloadInv
<1>5. AtHit(h, t)
  BY <1>1, <1>2, HitFound
<1> HIDE DEF h, t
<1>6. /\ t \in Ids(vocab) /\ h \in Nat /\ cursor <= h
      /\ PayloadOffsets[t] <= h /\ h < PayloadOffsets[t + 1]
  BY <1>5 DEF AtHit
<1>7. cursor' = n
  BY <1>1 DEF NextCursor
<1>8. n \in Nat /\ n <= Len(Payload) /\ PayloadOffsets[t] <= n
  BY <1>3, <1>5, NextCursorFits
<1>9. /\ pattern \in ByteSeq /\ Len(vocab) \in Nat /\ Len(Payload) \in Nat
      /\ PayloadOffsets[t + 1] \in Nat
  BY <1>3, <1>6, PayloadTyped
<1>10. k0 = PayloadOffsets[t + 1] - h
       /\ (IsPartial(t, h) => k0 \in OverlapLengths /\ k0 >= 2)
  BY <1>3, <1>6, PartialIs
<1>11. \A k \in OverlapLengths : k # 1 => k >= 2
  <2>1. \A k \in OverlapLengths : k \in Nat /\ 0 < k
    BY <1>9, OverlapLengthsAre
  <2> QED
    BY <2>1
<1>12. \A k \in OverlapLengths : k # 1 =>
            TailsBefore(k, n) = TailsBefore(k, cursor)
                \cup (IF IsPartial(t, h) /\ k0 = k THEN {t} ELSE {})
  <2> SUFFICES ASSUME NEW k \in OverlapLengths, k # 1
               PROVE  TailsBefore(k, n) = TailsBefore(k, cursor)
                          \cup (IF IsPartial(t, h) /\ k0 = k THEN {t} ELSE {})
    OBVIOUS
  <2> QED
    BY <1>3, <1>5, <1>11, TailsPassed
<1> DEFINE Now(k) == IF k = 1 THEN Tails(1) ELSE TailsBefore(k, cursor)
           Then(k) == IF k = 1 THEN Tails(1) ELSE TailsBefore(k, n)
<1> HIDE DEF n, k0
<1>13. /\ listed' \in [OverlapLengths -> SUBSET Ids(vocab)] /\ unenumerated' \subseteq OverlapLengths
       /\ \A k \in OverlapLengths : Lists(listed', unenumerated', k, Then(k))
  <2>1. CASE IsPartial(t, h)
    <3>1. k0 \in OverlapLengths /\ k0 # 1 /\ Limit(k0) = MaxEnumeratedTokens
      BY <1>10, <2>1 DEF Limit
    <3>2. Record(k0, t, Limit(k0))
      BY <1>1, <2>1, <3>1
    <3>3. Lists(listed, unenumerated, k0, TailsBefore(k0, cursor))
      BY <1>4, <3>1
    <3>4. t \notin TailsBefore(k0, cursor)
      <4> SUFFICES ASSUME t \in TailsBefore(k0, cursor) PROVE FALSE
        OBVIOUS
      <4>1. PayloadOffsets[t + 1] - k0 < cursor
        BY DEF TailsBefore
      <4>2. PayloadOffsets[t + 1] - k0 = h
        BY <1>6, <1>9, <1>10
      <4> QED
        BY <1>3, <1>6, <4>1, <4>2
    <3>5. TailsBefore(k0, cursor) \in SUBSET Ids(vocab)
      BY TailsAreIds
    <3>6. /\ Lists(listed', unenumerated', k0, TailsBefore(k0, cursor) \cup {t})
          /\ \A j \in OverlapLengths : j # k0 =>
                listed'[j] = listed[j] /\ (j \in unenumerated' <=> j \in unenumerated)
          /\ listed' \in [OverlapLengths -> SUBSET Ids(vocab)]
          /\ unenumerated' \subseteq OverlapLengths
      BY <1>3, <1>6, <3>1, <3>2, <3>3, <3>4, <3>5, RecordLists
    <3>7. Then(k0) = TailsBefore(k0, cursor) \cup {t}
      BY <1>12, <2>1, <3>1
    <3>8. ASSUME NEW k \in OverlapLengths, k # k0
          PROVE  Lists(listed', unenumerated', k, Then(k))
      <4>1. Then(k) = Now(k)
        BY <1>12, <3>8
      <4>2. Lists(listed, unenumerated, k, Now(k))
        BY <1>4
      <4> HIDE DEF Then, Now
      <4> QED
        BY <3>6, <3>8, <4>1, <4>2, ListsStay
    <3> HIDE DEF Then
    <3> QED
      BY <3>6, <3>7, <3>8
  <2>2. CASE ~IsPartial(t, h)
    <3>1. listed' = listed /\ unenumerated' = unenumerated
      BY <1>1, <2>2
    <3>2. \A k \in OverlapLengths : Then(k) = Now(k)
      BY <1>12, <2>2
    <3>3. \A k \in OverlapLengths : Lists(listed, unenumerated, k, Now(k))
      BY <1>4
    <3> HIDE DEF Then, Now
    <3> QED
      BY <1>3, <3>1, <3>2, <3>3
  <2> QED
    BY <2>1, <2>2
<1>14. contained' = HoldersBefore(n) /\ contained' \subseteq Ids(vocab)
  <2>1. HoldersBefore(n) = HoldersBefore(cursor)
            \cup (IF IsWhole(t, h) /\ h # PayloadOffsets[t] THEN {t} ELSE {})
    BY <1>3, <1>4, <1>5, HoldersPassed DEF n
  <2>2. HoldersBefore(n) \in SUBSET Ids(vocab)
    BY TailsAreIds
  <2> QED
    BY <1>1, <1>4, <2>1, <2>2
<1>15. LeadsPassed(n)
  BY <1>3, <1>4, <1>5, LeadsStayPassed DEF n
<1>16. GraphTypeOK'
  <2>1. token' \in 0 .. Len(vocab) /\ cursor' \in 0 .. Len(Payload)
    BY <1>1, <1>6, <1>7, <1>8, <1>9 DEF Ids
  <2> QED
    BY <1>1, <1>2, <1>3, <1>13, <1>14, <2>1, GraphTypeStays
<1>17. PayloadInv'
  <2>1. OverlapLengths' = OverlapLengths /\ Tails(1)' = Tails(1) /\ PayloadOffsets' = PayloadOffsets
    BY <1>1, GraphTermsStay
  <2>2. PayloadOffsets'[token'] <= cursor'
    BY <1>1, <1>7, <1>8, <2>1
  <2>3. \A k \in OverlapLengths : TailsBefore(k, cursor)' = TailsBefore(k, n)
    BY <1>1, <1>7 DEF TailsBefore, Tails, EndsWithPrefix, IsTail, LengthOf, PayloadOffsets
  <2>4. \A k \in OverlapLengths :
            Lists(listed, unenumerated, k, IF k = 1 THEN Tails(1) ELSE TailsBefore(k, cursor))'
    BY <1>1, <1>13, <2>1, <2>3 DEF Lists, Limit
  <2>5. HoldersBefore(cursor)' = HoldersBefore(n)
    BY <1>1, <1>7 DEF HoldersBefore, Leads, LengthOf, PayloadOffsets
  <2>6. LeadsPassed(cursor)' <=> LeadsPassed(n)
    BY <1>1, <1>7 DEF LeadsPassed, Leads, AfterMatch, LengthOf, PayloadOffsets, sink
  <2> QED
    BY <1>14, <1>15, <2>1, <2>2, <2>4, <2>5, <2>6 DEF PayloadInv
<1> QED
  BY <1>1, <1>16, <1>17 DEF GraphInv

LEMMA GraphInvPayloadScanned ==
    ASSUME GraphInv, PayloadScanned, cut' = cut
    PROVE  GraphInv'
<1>1. /\ phase = "payload" /\ phase' = "paths" /\ Hits = {}
      /\ vocab' = vocab /\ pattern' = pattern /\ token' = token /\ cursor' = cursor
      /\ listed' = listed /\ unenumerated' = unenumerated /\ contained' = contained
      /\ length' = length /\ offset' = offset /\ nodes' = nodes
  BY DEF PayloadScanned, graph, starts, paths
<1>2. GraphTypeOK /\ PayloadInv
  BY <1>1 DEF GraphInv
<1>3. /\ vocab \in Dictionaries /\ pattern \in Patterns
      /\ token \in 0 .. Len(vocab) /\ cursor \in 0 .. Len(Payload) /\ cursor \in Nat
      /\ listed \in [OverlapLengths -> SUBSET Ids(vocab)]
      /\ unenumerated \subseteq OverlapLengths /\ contained \subseteq Ids(vocab)
      /\ length \in 0 .. sink /\ offset \in 0 .. sink
      /\ DOMAIN nodes = 0 .. sink - 1 /\ sink > 0
  BY <1>1, <1>2 DEF GraphTypeOK
<1>4. /\ \A k \in OverlapLengths :
            Lists(listed, unenumerated, k, IF k = 1 THEN Tails(1) ELSE TailsBefore(k, cursor))
      /\ contained = HoldersBefore(cursor)
  BY <1>2 DEF PayloadInv
<1>5. ASSUME NEW t \in Ids(vocab), NEW p \in Nat, p < PayloadOffsets[t + 1], StartsAt(Payload, p, Front)
      PROVE  p < cursor
  <2>0. /\ Len(vocab) \in Nat /\ t + 1 \in 1 .. Len(vocab) /\ PayloadOffsets[t + 1] \in Nat
        /\ Len(Payload) = PayloadOffsets[Len(vocab)] /\ Len(Payload) \in Nat
    BY <1>3, PayloadTyped
  <2>1. PayloadOffsets[t + 1] <= Len(Payload)
    <3>1. t + 1 \in 0 .. Len(vocab) /\ Len(vocab) \in t + 1 .. Len(vocab)
      BY <2>0
    <3> QED
      BY <1>3, <2>0, <3>1, OffsetsAscend
  <2> SUFFICES ASSUME ~(p < cursor) PROVE FALSE
    OBVIOUS
  <2>2. p \in cursor .. Len(Payload) - 1
    BY <1>3, <1>5, <2>0, <2>1
  <2>3. p \in Hits
    BY <1>5, <2>2 DEF Hits
  <2> QED
    BY <1>1, <2>3
<1>6. ASSUME NEW k \in OverlapLengths, k # 1
      PROVE  TailsBefore(k, cursor) = Tails(k)
  <2>1. k >= 2
    <3>1. k \in Nat /\ 0 < k
      BY <1>3, PayloadTyped, OverlapLengthsAre
    <3> QED
      BY <1>6, <3>1
  <2>2. ASSUME NEW t \in Tails(k)
        PROVE  PayloadOffsets[t + 1] - k < cursor
    <3>1. LET p == PayloadOffsets[t + 1] - k
          IN  p \in Nat /\ p < PayloadOffsets[t + 1] /\ StartsAt(Payload, p, Front)
      BY <1>3, <2>1, FrontOfTail
    <3>2. t \in Ids(vocab)
      BY DEF Tails
    <3> QED
      BY <1>5, <3>1, <3>2
  <2> QED
    BY <2>2 DEF TailsBefore
<1>7. HoldersBefore(cursor) = Holders
  <2>1. ASSUME NEW t \in Ids(vocab)
        PROVE  (\E i \in 1 .. LengthOf(t) :
                    StartsAt(vocab[t + 1], i, pattern) /\ PayloadOffsets[t] + i < cursor) <=> Inside(t)
    <3>1. LengthOf(t) \in Nat
      BY <1>3, PayloadTyped
    <3>2. ASSUME NEW i \in 1 .. LengthOf(t), StartsAt(vocab[t + 1], i, pattern)
          PROVE  PayloadOffsets[t] + i < cursor
      <4>1. i \in Nat
        BY <3>1
      <4>2. LET p == PayloadOffsets[t] + i
            IN  p \in Nat /\ p < PayloadOffsets[t + 1] /\ StartsAt(Payload, p, Front)
        BY <1>3, <3>2, <4>1, FrontOfPattern
      <4> QED
        BY <1>5, <4>2
    <3> QED
      BY <3>2 DEF Inside
  <2> QED
    BY <2>1 DEF HoldersBefore, Holders
<1>8. GraphTypeOK'
  BY <1>1, <1>2, <1>3, GraphTypeStays
<1>9. CollectedInv
  BY <1>4, <1>6, <1>7 DEF CollectedInv
<1>10. CollectedInv'
  <2>1. OverlapLengths' = OverlapLengths /\ Holders' = Holders /\ \A k : Tails(k)' = Tails(k)
    BY <1>1, GraphTermsStay
  <2>2. \A k \in OverlapLengths : Lists(listed, unenumerated, k, Tails(k))'
    BY <1>1, <1>9, <2>1 DEF CollectedInv, Lists, Limit
  <2> QED
    BY <1>1, <1>9, <2>1, <2>2 DEF CollectedInv
<1> QED
  BY <1>1, <1>8, <1>10 DEF GraphInv

\* What is collected stays while the paths are built.
LEMMA CollectedStays ==
    ASSUME CollectedInv, vocab' = vocab, pattern' = pattern,
           listed' = listed, unenumerated' = unenumerated, contained' = contained
    PROVE  CollectedInv'
<1>1. OverlapLengths' = OverlapLengths /\ Holders' = Holders /\ \A k : Tails(k)' = Tails(k)
  BY GraphTermsStay
<1>2. \A k \in OverlapLengths : Lists(listed, unenumerated, k, Tails(k))'
  BY <1>1 DEF CollectedInv, Lists, Limit
<1> QED
  BY <1>1, <1>2 DEF CollectedInv

\* A token that is a prefix of what is left of the pattern, if there is one, has the code
\* of the longest of them.
LEMMA GreedyTokenFits ==
    ASSUME vocab \in Dictionaries, pattern \in Patterns, NEW o \in Nat, o < sink, Prefixes(o) # {}
    PROVE  LET t == CodeAt(vocab, pattern, o)
           IN  t \in Ids(vocab) /\ o + LengthOf(t) <= sink /\ o + LengthOf(t) \in Nat
<1> DEFINE T == TokensOf(vocab)
           S == {MaxTokenSize - Len(u) : u \in {u \in T : StartsAt(pattern, o, u)}}
<1>1. /\ vocab \in Seq(Token) /\ sink \in Nat /\ sink = Len(pattern) /\ MaxTokenSize \in Nat
  BY PayloadTyped, BytesAssumption DEF sink
<1>2. /\ T \in SUBSET Token
      /\ \A n \in Ids(vocab) : vocab[n + 1] \in T /\ Len(vocab[n + 1]) \in Nat
      /\ \A t \in T : \E n \in Ids(vocab) : vocab[n + 1] = t
  BY <1>1, VocabularyTyped
<1>3. \A u \in T : Len(u) \in 1 .. MaxTokenSize
  BY <1>2, TokenType
<1>4. S \in SUBSET Nat
  BY <1>1, <1>3
<1>5. S # {}
  BY <1>2 DEF Prefixes
<1>6. PICK m \in S : \A n \in S : m <= n
  BY <1>4, <1>5, LeastNatural
<1>7. PICK u \in T : StartsAt(pattern, o, u) /\ m = MaxTokenSize - Len(u)
  BY <1>6
<1>8. IsLongestAt(T, pattern, o, u)
  <2>1. ASSUME NEW w \in T, StartsAt(pattern, o, w)
        PROVE  Len(w) <= Len(u)
    <3>1. m <= MaxTokenSize - Len(w)
      BY <1>6, <2>1
    <3>2. Len(w) \in Nat /\ Len(u) \in Nat
      BY <1>1, <1>3
    <3> QED
      BY <1>1, <1>7, <3>1, <3>2
  <2> QED
    BY <1>7, <2>1 DEF IsLongestAt
<1>9. IsLongestAt(T, pattern, o, LongestMatch(T, pattern, o))
  BY <1>8 DEF LongestMatch, IsLongestAt
<1>10. \E n \in Ids(vocab) : vocab[n + 1] = LongestMatch(T, pattern, o)
  BY <1>2, <1>9 DEF IsLongestAt
<1>11. CodeAt(vocab, pattern, o) \in Ids(vocab)
       /\ vocab[CodeAt(vocab, pattern, o) + 1] = LongestMatch(T, pattern, o)
  BY <1>10 DEF CodeAt
<1> DEFINE t == CodeAt(vocab, pattern, o)
<1>12. StartsAt(pattern, o, vocab[t + 1])
  BY <1>9, <1>11 DEF IsLongestAt
<1> HIDE DEF t
<1>13. LengthOf(t) \in Nat /\ LengthOf(t) = Len(vocab[t + 1])
  BY <1>2, <1>11 DEF LengthOf, t
<1>14. o + LengthOf(t) <= sink /\ o + LengthOf(t) \in Nat
  BY <1>1, <1>12, <1>13 DEF StartsAt
<1> QED
  BY <1>11, <1>14 DEF t

LEMMA GraphInvBuildPosition ==
    ASSUME GraphInv, BuildPosition, cut' = cut
    PROVE  GraphInv'
<1> DEFINE t == CodeAt(vocab, pattern, offset)
<1>1. /\ phase = "paths" /\ phase' = "paths" /\ offset < sink /\ Prefixes(offset) # {}
      /\ vocab' = vocab /\ pattern' = pattern /\ token' = token /\ cursor' = cursor
      /\ listed' = listed /\ unenumerated' = unenumerated /\ contained' = contained
      /\ length' = length /\ offset' = offset + LengthOf(t)
      /\ \E node : nodes' = [nodes EXCEPT ![offset] = node]
  BY DEF BuildPosition, OnPath, starts
<1>2. GraphTypeOK /\ CollectedInv
  BY <1>1 DEF GraphInv
<1>3. /\ vocab \in Dictionaries /\ pattern \in Patterns
      /\ token \in 0 .. Len(vocab) /\ cursor \in 0 .. Len(Payload)
      /\ listed \in [OverlapLengths -> SUBSET Ids(vocab)]
      /\ unenumerated \subseteq OverlapLengths /\ contained \subseteq Ids(vocab)
      /\ length \in 0 .. sink /\ offset \in 0 .. sink
      /\ DOMAIN nodes = 0 .. sink - 1
  BY <1>2 DEF GraphTypeOK
<1>4. sink \in Nat /\ offset \in Nat
  <2>1. sink \in Nat
    BY <1>3, PayloadTyped
  <2> QED
    BY <1>3, <2>1
<1>5. offset' \in 0 .. sink
  <2>1. offset + LengthOf(t) <= sink /\ offset + LengthOf(t) \in Nat
    BY <1>1, <1>3, <1>4, GreedyTokenFits
  <2> HIDE DEF t
  <2> QED
    BY <1>1, <1>4, <2>1
<1>6. DOMAIN nodes' = 0 .. sink - 1
  BY <1>1, <1>3
<1>7. GraphTypeOK'
  BY <1>1, <1>2, <1>3, <1>5, <1>6, GraphTypeStays
<1>8. CollectedInv'
  BY <1>1, <1>2, CollectedStays
<1> QED
  BY <1>1, <1>7, <1>8 DEF GraphInv

\* In a conformant dictionary every byte begins a token.
LEMMA EveryByteHasPrefix ==
    ASSUME vocab \in Dictionaries, pattern \in Patterns, NEW o \in Nat, o < sink, Conforms(vocab)
    PROVE  Prefixes(o) # {}
<1>1. vocab \in Seq(Token) /\ pattern \in ByteSeq /\ sink \in Nat /\ sink = Len(pattern)
  BY PayloadTyped DEF sink
<1> DEFINE b == pattern[o + 1]
<1>2. o + 1 \in 1 .. Len(pattern) /\ b \in Byte
  BY <1>1 DEF ByteSeq
<1>3. <<b>> \in TokensOf(vocab)
  BY <1>2 DEF Conforms, SingleByteTokens
<1>4. PICK n \in Ids(vocab) : vocab[n + 1] = <<b>>
  BY <1>1, <1>3, VocabularyTyped
<1>5. StartsAt(pattern, o, <<b>>)
  BY <1>1, <1>2 DEF StartsAt
<1>6. n \in Prefixes(o)
  BY <1>4, <1>5 DEF Prefixes
<1> QED
  BY <1>6

LEMMA GraphInvMissingByte ==
    ASSUME GraphInv, MissingByte, cut' = cut
    PROVE  GraphInv'
<1>1. /\ phase = "paths" /\ phase' = "error" /\ offset < sink /\ Prefixes(offset) = {}
      /\ vocab' = vocab /\ pattern' = pattern /\ token' = token /\ cursor' = cursor
      /\ listed' = listed /\ unenumerated' = unenumerated /\ contained' = contained
      /\ length' = length /\ offset' = offset /\ nodes' = nodes
  BY DEF MissingByte, OnPath, graph, starts, paths
<1>2. GraphTypeOK
  BY DEF GraphInv
<1>3. /\ vocab \in Dictionaries /\ pattern \in Patterns
      /\ token \in 0 .. Len(vocab) /\ cursor \in 0 .. Len(Payload)
      /\ listed \in [OverlapLengths -> SUBSET Ids(vocab)]
      /\ unenumerated \subseteq OverlapLengths /\ contained \subseteq Ids(vocab)
      /\ length \in 0 .. sink /\ offset \in 0 .. sink
      /\ DOMAIN nodes = 0 .. sink - 1
  BY <1>2 DEF GraphTypeOK
<1>4. GraphTypeOK'
  BY <1>1, <1>2, <1>3, GraphTypeStays
<1>5. ~Conforms(vocab)
  <2>1. offset \in Nat
    BY <1>3, PayloadTyped
  <2> QED
    BY <1>1, <1>3, <2>1, EveryByteHasPrefix
<1>6. Refusals'
  BY <1>1, <1>5 DEF Refusals
<1> QED
  BY <1>1, <1>4, <1>6 DEF GraphInv

LEMMA GraphInvNextPath ==
    ASSUME GraphInv, NextPath, cut' = cut
    PROVE  GraphInv'
<1> DEFINE later == {k \in OverlapLengths : k > length /\ HasOverlap(k)}
<1>1. /\ phase = "paths"
      /\ vocab' = vocab /\ pattern' = pattern /\ token' = token /\ cursor' = cursor
      /\ listed' = listed /\ unenumerated' = unenumerated /\ contained' = contained
      /\ nodes' = nodes
      /\ IF later # {}
         THEN length' = Sets!Min(later) /\ offset' = length' /\ phase' = phase
         ELSE phase' = "graph" /\ length' = length /\ offset' = offset
  BY DEF NextPath, starts
<1>2. GraphTypeOK /\ CollectedInv
  BY <1>1 DEF GraphInv
<1>3. /\ vocab \in Dictionaries /\ pattern \in Patterns
      /\ token \in 0 .. Len(vocab) /\ cursor \in 0 .. Len(Payload)
      /\ listed \in [OverlapLengths -> SUBSET Ids(vocab)]
      /\ unenumerated \subseteq OverlapLengths /\ contained \subseteq Ids(vocab)
      /\ length \in 0 .. sink /\ offset \in 0 .. sink
      /\ DOMAIN nodes = 0 .. sink - 1
  BY <1>2 DEF GraphTypeOK
<1>4. \A k \in OverlapLengths : k \in Nat /\ k \in 0 .. sink
  <2>1. sink \in Nat /\ pattern \in ByteSeq
    BY <1>3, PayloadTyped
  <2>2. \A k \in OverlapLengths : k \in Nat /\ k < sink
    BY <2>1, OverlapLengthsAre
  <2> QED
    BY <2>1, <2>2
<1>5. length' \in 0 .. sink /\ offset' \in 0 .. sink /\ phase' \in {"paths", "graph"}
  <2>1. CASE later # {}
    <3>1. later \in SUBSET Nat
      BY <1>4
    <3>2. Sets!Min(later) \in later
      BY <2>1, <3>1, LeastIsIn
    <3>3. Sets!Min(later) \in 0 .. sink
      BY <1>4, <3>2
    <3> HIDE DEF later
    <3> QED
      BY <1>1, <2>1, <3>3
  <2>2. CASE later = {}
    BY <1>1, <1>3, <2>2
  <2> QED
    BY <2>1, <2>2
<1> HIDE DEF later
<1>6. GraphTypeOK'
  BY <1>1, <1>2, <1>3, <1>5, GraphTypeStays
<1>7. CollectedInv'
  BY <1>1, <1>2, CollectedStays
<1> QED
  BY <1>5, <1>6, <1>7 DEF GraphInv

-----------------------------------------------------------------------------
(***************************************************************************)
(* The graph when it is built.                                             *)
(***************************************************************************)

LEMMA GraphInvStarts ==
    ASSUME ScanInit
    PROVE  GraphInv
<1>1. /\ vocab \in Dictionaries /\ pattern \in Patterns
      /\ phase = (IF sink > MaxPatternLen THEN "error"
                  ELSE IF sink = 0 THEN "ready"
                  ELSE IF sink > 1 THEN "single" ELSE "payload")
      /\ token = 0 /\ cursor = 0
      /\ listed = [k \in OverlapLengths |-> {}]
      /\ unenumerated = {} /\ contained = {}
      /\ length = 0 /\ offset = 0
      /\ nodes = [o \in 0 .. sink - 1 |-> Unbuilt]
      /\ cut = {}
  BY DEF ScanInit, GraphInit
<1>2. sink \in Nat /\ Len(vocab) \in Nat /\ Len(Payload) \in Nat /\ PayloadOffsets[0] = 0 /\ pattern \in ByteSeq
  BY <1>1, PayloadTyped
<1>3. phase \in {"error", "ready", "single", "payload"}
      /\ (phase \in {"single", "payload"} => sink > 0) /\ (phase = "single" => sink > 1)
      /\ (phase = "payload" => sink = 1) /\ (phase = "error" => sink > MaxPatternLen)
  BY <1>1, <1>2
<1>4. GraphTypeOK
  <2>1. 0 \in 0 .. Len(vocab) /\ 0 \in 0 .. Len(Payload) /\ 0 \in 0 .. sink
    BY <1>2
  <2>2. DOMAIN nodes = 0 .. sink - 1 /\ listed \in [OverlapLengths -> SUBSET Ids(vocab)]
    BY <1>1
  <2> QED
    BY <1>1, <1>3, <2>1, <2>2 DEF GraphTypeOK
<1>5. \A k \in OverlapLengths : Lists(listed, unenumerated, k, {})
  <2>1. \A k \in OverlapLengths : Limit(k) \in Nat
    BY GraphAssumption DEF Limit
  <2>2. Cardinality({}) = 0
    BY FS_EmptySet
  <2>3. \A k \in OverlapLengths : listed[k] = {} /\ k \notin unenumerated /\ Cardinality({}) <= Limit(k)
    BY <1>1, <2>1, <2>2
  <2> QED
    BY <2>3 DEF Lists
<1>6. phase = "single" => SinglesInv
  <2> HAVE phase = "single"
  <2>1. {u \in Tails(1) : u < token} = {}
    <3>1. \A u \in Tails(1) : ~(u < 0)
      BY <1>1, PayloadTyped DEF Tails
    <3> QED
      BY <1>1, <3>1
  <2>2. \A k \in OverlapLengths :
            Lists(listed, unenumerated, k, IF k = 1 THEN {u \in Tails(1) : u < token} ELSE {})
    BY <1>5, <2>1
  <2>3. sink > 1
    BY <1>3
  <2> QED
    BY <1>1, <2>2, <2>3 DEF SinglesInv
<1>7. phase = "payload" => PayloadInv
  <2> HAVE phase = "payload"
  <2>1. sink = 1 /\ sink > 0
    BY <1>2, <1>3
  <2>2. \A k \in OverlapLengths : FALSE
    <3>1. \A k \in OverlapLengths : k \in Nat /\ 0 < k /\ k < sink
      BY <1>2, OverlapLengthsAre
    <3> QED
      BY <2>1, <3>1
  <2>3. HoldersBefore(0) = {} /\ LeadsPassed(0)
    BY <1>1, <2>1, NothingBefore
  <2>4. PayloadOffsets[token] <= cursor
    BY <1>1, <1>2
  <2>5. HoldersBefore(cursor) = {} /\ LeadsPassed(cursor)
    BY <1>1, <2>3
  <2> QED
    BY <1>1, <2>2, <2>4, <2>5 DEF PayloadInv
<1> QED
  BY <1>3, <1>4, <1>6, <1>7 DEF GraphInv, Refusals

\* Once it is built the graph does not change.
LEMMA GraphInvAfter ==
    ASSUME GraphInv, UNCHANGED call, cut' \subseteq Edges,
           phase' \in {"error", "planned", "ready", "blocks", "hits", "locate", "verify", "done",
                       "asked", "panic"},
           phase' = "error" => Refusals'
    PROVE  GraphInv'
<1>1. /\ vocab' = vocab /\ pattern' = pattern /\ token' = token /\ cursor' = cursor
      /\ listed' = listed /\ unenumerated' = unenumerated /\ contained' = contained
      /\ length' = length /\ offset' = offset /\ nodes' = nodes
  BY DEF call, graph, starts, paths
<1>2. sink' = sink /\ OverlapLengths' = OverlapLengths /\ Payload' = Payload /\ Edges' = Edges
  BY <1>1 DEF sink, OverlapLengths, Payload, Edges, GreedyEdges, RangeEdges, AlignmentEdges, Edge,
              HasOverlap, LengthOf
<1>3. GraphTypeOK
  BY DEF GraphInv
<1>4. GraphTypeOK'
  BY <1>1, <1>2, <1>3 DEF GraphTypeOK
<1> QED
  BY <1>4 DEF GraphInv

LEMMA GraphInvStays ==
    ASSUME GraphInv, [ScanNext]_scan_vars
    PROVE  GraphInv'
<1>0. cut \subseteq Edges
  BY DEF GraphInv, GraphTypeOK
<1>1. CASE BuildGraph
  <2>1. GraphStep /\ cut' = cut
    BY <1>1 DEF BuildGraph, plan
  <2> QED
    BY <2>1, GraphInvCollectSingleByte, GraphInvSinglesCollected, GraphInvScanPayload,
       GraphInvPayloadScanned, GraphInvBuildPosition, GraphInvMissingByte, GraphInvNextPath DEF GraphStep
<1>2. CASE RejectIndex
  <2>1. /\ UNCHANGED call /\ cut' = cut /\ phase' = "error"
        /\ index' # Refused /\ Mismatch(index')
    BY <1>2 DEF RejectIndex, PassIndex
  <2>2. Mismatch(index)'
    BY <2>1 DEF Mismatch, call
  <2>3. Refusals'
    BY <2>1, <2>2 DEF Refusals
  <2> QED
    BY <1>0, <2>1, <2>3, GraphInvAfter
<1>3. CASE Select
  <2>1. UNCHANGED call /\ cut' = Solve(weight') /\ phase' = "planned"
    BY <1>3 DEF Select
  <2>2. cut' \subseteq Edges
    BY <2>1 DEF Solve, Crossing, CuttableEdges
  <2> QED
    BY <2>1, <2>2, GraphInvAfter
<1>4. CASE Prepare
  <2>1. UNCHANGED call /\ cut' = cut /\ phase' = "ready"
    BY <1>4 DEF Prepare
  <2> QED
    BY <1>0, <2>1, GraphInvAfter
<1>5. CASE ExpectedHits
  <2>1. /\ UNCHANGED call /\ cut' = cut /\ phase' = IF Mismatch(index') THEN "error" ELSE "asked"
        /\ index' # Refused
    BY <1>5 DEF ExpectedHits, PassIndex
  <2>2. phase' = "error" => Refusals'
    <3> HAVE phase' = "error"
    <3>1. Mismatch(index')
      BY <2>1
    <3>2. Mismatch(index)'
      BY <2>1, <3>1 DEF Mismatch, call
    <3> QED
      BY <2>1, <3>2 DEF Refusals
  <2> QED
    BY <1>0, <2>1, <2>2, GraphInvAfter
<1>6. CASE \/ ScanNothing \/ ScanPanics \/ ScanEverything \/ StartScan
           \/ StartBlock \/ FinishScan \/ TakeHit \/ EndBlock \/ LocateRow \/ Verify
  <2>1. /\ UNCHANGED call /\ cut' = cut
        /\ phase' \in {"done", "panic", "blocks", "hits", "locate", "verify"}
    BY <1>6 DEF ScanNothing, ScanPanics, ScanEverything, StartScan, StartBlock, FinishScan, TakeHit,
                EndBlock, LocateRow, Verify, plan
  <2> QED
    BY <1>0, <2>1, GraphInvAfter
<1>7. CASE UNCHANGED scan_vars
  <2>1. /\ vocab' = vocab /\ pattern' = pattern /\ token' = token /\ cursor' = cursor
        /\ listed' = listed /\ unenumerated' = unenumerated /\ contained' = contained
        /\ length' = length /\ offset' = offset /\ nodes' = nodes
        /\ phase' = phase /\ index' = index /\ cut' = cut
    BY <1>7 DEF scan_vars, call, graph, starts, paths, plan
  <2>2. sink' = sink /\ OverlapLengths' = OverlapLengths /\ Payload' = Payload /\ Edges' = Edges
    BY <2>1 DEF sink, OverlapLengths, Payload, Edges, GreedyEdges, RangeEdges, AlignmentEdges, Edge,
                HasOverlap, LengthOf
  <2>3. GraphTypeOK'
    BY <2>1, <2>2 DEF GraphInv, GraphTypeOK
  <2>4. SinglesInv => SinglesInv'
    BY <2>1 DEF SinglesInv, Lists, Limit, sink, OverlapLengths, Tails, EndsWithPrefix, IsTail, LengthOf
  <2>5. PayloadInv => PayloadInv'
    BY <2>1 DEF PayloadInv, Lists, Limit, sink, OverlapLengths, Tails, TailsBefore, EndsWithPrefix, IsTail,
                LengthOf, PayloadOffsets, HoldersBefore, Leads, LeadsPassed, AfterMatch
  <2>6. CollectedInv => CollectedInv'
    BY <2>1, CollectedStays
  <2>7. Refusals => Refusals'
    BY <2>1, <2>2 DEF Refusals, Mismatch
  <2> QED
    BY <2>1, <2>3, <2>4, <2>5, <2>6, <2>7 DEF GraphInv
<1> QED
  BY <1>1, <1>2, <1>3, <1>4, <1>5, <1>6, <1>7 DEF ScanNext

LEMMA GraphInvIsExact ==
    ASSUME GraphInv, ResolverInv
    PROVE  GraphIsExact
<1>1. GraphTypeOK
  BY DEF GraphInv
<1>2. ScanTypeOK
  BY <1>1 DEF GraphTypeOK, ScanTypeOK, ResolverInv
<1>3. ASSUME phase = "graph"
      PROVE  /\ \A k \in OverlapLengths :
                LET tokens == {t \in Ids(vocab) : EndsWithPrefix(t, k)}
                    limit == IF k = 1 THEN MaxSingleByteTokens ELSE MaxEnumeratedTokens
                IN  IF Cardinality(tokens) > limit THEN k \in unenumerated
                    ELSE k \notin unenumerated /\ listed[k] = tokens
             /\ contained = {t \in Ids(vocab) : Inside(t) /\ ~StartsAt(vocab[t + 1], 0, pattern)}
  <2>1. CollectedInv
    BY <1>3 DEF GraphInv
  <2>2. vocab \in Dictionaries /\ pattern \in Patterns
    BY <1>1 DEF GraphTypeOK
  <2>3. ASSUME NEW k \in OverlapLengths
        PROVE  IF Cardinality(Tails(k)) > Limit(k) THEN k \in unenumerated
               ELSE k \notin unenumerated /\ listed[k] = Tails(k)
    <3>1. Lists(listed, unenumerated, k, Tails(k))
      BY <2>1 DEF CollectedInv
    <3>2. Tails(k) \in SUBSET Ids(vocab)
      BY DEF Tails
    <3>3. Cardinality(Tails(k)) \in Nat
      BY <2>2, <3>2, TailsFinite
    <3>4. Limit(k) \in Nat
      BY GraphAssumption DEF Limit
    <3> QED
      BY <3>1, <3>3, <3>4 DEF Lists
  <2> QED
    BY <2>1, <2>3 DEF CollectedInv, Tails, Limit, Holders, Leads
<1>4. phase = "error" =>
        sink > MaxPatternLen \/ ~Conforms(vocab) \/ (index # Refused /\ Mismatch(index))
  BY DEF GraphInv, Refusals
<1> QED
  BY <1>2, <1>3, <1>4 DEF GraphIsExact

\* While the graph is built, every overlap lists the tokens with a tail before the cursor,
\* unless they are too many, and every token that holds the pattern before it is known:
\* what the scan skips behind a match can add neither (starts.rs, scan_payload).
THEOREM GraphInvHolds == ScanSpec => []GraphInv
<1> QED
  BY GraphInvStarts, GraphInvStays, PTL DEF ScanSpec

\* So the graph that is built lists exactly the tokens that an occurrence of the pattern
\* can begin inside, for every dictionary and pattern, and building fails on no
\* conformant dictionary.
THEOREM GraphStaysExact == ScanSpec => []GraphIsExact
<1> QED
  BY GraphInvHolds, ResolverInvHolds, GraphInvIsExact, PTL

-----------------------------------------------------------------------------
(***************************************************************************)
(* Folds over finite sets.                                                 *)
(***************************************************************************)

\* A fold over the subsets of U that takes out one element after the other.
IsFold(f, U, base, pick, step) ==
    f = [s \in SUBSET U |-> IF s = {} THEN base ELSE step[<<s, f[s \ {pick[s]}]>>]]

Picks(pick, U) == \A s \in SUBSET U : s # {} => pick[s] \in s

LEMMA FoldUnfolds ==
    ASSUME NEW f, NEW U, NEW base, NEW pick, NEW step, IsFold(f, U, base, pick, step)
    PROVE  /\ f[{}] = base
           /\ \A s \in SUBSET U : s # {} => f[s] = step[<<s, f[s \ {pick[s]}]>>]
<1> DEFINE rhs(s) == IF s = {} THEN base ELSE step[<<s, f[s \ {pick[s]}]>>]
<1>1. f = [s \in SUBSET U |-> rhs(s)]
  BY DEF IsFold
<1> HIDE DEF rhs
<1>2. \A s \in SUBSET U : f[s] = rhs(s)
  BY <1>1
<1>3. {} \in SUBSET U
  OBVIOUS
<1> QED
  BY <1>2, <1>3 DEF rhs

\* Taking out elements comes to an end.
LEMMA SubsetRanks ==
    ASSUME NEW U, IsFiniteSet(U)
    PROVE  /\ Cardinality(U) \in Nat
           /\ \A s \in SUBSET U : IsFiniteSet(s) /\ Cardinality(s) \in 0 .. Cardinality(U)
           /\ \A s \in SUBSET U : \A x \in s :
                s \ {x} \in SUBSET U /\ Cardinality(s \ {x}) = Cardinality(s) - 1
                /\ Cardinality(s \ {x}) < Cardinality(s)
<1>1. Cardinality(U) \in Nat
  BY FS_CardinalityType
<1>2. ASSUME NEW s \in SUBSET U
      PROVE  IsFiniteSet(s) /\ Cardinality(s) \in 0 .. Cardinality(U) /\ Cardinality(s) \in Nat
  BY <1>1, FS_Subset, FS_CardinalityType
<1>3. ASSUME NEW s \in SUBSET U, NEW x \in s
      PROVE  s \ {x} \in SUBSET U /\ Cardinality(s \ {x}) = Cardinality(s) - 1
             /\ Cardinality(s \ {x}) < Cardinality(s)
  <2>1. Cardinality(s \ {x}) = Cardinality(s) - 1
    BY <1>2, FS_RemoveElement
  <2> QED
    BY <1>2, <2>1
<1> QED
  BY <1>1, <1>2, <1>3

LEMMA FoldExists ==
    ASSUME NEW U, IsFiniteSet(U), NEW V, NEW base \in V, NEW pick, Picks(pick, U), NEW step,
           \A s \in SUBSET U, v \in V : s # {} => step[<<s, v>>] \in V
    PROVE  \E f \in [SUBSET U -> V] : IsFold(f, U, base, pick, step)
<1> DEFINE D == SUBSET U
           ends == {{}}
           value == [s \in D |-> base]
           to == [s \in D |-> s \ {pick[s]}]
           rank == [s \in D |-> Cardinality(s)]
           n == Cardinality(U)
<1>1. n \in Nat /\ rank \in [D -> 0 .. n]
  BY SubsetRanks
<1>2. \A r \in D : value[r] = base /\ to[r] = r \ {pick[r]}
  OBVIOUS
<1>3. ASSUME NEW r \in D, r \notin ends
      PROVE  to[r] \in D /\ rank[to[r]] < rank[r]
  <2>1. pick[r] \in r
    BY <1>3 DEF Picks
  <2>2. r \ {pick[r]} \in SUBSET U /\ Cardinality(r \ {pick[r]}) < Cardinality(r)
    BY <2>1, SubsetRanks
  <2> QED
    BY <1>2, <2>2
<1>4. \A r \in D, v \in V : r \notin ends => step[<<r, v>>] \in V
  OBVIOUS
<1>5. \A r \in D : r \in ends => value[r] \in V
  OBVIOUS
<1>6. \A r \in D : r \in ends <=> r = {}
  OBVIOUS
<1> HIDE DEF ends, value, to, rank, n
<1>7. PICK f \in [D -> V] : Recurses(f, D, ends, value, to, step)
  <2> HIDE DEF D
  <2> QED
    BY <1>1, <1>3, <1>4, <1>5, RecursionExists
<1> DEFINE rhs(s) == IF s \in ends THEN value[s] ELSE step[<<s, f[to[s]]>>]
           goal(s) == IF s = {} THEN base ELSE step[<<s, f[s \ {pick[s]}]>>]
<1>8. f = [s \in D |-> rhs(s)]
  BY <1>7 DEF Recurses
<1>9. \A s \in D : rhs(s) = goal(s)
  BY <1>2, <1>6
<1>10. f = [s \in D |-> goal(s)]
  <2> HIDE DEF rhs, goal
  <2> QED
    BY <1>8, <1>9
<1> QED
  BY <1>7, <1>10 DEF IsFold

\* What holds of the empty set, and of a set if it holds without the element taken out.
LEMMA FoldInduction ==
    ASSUME NEW U, IsFiniteSet(U), NEW pick, Picks(pick, U), NEW S, {} \in S,
           \A s \in SUBSET U : s # {} => (s \ {pick[s]} \in S => s \in S)
    PROVE  \A s \in SUBSET U : s \in S
<1> DEFINE D == SUBSET U
           ends == {{}}
           to == [s \in D |-> s \ {pick[s]}]
           rank == [s \in D |-> Cardinality(s)]
           n == Cardinality(U)
<1>1. n \in Nat /\ rank \in [D -> 0 .. n]
  BY SubsetRanks
<1>2. \A r \in D : to[r] = r \ {pick[r]} /\ rank[r] = Cardinality(r)
  OBVIOUS
<1>3. ASSUME NEW r \in D, r \notin ends
      PROVE  to[r] \in D /\ rank[to[r]] < rank[r]
  <2>1. pick[r] \in r
    BY <1>3 DEF Picks
  <2>2. r \ {pick[r]} \in SUBSET U /\ Cardinality(r \ {pick[r]}) < Cardinality(r)
    BY <2>1, SubsetRanks
  <2> QED
    BY <1>2, <2>2
<1>4. Climbs(S, D, ends, to)
  BY <1>2 DEF Climbs
<1> HIDE DEF ends, to, rank, n, D
<1>5. \A r \in D : r \in S
  BY <1>1, <1>3, <1>4, DescentInduction
<1> QED
  BY <1>5 DEF D

AnyOf(s) == CHOOSE x \in s : TRUE

\* The sums of w over the subsets of U.
IsSum(g, U, w) ==
    g = [s \in SUBSET U |-> IF s = {} THEN 0 ELSE w[AnyOf(s)] + g[s \ {AnyOf(s)}]]

Weighs(w, U) == \A x \in U : w[x] \in Int

LEMMA AnyIsIn ==
    ASSUME NEW s, s # {}
    PROVE  AnyOf(s) \in s
  BY DEF AnyOf

LEMMA SumUnfolds ==
    ASSUME NEW g, NEW U, NEW w, IsSum(g, U, w)
    PROVE  /\ g[{}] = 0
           /\ \A s \in SUBSET U : s # {} => g[s] = w[AnyOf(s)] + g[s \ {AnyOf(s)}]
<1> DEFINE rhs(s) == IF s = {} THEN 0 ELSE w[AnyOf(s)] + g[s \ {AnyOf(s)}]
<1>1. g = [s \in SUBSET U |-> rhs(s)]
  BY DEF IsSum
<1> HIDE DEF rhs
<1>2. \A s \in SUBSET U : g[s] = rhs(s)
  BY <1>1
<1>3. {} \in SUBSET U
  OBVIOUS
<1> QED
  BY <1>2, <1>3 DEF rhs

LEMMA SumExists ==
    ASSUME NEW U, IsFiniteSet(U), NEW w, Weighs(w, U)
    PROVE  \E g : IsSum(g, U, w)
<1> DEFINE pick == [s \in SUBSET U |-> AnyOf(s)]
           step == [x \in (SUBSET U) \X Int |-> w[AnyOf(x[1])] + x[2]]
<1>1. \A s \in SUBSET U, v \in Int : step[<<s, v>>] = w[AnyOf(s)] + v
  OBVIOUS
<1>2. \A s \in SUBSET U : pick[s] = AnyOf(s)
  OBVIOUS
<1>3. Picks(pick, U)
  BY <1>2, AnyIsIn DEF Picks
<1>4. ASSUME NEW s \in SUBSET U, NEW v \in Int, s # {}
      PROVE  step[<<s, v>>] \in Int
  <2>1. AnyOf(s) \in U
    BY <1>4, AnyIsIn
  <2>2. w[AnyOf(s)] \in Int
    BY <2>1 DEF Weighs
  <2> QED
    BY <1>1, <2>2
<1> HIDE DEF pick, step
<1>5. PICK g \in [SUBSET U -> Int] : IsFold(g, U, 0, pick, step)
  <2>1. 0 \in Int /\ \A s \in SUBSET U, v \in Int : s # {} => step[<<s, v>>] \in Int
    BY <1>4
  <2> QED
    BY <1>3, <2>1, FoldExists
<1> DEFINE rhs(s) == IF s = {} THEN 0 ELSE step[<<s, g[s \ {pick[s]}]>>]
           goal(s) == IF s = {} THEN 0 ELSE w[AnyOf(s)] + g[s \ {AnyOf(s)}]
<1>6. g = [s \in SUBSET U |-> rhs(s)]
  BY <1>5 DEF IsFold
<1>7. ASSUME NEW s \in SUBSET U
      PROVE  rhs(s) = goal(s)
  <2>1. s \ {pick[s]} \in SUBSET U
    OBVIOUS
  <2>2. g[s \ {pick[s]}] \in Int
    BY <1>5, <2>1
  <2> QED
    BY <1>1, <1>2, <2>2
<1>8. g = [s \in SUBSET U |-> goal(s)]
  <2> HIDE DEF rhs, goal
  <2> QED
    BY <1>6, <1>7
<1> QED
  BY <1>8 DEF IsSum

LEMMA SumTyped ==
    ASSUME NEW U, IsFiniteSet(U), NEW w, Weighs(w, U), NEW g, IsSum(g, U, w)
    PROVE  \A s \in SUBSET U : g[s] \in Int
<1> DEFINE pick == [s \in SUBSET U |-> AnyOf(s)]
           S == {s \in SUBSET U : g[s] \in Int}
<1>1. \A s \in SUBSET U : pick[s] = AnyOf(s)
  OBVIOUS
<1>2. Picks(pick, U)
  BY <1>1, AnyIsIn DEF Picks
<1>3. {} \in S
  BY SumUnfolds
<1>4. ASSUME NEW s \in SUBSET U, s # {}, s \ {pick[s]} \in S
      PROVE  s \in S
  <2>1. AnyOf(s) \in U
    BY <1>4, AnyIsIn
  <2>2. w[AnyOf(s)] \in Int
    BY <2>1 DEF Weighs
  <2>3. g[s \ {AnyOf(s)}] \in Int
    BY <1>1, <1>4
  <2>4. g[s] = w[AnyOf(s)] + g[s \ {AnyOf(s)}]
    BY <1>4, SumUnfolds
  <2> QED
    BY <2>2, <2>3, <2>4
<1> HIDE DEF pick, S
<1>5. \A s \in SUBSET U : s \in S
  BY <1>2, <1>3, <1>4, FoldInduction
<1> QED
  BY <1>5 DEF S

\* A sum depends on what is added up only.
LEMMA SumAgrees ==
    ASSUME NEW T, IsFiniteSet(T), NEW U, T \subseteq U, NEW w, NEW u, \A x \in T : w[x] = u[x],
           NEW g, IsSum(g, U, w), NEW h, IsSum(h, T, u)
    PROVE  \A s \in SUBSET T : g[s] = h[s]
<1> DEFINE pick == [s \in SUBSET T |-> AnyOf(s)]
           S == {s \in SUBSET T : g[s] = h[s]}
<1>1. \A s \in SUBSET T : pick[s] = AnyOf(s)
  OBVIOUS
<1>2. Picks(pick, T)
  BY <1>1, AnyIsIn DEF Picks
<1>3. /\ g[{}] = 0 /\ h[{}] = 0
      /\ \A s \in SUBSET U : s # {} => g[s] = w[AnyOf(s)] + g[s \ {AnyOf(s)}]
      /\ \A s \in SUBSET T : s # {} => h[s] = u[AnyOf(s)] + h[s \ {AnyOf(s)}]
  <2>1. g[{}] = 0 /\ \A s \in SUBSET U : s # {} => g[s] = w[AnyOf(s)] + g[s \ {AnyOf(s)}]
    BY ONLY IsSum(g, U, w), SumUnfolds
  <2>2. h[{}] = 0 /\ \A s \in SUBSET T : s # {} => h[s] = u[AnyOf(s)] + h[s \ {AnyOf(s)}]
    BY ONLY IsSum(h, T, u), SumUnfolds
  <2> QED
    BY <2>1, <2>2
<1>4. ASSUME NEW s \in SUBSET T, s # {}, s \ {pick[s]} \in S
      PROVE  s \in S
  <2>1. AnyOf(s) \in T /\ s \in SUBSET U
    BY <1>4, AnyIsIn
  <2>2. w[AnyOf(s)] = u[AnyOf(s)]
    BY <2>1
  <2>3. g[s \ {AnyOf(s)}] = h[s \ {AnyOf(s)}]
    BY <1>1, <1>4
  <2>4. g[s] = w[AnyOf(s)] + g[s \ {AnyOf(s)}]
    BY <1>3, <1>4, <2>1
  <2>5. h[s] = u[AnyOf(s)] + h[s \ {AnyOf(s)}]
    BY <1>3, <1>4
  <2> QED
    BY <2>2, <2>3, <2>4, <2>5
<1> HIDE DEF pick, S
<1>5. {} \in S
  BY <1>3 DEF S
<1>6. \A s \in SUBSET T : s \in S
  BY <1>2, <1>5, <1>4, FoldInduction
<1> QED
  BY <1>6 DEF S

\* Any element may be taken out first.
LEMMA SumOfAny ==
    ASSUME NEW U, IsFiniteSet(U), NEW w, Weighs(w, U), NEW g, IsSum(g, U, w)
    PROVE  \A s \in SUBSET U : \A y \in s : g[s] = w[y] + g[s \ {y}]
<1> DEFINE n == Cardinality(U)
           S == {m \in Nat : \A s \in SUBSET U : Cardinality(s) = m =>
                                \A y \in s : g[s] = w[y] + g[s \ {y}]}
<1>1. n \in Nat
  BY SubsetRanks
<1>2. 0 \in S
  <2>1. ASSUME NEW s \in SUBSET U, Cardinality(s) = 0, NEW y \in s
        PROVE  FALSE
    <3>1. IsFiniteSet(s)
      BY SubsetRanks
    <3>2. s = {}
      BY <2>1, <3>1, FS_EmptySet
    <3> QED
      BY <3>2
  <2> QED
    BY <2>1
<1>3. ASSUME NEW m \in 0 .. n - 1, m \in S
      PROVE  m + 1 \in S
  <2>1. ASSUME NEW s \in SUBSET U, Cardinality(s) = m + 1, NEW y \in s
        PROVE  g[s] = w[y] + g[s \ {y}]
    <3> DEFINE x == AnyOf(s)
    <3>1. x \in s
      BY AnyIsIn
    <3>2. g[s] = w[x] + g[s \ {x}]
      BY SumUnfolds
    <3> HIDE DEF x
    <3>3. CASE x = y
      BY <3>2, <3>3
    <3>4. CASE x # y
      <4>1. /\ s \ {x} \in SUBSET U /\ s \ {y} \in SUBSET U
            /\ Cardinality(s \ {x}) = m /\ Cardinality(s \ {y}) = m
        <5>1. Cardinality(s \ {x}) = Cardinality(s) - 1 /\ Cardinality(s \ {y}) = Cardinality(s) - 1
          BY <3>1, SubsetRanks
        <5> QED
          BY <2>1, <5>1
      <4>2. g[s \ {x}] = w[y] + g[(s \ {x}) \ {y}]
        <5>1. y \in s \ {x}
          BY <3>4
        <5> QED
          BY <1>3, <4>1, <5>1
      <4>3. g[s \ {y}] = w[x] + g[(s \ {y}) \ {x}]
        <5>1. x \in s \ {y}
          BY <3>1, <3>4
        <5> QED
          BY <1>3, <4>1, <5>1
      <4>4. (s \ {y}) \ {x} = (s \ {x}) \ {y} /\ (s \ {x}) \ {y} \in SUBSET U
        OBVIOUS
      <4>5. w[x] \in Int /\ w[y] \in Int /\ g[(s \ {x}) \ {y}] \in Int
        BY <3>1, <4>4, SumTyped DEF Weighs
      <4> DEFINE a == w[x]
                 b == w[y]
                 c == g[(s \ {x}) \ {y}]
      <4>6. g[s] = a + (b + c) /\ g[s \ {y}] = a + c /\ a \in Int /\ b \in Int /\ c \in Int
        BY <3>2, <4>2, <4>3, <4>4, <4>5
      <4> HIDE DEF a, b, c
      <4>7. g[s] = b + g[s \ {y}]
        BY ONLY <4>6, SMT
      <4> QED
        BY <4>7 DEF b
    <3> QED
      BY <3>3, <3>4
  <2>2. m + 1 \in Nat
    OBVIOUS
  <2> QED
    BY <2>1, <2>2
<1> HIDE DEF n, S
<1>4. \A m \in 0 .. n : m \in S
  BY <1>1, <1>2, <1>3, UpwardInduction
<1>5. ASSUME NEW s \in SUBSET U, NEW y \in s
      PROVE  g[s] = w[y] + g[s \ {y}]
  <2>1. Cardinality(s) \in 0 .. n
    BY SubsetRanks DEF n
  <2>2. Cardinality(s) \in S
    BY <1>4, <2>1
  <2> QED
    BY <2>2 DEF S
<1> QED
  BY <1>5

\* One more element.
LEMMA SumAdds ==
    ASSUME NEW U, IsFiniteSet(U), NEW w, Weighs(w, U), NEW g, IsSum(g, U, w),
           NEW s \in SUBSET U, NEW y \in U, y \notin s
    PROVE  g[s \cup {y}] = g[s] + w[y]
<1>1. s \cup {y} \in SUBSET U /\ y \in s \cup {y} /\ (s \cup {y}) \ {y} = s
  OBVIOUS
<1>2. g[s \cup {y}] = w[y] + g[s]
  BY <1>1, SumOfAny
<1>3. w[y] \in Int /\ g[s] \in Int
  BY SumTyped DEF Weighs
<1> QED
  BY <1>2, <1>3

-----------------------------------------------------------------------------
(***************************************************************************)
(* The cover: runs that are merged are apart.                              *)
(***************************************************************************)

\* Runs of tokens, and sequences of them that neither overlap nor touch.
RunsOf(v) == {r \in [begin : Ids(v), last : Ids(v)] : r.begin <= r.last}

Apart(m) == \A n \in 1 .. Len(m) - 1 : m[n].last + 1 < m[n + 1].begin

ApartRuns == {m \in Seq(RunsOf(vocab)) : Apart(m)}

LEMMA RunsAreFinite ==
    ASSUME NEW v, Len(v) \in Nat
    PROVE  IsFiniteSet(RunsOf(v))
<1> DEFINE S == RunsOf(v)
           T == Ids(v) \X Ids(v)
           f == [r \in S |-> <<r.begin, r.last>>]
<1>1. IsFiniteSet(Ids(v))
  BY FS_Interval DEF Ids
<1>2. IsFiniteSet(T)
  BY <1>1, FS_Product
<1>3. f \in [S -> T]
  BY DEF RunsOf
<1>4. \A r, q \in S : f[r] = f[q] => r = q
  BY DEF RunsOf
<1>5. f \in Injection(S, T)
  <2> HIDE DEF f, S, T
  <2> QED
    BY <1>3, <1>4 DEF Injection, IsInjective
<1> HIDE DEF f, S, T
<1>6. IsFiniteSet(S)
  BY <1>2, <1>5, FS_Injection
<1> QED
  BY <1>6 DEF S

\* Of some runs one is last in order.
LEMMA LastRun ==
    ASSUME Len(vocab) \in Nat, NEW runs \in SUBSET RunsOf(vocab), runs # {}
    PROVE  \E r \in runs : \A q \in runs : q = r \/ Before(q, r)
<1> DEFINE N == Len(vocab)
           B == {n \in Nat : \E r \in runs : n = N - r.begin}
<1>1. \A r \in runs : r.begin \in Nat /\ r.last \in Nat /\ r.begin < N /\ r.last < N
                      /\ r = [begin |-> r.begin, last |-> r.last]
  BY DEF RunsOf, Ids
<1>2. \A r \in runs : N - r.begin \in B
  BY <1>1
<1>3. PICK b \in B : \A n \in B : b <= n
  BY <1>2, LeastNatural
<1>4. PICK s \in runs : b = N - s.begin
  OBVIOUS
<1> DEFINE L == {n \in Nat : \E r \in runs : r.begin = s.begin /\ n = N - r.last}
<1>5. \A r \in runs : r.begin = s.begin => N - r.last \in L
  BY <1>1
<1>6. PICK l \in L : \A n \in L : l <= n
  BY <1>5, LeastNatural
<1>7. PICK r \in runs : r.begin = s.begin /\ l = N - r.last
  OBVIOUS
<1>8. ASSUME NEW q \in runs
      PROVE  q = r \/ Before(q, r)
  <2>1. b <= N - q.begin
    BY <1>2, <1>3
  <2>2. q.begin <= r.begin
    BY <1>1, <1>4, <1>7, <2>1
  <2>3. CASE q.begin = r.begin
    <3>1. l <= N - q.last
      BY <1>5, <1>6, <1>7, <2>3
    <3>2. q.last <= r.last
      BY <1>1, <1>7, <3>1
    <3> QED
      BY <1>1, <2>3, <3>2 DEF Before
  <2> QED
    BY <1>1, <2>2, <2>3 DEF Before
<1> QED
  BY <1>8

\* Merging one more run keeps them apart.
LEMMA MergeStaysApart ==
    ASSUME Len(vocab) \in Nat, NEW m \in ApartRuns, NEW run \in RunsOf(vocab)
    PROVE  Merge(m, run) \in ApartRuns
<1> DEFINE R == RunsOf(vocab)
           n == Len(m)
<1>1. m \in Seq(R) /\ n \in Nat /\ Apart(m)
  BY DEF ApartRuns
<1>2. \A k \in 1 .. n : m[k] \in R
  BY <1>1
<1>3. \A r \in R : r.begin \in Nat /\ r.last \in Nat /\ r.begin <= r.last /\ r.last < Len(vocab)
                   /\ r.begin \in Ids(vocab) /\ r.last \in Ids(vocab)
                   /\ r \in [begin : Ids(vocab), last : Ids(vocab)]
  BY DEF RunsOf, Ids
<1>4. CASE m # <<>> /\ run.begin <= m[n].last + 1
  <2> DEFINE last == Sets!Max({m[n].last, run.last})
             open == [begin |-> m[n].begin, last |-> last]
             k == [m EXCEPT ![n] = open]
  <2>1. n \in 1 .. n /\ m[n] \in R
    BY <1>1, <1>2, <1>4
  <2>2. last = IF m[n].last >= run.last THEN m[n].last ELSE run.last
    BY <1>3, <2>1, GreaterIs
  <2>3. open \in R
    <3>1. last \in Ids(vocab) /\ m[n].begin \in Ids(vocab) /\ m[n].begin <= last
      BY <1>3, <2>1, <2>2
    <3> HIDE DEF last
    <3> QED
      BY <3>1 DEF RunsOf
  <2>4. Merge(m, run) = k
    <3>1. [m[n] EXCEPT !.last = last] = open
      BY <1>3, <2>1
    <3>2. Merge(m, run) = [m EXCEPT ![n] = [m[n] EXCEPT !.last = last]]
      BY <1>4 DEF Merge, Seqs!Last
    <3> HIDE DEF last, open
    <3> QED
      BY <3>1, <3>2
  <2> HIDE DEF last, open
  <2>5. k \in Seq(R) /\ Len(k) = n /\ \A j \in 1 .. n : k[j] = IF j = n THEN open ELSE m[j]
    BY <1>1, <2>1, <2>3
  <2>6. open.begin = m[n].begin
    BY DEF open
  <2> HIDE DEF k
  <2>7. ASSUME NEW j \in 1 .. n - 1
        PROVE  k[j].last + 1 < k[j + 1].begin
    <3>1. m[j].last + 1 < m[j + 1].begin
      BY <1>1 DEF Apart
    <3>2. j \in 1 .. n /\ j # n /\ j + 1 \in 1 .. n
      BY <1>1
    <3>3. k[j] = m[j] /\ k[j + 1].begin = m[j + 1].begin
      BY <2>5, <2>6, <3>2
    <3> QED
      BY <3>1, <3>3
  <2> QED
    BY <2>4, <2>5, <2>7 DEF ApartRuns, Apart
<1>5. CASE ~(m # <<>> /\ run.begin <= m[n].last + 1)
  <2> DEFINE k == Append(m, run)
  <2>1. Merge(m, run) = k
    BY <1>5 DEF Merge, Seqs!Last
  <2>2. k \in Seq(R) /\ Len(k) = n + 1 /\ k[n + 1] = run /\ \A j \in 1 .. n : k[j] = m[j]
    BY <1>1
  <2> HIDE DEF k
  <2>3. ASSUME NEW j \in 1 .. n
        PROVE  k[j].last + 1 < k[j + 1].begin
    <3>1. CASE j = n
      <4>1. m # <<>> /\ n \in 1 .. n
        BY <1>1, <3>1
      <4>2. m[n].last + 1 < run.begin
        BY <1>2, <1>3, <1>5, <4>1
      <4> QED
        BY <2>2, <3>1, <4>1, <4>2
    <3>2. CASE j # n
      <4>1. j \in 1 .. n - 1 /\ j + 1 \in 1 .. n
        BY <1>1, <3>2
      <4>2. m[j].last + 1 < m[j + 1].begin
        BY <1>1, <4>1 DEF Apart
      <4> QED
        BY <2>2, <4>1, <4>2
    <3> QED
      BY <3>1, <3>2
  <2>4. Len(k) - 1 = n
    BY <1>1, <2>2
  <2> QED
    BY <2>1, <2>2, <2>3, <2>4 DEF ApartRuns, Apart
<1> QED
  BY <1>4, <1>5

\* What is merged from all runs.
LEMMA MergedRunsAre ==
    ASSUME Len(vocab) \in Nat, Runs \subseteq RunsOf(vocab)
    PROVE  \E m \in ApartRuns : MergedRuns = {m[n] : n \in 1 .. Len(m)}
<1> DEFINE U == Runs
           latest(s) == CHOOSE r \in s : \A q \in s : q = r \/ Before(q, r)
           pick == [s \in SUBSET U |-> latest(s)]
           step == [x \in (SUBSET U) \X ApartRuns |-> Merge(x[2], latest(x[1]))]
           IsMerge(f) == f = [s \in SUBSET U |-> IF s = {} THEN <<>> ELSE Merge(f[s \ {latest(s)}], latest(s))]
           merge == CHOOSE f : IsMerge(f)
<1>1. IsFiniteSet(U)
  BY RunsAreFinite, FS_Subset
<1>2. \A s \in SUBSET U : s # {} => latest(s) \in s
  <2>1. ASSUME NEW s \in SUBSET U, s # {}
        PROVE  \E r \in s : \A q \in s : q = r \/ Before(q, r)
    BY <2>1, LastRun
  <2> QED
    BY <2>1
<1>3. \A s \in SUBSET U, m \in ApartRuns : step[<<s, m>>] = Merge(m, latest(s))
  <2> HIDE DEF latest
  <2> QED
    OBVIOUS
<1>4. \A s \in SUBSET U : pick[s] = latest(s)
  <2> HIDE DEF latest
  <2> QED
    OBVIOUS
<1> HIDE DEF latest, pick, step
<1>5. Picks(pick, U)
  BY <1>2, <1>4 DEF Picks
<1>6. ASSUME NEW s \in SUBSET U, NEW m \in ApartRuns, s # {}
      PROVE  step[<<s, m>>] \in ApartRuns
  <2>1. latest(s) \in RunsOf(vocab)
    BY <1>2, <1>6
  <2> QED
    BY <1>3, <2>1, MergeStaysApart
<1>7. <<>> \in ApartRuns
  BY DEF ApartRuns, Apart
<1>8. PICK f \in [SUBSET U -> ApartRuns] : IsFold(f, U, <<>>, pick, step)
  <2>1. \A s \in SUBSET U, m \in ApartRuns : s # {} => step[<<s, m>>] \in ApartRuns
    BY <1>6
  <2> HIDE DEF U
  <2> QED
    BY <1>1, <1>5, <1>7, <2>1, FoldExists
<1>9. IsMerge(f)
  <2> DEFINE rhs(s) == IF s = {} THEN <<>> ELSE step[<<s, f[s \ {pick[s]}]>>]
             goal(s) == IF s = {} THEN <<>> ELSE Merge(f[s \ {latest(s)}], latest(s))
  <2>1. f = [s \in SUBSET U |-> rhs(s)]
    BY <1>8 DEF IsFold
  <2>2. ASSUME NEW s \in SUBSET U
        PROVE  rhs(s) = goal(s)
    <3>1. s \ {pick[s]} \in SUBSET U
      OBVIOUS
    <3>2. f[s \ {pick[s]}] \in ApartRuns
      BY <1>8, <3>1
    <3> QED
      BY <1>3, <1>4, <3>2
  <2> HIDE DEF rhs, goal
  <2>3. f = [s \in SUBSET U |-> goal(s)]
    BY <2>1, <2>2
  <2> QED
    BY <2>3 DEF goal
<1>10. IsMerge(merge)
  <2> HIDE DEF IsMerge
  <2> QED
    BY <1>9
<1>11. MergedRuns = {merge[U][n] : n \in 1 .. Len(merge[U])}
  BY DEF MergedRuns, latest
<1> HIDE DEF merge
<1> DEFINE goal(s) == IF s = {} THEN <<>> ELSE Merge(merge[s \ {latest(s)}], latest(s))
           S == {s \in SUBSET U : merge[s] \in ApartRuns}
<1>12. \A s \in SUBSET U : merge[s] = goal(s)
  <2>1. merge = [s \in SUBSET U |-> goal(s)]
    BY <1>10
  <2> HIDE DEF goal
  <2> QED
    BY <2>1
<1>13. {} \in S
  BY <1>7, <1>12
<1>14. ASSUME NEW s \in SUBSET U, s # {}, s \ {pick[s]} \in S
       PROVE  s \in S
  <2>1. latest(s) \in RunsOf(vocab)
    BY <1>2, <1>14
  <2>2. merge[s \ {latest(s)}] \in ApartRuns
    BY <1>4, <1>14
  <2>3. merge[s] = Merge(merge[s \ {latest(s)}], latest(s))
    BY <1>12, <1>14
  <2> QED
    BY <2>1, <2>2, <2>3, MergeStaysApart
<1> HIDE DEF S, U, goal
<1>15. \A s \in SUBSET U : s \in S
  BY <1>1, <1>5, <1>13, <1>14, FoldInduction
<1>16. merge[U] \in ApartRuns
  BY <1>15 DEF S
<1> QED
  BY <1>11, <1>16

-----------------------------------------------------------------------------
(***************************************************************************)
(* The frequency index.                                                    *)
(***************************************************************************)

\* Prefix counts of the tokens of a dictionary.
CountsOf(i, size) ==
    /\ i \in Seq(Nat) /\ Len(i) = size + 1 /\ i[1] = 0
    /\ \A e \in 1 .. size : i[e] <= i[e + 1]

HitsIn(codes, S) == {n \in DOMAIN codes : codes[n] \in S}

CountBelow(codes, t) == Cardinality({n \in DOMAIN codes : codes[n] < t})

LEMMA HitsAreFinite ==
    ASSUME NEW codes \in Seq(Nat), NEW S \in SUBSET DOMAIN codes
    PROVE  IsFiniteSet(S) /\ Cardinality(S) \in Nat
<1>1. IsFiniteSet(DOMAIN codes)
  <2>1. DOMAIN codes = 1 .. Len(codes) /\ Len(codes) \in Nat
    OBVIOUS
  <2> QED
    BY <2>1, FS_Interval
<1>2. IsFiniteSet(S)
  BY <1>1, FS_Subset
<1> QED
  BY <1>2, FS_CardinalityType

\* Two parts that have nothing in common.
LEMMA PartsAddUp ==
    ASSUME NEW codes \in Seq(Nat), NEW A \in SUBSET DOMAIN codes, NEW B \in SUBSET DOMAIN codes,
           A \cap B = {}
    PROVE  Cardinality(A \cup B) = Cardinality(A) + Cardinality(B)
<1>1. IsFiniteSet(A) /\ IsFiniteSet(B) /\ Cardinality(A) \in Nat /\ Cardinality(B) \in Nat
  BY HitsAreFinite
<1>2. Cardinality(A \cup B) = Cardinality(A) + Cardinality(B) - Cardinality(A \cap B)
  BY <1>1, FS_Union
<1>3. Cardinality(A \cap B) = 0
  BY FS_EmptySet
<1> QED
  BY <1>1, <1>2, <1>3

\* An index that is built counts the codes below each token.
LEMMA BuildCounts ==
    ASSUME NEW codes \in Seq(Nat), NEW size \in Nat, build(codes, size) # Refused
    PROVE  /\ CountsOf(build(codes, size), size)
           /\ \A t \in 0 .. size : build(codes, size)[t + 1] = CountBelow(codes, t)
<1> DEFINE count(e) == Cardinality({n \in DOMAIN codes : codes[n] + 2 = e})
           D == 1 .. size + 1
           IsBuilt(f) == f = [e \in D |-> count(e) + (IF e = 1 THEN 0 ELSE f[e - 1])]
           sums == CHOOSE f : IsBuilt(f)
           below == [e \in D |-> CountBelow(codes, e - 1)]
<1>1. build(codes, size) = sums
  BY DEF build
<1>2. \A n \in DOMAIN codes : codes[n] \in Nat
  BY ElementOfSeq
<1>3. ASSUME NEW e \in D
      PROVE  count(e) \in Nat /\ CountBelow(codes, e - 1) \in Nat
  BY HitsAreFinite DEF CountBelow
<1>4. ASSUME NEW e \in D, e # 1
      PROVE  CountBelow(codes, e - 1) = count(e) + CountBelow(codes, (e - 1) - 1)
  <2> DEFINE A == {n \in DOMAIN codes : codes[n] + 2 = e}
             B == {n \in DOMAIN codes : codes[n] < (e - 1) - 1}
  <2>1. A \cap B = {} /\ A \cup B = {n \in DOMAIN codes : codes[n] < e - 1}
    <3>1. \A n \in DOMAIN codes : /\ ~(codes[n] + 2 = e /\ codes[n] < (e - 1) - 1)
                                 /\ (codes[n] + 2 = e \/ codes[n] < (e - 1) - 1) <=> codes[n] < e - 1
      BY <1>2
    <3> QED
      BY <3>1
  <2>2. A \in SUBSET DOMAIN codes /\ B \in SUBSET DOMAIN codes
    OBVIOUS
  <2> HIDE DEF A, B
  <2>3. Cardinality(A \cup B) = Cardinality(A) + Cardinality(B)
    BY <2>1, <2>2, PartsAddUp
  <2> QED
    BY <2>1, <2>3 DEF A, B, CountBelow
<1>5. CountBelow(codes, 0) = 0 /\ count(1) = 0
  <2>1. {n \in DOMAIN codes : codes[n] < 0} = {} /\ {n \in DOMAIN codes : codes[n] + 2 = 1} = {}
    BY <1>2
  <2> QED
    BY <2>1, FS_EmptySet DEF CountBelow
<1> HIDE DEF count
<1>6. \A e \in D : below[e] = CountBelow(codes, e - 1)
  OBVIOUS
<1> DEFINE rhs(f, e) == count(e) + (IF e = 1 THEN 0 ELSE f[e - 1])
<1>7. ASSUME NEW e \in D
      PROVE  below[e] = rhs(below, e)
  <2>1. CASE e = 1
    <3>1. below[1] = CountBelow(codes, 0)
      BY <1>6, <2>1
    <3>2. count(1) + 0 = 0
      BY <1>5
    <3> QED
      BY <1>5, <2>1, <3>1, <3>2
  <2>2. CASE e # 1
    <3>1. e - 1 \in D
      BY <2>2
    <3>2. below[e - 1] = CountBelow(codes, (e - 1) - 1)
      BY <1>6, <3>1
    <3> QED
      BY <1>4, <1>6, <2>2, <3>2
  <2> QED
    BY <2>1, <2>2
<1>8. IsBuilt(below)
  <2>1. below = [e \in D |-> below[e]]
    OBVIOUS
  <2> HIDE DEF below, rhs
  <2>2. below = [e \in D |-> rhs(below, e)]
    BY <1>7, <2>1
  <2> QED
    BY <2>2 DEF rhs
<1>9. IsBuilt(sums)
  <2> HIDE DEF IsBuilt
  <2> QED
    BY <1>8
<1> HIDE DEF sums, below
<1>10. sums = [e \in D |-> rhs(sums, e)]
  BY <1>9
<1>11. \A e \in D : sums[e] = rhs(sums, e)
  <2> HIDE DEF rhs
  <2> QED
    BY <1>10
<1> DEFINE S == {t \in 0 .. size : sums[t + 1] = CountBelow(codes, t)}
<1>12. 0 \in S
  <2>1. sums[1] = count(1) + 0
    BY <1>11
  <2>2. 0 + 1 = 1 /\ 0 \in 0 .. size
    OBVIOUS
  <2> QED
    BY <1>5, <2>1, <2>2
<1>13. ASSUME NEW t \in 0 .. size - 1, t \in S
       PROVE  t + 1 \in S
  <2>1. /\ t + 1 \in 0 .. size /\ (t + 1) + 1 \in D /\ (t + 1) + 1 # 1
        /\ ((t + 1) + 1) - 1 = t + 1 /\ (((t + 1) + 1) - 1) - 1 = t
    OBVIOUS
  <2>2. sums[(t + 1) + 1] = count((t + 1) + 1) + sums[t + 1]
    BY <1>11, <2>1
  <2>3. CountBelow(codes, t + 1) = count((t + 1) + 1) + CountBelow(codes, t)
    BY <1>4, <2>1
  <2> QED
    BY <1>13, <2>1, <2>2, <2>3
<1>14. \A t \in 0 .. size : t \in S
  <2> HIDE DEF S
  <2> QED
    BY <1>12, <1>13, UpwardInduction
<1>15. \A t \in 0 .. size : sums[t + 1] = CountBelow(codes, t) /\ sums[t + 1] \in Nat
  <2>1. \A t \in 0 .. size : t + 1 \in D /\ (t + 1) - 1 = t
    OBVIOUS
  <2> QED
    BY <1>3, <1>14, <2>1
<1>16. sums \in [1 .. size + 1 -> Nat]
  <2>1. \A e \in D : sums[e] \in Nat
    <3>1. \A e \in D : e - 1 \in 0 .. size /\ (e - 1) + 1 = e
      OBVIOUS
    <3> QED
      BY <1>15, <3>1
  <2>2. sums = [e \in D |-> sums[e]]
    <3> HIDE DEF rhs, D
    <3> QED
      BY <1>10
  <2> QED
    BY <2>1, <2>2
<1>17. sums \in Seq(Nat) /\ Len(sums) = size + 1
  BY <1>16
<1>18. sums[1] = 0
  <2>1. 0 \in 0 .. size /\ 0 + 1 = 1
    OBVIOUS
  <2> QED
    BY <1>5, <1>15, <2>1
<1>19. ASSUME NEW e \in 1 .. size
       PROVE  sums[e] <= sums[e + 1]
  <2>1. e + 1 \in D /\ e + 1 # 1 /\ (e + 1) - 1 = e /\ e \in D
    OBVIOUS
  <2>2. sums[e + 1] = count(e + 1) + sums[e]
    BY <1>11, <2>1
  <2>3. count(e + 1) \in Nat /\ sums[e] \in Nat
    BY <1>3, <1>16, <2>1
  <2> QED
    BY <2>2, <2>3
<1> QED
  BY <1>1, <1>15, <1>17, <1>18, <1>19 DEF CountsOf

\* The counts ascend.
LEMMA CountsAscend ==
    ASSUME NEW i, NEW size \in Nat, CountsOf(i, size),
           NEW a \in 1 .. size + 1, NEW b \in a .. size + 1
    PROVE  i[a] \in Nat /\ i[b] \in Nat /\ i[a] <= i[b]
<1> DEFINE S == {n \in 0 .. size : a + n <= size + 1 => i[a] <= i[a + n]}
<1>1. \A e \in 1 .. size + 1 : i[e] \in Nat
  BY ElementOfSeq DEF CountsOf
<1>2. 0 \in S
  <2>1. a + 0 = a /\ i[a] \in Nat /\ 0 \in 0 .. size
    BY <1>1
  <2> QED
    BY <2>1
<1>3. ASSUME NEW n \in 0 .. size - 1, n \in S
      PROVE  n + 1 \in S
  <2>1. ASSUME a + (n + 1) <= size + 1
        PROVE  i[a] <= i[a + (n + 1)]
    <3>1. a + n \in 1 .. size /\ a + (n + 1) = (a + n) + 1 /\ a + n <= size + 1 /\ (a + n) + 1 \in 1 .. size + 1
          /\ a + n \in 1 .. size + 1
      BY <2>1
    <3>2. i[a] <= i[a + n]
      BY <1>3, <3>1
    <3>3. i[a + n] <= i[(a + n) + 1]
      BY <3>1 DEF CountsOf
    <3>4. i[a] \in Nat /\ i[a + n] \in Nat /\ i[(a + n) + 1] \in Nat
      BY <1>1, <3>1
    <3> QED
      BY <3>1, <3>2, <3>3, <3>4
  <2> QED
    BY <2>1
<1>4. \A n \in 0 .. size : n \in S
  <2> HIDE DEF S
  <2> QED
    BY <1>2, <1>3, UpwardInduction
<1>5. b - a \in 0 .. size /\ a + (b - a) = b /\ b <= size + 1 /\ b \in 1 .. size + 1
  OBVIOUS
<1>6. b - a \in S
  BY <1>4, <1>5
<1>7. i[a] <= i[b]
  BY <1>5, <1>6
<1> QED
  BY <1>1, <1>5, <1>7

-----------------------------------------------------------------------------
(***************************************************************************)
(* Sums of frequencies.                                                    *)
(***************************************************************************)

\* Two disjoint sets add up.
LEMMA SumSplits ==
    ASSUME NEW U, IsFiniteSet(U), NEW w, Weighs(w, U), NEW g, IsSum(g, U, w),
           NEW A \in SUBSET U, NEW B \in SUBSET U, A \cap B = {}
    PROVE  g[A \cup B] = g[A] + g[B]
<1> DEFINE pick == [s \in SUBSET B |-> AnyOf(s)]
           S == {s \in SUBSET B : g[A \cup s] = g[A] + g[s]}
<1>1. IsFiniteSet(B)
  BY FS_Subset
<1>2. \A s \in SUBSET B : pick[s] = AnyOf(s)
  OBVIOUS
<1>3. Picks(pick, B)
  BY <1>2, AnyIsIn DEF Picks
<1>4. \A s \in SUBSET U : g[s] \in Int
  BY SumTyped
<1>5. {} \in S
  <2>1. g[{}] = 0
    BY SumUnfolds
  <2>2. A \cup {} = A /\ g[A] \in Int
    BY <1>4
  <2> QED
    BY <2>1, <2>2
<1>6. ASSUME NEW s \in SUBSET B, s # {}, s \ {pick[s]} \in S
      PROVE  s \in S
  <2> DEFINE y == AnyOf(s)
             r == s \ {y}
  <2>1. y \in s
    BY <1>6, AnyIsIn
  <2> HIDE DEF y
  <2>2. pick[s] = y
    BY <1>2 DEF y
  <2>3. /\ r \in SUBSET U /\ A \cup r \in SUBSET U /\ y \in U /\ y \notin r /\ y \notin A \cup r
        /\ r \cup {y} = s /\ (A \cup r) \cup {y} = A \cup s
    BY <2>1
  <2>4. g[A \cup r] = g[A] + g[r]
    BY <1>6, <2>2
  <2> HIDE DEF r
  <2>5. g[s] = g[r] + w[y]
    BY <2>3, SumAdds
  <2>6. g[A \cup s] = g[A \cup r] + w[y]
    BY <2>3, SumAdds
  <2>7. g[A] \in Int /\ g[r] \in Int /\ w[y] \in Int
    BY <1>4, <2>3 DEF Weighs
  <2>8. g[A \cup s] = g[A] + g[s]
    BY <2>4, <2>5, <2>6, <2>7
  <2> QED
    BY <2>8
<1> HIDE DEF pick, S
<1>7. \A s \in SUBSET B : s \in S
  BY <1>1, <1>3, <1>5, <1>6, FoldInduction
<1>8. B \in S
  BY <1>7
<1> QED
  BY <1>8 DEF S

Frequencies(i, v) == [t \in Ids(v) |-> frequency(i, t)]

LEMMA FrequenciesAre ==
    ASSUME NEW i, NEW v, Len(v) \in Nat, CountsOf(i, Len(v))
    PROVE  /\ IsFiniteSet(Ids(v)) /\ Weighs(Frequencies(i, v), Ids(v))
           /\ \A t \in Ids(v) : /\ Frequencies(i, v)[t] = i[t + 2] - i[t + 1]
                                /\ i[t + 1] \in Nat /\ i[t + 2] \in Nat /\ i[t + 1] <= i[t + 2]
<1>1. IsFiniteSet(Ids(v))
  BY FS_Interval DEF Ids
<1>2. ASSUME NEW t \in Ids(v)
      PROVE  /\ Frequencies(i, v)[t] = i[t + 2] - i[t + 1]
             /\ i[t + 1] \in Nat /\ i[t + 2] \in Nat /\ i[t + 1] <= i[t + 2]
  <2>1. t + 1 \in 1 .. Len(v) + 1 /\ t + 2 \in t + 1 .. Len(v) + 1
    BY DEF Ids
  <2>2. i[t + 1] \in Nat /\ i[t + 2] \in Nat /\ i[t + 1] <= i[t + 2]
    BY <2>1, CountsAscend
  <2> QED
    BY <2>2 DEF Frequencies, frequency
<1>3. Weighs(Frequencies(i, v), Ids(v))
  BY <1>2 DEF Weighs
<1> QED
  BY <1>1, <1>2, <1>3

\* The sum of a run is a difference of two counts.
LEMMA SumOfRun ==
    ASSUME NEW i, NEW v, Len(v) \in Nat, CountsOf(i, Len(v)),
           NEW g, IsSum(g, Ids(v), Frequencies(i, v)),
           NEW a \in Ids(v), NEW b \in Ids(v), a <= b
    PROVE  g[a .. b] = i[b + 2] - i[a + 1]
<1> DEFINE w == Frequencies(i, v)
           U == Ids(v)
           S == {n \in 0 .. Len(v) : a + n <= b => g[a .. a + n] = i[a + n + 2] - i[a + 1]}
<1>1. /\ IsFiniteSet(U) /\ Weighs(w, U) /\ IsSum(g, U, w)
      /\ \A t \in U : /\ w[t] = i[t + 2] - i[t + 1] /\ i[t + 1] \in Nat /\ i[t + 2] \in Nat
  BY FrequenciesAre
<1>2. a \in Nat /\ b \in Nat /\ b < Len(v)
  BY DEF Ids
<1> HIDE DEF w, U
<1>3. ASSUME NEW s \in SUBSET U, NEW y \in U, y \notin s
      PROVE  g[s \cup {y}] = g[s] + w[y]
  BY <1>1, <1>3, SumAdds
<1>4. 0 \in S
  <2>1. a .. a + 0 = {a} /\ {} \cup {a} = {a} /\ {} \in SUBSET U /\ a \notin {} /\ a + 0 + 2 = a + 2
    BY <1>2
  <2>2. g[{} \cup {a}] = g[{}] + w[a]
    BY <1>3, <2>1 DEF U
  <2>3. g[{}] = 0
    BY SumUnfolds
  <2>4. w[a] = i[a + 2] - i[a + 1] /\ i[a + 1] \in Nat /\ i[a + 2] \in Nat
    BY <1>1 DEF U
  <2>5. g[{a}] = 0 + (i[a + 2] - i[a + 1])
    BY <2>1, <2>2, <2>3, <2>4
  <2>6. 0 + (i[a + 2] - i[a + 1]) = i[a + 2] - i[a + 1]
    BY <2>4
  <2>7. g[a .. a + 0] = i[a + 0 + 2] - i[a + 1]
    BY <2>1, <2>5, <2>6
  <2> QED
    BY <2>7
<1>5. ASSUME NEW n \in 0 .. Len(v) - 1, n \in S
      PROVE  n + 1 \in S
  <2>1. ASSUME a + (n + 1) <= b
        PROVE  g[a .. a + (n + 1)] = i[a + (n + 1) + 2] - i[a + 1]
    <3> DEFINE y == a + (n + 1)
               A == a .. a + n
    <3>1. /\ y \in Nat /\ y <= b /\ y = a + n + 1 /\ y + 1 = a + n + 2
          /\ a .. y = A \cup {y} /\ y \notin A /\ a + n <= b
      BY <1>2, <2>1
    <3>2. y \in U /\ A \in SUBSET U
      BY <1>2, <3>1 DEF Ids, U
    <3>3. g[A] = i[y + 1] - i[a + 1]
      BY <1>5, <3>1
    <3> HIDE DEF A, y
    <3>4. g[A \cup {y}] = g[A] + w[y]
      BY <1>3, <3>1, <3>2
    <3>5. w[y] = i[y + 2] - i[y + 1] /\ i[y + 1] \in Nat /\ i[y + 2] \in Nat /\ i[a + 1] \in Nat
      BY <1>1, <3>2 DEF U
    <3>6. ASSUME NEW p \in Nat, NEW q \in Nat, NEW r \in Nat
          PROVE  (p - q) + (r - p) = r - q
      OBVIOUS
    <3>7. g[a .. y] = (i[y + 1] - i[a + 1]) + (i[y + 2] - i[y + 1])
      BY <3>1, <3>3, <3>4, <3>5
    <3>8. g[a .. y] = i[y + 2] - i[a + 1]
      BY <3>5, <3>6, <3>7
    <3> QED
      BY <3>8 DEF y
  <2>2. n + 1 \in 0 .. Len(v)
    OBVIOUS
  <2> QED
    BY <2>1, <2>2
<1>6. \A n \in 0 .. Len(v) : n \in S
  <2> HIDE DEF S
  <2> QED
    BY <1>4, <1>5, UpwardInduction
<1>7. b - a \in 0 .. Len(v) /\ a + (b - a) = b
  BY <1>2
<1>8. b - a \in S
  BY <1>6, <1>7
<1> QED
  BY <1>2, <1>7, <1>8

-----------------------------------------------------------------------------
(***************************************************************************)
(* Runs that are apart count every token once.                             *)
(***************************************************************************)

LEMMA RunFacts ==
    ASSUME Len(vocab) \in Nat, NEW m \in ApartRuns
    PROVE  /\ Len(m) \in Nat
           /\ \A n \in 1 .. Len(m) :
                /\ m[n] \in RunsOf(vocab) /\ m[n].begin \in Ids(vocab) /\ m[n].last \in Ids(vocab)
                /\ m[n].begin \in Nat /\ m[n].last \in Nat /\ m[n].begin <= m[n].last
<1>1. m \in Seq(RunsOf(vocab)) /\ Len(m) \in Nat
  BY DEF ApartRuns
<1>2. \A n \in 1 .. Len(m) : m[n] \in RunsOf(vocab)
  BY <1>1
<1>3. \A r \in RunsOf(vocab) : /\ r.begin \in Ids(vocab) /\ r.last \in Ids(vocab)
                               /\ r.begin \in Nat /\ r.last \in Nat /\ r.begin <= r.last
  BY DEF RunsOf, Ids
<1> QED
  BY <1>1, <1>2, <1>3

\* A run lies behind all the runs before it.
LEMMA RunsAscend ==
    ASSUME Len(vocab) \in Nat, NEW m \in ApartRuns, NEW k \in 1 .. Len(m), NEW j \in 1 .. k - 1
    PROVE  m[j].last < m[k].begin
<1> DEFINE S == {n \in 1 .. Len(m) : j < n => m[j].last < m[n].begin}
           T == {n \in 0 .. Len(m) : n = 0 \/ n \in S}
<1>1. /\ Len(m) \in Nat /\ j \in Nat
      /\ \A n \in 1 .. Len(m) : m[n].begin \in Nat /\ m[n].last \in Nat /\ m[n].begin <= m[n].last
  BY RunFacts
<1>2. ASSUME NEW n \in 0 .. Len(m) - 1, n \in T
      PROVE  n + 1 \in T
  <2>1. n + 1 \in 1 .. Len(m) /\ n + 1 \in 0 .. Len(m)
    BY <1>1
  <2>2. ASSUME j < n + 1
        PROVE  m[j].last < m[n + 1].begin
    <3>1. n \in 1 .. Len(m) /\ n \in 1 .. Len(m) - 1 /\ j \in 1 .. Len(m)
      BY <1>1, <2>2
    <3>2. m[n].last + 1 < m[n + 1].begin
      BY <3>1 DEF ApartRuns, Apart
    <3>3. CASE j = n
      BY <1>1, <2>1, <3>1, <3>2, <3>3
    <3>4. CASE j # n
      <4>1. j < n /\ n \in S
        BY <1>1, <1>2, <2>2, <3>1, <3>4
      <4>2. m[j].last < m[n].begin
        BY <4>1
      <4> QED
        BY <1>1, <2>1, <3>1, <3>2, <4>2
    <3> QED
      BY <3>3, <3>4
  <2> QED
    BY <2>1, <2>2
<1>3. 0 \in T
  BY <1>1
<1>4. \A n \in 0 .. Len(m) : n \in T
  <2> HIDE DEF T
  <2> QED
    BY <1>1, <1>2, <1>3, UpwardInduction
<1>5. k \in 0 .. Len(m) /\ k # 0 /\ j < k
  BY <1>1
<1>6. k \in S
  BY <1>4, <1>5
<1> QED
  BY <1>5, <1>6

\* The first runs, and their tokens.
FirstRuns(m, k) == {m[n] : n \in 1 .. k}

TokensOfRuns(m, k) == UNION {m[n].begin .. m[n].last : n \in 1 .. k}

RangeFrequencies(i, runs) == [r \in runs |-> range_frequency(i, r.begin, r.last)]

\* One run more: it is another one, and none of its tokens is in those before.
LEMMA NextRun ==
    ASSUME Len(vocab) \in Nat, NEW m \in ApartRuns, NEW k \in 0 .. Len(m) - 1
    PROVE  LET run == m[k + 1]
               interval == run.begin .. run.last
           IN  /\ run \in RunsOf(vocab)
               /\ run.begin \in Ids(vocab) /\ run.last \in Ids(vocab) /\ run.begin <= run.last
               /\ FirstRuns(m, k + 1) = FirstRuns(m, k) \cup {run}
               /\ run \notin FirstRuns(m, k)
               /\ TokensOfRuns(m, k + 1) = TokensOfRuns(m, k) \cup interval
               /\ TokensOfRuns(m, k) \cap interval = {}
               /\ interval \in SUBSET Ids(vocab)
<1> DEFINE run == m[k + 1]
           interval == run.begin .. run.last
<1>1. /\ Len(m) \in Nat /\ k \in Nat /\ k + 1 \in 1 .. Len(m)
      /\ \A n \in 1 .. k + 1 : n \in 1 .. Len(m)
      /\ \A n : n \in 1 .. k + 1 <=> n \in 1 .. k \/ n = k + 1
  BY RunFacts
<1>2. \A n \in 1 .. k + 1 :
        /\ m[n] \in RunsOf(vocab) /\ m[n].begin \in Ids(vocab) /\ m[n].last \in Ids(vocab)
        /\ m[n].begin \in Nat /\ m[n].last \in Nat /\ m[n].begin <= m[n].last
  BY <1>1, RunFacts
<1>3. \A n \in 1 .. k : m[n].last < run.begin /\ n \in 1 .. k + 1
  <2>1. \A n \in 1 .. k : n \in 1 .. (k + 1) - 1 /\ n \in 1 .. k + 1
    BY <1>1
  <2> QED
    BY <1>1, <2>1, RunsAscend
<1>4. run \in RunsOf(vocab) /\ run.begin \in Ids(vocab) /\ run.last \in Ids(vocab) /\ run.begin <= run.last
      /\ run.begin \in Nat /\ run.last \in Nat
  BY <1>1, <1>2
<1>5. FirstRuns(m, k + 1) = FirstRuns(m, k) \cup {run}
  BY <1>1 DEF FirstRuns
<1>6. run \notin FirstRuns(m, k)
  <2>1. ASSUME NEW n \in 1 .. k
        PROVE  m[n] # run
    <3>1. m[n].last < run.begin /\ m[n].begin <= m[n].last /\ m[n].begin \in Nat /\ m[n].last \in Nat
      BY <1>2, <1>3
    <3> HIDE DEF run
    <3>2. m[n].begin # run.begin
      BY <1>4, <3>1
    <3> QED
      BY <3>2
  <2> HIDE DEF run
  <2> QED
    BY <2>1 DEF FirstRuns
<1>7. TokensOfRuns(m, k + 1) = TokensOfRuns(m, k) \cup interval
  BY <1>1 DEF TokensOfRuns
<1>8. TokensOfRuns(m, k) \cap interval = {}
  <2>1. ASSUME NEW n \in 1 .. k, NEW t \in m[n].begin .. m[n].last, t \in interval
        PROVE  FALSE
    <3>1. m[n].last < run.begin /\ m[n].begin \in Nat /\ m[n].last \in Nat
      BY <1>2, <1>3
    <3> QED
      BY <1>4, <2>1, <3>1
  <2> HIDE DEF interval
  <2> QED
    BY <2>1 DEF TokensOfRuns
<1>9. interval \in SUBSET Ids(vocab)
  BY <1>4 DEF Ids
<1> HIDE DEF run, interval
<1>10. /\ run \in RunsOf(vocab)
       /\ run.begin \in Ids(vocab) /\ run.last \in Ids(vocab) /\ run.begin <= run.last
       /\ FirstRuns(m, k + 1) = FirstRuns(m, k) \cup {run}
       /\ run \notin FirstRuns(m, k)
       /\ TokensOfRuns(m, k + 1) = TokensOfRuns(m, k) \cup interval
       /\ TokensOfRuns(m, k) \cap interval = {}
       /\ interval \in SUBSET Ids(vocab)
  BY <1>4, <1>5, <1>6, <1>7, <1>8, <1>9
<1> QED
  BY <1>10 DEF run, interval

\* So both ways to add up give the same, and no more than the counts of the tokens so far.
LEMMA RunsAddUp ==
    ASSUME Len(vocab) \in Nat, NEW m \in ApartRuns, NEW i, CountsOf(i, Len(vocab)),
           NEW g, IsSum(g, Ids(vocab), Frequencies(i, vocab)),
           NEW R, R = FirstRuns(m, Len(m)), NEW h, IsSum(h, R, RangeFrequencies(i, R)),
           NEW k \in 0 .. Len(m)
    PROVE  /\ FirstRuns(m, k) \in SUBSET R /\ TokensOfRuns(m, k) \in SUBSET Ids(vocab)
           /\ g[TokensOfRuns(m, k)] = h[FirstRuns(m, k)]
           /\ g[TokensOfRuns(m, k)] \in Nat
           /\ k > 0 => g[TokensOfRuns(m, k)] <= i[m[k].last + 2]
<1> DEFINE C(n) == TokensOfRuns(m, n)
           M(n) == FirstRuns(m, n)
           w == RangeFrequencies(i, R)
           Good(n) == /\ M(n) \in SUBSET R /\ C(n) \in SUBSET Ids(vocab)
                      /\ g[C(n)] = h[M(n)] /\ g[C(n)] \in Nat
                      /\ n > 0 => g[C(n)] <= i[m[n].last + 2]
           S == {n \in 0 .. Len(m) : Good(n)}
<1>1. /\ Len(m) \in Nat
      /\ \A n \in 1 .. Len(m) : m[n] \in RunsOf(vocab) /\ m[n] \in R
  BY RunFacts DEF FirstRuns
<1>2. R \subseteq RunsOf(vocab) /\ IsFiniteSet(R)
  <2>1. R \subseteq RunsOf(vocab)
    BY <1>1 DEF FirstRuns
  <2> QED
    BY <2>1, RunsAreFinite, FS_Subset
<1>3. ASSUME NEW r \in R
      PROVE  w[r] = i[r.last + 2] - i[r.begin + 1] /\ i[r.last + 2] \in Nat /\ i[r.begin + 1] \in Nat
             /\ i[r.begin + 1] <= i[r.last + 2]
  <2>1. r.begin \in Nat /\ r.last \in Nat /\ r.begin <= r.last /\ r.last < Len(vocab)
    BY <1>2 DEF RunsOf, Ids
  <2>2. r.begin + 1 \in 1 .. Len(vocab) + 1 /\ r.last + 2 \in r.begin + 1 .. Len(vocab) + 1
    BY <2>1
  <2>3. i[r.last + 2] \in Nat /\ i[r.begin + 1] \in Nat /\ i[r.begin + 1] <= i[r.last + 2]
    BY <2>2, CountsAscend
  <2> QED
    BY <2>3 DEF RangeFrequencies, range_frequency
<1>4. Weighs(w, R)
  BY <1>3 DEF Weighs
<1>5. IsFiniteSet(Ids(vocab)) /\ Weighs(Frequencies(i, vocab), Ids(vocab))
  BY FrequenciesAre
<1>6. 0 \in S
  <2>1. C(0) = {} /\ M(0) = {}
    <3>1. 1 .. 0 = {}
      OBVIOUS
    <3> QED
      BY <3>1 DEF TokensOfRuns, FirstRuns
  <2>2. g[{}] = 0
    BY ONLY IsSum(g, Ids(vocab), Frequencies(i, vocab)), SumUnfolds
  <2>3. h[{}] = 0
    BY ONLY IsSum(h, R, RangeFrequencies(i, R)), SumUnfolds
  <2>4. Good(0)
    <3>1. g[C(0)] = 0 /\ h[M(0)] = 0
      BY <2>1, <2>2, <2>3
    <3>2. C(0) \in SUBSET Ids(vocab) /\ M(0) \in SUBSET R
      BY <2>1
    <3> HIDE DEF C, M
    <3> QED
      BY <3>1, <3>2
  <2> HIDE DEF Good
  <2> QED
    BY <1>1, <2>4
<1>7. ASSUME NEW n \in 0 .. Len(m) - 1, n \in S
      PROVE  n + 1 \in S
  <2> DEFINE run == m[n + 1]
             interval == run.begin .. run.last
  <2>1. /\ run \in RunsOf(vocab)
        /\ run.begin \in Ids(vocab) /\ run.last \in Ids(vocab) /\ run.begin <= run.last
        /\ M(n + 1) = M(n) \cup {run} /\ run \notin M(n)
        /\ C(n + 1) = C(n) \cup interval /\ C(n) \cap interval = {}
        /\ interval \in SUBSET Ids(vocab)
    BY NextRun
  <2>2. run \in R /\ n + 1 \in 0 .. Len(m) /\ n + 1 \in 1 .. Len(m) /\ n \in 0 .. Len(m)
    BY <1>1
  <2>3. Good(n)
    BY <1>7
  <2>4. C(n) \in SUBSET Ids(vocab) /\ M(n) \in SUBSET R /\ g[C(n)] = h[M(n)] /\ g[C(n)] \in Nat
    BY <2>3
  <2>5. n > 0 => g[C(n)] <= i[m[n].last + 2]
    BY <2>3
  <2> HIDE DEF C, M, w, run, Good
  <2>6. g[C(n + 1)] = g[C(n)] + g[interval]
    <3> HIDE DEF interval
    <3> QED
      BY <1>5, <2>1, <2>4, SumSplits
  <2>7. g[interval] = i[run.last + 2] - i[run.begin + 1]
    BY <2>1, SumOfRun
  <2>8. h[M(n + 1)] = h[M(n)] + w[run]
    <3>1. IsSum(h, R, w)
      BY DEF w
    <3> QED
      BY <1>2, <1>4, <2>1, <2>2, <2>4, <3>1, SumAdds
  <2>9. w[run] = i[run.last + 2] - i[run.begin + 1] /\ i[run.last + 2] \in Nat
        /\ i[run.begin + 1] \in Nat /\ i[run.begin + 1] <= i[run.last + 2]
    BY <1>3, <2>2
  <2>10. g[C(n)] <= i[run.begin + 1]
    <3>1. CASE n = 0
      <4>1. C(0) = {}
        <5>1. 1 .. 0 = {}
          OBVIOUS
        <5> QED
          BY <5>1 DEF TokensOfRuns, C
      <4>2. g[{}] = 0
        BY ONLY IsSum(g, Ids(vocab), Frequencies(i, vocab)), SumUnfolds
      <4>3. g[C(n)] = 0
        BY <3>1, <4>1, <4>2
      <4> QED
        BY <2>9, <4>3
    <3>2. CASE n # 0
      <4>1. n \in 1 .. (n + 1) - 1 /\ n \in 1 .. Len(m) /\ n > 0
        BY <1>1, <3>2
      <4>2. m[n].last < run.begin
        BY <2>2, <4>1, RunsAscend DEF run
      <4>3. m[n].last \in Nat /\ run.begin \in Nat /\ run.begin < Len(vocab)
        BY <2>1, <4>1, RunFacts DEF Ids
      <4>4. m[n].last + 2 \in 1 .. Len(vocab) + 1 /\ run.begin + 1 \in m[n].last + 2 .. Len(vocab) + 1
        <5> DEFINE x == m[n].last
                   y == run.begin
                   z == Len(vocab)
        <5>1. x \in Nat /\ y \in Nat /\ z \in Nat /\ x < y /\ y < z
          BY <4>2, <4>3
        <5> HIDE DEF x, y, z
        <5>2. x + 2 \in 1 .. z + 1 /\ y + 1 \in x + 2 .. z + 1
          BY ONLY <5>1, SMT
        <5> QED
          BY <5>2 DEF x, y, z
      <4>5. i[m[n].last + 2] \in Nat /\ i[m[n].last + 2] <= i[run.begin + 1]
        BY <4>4, CountsAscend
      <4> QED
        BY <2>4, <2>5, <2>9, <4>1, <4>5
    <3> QED
      BY <3>1, <3>2
  <2>11. g[C(n + 1)] = h[M(n + 1)] /\ g[C(n + 1)] \in Nat /\ g[C(n + 1)] <= i[run.last + 2]
    <3> DEFINE a == g[C(n)]
               b == i[run.begin + 1]
               c == i[run.last + 2]
    <3>1. /\ g[C(n + 1)] = a + (c - b) /\ h[M(n + 1)] = a + (c - b)
          /\ a \in Nat /\ b \in Nat /\ c \in Nat /\ a <= b /\ b <= c
      BY <2>4, <2>6, <2>7, <2>8, <2>9, <2>10
    <3> HIDE DEF a, b, c
    <3>2. a + (c - b) \in Nat /\ a + (c - b) <= c
      BY <3>1
    <3> QED
      BY <3>1, <3>2 DEF c
  <2>12. M(n + 1) \in SUBSET R /\ C(n + 1) \in SUBSET Ids(vocab)
    BY <2>1, <2>2, <2>4
  <2>13. Good(n + 1)
    BY <2>11, <2>12 DEF Good, run
  <2> QED
    BY <2>2, <2>13
<1>8. \A n \in 0 .. Len(m) : n \in S
  <2> HIDE DEF S
  <2> QED
    BY <1>1, <1>6, <1>7, UpwardInduction
<1>9. Good(k)
  <2> HIDE DEF Good
  <2> QED
    BY <1>8
<1> QED
  BY <1>9

-----------------------------------------------------------------------------
(***************************************************************************)
(* With an index that was built, the sums count codes.                     *)
(***************************************************************************)

LEMMA HitsOfRun ==
    ASSUME NEW codes \in Seq(Nat), NEW size \in Nat, build(codes, size) # Refused,
           NEW a \in 0 .. size - 1, NEW b \in a .. size - 1
    PROVE  Cardinality(HitsIn(codes, a .. b)) = build(codes, size)[b + 2] - build(codes, size)[a + 1]
<1> DEFINE i == build(codes, size)
           A == {n \in DOMAIN codes : codes[n] < a}
           H == HitsIn(codes, a .. b)
<1>1. \A n \in DOMAIN codes : codes[n] \in Nat
  BY ElementOfSeq
<1>2. A \cap H = {} /\ A \cup H = {n \in DOMAIN codes : codes[n] < b + 1}
  <2>1. \A n \in DOMAIN codes : /\ ~(codes[n] < a /\ codes[n] \in a .. b)
                               /\ (codes[n] < a \/ codes[n] \in a .. b) <=> codes[n] < b + 1
    BY <1>1
  <2> QED
    BY <2>1 DEF HitsIn
<1>3. A \in SUBSET DOMAIN codes /\ H \in SUBSET DOMAIN codes
  BY DEF HitsIn
<1>4. Cardinality(A) = CountBelow(codes, a) /\ Cardinality(A \cup H) = CountBelow(codes, b + 1)
  BY <1>2 DEF CountBelow
<1> HIDE DEF A, H
<1>5. Cardinality(A \cup H) = Cardinality(A) + Cardinality(H)
      /\ Cardinality(A) \in Nat /\ Cardinality(H) \in Nat
  BY <1>2, <1>3, PartsAddUp, HitsAreFinite
<1>6. i[a + 1] = CountBelow(codes, a) /\ i[b + 2] = CountBelow(codes, b + 1)
  <2>1. a \in 0 .. size /\ b + 1 \in 0 .. size /\ (b + 1) + 1 = b + 2
    OBVIOUS
  <2> QED
    BY <2>1, BuildCounts
<1> HIDE DEF i
<1>7. Cardinality(H) = i[b + 2] - i[a + 1]
  BY <1>4, <1>5, <1>6
<1> QED
  BY <1>7 DEF i, H

LEMMA FrequenciesSplit ==
    ASSUME NEW i, NEW v, Len(v) \in Nat, CountsOf(i, Len(v)),
           NEW g, IsSum(g, Ids(v), Frequencies(i, v)),
           NEW A \in SUBSET Ids(v), NEW B \in SUBSET Ids(v), A \cap B = {}
    PROVE  g[A \cup B] = g[A] + g[B]
<1> DEFINE U == Ids(v)
           w == Frequencies(i, v)
<1>1. IsFiniteSet(U) /\ Weighs(w, U) /\ IsSum(g, U, w) /\ A \in SUBSET U /\ B \in SUBSET U
  BY FrequenciesAre
<1> HIDE DEF U, w
<1> QED
  BY <1>1, SumSplits

LEMMA HitsAddUp ==
    ASSUME Len(vocab) \in Nat, NEW m \in ApartRuns, NEW codes \in Seq(Nat),
           NEW i, i = build(codes, Len(vocab)), i # Refused,
           NEW g, IsSum(g, Ids(vocab), Frequencies(i, vocab)), NEW k \in 0 .. Len(m)
    PROVE  /\ TokensOfRuns(m, k) \in SUBSET Ids(vocab)
           /\ Cardinality(HitsIn(codes, TokensOfRuns(m, k))) = g[TokensOfRuns(m, k)]
<1> DEFINE C(n) == TokensOfRuns(m, n)
           Good(n) == C(n) \in SUBSET Ids(vocab) /\ Cardinality(HitsIn(codes, C(n))) = g[C(n)]
           S == {n \in 0 .. Len(m) : Good(n)}
<1>1. Len(m) \in Nat
  BY RunFacts
<1>2. CountsOf(i, Len(vocab))
  BY BuildCounts
<1>3. 0 \in S
  <2>1. C(0) = {}
    <3>1. 1 .. 0 = {}
      OBVIOUS
    <3> QED
      BY <3>1 DEF TokensOfRuns
  <2>2. g[{}] = 0
    BY ONLY IsSum(g, Ids(vocab), Frequencies(i, vocab)), SumUnfolds
  <2>3. HitsIn(codes, {}) = {}
    BY DEF HitsIn
  <2>4. Cardinality({}) = 0
    BY FS_EmptySet
  <2>5. Good(0)
    BY <2>1, <2>2, <2>3, <2>4
  <2> HIDE DEF Good
  <2> QED
    BY <1>1, <2>5
<1>4. ASSUME NEW n \in 0 .. Len(m) - 1, n \in S
      PROVE  n + 1 \in S
  <2> DEFINE run == m[n + 1]
             interval == run.begin .. run.last
  <2>1. /\ run.begin \in Ids(vocab) /\ run.last \in Ids(vocab) /\ run.begin <= run.last
        /\ C(n + 1) = C(n) \cup interval /\ C(n) \cap interval = {}
        /\ interval \in SUBSET Ids(vocab)
    BY NextRun
  <2>2. Good(n) /\ n + 1 \in 0 .. Len(m)
    BY <1>1, <1>4
  <2>3. C(n) \in SUBSET Ids(vocab) /\ Cardinality(HitsIn(codes, C(n))) = g[C(n)]
    BY <2>2
  <2>4. run.begin \in 0 .. Len(vocab) - 1 /\ run.last \in run.begin .. Len(vocab) - 1
    BY <2>1 DEF Ids
  <2> HIDE DEF C, run, Good
  <2>5. Cardinality(HitsIn(codes, interval)) = i[run.last + 2] - i[run.begin + 1]
    BY <2>4, HitsOfRun
  <2>6. g[interval] = i[run.last + 2] - i[run.begin + 1]
    BY <1>2, <2>1, SumOfRun
  <2> HIDE DEF interval
  <2>7. g[C(n + 1)] = g[C(n)] + g[interval]
    <3>1. C(n) \cap interval = {}
      BY <2>1
    <3>2. g[C(n) \cup interval] = g[C(n)] + g[interval]
      BY <1>2, <2>1, <2>3, <3>1, FrequenciesSplit
    <3> QED
      BY <2>1, <3>2
  <2>8. Cardinality(HitsIn(codes, C(n + 1))) =
            Cardinality(HitsIn(codes, C(n))) + Cardinality(HitsIn(codes, interval))
    <3> DEFINE A == HitsIn(codes, C(n))
               B == HitsIn(codes, interval)
    <3>1. A \in SUBSET DOMAIN codes /\ B \in SUBSET DOMAIN codes /\ A \cap B = {}
          /\ HitsIn(codes, C(n + 1)) = A \cup B
      BY <2>1 DEF HitsIn
    <3> HIDE DEF A, B
    <3>2. Cardinality(A \cup B) = Cardinality(A) + Cardinality(B)
      BY <3>1, PartsAddUp
    <3> QED
      BY <3>1, <3>2 DEF A, B
  <2>9. C(n + 1) \in SUBSET Ids(vocab)
    BY <2>1, <2>3
  <2>10. Cardinality(HitsIn(codes, C(n + 1))) = g[C(n + 1)]
    BY <2>3, <2>5, <2>6, <2>7, <2>8
  <2>11. Good(n + 1)
    BY <2>9, <2>10 DEF Good
  <2> QED
    BY <2>2, <2>11
<1>5. \A n \in 0 .. Len(m) : n \in S
  <2> HIDE DEF S
  <2> QED
    BY <1>1, <1>3, <1>4, UpwardInduction
<1>6. Good(k)
  <2> HIDE DEF Good
  <2> QED
    BY <1>5
<1> QED
  BY <1>6

-----------------------------------------------------------------------------
(***************************************************************************)
(* The sums of the model: over the tokens of the cover, over its points    *)
(* and over its other runs.                                                *)
(***************************************************************************)

TokenSum(i, T) == Sets!MapThenSumSet(LAMBDA t : frequency(i, t), T)
RangeSum(i, T) == Sets!MapThenSumSet(LAMBDA run : range_frequency(i, run.begin, run.last), T)
PointSum(i, T) == Sets!MapThenSumSet(LAMBDA run : frequency(i, run.begin), T)

\* A sum that begins anywhere agrees with those over a larger set.
LEMMA SumBelow ==
    ASSUME NEW U, IsFiniteSet(U), NEW w, Weighs(w, U), NEW g, IsSum(g, U, w),
           NEW T \in SUBSET U, NEW sum, sum = CHOOSE f : IsSum(f, T, w)
    PROVE  sum[T] = g[T]
<1>1. IsFiniteSet(T) /\ Weighs(w, T)
  BY FS_Subset DEF Weighs
<1>2. IsSum(sum, T, w)
  <2>1. \E f : IsSum(f, T, w)
    BY <1>1, SumExists
  <2> QED
    BY <2>1
<1>3. \A s \in SUBSET T : g[s] = sum[s]
  BY <1>1, <1>2, SumAgrees
<1> QED
  BY <1>3

LEMMA SumOfTokens ==
    ASSUME NEW i, NEW v, Len(v) \in Nat, CountsOf(i, Len(v)),
           NEW g, IsSum(g, Ids(v), Frequencies(i, v)), NEW T \in SUBSET Ids(v)
    PROVE  TokenSum(i, T) = g[T]
<1> DEFINE U == Ids(v)
           w == Frequencies(i, v)
           of(f, s) == IF s = {} THEN 0 ELSE frequency(i, AnyOf(s)) + f[s \ {AnyOf(s)}]
           as(f, s) == IF s = {} THEN 0 ELSE w[AnyOf(s)] + f[s \ {AnyOf(s)}]
           sum == CHOOSE f : f = [s \in SUBSET T |-> of(f, s)]
<1>1. TokenSum(i, T) = sum[T]
  BY DEF TokenSum, Sets!MapThenSumSet, Sets!MapThenFoldSet, AnyOf
<1>2. IsFiniteSet(U) /\ Weighs(w, U)
  BY FrequenciesAre
<1>3. ASSUME NEW s \in SUBSET T, NEW f
      PROVE  of(f, s) = as(f, s)
  <2>1. CASE s # {}
    <3>1. AnyOf(s) \in U
      BY <2>1, AnyIsIn
    <3>2. w[AnyOf(s)] = frequency(i, AnyOf(s))
      BY <3>1 DEF Frequencies
    <3> QED
      BY <3>2
  <2> QED
    BY <2>1
<1>4. ASSUME NEW f
      PROVE  [s \in SUBSET T |-> of(f, s)] = [s \in SUBSET T |-> as(f, s)]
  <2> HIDE DEF of, as
  <2> QED
    BY <1>3
<1>5. sum = CHOOSE f : IsSum(f, T, w)
  <2>1. \A f : (f = [s \in SUBSET T |-> of(f, s)]) <=> IsSum(f, T, w)
    <3> HIDE DEF of
    <3> QED
      BY <1>4 DEF IsSum
  <2> HIDE DEF of, w
  <2> QED
    BY <2>1
<1>6. T \in SUBSET U /\ IsSum(g, U, w)
  OBVIOUS
<1> HIDE DEF sum, U, w
<1>7. sum[T] = g[T]
  BY <1>2, <1>5, <1>6, SumBelow
<1> QED
  BY <1>1, <1>7

LEMMA RangeFrequenciesAre ==
    ASSUME Len(vocab) \in Nat, NEW R \in SUBSET RunsOf(vocab), NEW i, CountsOf(i, Len(vocab))
    PROVE  IsFiniteSet(R) /\ Weighs(RangeFrequencies(i, R), R)
<1>1. IsFiniteSet(R)
  BY RunsAreFinite, FS_Subset
<1>2. ASSUME NEW r \in R
      PROVE  RangeFrequencies(i, R)[r] \in Int
  <2>1. r.begin \in Nat /\ r.last \in Nat /\ r.begin <= r.last /\ r.last < Len(vocab)
    BY DEF RunsOf, Ids
  <2>2. r.begin + 1 \in 1 .. Len(vocab) + 1 /\ r.last + 2 \in r.begin + 1 .. Len(vocab) + 1
    BY <2>1
  <2>3. i[r.last + 2] \in Nat /\ i[r.begin + 1] \in Nat
    BY <2>2, CountsAscend
  <2> QED
    BY <2>3 DEF RangeFrequencies, range_frequency
<1> QED
  BY <1>1, <1>2 DEF Weighs

LEMMA SumOfRanges ==
    ASSUME Len(vocab) \in Nat, NEW R \in SUBSET RunsOf(vocab), NEW i, CountsOf(i, Len(vocab)),
           NEW h, IsSum(h, R, RangeFrequencies(i, R)), NEW T \in SUBSET R
    PROVE  RangeSum(i, T) = h[T]
<1> DEFINE w == RangeFrequencies(i, R)
           of(f, s) == IF s = {} THEN 0
                       ELSE range_frequency(i, AnyOf(s).begin, AnyOf(s).last) + f[s \ {AnyOf(s)}]
           as(f, s) == IF s = {} THEN 0 ELSE w[AnyOf(s)] + f[s \ {AnyOf(s)}]
           sum == CHOOSE f : f = [s \in SUBSET T |-> of(f, s)]
<1>1. RangeSum(i, T) = sum[T]
  BY DEF RangeSum, Sets!MapThenSumSet, Sets!MapThenFoldSet, AnyOf
<1>2. IsFiniteSet(R) /\ Weighs(w, R)
  BY RangeFrequenciesAre
<1>3. ASSUME NEW s \in SUBSET T, NEW f
      PROVE  of(f, s) = as(f, s)
  <2>1. CASE s # {}
    <3>1. AnyOf(s) \in R
      BY <2>1, AnyIsIn
    <3>2. w[AnyOf(s)] = range_frequency(i, AnyOf(s).begin, AnyOf(s).last)
      BY <3>1 DEF RangeFrequencies
    <3> QED
      BY <3>2
  <2> QED
    BY <2>1
<1>4. ASSUME NEW f
      PROVE  [s \in SUBSET T |-> of(f, s)] = [s \in SUBSET T |-> as(f, s)]
  <2> HIDE DEF of, as
  <2> QED
    BY <1>3
<1>5. sum = CHOOSE f : IsSum(f, T, w)
  <2>1. \A f : (f = [s \in SUBSET T |-> of(f, s)]) <=> IsSum(f, T, w)
    <3> HIDE DEF of
    <3> QED
      BY <1>4 DEF IsSum
  <2> HIDE DEF of, w
  <2> QED
    BY <2>1
<1>6. IsSum(h, R, w)
  OBVIOUS
<1> HIDE DEF sum, w
<1>7. sum[T] = h[T]
  BY <1>2, <1>5, <1>6, SumBelow
<1> QED
  BY <1>1, <1>7

\* A point has the frequency of its token.
LEMMA SumOfPoints ==
    ASSUME Len(vocab) \in Nat, NEW R \in SUBSET RunsOf(vocab), NEW i, CountsOf(i, Len(vocab)),
           NEW h, IsSum(h, R, RangeFrequencies(i, R)), NEW T \in SUBSET R,
           \A run \in T : run.begin = run.last
    PROVE  PointSum(i, T) = h[T]
<1> DEFINE w == RangeFrequencies(i, R)
           of(f, s) == IF s = {} THEN 0 ELSE frequency(i, AnyOf(s).begin) + f[s \ {AnyOf(s)}]
           as(f, s) == IF s = {} THEN 0 ELSE w[AnyOf(s)] + f[s \ {AnyOf(s)}]
           sum == CHOOSE f : f = [s \in SUBSET T |-> of(f, s)]
<1>1. PointSum(i, T) = sum[T]
  BY DEF PointSum, Sets!MapThenSumSet, Sets!MapThenFoldSet, AnyOf
<1>2. IsFiniteSet(R) /\ Weighs(w, R)
  BY RangeFrequenciesAre
<1>3. ASSUME NEW s \in SUBSET T, NEW f
      PROVE  of(f, s) = as(f, s)
  <2>1. CASE s # {}
    <3>1. AnyOf(s) \in T /\ AnyOf(s) \in R
      BY <2>1, AnyIsIn
    <3>2. w[AnyOf(s)] = range_frequency(i, AnyOf(s).begin, AnyOf(s).last)
      BY <3>1 DEF RangeFrequencies
    <3>3. AnyOf(s).begin = AnyOf(s).last
      BY <3>1
    <3>4. w[AnyOf(s)] = frequency(i, AnyOf(s).begin)
      BY <3>2, <3>3 DEF range_frequency, frequency
    <3> QED
      BY <3>4
  <2> QED
    BY <2>1
<1>4. ASSUME NEW f
      PROVE  [s \in SUBSET T |-> of(f, s)] = [s \in SUBSET T |-> as(f, s)]
  <2> HIDE DEF of, as
  <2> QED
    BY <1>3
<1>5. sum = CHOOSE f : IsSum(f, T, w)
  <2>1. \A f : (f = [s \in SUBSET T |-> of(f, s)]) <=> IsSum(f, T, w)
    <3> HIDE DEF of
    <3> QED
      BY <1>4 DEF IsSum
  <2> HIDE DEF of, w
  <2> QED
    BY <2>1
<1>6. IsSum(h, R, w)
  OBVIOUS
<1> HIDE DEF sum, w
<1>7. sum[T] = h[T]
  BY <1>2, <1>5, <1>6, SumBelow
<1> QED
  BY <1>1, <1>7

\* The frequency of the cover, by points and ranges, is that of its tokens, at most that
\* of all tokens, and counts the codes the index was built for.
LEMMA CoverFrequencyIs ==
    ASSUME Len(vocab) \in Nat, Runs \subseteq RunsOf(vocab), CountsOf(index, Len(vocab))
    PROVE  /\ cover_frequency = TokenSum(index, Cover)
           /\ cover_frequency \in 0 .. total_frequency(index)
           /\ \A codes \in Seq(Nat) :
                index = build(codes, Len(vocab)) /\ index # Refused =>
                    cover_frequency = Cardinality(HitsIn(codes, Cover))
<1>1. PICK m \in ApartRuns : MergedRuns = {m[n] : n \in 1 .. Len(m)}
  BY MergedRunsAre
<1> DEFINE k == Len(m)
           R == FirstRuns(m, k)
           C == TokensOfRuns(m, k)
           w == Frequencies(index, vocab)
           u == RangeFrequencies(index, R)
           P == Points(R)
<1>2. MergedRuns = R /\ Cover = C
  BY <1>1 DEF FirstRuns, TokensOfRuns, Cover
<1>3. k \in Nat /\ k \in 0 .. k /\ (k > 0 => k \in 1 .. k)
      /\ \A n \in 1 .. k : m[n] \in RunsOf(vocab) /\ m[n].last \in Nat /\ m[n].last \in Ids(vocab)
  BY RunFacts
<1>4. R \in SUBSET RunsOf(vocab)
  BY <1>3 DEF FirstRuns
<1>5. IsFiniteSet(R) /\ Weighs(u, R) /\ IsFiniteSet(Ids(vocab)) /\ Weighs(w, Ids(vocab))
  BY <1>4, RangeFrequenciesAre, FrequenciesAre
<1>6. PICK g : IsSum(g, Ids(vocab), w)
  BY <1>5, SumExists
<1>7. PICK h : IsSum(h, R, u)
  BY <1>5, SumExists
<1> HIDE DEF k
<1>8. /\ C \in SUBSET Ids(vocab) /\ g[C] = h[R] /\ g[C] \in Nat
      /\ k > 0 => g[C] <= index[m[k].last + 2]
  <2>1. k = Len(m) /\ k \in 0 .. Len(m)
    BY <1>3 DEF k
  <2> QED
    BY <1>6, <1>7, <2>1, RunsAddUp
<1> HIDE DEF R, C, w, u
<1>9. cover_frequency = h[R]
  <2>1. P \in SUBSET R /\ R \ P \in SUBSET R /\ P \cap (R \ P) = {} /\ P \cup (R \ P) = R
        /\ \A run \in P : run.begin = run.last
    BY DEF Points
  <2>2. cover_frequency = PointSum(index, P) + RangeSum(index, R \ P)
    BY <1>2 DEF cover_frequency, PointSum, RangeSum
  <2> HIDE DEF P
  <2>3. PointSum(index, P) = h[P]
    BY <1>4, <1>7, <2>1, SumOfPoints DEF u
  <2>4. RangeSum(index, R \ P) = h[R \ P]
    BY <1>4, <1>7, <2>1, SumOfRanges DEF u
  <2>5. h[P \cup (R \ P)] = h[P] + h[R \ P]
    BY <1>5, <1>7, <2>1, SumSplits
  <2> QED
    BY <2>1, <2>2, <2>3, <2>4, <2>5
<1>10. TokenSum(index, Cover) = g[C]
  <2>1. TokenSum(index, C) = g[C]
    BY <1>6, <1>8, SumOfTokens DEF w
  <2> QED
    BY <1>2, <2>1
<1>11. g[C] <= total_frequency(index)
  <2>1. Len(index) = Len(vocab) + 1
    BY DEF CountsOf
  <2>2. CASE k > 0
    <3>1. m[k].last \in Nat /\ m[k].last < Len(vocab)
      BY <1>3, <2>2 DEF Ids
    <3>2. m[k].last + 2 \in 1 .. Len(vocab) + 1 /\ Len(vocab) + 1 \in m[k].last + 2 .. Len(vocab) + 1
      BY <3>1
    <3>3. index[m[k].last + 2] \in Nat /\ index[Len(vocab) + 1] \in Nat
          /\ index[m[k].last + 2] <= index[Len(vocab) + 1]
      BY <3>2, CountsAscend
    <3> QED
      BY <1>8, <2>1, <2>2, <3>3 DEF total_frequency
  <2>3. CASE ~(k > 0)
    <3>1. C = {}
      <4>1. k = 0 /\ 1 .. 0 = {}
        BY <1>3, <2>3
      <4> QED
        BY <4>1 DEF C, TokensOfRuns
    <3>2. g[{}] = 0
      BY ONLY IsSum(g, Ids(vocab), w), <1>6, SumUnfolds
    <3>3. index[Len(vocab) + 1] \in Nat
      <4>1. Len(vocab) + 1 \in 1 .. Len(vocab) + 1
        OBVIOUS
      <4> QED
        BY <4>1, CountsAscend
    <3>4. g[C] = 0
      BY <3>1, <3>2
    <3> QED
      BY <2>1, <3>3, <3>4 DEF total_frequency
  <2> QED
    BY <2>2, <2>3
<1>12. total_frequency(index) \in Nat
  <2>1. Len(index) \in 1 .. Len(vocab) + 1 /\ Len(vocab) + 1 \in Len(index) .. Len(vocab) + 1
    BY DEF CountsOf
  <2> QED
    BY <2>1, CountsAscend DEF total_frequency
<1>13. ASSUME NEW codes \in Seq(Nat), index = build(codes, Len(vocab)), index # Refused
       PROVE  cover_frequency = Cardinality(HitsIn(codes, Cover))
  <2>1. Cardinality(HitsIn(codes, C)) = g[C]
    <3>1. k \in 0 .. Len(m)
      BY <1>3 DEF k
    <3> QED
      BY <1>6, <1>13, <3>1, HitsAddUp DEF C, w
  <2> QED
    BY <1>2, <1>8, <1>9, <2>1
<1>14. cover_frequency \in 0 .. total_frequency(index)
  BY <1>8, <1>9, <1>11, <1>12
<1> QED
  BY <1>8, <1>9, <1>10, <1>13, <1>14

-----------------------------------------------------------------------------
(***************************************************************************)
(* Expected hits.                                                          *)
(***************************************************************************)

NodesTyped ==
    \A o \in DOMAIN nodes : nodes[o].greedy \in Ids(vocab) \cup {NoToken} /\ nodes[o].range \subseteq Ids(vocab)

\* While there is an index it fits the dictionary, and is the one built for the codes it
\* counts if they are known.
IndexFits ==
    /\ CountsOf(index, Len(vocab)) /\ index # Refused
    /\ counted # Uncounted => counted \in Seq(Nat) /\ index = build(counted, Len(vocab))

HitsInv ==
    /\ NodesTyped
    /\ phase \in {"planned", "asked"} => IndexFits

\* An index that a caller passes, and that has the right size.
LEMMA PassedIndexFits ==
    ASSUME vocab \in Dictionaries, vocab' = vocab, PassIndex, ~Mismatch(index')
    PROVE  IndexFits'
<1>1. Len(vocab) \in Nat /\ Sampled(vocab) \subseteq Seq(Nat) /\ Stored(vocab) \subseteq Seq(Nat)
  BY GraphAssumption, ScanAssumption
<1>2. index' # Refused
  BY DEF PassIndex
<1>3. CASE \E codes \in Sampled(vocab) : counted' = codes /\ index' = build(codes, Len(vocab))
  <2>1. PICK codes \in Sampled(vocab) : counted' = codes /\ index' = build(codes, Len(vocab))
    BY <1>3
  <2>2. codes \in Seq(Nat)
    BY <1>1
  <2>3. CountsOf(build(codes, Len(vocab)), Len(vocab))
    BY <1>1, <1>2, <2>1, <2>2, BuildCounts
  <2>4. CountsOf(index', Len(vocab)) /\ counted' \in Seq(Nat) /\ index' = build(counted', Len(vocab))
    BY <2>1, <2>2, <2>3
  <2>5. CountsOf(index, Len(vocab))' /\ build(counted, Len(vocab))' = build(counted', Len(vocab))
    <3>1. CountsOf(index, Len(vocab))'
      BY <2>4 DEF CountsOf
    <3>2. build(counted, Len(vocab))' = build(counted', Len(vocab'))
      OBVIOUS
    <3> QED
      BY <3>1, <3>2
  <2> QED
    BY <1>2, <2>4, <2>5 DEF IndexFits, Refused
<1>4. CASE \E sums \in Stored(vocab) : counted' = Uncounted /\ index' = new(sums)
  <2>1. PICK sums \in Stored(vocab) : counted' = Uncounted /\ index' = new(sums)
    BY <1>4
  <2>2. index' = sums /\ check_cumulative(sums) /\ sums \in Seq(Nat)
    BY <1>1, <1>2, <2>1 DEF new
  <2>3. Len(sums) = Len(vocab) + 1
    <3>1. Len(sums) \in Nat /\ Len(sums) - 1 = Len(vocab)
      BY <2>2 DEF Mismatch, num_tokens
    <3> QED
      BY <1>1, <3>1
  <2>4. Len(sums) - 1 = Len(vocab)
    BY <1>1, <2>3
  <2>5. CountsOf(sums, Len(vocab))
    BY <2>2, <2>3, <2>4 DEF CountsOf, check_cumulative
  <2>6. CountsOf(index, Len(vocab))'
    BY <2>2, <2>5 DEF CountsOf
  <2> QED
    BY <1>2, <2>1, <2>6 DEF IndexFits, Refused, Uncounted
<1> QED
  BY <1>3, <1>4 DEF PassIndex

\* What does not touch the nodes leaves them typed.
LEMMA NodesStayTyped ==
    ASSUME NodesTyped, nodes' = nodes, vocab' = vocab
    PROVE  NodesTyped'
  BY DEF NodesTyped, Ids, NoToken

LEMMA HitsInvBuildPosition ==
    ASSUME GraphInv, HitsInv, BuildPosition
    PROVE  HitsInv'
<1> DEFINE t == CodeAt(vocab, pattern, offset)
           node == [greedy |-> IF offset + LengthOf(t) < sink THEN t ELSE NoToken,
                    range |-> StartingWith(offset), built |-> TRUE]
<1>1. /\ vocab' = vocab /\ phase = "paths" /\ phase' = "paths" /\ offset < sink /\ Prefixes(offset) # {}
      /\ nodes' = [nodes EXCEPT ![offset] = node]
  BY DEF BuildPosition, OnPath
<1>2. vocab \in Dictionaries /\ pattern \in Patterns /\ offset \in Nat
  <2>1. GraphTypeOK
    BY DEF GraphInv
  <2>2. vocab \in Dictionaries /\ pattern \in Patterns /\ offset \in 0 .. sink
    BY <2>1 DEF GraphTypeOK
  <2> QED
    BY <2>2, PayloadTyped
<1>3. t \in Ids(vocab)
  BY <1>1, <1>2, GreedyTokenFits
<1> HIDE DEF t
<1>4. node.greedy \in Ids(vocab) \cup {NoToken} /\ node.range \subseteq Ids(vocab)
  BY <1>3 DEF StartingWith
<1> HIDE DEF node
<1>5. NodesTyped
  BY DEF HitsInv
<1>6. ASSUME NEW o \in DOMAIN nodes'
      PROVE  nodes'[o].greedy \in Ids(vocab) \cup {NoToken} /\ nodes'[o].range \subseteq Ids(vocab)
  <2>1. o \in DOMAIN nodes /\ nodes'[o] = IF o = offset THEN node ELSE nodes[o]
    BY <1>1
  <2> QED
    BY <1>4, <1>5, <2>1 DEF NodesTyped
<1>7. NodesTyped'
  BY <1>1, <1>6 DEF NodesTyped, Ids, NoToken
<1> QED
  BY <1>1, <1>7 DEF HitsInv

LEMMA HitsInvStays ==
    ASSUME GraphInv, HitsInv, [ScanNext]_scan_vars
    PROVE  HitsInv'
<1>1. NodesTyped /\ vocab \in Dictionaries
  BY DEF HitsInv, GraphInv, GraphTypeOK
<1>2. CASE BuildGraph
  <2>1. CASE BuildPosition
    BY <2>1, HitsInvBuildPosition
  <2>2. CASE CollectSingleByte \/ SinglesCollected \/ ScanPayload \/ PayloadScanned \/ MissingByte \/ NextPath
    <3>1. vocab' = vocab /\ nodes' = nodes /\ phase' \in {"single", "payload", "paths", "graph", "error"}
      BY <2>2 DEF CollectSingleByte, SinglesCollected, ScanPayload, PayloadScanned, MissingByte, NextPath,
                  OnPath, starts, paths, graph
    <3> QED
      BY <1>1, <3>1, NodesStayTyped DEF HitsInv
  <2> QED
    BY <1>2, <2>1, <2>2 DEF BuildGraph, GraphStep
<1>3. CASE Select
  <2>1. vocab' = vocab /\ nodes' = nodes /\ PassIndex /\ ~Mismatch(index')
    BY <1>3 DEF Select, call, graph, paths
  <2> QED
    BY <1>1, <2>1, NodesStayTyped, PassedIndexFits DEF HitsInv
<1>4. CASE ExpectedHits
  <2>1. vocab' = vocab /\ nodes' = nodes /\ PassIndex
        /\ phase' = IF Mismatch(index') THEN "error" ELSE "asked"
    BY <1>4 DEF ExpectedHits, call, graph, paths
  <2>2. NodesTyped'
    BY <1>1, <2>1, NodesStayTyped
  <2>3. CASE Mismatch(index')
    BY <2>1, <2>2, <2>3 DEF HitsInv
  <2>4. CASE ~Mismatch(index')
    BY <1>1, <2>1, <2>2, <2>4, PassedIndexFits DEF HitsInv
  <2> QED
    BY <2>3, <2>4
<1>5. CASE \/ RejectIndex \/ Prepare \/ ScanNothing \/ ScanPanics \/ ScanEverything \/ StartScan
           \/ StartBlock \/ FinishScan \/ TakeHit \/ EndBlock \/ LocateRow \/ Verify
  <2>1. /\ vocab' = vocab /\ nodes' = nodes
        /\ phase' \in {"error", "ready", "done", "panic", "blocks", "hits", "locate", "verify"}
    BY <1>5 DEF RejectIndex, Prepare, ScanNothing, ScanPanics, ScanEverything, StartScan, StartBlock,
                FinishScan, TakeHit, EndBlock, LocateRow, Verify, call, graph, paths
  <2> QED
    BY <1>1, <2>1, NodesStayTyped DEF HitsInv
<1>6. CASE UNCHANGED scan_vars
  <2>1. vocab' = vocab /\ nodes' = nodes /\ phase' = phase /\ index' = index /\ counted' = counted
    BY <1>6 DEF scan_vars, call, graph, paths, plan
  <2>2. IndexFits => IndexFits'
    <3>1. CountsOf(index, Len(vocab)) => CountsOf(index, Len(vocab))'
      BY <2>1 DEF CountsOf
    <3>2. build(counted, Len(vocab))' = build(counted', Len(vocab'))
      OBVIOUS
    <3> QED
      BY <2>1, <3>1, <3>2 DEF IndexFits, Refused, Uncounted
  <2> QED
    BY <1>1, <2>1, <2>2, NodesStayTyped DEF HitsInv
<1> QED
  BY <1>2, <1>3, <1>4, <1>5, <1>6 DEF ScanNext

LEMMA HitsInvStarts ==
    ASSUME ScanInit
    PROVE  HitsInv
<1>1. phase \in {"error", "ready", "single", "payload"} /\ nodes = [o \in 0 .. sink - 1 |-> Unbuilt]
  BY DEF ScanInit, GraphInit
<1>2. \A o \in DOMAIN nodes : nodes[o].greedy = NoToken /\ nodes[o].range = {}
  BY <1>1 DEF Unbuilt
<1> QED
  BY <1>1, <1>2 DEF HitsInv, NodesTyped

LEMMA GreatestIsIn ==
    ASSUME Len(vocab) \in Nat, NEW S \in SUBSET Ids(vocab), S # {}
    PROVE  Sets!Max(S) \in S
<1> DEFINE N == Len(vocab)
           B == {n \in Nat : \E t \in S : n = N - t}
<1>1. \A t \in S : t \in Nat /\ N - t \in B
  BY DEF Ids
<1>2. PICK b \in B : \A n \in B : b <= n
  BY <1>1, LeastNatural
<1>3. PICK m \in S : b = N - m
  OBVIOUS
<1>4. ASSUME NEW t \in S
      PROVE  m >= t
  <2>1. m \in Nat /\ t \in Nat /\ b <= N - t
    BY <1>1, <1>2
  <2> QED
    BY <1>3, <2>1
<1>5. \E x \in S : \A y \in S : x >= y
  BY <1>4
<1> QED
  BY <1>5 DEF Sets!Max

\* The tokens that a cut lists are runs of the dictionary.
LEMMA RunsAreTokens ==
    ASSUME GraphInv, NodesTyped
    PROVE  Len(vocab) \in Nat /\ Runs \subseteq RunsOf(vocab)
<1>1. GraphTypeOK
  BY DEF GraphInv
<1>2. /\ cut \subseteq Edges /\ DOMAIN nodes = 0 .. sink - 1
      /\ vocab \in Dictionaries /\ pattern \in Patterns
      /\ listed \in [OverlapLengths -> SUBSET Ids(vocab)] /\ contained \subseteq Ids(vocab)
  BY <1>1 DEF GraphTypeOK
<1>3. Len(vocab) \in Nat
  BY <1>2, PayloadTyped
<1>4. \A e \in GreedyEdges : e.tokens \subseteq Ids(vocab)
  BY <1>2 DEF GreedyEdges, Edge, NodesTyped
<1>5. \A e \in RangeEdges : e.tokens \subseteq Ids(vocab) /\ e.tokens # {}
  BY <1>2 DEF RangeEdges, Edge, NodesTyped
<1>6. \A e \in AlignmentEdges : e.tokens \subseteq Ids(vocab)
  BY <1>2 DEF AlignmentEdges, Edge
<1>7. ASSUME NEW e \in cut, NEW t \in e.tokens
      PROVE  Run(t, t) \in RunsOf(vocab)
  <2>1. e \in Edges
    BY <1>2
  <2>2. t \in Ids(vocab)
    BY <1>4, <1>5, <1>6, <2>1 DEF Edges
  <2> QED
    BY <2>2 DEF Run, RunsOf, Ids
<1>8. ASSUME NEW e \in RangeEdges
      PROVE  Run(Sets!Min(e.tokens), Sets!Max(e.tokens)) \in RunsOf(vocab)
  <2> DEFINE a == Sets!Min(e.tokens)
             b == Sets!Max(e.tokens)
  <2>1. a \in e.tokens /\ \A x \in e.tokens : a <= x
    <3>1. e.tokens \in SUBSET Nat /\ e.tokens # {}
      BY <1>5 DEF Ids
    <3>2. \E x \in e.tokens : \A y \in e.tokens : x <= y
      BY <3>1, LeastNatural
    <3> QED
      BY <3>2 DEF Sets!Min
  <2>2. b \in e.tokens
    BY <1>3, <1>5, GreatestIsIn
  <2> HIDE DEF a, b
  <2>3. a \in Ids(vocab) /\ b \in Ids(vocab) /\ a <= b
    BY <1>5, <2>1, <2>2
  <2>4. Run(a, b) \in RunsOf(vocab)
    BY <2>3 DEF Run, RunsOf
  <2> QED
    BY <2>4 DEF a, b
<1>9. ASSUME NEW r \in Runs
      PROVE  r \in RunsOf(vocab)
  <2>1. PICK e \in cut : r \in IF e \in RangeEdges THEN {Run(Sets!Min(e.tokens), Sets!Max(e.tokens))}
                               ELSE {Run(t, t) : t \in e.tokens}
    BY DEF Runs
  <2>2. CASE e \in RangeEdges
    <3>1. r = Run(Sets!Min(e.tokens), Sets!Max(e.tokens))
      BY <2>1, <2>2
    <3> QED
      BY <1>8, <2>2, <3>1
  <2>3. CASE e \notin RangeEdges
    <3>1. \E t \in e.tokens : r = Run(t, t)
      BY <2>1, <2>3
    <3> QED
      BY <1>7, <3>1
  <2> QED
    BY <2>2, <2>3
<1> QED
  BY <1>3, <1>9

LEMMA HitsInvIsExact ==
    ASSUME GraphInv, HitsInv
    PROVE  ExpectedHitsAreExact
<1> SUFFICES ASSUME phase \in {"planned", "asked"}
             PROVE  /\ cover_frequency = Sets!MapThenSumSet(LAMBDA t : frequency(index, t), Cover)
                    /\ cover_frequency \in 0 .. total_frequency(index)
                    /\ counted # Uncounted =>
                        cover_frequency = Cardinality({n \in DOMAIN counted : counted[n] \in Cover})
  BY DEF ExpectedHitsAreExact
<1>1. NodesTyped /\ IndexFits
  BY DEF HitsInv
<1>2. Len(vocab) \in Nat /\ Runs \subseteq RunsOf(vocab)
  BY <1>1, RunsAreTokens
<1>3. CountsOf(index, Len(vocab)) /\ index # Refused
  BY <1>1 DEF IndexFits
<1>4. /\ cover_frequency = TokenSum(index, Cover)
      /\ cover_frequency \in 0 .. total_frequency(index)
      /\ \A codes \in Seq(Nat) :
            index = build(codes, Len(vocab)) /\ index # Refused =>
                cover_frequency = Cardinality(HitsIn(codes, Cover))
  BY <1>2, <1>3, CoverFrequencyIs
<1>5. ASSUME counted # Uncounted
      PROVE  cover_frequency = Cardinality({n \in DOMAIN counted : counted[n] \in Cover})
  <2>1. counted \in Seq(Nat) /\ index = build(counted, Len(vocab))
    BY <1>1, <1>5 DEF IndexFits
  <2>2. cover_frequency = Cardinality(HitsIn(counted, Cover))
    BY <1>3, <1>4, <2>1
  <2> QED
    BY <2>2 DEF HitsIn
<1> QED
  BY <1>4, <1>5 DEF TokenSum

\* While a scan is planned or asked for its hits, the index is one of prefix counts of the
\* dictionary's tokens, and that of the codes if they are known.
THEOREM HitsInvHolds == ScanSpec => []HitsInv
<1> QED
  BY HitsInvStarts, HitsInvStays, GraphInvHolds, PTL DEF ScanSpec

\* So the expected hits count every occurrence of a token of the cover once, for every
\* dictionary, pattern and index, whichever edges are cut.
THEOREM ExpectedHitsStayExact == ScanSpec => []ExpectedHitsAreExact
<1> QED
  BY HitsInvHolds, GraphInvHolds, HitsInvIsExact, PTL
=============================================================================
