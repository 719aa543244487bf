------------------------ MODULE DictionaryValidation ------------------------
(***************************************************************************)
(* How raw buffers become a dictionary (core/dictionary/compact.rs and     *)
(* wide.rs): pad_raw, validate_safety of the compact form, the fused       *)
(* validate_safety of the wide form, which copies tokens while it still    *)
(* checks them, and validate_conformance.  All of them are run on the same *)
(* buffers, one after the other, so that their verdicts can be compared.   *)
(*                                                                         *)
(*   "raw"      the buffers as deserialized, or as the trainer left them;  *)
(*   "compact", "wide", "conform"  the loops over tokens;                  *)
(*   "between"  the compact verdict is in, the wide one is next;           *)
(*   "sealed"   both safety verdicts are in;                               *)
(*   "done"     and the verdict on conformance, if it was asked for.       *)
(*                                                                         *)
(* Offsets are unsigned integers below OffsetLimit, 2^32 in the program,   *)
(* and MaxNumTokens is 2^16.                                               *)
(***************************************************************************)
EXTENDS SealedDictionary, Vocabulary

CONSTANTS OffsetLimit, MaxNumTokens, Raws

ASSUME ValidationAssumption ==
    /\ OffsetLimit \in Nat \ {0}
    /\ MaxNumTokens \in Nat \ {0}
    /\ Raws \subseteq [bytes : ByteSeq, offsets : Seq(0 .. OffsetLimit - 1)]

VARIABLES
    dict,               \* the raw buffers
    mode,
    id,                 \* of the token the loop is at
    flaws,              \* the flags of the loop: those that are set
    compact, wide, conforms,    \* the verdicts
    rows, lens,         \* the wide form
    seen                \* the bytes that are tokens of their own

vars == <<dict, mode, id, flaws, compact, wide, conforms, rows, lens, seen>>

Ok == "Ok"
Unknown == "Unknown"

Safety == {"EmptyDictionary", "CodeOutOfRange", "FirstOffsetNotZero",
           "DecreasingOffsets", "EmptyToken", "TokenTooLarge", "MissingPadding"}
Conformance == {"UnsortedTokens", "IncompleteAlphabet"}

Start(n) == dict.offsets[n + 1]
End(n) == dict.offsets[n + 2]
LastStart == Start(TokenCount(dict) - 1)

Init ==
    /\ dict \in Raws
    /\ mode = "raw"
    /\ id = 0 /\ flaws = {}
    /\ compact = Unknown /\ wide = Unknown /\ conforms = Unknown
    /\ rows = <<>> /\ lens = <<>> /\ seen = {}

\* pad_raw: room for a read of MaxTokenSize at the last token.
\* Mutant: one byte short.
Padded_OneShort(d) ==
    LET required == TokenStart(d, TokenCount(d) - 1) + MaxTokenSize - 1
    IN  [d EXCEPT !.bytes =
            @ \o [k \in 1 .. (IF Len(@) < required THEN required - Len(@) ELSE 0) |-> 0]]

Padded(d) ==
    LET required == TokenStart(d, TokenCount(d) - 1) + MaxTokenSize
    IN  [d EXCEPT !.bytes =
            @ \o [k \in 1 .. (IF Len(@) < required THEN required - Len(@) ELSE 0) |-> 0]]

Pad ==
    /\ mode = "raw"
    /\ Len(dict.offsets) >= 2
    /\ dict' = Padded(dict)
    /\ UNCHANGED <<mode, id, flaws, compact, wide, conforms, rows, lens, seen>>

\* What both safety checks refuse before they look at a token.
Refusal ==
    IF TokenCount(dict) <= 0 THEN "EmptyDictionary"
    ELSE IF TokenCount(dict) > MaxNumTokens THEN "CodeOutOfRange"
    ELSE IF dict.offsets[1] # 0 THEN "FirstOffsetNotZero"
    ELSE Ok

\* The flags that a pair of offsets sets; the subtraction wraps.
Length(n) == (End(n) - Start(n)) % OffsetLimit

\* Mutant: the length is not looked at.
PairFlaws_AnyLength(n) ==
    {flaw \in {"DecreasingOffsets", "EmptyToken"} :
        \/ flaw = "DecreasingOffsets" /\ End(n) < Start(n)
        \/ flaw = "EmptyToken" /\ End(n) = Start(n)}

PairFlaws(n) ==
    {flaw \in {"DecreasingOffsets", "EmptyToken", "TokenTooLarge"} :
        \/ flaw = "DecreasingOffsets" /\ End(n) < Start(n)
        \/ flaw = "EmptyToken" /\ End(n) = Start(n)
        \/ flaw = "TokenTooLarge" /\ Length(n) > MaxTokenSize}

\* The order in which the flags are reported.
Verdict(set) ==
    IF "DecreasingOffsets" \in set THEN "DecreasingOffsets"
    ELSE IF "EmptyToken" \in set THEN "EmptyToken"
    ELSE IF "TokenTooLarge" \in set THEN "TokenTooLarge"
    ELSE IF "MissingPadding" \in set THEN "MissingPadding"
    ELSE Ok

LastIsReadable == LastStart + MaxTokenSize <= Len(dict.bytes)

StartCompact ==
    /\ mode = "raw"
    /\ id' = 0 /\ flaws' = {}
    /\ IF Refusal = Ok
       THEN mode' = "compact" /\ UNCHANGED compact
       ELSE mode' = "between" /\ compact' = Refusal
    /\ UNCHANGED <<dict, wide, conforms, rows, lens, seen>>

CompactStep ==
    /\ mode = "compact"
    /\ id < TokenCount(dict)
    /\ flaws' = flaws \cup PairFlaws(id)
    /\ id' = id + 1
    /\ UNCHANGED <<dict, mode, compact, wide, conforms, rows, lens, seen>>

\* Mutant: the padding is not checked.
CompactVerdict_NoPadding == Verdict(flaws)

CompactVerdict == Verdict(flaws \cup (IF LastIsReadable THEN {} ELSE {"MissingPadding"}))

CompactEnd ==
    /\ mode = "compact"
    /\ id = TokenCount(dict)
    /\ compact' = CompactVerdict
    /\ mode' = "between"
    /\ UNCHANGED <<dict, id, flaws, wide, conforms, rows, lens, seen>>

StartWide ==
    /\ mode = "between"
    /\ id' = 0
    /\ IF Refusal = Ok
       THEN /\ mode' = "wide"
            /\ flaws' = IF LastIsReadable THEN {} ELSE {"MissingPadding"}
            /\ UNCHANGED wide
       ELSE mode' = "sealed" /\ wide' = Refusal /\ UNCHANGED flaws
    /\ UNCHANGED <<dict, compact, conforms, rows, lens, seen>>

\* The read of a token is in bounds, as far as the loop can tell: the offsets are
\* not known to increase.
SourceIsReadable(n) == LastIsReadable /\ Start(n) <= LastStart

\* The token is copied.
Copied(n) == End(n) > Start(n) /\ Length(n) <= MaxTokenSize /\ SourceIsReadable(n)

\* A token that must not be copied keeps the zeros of its row.
WideStep ==
    /\ mode = "wide"
    /\ id < TokenCount(dict)
    /\ flaws' = flaws \cup PairFlaws(id)
                    \cup (IF SourceIsReadable(id) THEN {} ELSE {"MissingPadding"})
    /\ rows' = Append(rows, IF Copied(id)
                            THEN SubSeq(dict.bytes, Start(id) + 1, Start(id) + MaxTokenSize)
                            ELSE [k \in 1 .. MaxTokenSize |-> 0])
    /\ lens' = Append(lens, IF Copied(id) THEN Length(id) ELSE 0)
    /\ id' = id + 1
    /\ UNCHANGED <<dict, mode, compact, wide, conforms, seen>>

\* to_wide: the wide form of a sealed dictionary, without any check.
ToWide(d) ==
    [rows |-> [n \in 1 .. TokenCount(d) |-> Chunk(d, n - 1)],
     lens |-> [n \in 1 .. TokenCount(d) |-> TokenLen(d, n - 1)]]

WideEnd ==
    /\ mode = "wide"
    /\ id = TokenCount(dict)
    /\ wide' = Verdict(flaws)
    /\ mode' = "sealed"
    /\ UNCHANGED <<dict, id, flaws, compact, conforms, rows, lens, seen>>

\* validate goes on to the contents once the buffers are safe.
StartConform ==
    /\ mode = "sealed"
    /\ compact = Ok
    /\ id' = 0
    /\ mode' = "conform"
    /\ UNCHANGED <<dict, flaws, compact, wide, conforms, rows, lens, seen>>

Sealed(n) == TokenBytes(dict, n)
Previous == IF id = 0 THEN <<>> ELSE Sealed(id - 1)

\* Mutant: two equal tokens in a row are accepted.
InOrder_Equal == Previous = Sealed(id) \/ LexLess(Previous, Sealed(id))

InOrder == LexLess(Previous, Sealed(id))

ConformStep ==
    /\ mode = "conform"
    /\ id < TokenCount(dict)
    /\ IF InOrder
       THEN /\ seen' = IF TokenLen(dict, id) = 1 THEN seen \cup {Sealed(id)[1]} ELSE seen
            /\ id' = id + 1
            /\ UNCHANGED <<mode, conforms>>
       ELSE conforms' = "UnsortedTokens" /\ mode' = "done" /\ UNCHANGED <<id, seen>>
    /\ UNCHANGED <<dict, flaws, compact, wide, rows, lens>>

ConformEnd ==
    /\ mode = "conform"
    /\ id = TokenCount(dict)
    /\ conforms' = IF seen = Byte THEN Ok ELSE "IncompleteAlphabet"
    /\ mode' = "done"
    /\ UNCHANGED <<dict, id, flaws, compact, wide, rows, lens, seen>>

Next ==
    \/ Pad
    \/ StartCompact \/ CompactStep \/ CompactEnd
    \/ StartWide \/ WideStep \/ WideEnd
    \/ StartConform \/ ConformStep \/ ConformEnd

Spec == Init /\ [][Next]_vars

-----------------------------------------------------------------------------
(***************************************************************************)
(* Properties.                                                             *)
(***************************************************************************)

\* Every variable has its type; a wide row is a whole one.
TypeOK ==
    /\ dict \in [bytes : ByteSeq, offsets : Seq(0 .. OffsetLimit - 1)]
    /\ mode \in {"raw", "compact", "between", "wide", "sealed", "conform", "done"}
    /\ id \in Nat /\ flaws \subseteq Safety
    /\ compact \in Safety \cup {Ok, Unknown} /\ wide \in Safety \cup {Ok, Unknown}
    /\ conforms \in Conformance \cup {Ok, Unknown}
    /\ rows \in Seq([1 .. MaxTokenSize -> Byte])
    /\ lens \in Seq(0 .. MaxTokenSize) /\ Len(lens) = Len(rows)
    /\ seen \subseteq Byte

\* The two safety checks give the same verdict, the same error included, and the
\* wide form that the fused check leaves is the one that to_wide makes of the
\* accepted compact dictionary: no token of it was held back.
VerdictsAgree ==
    /\ TypeOK
    /\ mode \in {"sealed", "conform", "done"} => wide = compact
    /\ wide = Ok => [rows |-> rows, lens |-> lens] = ToWide(dict)

\* The copies of the wide form read inside the bytes, on buffers of any kind and
\* before it is known that their offsets increase.
CopiesInBounds ==
    (mode = "wide" /\ id < TokenCount(dict) /\ Copied(id)) =>
        Start(id) + MaxTokenSize <= Len(dict.bytes)

\* Nothing is read beyond the buffers to find out about them, and they are accepted if
\* and only if they are what the decoder relies on, and hold at least one token, and
\* no more than a code can name, from offset zero.
AcceptedIsReadable ==
    /\ CopiesInBounds
    /\ compact # Unknown =>
        (compact = Ok <=>
            /\ Readable(dict)
            /\ TokenCount(dict) \in 1 .. MaxNumTokens
            /\ dict.offsets[1] = 0)

\* The dictionaries that validate accepts are the conformant ones, which search and
\* the encoder rely on: see Vocabulary.
ConformanceIsExact ==
    conforms # Unknown =>
        LET vocab == [n \in 1 .. TokenCount(dict) |-> Sealed(n - 1)]
        IN  conforms = Ok <=> Conforms(vocab)

\* Buffers that lay out tokens one after the other are accepted once padded.
LaysOutTokens(d) ==
    /\ TokenCount(d) \in 1 .. MaxNumTokens
    /\ d.offsets[1] = 0
    /\ \A n \in 0 .. TokenCount(d) - 1 : TokenLen(d, n) \in 1 .. MaxTokenSize
    /\ d.offsets[Len(d.offsets)] <= Len(d.bytes)
PaddingSuffices ==
    [][(Pad /\ LaysOutTokens(dict)) => Readable(dict')]_vars
=============================================================================
