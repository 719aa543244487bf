------------------------------ MODULE Decoder ------------------------------
(***************************************************************************)
(* Decoding (src/src/decoding): the bytes of the codes' tokens, one after  *)
(* the other, in a caller's buffer of cap bytes.  Most stores copy a fixed *)
(* MaxTokenSize bytes whatever the token's length; the buffer must absorb  *)
(* the excess.                                                             *)
(*                                                                         *)
(*   "unchecked"  decompress_into_unchecked, called by decompress_into     *)
(*                when every code has MaxTokenSize bytes of buffer, or     *)
(*                directly by a caller who promises enough of it;          *)
(*   "round"      decompress_into is about to take the next batch;         *)
(*   "batch"      it is over-copying the codes of a batch;                 *)
(*   "tail"       it copies exactly, fewer than MaxTokenSize bytes left;   *)
(*   "ok", "too_small", "panic"  it returned, or panicked on a bad code.   *)
(***************************************************************************)
EXTENDS SealedDictionary

CONSTANTS
    Dictionaries,   \* sealed dictionaries: records of bytes and offsets
    CodeStreams,    \* sequences of codes
    Capacities      \* lengths of the output buffer

ASSUME DecoderAssumption ==
    /\ \A d \in Dictionaries : Readable(d)
    /\ CodeStreams \subseteq Seq(Nat)
    /\ Capacities \subseteq Nat

\* The tokens of the codes that name one; a bad code stands for no bytes.
Decoded(d, codes) ==
    [j \in 1 .. Len(codes) |->
        IF codes[j] < TokenCount(d) THEN TokenBytes(d, codes[j]) ELSE <<>>]

\* The decompressed length of the first n codes.
DecodedLen(d, codes, n) == ByteCount(Decoded(d, codes), n)

VARIABLES
    dict, codes, cap,   \* the arguments
    mode,
    w,                  \* bytes written
    i,                  \* codes decoded
    end,                \* the code at which the current batch ends
    out                 \* the initialized cells of the buffer, by position

vars == <<dict, codes, cap, mode, w, i, end, out>>

Padding == MaxTokenSize

\* The safety condition of decompress_into_unchecked.
Promised ==
    \/ cap >= DecodedLen(dict, codes, Len(codes)) + Padding
    \/ cap >= MaxTokenSize * Len(codes)

\* decompress_into's dispatch on the length of the buffer.
Dispatch == IF cap \div MaxTokenSize >= Len(codes) THEN "unchecked" ELSE "round"

Init ==
    /\ dict \in Dictionaries /\ codes \in CodeStreams /\ cap \in Capacities
    /\ w = 0 /\ i = 0 /\ end = 0
    /\ out = [k \in {} |-> 0]
    /\ \/ mode = Dispatch
       \/ mode = "unchecked" /\ Promised

InRange(code) == code < TokenCount(dict)

\* Bytes of src stored at position at, those at the offsets in cells.
Stored(at, src, cells) ==
    [k \in DOMAIN out \cup {at + c : c \in cells} |->
        IF k - at \in cells THEN src[k - at + 1] ELSE out[k]]

\* copy16, and the step of the cursor past the token.
\* Mutant: the cursor steps by the stored bytes.
OverCopy_FullStep(code) ==
    /\ out' = Stored(w, Chunk(dict, code), 0 .. MaxTokenSize - 1)
    /\ w' = w + MaxTokenSize

OverCopy(code) ==
    /\ out' = Stored(w, Chunk(dict, code), 0 .. MaxTokenSize - 1)
    /\ w' = w + TokenLen(dict, code)

UncheckedStore ==
    /\ mode = "unchecked"
    /\ i < Len(codes) /\ InRange(codes[i + 1])
    /\ OverCopy(codes[i + 1])
    /\ i' = i + 1
    /\ UNCHANGED <<dict, codes, cap, mode, end>>

\* The codes that surely fit the rest of the buffer.
\* Mutant: the last, partly filled slot counts as well.
BatchSize_RoundedUp == (cap - w + MaxTokenSize - 1) \div MaxTokenSize

BatchSize == (cap - w) \div MaxTokenSize

HasBatch == i < Len(codes) /\ BatchSize > 0

BatchEnd == IF i + BatchSize < Len(codes) THEN i + BatchSize ELSE Len(codes)

StartBatch ==
    /\ mode = "round"
    /\ HasBatch
    /\ end' = BatchEnd
    /\ mode' = "batch"
    /\ UNCHANGED <<dict, codes, cap, w, i, out>>

BatchStore ==
    /\ mode = "batch"
    /\ i < end /\ InRange(codes[i + 1])
    /\ OverCopy(codes[i + 1])
    /\ i' = i + 1
    /\ UNCHANGED <<dict, codes, cap, mode, end>>

EndBatch ==
    /\ mode = "batch"
    /\ i = end
    /\ mode' = "round"
    /\ UNCHANGED <<dict, codes, cap, w, i, end, out>>

StartTail ==
    /\ mode = "round"
    /\ ~HasBatch
    /\ mode' = "tail"
    /\ UNCHANGED <<dict, codes, cap, w, i, end, out>>

\* copy_token_bytes: the first and the last chunk of the largest power of two
\* that is not longer than the token, sixteen at most.
ChunkSize(len) ==
    CASE len = 0 -> 0
      [] len = 1 -> 1
      [] len \in 2 .. 3 -> 2
      [] len \in 4 .. 7 -> 4
      [] len \in 8 .. 15 -> 8
      [] OTHER -> len
CopiedCells(len) == (0 .. ChunkSize(len) - 1) \cup (len - ChunkSize(len) .. len - 1)

\* Mutant: a token may end one byte past the buffer.
Fits_OneOver(len) == w + len <= cap + 1

Fits(len) == w + len <= cap

TailCopy ==
    /\ mode = "tail"
    /\ i < Len(codes) /\ InRange(codes[i + 1])
    /\ LET len == TokenLen(dict, codes[i + 1])
       IN  /\ Fits(len)
           /\ out' = Stored(w, Chunk(dict, codes[i + 1]), CopiedCells(len))
           /\ w' = w + len
    /\ i' = i + 1
    /\ UNCHANGED <<dict, codes, cap, mode, end>>

TooSmall ==
    /\ mode = "tail"
    /\ i < Len(codes) /\ InRange(codes[i + 1])
    /\ ~Fits(TokenLen(dict, codes[i + 1]))
    /\ mode' = "too_small"
    /\ UNCHANGED <<dict, codes, cap, w, i, end, out>>

BadCode ==
    /\ \/ mode \in {"unchecked", "tail"} /\ i < Len(codes)
       \/ mode = "batch" /\ i < end
    /\ ~InRange(codes[i + 1])
    /\ mode' = "panic"
    /\ UNCHANGED <<dict, codes, cap, w, i, end, out>>

Finish ==
    /\ mode \in {"unchecked", "tail"}
    /\ i = Len(codes)
    /\ mode' = "ok"
    /\ UNCHANGED <<dict, codes, cap, w, i, end, out>>

Next ==
    \/ UncheckedStore \/ StartBatch \/ BatchStore \/ EndBatch \/ StartTail
    \/ TailCopy \/ TooSmall \/ BadCode \/ Finish

Spec == Init /\ [][Next]_vars

-----------------------------------------------------------------------------
(***************************************************************************)
(* Properties.                                                             *)
(***************************************************************************)

\* Every variable of the decoder has its type.
TypeOK ==
    /\ dict \in Dictionaries /\ codes \in Seq(Nat) /\ cap \in Nat
    /\ mode \in {"unchecked", "round", "batch", "tail", "ok", "too_small", "panic"}
    /\ w \in Nat /\ i \in 0 .. Len(codes) /\ end \in 0 .. Len(codes)
    /\ \A k \in DOMAIN out : k \in Nat /\ out[k] \in Byte

\* No store, over-copying ones included, reaches past the buffer, in a batch
\* taken from a stale cursor as little as in the tail (decoding/mod.rs, the
\* SAFETY comment of the fast path).
InBounds == DOMAIN out \subseteq 0 .. cap - 1

\* The same, with the type of every variable.
StoresInBounds == TypeOK /\ InBounds

\* Whatever earlier over-copies left behind, the bytes before the cursor are
\* those of the tokens decoded so far.
DecodedSoFar ==
    /\ w = DecodedLen(dict, codes, i)
    /\ \A j \in 1 .. i : \A k \in 1 .. TokenLen(dict, codes[j]) :
        LET cell == DecodedLen(dict, codes, j - 1) + k - 1
        IN  cell \in DOMAIN out /\ out[cell] = TokenBytes(dict, codes[j])[k]

\* The buffer is refused exactly when the decompressed bytes do not fit it: no
\* slack is asked for (decoding/mod.rs: "a buffer of exactly the decompressed
\* length suffices").
TooSmallIsExact ==
    /\ mode = "too_small" => DecodedLen(dict, codes, i + 1) > cap
    /\ mode = "ok" => i = Len(codes) /\ DecodedLen(dict, codes, i) <= cap
=============================================================================
