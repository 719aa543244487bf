-------------------------- MODULE SealedDictionary --------------------------
(***************************************************************************)
(* Dictionaries as the decoder reads them (core/dictionary): records of    *)
(* bytes and offsets, token id at offsets[id] up to offsets[id + 1], with  *)
(* enough bytes behind every token start for a read of MaxTokenSize.       *)
(***************************************************************************)
EXTENDS ByteStrings

TokenCount(d) == Len(d.offsets) - 1
TokenStart(d, code) == d.offsets[code + 1]
TokenLen(d, code) == d.offsets[code + 2] - d.offsets[code + 1]

\* The MaxTokenSize bytes read at a token, its own and some that follow it.
\* token_ptr and copy16 read nothing else.
Chunk(d, code) == Slice(d.bytes, TokenStart(d, code), TokenStart(d, code) + MaxTokenSize)

TokenBytes(d, code) == Slice(d.bytes, TokenStart(d, code), d.offsets[code + 2])

\* What a DictionaryView guarantees: DictionaryValidation says how.
Readable(d) ==
    /\ d.bytes \in ByteSeq
    /\ d.offsets \in Seq(Nat)
    /\ Len(d.offsets) >= 1
    /\ \A code \in 0 .. TokenCount(d) - 1 :
        /\ TokenLen(d, code) \in 1 .. MaxTokenSize
        /\ TokenStart(d, code) + MaxTokenSize <= Len(d.bytes)
=============================================================================
