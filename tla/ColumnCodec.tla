----------------------------- MODULE ColumnCodec -----------------------------
(***************************************************************************)
(* The library's front door (src/src/encoding/parser.rs, column/mod.rs):   *)
(* rows are encoded into a column, and the column or one of its rows is    *)
(* decompressed.  The column's buffers may be the caller's, reused from    *)
(* call to call; its row offsets have the width the caller chose.          *)
(*                                                                         *)
(* Encoding is one step here: Lanes shows that it appends the greedy codes *)
(* of each row.  Decompression is Decoder, step by step.  Any trained      *)
(* parser may encode any rows.  The wide form of a dictionary, which       *)
(* decompressing a column reads, holds the same chunks and lengths as the  *)
(* compact one (DictionaryValidation).                                     *)
(***************************************************************************)
EXTENDS Decoder, Vocabulary

CONSTANTS
    Parsers,        \* trained encoders: a vocabulary and its sealed dictionary
    Arrays,         \* Arrow pairs, records of bytes and offsets; they may be invalid
    RowLists,       \* rows that are not contiguous
    OffsetLimit     \* an offset's width: it holds the values below OffsetLimit

Ascending(offsets) == \A m, n \in 1 .. Len(offsets) : m < n => offsets[m] <= offsets[n]

\* A debug build asserts that an array's offsets ascend; without that the pair
\* breaks Arrow's own contract.
ASSUME ColumnCodecAssumption ==
    /\ \A p \in Parsers :
        /\ Conforms(p.vocab) /\ p.dict \in Dictionaries
        /\ p.vocab = [n \in 1 .. TokenCount(p.dict) |-> TokenBytes(p.dict, n - 1)]
    /\ OffsetLimit \in Nat \ {0}
    /\ \A a \in Arrays :
        a.bytes \in ByteSeq /\ a.offsets \in Seq(0 .. OffsetLimit - 1) /\ Ascending(a.offsets)
    /\ RowLists \subseteq Seq(ByteSeq)

VARIABLES
    column,     \* its dictionary, codes and row offsets
    input,      \* what the column was encoded from, as an array
    asked,      \* the rows last decompressed, from .. to - 1
    answer      \* "stored": codes from storage are decoded; otherwise how the last
                \* call of the column's user ended: "ok", "invalid_arg", "panic"

decoder == <<dict, codes, cap, mode, w, i, end, out>>
codecVars == <<decoder, column, input, asked, answer>>

\* Buffers that no call has filled yet.
Empty == [codes |-> <<>>, rowOffsets |-> <<>>]

CodecInit ==
    /\ Init
    /\ column = [dict |-> dict, codes |-> <<>>, rowOffsets |-> <<>>]
    /\ input = [bytes |-> <<>>, offsets |-> <<0>>]
    /\ asked = <<0, 0>>
    /\ answer = "stored"

-----------------------------------------------------------------------------
(***************************************************************************)
(* Encoding.                                                               *)
(***************************************************************************)

\* validate_offsets.
Valid(a) == a.offsets # <<>> /\ a.offsets[Len(a.offsets)] <= Len(a.bytes)

\* ArrowRows::row, and the rows of an array.
Row(a, n) == Slice(a.bytes, a.offsets[n], a.offsets[n + 1])
RowsOf(a) == [n \in 1 .. Len(a.offsets) - 1 |-> Row(a, n)]

\* from_usize: an offset too wide for its type is truncated.
FromUsize(n) == n % OffsetLimit

\* The rows' codes and their ends, behind what the buffers hold; the parser's
\* dictionary goes with them.
Encoded(p, rows, buffers) ==
    LET base == Len(buffers.codes)
        ends == OffsetsOf(p.vocab, rows, Len(rows))
    IN  [dict       |-> p.dict,
         codes      |-> buffers.codes \o CodesOf(p.vocab, rows, Len(rows)),
         rowOffsets |-> buffers.rowOffsets
                            \o [n \in 1 .. Len(rows) |-> FromUsize(base + ends[n + 1])]]

\* parse_rows_into: reused buffers are cleared, and the first row starts at zero.
\* Mutant: the codes of the call before stay.
Cleared_CodesStay(buffers) == [buffers EXCEPT !.rowOffsets = <<0>>]

Cleared(buffers) == [codes |-> <<>>, rowOffsets |-> <<0>>]

\* No decompression is under way, and the buffers of the last are gone.
Idle == mode = "ok" /\ cap = 0 /\ codes = <<>>

\* Parser::parse and compress.
Parse ==
    \E p \in Parsers, a \in Arrays :
        /\ Idle
        /\ Valid(a)
        /\ column' = Encoded(p, RowsOf(a), Cleared(Empty))
        /\ input' = a
        /\ asked' = <<0, 0>> /\ answer' = "ok"
        /\ UNCHANGED decoder

\* They, and Parser::train, refuse an array that its bytes do not hold.
Refuse ==
    \E a \in Arrays :
        /\ Idle
        /\ ~Valid(a)
        /\ asked' = <<0, 0>> /\ answer' = "invalid_arg"
        /\ UNCHANGED <<decoder, column, input>>

\* Parser::parse_rows, compress_rows, and parse_rows_into with the buffers of the
\* column before.
ParseRows ==
    \E p \in Parsers, rows \in RowLists, buffers \in {Empty, column} :
        /\ Idle
        /\ column' = Encoded(p, rows, Cleared(buffers))
        /\ input' = [bytes |-> Flat(rows),
                     offsets |-> [n \in 1 .. Len(rows) + 1 |-> ByteCount(rows, n - 1)]]
        /\ asked' = <<0, 0>> /\ answer' = "ok"
        /\ UNCHANGED decoder

-----------------------------------------------------------------------------
(***************************************************************************)
(* Decompression.                                                          *)
(***************************************************************************)

\* Some codes of the column are decoded into a buffer of any length: with the
\* check, or without it under the caller's promise.
Decode(slice) ==
    /\ dict' = column.dict /\ codes' = slice /\ cap' \in Capacities
    /\ w' = 0 /\ i' = 0 /\ end' = 0
    /\ out' = [k \in {} |-> 0]
    /\ \/ mode' = Dispatch'
       \/ mode' = "unchecked" /\ Promised'
    /\ UNCHANGED <<column, input>>

DecompressColumn ==
    /\ Idle
    /\ asked' = <<0, NumRows(column)>> /\ answer' = "ok"
    /\ Decode(column.codes)

DecompressRow ==
    \E k \in 0 .. NumRows(column) - 1 :
        /\ Idle
        /\ ~BadRow(column, k)
        /\ asked' = <<k, k + 1>> /\ answer' = "ok"
        /\ Decode(RowCodes(column, k))

\* row_codes of a row that is not there, or whose offsets are no slice.
RowPanic ==
    \E k \in 0 .. NumRows(column) :
        /\ Idle
        /\ k < NumRows(column) => BadRow(column, k)
        /\ asked' = <<k, k + 1>> /\ answer' = "panic"
        /\ UNCHANGED <<decoder, column, input>>

DecoderStep == Next /\ UNCHANGED <<column, input, asked, answer>>

\* The caller is done with the bytes.
Release ==
    /\ mode \in {"ok", "too_small", "panic"} /\ ~Idle
    /\ dict' = column.dict /\ codes' = <<>> /\ cap' = 0 /\ mode' = "ok"
    /\ w' = 0 /\ i' = 0 /\ end' = 0
    /\ out' = [k \in {} |-> 0]
    /\ asked' = <<0, 0>> /\ answer' = "ok"
    /\ UNCHANGED <<column, input>>

CodecNext ==
    \/ Parse \/ Refuse \/ ParseRows
    \/ DecompressColumn \/ DecompressRow \/ RowPanic
    \/ DecoderStep \/ Release

CodecSpec == CodecInit /\ [][CodecNext]_codecVars

-----------------------------------------------------------------------------
(***************************************************************************)
(* Properties.                                                             *)
(***************************************************************************)

\* The bytes of the rows asked for, in the original input.
Wanted == Slice(input.bytes, input.offsets[asked[1] + 1], input.offsets[asked[2] + 1])

\* Every row offset holds the number it was made from.
Addressable == Len(column.codes) < OffsetLimit

\* Rows come back as they went in, one by one and all together, whatever buffers
\* they were encoded into, whichever bytes of an array lie outside its rows, and in
\* any output buffer that holds them; a smaller one is refused, never filled with
\* other bytes, and no row panics.  Offsets as wide as an input array's own always
\* suffice; for other inputs it is the caller who sees to that (parser.rs,
\* parse_rows_into; lib.rs, compress).
RoundTripIsExact ==
    /\ Len(input.bytes) < OffsetLimit => Addressable
    /\ answer = "ok" /\ Addressable =>
        /\ mode = "ok" => w = Len(Wanted) /\ \A k \in 1 .. w : out[k - 1] = Wanted[k]
        /\ mode = "too_small" => cap < Len(Wanted)
        /\ mode # "panic"
    /\ answer = "panic" /\ Addressable => asked[1] = NumRows(column)
=============================================================================
