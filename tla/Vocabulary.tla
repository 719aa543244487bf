----------------------------- MODULE Vocabulary -----------------------------
(***************************************************************************)
(* Dictionaries as the encoding and the search side see them: sequences of *)
(* tokens, token id at index id + 1, sorted, unique and complete, and the  *)
(* greedy choice of a code that both of them must agree on.                *)
(*                                                                         *)
(* And the rows of a column (src/src/column/mod.rs): row n's codes end at  *)
(* the offset behind the one at which they start.  The offsets may come    *)
(* from storage; they are checked row by row, as rows are looked at.       *)
(***************************************************************************)
EXTENDS ByteStrings

Ids(vocab) == 0 .. Len(vocab) - 1

TokensOf(vocab) == {vocab[k] : k \in 1 .. Len(vocab)}

Sorted(vocab) == \A j, k \in 1 .. Len(vocab) : j < k => LexLess(vocab[j], vocab[k])

\* What training and validation establish.
Conforms(vocab) ==
    /\ vocab \in Seq(Token)
    /\ SingleByteTokens \subseteq TokensOf(vocab)
    /\ Sorted(vocab)

\* The id of the longest token at a position of a row.
CodeAt(vocab, row, at) ==
    CHOOSE id \in Ids(vocab) : vocab[id + 1] = LongestMatch(TokensOf(vocab), row, at)

\* The greedy codes of what is left of a row, from every position on.
GreedyFrom(vocab, row) ==
    LET from[at \in 0 .. Len(row)] ==
            IF at = Len(row) THEN <<>>
            ELSE LET code == CodeAt(vocab, row, at)
                 IN  <<code>> \o from[at + Len(vocab[code + 1])]
    IN  from

\* Those of the whole row.
Greedy(vocab, row) == GreedyFrom(vocab, row)[0]

\* The tokens that codes stand for.
Spelled(vocab, codes) == [n \in 1 .. Len(codes) |-> vocab[codes[n] + 1]]

\* The codes of the first n rows, and the offsets at which each of them ends.
CodesOf(vocab, rows, n) == FlatTo([k \in 1 .. Len(rows) |-> Greedy(vocab, rows[k])])[n]
OffsetsOf(vocab, rows, n) ==
    [k \in 1 .. n + 1 |-> Len(CodesOf(vocab, rows, k - 1))]

-----------------------------------------------------------------------------
\* num_rows and row_codes of a column.
NumRows(column) ==
    IF column.rowOffsets = <<>> THEN 0 ELSE Len(column.rowOffsets) - 1

\* The bounds of a row are not those of a slice of the codes.
\* Mutant: only the end is checked.
BadRow_EndOnly(column, n) == column.rowOffsets[n + 2] > Len(column.codes)

BadRow(column, n) ==
    \/ column.rowOffsets[n + 2] < column.rowOffsets[n + 1]
    \/ column.rowOffsets[n + 2] > Len(column.codes)

RowCodes(column, n) ==
    SubSeq(column.codes, column.rowOffsets[n + 1] + 1, column.rowOffsets[n + 2])
=============================================================================
