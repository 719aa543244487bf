--------------------------- MODULE GreedyEncoding ---------------------------
(***************************************************************************)
(* What parsing promises (Parser, encoding/parser.rs): each row is encoded *)
(* greedily and on its own, every code being the longest token that        *)
(* prefixes the rest of its row, and the codes of whole rows are appended  *)
(* in row order, with the offset at which each row's codes end.  Equality, *)
(* prefix and substring search over the codes rely on it.                  *)
(***************************************************************************)
EXTENDS Vocabulary

CONSTANTS
    Vocabularies,   \* dictionaries, as sequences of tokens: token id is at id + 1
    Corpora         \* sequences of rows

ASSUME GreedyAssumption ==
    /\ \A vocab \in Vocabularies : Conforms(vocab)
    /\ Corpora \subseteq Seq(ByteSeq)

VARIABLES vocab, rows, codes, rowOffsets

Delivered(n) ==
    codes = CodesOf(vocab, rows, n) /\ rowOffsets = OffsetsOf(vocab, rows, n)

GreedyInit ==
    /\ vocab \in Vocabularies /\ rows \in Corpora
    /\ Delivered(0)

\* Some more rows are encoded.
Deliver ==
    \E n \in Len(rowOffsets) .. Len(rows) :
        /\ codes' = CodesOf(vocab, rows, n)
        /\ rowOffsets' = OffsetsOf(vocab, rows, n)
        /\ UNCHANGED <<vocab, rows>>

GreedySpec == GreedyInit /\ [][Deliver]_<<vocab, rows, codes, rowOffsets>>
=============================================================================
