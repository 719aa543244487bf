------------------------------ MODULE MCColumn ------------------------------
(***************************************************************************)
(* Column with two byte values: every row of up to four bytes encoded with *)
(* each of three dictionaries, pairs of them, codes that no encoder        *)
(* produced, and row offsets that are missing, decrease, overlap or reach  *)
(* past the codes.                                                         *)
(***************************************************************************)
EXTENDS Column

InOrder(S) ==
    [n \in 1 .. Cardinality(S) |->
        CHOOSE t \in S : Cardinality({u \in S : LexLess(u, t)}) = n - 1]

MCVocabularies ==
    {InOrder(SingleByteTokens \cup S) :
        S \in { {<<0, 1>>}, {<<0, 0>>, <<0, 0, 1>>, <<1, 0>>},
                {<<0, 1>>, <<0, 1, 1>>, <<1, 0>>, <<1, 1>>} }}

MCRows == UNION {[1 .. n -> Byte] : n \in 0 .. 4}

EncodedView(vocab, r1, r2) ==
    LET c1 == Greedy(vocab, r1)
        c2 == Greedy(vocab, r2)
    IN  [vocab |-> vocab, codes |-> c1 \o c2,
         rowOffsets |-> <<0, Len(c1), Len(c1) + Len(c2)>>]

MCViews ==
    {EncodedView(vocab, r1, r2) :
        vocab \in MCVocabularies, r1 \in MCRows, r2 \in {<<>>, <<0, 1, 1>>}}
    \cup {[vocab |-> vocab, codes |-> codes, rowOffsets |-> offsets] :
            vocab \in MCVocabularies, codes \in {<<0, 1, 2>>, <<2, 9>>, <<>>},
            offsets \in {<<>>} \cup UNION {[1 .. n -> {0, 1, 3, 4}] : n \in 1 .. 3}}

MCNeedles == UNION {[1 .. n -> Byte] : n \in 0 .. 4}
=============================================================================
