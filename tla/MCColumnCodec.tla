--------------------------- MODULE MCColumnCodec ---------------------------
(***************************************************************************)
(* ColumnCodec at the program's own token size, 16.  Decoder is run on     *)
(* stored codes: every stream of up to three, one of which may name no     *)
(* token.  Two parsers encode arrays of all ascending offsets, past the    *)
(* bytes too, and lists of rows, one of which has more codes than an       *)
(* offset can count.  The buffers are too short, exact, and long enough    *)
(* for any path.                                                           *)
(***************************************************************************)
EXTENDS ColumnCodec

\* The tokens one after the other; the last is followed by the read padding.
Sealed(vocab) ==
    [bytes   |-> Flat(vocab) \o [n \in 1 .. MaxTokenSize |-> 0],
     offsets |-> [n \in 1 .. Len(vocab) + 1 |-> ByteCount(vocab, n - 1)]]

Long == <<0, 1, 1, 0, 1, 0, 1, 1, 1, 0, 0, 1, 0, 1, 1, 0>>

MCVocabularies ==
    { << <<0>>, Long, <<1>>, <<1, 0, 0, 1, 1>> >>,
      << <<0>>, SubSeq(Long, 1, 3), <<1>>, SubSeq(Long, 3, 13)>> }

MCParsers == {[vocab |-> v, dict |-> Sealed(v)] : v \in MCVocabularies}

MCDictionaries == {p.dict : p \in MCParsers}

\* Offsets into the bytes, and one past them.
MCArrays ==
    {[bytes |-> <<1>> \o Long \o <<0>>, offsets |-> offsets] :
        offsets \in {s \in UNION {[1 .. n -> {0, 1, 17, 18, 19}] : n \in 0 .. 3} :
                        Ascending(s)}}

MCRowLists ==
    { <<>>, << <<>> >>, << <<1, 0, 0, 1, 1>>, <<>>, <<0, 1>> >>, << Long, <<1, 1>> >>,
      << [n \in 1 .. 9 |-> 0], [n \in 1 .. 8 |-> 1], <<0, 0, 1, 1>> >> }

\* Every column there is, and the streams decoded from it.
MCColumns ==
    {Encoded(p, RowsOf(a), Cleared(Empty)) : p \in MCParsers, a \in {b \in MCArrays : Valid(b)}}
    \cup {Encoded(p, rows, Cleared(Empty)) : p \in MCParsers, rows \in MCRowLists}

MCCodeStreams ==
    UNION {[1 .. n -> 0 .. 4] : n \in 0 .. 3}
    \cup {c.codes : c \in MCColumns}
    \cup UNION {{RowCodes(c, k) : k \in {n \in 0 .. NumRows(c) - 1 : ~BadRow(c, n)}} :
                    c \in MCColumns}

MCCapacities == (0 .. 50) \cup (63 .. 65)
=============================================================================
