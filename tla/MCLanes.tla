------------------------------ MODULE MCLanes ------------------------------
(***************************************************************************)
(* Lanes with two byte values and two dictionaries, one whose longest      *)
(* token spans the ends of many rows, on every corpus of up to two rows of *)
(* up to three bytes, three of up to two and four of up to one: more rows  *)
(* than lanes, empty rows, empty lanes, rows larger than a batch.          *)
(***************************************************************************)
EXTENDS Lanes

MCVocabularies ==
    { << <<0>>, <<0, 0>>, <<0, 0, 1>>, <<1>> >>,
      << <<0>>, <<1>>, <<1, 0>> >> }

Strings(n) == UNION {[1 .. k -> Byte] : k \in 0 .. n}

MCCorpora ==
    UNION {[1 .. n -> Strings(3)] : n \in 0 .. 2}
        \cup [1 .. 3 -> Strings(2)] \cup [1 .. 4 -> Strings(1)]

\* One more than the largest offset into the bytes, as the offsets of an Arrow
\* array are wide enough for its bytes.
MCOffsetLimit == 9
=============================================================================
