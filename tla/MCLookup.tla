------------------------------ MODULE MCLookup ------------------------------
(***************************************************************************)
(* Lookup with two byte values and tokens of up to three bytes: conformant *)
(* dictionaries of two to nine tokens, sorted ones without all bytes,      *)
(* unsorted ones, and texts of up to five bytes.                           *)
(***************************************************************************)
EXTENDS Lookup

InOrder(S) ==
    [n \in 1 .. Cardinality(S) |->
        CHOOSE t \in S : Cardinality({u \in S : LexLess(u, t)}) = n - 1]

MCDictionaries ==
    {InOrder(SingleByteTokens \cup S) :
        S \in { {}, {<<0, 1>>}, {<<0, 1, 1>>, <<1, 1>>}, {<<1, 0>>, <<1, 0, 0>>, <<1, 0, 1>>},
                {<<0, 0, 0>>, <<0, 0, 1>>, <<0, 1>>, <<1, 0>>, <<1, 1>>, <<1, 1, 0>>, <<1, 1, 1>>} }}
    \cup {<< <<1, 0>> >>, << <<0, 0, 0>>, <<1>> >>, << <<0, 1>>, <<1>>, <<1, 0>> >>}
    \cup {<< <<1>>, <<0>> >>, << <<0, 1>>, <<0>>, <<1, 1>>, <<0>> >>}

MCTexts == UNION {[1 .. n -> Byte] : n \in 0 .. 4} \cup {<<0, 1>> \o s : s \in [1 .. 3 -> Byte]}
=============================================================================
