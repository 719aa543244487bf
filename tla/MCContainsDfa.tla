--------------------------- MODULE MCContainsDfa ---------------------------
(***************************************************************************)
(* ContainsDfa with two byte values: a complete dictionary, one with many  *)
(* tokens, one without all bytes; every pattern of up to four bytes, one   *)
(* with nested borders, and one too long; and rows of up to three codes,   *)
(* greedy or not, some of them outside the dictionary.                     *)
(***************************************************************************)
EXTENDS ContainsDfa

InOrder(S) ==
    [n \in 1 .. Cardinality(S) |->
        CHOOSE t \in S : Cardinality({u \in S : LexLess(u, t)}) = n - 1]

MCDictionaries ==
    {InOrder(S) :
        S \in { {<<0>>, <<1>>, <<0, 1>>, <<1, 0>>},
                {<<0>>, <<1>>, <<0, 0>>, <<0, 1, 0>>, <<0, 1, 1>>, <<1, 0, 1>>, <<1, 1>>},
                {<<0>>, <<0, 0>>, <<0, 0, 1>>, <<0, 1, 0>>} }}

MCPatterns ==
    UNION {[1 .. n -> Byte] : n \in 0 .. 4} \cup {<<0, 0, 1, 0, 0, 0>>, <<1, 0, 1, 1, 0, 1, 0>>}

MCCodeRows == UNION {[1 .. n -> 0 .. 7] : n \in 0 .. 2} \cup [1 .. 3 -> {1, 2, 3, 6}]
=============================================================================
