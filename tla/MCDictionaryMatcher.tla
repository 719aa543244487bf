------------------------ MODULE MCDictionaryMatcher ------------------------
(***************************************************************************)
(* DictionaryMatcher with two byte values, tokens of up to three bytes and *)
(* blocks of two keys: dictionaries of two to fourteen tokens, of one to   *)
(* eight blocks, with and without whole blocks and runs of the largest     *)
(* byte, searched for pairs of windows.                                    *)
(***************************************************************************)
EXTENDS DictionaryMatcher

\* The members of S in order, without trying all arrangements.
InOrder(S) ==
    [k \in 1 .. Cardinality(S) |->
        CHOOSE t \in S : Cardinality({u \in S : LexLess(u, t)}) = k - 1]

Longer == Token \ SingleByteTokens

MCVocabularies ==
    {InOrder(SingleByteTokens \cup S) :
        S \in { {}, {<<1, 1>>}, {<<1, 1, 1>>}, {<<0, 0>>, <<0, 0, 0>>, <<1, 1>>},
                {<<1, 0, 0>>, <<1, 0, 1>>}, {<<0, 1>>, <<0, 1, 0>>, <<0, 1, 1>>, <<1, 1, 0>>},
                {<<0, 0, 0>>, <<0, 0, 1>>, <<0, 1, 0>>, <<0, 1, 1>>, <<1, 1, 1>>},
                Longer \ {<<1, 1>>}, Longer }}

Inputs ==
    {[data |-> d, win |-> w] : d \in [1 .. 3 -> Byte], w \in 1 .. 3}
        \cup {[data |-> d, win |-> 1] : d \in {<<>>, <<1>>}}
        \cup {[data |-> <<1, 1>>, win |-> w] : w \in 1 .. 2}

Partners ==
    {[data |-> <<0, 0, 0>>, win |-> 3], [data |-> <<0, 1, 1>>, win |-> 2],
     [data |-> <<1, 1, 1>>, win |-> 3], [data |-> <<>>, win |-> 1]}

MCSearches == {<<a, b>> : a \in Inputs, b \in Partners}
=============================================================================
