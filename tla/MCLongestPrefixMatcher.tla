---------------------- MODULE MCLongestPrefixMatcher ----------------------
(***************************************************************************)
(* LongestPrefixMatcher with words of four bytes of two values, buckets    *)
(* promoted at the third entry, and up to five insertions, in any order,   *)
(* among tokens that share words, lengths and trailing zeros.              *)
(***************************************************************************)
EXTENDS LongestPrefixMatcher

Zeros(n) == [k \in 1 .. n |-> 0]

MCInsertable ==
    {Zeros(n) : n \in {2, 4, 5, 6}}
        \cup {Zeros(4) \o s : s \in {<<1>>, <<0, 1>>, <<1, 0>>, <<1, 0, 1, 0>>}}
        \cup {<<0, 0, 1>>, <<1, 0, 0, 0, 0>>}

Strings(m, n) == UNION {[1 .. k -> Byte] : k \in m .. n}

MCWindows ==
    Strings(1, 3) \cup {Zeros(4) \o s : s \in Strings(0, 3)}
        \cup {Zeros(4) \o s : s \in {<<0, 0, 0, 0>>, <<0, 0, 0, 1, 1>>, <<1, 0, 1, 0, 0>>}}
        \cup {<<1, 0, 0, 0>> \o s : s \in Strings(0, 1)}
=============================================================================
