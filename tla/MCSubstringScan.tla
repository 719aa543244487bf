-------------------------- MODULE MCSubstringScan --------------------------
(***************************************************************************)
(* SubstringScan with two byte values: a dictionary with few tokens, one   *)
(* whose overlaps are too many to list, one with tokens that hold others,  *)
(* and one without all bytes; patterns of up to four bytes, and longer     *)
(* ones; rows of up to six bytes in slices of longer columns, with codes   *)
(* around them that are in no dictionary, and malformed offsets.           *)
(***************************************************************************)
EXTENDS SubstringScan

InOrder(S) ==
    [n \in 1 .. Cardinality(S) |->
        CHOOSE t \in S : Cardinality({u \in S : LexLess(u, t)}) = n - 1]

Small == InOrder(SingleByteTokens \cup {<<0, 1>>, <<1, 0, 0>>})
Nested == InOrder(SingleByteTokens \cup {<<0, 0>>, <<0, 0, 0, 0>>, <<0, 1, 0>>, <<1, 0, 1, 0>>})
Crowded == InOrder(SingleByteTokens \cup
                   {<<0, 0>>, <<1, 0>>, <<0, 1, 0>>, <<0, 0, 1>>, <<1, 0, 1>>, <<1, 1, 0, 1>>})
Incomplete == InOrder({<<0>>, <<0, 0>>, <<0, 1, 0>>})

MCDictionaries == {Small, Nested, Crowded, Incomplete}

MCPatterns ==
    UNION {[1 .. n -> Byte] : n \in 0 .. 3}
    \cup {<<0, 0, 0, 0>>, <<0, 1, 0, 1>>, <<1, 0, 0, 1>>, <<0, 1, 0, 1, 0>>,
          <<0, 0, 0, 0, 0, 0>>}

MCRows == {<<0, 1, 0, 1, 0, 0>>, <<0, 0, 0, 0, 1, 0>>, <<1, 0, 1, 1, 0, 1>>,
           <<1, 1, 0, 0, 0, 0>>, <<0, 1, 0, 0, 1, 0>>, <<0, 0, 0, 1>>, <<1, 0>>, <<0, 1, 1>>, <<>>}

\* Two rows, with other codes before and behind them.
Sliced(v, r1, r2) ==
    LET c1 == Greedy(v, r1)
        c2 == Greedy(v, r2)
    IN  [vocab |-> v, codes |-> <<9, 0>> \o c1 \o c2 \o <<0, 9>>,
         rowOffsets |-> <<2, 2 + Len(c1), 2 + Len(c1) + Len(c2)>>]

MCViews ==
    {Sliced(v, r1, r2) : v \in MCDictionaries \ {Incomplete}, r1 \in MCRows, r2 \in MCRows}
    \cup {[vocab |-> v, codes |-> <<0, 9, 1, 2, 1>>, rowOffsets |-> offsets] :
            v \in {Small}, offsets \in {<<>>, <<3>>, <<4, 0>>, <<0, 6>>, <<0, 0, 1, 1, 1, 2, 3, 4, 5>>,
            <<0, 2, 1, 3, 0, 5>>, <<0, 1, 4, 2, 6, 5>>, <<0, 6, 5>>, <<1, 0, 3, 2, 4, 5>>}}

MCPrices == {[hit |-> 1, point |-> 0, range |-> 0], [hit |-> 1, point |-> 2, range |-> 3]}

\* Rows of one dictionary, all of its codes twice, and one that is in no dictionary.
MCSampled(v) ==
    {<<>>, <<0, 9>>, [n \in 1 .. 2 * Len(v) |-> (n - 1) \div 2]}
    \cup (IF Conforms(v) THEN {Greedy(v, r) : r \in MCRows} ELSE {})

PrefixSums(counts) ==
    LET sums[n \in 0 .. Len(counts)] == IF n = 0 THEN 0 ELSE sums[n - 1] + counts[n]
    IN  [n \in 1 .. Len(counts) + 1 |-> sums[n - 1]]

\* Of every dictionary whose tokens occur twice or not at all; of dictionaries with one
\* token more or less; and sums that are none: without the first zero, decreasing, for
\* more tokens than there can be.
MCStored(v) ==
    {PrefixSums(counts) : counts \in [1 .. Len(v) -> {0, 2}]}
    \cup {PrefixSums([n \in 1 .. Len(v) + 1 |-> 1]), PrefixSums([n \in 1 .. Len(v) - 1 |-> 1]),
          PrefixSums([n \in 1 .. MaxTokens + 1 |-> 1]), <<>>,
          [n \in 1 .. Len(v) + 1 |-> n], [n \in 1 .. Len(v) + 1 |-> n % 2],
          [n \in 1 .. Len(v) + 1 |-> IF n = 1 THEN 0 ELSE 10 - n]}
=============================================================================
