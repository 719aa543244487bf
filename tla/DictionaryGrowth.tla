-------------------------- MODULE DictionaryGrowth --------------------------
(***************************************************************************)
(* What training promises about the dictionary, with nothing said of how   *)
(* pairs are found: it starts as the single-byte tokens, grows one token   *)
(* at a time, each the concatenation of two tokens it already holds and    *)
(* new to it, never beyond its capacity, and then stops for good.          *)
(***************************************************************************)
EXTENDS ByteStrings

CONSTANT DictCapacity

VARIABLES
    tokens,     \* the tokens in creation order: position i holds id i - 1
    complete    \* training has ended

vars == <<tokens, complete>>

Held == {tokens[i] : i \in DOMAIN tokens}

Init ==
    /\ tokens = [i \in 1 .. NumBytes |-> <<i - 1>>]
    /\ complete = FALSE

Grow ==
    /\ ~complete
    /\ Len(tokens) < DictCapacity
    /\ \E a, b \in Held :
        /\ Len(a) + Len(b) <= MaxTokenSize
        /\ a \o b \notin Held
        /\ tokens' = Append(tokens, a \o b)
    /\ UNCHANGED complete

Complete ==
    /\ ~complete
    /\ complete' = TRUE
    /\ UNCHANGED tokens

Next == Grow \/ Complete

Spec == Init /\ [][Next]_vars
=============================================================================
