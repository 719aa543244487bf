--------------------------- MODULE FrequencyIndex ---------------------------
(***************************************************************************)
(* A prefix-sum index of token frequencies                                 *)
(* (src/src/search/index/frequency.rs).  An index is a sequence whose      *)
(* element t + 1 counts the codes below token t, and whose last counts     *)
(* them all; what is refused is no index.                                  *)
(***************************************************************************)
EXTENDS Integers, Sequences, FiniteSets

CONSTANTS
    MaxTokens,      \* MAX_TOKENS
    MaxCodes        \* u32::MAX

ASSUME FrequencyAssumption == MaxTokens \in Nat /\ MaxCodes \in Nat

Refused == <<>>

\* Counted one token up, and then added up from the first.
build(codes, num_tokens) ==
    LET count(entry) == Cardinality({n \in DOMAIN codes : codes[n] + 2 = entry})
        sums[entry \in 1 .. num_tokens + 1] ==
            count(entry) + (IF entry = 1 THEN 0 ELSE sums[entry - 1])
    IN  IF \/ num_tokens > MaxTokens
           \/ Len(codes) > MaxCodes
           \/ \E n \in DOMAIN codes : codes[n] >= num_tokens
        THEN Refused ELSE sums

check_cumulative(cumulative) ==
    /\ cumulative # <<>>
    /\ Len(cumulative) <= MaxTokens + 1
    /\ cumulative[1] = 0
    /\ \A entry \in 1 .. Len(cumulative) - 1 : cumulative[entry] <= cumulative[entry + 1]

\* An index over stored sums, owned or borrowed.
new(cumulative) == IF check_cumulative(cumulative) THEN cumulative ELSE Refused

num_tokens(index) == Len(index) - 1

frequency(index, token) == index[token + 2] - index[token + 1]

range_frequency(index, begin, last) == index[last + 2] - index[begin + 1]

total_frequency(index) == index[Len(index)]
=============================================================================
