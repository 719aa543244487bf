------------------------------- MODULE Lookup -------------------------------
(***************************************************************************)
(* Search-side lookup in a dictionary (src/src/search/lookup.rs and        *)
(* tokenize.rs): tokenize, which repeats longest_prefix, and prefix_range, *)
(* both of which narrow a range of token ids byte by byte with two binary  *)
(* searches.  A dictionary that only passed the safety checks may be       *)
(* unsorted or incomplete; the calls must end on it all the same.          *)
(*                                                                         *)
(*   "tokens"  the loop of tokenize;                                       *)
(*   "bytes"   the loop over bytes of longest_prefix or prefix_range;      *)
(*   "lower", "upper"  the binary searches of narrow;                      *)
(*   "emit"    longest_prefix returns to tokenize;                         *)
(*   "done"    the call has returned.                                      *)
(***************************************************************************)
EXTENDS Vocabulary

CONSTANTS
    Dictionaries,   \* that validate_safety accepts
    Texts

ASSUME LookupAssumption ==
    /\ Dictionaries \subseteq Seq(Token) \ {<<>>}
    /\ Texts \subseteq ByteSeq

VARIABLES
    dict, text,     \* the arguments
    op,             \* the call: "tokenize" or "prefix_range"
    mode,
    pos, codes,     \* of tokenize
    k,              \* bytes narrowed by
    range,          \* TokenRange: ids begin to last, none if begin > last
    longest,        \* the longest token found, None if none is
    lo, hi, first   \* of narrow

call == <<dict, text, op>>
vars == <<call, mode, pos, codes, k, range, longest, lo, hi, first>>

None == -1

Empty == [begin |-> 1, last |-> 0]
All == [begin |-> 0, last |-> Len(dict) - 1]
IsEmpty(r) == r.begin > r.last

TokenLen(t) == Len(dict[t + 1])

Init ==
    /\ dict \in Dictionaries /\ text \in Texts
    /\ op \in {"tokenize", "prefix_range"}
    /\ mode = IF op = "tokenize" THEN "tokens" ELSE "bytes"
    /\ pos = 0 /\ codes = <<>>
    /\ k = 0 /\ range = All /\ longest = None
    /\ lo = 0 /\ hi = 0 /\ first = 0

StartLongestPrefix ==
    /\ mode = "tokens"
    /\ pos < Len(text)
    /\ k' = 0 /\ range' = All /\ longest' = None
    /\ mode' = "bytes"
    /\ UNCHANGED <<call, pos, codes, lo, hi, first>>

FinishTokenize ==
    /\ mode = "tokens"
    /\ pos >= Len(text)
    /\ mode' = "done"
    /\ UNCHANGED <<call, pos, codes, k, range, longest, lo, hi, first>>

\* The bytes that are narrowed by: tokenize takes MaxTokenSize at most.
Limit ==
    IF op = "tokenize" /\ Len(text) - pos > MaxTokenSize THEN MaxTokenSize
    ELSE Len(text) - pos

Return == IF op = "tokenize" THEN "emit" ELSE "done"

StartNarrow ==
    /\ mode = "bytes"
    /\ k < Limit
    /\ lo' = range.begin /\ hi' = range.last
    /\ mode' = "lower"
    /\ UNCHANGED <<call, pos, codes, k, range, longest, first>>

EndOfBytes ==
    /\ mode = "bytes"
    /\ k = Limit
    /\ mode' = Return
    /\ UNCHANGED <<call, pos, codes, k, range, longest, lo, hi, first>>

Target == text[pos + k + 1]

\* The token's byte k is below the target, or not there.
Below(t) == TokenLen(t) <= k \/ dict[t + 1][k + 1] < Target

\* The same with the target itself.
UpToTarget(t) == TokenLen(t) <= k \/ dict[t + 1][k + 1] <= Target

Middle == lo + (hi - lo) \div 2

\* Mutant: the middle is searched again.
LoAfter_Same(mid) == mid

LoAfter(mid) == mid + 1

HiAfter(mid) == mid

LowerStep ==
    /\ mode = "lower"
    /\ lo < hi
    /\ IF Below(Middle)
       THEN lo' = LoAfter(Middle) /\ UNCHANGED hi
       ELSE hi' = HiAfter(Middle) /\ UNCHANGED lo
    /\ UNCHANGED <<call, mode, pos, codes, k, range, longest, first>>

\* The upper search ends where the first one began to.
\* Mutant: it begins where the first one ended.
UpperEnd_Kept == hi

UpperEnd == range.last

\* The first token with the target is found, or there is none.
LowerEnd ==
    /\ mode = "lower"
    /\ lo >= hi
    /\ IF TokenLen(lo) <= k \/ dict[lo + 1][k + 1] # Target
       THEN /\ range' = Empty
            /\ mode' = Return
            /\ UNCHANGED <<hi, first>>
       ELSE /\ first' = lo
            /\ hi' = UpperEnd
            /\ mode' = "upper"
            /\ UNCHANGED range
    /\ UNCHANGED <<call, pos, codes, k, longest, lo>>

UpperStep ==
    /\ mode = "upper"
    /\ lo < hi
    /\ IF UpToTarget(Middle)
       THEN lo' = LoAfter(Middle) /\ UNCHANGED hi
       ELSE hi' = HiAfter(Middle) /\ UNCHANGED lo
    /\ UNCHANGED <<call, mode, pos, codes, k, range, longest, first>>

\* Where the search ended, or one before.
LastId == IF UpToTarget(lo) THEN lo ELSE lo - 1

\* The token that is the bytes narrowed by sorts first in its range.
\* Mutant: the last one is looked at.
Longest_Last(r) == IF TokenLen(r.last) = k + 1 THEN r.last ELSE longest

Longest(r) == IF TokenLen(r.begin) = k + 1 THEN r.begin ELSE longest

\* narrow returns, not empty, to a loop that looks for a token equal to the bytes.
UpperEndReached ==
    /\ mode = "upper"
    /\ lo >= hi
    /\ range' = [begin |-> first, last |-> LastId]
    /\ longest' = IF op = "tokenize" THEN Longest(range') ELSE longest
    /\ k' = k + 1
    /\ mode' = "bytes"
    /\ UNCHANGED <<call, pos, codes, lo, hi, first>>

\* Token 0 stands in if no token matches.
Best == IF longest = None THEN 0 ELSE longest

EmitToken ==
    /\ mode = "emit"
    /\ codes' = Append(codes, Best)
    /\ pos' = pos + TokenLen(Best)
    /\ mode' = "tokens"
    /\ UNCHANGED <<call, k, range, longest, lo, hi, first>>

Next ==
    \/ StartLongestPrefix \/ FinishTokenize \/ EmitToken
    \/ StartNarrow \/ EndOfBytes
    \/ LowerStep \/ LowerEnd \/ UpperStep \/ UpperEndReached

Spec == Init /\ [][Next]_vars

\* A call is sequential.
FairSpec == Spec /\ WF_vars(Next)

-----------------------------------------------------------------------------
(***************************************************************************)
(* Properties.                                                             *)
(***************************************************************************)

\* Every variable has its type: a range that is not empty, and the bounds of a
\* search, are token ids, on any safe dictionary.
TypeOK ==
    /\ dict \in Dictionaries /\ text \in Texts
    /\ op \in {"tokenize", "prefix_range"}
    /\ mode \in {"tokens", "bytes", "lower", "upper", "emit", "done"}
    /\ pos \in Nat /\ codes \in Seq(Ids(dict))
    /\ k \in 0 .. Len(text)
    /\ range \in [begin : Ids(dict), last : Ids(dict)] \cup {Empty}
    /\ longest \in Ids(dict) \cup {None}
    /\ lo \in Ids(dict) /\ hi \in Ids(dict) /\ first \in Ids(dict)

\* Token t starts with the first n bytes of the rest of the text.
Agrees(t, n) == TokenLen(t) >= n /\ StartsAt(text, pos, SubSeq(dict[t + 1], 1, n))

Within(r) == {t \in Ids(dict) : r.begin <= t /\ t <= r.last}

\* The searches never lose what they look for: in a sorted dictionary the tokens
\* before lo are all too low, and those behind hi are not, nor is hi once it moved.
\* On every dictionary, sorted or not, the ids that are compared exist.
SearchBrackets ==
    /\ TypeOK
    /\ Sorted(dict) => \A t \in Within(range) :
        LET behind == t > hi \/ (t = hi /\ hi < range.last)
        IN  CASE mode = "lower" -> (t < lo => Below(t)) /\ (behind => ~Below(t))
              [] mode = "upper" -> (t < lo => UpToTarget(t)) /\ (behind => ~UpToTarget(t))
              [] OTHER -> TRUE

\* In a sorted dictionary the range holds exactly the tokens that start with the
\* bytes narrowed by, is empty only if one more byte leaves none, and what
\* prefix_range returns in the end is exactly the tokens with the needle in front;
\* and the searches in between lose none of them.
RangeIsExact ==
    /\ SearchBrackets
    /\ Sorted(dict) =>
        /\ (mode \in {"bytes", "lower", "upper"}) =>
                Within(range) = {t \in Ids(dict) : Agrees(t, k)}
        /\ (mode \in {"emit", "done"} /\ IsEmpty(range)) =>
                \A t \in Ids(dict) : ~Agrees(t, k + 1)
        /\ (op = "prefix_range" /\ mode = "done") =>
                Within(range) = {t \in Ids(dict) : Agrees(t, Len(text))}

\* tokenize emits what the encoder would: with a conformant dictionary the codes
\* so far, and those of the rest, are the greedy codes of the text.
TokenizesGreedily ==
    (Conforms(dict) /\ op = "tokenize" /\ mode \in {"tokens", "done"}) =>
        /\ pos <= Len(text)
        /\ codes \o Greedy(dict, SubSeq(text, pos + 1, Len(text))) = Greedy(dict, text)

\* Every call ends, on any safe dictionary: no token is empty.
Terminates == <>(mode = "done")
=============================================================================
