---------------------------- MODULE ContainsDfa ----------------------------
(***************************************************************************)
(* Substring search row by row (src/src/search/substring/dfa.rs): a        *)
(* byte-level KMP automaton lifted to tokens.  base holds every token's    *)
(* transition from state 0, sparse the token ranges whose transition from  *)
(* another state differs, found by walking the sorted dictionary as a      *)
(* trie.  The recursion of traverse is an explicit stack.                  *)
(*                                                                         *)
(*   "failure"   kmp_failure, one comparison per step;                     *)
(*   "base"      base_pass, one token per step;                            *)
(*   "state"     sparse_pass is about to start a state;                    *)
(*   "bytes"     it takes the next of the state's relevant bytes;          *)
(*   "traverse"  calls of traverse are pending;                            *)
(*   "ready"     the automaton is compiled;                                *)
(*   "row"       row_contains, one code per step; "answered" when it ends; *)
(*   "too_long"  compiling was refused.                                    *)
(***************************************************************************)
EXTENDS Vocabulary

CONSTANTS
    Vocabularies,       \* sorted dictionaries
    Patterns,
    MaxPatternLen,      \* State::MAX
    CodeRows            \* rows of codes, of any tokenization

ASSUME DfaAssumption ==
    /\ \A vocab \in Vocabularies : vocab \in Seq(Token) /\ Sorted(vocab)
    /\ Patterns \subseteq ByteSeq
    /\ MaxPatternLen \in Nat
    /\ CodeRows \subseteq Seq(Nat)

VARIABLES
    vocab, pattern,     \* the arguments
    phase,
    i, len, fail,       \* of kmp_failure; fail[n] is for a prefix of n bytes
    base,
    sparse, offsets,    \* exceptions [begin, last, target], and where a state's begin
    from,               \* the state of sparse_pass
    bytes,              \* its relevant bytes that are left
    rangeStart,         \* the number of exceptions when it began
    stack,              \* pending calls of traverse, the next one on top
    row, taken, state   \* of row_contains

compiled == <<i, len, fail, base, sparse, offsets, from, bytes, rangeStart, stack>>
scan == <<row, taken, state>>
dfa_vars == <<vocab, pattern, phase, compiled, scan>>

accept == Len(pattern)

\* The empty pattern needs no tables: the start state accepts.
DfaInit ==
    /\ vocab \in Vocabularies /\ pattern \in Patterns
    /\ phase = IF accept > MaxPatternLen THEN "too_long"
               ELSE IF accept = 0 THEN "ready" ELSE "failure"
    /\ i = 1 /\ len = 0
    /\ fail = [n \in 1 .. accept |-> 0]
    /\ base = <<>>
    /\ sparse = <<>> /\ offsets = [s \in 0 .. accept |-> 0]
    /\ from = 1 /\ bytes = <<>> /\ rangeStart = 0 /\ stack = <<>>
    /\ row = <<>> /\ taken = 0 /\ state = 0

\* After a mismatch the next shorter border is tried.
Shorter == fail[len]

FailureStep ==
    /\ phase = "failure"
    /\ i < accept
    /\ IF pattern[i + 1] = pattern[len + 1]
       THEN len' = len + 1 /\ fail' = [fail EXCEPT ![i + 1] = len + 1] /\ i' = i + 1
       ELSE IF len > 0
       THEN len' = Shorter /\ UNCHANGED <<i, fail>>
       ELSE fail' = [fail EXCEPT ![i + 1] = 0] /\ i' = i + 1 /\ UNCHANGED len
    /\ UNCHANGED <<vocab, pattern, phase, base, sparse, offsets, from, bytes, rangeStart,
                   stack, scan>>

FailureEnd ==
    /\ phase = "failure"
    /\ i >= accept
    /\ phase' = "base"
    /\ UNCHANGED <<vocab, pattern, compiled, scan>>

\* step_bytes for one byte.  Acceptance is final.
StepByte(s, b) ==
    LET fallback[r \in 0 .. accept - 1] ==
            IF r > 0 /\ pattern[r + 1] # b THEN fallback[fail[r]] ELSE r
        r == fallback[s]
    IN  IF s = accept THEN accept ELSE IF pattern[r + 1] = b THEN r + 1 ELSE r

StepBytes(s, data) ==
    LET after[n \in 0 .. Len(data)] == IF n = 0 THEN s ELSE StepByte(after[n - 1], data[n])
    IN  after[Len(data)]

\* A token without the pattern's first byte cannot leave state 0.
\* Mutant: only the token's own first byte is looked at.
Leaves_AtFirst(token) == token[1] = pattern[1]

Leaves(token) == \E n \in 1 .. Len(token) : token[n] = pattern[1]

BaseStep ==
    /\ phase = "base"
    /\ Len(base) < Len(vocab)
    /\ LET token == vocab[Len(base) + 1]
       IN  base' = Append(base, IF Leaves(token) THEN StepBytes(0, token) ELSE 0)
    /\ UNCHANGED <<vocab, pattern, phase, i, len, fail, sparse, offsets, from, bytes,
                   rangeStart, stack, scan>>

BaseEnd ==
    /\ phase = "base"
    /\ Len(base) = Len(vocab)
    /\ phase' = "state"
    /\ UNCHANGED <<vocab, pattern, compiled, scan>>

\* The states along the failure chain of a state, itself first, zero excluded.
Chain(s) ==
    LET along[r \in 0 .. accept - 1] == IF r = 0 THEN <<>> ELSE <<r>> \o along[fail[r]]
    IN  along[s]

\* The members of a set of numbers in order.
InAscendingOrder(S) ==
    CHOOSE q \in [1 .. Cardinality(S) -> S] :
        \A m, n \in 1 .. Cardinality(S) : m < n => q[m] < q[n]

\* The bytes on which the state can differ from state 0, in order and each once.
\* Mutant: only its own next byte.
Relevant_Own(s) == <<pattern[s + 1]>>

Relevant(s) == InAscendingOrder({pattern[Chain(s)[n] + 1] : n \in 1 .. Len(Chain(s))})

StartState ==
    /\ phase = "state"
    /\ from < accept
    /\ rangeStart' = Len(sparse)
    /\ offsets' = [offsets EXCEPT ![from] = Len(sparse)]
    /\ bytes' = Relevant(from)
    /\ phase' = "bytes"
    /\ UNCHANGED <<vocab, pattern, i, len, fail, base, sparse, from, stack, scan>>

Frame(tokens, depth, kmpJ, kmp0) ==
    [begin |-> tokens.begin, last |-> tokens.last, depth |-> depth, kmpJ |-> kmpJ, kmp0 |-> kmp0]

\* The range of a set of ids that is contiguous.
RangeOf(ids) ==
    [begin |-> CHOOSE t \in ids : \A u \in ids : t <= u,
     last |-> CHOOSE t \in ids : \A u \in ids : u <= t]

\* prefix_range of one byte: see Lookup.
StartingWith(b) == {t \in Ids(vocab) : vocab[t + 1][1] = b}

TakeByte ==
    /\ phase = "bytes"
    /\ bytes # <<>>
    /\ LET b == Head(bytes)
       IN  stack' = IF StartingWith(b) = {} THEN <<>>
                    ELSE <<Frame(RangeOf(StartingWith(b)), 1, StepByte(from, b), StepByte(0, b))>>
    /\ bytes' = Tail(bytes)
    /\ phase' = "traverse"
    /\ UNCHANGED <<vocab, pattern, i, len, fail, base, sparse, offsets, from, rangeStart, scan>>

EndOfState ==
    /\ phase = "bytes"
    /\ bytes = <<>>
    /\ from' = from + 1
    /\ phase' = "state"
    /\ UNCHANGED <<vocab, pattern, i, len, fail, base, sparse, offsets, bytes, rangeStart,
                   stack, scan>>

\* emit: the exceptions with one more, which extends the last one if it can.
Emit(exceptions, begin, last, target) ==
    LET top == exceptions[Len(exceptions)]
    IN  IF Len(exceptions) > rangeStart /\ top.target = target /\ top.last + 1 = begin
        THEN [exceptions EXCEPT ![Len(exceptions)].last = last]
        ELSE Append(exceptions, [begin |-> begin, last |-> last, target |-> target])

\* The match is complete: the tokens that do not accept from state 0 are exceptions,
\* in runs of adjacent ones.
Accepting(f) ==
    LET upTo[n \in f.begin .. f.last + 1] ==
            IF n = f.begin THEN sparse
            ELSE IF base[n] = accept THEN upTo[n - 1]
            ELSE Emit(upTo[n - 1], n - 1, n - 1, accept)
    IN  upTo[f.last + 1]

\* The first token of a frame that is longer than its depth.
FirstLonger(f) ==
    CHOOSE t \in f.begin .. f.last + 1 :
        /\ \A u \in f.begin .. t - 1 : Len(vocab[u + 1]) = f.depth
        /\ t <= f.last => Len(vocab[t + 1]) # f.depth

\* The calls for the longer tokens, one per next byte.
Children(f) ==
    LET longer == FirstLonger(f) .. f.last
        next(t) == vocab[t + 1][f.depth + 1]
        child(b) == Frame(RangeOf({t \in longer : next(t) = b}), f.depth + 1,
                          StepByte(f.kmpJ, b), StepByte(f.kmp0, b))
        order == InAscendingOrder({next(t) : t \in longer})
    IN  [n \in 1 .. Len(order) |-> child(order[n])]

Traverse ==
    /\ phase = "traverse"
    /\ stack # <<>>
    /\ LET f == Head(stack)
       IN  IF f.kmpJ = f.kmp0
           THEN stack' = Tail(stack) /\ UNCHANGED sparse
           ELSE IF f.kmpJ = accept
           THEN stack' = Tail(stack) /\ sparse' = Accepting(f)
           ELSE /\ sparse' = IF FirstLonger(f) > f.begin
                             THEN Emit(sparse, f.begin, FirstLonger(f) - 1, f.kmpJ)
                             ELSE sparse
                /\ stack' = Children(f) \o Tail(stack)
    /\ UNCHANGED <<vocab, pattern, phase, i, len, fail, base, offsets, from, bytes, rangeStart,
                   scan>>

EndTraverse ==
    /\ phase = "traverse"
    /\ stack = <<>>
    /\ phase' = "bytes"
    /\ UNCHANGED <<vocab, pattern, compiled, scan>>

FinishCompile ==
    /\ phase = "state"
    /\ from >= accept
    /\ offsets' = [offsets EXCEPT ![accept] = Len(sparse)]
    /\ phase' = "ready"
    /\ UNCHANGED <<vocab, pattern, i, len, fail, base, sparse, from, bytes, rangeStart,
                   stack, scan>>

\* ContainsDfa::next: the search of a state's exceptions stops behind the token.
NextState(s, code) ==
    LET mine == IF s = 0 THEN {} ELSE offsets[s] + 1 .. offsets[s + 1]
        seen == {n \in mine : \A m \in mine : m <= n => code >= sparse[m].begin}
        hits == {n \in seen : code <= sparse[n].last}
    IN  IF hits # {} THEN sparse[CHOOSE n \in hits : \A m \in hits : n <= m].target
        ELSE IF code < Len(vocab) THEN base[code + 1] ELSE 0

StartRow ==
    /\ phase = "ready"
    /\ row' \in CodeRows
    /\ taken' = 0 /\ state' = 0
    /\ phase' = "row"
    /\ UNCHANGED <<vocab, pattern, compiled>>

RowStep ==
    /\ phase = "row"
    /\ taken < Len(row) /\ state # accept
    /\ state' = NextState(state, row[taken + 1])
    /\ taken' = taken + 1
    /\ UNCHANGED <<vocab, pattern, phase, compiled, row>>

Answer ==
    /\ phase = "row"
    /\ taken = Len(row) \/ state = accept
    /\ phase' = "answered"
    /\ UNCHANGED <<vocab, pattern, compiled, scan>>

DfaNext ==
    \/ FailureStep \/ FailureEnd \/ BaseStep \/ BaseEnd
    \/ StartState \/ TakeByte \/ Traverse \/ EndTraverse \/ EndOfState \/ FinishCompile
    \/ StartRow \/ RowStep \/ Answer

DfaSpec == DfaInit /\ [][DfaNext]_dfa_vars

-----------------------------------------------------------------------------
(***************************************************************************)
(* Properties.                                                             *)
(***************************************************************************)

Exception == [begin : Ids(vocab), last : Ids(vocab), target : 0 .. accept]

\* Every variable has its type; a failure link is shorter than what it is for.
DfaTypeOK ==
    /\ vocab \in Vocabularies /\ pattern \in Patterns
    /\ phase \in {"failure", "base", "state", "bytes", "traverse", "ready", "row", "answered",
                  "too_long"}
    /\ len \in 0 .. accept /\ i \in 0 .. accept + 1
    /\ fail \in [1 .. accept -> 0 .. accept] /\ \A n \in 1 .. accept : fail[n] < n
    /\ base \in Seq(0 .. accept) /\ Len(base) <= Len(vocab)
    /\ sparse \in Seq(Exception) /\ offsets \in [0 .. accept -> 0 .. Len(sparse)]
    /\ from \in 1 .. accept + 1 /\ bytes \in Seq(Byte) /\ rangeStart \in 0 .. Len(sparse)
    /\ row \in Seq(Nat) /\ taken \in 0 .. Len(row) /\ state \in 0 .. accept

\* The first n bytes of the pattern are also the last n of its first k.
Border(n, k) == SubSeq(pattern, 1, n) = SubSeq(pattern, k - n + 1, k)

\* The failure links computed so far are the longest proper borders, although a
\* mismatch only ever tries the borders of borders.
FailureIsLongestBorder ==
    /\ DfaTypeOK
    /\ accept \in 1 .. MaxPatternLen =>
        \A k \in 1 .. IF phase = "failure" THEN i ELSE accept :
            /\ fail[k] < k /\ Border(fail[k], k)
            /\ \A n \in fail[k] + 1 .. k - 1 : ~Border(n, k)

\* The states whose exceptions are collected, and where a state's end.
Begun(s) == s < from \/ (s = from /\ phase # "state")
SliceEnd(s) == IF Begun(s + 1) THEN offsets[s + 1] ELSE Len(sparse)

\* The exceptions of every state are ascending and disjoint, as the early end of the
\* search for one presupposes, and none of them repeats the transition from state 0.
ExceptionsInOrder ==
    \A s \in 1 .. accept - 1 : Begun(s) =>
        \A n \in offsets[s] + 1 .. SliceEnd(s) :
            /\ sparse[n].begin <= sparse[n].last
            /\ n > offsets[s] + 1 => sparse[n - 1].last < sparse[n].begin
            /\ \A t \in sparse[n].begin .. sparse[n].last : base[t + 1] # sparse[n].target

\* The pattern occurs in a sequence of bytes.
Occurs(data) == \E at \in 0 .. Len(data) - accept : StartsAt(data, at, pattern)

Least(m, n) == IF m < n THEN m ELSE n

\* What the automaton's state stands for: the longest prefix of the pattern that the
\* bytes read end with, or all of it once it has occurred.
Matched(data) ==
    IF Occurs(data) THEN accept
    ELSE CHOOSE n \in 0 .. accept :
            /\ n <= Len(data) /\ SubSeq(pattern, 1, n) = SubSeq(data, Len(data) - n + 1, Len(data))
            /\ \A m \in n + 1 .. Least(accept, Len(data)) :
                    SubSeq(pattern, 1, m) # SubSeq(data, Len(data) - m + 1, Len(data))

\* The failure links are exact and the exceptions stay in the order that the binary
\* search of a transition needs while the automaton is compiled, and once it is, every
\* transition is that of the byte automaton over the whole token.
TransitionsAreExact ==
    /\ FailureIsLongestBorder
    /\ ExceptionsInOrder
    /\ (phase = "ready" /\ accept > 0) => \A s \in 0 .. accept - 1, t \in Ids(vocab) :
            NextState(s, t) = Matched(SubSeq(pattern, 1, s) \o vocab[t + 1])

\* The bytes of the first n codes of the row; a code outside the dictionary is a
\* byte that no pattern has.
RowBytes(n) ==
    LET upTo[k \in 0 .. n] ==
            IF k = 0 THEN <<>>
            ELSE upTo[k - 1] \o (IF row[k] < Len(vocab) THEN vocab[row[k] + 1] ELSE <<NumBytes>>)
    IN  upTo[n]

\* row_contains is exact on rows of any tokenization: at every code the state is what
\* the row's bytes so far amount to, and the answer is whether the pattern occurs.
RowContainsIsExact ==
    phase \in {"row", "answered"} =>
        /\ state = Matched(RowBytes(taken))
        /\ phase = "answered" => (state = accept <=> Occurs(RowBytes(Len(row))))
=============================================================================
