-------------------------- MODULE LookupProofs --------------------------
(***************************************************************************)
(* Proofs about Lookup and about ContainsDfa, the two searches of a        *)
(* dictionary's tokens.                                                    *)
(*                                                                         *)
(* Lookup, for every dictionary that is safe to read and every text: on    *)
(* sorted dictionaries the range is exact, and on conformant ones tokenize *)
(* is greedy.  The searches compare one byte.  They may, because all       *)
(* tokens of the range share the bytes before it, so that a sorted         *)
(* dictionary has them in the order of that byte, tokens that end before   *)
(* it first (NextByteOrdered).                                             *)
(*                                                                         *)
(* ContainsDfa, for every sorted dictionary, every pattern and every row   *)
(* of codes: the failure links are exact, so is every transition of the    *)
(* token automaton, and so is the answer for a row.  A state stands for    *)
(* what the bytes read have reached of the pattern (Reached), and that is  *)
(* all that matters for what comes (ReachedByAll).  While the exceptions   *)
(* of a state are collected they are exact for the tokens of no pending    *)
(* call and of no byte that is left (Pending).                             *)
(***************************************************************************)
EXTENDS Lookup, ContainsDfa, ByteStringsProofs

Narrowing == mode \in {"bytes", "lower", "upper"}

\* Where the searches are, on every dictionary.
Bounds ==
    /\ op = "prefix_range" => pos = 0 /\ mode \notin {"tokens", "emit"}
    /\ Narrowing =>
        /\ op = "tokenize" => pos < Len(text)
        /\ range.begin \in Ids(dict) /\ range.last \in Ids(dict)
        /\ range.begin <= range.last
        /\ k <= Limit
    /\ mode \in {"lower", "upper"} =>
        /\ k < Limit
        /\ range.begin <= lo /\ lo <= hi /\ hi <= range.last
    /\ mode = "upper" =>
        /\ range.begin <= first /\ first <= lo
        /\ TokenLen(first) > k /\ dict[first + 1][k + 1] = Target
    /\ mode = "done" /\ op = "tokenize" => pos >= Len(text)

\* The lower search has found the first token with the target.
FirstIsFirst ==
    Sorted(dict) /\ mode = "upper" => \A t \in Within(range) : t < first => Below(t)

IInv ==
    /\ TypeOK
    /\ Bounds
    /\ FirstIsFirst
    /\ RangeIsExact

-----------------------------------------------------------------------------
(***************************************************************************)
(* Tokens and the bytes they share.                                        *)
(***************************************************************************)

LEMMA Typed ==
    ASSUME TypeOK
    PROVE  /\ dict \in Seq(Token) /\ Len(dict) \in Nat \ {0} /\ 0 \in Ids(dict)
           /\ text \in ByteSeq /\ Len(text) \in Nat /\ MaxTokenSize \in Nat \ {0}
           /\ pos \in Nat /\ k \in Nat
           /\ \A j \in 1 .. Len(text) : text[j] \in Int
<1>1. dict \in Seq(Token) /\ dict # <<>> /\ text \in ByteSeq /\ pos \in Nat
  BY LookupAssumption DEF TypeOK
<1>2. Len(dict) \in Nat \ {0}
  <2>1. Len(dict) \in Nat /\ (Len(dict) = 0 => dict = <<>>)
    BY <1>1, LenProperties, EmptySeq
  <2> QED
    BY <1>1, <2>1
<1>3. \A b \in Byte : b \in Int
  BY BytesAssumption DEF Byte
<1>4. Len(text) \in Nat /\ \A j \in 1 .. Len(text) : text[j] \in Int
  BY <1>1, <1>3, LenProperties, ElementOfSeq DEF ByteSeq
<1>5. k \in Nat
  BY <1>4 DEF TypeOK
<1> QED
  BY <1>1, <1>2, <1>4, <1>5, BytesAssumption DEF Ids

LEMMA TokenTyped ==
    ASSUME TypeOK, NEW t \in Ids(dict)
    PROVE  /\ t \in Nat /\ t + 1 \in 1 .. Len(dict)
           /\ dict[t + 1] \in Token /\ dict[t + 1] \in ByteSeq
           /\ TokenLen(t) \in 1 .. MaxTokenSize /\ TokenLen(t) \in Nat
           /\ \A j \in 1 .. TokenLen(t) : dict[t + 1][j] \in Int
<1>1. dict \in Seq(Token) /\ Len(dict) \in Nat
  BY Typed
<1>2. t \in Nat /\ t + 1 \in 1 .. Len(dict)
  BY <1>1 DEF Ids
<1>3. dict[t + 1] \in Token
  BY <1>1, <1>2, ElementOfSeq
<1>4. \A b \in Byte : b \in Int
  BY BytesAssumption DEF Byte
<1>5. /\ dict[t + 1] \in ByteSeq /\ TokenLen(t) \in 1 .. MaxTokenSize
      /\ \A j \in 1 .. TokenLen(t) : dict[t + 1][j] \in Byte
  BY <1>3, TokenType DEF TokenLen
<1> QED
  BY <1>2, <1>3, <1>4, <1>5, BytesAssumption

\* Agreement, byte by byte.
LEMMA AgreesByByte ==
    ASSUME TypeOK, NEW t \in Ids(dict), NEW n \in Nat
    PROVE  Agrees(t, n) <=> /\ n <= TokenLen(t) /\ pos + n <= Len(text)
                            /\ \A j \in 1 .. n : text[pos + j] = dict[t + 1][j]
<1> DEFINE s == dict[t + 1]
           front == SubSeq(s, 1, n)
<1>1. s \in Seq(Byte) /\ Len(s) = TokenLen(t) /\ Len(s) \in Nat
  BY TokenTyped, LenProperties DEF ByteSeq, TokenLen
<1>2. CASE n <= Len(s)
  <2>1. Len(front) = n /\ \A j \in 1 .. n : front[j] = s[j]
    <3>1. \A j \in 1 .. n : s[j] \in Byte
      BY <1>1, <1>2, ElementOfSeq
    <3> HIDE DEF s
    <3> QED
      BY <3>1, SubSeqProperties
  <2> HIDE DEF front
  <2>2. StartsAt(text, pos, front) <=>
            pos + n <= Len(text) /\ \A j \in 1 .. n : text[pos + j] = s[j]
    BY <2>1 DEF StartsAt
  <2> QED
    BY <1>1, <1>2, <2>2 DEF Agrees, front
<1>3. CASE ~(n <= Len(s))
  BY <1>1, <1>3 DEF Agrees
<1> QED
  BY <1>2, <1>3

LEMMA AgreesNext ==
    ASSUME TypeOK, NEW t \in Ids(dict), NEW n \in Nat
    PROVE  Agrees(t, n + 1) <=>
            Agrees(t, n) /\ n < TokenLen(t) /\ pos + n < Len(text)
            /\ dict[t + 1][n + 1] = text[pos + n + 1]
<1>1. pos \in Nat /\ Len(text) \in Nat /\ TokenLen(t) \in Nat
  BY Typed, TokenTyped
<1>2. /\ n + 1 \in Nat /\ n + 1 <= TokenLen(t) <=> n < TokenLen(t)
      /\ pos + (n + 1) <= Len(text) <=> pos + n < Len(text)
      /\ pos + (n + 1) = pos + n + 1
  BY <1>1
<1>3. (\A j \in 1 .. n + 1 : text[pos + j] = dict[t + 1][j]) <=>
        (\A j \in 1 .. n : text[pos + j] = dict[t + 1][j])
        /\ text[pos + (n + 1)] = dict[t + 1][n + 1]
  <2>1. \A j : j \in 1 .. n + 1 <=> j \in 1 .. n \/ j = n + 1
    OBVIOUS
  <2> QED
    BY <2>1, Zenon
<1> QED
  BY <1>1, <1>2, <1>3, AgreesByByte

LEMMA AgreesFewer ==
    ASSUME TypeOK, NEW t \in Ids(dict), NEW n \in Nat, NEW m \in 0 .. n, Agrees(t, n)
    PROVE  Agrees(t, m)
<1>1. pos \in Nat /\ Len(text) \in Nat /\ TokenLen(t) \in Nat /\ m \in Nat
  BY Typed, TokenTyped
<1>2. /\ n <= TokenLen(t) /\ pos + n <= Len(text)
      /\ \A j \in 1 .. n : text[pos + j] = dict[t + 1][j]
  BY AgreesByByte
<1>3. /\ m <= TokenLen(t) /\ pos + m <= Len(text)
      /\ \A j \in 1 .. m : text[pos + j] = dict[t + 1][j]
  <2>1. m <= n /\ \A j \in 1 .. m : j \in 1 .. n
    BY <1>1
  <2>2. m <= TokenLen(t) /\ pos + m <= Len(text)
    BY <1>1, <1>2, <2>1
  <2> QED
    BY <1>2, <2>1, <2>2
<1> QED
  BY <1>1, <1>3, AgreesByByte

LEMMA AllAgree ==
    ASSUME TypeOK, pos <= Len(text), NEW t \in Ids(dict)
    PROVE  Agrees(t, 0)
<1>1. pos \in Nat /\ TokenLen(t) \in Nat
  BY Typed, TokenTyped
<1> QED
  BY <1>1, AgreesByByte

\* Tokens of a sorted dictionary that share n bytes are in the order of the next one,
\* and those that have no more come first.
LEMMA NextByteOrdered ==
    ASSUME TypeOK, Sorted(dict), NEW t \in Ids(dict), NEW u \in Ids(dict), t < u,
           NEW n \in Nat, Agrees(t, n), Agrees(u, n)
    PROVE  TokenLen(t) <= n \/ (TokenLen(u) > n /\ dict[t + 1][n + 1] <= dict[u + 1][n + 1])
<1> DEFINE a == dict[t + 1]
           b == dict[u + 1]
<1>1. /\ t + 1 \in 1 .. Len(dict) /\ u + 1 \in 1 .. Len(dict) /\ t \in Nat /\ u \in Nat
      /\ Len(a) = TokenLen(t) /\ Len(b) = TokenLen(u)
      /\ Len(a) \in Nat /\ Len(b) \in Nat
      /\ \A j \in 1 .. Len(a) : a[j] \in Int
      /\ \A j \in 1 .. Len(b) : b[j] \in Int
  BY TokenTyped, LenProperties DEF ByteSeq, TokenLen
<1>2. /\ n <= Len(a) /\ n <= Len(b)
      /\ \A j \in 1 .. n : a[j] = b[j]
  BY <1>1, AgreesByByte
<1>3. LexLess(a, b)
  <2>1. t + 1 < u + 1
    BY <1>1
  <2> QED
    BY <1>1, <2>1 DEF Sorted
<1> HIDE DEF a, b
<1>4. PICK m \in 1 .. Len(b) : /\ m <= Len(a) + 1
                               /\ \A j \in 1 .. m - 1 : a[j] = b[j]
                               /\ m > Len(a) \/ a[m] < b[m]
  BY <1>3 DEF LexLess
<1>5. Len(a) <= n \/ (Len(b) > n /\ a[n + 1] <= b[n + 1])
  <2>1. CASE m <= n
    BY <1>1, <1>2, <1>4, <2>1
  <2>2. CASE m = n + 1
    BY <1>1, <1>2, <1>4, <2>2
  <2>3. CASE m > n + 1
    <3>1. n + 1 \in 1 .. m - 1 /\ Len(b) > n /\ n + 1 <= Len(a)
      BY <1>1, <1>4, <2>3
    <3>2. a[n + 1] = b[n + 1] /\ a[n + 1] \in Int
      BY <1>1, <1>4, <3>1
    <3> QED
      BY <3>1, <3>2
  <2> QED
    BY <1>4, <2>1, <2>2, <2>3
<1> QED
  BY <1>1, <1>5 DEF a, b

\* So what the searches ask is answered yes up to some token, and no from there on.
LEMMA SearchIsMonotone ==
    ASSUME TypeOK, Sorted(dict), k < Limit, pos <= Len(text),
           NEW t \in Ids(dict), NEW u \in Ids(dict), t <= u, Agrees(t, k), Agrees(u, k)
    PROVE  /\ Below(u) => Below(t)
           /\ UpToTarget(u) => UpToTarget(t)
           /\ Target \in Int
<1>1. k \in Nat /\ pos \in Nat /\ Len(text) \in Nat /\ MaxTokenSize \in Nat
  BY Typed, TokenTyped
<1>2. pos + k + 1 \in 1 .. Len(text)
  BY <1>1 DEF Limit
<1>3. Target \in Int
  BY <1>2, Typed DEF Target
<1>4. CASE t = u
  BY <1>3, <1>4
<1>5. CASE t # u
  <2>1. t < u
    <3>1. t \in Nat /\ u \in Nat
      BY Typed, TokenTyped
    <3> QED
      BY <1>5, <3>1
  <2>2. TokenLen(t) <= k \/ (TokenLen(u) > k /\ dict[t + 1][k + 1] <= dict[u + 1][k + 1])
    BY <1>1, <2>1, NextByteOrdered
  <2>3. CASE TokenLen(t) <= k
    BY <1>3, <2>3 DEF Below, UpToTarget
  <2>4. CASE ~(TokenLen(t) <= k)
    <3>1. TokenLen(t) \in Nat /\ TokenLen(u) \in Nat
          /\ (\A j \in 1 .. TokenLen(t) : dict[t + 1][j] \in Int)
          /\ (\A j \in 1 .. TokenLen(u) : dict[u + 1][j] \in Int)
      BY Typed, TokenTyped
    <3>2. k + 1 \in 1 .. TokenLen(t) /\ k + 1 \in 1 .. TokenLen(u) /\ ~(TokenLen(u) <= k)
      BY <1>1, <2>2, <2>4, <3>1
    <3>3. dict[t + 1][k + 1] \in Int /\ dict[u + 1][k + 1] \in Int
      BY <3>1, <3>2
    <3> QED
      BY <1>3, <2>2, <2>4, <3>2, <3>3 DEF Below, UpToTarget
  <2> QED
    BY <2>3, <2>4
<1> QED
  BY <1>4, <1>5

-----------------------------------------------------------------------------
(***************************************************************************)
(* The steps.                                                              *)
(***************************************************************************)

\* What the brackets say while a search is going on, and they say nothing otherwise.
LowerBrackets(t) ==
    (t < lo => Below(t)) /\ (t > hi \/ (t = hi /\ hi < range.last) => ~Below(t))
UpperBrackets(t) ==
    (t < lo => UpToTarget(t)) /\ (t > hi \/ (t = hi /\ hi < range.last) => ~UpToTarget(t))

LEMMA BracketsByMode ==
    SearchBrackets <=>
        /\ TypeOK
        /\ Sorted(dict) => \A t \in Within(range) : /\ mode = "lower" => LowerBrackets(t)
                                                    /\ mode = "upper" => UpperBrackets(t)
<1>1. CASE mode = "lower"
  BY <1>1 DEF SearchBrackets, LowerBrackets
<1>2. CASE mode = "upper"
  BY <1>2 DEF SearchBrackets, UpperBrackets
<1>3. CASE mode # "lower" /\ mode # "upper"
  BY <1>3 DEF SearchBrackets
<1> QED
  BY <1>1, <1>2, <1>3

\* Without a change of the arguments, of the position and of the depth, the questions
\* that the searches ask do not change.
LEMMA SameQuestions ==
    ASSUME UNCHANGED <<call, pos, k>>
    PROVE  /\ dict' = dict /\ text' = text /\ op' = op /\ pos' = pos /\ k' = k
           /\ Target' = Target /\ Limit' = Limit /\ Ids(dict)' = Ids(dict)
           /\ Sorted(dict)' = Sorted(dict)
           /\ \A t : TokenLen(t)' = TokenLen(t)
           /\ \A t : Below(t)' = Below(t) /\ UpToTarget(t)' = UpToTarget(t)
           /\ \A t, n : Agrees(t, n)' = Agrees(t, n)
<1>1. dict' = dict /\ text' = text /\ op' = op /\ pos' = pos /\ k' = k
  BY DEF call
<1>2. Target' = Target /\ Limit' = Limit /\ Ids(dict)' = Ids(dict)
      /\ \A t : TokenLen(t)' = TokenLen(t)
  BY <1>1 DEF Target, Limit, Ids, TokenLen
<1>3. Sorted(dict)' = Sorted(dict)
  BY <1>1 DEF Sorted
<1>4. \A t : Below(t)' = Below(t) /\ UpToTarget(t)' = UpToTarget(t)
  BY <1>1, <1>2 DEF Below, UpToTarget
<1>5. \A t, n : Agrees(t, n)' = Agrees(t, n)
  BY <1>1, <1>2 DEF Agrees, StartsAt
<1> QED
  BY <1>1, <1>2, <1>3, <1>4, <1>5

LEMMA WithinFacts ==
    ASSUME IInv, Narrowing
    PROVE  /\ pos <= Len(text) /\ pos \in Nat /\ k \in Nat
           /\ k <= Limit /\ pos + Limit <= Len(text) /\ Limit \in 0 .. Len(text)
           /\ range.begin \in Nat /\ range.last \in Nat
           /\ Within(range) = range.begin .. range.last
           /\ \A t \in Within(range) : t \in Ids(dict) /\ t \in Nat
           /\ Sorted(dict) => \A t \in Within(range) : Agrees(t, k)
<1>1. TypeOK /\ Bounds
  BY DEF IInv
<1>2. pos \in Nat /\ k \in Nat /\ Len(text) \in Nat /\ MaxTokenSize \in Nat \ {0}
      /\ Len(dict) \in Nat
  BY <1>1, Typed
<1>3. pos <= Len(text)
  <2>1. op = "tokenize" \/ (op = "prefix_range" /\ pos = 0)
    BY <1>1 DEF TypeOK, Bounds
  <2> QED
    BY <1>1, <1>2, <2>1 DEF Bounds
<1>4. k <= Limit /\ pos + Limit <= Len(text) /\ Limit \in 0 .. Len(text)
  BY <1>1, <1>2, <1>3 DEF Bounds, Limit
<1>5. range.begin \in Ids(dict) /\ range.last \in Ids(dict)
  BY <1>1 DEF Bounds
<1>6. Within(range) = range.begin .. range.last /\ range.begin \in Nat /\ range.last \in Nat
  BY <1>2, <1>5 DEF Within, Ids
<1>7. \A t \in Within(range) : t \in Ids(dict) /\ t \in Nat
  BY DEF Within, Ids
<1>8. Sorted(dict) => \A t \in Within(range) : Agrees(t, k)
  BY DEF IInv, RangeIsExact, Narrowing
<1> QED
  BY <1>2, <1>3, <1>4, <1>6, <1>7, <1>8

LEMMA InitIInv == Init => IInv
<1> SUFFICES ASSUME Init PROVE IInv
  OBVIOUS
<1>1. dict \in Seq(Token) /\ dict # <<>> /\ text \in ByteSeq
  BY LookupAssumption DEF Init
<1>2. Len(dict) \in Nat \ {0} /\ Len(text) \in Nat
  <2>1. Len(dict) \in Nat /\ (Len(dict) = 0 => dict = <<>>) /\ Len(text) \in Nat
    BY <1>1, LenProperties, EmptySeq DEF ByteSeq
  <2> QED
    BY <1>1, <2>1
<1>3. All.begin = 0 /\ All.last = Len(dict) - 1 /\ All \in [begin : Ids(dict), last : Ids(dict)]
      /\ 0 \in Ids(dict) /\ Len(dict) - 1 \in Ids(dict)
  BY <1>2 DEF All, Ids
<1>4. /\ dict \in Dictionaries /\ text \in Texts /\ op \in {"tokenize", "prefix_range"}
      /\ mode \in {"tokens", "bytes"} /\ pos = 0 /\ codes = <<>> /\ k = 0 /\ range = All
      /\ longest = None /\ lo = 0 /\ hi = 0 /\ first = 0
      /\ (op = "prefix_range" => mode = "bytes") /\ (op = "tokenize" => mode = "tokens")
  BY DEF Init
<1>5. TypeOK
  <2>1. codes \in Seq(Ids(dict))
    BY <1>4, EmptySeq
  <2> QED
    BY <1>2, <1>3, <1>4, <2>1 DEF TypeOK
<1>6. Bounds
  <2>1. 0 <= Limit
    BY <1>2, <1>4, BytesAssumption DEF Limit
  <2> QED
    BY <1>2, <1>3, <1>4, <2>1 DEF Bounds, Narrowing
<1>7. Within(range) = {t \in Ids(dict) : Agrees(t, k)}
  <2>1. \A t \in Ids(dict) : Agrees(t, k)
    BY <1>2, <1>4, <1>5, AllAgree
  <2>2. \A t \in Ids(dict) : range.begin <= t /\ t <= range.last
    BY <1>2, <1>3, <1>4 DEF Ids
  <2> QED
    BY <2>1, <2>2 DEF Within
<1>8. SearchBrackets
  BY <1>4, <1>5, BracketsByMode
<1> QED
  BY <1>4, <1>5, <1>6, <1>7, <1>8 DEF IInv, FirstIsFirst, RangeIsExact

LEMMA BetweenTokensStep ==
    ASSUME IInv, StartLongestPrefix \/ FinishTokenize \/ EmitToken
    PROVE  IInv'
<1>1. TypeOK /\ Bounds /\ Len(dict) \in Nat \ {0} /\ Len(text) \in Nat /\ pos \in Nat /\ k \in Nat
      /\ 0 \in Ids(dict) /\ MaxTokenSize \in Nat
  BY Typed DEF IInv
<1>2. CASE StartLongestPrefix
  <2>1. /\ mode = "tokens" /\ pos < Len(text) /\ k' = 0 /\ range' = All /\ longest' = None
        /\ mode' = "bytes" /\ dict' = dict /\ text' = text /\ op' = op /\ pos' = pos
        /\ codes' = codes /\ lo' = lo /\ hi' = hi /\ first' = first
    BY <1>2 DEF StartLongestPrefix, call
  <2>2. range'.begin = 0 /\ range'.last = Len(dict) - 1
        /\ range' \in [begin : Ids(dict), last : Ids(dict)]
        /\ range'.begin \in Ids(dict) /\ range'.last \in Ids(dict)
    BY <1>1, <2>1 DEF All, Ids
  <2>3. TypeOK'
    BY <1>1, <2>1, <2>2 DEF TypeOK
  <2>4. 0 <= Limit'
    BY <1>1, <2>1 DEF Limit
  <2>5. Bounds'
    BY <1>1, <2>1, <2>2, <2>4 DEF Bounds, Narrowing, Ids
  <2>6. Within(range)' = {t \in Ids(dict)' : Agrees(t, k)'}
    <3>1. \A t \in Ids(dict) : Agrees(t, 0)
      BY <1>1, <2>1, AllAgree
    <3>2. \A t \in Ids(dict) : range'.begin <= t /\ t <= range'.last
      BY <1>1, <2>2 DEF Ids
    <3>3. \A t : Agrees(t, k)' = Agrees(t, 0)
      BY <2>1 DEF Agrees, StartsAt, TokenLen
    <3>4. Ids(dict)' = Ids(dict)
      BY <2>1 DEF Ids
    <3> QED
      BY <3>1, <3>2, <3>3, <3>4 DEF Within
  <2>7. SearchBrackets'
    BY <2>1, <2>3, BracketsByMode DEF SearchBrackets
  <2> QED
    BY <2>1, <2>3, <2>5, <2>6, <2>7 DEF IInv, FirstIsFirst, RangeIsExact
<1>3. CASE FinishTokenize
  <2>1. /\ mode = "tokens" /\ pos >= Len(text) /\ mode' = "done"
        /\ UNCHANGED <<call, pos, k>> /\ range' = range /\ longest' = longest
        /\ codes' = codes /\ lo' = lo /\ hi' = hi /\ first' = first
    BY <1>3 DEF FinishTokenize
  <2>2. dict' = dict /\ text' = text /\ op' = op /\ pos' = pos /\ k' = k /\ op = "tokenize"
    BY <1>1, <2>1 DEF call, Bounds, TypeOK
  <2>3. TypeOK'
    BY <1>1, <2>1, <2>2 DEF TypeOK
  <2>4. Bounds'
    BY <1>1, <2>1, <2>2 DEF Bounds, Narrowing
  <2>5. \A t \in Ids(dict)' : ~Agrees(t, k + 1)'
    <3>1. \A t \in Ids(dict) : ~Agrees(t, k + 1)
      BY <1>1, <2>1, AgreesByByte
    <3> QED
      BY <2>1, <2>2, <3>1, SameQuestions
  <2>6. SearchBrackets'
    BY <2>1, <2>3 DEF SearchBrackets
  <2> QED
    BY <2>1, <2>2, <2>3, <2>4, <2>5, <2>6 DEF IInv, FirstIsFirst, RangeIsExact
<1>4. CASE EmitToken
  <2>1. /\ mode = "emit" /\ codes' = Append(codes, Best) /\ pos' = pos + TokenLen(Best)
        /\ mode' = "tokens" /\ dict' = dict /\ text' = text /\ op' = op /\ k' = k
        /\ range' = range /\ longest' = longest /\ lo' = lo /\ hi' = hi /\ first' = first
    BY <1>4 DEF EmitToken, call
  <2>2. Best \in Ids(dict)
    BY <1>1 DEF Best, TypeOK
  <2>3. TokenLen(Best) \in Nat
    BY <1>1, <2>2, TokenTyped
  <2>4. codes' \in Seq(Ids(dict)) /\ pos' \in Nat
    BY <1>1, <2>1, <2>2, <2>3, AppendProperties DEF TypeOK
  <2>5. TypeOK'
    BY <1>1, <2>1, <2>4 DEF TypeOK
  <2>6. Bounds'
    BY <1>1, <2>1 DEF Bounds, Narrowing
  <2>7. SearchBrackets'
    BY <2>1, <2>5 DEF SearchBrackets
  <2> QED
    BY <2>1, <2>5, <2>6, <2>7 DEF IInv, FirstIsFirst, RangeIsExact
<1> QED
  BY <1>2, <1>3, <1>4

LEMMA BytesStep ==
    ASSUME IInv, StartNarrow \/ EndOfBytes
    PROVE  IInv'
<1>1. /\ mode = "bytes" /\ UNCHANGED <<call, pos, k>> /\ codes' = codes /\ range' = range
      /\ longest' = longest /\ first' = first
  BY DEF StartNarrow, EndOfBytes
<1>2. TypeOK /\ Bounds /\ Narrowing
  BY <1>1 DEF IInv, Narrowing
<1>3. /\ range.begin \in Ids(dict) /\ range.last \in Ids(dict) /\ range.begin <= range.last
      /\ range.begin \in Nat /\ range.last \in Nat
      /\ Within(range) = range.begin .. range.last
  BY <1>2, WithinFacts DEF Bounds
<1>4. /\ dict' = dict /\ text' = text /\ op' = op /\ pos' = pos /\ k' = k
      /\ Limit' = Limit /\ Ids(dict)' = Ids(dict) /\ Sorted(dict)' = Sorted(dict)
      /\ \A t, n : Agrees(t, n)' = Agrees(t, n)
  BY <1>1, SameQuestions
<1>5. Within(range)' = Within(range)
  BY <1>1, <1>4 DEF Within
<1>6. Sorted(dict) => Within(range) = {t \in Ids(dict) : Agrees(t, k)}
  BY <1>1 DEF IInv, RangeIsExact
<1>7. CASE StartNarrow
  <2>1. k < Limit /\ lo' = range.begin /\ hi' = range.last /\ mode' = "lower"
    BY <1>7 DEF StartNarrow
  <2>2. TypeOK'
    BY <1>1, <1>2, <1>3, <1>4, <2>1 DEF TypeOK
  <2>3. Bounds'
    BY <1>1, <1>2, <1>3, <1>4, <2>1 DEF Bounds, Narrowing
  <2>4. SearchBrackets'
    <3>1. \A t \in Within(range) : LowerBrackets(t)'
      <4>1. \A t \in Within(range) : ~(t < range.begin) /\ ~(t > range.last) /\ t \in Nat
        BY <1>3
      <4> QED
        BY <1>1, <1>3, <2>1, <4>1 DEF LowerBrackets
    <3> QED
      BY <1>5, <2>1, <2>2, <3>1, BracketsByMode DEF SearchBrackets, LowerBrackets
  <2> QED
    BY <1>1, <1>4, <1>5, <1>6, <2>1, <2>2, <2>3, <2>4 DEF IInv, FirstIsFirst, RangeIsExact
<1>8. CASE EndOfBytes
  <2>1. k = Limit /\ mode' = Return /\ lo' = lo /\ hi' = hi
    BY <1>8 DEF EndOfBytes
  <2>2. (op = "tokenize" /\ mode' = "emit") \/ (op = "prefix_range" /\ mode' = "done")
    BY <1>2, <2>1 DEF Return, TypeOK
  <2>3. TypeOK'
    BY <1>1, <1>2, <1>4, <2>1, <2>2 DEF TypeOK
  <2>4. Bounds'
    BY <1>1, <1>2, <1>4, <2>1, <2>2 DEF Bounds, Narrowing
  <2>5. ~IsEmpty(range)
    BY <1>3 DEF IsEmpty
  <2>6. op = "prefix_range" => k = Len(text)
    BY <1>2, <2>1, Typed DEF Limit, Bounds
  <2>7. SearchBrackets'
    BY <2>2, <2>3 DEF SearchBrackets
  <2> QED
    BY <1>1, <1>4, <1>5, <1>6, <2>2, <2>3, <2>4, <2>5, <2>6, <2>7
       DEF IInv, FirstIsFirst, RangeIsExact, IsEmpty
<1> QED
  BY <1>7, <1>8

LEMMA MiddleIsBetween ==
    ASSUME lo \in Nat, hi \in Nat, lo < hi
    PROVE  Middle \in Nat /\ lo <= Middle /\ Middle < hi
BY DEF Middle

\* A step of either search leaves all but one of its ends alone.
LEMMA SearchStep ==
    ASSUME IInv, LowerStep \/ UpperStep
    PROVE  IInv'
<1>1. /\ mode \in {"lower", "upper"} /\ lo < hi /\ UNCHANGED <<call, pos, k>> /\ mode' = mode
      /\ codes' = codes /\ range' = range /\ longest' = longest /\ first' = first
  BY DEF LowerStep, UpperStep
<1>2. TypeOK /\ Bounds /\ Narrowing
  BY <1>1 DEF IInv, Narrowing
<1>3. /\ range.begin \in Nat /\ range.last \in Nat /\ Within(range) = range.begin .. range.last
      /\ pos <= Len(text) /\ \A t \in Within(range) : t \in Ids(dict) /\ t \in Nat
      /\ k \in Nat /\ Limit \in Nat /\ k <= Limit
  BY <1>2, WithinFacts
<1>4. /\ k < Limit /\ range.begin <= lo /\ lo <= hi /\ hi <= range.last
      /\ lo \in Nat /\ hi \in Nat
      /\ range.begin \in Ids(dict) /\ range.last \in Ids(dict)
  BY <1>1, <1>2 DEF Bounds, TypeOK, Ids
<1>5. Middle \in Nat /\ lo <= Middle /\ Middle < hi /\ Middle \in Within(range)
  <2>1. Middle \in Nat /\ lo <= Middle /\ Middle < hi
    BY <1>1, <1>4, MiddleIsBetween
  <2> QED
    BY <1>3, <1>4, <2>1
<1>6. \/ /\ mode = "lower" => Below(Middle)
         /\ mode = "upper" => UpToTarget(Middle)
         /\ lo' = Middle + 1 /\ hi' = hi
      \/ /\ mode = "lower" => ~Below(Middle)
         /\ mode = "upper" => ~UpToTarget(Middle)
         /\ hi' = Middle /\ lo' = lo
  BY DEF LowerStep, UpperStep, LoAfter, HiAfter
<1>7. /\ dict' = dict /\ text' = text /\ op' = op /\ pos' = pos /\ k' = k
      /\ Target' = Target /\ Limit' = Limit /\ Ids(dict)' = Ids(dict)
      /\ Sorted(dict)' = Sorted(dict)
      /\ \A t : TokenLen(t)' = TokenLen(t)
      /\ \A t : Below(t)' = Below(t) /\ UpToTarget(t)' = UpToTarget(t)
      /\ \A t, n : Agrees(t, n)' = Agrees(t, n)
  BY <1>1, SameQuestions
<1>8. Within(range)' = Within(range)
  BY <1>1, <1>7 DEF Within
<1>9. /\ lo' \in Nat /\ hi' \in Nat /\ lo <= lo' /\ lo' <= hi' /\ hi' <= hi
      /\ lo' \in Ids(dict) /\ hi' \in Ids(dict)
  <2>1. lo' \in Nat /\ hi' \in Nat /\ lo <= lo' /\ lo' <= hi' /\ hi' <= hi
    BY <1>4, <1>5, <1>6
  <2> QED
    BY <1>4, <2>1, Typed DEF Ids
<1>10. TypeOK'
  BY <1>1, <1>2, <1>7, <1>9 DEF TypeOK
<1>11. Bounds'
  <2>1. first \in Nat
    BY <1>2 DEF TypeOK, Ids
  <2>2. (TokenLen(first) > k)' <=> TokenLen(first) > k
    BY <1>1, <1>7 DEF TokenLen
  <2>3. CASE mode = "lower"
    BY <1>1, <1>2, <1>3, <1>4, <1>7, <1>9, <2>3 DEF Bounds, Narrowing
  <2>4. CASE mode = "upper"
    <3>1. /\ op = "prefix_range" => pos = 0
          /\ op = "tokenize" => pos < Len(text)
          /\ range.begin <= range.last /\ range.begin <= first /\ first <= lo
          /\ TokenLen(first) > k /\ dict[first + 1][k + 1] = Target
      BY <1>2, <2>4 DEF Bounds
    <3>2. first <= lo'
      BY <1>4, <1>9, <2>1, <3>1
    <3>3. range.begin <= lo' /\ hi' <= range.last
      BY <1>3, <1>4, <1>9
    <3> QED
      BY <1>1, <1>3, <1>4, <1>7, <1>9, <2>2, <2>4, <3>1, <3>2, <3>3 DEF Bounds, Narrowing
  <2> QED
    BY <1>1, <2>3, <2>4
<1>12. ASSUME Sorted(dict), NEW t \in Within(range)
       PROVE  /\ mode = "lower" => LowerBrackets(t)'
              /\ mode = "upper" => UpperBrackets(t)'
  <2>1. Agrees(t, k) /\ Agrees(Middle, k) /\ t \in Ids(dict) /\ Middle \in Ids(dict)
        /\ t \in Nat
    BY <1>2, <1>3, <1>5, <1>12, WithinFacts
  <2>2. /\ t <= Middle => (Below(Middle) => Below(t)) /\ (UpToTarget(Middle) => UpToTarget(t))
        /\ Middle <= t => (Below(t) => Below(Middle)) /\ (UpToTarget(t) => UpToTarget(Middle))
    <3>1. CASE t <= Middle /\ ~(Middle <= t)
      BY <1>2, <1>3, <1>4, <1>12, <2>1, <3>1, SearchIsMonotone
    <3>2. CASE Middle <= t
      <4>1. (Below(t) => Below(Middle)) /\ (UpToTarget(t) => UpToTarget(Middle))
        BY <1>2, <1>3, <1>4, <1>12, <2>1, <3>2, SearchIsMonotone
      <4>2. t <= Middle => t = Middle
        BY <1>5, <2>1, <3>2
      <4> QED
        BY <4>1, <4>2
    <3> QED
      BY <1>5, <2>1, <3>1, <3>2
  <2>3. /\ mode = "lower" => LowerBrackets(t)
        /\ mode = "upper" => UpperBrackets(t)
    BY <1>12, BracketsByMode DEF IInv, RangeIsExact
  <2>4. /\ t < Middle + 1 => t <= Middle
        /\ t > Middle \/ t = Middle => Middle <= t
    BY <1>5, <2>1
  <2>5. CASE mode = "lower"
    BY <1>1, <1>6, <1>7, <2>2, <2>3, <2>4, <2>5 DEF LowerBrackets
  <2>6. CASE mode = "upper"
    BY <1>1, <1>6, <1>7, <2>2, <2>3, <2>4, <2>6 DEF UpperBrackets
  <2> QED
    BY <2>5, <2>6
<1>13. SearchBrackets'
  BY <1>1, <1>7, <1>8, <1>10, <1>12, BracketsByMode DEF SearchBrackets, LowerBrackets, UpperBrackets
<1>14. FirstIsFirst'
  BY <1>1, <1>7, <1>8 DEF IInv, FirstIsFirst
<1> QED
  BY <1>1, <1>7, <1>8, <1>10, <1>11, <1>13, <1>14 DEF IInv, RangeIsExact

\* What the end of the lower search knows, in a sorted dictionary: all tokens before lo
\* are below the target, and none behind it is.
LEMMA LowerSplits ==
    ASSUME IInv, mode = "lower", lo >= hi, Sorted(dict), NEW t \in Within(range)
    PROVE  /\ t < lo => Below(t)
           /\ t > lo => ~Below(t)
<1>1. TypeOK /\ Bounds /\ lo \in Nat /\ hi \in Nat /\ lo = hi
  BY DEF IInv, Bounds, TypeOK, Ids
<1>2. LowerBrackets(t)
  BY BracketsByMode DEF IInv, RangeIsExact
<1> QED
  BY <1>1, <1>2 DEF LowerBrackets

\* The byte that is searched for, and the byte of a token that has one there.
LEMMA ComparedBytes ==
    ASSUME IInv, mode \in {"lower", "upper"}
    PROVE  /\ Target \in Int /\ k \in Nat /\ pos + k < Len(text) /\ k + 1 <= Limit
           /\ \A t \in Ids(dict) :
                /\ TokenLen(t) > k => dict[t + 1][k + 1] \in Int
                /\ Agrees(t, k + 1) <=> Agrees(t, k) /\ ~Below(t) /\ UpToTarget(t)
                /\ Below(t) => UpToTarget(t)
<1>1. TypeOK /\ Bounds /\ Narrowing /\ k < Limit
  BY DEF IInv, Narrowing, Bounds
<1>2. k \in Nat /\ pos \in Nat /\ pos + Limit <= Len(text) /\ Limit \in Nat /\ Len(text) \in Nat
  BY <1>1, WithinFacts, Typed
<1>3. pos + k < Len(text) /\ k + 1 <= Limit /\ pos + k + 1 \in 1 .. Len(text)
  BY <1>1, <1>2
<1>4. Target \in Int
  BY <1>1, <1>3, Typed DEF Target
<1>5. ASSUME NEW t \in Ids(dict)
      PROVE  /\ TokenLen(t) > k => dict[t + 1][k + 1] \in Int
             /\ Agrees(t, k + 1) <=> Agrees(t, k) /\ ~Below(t) /\ UpToTarget(t)
             /\ Below(t) => UpToTarget(t)
  <2>1. TokenLen(t) \in Nat
    BY <1>1, TokenTyped
  <2>2. TokenLen(t) > k => dict[t + 1][k + 1] \in Int
    <3>1. TokenLen(t) > k => k + 1 \in 1 .. TokenLen(t)
      BY <1>2, <2>1
    <3> QED
      BY <1>1, <3>1, TokenTyped
  <2>3. Agrees(t, k + 1) <=>
            Agrees(t, k) /\ k < TokenLen(t) /\ dict[t + 1][k + 1] = Target
    BY <1>1, <1>2, <1>3, AgreesNext DEF Target
  <2> QED
    BY <1>2, <1>4, <2>1, <2>2, <2>3 DEF Below, UpToTarget
<1> QED
  BY <1>2, <1>3, <1>4, <1>5

\* When the search ends at a token without the target, no token of a sorted dictionary
\* has it.
LEMMA NoneHasTheTarget ==
    ASSUME IInv, mode = "lower", lo >= hi, Sorted(dict),
           TokenLen(lo) <= k \/ dict[lo + 1][k + 1] # Target,
           NEW t \in Ids(dict)
    PROVE  ~Agrees(t, k + 1)
<1> SUFFICES ASSUME Agrees(t, k + 1) PROVE FALSE
  OBVIOUS
<1>1. TypeOK /\ Bounds /\ Narrowing /\ lo \in Nat /\ hi \in Nat /\ lo = hi /\ t \in Nat
      /\ lo \in Ids(dict) /\ k < Limit /\ range.begin <= lo /\ hi <= range.last
  BY DEF IInv, Bounds, TypeOK, Ids, Narrowing
<1>2. Within(range) = {u \in Ids(dict) : Agrees(u, k)}
  BY <1>1 DEF IInv, RangeIsExact
<1>3. /\ range.begin \in Nat /\ range.last \in Nat /\ Within(range) = range.begin .. range.last
      /\ k \in Nat /\ pos <= Len(text)
  BY <1>1, WithinFacts
<1>4. Agrees(t, k) /\ ~Below(t) /\ UpToTarget(t) /\ t \in Within(range)
  BY <1>1, <1>2, ComparedBytes
<1>5. lo \in Within(range) /\ Agrees(lo, k)
  BY <1>1, <1>2, <1>3
<1>6. ~(t < lo)
  BY <1>4, LowerSplits
<1>7. UpToTarget(lo)
  BY <1>1, <1>3, <1>4, <1>5, <1>6, SearchIsMonotone
<1>8. ~Below(lo)
  <2>1. CASE t = lo
    BY <1>4, <2>1
  <2>2. CASE t # lo
    <3>1. hi < range.last
      BY <1>1, <1>3, <1>4, <1>6, <2>2
    <3> QED
      BY <1>1, <1>5, <3>1, BracketsByMode DEF IInv, RangeIsExact, LowerBrackets
  <2> QED
    BY <2>1, <2>2
<1>9. Agrees(lo, k + 1)
  BY <1>1, <1>5, <1>7, <1>8, ComparedBytes
<1>10. k < TokenLen(lo) /\ dict[lo + 1][k + 1] = Target
  BY <1>1, <1>3, <1>9, AgreesNext DEF Target
<1>11. TokenLen(lo) \in Nat
  BY <1>1, TokenTyped
<1> QED
  BY <1>3, <1>10, <1>11

LEMMA LowerEndStep ==
    ASSUME IInv, LowerEnd
    PROVE  IInv'
<1>1. /\ mode = "lower" /\ lo >= hi /\ UNCHANGED <<call, pos, k>>
      /\ codes' = codes /\ longest' = longest /\ lo' = lo
  BY DEF LowerEnd
<1>2. TypeOK /\ Bounds /\ Narrowing
  BY <1>1 DEF IInv, Narrowing
<1>3. /\ dict' = dict /\ text' = text /\ op' = op /\ pos' = pos /\ k' = k
      /\ Target' = Target /\ Limit' = Limit /\ Ids(dict)' = Ids(dict)
      /\ Sorted(dict)' = Sorted(dict)
      /\ \A t : TokenLen(t)' = TokenLen(t)
      /\ \A t : Below(t)' = Below(t) /\ UpToTarget(t)' = UpToTarget(t)
      /\ \A t, n : Agrees(t, n)' = Agrees(t, n)
  BY <1>1, SameQuestions
<1>4. /\ range.begin \in Nat /\ range.last \in Nat /\ Within(range) = range.begin .. range.last
      /\ pos <= Len(text) /\ k \in Nat /\ Limit \in Nat /\ Len(text) \in Nat
      /\ lo \in Nat /\ hi \in Nat /\ k < Limit
      /\ range.begin <= lo /\ lo = hi /\ hi <= range.last
      /\ range.begin \in Ids(dict) /\ range.last \in Ids(dict) /\ lo \in Ids(dict)
      /\ range.begin <= range.last
  <2>1. /\ range.begin \in Nat /\ range.last \in Nat
        /\ Within(range) = range.begin .. range.last
        /\ pos <= Len(text) /\ k \in Nat /\ Limit \in Nat /\ Len(text) \in Nat
    BY <1>2, WithinFacts, Typed
  <2>2. /\ lo \in Nat /\ hi \in Nat /\ k < Limit
        /\ range.begin <= lo /\ lo = hi /\ hi <= range.last
        /\ range.begin \in Ids(dict) /\ range.last \in Ids(dict) /\ lo \in Ids(dict)
        /\ range.begin <= range.last
    BY <1>1, <1>2 DEF Bounds, TypeOK, Ids
  <2> QED
    BY <2>1, <2>2
<1>5. CASE TokenLen(lo) <= k \/ dict[lo + 1][k + 1] # Target
  <2>1. range' = Empty /\ mode' = Return /\ hi' = hi /\ first' = first
    BY <1>5 DEF LowerEnd
  <2>2. (op = "tokenize" /\ mode' = "emit") \/ (op = "prefix_range" /\ mode' = "done")
    BY <1>2, <2>1 DEF Return, TypeOK
  <2>3. TypeOK'
    BY <1>1, <1>2, <1>3, <2>1, <2>2 DEF TypeOK
  <2>4. Bounds'
    BY <1>1, <1>2, <1>3, <1>4, <2>1, <2>2 DEF Bounds, Narrowing
  <2>5. SearchBrackets'
    BY <2>2, <2>3 DEF SearchBrackets
  <2>6. Sorted(dict) => \A t \in Ids(dict) : ~Agrees(t, k + 1)
    BY <1>1, <1>5, NoneHasTheTarget
  <2>7. ASSUME Sorted(dict), op = "prefix_range"
        PROVE  Within(range)' = {t \in Ids(dict) : Agrees(t, Len(text))}
    <3>1. Within(range)' = {}
      <4>1. range'.begin = 1 /\ range'.last = 0
        BY <2>1 DEF Empty
      <4>2. \A t \in Ids(dict) : ~(range'.begin <= t /\ t <= range'.last)
        BY <1>2, <4>1 DEF Ids
      <4> QED
        BY <1>3, <4>2 DEF Within
    <3>2. k + 1 \in 0 .. Len(text)
      <4>1. Limit = Len(text)
        BY <1>2, <1>4, <2>7 DEF Bounds, Limit
      <4> QED
        BY <1>4, <4>1
    <3>3. \A t \in Ids(dict) : ~Agrees(t, Len(text))
      BY <1>2, <1>4, <2>6, <2>7, <3>2, AgreesFewer
    <3> QED
      BY <3>1, <3>3
  <2> QED
    BY <1>1, <1>3, <2>2, <2>3, <2>4, <2>5, <2>6, <2>7 DEF IInv, FirstIsFirst, RangeIsExact
<1>6. CASE ~(TokenLen(lo) <= k \/ dict[lo + 1][k + 1] # Target)
  <2>1. range' = range /\ mode' = "upper" /\ hi' = range.last /\ first' = lo
    BY <1>6 DEF LowerEnd, UpperEnd
  <2>2. TypeOK'
    BY <1>1, <1>2, <1>3, <1>4, <2>1 DEF TypeOK
  <2>3. TokenLen(lo) > k /\ dict[lo + 1][k + 1] = Target
    <3>1. TokenLen(lo) \in Nat
      BY <1>1, <1>2, <1>4, TokenTyped
    <3>2. ~(TokenLen(lo) <= k) /\ dict[lo + 1][k + 1] = Target
      BY <1>6
    <3>3. k \in Nat
      BY <1>4
    <3> QED
      BY <3>1, <3>2, <3>3
  <2>4. Bounds'
    <3>1. (TokenLen(first) > k)' <=> TokenLen(lo) > k
      BY <1>3, <2>1 DEF TokenLen
    <3> QED
      BY <1>1, <1>2, <1>3, <1>4, <2>1, <2>3, <3>1 DEF Bounds, Narrowing
  <2>5. Within(range)' = Within(range)
    BY <1>3, <2>1 DEF Within
  <2>6. ASSUME Sorted(dict), NEW t \in Within(range)
        PROVE  UpperBrackets(t)' /\ (t < first' => Below(t)')
    <3>1. t \in Ids(dict) /\ t \in Nat /\ ~(t > range.last)
      BY <1>4 DEF Within, Ids
    <3>2. t < lo => Below(t) /\ UpToTarget(t)
      BY <1>1, <2>6, <3>1, LowerSplits, ComparedBytes
    <3> QED
      BY <1>1, <1>3, <1>4, <2>1, <3>1, <3>2 DEF UpperBrackets
  <2>7. SearchBrackets'
    BY <1>3, <2>1, <2>2, <2>5, <2>6, BracketsByMode DEF SearchBrackets, UpperBrackets
  <2>8. FirstIsFirst'
    BY <1>3, <2>5, <2>6 DEF FirstIsFirst
  <2>9. Sorted(dict) => Within(range) = {t \in Ids(dict) : Agrees(t, k)}
    BY <1>1 DEF IInv, RangeIsExact
  <2> QED
    BY <1>3, <2>1, <2>2, <2>4, <2>5, <2>7, <2>8, <2>9 DEF IInv, RangeIsExact
<1> QED
  BY <1>5, <1>6

\* The range that narrow returns.
LEMMA NarrowedRange ==
    ASSUME IInv, mode = "upper", lo >= hi
    PROVE  /\ LastId \in Ids(dict) /\ first \in Ids(dict) /\ first <= LastId
           /\ Sorted(dict) => \A t \in Ids(dict) :
                Agrees(t, k + 1) <=> first <= t /\ t <= LastId
<1>1. TypeOK /\ Bounds /\ Narrowing /\ lo \in Nat /\ hi \in Nat /\ lo = hi /\ first \in Nat
      /\ lo \in Ids(dict) /\ first \in Ids(dict) /\ k < Limit
      /\ range.begin <= first /\ first <= lo /\ hi <= range.last
      /\ TokenLen(first) > k /\ dict[first + 1][k + 1] = Target
  BY DEF IInv, Bounds, TypeOK, Ids, Narrowing
<1>2. /\ range.begin \in Nat /\ range.last \in Nat /\ Within(range) = range.begin .. range.last
      /\ k \in Nat /\ pos <= Len(text) /\ Target \in Int /\ TokenLen(first) \in Nat
      /\ Len(dict) \in Nat
  BY <1>1, WithinFacts, ComparedBytes, TokenTyped, Typed
<1>3. UpToTarget(first) /\ ~Below(first)
  BY <1>1, <1>2 DEF UpToTarget, Below
<1>4. LastId \in Nat /\ first <= LastId /\ LastId <= lo /\ LastId \in Ids(dict)
      /\ (UpToTarget(lo) => LastId = lo) /\ (~UpToTarget(lo) => LastId = lo - 1)
  <2>1. CASE UpToTarget(lo)
    BY <1>1, <2>1 DEF LastId
  <2>2. CASE ~UpToTarget(lo)
    <3>1. lo # first
      BY <1>3, <2>2
    <3> QED
      BY <1>1, <1>2, <2>2, <3>1 DEF LastId, Ids
  <2> QED
    BY <2>1, <2>2
<1>5. ASSUME Sorted(dict), NEW t \in Ids(dict)
      PROVE  Agrees(t, k + 1) <=> first <= t /\ t <= LastId
  <2>1. Within(range) = {u \in Ids(dict) : Agrees(u, k)}
    BY <1>1, <1>5 DEF IInv, RangeIsExact
  <2>2. t \in Nat
    BY <1>5 DEF Ids
  <2>3. CASE t \in Within(range)
    <3>1. first \in Within(range)
      BY <1>1, <1>2
    <3>2. Agrees(t, k) /\ Agrees(first, k)
      BY <2>1, <2>3, <3>1
    <3>3. t < first => Below(t)
      BY <1>1, <1>5, <2>3 DEF IInv, FirstIsFirst
    <3>4. first <= t => ~Below(t)
      BY <1>1, <1>2, <1>3, <1>5, <3>2, SearchIsMonotone
    <3>5. (t < lo => UpToTarget(t)) /\ (t > lo => ~UpToTarget(t))
      <4>1. UpperBrackets(t)
        BY <1>1, <1>5, <2>3, BracketsByMode DEF IInv, RangeIsExact
      <4> QED
        BY <1>1, <4>1 DEF UpperBrackets
    <3>6. UpToTarget(t) <=> t <= LastId
      <4>1. CASE t < lo
        BY <1>1, <1>4, <2>2, <3>5, <4>1
      <4>2. CASE t = lo
        BY <1>1, <1>4, <4>2
      <4>3. CASE t > lo
        BY <1>1, <1>4, <2>2, <3>5, <4>3
      <4> QED
        BY <1>1, <2>2, <4>1, <4>2, <4>3
    <3>7. Agrees(t, k + 1) <=> ~Below(t) /\ UpToTarget(t)
      BY <1>1, <3>2, ComparedBytes
    <3> QED
      BY <1>1, <2>2, <3>3, <3>4, <3>6, <3>7
  <2>4. CASE t \notin Within(range)
    <3>1. ~Agrees(t, k + 1)
      BY <1>1, <2>1, <2>4, ComparedBytes
    <3>2. ~(first <= t /\ t <= LastId)
      BY <1>1, <1>2, <1>4, <2>2, <2>4
    <3> QED
      BY <3>1, <3>2
  <2> QED
    BY <2>3, <2>4
<1> QED
  BY <1>1, <1>4, <1>5

LEMMA UpperEndStep ==
    ASSUME IInv, UpperEndReached
    PROVE  IInv'
<1>1. /\ mode = "upper" /\ lo >= hi /\ mode' = "bytes" /\ k' = k + 1
      /\ range' = [begin |-> first, last |-> LastId]
      /\ longest' = IF op = "tokenize" THEN Longest(range') ELSE longest
      /\ dict' = dict /\ text' = text /\ op' = op /\ pos' = pos
      /\ codes' = codes /\ lo' = lo /\ hi' = hi /\ first' = first
  BY DEF UpperEndReached, call
<1>2. TypeOK /\ Bounds /\ Narrowing
  BY <1>1 DEF IInv, Narrowing
<1>3. LastId \in Ids(dict) /\ first \in Ids(dict) /\ first <= LastId
  BY <1>1, NarrowedRange
<1>4. /\ range'.begin = first /\ range'.last = LastId
      /\ range' \in [begin : Ids(dict), last : Ids(dict)]
  BY <1>1, <1>3
<1>5. longest' \in Ids(dict) \cup {None}
  BY <1>1, <1>2, <1>3, <1>4 DEF Longest, TypeOK
<1>6. /\ k' \in 0 .. Len(text) /\ k' <= Limit /\ Limit' = Limit /\ Ids(dict)' = Ids(dict)
      /\ Sorted(dict)' = Sorted(dict)
  <2>1. Limit' = Limit /\ Ids(dict)' = Ids(dict) /\ Sorted(dict)' = Sorted(dict)
    BY <1>1 DEF Limit, Ids, Sorted
  <2>2. k + 1 <= Limit /\ k \in Nat /\ Limit \in 0 .. Len(text) /\ Len(text) \in Nat
    BY <1>1, <1>2, ComparedBytes, WithinFacts, Typed
  <2> QED
    BY <1>1, <2>1, <2>2
<1>7. TypeOK'
  BY <1>1, <1>2, <1>4, <1>5, <1>6 DEF TypeOK
<1>8. Bounds'
  BY <1>1, <1>2, <1>3, <1>4, <1>6 DEF Bounds, Narrowing
<1>9. SearchBrackets'
  BY <1>1, <1>7, BracketsByMode DEF SearchBrackets
<1>10. Sorted(dict) => Within(range)' = {t \in Ids(dict)' : Agrees(t, k)'}
  <2>1. \A t : Agrees(t, k)' = Agrees(t, k + 1)
    BY <1>1 DEF Agrees, StartsAt, TokenLen
  <2>2. Sorted(dict) => \A t \in Ids(dict) : Agrees(t, k + 1) <=> first <= t /\ t <= LastId
    BY <1>1, NarrowedRange
  <2> QED
    BY <1>4, <1>6, <2>1, <2>2 DEF Within
<1> QED
  BY <1>1, <1>6, <1>7, <1>8, <1>9, <1>10 DEF IInv, FirstIsFirst, RangeIsExact

LEMMA StutterIInv ==
    ASSUME IInv, UNCHANGED vars
    PROVE  IInv'
<1>1. UNCHANGED <<call, pos, k>> /\ mode' = mode /\ codes' = codes /\ range' = range
      /\ longest' = longest /\ lo' = lo /\ hi' = hi /\ first' = first
  BY DEF vars
<1>2. /\ dict' = dict /\ text' = text /\ op' = op /\ pos' = pos /\ k' = k
      /\ Target' = Target /\ Limit' = Limit /\ Ids(dict)' = Ids(dict)
      /\ Sorted(dict)' = Sorted(dict)
      /\ \A t : Below(t)' = Below(t) /\ UpToTarget(t)' = UpToTarget(t)
      /\ \A t, n : Agrees(t, n)' = Agrees(t, n)
  BY <1>1, SameQuestions
<1>3. TypeOK' /\ Bounds'
  BY <1>1, <1>2 DEF IInv, TypeOK, Bounds, Narrowing, TokenLen
<1>4. Within(range)' = Within(range)
  BY <1>1, <1>2 DEF Within
<1>5. FirstIsFirst'
  BY <1>1, <1>2, <1>4 DEF IInv, FirstIsFirst
<1>6. SearchBrackets'
  BY <1>1, <1>2, <1>3, <1>4, BracketsByMode
     DEF IInv, RangeIsExact, LowerBrackets, UpperBrackets, SearchBrackets
<1> QED
  BY <1>1, <1>2, <1>3, <1>4, <1>5, <1>6 DEF IInv, RangeIsExact, IsEmpty

LEMMA NextIInv == IInv /\ [Next]_vars => IInv'
BY BetweenTokensStep, BytesStep, SearchStep, LowerEndStep, UpperEndStep, StutterIInv DEF Next

\* On every dictionary that is safe to read the searches stay within it, and on a sorted
\* one the range is what it should be after every byte: narrow's two binary searches find
\* the first and the last token with the byte.
THEOREM RangeStaysExact == Spec => []RangeIsExact
<1>1. IInv => RangeIsExact
  BY DEF IInv
<1> QED
  BY InitIInv, NextIInv, <1>1, PTL DEF Spec

-----------------------------------------------------------------------------
(***************************************************************************)
(* tokenize is greedy.                                                     *)
(***************************************************************************)

Matches(t) == StartsAt(text, pos, dict[t + 1])

\* longest is the longest matching token of at most n bytes, if there is one.
LongestUpTo(n) ==
    IF longest = None
    THEN \A t \in Ids(dict) : TokenLen(t) <= n => ~Matches(t)
    ELSE /\ Matches(longest) /\ TokenLen(longest) <= n
         /\ \A t \in Ids(dict) : TokenLen(t) <= n /\ Matches(t) => TokenLen(t) <= TokenLen(longest)

GreedyCall == Conforms(dict) /\ op = "tokenize"

\* What longest_prefix has found so far, and that it is all when it returns.
LongestInv ==
    GreedyCall =>
        /\ Narrowing => LongestUpTo(k)
        /\ mode = "emit" => pos < Len(text) /\ LongestUpTo(MaxTokenSize)

\* The codes so far, and those of the rest, are the greedy codes of the text.
GreedyInv ==
    GreedyCall => /\ pos <= Len(text)
                  /\ codes \o GreedyFrom(dict, text)[pos] = Greedy(dict, text)

TokenizeInv == IInv /\ LongestInv /\ GreedyInv

LEMMA MatchesIsAgreement ==
    ASSUME TypeOK, NEW t \in Ids(dict)
    PROVE  Matches(t) <=> Agrees(t, TokenLen(t))
<1>1. TokenLen(t) \in Nat
  BY TokenTyped
<1>2. Agrees(t, TokenLen(t)) <=>
        pos + TokenLen(t) <= Len(text) /\ \A j \in 1 .. TokenLen(t) : text[pos + j] = dict[t + 1][j]
  BY <1>1, AgreesByByte
<1> QED
  BY <1>2 DEF Matches, StartsAt, TokenLen

\* One byte more, when the range is not empty: only its first token can be that long.
LEMMA LongestStep ==
    ASSUME IInv, LongestInv, GreedyCall, UpperEndReached
    PROVE  LongestUpTo(k)'
<1>1. /\ mode = "upper" /\ lo >= hi /\ k' = k + 1
      /\ longest' = IF TokenLen(first) = k + 1 THEN first ELSE longest
      /\ dict' = dict /\ text' = text /\ op' = op /\ pos' = pos
  BY DEF UpperEndReached, call, Longest, GreedyCall
<1>2. TypeOK /\ Bounds /\ Narrowing /\ Sorted(dict)
  BY <1>1 DEF IInv, Narrowing, GreedyCall, Conforms
<1>3. /\ first \in Ids(dict) /\ LastId \in Ids(dict) /\ first <= LastId
      /\ \A t \in Ids(dict) : Agrees(t, k + 1) <=> first <= t /\ t <= LastId
  BY <1>1, <1>2, NarrowedRange
<1>4. k \in Nat /\ first \in Nat /\ LastId \in Nat /\ first # None
  <2>1. first \in Nat /\ LastId \in Nat
    BY <1>2, <1>3, TokenTyped
  <2> QED
    BY <1>2, <2>1, WithinFacts DEF None
<1>5. LongestUpTo(k)
  BY <1>2 DEF LongestInv
<1>6. /\ Ids(dict)' = Ids(dict)
      /\ \A t : TokenLen(t)' = TokenLen(t) /\ Matches(t)' = Matches(t)
  BY <1>1 DEF Ids, TokenLen, Matches, StartsAt
<1>7. \A t \in Ids(dict) : TokenLen(t) \in Nat
  BY <1>2, TokenTyped
<1>8. CASE TokenLen(first) = k + 1
  <2>1. Matches(first)
    BY <1>2, <1>3, <1>4, <1>8, MatchesIsAgreement
  <2>2. longest' = first
    BY <1>1, <1>8
  <2>3. Matches(longest)' /\ TokenLen(longest)' = k + 1
    BY <1>1, <1>8, <2>1, <2>2 DEF Matches, StartsAt, TokenLen
  <2> QED
    BY <1>1, <1>4, <1>6, <1>7, <2>2, <2>3 DEF LongestUpTo
<1>9. CASE TokenLen(first) # k + 1
  <2>1. ASSUME NEW t \in Ids(dict), TokenLen(t) = k + 1
        PROVE  ~Matches(t)
    <3> SUFFICES ASSUME Matches(t) PROVE FALSE
      OBVIOUS
    <3>1. Agrees(t, k + 1) /\ Agrees(first, k + 1)
      BY <1>2, <1>3, <1>4, <2>1, MatchesIsAgreement
    <3>2. first < t /\ t \in Nat
      <4>1. first <= t /\ t # first
        BY <1>3, <1>9, <2>1, <3>1
      <4>2. t \in Nat
        BY <1>2, TokenTyped
      <4> QED
        BY <1>4, <4>1, <4>2
    <3>3. TokenLen(first) <= k + 1 \/ TokenLen(t) > k + 1
      BY <1>2, <1>3, <1>4, <3>1, <3>2, NextByteOrdered
    <3>4. k + 1 <= TokenLen(first)
      BY <3>1 DEF Agrees
    <3> QED
      BY <1>3, <1>4, <1>7, <1>9, <2>1, <3>3, <3>4
  <2>2. longest' = longest
    BY <1>1, <1>9
  <2>3. ASSUME NEW t \in Ids(dict)
        PROVE  TokenLen(t) <= k + 1 /\ Matches(t) => TokenLen(t) <= k
    BY <1>4, <1>7, <2>1
  <2>4. CASE longest = None
    BY <1>1, <1>5, <1>6, <2>2, <2>3, <2>4 DEF LongestUpTo
  <2>5. CASE longest # None
    <3>1. longest \in Ids(dict)
      BY <1>2, <2>5 DEF TypeOK
    <3>2. Matches(longest)' /\ TokenLen(longest)' = TokenLen(longest)
      BY <1>1, <1>5, <2>2, <2>5 DEF LongestUpTo, Matches, StartsAt, TokenLen
    <3>3. TokenLen(longest) <= k + 1
      BY <1>4, <1>5, <1>7, <2>5, <3>1 DEF LongestUpTo
    <3> QED
      BY <1>1, <1>5, <1>6, <2>2, <2>3, <2>5, <3>2, <3>3 DEF LongestUpTo
  <2> QED
    BY <2>4, <2>5
<1> QED
  BY <1>8, <1>9

\* No longer token matches than those looked at when the bytes or the range end.
LEMMA NoLongerMatch ==
    ASSUME IInv, Narrowing, GreedyCall, NEW n \in Nat, n <= MaxTokenSize, LongestUpTo(n),
           \A t \in Ids(dict) : TokenLen(t) > n => ~Matches(t)
    PROVE  LongestUpTo(MaxTokenSize)
<1>1. TypeOK
  BY DEF IInv
<1>2. \A t \in Ids(dict) : TokenLen(t) \in Nat
  BY <1>1, TokenTyped
<1>3. MaxTokenSize \in Nat
  BY BytesAssumption
<1>4. CASE longest = None
  BY <1>2, <1>4 DEF LongestUpTo
<1>5. CASE longest # None
  <2>1. longest \in Ids(dict)
    BY <1>1, <1>5 DEF TypeOK
  <2> QED
    BY <1>2, <1>3, <1>5, <2>1 DEF LongestUpTo
<1> QED
  BY <1>4, <1>5

LEMMA EmptyRangeFindsLongest ==
    ASSUME IInv, LongestInv, GreedyCall, LowerEnd, mode' = "emit"
    PROVE  LongestUpTo(MaxTokenSize)
<1>1. mode = "lower" /\ lo >= hi /\ (TokenLen(lo) <= k \/ dict[lo + 1][k + 1] # Target)
  BY DEF LowerEnd
<1>2. TypeOK /\ Bounds /\ Narrowing /\ Sorted(dict) /\ LongestUpTo(k)
  BY <1>1 DEF IInv, Narrowing, GreedyCall, Conforms, LongestInv
<1>3. k \in Nat /\ k <= MaxTokenSize
  <2>1. k \in Nat /\ k <= Limit /\ Limit \in Nat /\ pos \in Nat /\ Len(text) \in Nat
        /\ MaxTokenSize \in Nat
    BY <1>2, WithinFacts, Typed
  <2> QED
    BY <2>1 DEF Limit, GreedyCall
<1>4. ASSUME NEW t \in Ids(dict), TokenLen(t) > k, Matches(t)
      PROVE  FALSE
  <2>1. TokenLen(t) \in Nat /\ Agrees(t, TokenLen(t))
    BY <1>2, <1>4, MatchesIsAgreement, TokenTyped
  <2>2. k + 1 \in 0 .. TokenLen(t)
    BY <1>3, <1>4, <2>1
  <2>3. Agrees(t, k + 1)
    BY <1>2, <2>1, <2>2, AgreesFewer
  <2> QED
    BY <1>1, <1>2, <2>3, NoneHasTheTarget
<1> QED
  BY <1>2, <1>3, <1>4, NoLongerMatch

LEMMA EndOfBytesFindsLongest ==
    ASSUME IInv, LongestInv, GreedyCall, EndOfBytes
    PROVE  LongestUpTo(MaxTokenSize)
<1>1. mode = "bytes" /\ k = Limit
  BY DEF EndOfBytes
<1>2. TypeOK /\ Bounds /\ Narrowing /\ LongestUpTo(k)
  BY <1>1 DEF IInv, Narrowing, LongestInv
<1>3. k \in Nat /\ pos \in Nat /\ Len(text) \in Nat /\ MaxTokenSize \in Nat
  BY <1>2, WithinFacts, Typed
<1>4. CASE Len(text) - pos > MaxTokenSize
  BY <1>1, <1>2, <1>4 DEF Limit, GreedyCall
<1>5. CASE ~(Len(text) - pos > MaxTokenSize)
  <2>1. k = Len(text) - pos /\ k <= MaxTokenSize
    BY <1>1, <1>3, <1>5 DEF Limit
  <2>2. ASSUME NEW t \in Ids(dict), TokenLen(t) > k, Matches(t)
        PROVE  FALSE
    <3>1. pos + TokenLen(t) <= Len(text)
      BY <2>2 DEF Matches, StartsAt, TokenLen
    <3>2. TokenLen(t) \in Nat
      BY <1>2, <2>2, TokenTyped
    <3> QED
      BY <1>3, <2>1, <2>2, <3>1, <3>2
  <2> QED
    BY <1>2, <1>3, <2>1, <2>2, NoLongerMatch
<1> QED
  BY <1>4, <1>5

\* What longest_prefix returns is the greedy code.
LEMMA EmitsGreedyCode ==
    ASSUME TypeOK, GreedyCall, pos < Len(text), LongestUpTo(MaxTokenSize)
    PROVE  Best = CodeAt(dict, text, pos)
<1>1. /\ dict \in Seq(Token) /\ SingleByteTokens \subseteq TokensOf(dict)
      /\ text \in ByteSeq /\ pos \in Nat
  BY Typed DEF GreedyCall, Conforms
<1> DEFINE code == CodeAt(dict, text, pos)
<1>2. code \in Ids(dict) /\ IsLongestAt(TokensOf(dict), text, pos, dict[code + 1])
  BY <1>1, CodeAtFound
<1> HIDE DEF code
<1>3. \A t \in Ids(dict) : TokenLen(t) <= MaxTokenSize
  <2>1. \A t \in Ids(dict) : TokenLen(t) \in 1 .. MaxTokenSize
    BY TokenTyped
  <2> QED
    BY <2>1, BytesAssumption
<1>4. longest # None
  BY <1>2, <1>3 DEF LongestUpTo, Matches, IsLongestAt
<1>5. longest \in Ids(dict) /\ Best = longest
  BY <1>4 DEF TypeOK, Best
<1>6. IsLongestAt(TokensOf(dict), text, pos, dict[longest + 1])
  <2>1. dict[longest + 1] \in TokensOf(dict)
    BY <1>1, <1>5, VocabularyTyped
  <2>2. ASSUME NEW u \in TokensOf(dict), StartsAt(text, pos, u)
        PROVE  Len(u) <= Len(dict[longest + 1])
    <3>1. PICK t \in Ids(dict) : dict[t + 1] = u
      BY <1>1, VocabularyTyped
    <3> QED
      BY <1>3, <1>4, <2>2, <3>1 DEF LongestUpTo, Matches, TokenLen
  <2> QED
    BY <1>4, <2>1, <2>2 DEF IsLongestAt, LongestUpTo, Matches
<1> QED
  BY <1>1, <1>5, <1>6, CodeAtIs DEF GreedyCall

LEMMA InitTokenize == Init => TokenizeInv
<1> SUFFICES ASSUME Init PROVE TokenizeInv
  OBVIOUS
<1>1. IInv
  BY InitIInv
<1>2. TypeOK /\ pos = 0 /\ codes = <<>> /\ (op = "tokenize" => mode = "tokens")
  BY <1>1 DEF Init, IInv
<1>3. LongestInv
  BY <1>2 DEF LongestInv, GreedyCall, Narrowing
<1>4. ASSUME GreedyCall
      PROVE  pos <= Len(text) /\ codes \o GreedyFrom(dict, text)[pos] = Greedy(dict, text)
  <2>1. text \in ByteSeq /\ Len(text) \in Nat /\ 0 \in 0 .. Len(text) /\ Conforms(dict)
    BY <1>2, <1>4, Typed DEF GreedyCall
  <2>2. GreedyFrom(dict, text)[0] \in Seq(Ids(dict))
    BY <2>1, GreedyFromUnfolds
  <2> QED
    BY <1>2, <2>1, <2>2, ConcatEmptySeq DEF Greedy
<1> QED
  BY <1>1, <1>3, <1>4 DEF TokenizeInv, GreedyInv

LEMMA EmitKeepsGreedy ==
    ASSUME TokenizeInv, EmitToken, GreedyCall
    PROVE  /\ pos' <= Len(text)
           /\ codes' \o GreedyFrom(dict, text)[pos'] = Greedy(dict, text)
<1>1. TypeOK /\ mode = "emit" /\ pos < Len(text) /\ LongestUpTo(MaxTokenSize)
  BY DEF TokenizeInv, IInv, EmitToken, LongestInv
<1>2. Best = CodeAt(dict, text, pos)
  BY <1>1, EmitsGreedyCode
<1>3. codes' = Append(codes, Best) /\ pos' = pos + Len(dict[Best + 1])
  BY DEF EmitToken, TokenLen
<1> DEFINE G == GreedyFrom(dict, text)
<1>4. text \in ByteSeq /\ pos \in Nat /\ Len(text) \in Nat /\ pos \in 0 .. Len(text)
      /\ Conforms(dict)
  <2>1. text \in ByteSeq /\ pos \in Nat /\ Len(text) \in Nat
    BY <1>1, Typed
  <2> QED
    BY <1>1, <2>1 DEF GreedyCall
<1>5. /\ Best \in Ids(dict) /\ pos' \in pos + 1 .. Len(text)
      /\ G[pos] = <<Best>> \o G[pos']
  BY <1>1, <1>2, <1>3, <1>4, GreedyFromUnfolds
<1>6. pos' \in 0 .. Len(text) /\ pos' <= Len(text)
  BY <1>4, <1>5
<1> DEFINE rest == G[pos']
<1>7. rest \in Seq(Ids(dict)) /\ codes \in Seq(Ids(dict)) /\ <<Best>> \in Seq(Ids(dict))
  <2>1. \A p \in 0 .. Len(text) : GreedyFrom(dict, text)[p] \in Seq(Ids(dict))
    BY <1>4, GreedyFromUnfolds
  <2>2. rest \in Seq(Ids(dict))
    BY <1>6, <2>1
  <2>3. codes \in Seq(Ids(dict))
    BY <1>1 DEF TypeOK
  <2>4. <<Best>> \in Seq(Ids(dict))
    BY <1>5
  <2> QED
    BY <2>2, <2>3, <2>4
<1>8. codes \o G[pos] = Greedy(dict, text)
  BY DEF TokenizeInv, GreedyInv
<1>9. G[pos] = <<Best>> \o rest
  BY <1>5
<1> HIDE DEF G, rest
<1>10. codes' \o rest = codes \o G[pos]
  <2>1. codes' = codes \o <<Best>>
    BY <1>3, <1>5, <1>7, AppendIsConcat
  <2>2. (codes \o <<Best>>) \o rest = codes \o (<<Best>> \o rest)
    BY <1>7, ConcatAssociative
  <2> QED
    BY <1>9, <2>1, <2>2
<1> QED
  BY <1>6, <1>8, <1>10 DEF G, rest

LEMMA NextTokenize == TokenizeInv /\ [Next]_vars => TokenizeInv'
<1> SUFFICES ASSUME TokenizeInv, [Next]_vars PROVE TokenizeInv'
  OBVIOUS
<1>1. IInv' /\ IInv /\ LongestInv /\ GreedyInv /\ TypeOK /\ Bounds
  BY NextIInv DEF TokenizeInv, IInv
<1>2. dict' = dict /\ text' = text /\ op' = op /\ GreedyCall' = GreedyCall
  <2>1. dict' = dict /\ text' = text /\ op' = op
    BY DEF Next, StartLongestPrefix, FinishTokenize, EmitToken, StartNarrow, EndOfBytes,
           LowerStep, LowerEnd, UpperStep, UpperEndReached, vars, call
  <2>2. Conforms(dict)' = Conforms(dict)
    BY <2>1 DEF Conforms, Sorted, TokensOf
  <2> QED
    BY <2>1, <2>2 DEF GreedyCall
<1>3. ASSUME pos' = pos, codes' = codes
      PROVE  GreedyInv'
  <2>1. GreedyFrom(dict, text)' = GreedyFrom(dict, text) /\ Greedy(dict, text)' = Greedy(dict, text)
    BY <1>2 DEF GreedyFrom, Greedy, CodeAt, LongestMatch, IsLongestAt, StartsAt, TokensOf, Ids
  <2> QED
    BY <1>1, <1>2, <1>3, <2>1 DEF GreedyInv
<1>4. ASSUME pos' = pos, longest' = longest
      PROVE  \A n : LongestUpTo(n)' = LongestUpTo(n)
  BY <1>2, <1>4 DEF LongestUpTo, Matches, StartsAt, TokenLen, Ids
<1>5. CASE StartLongestPrefix
  <2>1. mode = "tokens" /\ mode' = "bytes" /\ k' = 0 /\ longest' = None /\ pos' = pos /\ codes' = codes
    BY <1>5 DEF StartLongestPrefix
  <2>2. LongestUpTo(0)'
    <3>1. \A t \in Ids(dict) : ~(TokenLen(t) <= 0)
      <4>1. \A t \in Ids(dict) : TokenLen(t) \in 1 .. MaxTokenSize
        BY <1>1, TokenTyped
      <4> QED
        BY <4>1, BytesAssumption
    <3>2. Ids(dict)' = Ids(dict) /\ \A t : TokenLen(t)' = TokenLen(t)
      BY <1>2 DEF Ids, TokenLen
    <3> QED
      BY <2>1, <3>1, <3>2 DEF LongestUpTo
  <2>3. LongestUpTo(k)'
    BY <2>1, <2>2 DEF LongestUpTo
  <2> QED
    BY <1>1, <1>3, <2>1, <2>3 DEF TokenizeInv, LongestInv
<1>6. CASE EmitToken
  <2>1. mode' = "tokens"
    BY <1>6 DEF EmitToken
  <2>2. LongestInv'
    BY <2>1 DEF LongestInv, Narrowing
  <2>3. GreedyInv'
    <3>1. GreedyFrom(dict, text)' = GreedyFrom(dict, text) /\ Greedy(dict, text)' = Greedy(dict, text)
      BY <1>2 DEF GreedyFrom, Greedy, CodeAt, LongestMatch, IsLongestAt, StartsAt, TokensOf, Ids
    <3> QED
      BY <1>2, <1>6, <3>1, EmitKeepsGreedy DEF GreedyInv
  <2> QED
    BY <1>1, <2>2, <2>3 DEF TokenizeInv
<1>7. CASE UpperEndReached
  <2>1. mode' = "bytes" /\ pos' = pos /\ codes' = codes
    BY <1>7 DEF UpperEndReached
  <2>2. GreedyCall => LongestUpTo(k)'
    BY <1>1, <1>7, LongestStep
  <2> QED
    BY <1>1, <1>2, <1>3, <2>1, <2>2 DEF TokenizeInv, LongestInv
<1>8. CASE LowerEnd
  <2>1. mode = "lower" /\ mode' \in {"emit", "done", "upper"} /\ pos' = pos /\ codes' = codes
        /\ longest' = longest /\ k' = k
    BY <1>8 DEF LowerEnd, Return
  <2>2. GreedyCall => pos < Len(text) /\ LongestUpTo(k)
    BY <1>1, <2>1 DEF GreedyCall, Bounds, LongestInv, Narrowing
  <2>3. GreedyCall /\ mode' = "emit" => LongestUpTo(MaxTokenSize)
    BY <1>1, <1>8, EmptyRangeFindsLongest
  <2> QED
    BY <1>1, <1>2, <1>3, <1>4, <2>1, <2>2, <2>3 DEF TokenizeInv, LongestInv
<1>9. CASE EndOfBytes
  <2>1. mode = "bytes" /\ mode' \in {"emit", "done"} /\ pos' = pos /\ codes' = codes
        /\ longest' = longest /\ k' = k
    BY <1>9 DEF EndOfBytes, Return
  <2>2. GreedyCall => pos < Len(text) /\ LongestUpTo(MaxTokenSize)
    BY <1>1, <1>9, <2>1, EndOfBytesFindsLongest DEF GreedyCall, Bounds, Narrowing
  <2> QED
    BY <1>1, <1>2, <1>3, <1>4, <2>1, <2>2 DEF TokenizeInv, LongestInv, Narrowing
<1>10. CASE FinishTokenize
  <2>1. mode' = "done" /\ pos' = pos /\ codes' = codes
    BY <1>10 DEF FinishTokenize
  <2> QED
    BY <1>1, <1>3, <2>1 DEF TokenizeInv, LongestInv, Narrowing
<1>11. CASE StartNarrow \/ LowerStep \/ UpperStep \/ UNCHANGED vars
  <2>1. /\ pos' = pos /\ codes' = codes /\ longest' = longest /\ k' = k
        /\ Narrowing' = Narrowing /\ (mode' = "emit" <=> mode = "emit")
    BY <1>11 DEF StartNarrow, LowerStep, UpperStep, vars, Narrowing
  <2> QED
    BY <1>1, <1>2, <1>3, <1>4, <2>1 DEF TokenizeInv, LongestInv
<1> QED
  BY <1>5, <1>6, <1>7, <1>8, <1>9, <1>10, <1>11 DEF Next

\* With a conformant dictionary tokenize emits the codes that the encoder does: what it
\* has emitted, followed by the greedy codes of what is left, are those of the text.
THEOREM TokenizeIsGreedy == Spec => []TokenizesGreedily
<1>1. TokenizeInv => TokenizesGreedily
  <2> SUFFICES ASSUME TokenizeInv, Conforms(dict), op = "tokenize"
               PROVE  /\ pos <= Len(text)
                      /\ codes \o Greedy(dict, SubSeq(text, pos + 1, Len(text)))
                            = Greedy(dict, text)
    BY DEF TokenizesGreedily
  <2>1. TypeOK /\ pos <= Len(text)
        /\ codes \o GreedyFrom(dict, text)[pos] = Greedy(dict, text)
    BY DEF TokenizeInv, IInv, GreedyInv, GreedyCall
  <2>2. text \in ByteSeq /\ pos \in 0 .. Len(text)
    <3>1. text \in ByteSeq /\ pos \in Nat /\ Len(text) \in Nat
      BY <2>1, Typed
    <3> QED
      BY <2>1, <3>1
  <2>3. Greedy(dict, SubSeq(text, pos + 1, Len(text))) = GreedyFrom(dict, text)[pos]
    BY <2>2, GreedyOfRest
  <2> QED
    BY <2>1, <2>3
<1> QED
  BY InitTokenize, NextTokenize, <1>1, PTL DEF Spec

-----------------------------------------------------------------------------
(***************************************************************************)
(* Patterns and what of them has been matched.  The operators of the       *)
(* properties once more, for any pattern p.                                *)
(***************************************************************************)

OccursIn(p, d) == \E at \in 0 .. Len(d) - Len(p) : StartsAt(d, at, p)

Reached(p, d) ==
    IF OccursIn(p, d) THEN Len(p)
    ELSE CHOOSE n \in 0 .. Len(p) :
            /\ n <= Len(d) /\ SubSeq(p, 1, n) = SubSeq(d, Len(d) - n + 1, Len(d))
            /\ \A m \in n + 1 .. Least(Len(p), Len(d)) :
                    SubSeq(p, 1, m) # SubSeq(d, Len(d) - m + 1, Len(d))

\* The first l of the bytes d end with the first n of the pattern, and all of them do.
EndAgrees(p, d, l, n) == \A j \in 1 .. n : p[j] = d[l - n + j]

EndsWith(p, d, n) == n \in 0 .. Len(p) /\ n <= Len(d) /\ EndAgrees(p, d, Len(d), n)

\* They end with no more of it than the first q bytes.
IsReached(p, d, q) ==
    IF OccursIn(p, d) THEN q = Len(p)
    ELSE EndsWith(p, d, q) /\ \A n \in 0 .. Len(p) : EndsWith(p, d, n) => n <= q

\* What the properties say, in terms that take the pattern as an argument.
LEMMA MatchedIsReached ==
    /\ \A d : Matched(d) = Reached(pattern, d)
    /\ \A d : Occurs(d) = OccursIn(pattern, d)
BY DEF Matched, Reached, Occurs, OccursIn, accept

LEMMA MatchedIsReachedNext ==
    /\ \A d : Matched(d)' = Reached(pattern', d)
    /\ \A d : Occurs(d)' = OccursIn(pattern', d)
BY DEF Matched, Reached, Occurs, OccursIn, accept

\* The prefix of s elements.
LEMMA PrefixIs ==
    ASSUME NEW p \in Seq(Nat), NEW s \in 0 .. Len(p)
    PROVE  /\ SubSeq(p, 1, s) \in Seq(Nat) /\ Len(SubSeq(p, 1, s)) = s
           /\ \A j \in 1 .. s : SubSeq(p, 1, s)[j] = p[j]
OBVIOUS

\* The last m bytes of the first n.
LEMMA EndIs ==
    ASSUME NEW w \in Seq(Nat), NEW n \in 0 .. Len(w), NEW m \in 0 .. n
    PROVE  LET x == SubSeq(w, n - m + 1, n)
           IN  x \in Seq(Nat) /\ Len(x) = m /\ \A j \in 1 .. m : x[j] = w[n - m + j]
  OBVIOUS

\* Bytes end with a prefix if the two slices agree element by element.
LEMMA EndsIs ==
    ASSUME NEW p \in Seq(Nat), NEW d \in Seq(Nat), NEW n \in 0 .. Len(p), n <= Len(d)
    PROVE  SubSeq(p, 1, n) = SubSeq(d, Len(d) - n + 1, Len(d)) <=> EndsWith(p, d, n)
<1> DEFINE x == SubSeq(p, 1, n)
           y == SubSeq(d, Len(d) - n + 1, Len(d))
<1>1. x \in Seq(Nat) /\ Len(x) = n /\ \A j \in 1 .. n : x[j] = p[j]
  BY PrefixIs
<1>2. y \in Seq(Nat) /\ Len(y) = n /\ \A j \in 1 .. n : y[j] = d[Len(d) - n + j]
  <2>1. Len(d) \in 0 .. Len(d) /\ n \in 0 .. Len(d)
    OBVIOUS
  <2> QED
    BY <2>1, EndIs
<1> HIDE DEF x, y
<1>3. x = y <=> \A j \in 1 .. n : x[j] = y[j]
  BY <1>1, <1>2
<1>4. x = y <=> EndsWith(p, d, n)
  BY <1>1, <1>2, <1>3 DEF EndsWith, EndAgrees
<1> QED
  BY <1>4 DEF x, y

\* The bytes end with something of the pattern, be it nothing, and with a most of it.
LEMMA ReachedExists ==
    ASSUME NEW p \in Seq(Nat), NEW d \in Seq(Nat)
    PROVE  \E q \in 0 .. Len(p) : IsReached(p, d, q)
<1> DEFINE S == {n \in 0 .. Len(p) : EndsWith(p, d, n)}
<1>1. CASE OccursIn(p, d)
  BY <1>1 DEF IsReached
<1>2. CASE ~OccursIn(p, d)
  <2>1. 0 \in S
    BY DEF EndsWith, EndAgrees
  <2>2. S \in SUBSET Nat /\ \A n \in S : n <= Len(p)
    OBVIOUS
  <2>3. PICK q \in S : \A n \in S : n <= q
    <3>1. S # {} /\ Len(p) \in Nat
      BY <2>1
    <3> HIDE DEF S
    <3> QED
      BY <2>2, <3>1, LargestNatural
  <2> QED
    BY <1>2, <2>3 DEF IsReached
<1> QED
  BY <1>1, <1>2

\* What bytes have reached is unique.
LEMMA ReachedIs ==
    ASSUME NEW p \in Seq(Nat), NEW d \in Seq(Nat), NEW q
    PROVE  Reached(p, d) = q <=> IsReached(p, d, q)
<1>1. CASE OccursIn(p, d)
  BY <1>1 DEF Reached, IsReached
<1>2. CASE ~OccursIn(p, d)
  <2> DEFINE P(n) ==
            /\ n <= Len(d) /\ SubSeq(p, 1, n) = SubSeq(d, Len(d) - n + 1, Len(d))
            /\ \A m \in n + 1 .. Least(Len(p), Len(d)) :
                    SubSeq(p, 1, m) # SubSeq(d, Len(d) - m + 1, Len(d))
  <2>1. ASSUME NEW n \in 0 .. Len(p)
        PROVE  P(n) <=> IsReached(p, d, n)
    <3>0. \A m \in 0 .. Len(p) : m <= Len(d) =>
            (SubSeq(p, 1, m) = SubSeq(d, Len(d) - m + 1, Len(d)) <=> EndsWith(p, d, m))
      BY EndsIs
    <3>1. Least(Len(p), Len(d)) \in Nat /\ \A m \in Nat :
            m <= Least(Len(p), Len(d)) <=> m <= Len(p) /\ m <= Len(d)
      BY DEF Least
    <3>2. \A m \in 0 .. Len(p) : EndsWith(p, d, m) => m <= Len(d)
      BY DEF EndsWith
    <3>3. P(n) => IsReached(p, d, n)
      <4> SUFFICES ASSUME P(n) PROVE IsReached(p, d, n)
        OBVIOUS
      <4>1. EndsWith(p, d, n)
        BY <3>0
      <4>2. ASSUME NEW m \in 0 .. Len(p), EndsWith(p, d, m), ~(m <= n)
            PROVE  FALSE
        <5>1. m \in n + 1 .. Least(Len(p), Len(d))
          BY <3>1, <3>2, <4>2
        <5> QED
          BY <3>0, <3>2, <4>2, <5>1
      <4> QED
        BY <1>2, <4>1, <4>2 DEF IsReached
    <3>4. IsReached(p, d, n) => P(n)
      <4> SUFFICES ASSUME IsReached(p, d, n) PROVE P(n)
        OBVIOUS
      <4>1. EndsWith(p, d, n) /\ \A m \in 0 .. Len(p) : EndsWith(p, d, m) => m <= n
        BY <1>2 DEF IsReached
      <4>2. ASSUME NEW m \in n + 1 .. Least(Len(p), Len(d))
            PROVE  SubSeq(p, 1, m) # SubSeq(d, Len(d) - m + 1, Len(d))
        <5>1. m \in 0 .. Len(p) /\ m <= Len(d) /\ ~(m <= n)
          BY <3>1, <4>2
        <5> QED
          BY <3>0, <4>1, <5>1
      <4> QED
        BY <3>0, <3>2, <4>1, <4>2
    <3> QED
      BY <3>3, <3>4
  <2>2. Reached(p, d) = CHOOSE n \in 0 .. Len(p) : P(n)
    BY <1>2 DEF Reached
  <2> HIDE DEF P
  <2>3. PICK n \in 0 .. Len(p) : IsReached(p, d, n)
    BY ReachedExists
  <2>4. Reached(p, d) \in 0 .. Len(p) /\ P(Reached(p, d))
    BY <2>1, <2>2, <2>3
  <2>5. IsReached(p, d, Reached(p, d))
    BY <2>1, <2>4
  <2>6. ASSUME NEW x, NEW y, IsReached(p, d, x), IsReached(p, d, y)
        PROVE  x = y
    <3>1. x \in 0 .. Len(p) /\ y \in 0 .. Len(p) /\ x <= y /\ y <= x
      BY <1>2, <2>6 DEF IsReached, EndsWith
    <3> QED
      BY <3>1
  <2> QED
    BY <2>5, <2>6
<1> QED
  BY <1>1, <1>2

LEMMA ReachedType ==
    ASSUME NEW p \in Seq(Nat), NEW d \in Seq(Nat)
    PROVE  Reached(p, d) \in 0 .. Len(p) /\ IsReached(p, d, Reached(p, d))
<1>1. PICK q \in 0 .. Len(p) : IsReached(p, d, q)
  BY ReachedExists
<1> QED
  BY <1>1, ReachedIs

\* One more byte: the end of the bytes extends to it.
LEMMA EndsExtends ==
    ASSUME NEW p \in Seq(Nat), NEW d \in Seq(Nat), NEW b \in Nat, NEW n \in 1 .. Len(p)
    PROVE  EndsWith(p, Append(d, b), n) <=> EndsWith(p, d, n - 1) /\ p[n] = b
<1> DEFINE e == Append(d, b)
           l == Len(d)
<1>1. e \in Seq(Nat) /\ Len(e) = l + 1 /\ e[l + 1] = b /\ \A j \in 1 .. l : e[j] = d[j]
  OBVIOUS
<1>2. l \in Nat /\ n \in Nat /\ n >= 1 /\ n <= Len(p) /\ n - 1 \in 0 .. Len(p)
  OBVIOUS
<1>3. l = Len(d)
  OBVIOUS
<1> HIDE DEF e, l
<1>4. ASSUME EndsWith(p, e, n)
      PROVE  EndsWith(p, d, n - 1) /\ p[n] = b
  <2>1. n <= l + 1 /\ \A j \in 1 .. n : p[j] = e[l + 1 - n + j]
    <3>1. n <= l + 1 /\ EndAgrees(p, e, l + 1, n)
      BY <1>1, <1>4 DEF EndsWith
    <3> QED
      BY <1>2, <3>1 DEF EndAgrees
  <2>2. p[n] = b
    BY <1>1, <1>2, <2>1
  <2>3. ASSUME NEW j \in 1 .. n - 1
        PROVE  p[j] = d[l - (n - 1) + j]
    <3>1. j \in 1 .. n /\ l + 1 - n + j = l - (n - 1) + j /\ l - (n - 1) + j \in 1 .. l
      BY <1>2, <2>1
    <3> QED
      BY <1>1, <2>1, <3>1
  <2>4. EndAgrees(p, d, l, n - 1)
    BY <2>3 DEF EndAgrees
  <2> QED
    BY <1>2, <1>3, <2>1, <2>2, <2>4 DEF EndsWith
<1>5. ASSUME EndsWith(p, d, n - 1), p[n] = b
      PROVE  EndsWith(p, e, n)
  <2>1. n - 1 <= l /\ \A j \in 1 .. n - 1 : p[j] = d[l - (n - 1) + j]
    <3>1. n - 1 <= l /\ EndAgrees(p, d, l, n - 1)
      BY <1>3, <1>5 DEF EndsWith
    <3> QED
      BY <3>1 DEF EndAgrees
  <2>2. ASSUME NEW j \in 1 .. n
        PROVE  p[j] = e[l + 1 - n + j]
    <3>1. CASE j = n
      BY <1>1, <1>2, <1>5, <3>1
    <3>2. CASE j # n
      <4>1. j \in 1 .. n - 1 /\ l + 1 - n + j = l - (n - 1) + j /\ l - (n - 1) + j \in 1 .. l
        BY <1>2, <2>1, <3>2
      <4> QED
        BY <1>1, <2>1, <4>1
    <3> QED
      BY <3>1, <3>2
  <2>3. EndAgrees(p, e, l + 1, n) /\ n <= l + 1 /\ n \in 0 .. Len(p)
    BY <1>2, <2>1, <2>2 DEF EndAgrees
  <2> QED
    BY <1>1, <2>3 DEF EndsWith
<1>6. EndsWith(p, e, n) <=> EndsWith(p, d, n - 1) /\ p[n] = b
  BY <1>4, <1>5
<1> QED
  BY <1>6 DEF e

\* If the bytes end with a prefix, then the shorter ones they end with are its borders.
LEMMA EndsNest ==
    ASSUME NEW p \in Seq(Nat), NEW d \in Seq(Nat), NEW s \in 0 .. Len(p), EndsWith(p, d, s),
           NEW n \in 0 .. s
    PROVE  EndsWith(p, d, n) <=> EndsWith(p, SubSeq(p, 1, s), n)
<1> DEFINE x == SubSeq(p, 1, s)
<1>1. x \in Seq(Nat) /\ Len(x) = s /\ \A j \in 1 .. s : x[j] = p[j]
  BY PrefixIs
<1> HIDE DEF x
<1>2. Len(d) \in Nat /\ s \in Nat /\ n \in Nat /\ n <= s /\ s <= Len(d) /\ n \in 0 .. Len(p)
  BY DEF EndsWith
<1>3. \A j \in 1 .. s : p[j] = d[Len(d) - s + j]
  BY DEF EndsWith, EndAgrees
<1>4. ASSUME NEW j \in 1 .. n
      PROVE  x[s - n + j] = d[Len(d) - n + j]
  <2>1. s - n + j \in 1 .. s /\ Len(d) - s + (s - n + j) = Len(d) - n + j
    BY <1>2
  <2> QED
    BY <1>1, <1>3, <2>1
<1>5. EndAgrees(p, d, Len(d), n) <=> EndAgrees(p, x, s, n)
  BY <1>4 DEF EndAgrees
<1>6. EndsWith(p, d, n) <=> EndsWith(p, x, n)
  BY <1>1, <1>2, <1>5 DEF EndsWith
<1> QED
  BY <1>6 DEF x

\* One more byte can only complete an occurrence at the end.
LEMMA OccursExtends ==
    ASSUME NEW p \in Seq(Nat), Len(p) > 0, NEW d \in Seq(Nat), NEW b \in Nat
    PROVE  OccursIn(p, Append(d, b)) <=> OccursIn(p, d) \/ EndsWith(p, Append(d, b), Len(p))
<1> DEFINE e == Append(d, b)
           l == Len(d)
           m == Len(p)
<1>1. e \in Seq(Nat) /\ Len(e) = l + 1 /\ e[l + 1] = b /\ \A j \in 1 .. l : e[j] = d[j]
  OBVIOUS
<1>2. l \in Nat /\ m \in Nat /\ m > 0 /\ l = Len(d) /\ m = Len(p)
  OBVIOUS
<1> HIDE DEF e, l, m
<1>7. ASSUME NEW at \in 0 .. l + 1 - m, \A j \in 1 .. m : e[at + j] = p[j]
      PROVE  OccursIn(p, e)
  <2>1. at + m <= l + 1
    BY <1>2
  <2>2. StartsAt(e, at, p)
    BY <1>1, <1>2, <1>7, <2>1 DEF StartsAt
  <2>3. at \in 0 .. Len(e) - Len(p)
    BY <1>1, <1>2
  <2> QED
    BY <2>2, <2>3 DEF OccursIn
<1>3. ASSUME NEW at \in 0 .. l + 1 - m, StartsAt(e, at, p)
      PROVE  OccursIn(p, d) \/ EndsWith(p, e, m)
  <2>1. \A j \in 1 .. m : e[at + j] = p[j]
    BY <1>2, <1>3 DEF StartsAt
  <2>2. CASE at = l + 1 - m
    <3>1. m \in 0 .. m /\ m <= l + 1
      BY <1>2, <1>3, <2>2
    <3>2. ASSUME NEW j \in 1 .. m PROVE p[j] = e[l + 1 - m + j]
      BY <2>1, <2>2
    <3>3. EndAgrees(p, e, l + 1, m)
      BY <1>2, <3>2 DEF EndAgrees
    <3> QED
      BY <1>1, <1>2, <3>1, <3>3 DEF EndsWith
  <2>3. CASE at # l + 1 - m
    <3>1. at \in 0 .. l - m /\ at + m <= l
      BY <1>2, <2>3
    <3>2. ASSUME NEW j \in 1 .. m
          PROVE  d[at + j] = p[j]
      <4>1. at + j \in 1 .. l
        BY <1>2, <3>1
      <4> QED
        BY <1>1, <2>1, <4>1
    <3> QED
      BY <1>2, <3>1, <3>2 DEF OccursIn, StartsAt
  <2> QED
    BY <2>2, <2>3
<1>4. ASSUME NEW at \in 0 .. l - m, StartsAt(d, at, p)
      PROVE  OccursIn(p, e)
  <2>1. at + m <= l /\ \A j \in 1 .. m : d[at + j] = p[j]
    BY <1>2, <1>4 DEF StartsAt
  <2>2. ASSUME NEW j \in 1 .. m
        PROVE  e[at + j] = p[j]
    <3>1. at + j \in 1 .. l
      BY <1>2, <2>1
    <3> QED
      BY <1>1, <2>1, <3>1
  <2>3. at \in 0 .. l + 1 - m /\ at + m <= l + 1
    BY <1>2, <2>1
  <2> QED
    BY <2>2, <2>3, <1>7
<1>5. ASSUME EndsWith(p, e, m)
      PROVE  OccursIn(p, e)
  <2>1. m <= l + 1 /\ EndAgrees(p, e, l + 1, m)
    BY <1>1, <1>5 DEF EndsWith
  <2>2. l + 1 - m \in 0 .. l + 1 - m
    BY <1>2, <2>1
  <2>3. \A j \in 1 .. m : e[(l + 1 - m) + j] = p[j]
    BY <1>2, <2>1 DEF EndAgrees
  <2> QED
    BY <2>2, <2>3, <1>7
<1>6. OccursIn(p, e) <=> OccursIn(p, d) \/ EndsWith(p, e, m)
  BY <1>1, <1>2, <1>3, <1>4, <1>5 DEF OccursIn
<1> QED
  BY <1>6 DEF e, m

-----------------------------------------------------------------------------
(***************************************************************************)
(* Functions that are defined by recursion to smaller numbers.             *)
(***************************************************************************)

\* Induction over a set from all smaller numbers.
LEMMA StrongInduction ==
    ASSUME NEW n \in Nat, NEW S,
           \A m \in 0 .. n : (\A j \in 0 .. m - 1 : j \in S) => m \in S
    PROVE  \A m \in 0 .. n : m \in S
<1> DEFINE Bad == {m \in 0 .. n : m \notin S}
<1>1. SUFFICES ASSUME Bad # {}
               PROVE  FALSE
  OBVIOUS
<1>2. Bad \in SUBSET Nat
  OBVIOUS
<1>3. PICK m \in Bad : \A j \in Bad : m <= j
  BY <1>1, <1>2, LeastNatural
<1>4. m \in 0 .. n /\ m \notin S
  OBVIOUS
<1>5. ASSUME NEW j \in 0 .. m - 1
      PROVE  j \in S
  <2>1. j \in 0 .. n /\ ~(m <= j)
    BY <1>4
  <2>2. j \notin Bad
    <3> HIDE DEF Bad
    <3> QED
      BY <1>3, <2>1
  <2> QED
    BY <2>1, <2>2
<1> QED
  BY <1>4, <1>5

\* A function that ends at some of its arguments and else steps to another one.
Recurs(f, D, ends, out, next, step) ==
    f = [r \in D |-> IF r \in ends THEN out[r] ELSE step[<<r, f[next[r]]>>]]

\* A function that recurs by steps to a smaller argument, and that there is one.
LEMMA RecursUnfolds ==
    ASSUME NEW D, NEW ends, NEW out, NEW next, NEW step, NEW f,
           Recurs(f, D, ends, out, next, step), NEW r \in D
    PROVE  f[r] = IF r \in ends THEN out[r] ELSE step[<<r, f[next[r]]>>]
<1> DEFINE rhs(q) == IF q \in ends THEN out[q] ELSE step[<<q, f[next[q]]>>]
<1>1. f = [q \in D |-> rhs(q)]
  BY DEF Recurs
<1> HIDE DEF rhs
<1>2. f[r] = rhs(r)
  BY <1>1
<1> QED
  BY <1>2 DEF rhs

LEMMA RecursionExists ==
    ASSUME NEW n \in Nat, NEW D \in SUBSET (0 .. n), NEW V, NEW ends, NEW out, NEW next, NEW step,
           \A r \in D : r \in ends => out[r] \in V,
           \A r \in D : r \notin ends => next[r] \in D /\ next[r] < r,
           \A r \in D, v \in V : step[<<r, v>>] \in V
    PROVE  \E f \in [D -> V] : Recurs(f, D, ends, out, next, step)
<1> DEFINE Fewer(m) == {r \in D : r < m}
           rhs(h, r) == IF r \in ends THEN out[r] ELSE step[<<r, h[next[r]]>>]
           Good == {m \in 0 .. n + 1 :
                        \E f : f \in [Fewer(m) -> V] /\ \A r \in Fewer(m) : f[r] = rhs(f, r)}
<1>0. \A r \in D : r \in Nat /\ r <= n
  OBVIOUS
<1>1. 0 \in Good
  <2> DEFINE f == [r \in {} |-> r]
  <2>1. Fewer(0) = {}
    <3>1. \A r \in D : ~(r < 0)
      BY <1>0
    <3> QED
      BY <3>1
  <2>2. f \in [{} -> V] /\ \A r \in {} : f[r] = rhs(f, r)
    OBVIOUS
  <2> HIDE DEF f, rhs
  <2>3. f \in [Fewer(0) -> V] /\ \A r \in Fewer(0) : f[r] = rhs(f, r)
    BY <2>1, <2>2
  <2> HIDE DEF Fewer
  <2> QED
    BY <2>3
<1>2. ASSUME NEW m \in 0 .. n, m \in Good
      PROVE  m + 1 \in Good
  <2>1. PICK g : g \in [Fewer(m) -> V] /\ \A r \in Fewer(m) : g[r] = rhs(g, r)
    BY <1>2
  <2> DEFINE f == [r \in Fewer(m + 1) |-> IF r < m THEN g[r] ELSE rhs(g, r)]
  <2>2. ASSUME NEW r \in Fewer(m + 1)
        PROVE  f[r] = rhs(g, r)
    <3>1. CASE r < m
      <4>1. r \in Fewer(m)
        BY <3>1
      <4>2. f[r] = g[r]
        BY <3>1
      <4> HIDE DEF f, rhs
      <4> QED
        BY <2>1, <4>1, <4>2
    <3>2. CASE ~(r < m)
      <4> HIDE DEF rhs
      <4> QED
        BY <3>2
    <3> QED
      BY <3>1, <3>2
  <2>3. ASSUME NEW r \in Fewer(m + 1), r \notin ends
        PROVE  next[r] \in Fewer(m) /\ next[r] \in Fewer(m + 1) /\ f[next[r]] = g[next[r]]
               /\ g[next[r]] \in V
    <3>0. r \in D /\ r < m + 1 /\ m \in Nat
      OBVIOUS
    <3>1. next[r] \in D /\ next[r] < r /\ r \in Nat /\ next[r] \in Nat
      BY <1>0, <2>3, <3>0
    <3> HIDE DEF f
    <3>2. next[r] \in Fewer(m) /\ next[r] \in Fewer(m + 1) /\ next[r] < m
      BY <3>0, <3>1
    <3>3. f[next[r]] = g[next[r]]
      BY <3>2 DEF f
    <3> HIDE DEF Fewer
    <3> QED
      BY <2>1, <3>2, <3>3
  <2>4. ASSUME NEW r \in Fewer(m + 1)
        PROVE  f[r] = rhs(f, r) /\ f[r] \in V
    <3> HIDE DEF f
    <3>1. CASE r \in ends
      BY <2>2, <3>1
    <3>2. CASE r \notin ends
      <4>1. f[r] = step[<<r, g[next[r]]>>] /\ f[next[r]] = g[next[r]] /\ g[next[r]] \in V
        BY <2>2, <2>3, <3>2
      <4> QED
        BY <3>2, <4>1
    <3> QED
      BY <3>1, <3>2
  <2>5. f \in [Fewer(m + 1) -> V]
    <3>1. f = [r \in Fewer(m + 1) |-> f[r]]
      OBVIOUS
    <3> HIDE DEF f, Fewer
    <3> QED
      BY <2>4, <3>1
  <2> HIDE DEF f, Fewer, rhs
  <2>6. m + 1 \in 0 .. n + 1
    OBVIOUS
  <2> QED
    BY <2>4, <2>5, <2>6
<1>3. n + 1 \in Good
  <2> HIDE DEF Good
  <2>1. n + 1 \in Nat /\ (n + 1) - 1 = n /\ n + 1 \in 0 .. n + 1
    OBVIOUS
  <2>2. \A m \in 0 .. (n + 1) - 1 : m \in Good => m + 1 \in Good
    BY <1>2, <2>1
  <2>3. \A m \in 0 .. n + 1 : m \in Good
    BY <1>1, <2>1, <2>2, UpwardInduction
  <2> QED
    BY <2>1, <2>3
<1>4. Fewer(n + 1) = D
  <2>1. \A r \in D : r < n + 1
    BY <1>0
  <2> QED
    BY <2>1
<1> HIDE DEF Fewer
<1>5. PICK f : f \in [D -> V] /\ \A r \in D : f[r] = rhs(f, r)
  <2> HIDE DEF rhs
  <2> QED
    BY <1>3, <1>4
<1>6. f = [r \in D |-> rhs(f, r)]
  <2>1. f = [r \in D |-> f[r]]
    BY <1>5
  <2> HIDE DEF rhs
  <2> QED
    BY <1>5, <2>1
<1>7. Recurs(f, D, ends, out, next, step)
  BY <1>6 DEF Recurs
<1> QED
  BY <1>5, <1>7

-----------------------------------------------------------------------------
(***************************************************************************)
(* The automaton of bytes.                                                 *)
(***************************************************************************)

Prefix(p, s) == SubSeq(p, 1, s)

\* Bytes that end with all of the pattern contain it.
LEMMA EndsOccurs ==
    ASSUME NEW p \in Seq(Nat), NEW d \in Seq(Nat), EndsWith(p, d, Len(p))
    PROVE  OccursIn(p, d)
<1> DEFINE l == Len(d)
           m == Len(p)
<1>1. l \in Nat /\ m \in Nat /\ m <= l /\ EndAgrees(p, d, l, m)
  BY DEF EndsWith
<1>2. l = Len(d) /\ m = Len(p)
  OBVIOUS
<1> HIDE DEF l, m
<1>3. \A j \in 1 .. m : d[(l - m) + j] = p[j]
  BY <1>1 DEF EndAgrees
<1>4. l - m \in 0 .. l - m /\ (l - m) + m <= l
  BY <1>1
<1>5. StartsAt(d, l - m, p)
  BY <1>2, <1>3, <1>4 DEF StartsAt
<1> QED
  BY <1>2, <1>4, <1>5 DEF OccursIn

LEMMA OccursNeedsRoom ==
    ASSUME NEW p \in Seq(Nat), NEW d \in Seq(Nat), Len(d) < Len(p)
    PROVE  ~OccursIn(p, d)
<1>1. Len(d) \in Nat /\ Len(p) \in Nat
  OBVIOUS
<1> QED
  BY <1>1 DEF OccursIn

LEMMA EndsInPrefix ==
    ASSUME NEW p \in Seq(Nat), NEW s \in 0 .. Len(p)
    PROVE  EndsWith(p, Prefix(p, s), s)
<1>1. Len(Prefix(p, s)) = s /\ \A j \in 1 .. s : Prefix(p, s)[j] = p[j]
  BY PrefixIs DEF Prefix
<1>2. ASSUME NEW j \in 1 .. s
      PROVE  p[j] = Prefix(p, s)[s - s + j]
  <2>1. s - s + j = j
    OBVIOUS
  <2> QED
    BY <1>1, <2>1
<1>3. EndAgrees(p, Prefix(p, s), s, s)
  BY <1>2 DEF EndAgrees
<1> QED
  BY <1>1, <1>3 DEF EndsWith

\* A prefix of the pattern has reached its own length: a state stands for itself.
LEMMA ReachedOfPrefix ==
    ASSUME NEW p \in Seq(Nat), NEW s \in 0 .. Len(p)
    PROVE  Reached(p, Prefix(p, s)) = s
<1> DEFINE x == Prefix(p, s)
<1>1. x \in Seq(Nat) /\ Len(x) = s /\ EndsWith(p, x, s)
  BY PrefixIs, EndsInPrefix DEF Prefix
<1> HIDE DEF x
<1>2. CASE s = Len(p)
  <2>1. OccursIn(p, x)
    BY <1>1, <1>2, EndsOccurs
  <2>2. IsReached(p, x, s)
    BY <1>2, <2>1 DEF IsReached
  <2> QED
    BY <1>1, <2>2, ReachedIs DEF x
<1>3. CASE s # Len(p)
  <2>1. ~OccursIn(p, x)
    <3>1. Len(x) < Len(p)
      BY <1>1, <1>3
    <3> QED
      BY <1>1, <3>1, OccursNeedsRoom
  <2>2. \A n \in 0 .. Len(p) : EndsWith(p, x, n) => n <= s
    BY <1>1 DEF EndsWith
  <2>3. IsReached(p, x, s)
    BY <1>1, <2>1, <2>2 DEF IsReached
  <2> QED
    BY <1>1, <2>3, ReachedIs DEF x
<1> QED
  BY <1>2, <1>3

LEMMA EndsWithNothing ==
    ASSUME NEW p \in Seq(Nat), NEW d \in Seq(Nat)
    PROVE  EndsWith(p, d, 0)
<1>1. Len(d) \in Nat /\ Len(p) \in Nat
  OBVIOUS
<1> QED
  BY <1>1 DEF EndsWith, EndAgrees

\* Of bytes only what they have reached matters for what comes.
LEMMA ReachedByByte ==
    ASSUME NEW p \in Seq(Nat), Len(p) > 0, NEW d \in Seq(Nat), NEW b \in Nat
    PROVE  Reached(p, Append(d, b)) = Reached(p, Append(Prefix(p, Reached(p, d)), b))
<1> DEFINE m == Len(p)
           q == Reached(p, d)
           x == Prefix(p, q)
           e == Append(d, b)
           y == Append(x, b)
<1>1. m \in Nat /\ q \in 0 .. m /\ IsReached(p, d, q)
  BY ReachedType
<1>2. x \in Seq(Nat) /\ Len(x) = q /\ EndsWith(p, x, q)
  BY <1>1, PrefixIs, EndsInPrefix DEF Prefix
<1>3. e \in Seq(Nat) /\ y \in Seq(Nat)
  BY <1>2
<1>4. /\ OccursIn(p, e) <=> OccursIn(p, d) \/ EndsWith(p, e, m)
      /\ OccursIn(p, y) <=> OccursIn(p, x) \/ EndsWith(p, y, m)
  BY <1>2, OccursExtends
<1>5. ASSUME NEW n \in 1 .. m
      PROVE  /\ EndsWith(p, e, n) <=> EndsWith(p, d, n - 1) /\ p[n] = b
             /\ EndsWith(p, y, n) <=> EndsWith(p, x, n - 1) /\ p[n] = b
  BY <1>2, EndsExtends
<1>6. EndsWith(p, e, 0) /\ EndsWith(p, y, 0)
  BY <1>3, EndsWithNothing
<1>7. m = Len(p) /\ Reached(p, e) \in 0 .. m /\ Reached(p, y) \in 0 .. m
      /\ IsReached(p, e, Reached(p, e)) /\ IsReached(p, y, Reached(p, y))
  BY <1>3, ReachedType
<1> HIDE DEF m, x, e, y
<1>8. CASE OccursIn(p, d)
  <2>1. q = m
    BY <1>1, <1>8 DEF IsReached, m
  <2>2. OccursIn(p, x)
    BY <1>2, <2>1, EndsOccurs DEF m
  <2>3. OccursIn(p, e) /\ OccursIn(p, y)
    BY <1>4, <1>8, <2>2
  <2>4. Reached(p, e) = Reached(p, y)
    BY <2>3 DEF Reached
  <2> QED
    BY <2>4 DEF e, y, x
<1>9. CASE ~OccursIn(p, d)
  <2>1. EndsWith(p, d, q) /\ \A n \in 0 .. m : EndsWith(p, d, n) => n <= q
    BY <1>1, <1>9 DEF IsReached, m
  <2>2. q # m
    BY <1>9, <2>1, EndsOccurs DEF m
  <2>3. ~OccursIn(p, x)
    <3>1. Len(x) < Len(p)
      BY <1>1, <1>2, <1>7, <2>2
    <3> QED
      BY <1>2, <3>1, OccursNeedsRoom
  <2> HIDE DEF q
  <2>4. ASSUME NEW n \in 0 .. m
        PROVE  EndsWith(p, d, n) <=> EndsWith(p, x, n)
    <3>1. CASE n <= q
      <4>1. n \in 0 .. q
        BY <1>1, <3>1
      <4> QED
        BY <1>1, <1>7, <2>1, <4>1, EndsNest DEF x, Prefix
    <3>2. CASE ~(n <= q)
      <4>1. ~EndsWith(p, d, n)
        BY <2>1, <3>2
      <4>2. ~EndsWith(p, x, n)
        BY <1>2, <3>2 DEF EndsWith
      <4> QED
        BY <4>1, <4>2
    <3> QED
      BY <3>1, <3>2
  <2>5. ASSUME NEW n \in 0 .. m
        PROVE  EndsWith(p, e, n) <=> EndsWith(p, y, n)
    <3>1. CASE n = 0
      BY <1>6, <3>1
    <3>2. CASE n # 0
      <4>1. n \in 1 .. m /\ n - 1 \in 0 .. m
        BY <1>1, <3>2
      <4> QED
        BY <1>5, <2>4, <4>1
    <3> QED
      BY <3>1, <3>2
  <2>6. m \in 0 .. m
    BY <1>1
  <2>7. OccursIn(p, e) <=> OccursIn(p, y)
    BY <1>4, <1>9, <2>3, <2>5, <2>6
  <2>8. \A z : IsReached(p, e, z) <=> IsReached(p, y, z)
    <3>1. \A z : EndsWith(p, e, z) <=> EndsWith(p, y, z)
      BY <1>7, <2>5 DEF EndsWith
    <3> QED
      BY <1>7, <2>7, <3>1 DEF IsReached
  <2>9. Reached(p, e) = Reached(p, y)
    BY <1>3, <1>7, <2>8, ReachedIs
  <2> QED
    BY <2>9 DEF e, y, x, q
<1> QED
  BY <1>8, <1>9

\* The failure links of the prefixes up to n are their longest proper borders.
LinksExact(p, links, n) ==
    \A m \in 1 .. n :
        /\ links[m] \in 0 .. m - 1 /\ EndsWith(p, Prefix(p, m), links[m])
        /\ \A x \in links[m] + 1 .. m - 1 : ~EndsWith(p, Prefix(p, m), x)

\* What a state falls back to before it takes a byte.
FallsTo(p, b, s, r) ==
    /\ r \in 0 .. s /\ EndsWith(p, Prefix(p, s), r)
    /\ r = 0 \/ p[r + 1] = b
    /\ \A n \in r + 1 .. s : EndsWith(p, Prefix(p, s), n) => p[n + 1] # b

\* The borders of a prefix are its longest one and the borders of that one.
LEMMA BordersOfLink ==
    ASSUME NEW p \in Seq(Nat), NEW links, NEW s \in 1 .. Len(p), LinksExact(p, links, s)
    PROVE  /\ links[s] \in 0 .. s - 1 /\ EndsWith(p, Prefix(p, s), links[s])
           /\ \A n \in 0 .. s - 1 : EndsWith(p, Prefix(p, s), n)
                <=> n <= links[s] /\ EndsWith(p, Prefix(p, links[s]), n)
<1> DEFINE x == Prefix(p, s)
           t == links[s]
<1>1. s \in 1 .. s /\ s \in 0 .. Len(p)
  OBVIOUS
<1>2. /\ t \in 0 .. s - 1 /\ EndsWith(p, x, t)
      /\ \A n \in t + 1 .. s - 1 : ~EndsWith(p, x, n)
  BY <1>1 DEF LinksExact
<1>3. x \in Seq(Nat) /\ Len(x) = s
  BY <1>1, PrefixIs DEF Prefix
<1> HIDE DEF x, t
<1>4. t \in 0 .. Len(p) /\ t \in Nat
  BY <1>2
<1>5. ASSUME NEW n \in 0 .. s - 1
      PROVE  EndsWith(p, x, n) <=> n <= t /\ EndsWith(p, Prefix(p, t), n)
  <2>1. CASE n <= t
    <3>1. n \in 0 .. t
      BY <1>4, <2>1
    <3>2. EndsWith(p, x, n) <=> EndsWith(p, SubSeq(p, 1, t), n)
      BY <1>2, <1>3, <1>4, <3>1, EndsNest
    <3> QED
      BY <2>1, <3>2 DEF Prefix
  <2>2. CASE ~(n <= t)
    <3>1. n \in t + 1 .. s - 1
      BY <1>4, <2>2
    <3> QED
      BY <1>2, <2>2, <3>1
  <2> QED
    BY <2>1, <2>2
<1> QED
  BY <1>2, <1>5 DEF x, t

LEMMA LinksOfFewer ==
    ASSUME NEW p, NEW links, NEW n \in Nat, NEW m \in 0 .. n, LinksExact(p, links, n)
    PROVE  LinksExact(p, links, m)
BY DEF LinksExact

IsFallback(f, p, links, b) ==
    f = [r \in 0 .. Len(p) - 1 |-> IF r > 0 /\ p[r + 1] # b THEN f[links[r]] ELSE r]

\* The function by which StepByte falls back through the links exists, and
LEMMA FallbackExists ==
    ASSUME NEW p \in Seq(Nat), Len(p) > 0, NEW links, LinksExact(p, links, Len(p)), NEW b \in Nat
    PROVE  \E f : IsFallback(f, p, links, b)
<1> DEFINE n == Len(p) - 1
           D == 0 .. n
           ends == {r \in D : ~(r > 0 /\ p[r + 1] # b)}
           out == [r \in D |-> r]
           step == [z \in D \X D |-> z[2]]
<1>1. n \in Nat
  OBVIOUS
<1>2. ASSUME NEW r \in D, r \notin ends
      PROVE  links[r] \in D /\ links[r] < r
  <2>1. r \in 1 .. Len(p) /\ r <= n
    BY <1>2
  <2>2. links[r] \in 0 .. r - 1
    BY <2>1 DEF LinksExact
  <2> QED
    BY <1>1, <2>1, <2>2
<1>3. \A r \in D : r \in ends => out[r] \in D
  OBVIOUS
<1>4. \A r \in D, v \in D : step[<<r, v>>] = v
  OBVIOUS
<1>5. D \in SUBSET (0 .. n)
  OBVIOUS
<1> HIDE DEF step, n
<1>6. PICK f \in [D -> D] : Recurs(f, D, ends, out, links, step)
  <2> HIDE DEF D, ends, out
  <2>1. \A r \in D : r \notin ends => links[r] \in D /\ links[r] < r
    BY <1>2
  <2>2. \A r \in D, v \in D : step[<<r, v>>] \in D
    BY <1>4
  <2> QED
    BY ONLY <1>1, <1>3, <1>5, <2>1, <2>2, RecursionExists
<1>7. ASSUME NEW r \in D
      PROVE  f[r] = IF r > 0 /\ p[r + 1] # b THEN f[links[r]] ELSE r
  <2>1. f[r] = IF r \in ends THEN out[r] ELSE step[<<r, f[links[r]]>>]
    <3> HIDE DEF D, ends, out
    <3> QED
      BY <1>6, RecursUnfolds
  <2>2. r \in ends => out[r] = r
    OBVIOUS
  <2>3. r \in ends <=> ~(r > 0 /\ p[r + 1] # b)
    OBVIOUS
  <2>4. r \notin ends => step[<<r, f[links[r]]>>] = f[links[r]]
    <3> HIDE DEF D, ends
    <3>1. r \notin ends => f[links[r]] \in D
      BY <1>2, <1>6
    <3> QED
      BY <1>4, <3>1
  <2> HIDE DEF ends, out
  <2> QED
    BY <2>1, <2>2, <2>3, <2>4
<1>8. f = [r \in D |-> f[r]]
  BY <1>6
<1>9. f = [r \in D |-> IF r > 0 /\ p[r + 1] # b THEN f[links[r]] ELSE r]
  BY <1>7, <1>8
<1> QED
  BY <1>9 DEF IsFallback, n

\* it ends at the longest border that the byte extends, or at none.
LEMMA FallbackFalls ==
    ASSUME NEW p \in Seq(Nat), Len(p) > 0, NEW links, LinksExact(p, links, Len(p)), NEW b \in Nat,
           NEW f, IsFallback(f, p, links, b)
    PROVE  \A s \in 0 .. Len(p) - 1 : FallsTo(p, b, s, f[s])
<1> DEFINE n == Len(p) - 1
           S == {s \in 0 .. n : FallsTo(p, b, s, f[s])}
<1>1. n \in Nat /\ n = Len(p) - 1
  OBVIOUS
<1> HIDE DEF n
<1>2. ASSUME NEW s \in 0 .. n, \A j \in 0 .. s - 1 : j \in S
      PROVE  s \in S
  <2>1. f[s] = IF s > 0 /\ p[s + 1] # b THEN f[links[s]] ELSE s
    <3> DEFINE rhs(r) == IF r > 0 /\ p[r + 1] # b THEN f[links[r]] ELSE r
    <3>1. f = [r \in 0 .. n |-> rhs(r)]
      BY <1>1 DEF IsFallback
    <3> HIDE DEF rhs
    <3>2. f[s] = rhs(s)
      BY <3>1
    <3> QED
      BY <3>2 DEF rhs
  <2>2. s \in Nat /\ s \in 0 .. Len(p) /\ Len(p) \in Nat
    BY <1>1
  <2>3. CASE ~(s > 0 /\ p[s + 1] # b)
    <3>1. f[s] = s
      BY <2>1, <2>3
    <3>2. EndsWith(p, Prefix(p, s), s)
      BY <2>2, EndsInPrefix
    <3>3. FallsTo(p, b, s, s)
      BY <2>2, <2>3, <3>2 DEF FallsTo
    <3> QED
      BY <3>1, <3>3
  <2>4. CASE s > 0 /\ p[s + 1] # b
    <3> DEFINE t == links[s]
               r == f[t]
    <3>1. s \in 1 .. Len(p) /\ LinksExact(p, links, s)
      BY <2>2, <2>4, LinksOfFewer
    <3>2. /\ t \in 0 .. s - 1 /\ EndsWith(p, Prefix(p, s), t)
          /\ \A m \in 0 .. s - 1 : EndsWith(p, Prefix(p, s), m)
                <=> m <= t /\ EndsWith(p, Prefix(p, t), m)
      BY <3>1, BordersOfLink
    <3>3. FallsTo(p, b, t, r)
      BY <1>2, <3>2
    <3>4. f[s] = r
      BY <2>1, <2>4
    <3> HIDE DEF t, r
    <3>5. r \in 0 .. t /\ EndsWith(p, Prefix(p, t), r) /\ (r = 0 \/ p[r + 1] = b)
      BY <3>3 DEF FallsTo
    <3>6. r \in 0 .. s /\ r \in 0 .. s - 1 /\ r <= t /\ t \in Nat
      BY <2>2, <3>2, <3>5
    <3>7. EndsWith(p, Prefix(p, s), r)
      BY <3>2, <3>5, <3>6
    <3>8. ASSUME NEW m \in r + 1 .. s, EndsWith(p, Prefix(p, s), m)
          PROVE  p[m + 1] # b
      <4>1. CASE m = s
        BY <2>4, <4>1
      <4>2. CASE m # s
        <5>1. m \in 0 .. s - 1
          BY <2>2, <3>6, <4>2
        <5>2. m <= t /\ EndsWith(p, Prefix(p, t), m)
          BY <3>2, <3>8, <5>1
        <5>3. m \in r + 1 .. t
          BY <3>6, <5>2
        <5> QED
          BY <3>3, <5>2, <5>3 DEF FallsTo
      <4> QED
        BY <4>1, <4>2
    <3>9. FallsTo(p, b, s, r)
      BY <3>5, <3>6, <3>7, <3>8 DEF FallsTo
    <3> QED
      BY <3>4, <3>9
  <2> QED
    BY <2>3, <2>4
<1>3. \A s \in 0 .. n : s \in S
  <2> HIDE DEF S
  <2> QED
    BY <1>1, <1>2, StrongInduction
<1> QED
  BY <1>1, <1>3

\* If the longest prefix that the bytes end with is all that can occur in them.
LEMMA LongestIsReached ==
    ASSUME NEW p \in Seq(Nat), NEW d \in Seq(Nat), NEW v, EndsWith(p, d, v),
           \A n \in 0 .. Len(p) : EndsWith(p, d, n) => n <= v,
           OccursIn(p, d) => EndsWith(p, d, Len(p))
    PROVE  Reached(p, d) = v
<1>1. v \in 0 .. Len(p) /\ Len(p) \in 0 .. Len(p)
  BY DEF EndsWith
<1>2. OccursIn(p, d) => v = Len(p)
  BY <1>1
<1>3. IsReached(p, d, v)
  BY <1>2 DEF IsReached
<1> QED
  BY <1>3, ReachedIs

\* StepByte is the byte automaton: what the prefix and one more byte reach.
LEMMA StepByteIs ==
    ASSUME pattern \in Seq(Nat), accept > 0, LinksExact(pattern, fail, accept),
           NEW s \in 0 .. accept, NEW b \in Nat
    PROVE  StepByte(s, b) = Reached(pattern, Append(Prefix(pattern, s), b))
<1> DEFINE p == pattern
           m == Len(p)
           x == Prefix(p, s)
           y == Append(x, b)
           Is(f) == IsFallback(f, p, fail, b)
           fb == CHOOSE f : Is(f)
           r == fb[s]
<1>1. p \in Seq(Nat) /\ m \in Nat /\ m > 0 /\ accept = m /\ s \in 0 .. m
  BY DEF accept
<1>2. x \in Seq(Nat) /\ Len(x) = s /\ EndsWith(p, x, s)
  BY <1>1, PrefixIs, EndsInPrefix DEF Prefix
<1>3. y \in Seq(Nat)
  BY <1>2
<1>4. StepByte(s, b) = IF s = accept THEN accept ELSE IF p[r + 1] = b THEN r + 1 ELSE r
  BY DEF StepByte, IsFallback, accept
<1>5. \A n \in 1 .. m : EndsWith(p, y, n) <=> EndsWith(p, x, n - 1) /\ p[n] = b
  BY <1>1, <1>2, EndsExtends
<1>6. OccursIn(p, y) <=> OccursIn(p, x) \/ EndsWith(p, y, m)
  BY <1>1, <1>2, OccursExtends
<1>7. EndsWith(p, y, 0)
  BY <1>1, <1>3, EndsWithNothing
<1>8. LinksExact(p, fail, m)
  BY <1>1
<1>9. m = Len(p)
  OBVIOUS
<1> HIDE DEF p, m, x, y
<1>10. CASE s = m
  <2>1. OccursIn(p, x)
    BY <1>1, <1>2, <1>9, <1>10, EndsOccurs
  <2>2. Reached(p, y) = m
    BY <1>6, <1>9, <2>1 DEF Reached
  <2> QED
    BY <1>1, <1>4, <1>10, <2>2 DEF p, x, y
<1>11. CASE s # m
  <2>1. Is(fb)
    <3>1. \E f : Is(f)
      BY <1>1, <1>8, <1>9, FallbackExists
    <3> HIDE DEF Is
    <3> QED
      BY <3>1
  <2> HIDE DEF fb
  <2>2. s \in 0 .. m - 1
    BY <1>1, <1>11
  <2>3. FallsTo(p, b, s, r)
    BY <1>1, <1>8, <1>9, <2>1, <2>2, FallbackFalls
  <2> HIDE DEF r
  <2>4. r \in 0 .. s /\ EndsWith(p, x, r) /\ (r = 0 \/ p[r + 1] = b)
    BY <2>3 DEF FallsTo, x
  <2>5. \A n \in r + 1 .. s : EndsWith(p, x, n) => p[n + 1] # b
    BY <2>3 DEF FallsTo, x
  <2> DEFINE v == IF p[r + 1] = b THEN r + 1 ELSE r
  <2>6. EndsWith(p, y, v)
    <3>1. CASE p[r + 1] = b
      <4>1. r + 1 \in 1 .. m /\ (r + 1) - 1 = r
        BY <1>1, <2>2, <2>4
      <4> QED
        BY <1>5, <2>4, <3>1, <4>1
    <3>2. CASE p[r + 1] # b
      BY <1>7, <2>4, <3>2
    <3> QED
      BY <3>1, <3>2
  <2>7. ASSUME NEW n \in 0 .. m, EndsWith(p, y, n)
        PROVE  n <= v
    <3>1. CASE n = 0
      BY <2>4, <3>1
    <3>2. CASE n # 0
      <4>1. n \in 1 .. m /\ n - 1 \in Nat /\ (n - 1) + 1 = n
        BY <1>1, <3>2
      <4>2. EndsWith(p, x, n - 1) /\ p[n] = b
        BY <1>5, <2>7, <4>1
      <4>3. n - 1 <= s
        BY <1>2, <4>2 DEF EndsWith
      <4>4. n - 1 <= r
        <5>1. n - 1 \notin r + 1 .. s
          BY <2>5, <4>1, <4>2
        <5> QED
          BY <2>4, <4>1, <4>3, <5>1
      <4>5. n <= r => n <= v
        BY <2>4, <4>1
      <4>6. n - 1 = r => p[r + 1] = b /\ n = r + 1
        BY <4>1, <4>2
      <4> HIDE DEF v
      <4>7. n - 1 = r => n <= v
        BY <2>4, <4>1, <4>6 DEF v
      <4>8. n - 1 = r \/ n <= r
        BY <2>4, <4>1, <4>4
      <4> QED
        BY <4>5, <4>7, <4>8
    <3> QED
      BY <3>1, <3>2
  <2> HIDE DEF v
  <2>8. OccursIn(p, y) => EndsWith(p, y, m)
    <3>1. ~OccursIn(p, x)
      <4>1. Len(x) < Len(p)
        BY <1>1, <1>2, <1>9, <1>11
      <4> QED
        BY <1>1, <1>2, <4>1, OccursNeedsRoom
    <3> QED
      BY <1>6, <3>1
  <2>9. Reached(p, y) = v
    BY <1>1, <1>3, <1>9, <2>6, <2>7, <2>8, LongestIsReached
  <2> QED
    BY <1>1, <1>4, <1>11, <2>9 DEF v, p, x, y
<1> QED
  BY <1>10, <1>11

LEMMA ConcatConcat ==
    \A q, r, z \in Seq(Nat) : (q \o r) \o z = q \o (r \o z)
BY ConcatAssociative, SMTT(30)

LEMMA ConcatByByte ==
    ASSUME NEW d \in Seq(Nat), NEW w \in Seq(Nat), NEW n \in 0 .. Len(w) - 1
    PROVE  /\ d \o SubSeq(w, 1, n) \in Seq(Nat) /\ w[n + 1] \in Nat
           /\ d \o SubSeq(w, 1, n + 1) = Append(d \o SubSeq(w, 1, n), w[n + 1])
<1> DEFINE x == SubSeq(w, 1, n)
           b == w[n + 1]
<1>1. n \in 0 .. Len(w) /\ n + 1 \in 1 .. Len(w) /\ (n + 1) - 1 = n /\ 1 \in 1 .. Len(w)
      /\ n + 1 \in 1 .. Len(w)
  OBVIOUS
<1>2. x \in Seq(Nat)
  BY <1>1, PrefixIs
<1>3. b \in Nat
  BY <1>1, ElementOfSeq
<1>4. SubSeq(w, 1, n + 1) = x \o <<b>>
  <2>1. SubSeq(w, 1, n + 1) = SubSeq(w, 1, (n + 1) - 1) \o <<w[n + 1]>>
    BY <1>1, SubSeqRecursiveSecond
  <2> QED
    BY <1>1, <2>1
<1> HIDE DEF x, b
<1>5. <<b>> \in Seq(Nat)
  BY ONLY <1>3, SMT
<1>6. d \o x \in Seq(Nat)
  BY <1>2, ConcatProperties
<1>7. d \o (x \o <<b>>) = (d \o x) \o <<b>>
  <2> DEFINE c == <<b>>
  <2>1. c \in Seq(Nat)
    BY <1>5
  <2> HIDE DEF c
  <2>2. \A q \in Seq(Nat), r \in Seq(Nat) : (d \o q) \o r = d \o (q \o r)
    BY ConcatConcat, Zenon
  <2>3. (d \o x) \o c = d \o (x \o c)
    BY <1>2, <2>1, <2>2, Zenon
  <2> QED
    BY <2>3 DEF c
<1>8. Append(d \o x, b) = (d \o x) \o <<b>>
  <2> DEFINE e == d \o x
  <2>1. e \in Seq(Nat)
    BY <1>6
  <2> HIDE DEF e
  <2>2. Append(e, b) = e \o <<b>>
    BY <1>3, <2>1, AppendIsConcat
  <2> QED
    BY <2>2 DEF e
<1> QED
  BY <1>3, <1>4, <1>6, <1>7, <1>8 DEF x, b

\* The same for several bytes, one after the other.
LEMMA ReachedByBytes ==
    ASSUME NEW p \in Seq(Nat), Len(p) > 0, NEW d \in Seq(Nat), NEW w \in Seq(Nat)
    PROVE  \A n \in 0 .. Len(w) :
                Reached(p, d \o SubSeq(w, 1, n))
                    = Reached(p, Prefix(p, Reached(p, d)) \o SubSeq(w, 1, n))
<1> DEFINE q == Reached(p, d)
           x == Prefix(p, q)
           S == {n \in 0 .. Len(w) : Reached(p, d \o SubSeq(w, 1, n)) = Reached(p, x \o SubSeq(w, 1, n))}
<1>1. q \in 0 .. Len(p)
  BY ReachedType
<1>2. x \in Seq(Nat) /\ Reached(p, x) = q
  BY <1>1, PrefixIs, ReachedOfPrefix DEF Prefix
<1>3. Len(w) \in Nat
  OBVIOUS
<1>4. 0 \in S
  <2>1. SubSeq(w, 1, 0) = <<>> /\ d \o <<>> = d
    BY SubSeqEmpty, ConcatEmptySeq
  <2> HIDE DEF x
  <2>2. x \o <<>> = x
    BY <1>2, ConcatEmptySeq
  <2> HIDE DEF q
  <2>3. Reached(p, d \o SubSeq(w, 1, 0)) = Reached(p, x \o SubSeq(w, 1, 0)) /\ 0 \in 0 .. Len(w)
    <3>1. Reached(p, d) = Reached(p, x) /\ 0 \in 0 .. Len(w)
      BY <1>2, <1>3 DEF q
    <3> QED
      BY <2>1, <2>2, <3>1, Zenon
  <2> QED
    BY <2>3
<1> HIDE DEF x
<1>5. ASSUME NEW n \in 0 .. Len(w) - 1, n \in S
      PROVE  n + 1 \in S
  <2> DEFINE e == d \o SubSeq(w, 1, n)
             y == x \o SubSeq(w, 1, n)
             b == w[n + 1]
  <2>1. n + 1 \in 1 .. Len(w) /\ (n + 1) - 1 = n /\ n + 1 \in 0 .. Len(w)
    OBVIOUS
  <2>2. e \in Seq(Nat) /\ b \in Nat /\ d \o SubSeq(w, 1, n + 1) = Append(e, b)
    BY ConcatByByte
  <2>3. y \in Seq(Nat) /\ x \o SubSeq(w, 1, n + 1) = Append(y, b)
    BY <1>2, ConcatByByte
  <2>4. Reached(p, e) = Reached(p, y)
    BY <1>5
  <2> HIDE DEF e, y, b
  <2>5. Reached(p, Append(e, b)) = Reached(p, Append(y, b))
    BY <2>2, <2>3, <2>4, ReachedByByte
  <2> QED
    BY <2>1, <2>2, <2>3, <2>5
<1>6. \A n \in 0 .. Len(w) : n \in S
  <2> HIDE DEF S
  <2> QED
    BY <1>3, <1>4, <1>5, UpwardInduction
<1> QED
  BY <1>6 DEF x

\* Of bytes only what they have reached matters for whatever comes.
LEMMA ReachedByAll ==
    ASSUME NEW p \in Seq(Nat), Len(p) > 0, NEW d \in Seq(Nat), NEW w \in Seq(Nat)
    PROVE  Reached(p, d \o w) = Reached(p, Prefix(p, Reached(p, d)) \o w)
<1>1. Len(w) \in 0 .. Len(w) /\ SubSeq(w, 1, Len(w)) = w
  OBVIOUS
<1>2. Reached(p, d \o SubSeq(w, 1, Len(w)))
        = Reached(p, Prefix(p, Reached(p, d)) \o SubSeq(w, 1, Len(w)))
  BY <1>1, ReachedByBytes
<1> QED
  BY <1>1, <1>2

IsAfter(f, s, w) == f = [n \in 0 .. Len(w) |-> IF n = 0 THEN s ELSE StepByte(f[n - 1], w[n])]

\* StepBytes is the byte automaton over a whole token.
LEMMA StepBytesIs ==
    ASSUME pattern \in Seq(Nat), accept > 0, LinksExact(pattern, fail, accept),
           NEW s \in 0 .. accept, NEW w \in Seq(Nat)
    PROVE  StepBytes(s, w) = Reached(pattern, Prefix(pattern, s) \o w)
<1> DEFINE p == pattern
           x == Prefix(p, s)
           Is(f) == IsAfter(f, s, w)
           g == [n \in 0 .. Len(w) |-> Reached(p, x \o SubSeq(w, 1, n))]
           after == CHOOSE f : Is(f)
<1>1. p \in Seq(Nat) /\ Len(p) > 0 /\ s \in 0 .. Len(p) /\ accept = Len(p)
  BY DEF accept
<1>2. x \in Seq(Nat) /\ Reached(p, x) = s
  BY <1>1, PrefixIs, ReachedOfPrefix DEF Prefix
<1>3. Len(w) \in Nat
  OBVIOUS
<1> HIDE DEF p, x
<1>4. ASSUME NEW n \in 0 .. Len(w)
      PROVE  g[n] = IF n = 0 THEN s ELSE StepByte(g[n - 1], w[n])
  <2>1. CASE n = 0
    <3>1. SubSeq(w, 1, 0) = <<>> /\ x \o <<>> = x
      BY <1>2, SubSeqEmpty, ConcatEmptySeq
    <3>2. g[0] = Reached(p, x \o SubSeq(w, 1, 0))
      BY <1>3
    <3> HIDE DEF g
    <3> QED
      BY <1>2, <2>1, <3>1, <3>2
  <2>2. CASE n # 0
    <3> DEFINE e == x \o SubSeq(w, 1, n - 1)
               b == w[n]
    <3>1. n \in 1 .. Len(w) /\ n - 1 \in 0 .. Len(w) /\ n - 1 \in 0 .. Len(w) - 1 /\ (n - 1) + 1 = n
      BY <1>3, <2>2
    <3>2. e \in Seq(Nat) /\ b \in Nat /\ x \o SubSeq(w, 1, n) = Append(e, b)
      <4>1. /\ e \in Seq(Nat) /\ w[(n - 1) + 1] \in Nat
            /\ x \o SubSeq(w, 1, (n - 1) + 1) = Append(e, w[(n - 1) + 1])
        BY <1>2, <3>1, ConcatByByte
      <4> QED
        BY <3>1, <4>1
    <3>3. g[n] = Reached(p, x \o SubSeq(w, 1, n)) /\ g[n - 1] = Reached(p, e)
      BY <3>1
    <3> HIDE DEF e, b, g
    <3>4. Reached(p, e) \in 0 .. accept
      BY <1>1, <3>2, ReachedType
    <3>5. StepByte(Reached(p, e), b) = Reached(p, Append(Prefix(p, Reached(p, e)), b))
      BY <3>2, <3>4, StepByteIs DEF p
    <3>6. Reached(p, Append(e, b)) = Reached(p, Append(Prefix(p, Reached(p, e)), b))
      BY <1>1, <3>2, ReachedByByte
    <3> QED
      BY <2>2, <3>2, <3>3, <3>5, <3>6 DEF b
  <2> QED
    BY <2>1, <2>2
<1>5. Is(g)
  <2>1. g = [n \in 0 .. Len(w) |-> g[n]]
    OBVIOUS
  <2> HIDE DEF g
  <2>2. g = [n \in 0 .. Len(w) |-> IF n = 0 THEN s ELSE StepByte(g[n - 1], w[n])]
    BY <1>4, <2>1
  <2> QED
    BY <2>2 DEF IsAfter
<1>6. Is(after)
  <2> HIDE DEF g, Is
  <2> QED
    BY <1>5
<1>7. StepBytes(s, w) = after[Len(w)]
  BY DEF StepBytes, IsAfter
<1>8. g[Len(w)] = Reached(p, x \o w)
  <2>1. SubSeq(w, 1, Len(w)) = w /\ Len(w) \in 0 .. Len(w)
    OBVIOUS
  <2> QED
    BY <2>1
<1> HIDE DEF g, after
<1>9. ASSUME NEW n \in 0 .. Len(w)
      PROVE  after[n] = IF n = 0 THEN s ELSE StepByte(after[n - 1], w[n])
  <2> DEFINE rhs(j) == IF j = 0 THEN s ELSE StepByte(after[j - 1], w[j])
  <2>1. after = [j \in 0 .. Len(w) |-> rhs(j)]
    BY <1>6 DEF IsAfter
  <2> HIDE DEF rhs
  <2>2. after[n] = rhs(n)
    BY <2>1
  <2> QED
    BY <2>2 DEF rhs
<1> DEFINE S == {n \in 0 .. Len(w) : after[n] = g[n]}
<1>10. 0 \in S
  BY <1>3, <1>4, <1>9
<1>11. ASSUME NEW n \in 0 .. Len(w) - 1, n \in S
       PROVE  n + 1 \in S
  <2>1. n + 1 \in 0 .. Len(w) /\ n + 1 # 0 /\ (n + 1) - 1 = n
    BY <1>3
  <2>2. after[n + 1] = StepByte(after[n], w[n + 1]) /\ g[n + 1] = StepByte(g[n], w[n + 1])
    BY <1>4, <1>9, <2>1
  <2> QED
    BY <1>11, <2>1, <2>2
<1>12. \A n \in 0 .. Len(w) : n \in S
  <2> HIDE DEF S
  <2> QED
    BY <1>3, <1>10, <1>11, UpwardInduction
<1>13. after[Len(w)] = g[Len(w)]
  BY <1>3, <1>12
<1> QED
  BY <1>7, <1>8, <1>13 DEF p, x

-----------------------------------------------------------------------------
(***************************************************************************)
(* What bytes reach that are read in pieces, after an occurrence, or       *)
(* without anything of the pattern.                                        *)
(***************************************************************************)

\* The accepting state stands for an occurrence.
LEMMA ReachedAllOfIt ==
    ASSUME NEW p \in Seq(Nat), NEW d \in Seq(Nat)
    PROVE  Reached(p, d) = Len(p) <=> OccursIn(p, d)
<1>1. IsReached(p, d, Reached(p, d)) /\ Reached(p, d) \in 0 .. Len(p)
  BY ReachedType
<1>2. CASE OccursIn(p, d)
  BY <1>1, <1>2 DEF IsReached
<1>3. CASE ~OccursIn(p, d)
  <2>1. EndsWith(p, d, Reached(p, d))
    BY <1>1, <1>3 DEF IsReached
  <2> QED
    BY <1>3, <2>1, EndsOccurs
<1> QED
  BY <1>2, <1>3

LEMMA ConcatIs ==
    \A q, r \in Seq(Nat) :
        /\ q \o r \in Seq(Nat) /\ Len(q \o r) = Len(q) + Len(r) /\ Len(q) \in Nat /\ Len(r) \in Nat
        /\ \A j \in 1 .. Len(q) : (q \o r)[j] = q[j]
<1> SUFFICES ASSUME NEW q \in Seq(Nat), NEW r \in Seq(Nat)
             PROVE  /\ q \o r \in Seq(Nat) /\ Len(q \o r) = Len(q) + Len(r)
                    /\ Len(q) \in Nat /\ Len(r) \in Nat
                    /\ \A j \in 1 .. Len(q) : (q \o r)[j] = q[j]
  OBVIOUS
<1>1. Len(q) \in Nat /\ Len(r) \in Nat
  BY LenProperties
<1>2. /\ q \o r \in Seq(Nat)
      /\ Len(q \o r) = Len(q) + Len(r)
      /\ \A j \in 1 .. Len(q) + Len(r) :
            (q \o r)[j] = IF j <= Len(q) THEN q[j] ELSE r[j - Len(q)]
  BY ConcatProperties
<1>3. ASSUME NEW j \in 1 .. Len(q)
      PROVE  (q \o r)[j] = q[j]
  <2>1. j \in 1 .. Len(q) + Len(r) /\ j <= Len(q)
    BY <1>1
  <2> QED
    BY <1>2, <2>1, Zenon
<1> QED
  BY <1>1, <1>2, <1>3

\* An occurrence stays one.
LEMMA OccursInMore ==
    ASSUME NEW p \in Seq(Nat), NEW d \in Seq(Nat), NEW w \in Seq(Nat), OccursIn(p, d)
    PROVE  OccursIn(p, d \o w)
<1> DEFINE e == d \o w
           m == Len(p)
<1>1. e \in Seq(Nat) /\ Len(e) = Len(d) + Len(w) /\ Len(d) \in Nat /\ Len(w) \in Nat
      /\ \A j \in 1 .. Len(d) : e[j] = d[j]
  BY ConcatIs
<1>2. PICK at \in 0 .. Len(d) - m : StartsAt(d, at, p)
  BY DEF OccursIn
<1>3. m \in Nat /\ m = Len(p)
  OBVIOUS
<1> HIDE DEF e, m
<1>4. at + m <= Len(d) /\ \A j \in 1 .. m : d[at + j] = p[j]
  BY <1>2, <1>3 DEF StartsAt
<1>5. ASSUME NEW j \in 1 .. m
      PROVE  e[at + j] = p[j]
  <2>1. at + j \in 1 .. Len(d)
    BY <1>1, <1>2, <1>3, <1>4
  <2> QED
    BY <1>1, <1>4, <2>1
<1>6. at + m <= Len(e) /\ at \in 0 .. Len(e) - m
  BY <1>1, <1>2, <1>3, <1>4
<1>7. StartsAt(e, at, p)
  BY <1>3, <1>5, <1>6 DEF StartsAt
<1> QED
  BY <1>3, <1>6, <1>7 DEF OccursIn, e

\* Reading bytes in two pieces.
LEMMA ReachedInTwo ==
    ASSUME NEW p \in Seq(Nat), Len(p) > 0, NEW d \in Seq(Nat), NEW w \in Seq(Nat),
           NEW n \in 0 .. Len(w)
    PROVE  Reached(p, d \o w)
            = Reached(p, Prefix(p, Reached(p, d \o SubSeq(w, 1, n))) \o SubSeq(w, n + 1, Len(w)))
<1> DEFINE x == SubSeq(w, 1, n)
           y == SubSeq(w, n + 1, Len(w))
           e == d \o x
<1>1. x \in Seq(Nat) /\ y \in Seq(Nat)
  <2>1. x \in Seq(Nat)
    BY PrefixIs
  <2>2. y \in Seq(Nat)
    OBVIOUS
  <2> QED
    BY <2>1, <2>2
<1>2. w = x \o y
  <2>1. 1 \in 1 .. Len(w) + 1 /\ n \in 1 - 1 .. Len(w) /\ Len(w) \in n .. Len(w)
    OBVIOUS
  <2>2. SubSeq(w, 1, n) \o SubSeq(w, n + 1, Len(w)) = SubSeq(w, 1, Len(w))
    BY <2>1, ConcatAdjacentSubSeq
  <2>3. SubSeq(w, 1, Len(w)) = w
    BY SubSeqFull
  <2> QED
    BY <2>2, <2>3
<1> HIDE DEF x, y
<1>3. e \in Seq(Nat)
  BY <1>1, ConcatIs
<1>4. d \o w = e \o y
  BY <1>1, <1>2, ConcatConcat, Zenon
<1> HIDE DEF e
<1>5. Reached(p, e \o y) = Reached(p, Prefix(p, Reached(p, e)) \o y)
  BY <1>1, <1>3, ReachedByAll
<1> QED
  BY <1>4, <1>5 DEF e, x, y

LEMMA NothingIs ==
    ASSUME NEW w \in Seq(Nat)
    PROVE  <<>> \o w = w /\ w \o <<>> = w /\ <<>> \in Seq(Nat)
BY ConcatEmptySeq, EmptySeq

LEMMA NothingOfIt ==
    ASSUME NEW p
    PROVE  Prefix(p, 0) = <<>>
BY SubSeqEmpty DEF Prefix

\* Bytes without the pattern's first one reach nothing.
LEMMA WithoutFirst ==
    ASSUME NEW p \in Seq(Nat), Len(p) > 0, NEW w \in Seq(Nat), \A n \in 1 .. Len(w) : w[n] # p[1]
    PROVE  Reached(p, w) = 0
<1>1. Len(p) \in Nat /\ Len(w) \in Nat /\ 1 \in 1 .. Len(p)
  OBVIOUS
<1>2. ASSUME NEW n \in 0 .. Len(p), EndsWith(p, w, n)
      PROVE  n <= 0
  <2>1. CASE n = 0
    BY <2>1
  <2>2. CASE n # 0
    <3>1. 1 \in 1 .. n /\ n <= Len(w) /\ EndAgrees(p, w, Len(w), n)
      BY <1>1, <1>2, <2>2 DEF EndsWith
    <3>2. p[1] = w[Len(w) - n + 1]
      BY <3>1 DEF EndAgrees
    <3>3. Len(w) - n + 1 \in 1 .. Len(w)
      BY <1>1, <2>2, <3>1
    <3> QED
      BY <3>2, <3>3
  <2> QED
    BY <2>1, <2>2
<1>3. ~OccursIn(p, w)
  <2> SUFFICES ASSUME NEW at \in 0 .. Len(w) - Len(p), StartsAt(w, at, p)
               PROVE  FALSE
    BY DEF OccursIn
  <2>1. w[at + 1] = p[1] /\ at + 1 \in 1 .. Len(w)
    BY <1>1 DEF StartsAt
  <2> QED
    BY <2>1
<1>4. EndsWith(p, w, 0)
  BY EndsWithNothing
<1> QED
  BY <1>2, <1>3, <1>4, LongestIsReached

\* So does a byte that the pattern does not have, unless the pattern has occurred.
LEMMA ForeignByte ==
    ASSUME NEW p \in Seq(Nat), Len(p) > 0, NEW d \in Seq(Nat), ~OccursIn(p, d),
           NEW b \in Nat, \A n \in 1 .. Len(p) : p[n] # b
    PROVE  Reached(p, Append(d, b)) = 0
<1> DEFINE e == Append(d, b)
<1>1. e \in Seq(Nat) /\ Len(p) \in Nat
  OBVIOUS
<1>2. ASSUME NEW n \in 1 .. Len(p)
      PROVE  ~EndsWith(p, e, n)
  BY EndsExtends
<1>3. ~OccursIn(p, e)
  <2>1. Len(p) \in 1 .. Len(p)
    BY <1>1
  <2>2. OccursIn(p, e) <=> OccursIn(p, d) \/ EndsWith(p, e, Len(p))
    BY OccursExtends
  <2> HIDE DEF e
  <2> QED
    BY <1>2, <2>1, <2>2
<1> HIDE DEF e
<1>4. EndsWith(p, e, 0)
  BY <1>1, EndsWithNothing
<1>5. ASSUME NEW n \in 0 .. Len(p), EndsWith(p, e, n)
      PROVE  n <= 0
  <2>1. n \notin 1 .. Len(p)
    BY <1>2, <1>5
  <2> QED
    BY <1>1, <2>1
<1>6. Reached(p, e) = 0
  BY <1>1, <1>3, <1>4, <1>5, LongestIsReached
<1> QED
  BY <1>6 DEF e

-----------------------------------------------------------------------------
(***************************************************************************)
(* The bytes on which a state cannot differ from state 0.                  *)
(***************************************************************************)

\* None of what the state ends with goes on with the byte.
Indifferent(p, s, b) ==
    \A n \in 1 .. s : EndsWith(p, Prefix(p, s), n) => p[n + 1] # b

\* A byte that no border of the state extends by leads where it leads from state 0.
LEMMA IndifferentByte ==
    ASSUME NEW p \in Seq(Nat), NEW s \in 0 .. Len(p) - 1, NEW b \in Nat, Indifferent(p, s, b)
    PROVE  Reached(p, Append(Prefix(p, s), b)) = Reached(p, Append(<<>>, b))
<1> DEFINE x == Prefix(p, s)
           y == Append(x, b)
           m == Len(p)
           z == Append(<<>>, b)
<1>1. s \in 0 .. m /\ s < m /\ m \in Nat /\ s \in Nat /\ m > 0
  OBVIOUS
<1>2. x \in Seq(Nat) /\ Len(x) = s
  BY <1>1, PrefixIs DEF Prefix
<1>3. m = Len(p)
  OBVIOUS
<1>4. <<>> \in Seq(Nat) /\ Len(<<>>) = 0
  BY EmptySeq
<1>5. ASSUME NEW n \in 1 .. m
      PROVE  /\ EndsWith(p, y, n) <=> EndsWith(p, x, n - 1) /\ p[n] = b
             /\ EndsWith(p, z, n) <=> EndsWith(p, <<>>, n - 1) /\ p[n] = b
  <2> HIDE DEF x
  <2>1. \A d \in Seq(Nat) :
            EndsWith(p, Append(d, b), n) <=> EndsWith(p, d, n - 1) /\ p[n] = b
    BY EndsExtends
  <2> QED
    BY <1>2, <1>4, <2>1
<1>6. /\ OccursIn(p, y) <=> OccursIn(p, x) \/ EndsWith(p, y, m)
      /\ OccursIn(p, z) <=> OccursIn(p, <<>>) \/ EndsWith(p, z, m)
  BY <1>1, <1>2, <1>4, OccursExtends
<1>7. y \in Seq(Nat) /\ z \in Seq(Nat)
  BY <1>2, <1>4, AppendProperties
<1> HIDE DEF x, y, z, m
<1>8. ~OccursIn(p, x) /\ ~OccursIn(p, <<>>)
  <2>1. Len(x) < Len(p) /\ Len(<<>>) < Len(p)
    BY <1>1, <1>2, <1>3, <1>4
  <2> QED
    BY <1>2, <1>4, <2>1, OccursNeedsRoom
<1>9. EndsWith(p, x, 0) /\ EndsWith(p, <<>>, 0) /\ EndsWith(p, y, 0) /\ EndsWith(p, z, 0)
  BY <1>2, <1>4, <1>7, EndsWithNothing
<1>10. ASSUME NEW n \in 0 .. m
       PROVE  EndsWith(p, y, n) <=> EndsWith(p, z, n)
  <2>1. CASE n = 0
    BY <1>9, <2>1
  <2>2. CASE n = 1
    <3>1. n \in 1 .. m /\ n - 1 = 0
      BY <1>1, <2>2
    <3> QED
      BY <1>5, <1>9, <3>1
  <2>3. CASE n > 1
    <3>1. n \in 1 .. m /\ n - 1 \in Nat /\ (n - 1) + 1 = n /\ n - 1 >= 1
      BY <1>1, <2>3
    <3>2. ~(EndsWith(p, x, n - 1) /\ p[n] = b)
      <4> SUFFICES ASSUME EndsWith(p, x, n - 1) PROVE p[n] # b
        OBVIOUS
      <4>1. n - 1 <= s
        BY <1>2 DEF EndsWith
      <4>2. n - 1 \in 1 .. s
        BY <1>1, <3>1, <4>1
      <4> QED
        BY <3>1, <4>2 DEF Indifferent, x
    <3>3. ~EndsWith(p, <<>>, n - 1)
      BY <1>4, <3>1 DEF EndsWith
    <3> QED
      BY <1>5, <3>1, <3>2, <3>3
  <2> QED
    BY <2>1, <2>2, <2>3
<1>11. OccursIn(p, y) <=> OccursIn(p, z)
  <2>1. m \in 0 .. m
    BY <1>1
  <2> QED
    BY <1>6, <1>8, <1>10, <2>1
<1>12. \A q : IsReached(p, y, q) <=> IsReached(p, z, q)
  <2>1. \A q : EndsWith(p, y, q) <=> EndsWith(p, z, q)
    BY <1>3, <1>10 DEF EndsWith
  <2> QED
    BY <1>3, <1>11, <2>1 DEF IsReached
<1>13. IsReached(p, z, Reached(p, z))
  BY <1>7, ReachedType
<1>14. Reached(p, y) = Reached(p, z)
  BY <1>7, <1>12, <1>13, ReachedIs
<1> QED
  BY <1>14 DEF x, y, z

\* The first byte of bytes, and the rest of them.
LEMMA ReachedAfterFirst ==
    ASSUME NEW p \in Seq(Nat), Len(p) > 0, NEW d \in Seq(Nat), NEW w \in Seq(Nat), Len(w) > 0
    PROVE  /\ w[1] \in Nat /\ SubSeq(w, 2, Len(w)) \in Seq(Nat)
           /\ Reached(p, d \o w)
                = Reached(p, Prefix(p, Reached(p, Append(d, w[1]))) \o SubSeq(w, 2, Len(w)))
<1>1. 1 \in 0 .. Len(w) /\ 0 \in 0 .. Len(w) - 1 /\ 0 + 1 = 1 /\ 1 + 1 = 2 /\ 1 \in 1 .. Len(w)
  OBVIOUS
<1>2. Reached(p, d \o w)
        = Reached(p, Prefix(p, Reached(p, d \o SubSeq(w, 1, 1))) \o SubSeq(w, 1 + 1, Len(w)))
  BY <1>1, ReachedInTwo
<1>3. d \o SubSeq(w, 1, 0 + 1) = Append(d \o SubSeq(w, 1, 0), w[0 + 1])
  BY <1>1, ConcatByByte
<1>4. SubSeq(w, 1, 0) = <<>> /\ d \o <<>> = d
  BY SubSeqEmpty, NothingIs
<1>5. d \o SubSeq(w, 1, 1) = Append(d, w[1])
  BY <1>1, <1>3, <1>4
<1>6. w[1] \in Nat /\ SubSeq(w, 2, Len(w)) \in Seq(Nat)
  BY <1>1
<1> QED
  BY <1>1, <1>2, <1>5, <1>6

\* A token that begins with such a byte leads where it leads from state 0.
LEMMA IndifferentToken ==
    ASSUME NEW p \in Seq(Nat), NEW s \in 0 .. Len(p) - 1, NEW w \in Seq(Nat), Len(w) > 0,
           Indifferent(p, s, w[1])
    PROVE  Reached(p, Prefix(p, s) \o w) = Reached(p, w)
<1> DEFINE x == Prefix(p, s)
<1>1. Len(p) \in Nat /\ Len(p) > 0 /\ s \in 0 .. Len(p) /\ w[1] \in Nat
  OBVIOUS
<1>2. x \in Seq(Nat)
  BY <1>1, PrefixIs DEF Prefix
<1>3. Reached(p, Append(x, w[1])) = Reached(p, Append(<<>>, w[1]))
  BY <1>1, IndifferentByte
<1> HIDE DEF x
<1>4. Reached(p, x \o w)
        = Reached(p, Prefix(p, Reached(p, Append(x, w[1]))) \o SubSeq(w, 2, Len(w)))
  BY <1>1, <1>2, ReachedAfterFirst
<1>5. Reached(p, <<>> \o w)
        = Reached(p, Prefix(p, Reached(p, Append(<<>>, w[1]))) \o SubSeq(w, 2, Len(w)))
  BY <1>1, NothingIs, ReachedAfterFirst
<1>6. <<>> \o w = w
  BY NothingIs
<1> QED
  BY <1>3, <1>4, <1>5, <1>6 DEF x

IsAlong(f, p, links) ==
    f = [r \in 0 .. Len(p) - 1 |-> IF r = 0 THEN <<>> ELSE <<r>> \o f[links[r]]]

\* The function by which Chain follows the links exists, and
LEMMA AlongExists ==
    ASSUME NEW p \in Seq(Nat), Len(p) > 0, NEW links, LinksExact(p, links, Len(p))
    PROVE  \E f : IsAlong(f, p, links)
<1> DEFINE n == Len(p) - 1
           D == 0 .. n
           V == Seq(Nat)
           ends == {0}
           out == [r \in D |-> <<>>]
           step == [z \in D \X V |-> <<z[1]>> \o z[2]]
<1>1. n \in Nat
  OBVIOUS
<1>2. ASSUME NEW r \in D, r \notin ends
      PROVE  links[r] \in D /\ links[r] < r
  <2>1. r \in 1 .. Len(p) /\ r <= n
    BY <1>2
  <2>2. links[r] \in 0 .. r - 1
    BY <2>1 DEF LinksExact
  <2> QED
    BY <1>1, <2>1, <2>2
<1>3. \A r \in D : r \in ends => out[r] \in V
  BY EmptySeq
<1>4. \A r \in D, v \in V : step[<<r, v>>] = <<r>> \o v
  OBVIOUS
<1>5. D \in SUBSET (0 .. n) /\ D \in SUBSET Nat
  OBVIOUS
<1> HIDE DEF step, n, V, D
<1>6. PICK f \in [D -> V] : Recurs(f, D, ends, out, links, step)
  <2> HIDE DEF ends, out
  <2>1. \A r \in D : r \notin ends => links[r] \in D /\ links[r] < r
    BY <1>2
  <2>2. ASSUME NEW r \in D, NEW v \in V PROVE step[<<r, v>>] \in V
    <3>1. r \in Nat
      BY <1>5
    <3>2. <<r>> \o v \in Seq(Nat)
      BY <3>1, HeadOfConcat DEF V
    <3> QED
      BY <1>4, <3>2 DEF V
  <2>3. \A r \in D, v \in V : step[<<r, v>>] \in V
    BY <2>2
  <2> QED
    BY ONLY <1>1, <1>3, <1>5, <2>1, <2>3, RecursionExists
<1>7. ASSUME NEW r \in D
      PROVE  f[r] = IF r = 0 THEN <<>> ELSE <<r>> \o f[links[r]]
  <2>1. f[r] = IF r \in ends THEN out[r] ELSE step[<<r, f[links[r]]>>]
    <3> HIDE DEF ends, out
    <3> QED
      BY <1>6, RecursUnfolds
  <2>2. r \in ends => out[r] = <<>>
    OBVIOUS
  <2>3. r \in ends <=> r = 0
    OBVIOUS
  <2>4. r \notin ends => step[<<r, f[links[r]]>>] = <<r>> \o f[links[r]]
    <3> HIDE DEF ends
    <3>1. r \notin ends => f[links[r]] \in V
      BY <1>2, <1>6
    <3> QED
      BY <1>4, <3>1
  <2> HIDE DEF ends, out
  <2> QED
    BY <2>1, <2>2, <2>3, <2>4
<1>8. f = [r \in D |-> f[r]]
  BY <1>6
<1>9. f = [r \in D |-> IF r = 0 THEN <<>> ELSE <<r>> \o f[links[r]]]
  BY <1>7, <1>8
<1> QED
  BY <1>9 DEF IsAlong, n, D

\* What a failure chain of a state holds.
ChainHolds(p, s, c) ==
    /\ c \in Seq(Nat)
    /\ \A n \in 1 .. Len(c) : c[n] \in 1 .. s
    /\ \A m \in 1 .. s : EndsWith(p, Prefix(p, s), m) => \E n \in 1 .. Len(c) : c[n] = m

\* it visits the state and all its borders, but not the empty one.
LEMMA AlongHolds ==
    ASSUME NEW p \in Seq(Nat), Len(p) > 0, NEW links, LinksExact(p, links, Len(p)),
           NEW f, IsAlong(f, p, links)
    PROVE  \A s \in 0 .. Len(p) - 1 : ChainHolds(p, s, f[s])
<1> DEFINE n == Len(p) - 1
           S == {s \in 0 .. n : ChainHolds(p, s, f[s])}
<1>1. n \in Nat /\ n = Len(p) - 1
  OBVIOUS
<1> HIDE DEF n
<1>2. ASSUME NEW s \in 0 .. n, \A j \in 0 .. s - 1 : j \in S
      PROVE  s \in S
  <2>1. f[s] = IF s = 0 THEN <<>> ELSE <<s>> \o f[links[s]]
    <3> DEFINE rhs(r) == IF r = 0 THEN <<>> ELSE <<r>> \o f[links[r]]
    <3>1. f = [r \in 0 .. n |-> rhs(r)]
      BY <1>1 DEF IsAlong
    <3> HIDE DEF rhs
    <3>2. f[s] = rhs(s)
      BY <3>1
    <3> QED
      BY <3>2 DEF rhs
  <2>2. s \in Nat /\ s \in 0 .. Len(p) /\ Len(p) \in Nat
    BY <1>1
  <2>3. CASE s = 0
    <3>1. f[s] = <<>> /\ <<>> \in Seq(Nat) /\ Len(<<>>) = 0
      BY <2>1, <2>3, EmptySeq
    <3>2. ChainHolds(p, s, f[s])
      BY <2>3, <3>1 DEF ChainHolds
    <3> QED
      BY <3>2
  <2>4. CASE s # 0
    <3> DEFINE t == links[s]
               c == f[t]
               e == <<s>> \o c
    <3>1. s \in 1 .. Len(p) /\ LinksExact(p, links, s)
      BY <2>2, <2>4, LinksOfFewer
    <3>2. /\ t \in 0 .. s - 1
          /\ \A m \in 0 .. s - 1 : EndsWith(p, Prefix(p, s), m)
                <=> m <= t /\ EndsWith(p, Prefix(p, t), m)
      BY <3>1, BordersOfLink
    <3>3. ChainHolds(p, t, c)
      BY <1>2, <3>2
    <3>4. f[s] = e
      BY <2>1, <2>4
    <3> HIDE DEF t, c
    <3>5. /\ c \in Seq(Nat) /\ \A j \in 1 .. Len(c) : c[j] \in 1 .. t
          /\ \A m \in 1 .. t : EndsWith(p, Prefix(p, t), m) => \E j \in 1 .. Len(c) : c[j] = m
      BY <3>3 DEF ChainHolds
    <3>6. /\ e \in Seq(Nat) /\ Len(e) = Len(c) + 1 /\ Len(c) \in Nat /\ e[1] = s
          /\ \A j \in 1 .. Len(c) : e[j + 1] = c[j]
      BY <2>2, <3>5, HeadOfConcat, SMTT(30)
    <3> HIDE DEF e
    <3>7. ASSUME NEW j \in 1 .. Len(e)
          PROVE  e[j] \in 1 .. s
      <4>1. CASE j = 1
        BY <2>2, <2>4, <3>6, <4>1
      <4>2. CASE j # 1
        <5>1. j - 1 \in 1 .. Len(c) /\ (j - 1) + 1 = j
          BY <3>6, <4>2
        <5>2. e[j] = c[j - 1] /\ c[j - 1] \in 1 .. t
          BY <3>5, <3>6, <5>1
        <5> QED
          BY <2>2, <3>2, <5>2
      <4> QED
        BY <4>1, <4>2
    <3>8. ASSUME NEW m \in 1 .. s, EndsWith(p, Prefix(p, s), m)
          PROVE  \E j \in 1 .. Len(e) : e[j] = m
      <4>1. CASE m = s
        <5>1. 1 \in 1 .. Len(e)
          BY <3>6
        <5> QED
          BY <3>6, <4>1, <5>1
      <4>2. CASE m # s
        <5>1. m \in 0 .. s - 1 /\ m \in Nat /\ m >= 1
          BY <2>2, <4>2
        <5>2. m <= t /\ EndsWith(p, Prefix(p, t), m)
          BY <3>2, <3>8, <5>1
        <5>3. m \in 1 .. t
          BY <3>2, <5>1, <5>2
        <5>4. PICK j \in 1 .. Len(c) : c[j] = m
          BY <3>5, <5>2, <5>3
        <5>5. j + 1 \in 1 .. Len(e)
          BY <3>6
        <5> QED
          BY <3>6, <5>4, <5>5
      <4> QED
        BY <4>1, <4>2
    <3>9. ChainHolds(p, s, e)
      BY <3>6, <3>7, <3>8 DEF ChainHolds
    <3> QED
      BY <3>4, <3>9
  <2> QED
    BY <2>3, <2>4
<1>3. \A s \in 0 .. n : s \in S
  <2> HIDE DEF S
  <2> QED
    BY <1>1, <1>2, StrongInduction
<1> QED
  BY <1>1, <1>3

\* The chain of a state holds all its borders.
LEMMA ChainIs ==
    ASSUME pattern \in Seq(Nat), accept > 0, LinksExact(pattern, fail, accept),
           NEW s \in 0 .. accept - 1
    PROVE  ChainHolds(pattern, s, Chain(s))
<1> DEFINE p == pattern
           Is(f) == IsAlong(f, p, fail)
           f0 == CHOOSE f : Is(f)
<1>1. p \in Seq(Nat) /\ Len(p) > 0 /\ s \in 0 .. Len(p) - 1 /\ LinksExact(p, fail, Len(p))
  BY DEF accept
<1>2. Chain(s) = f0[s]
  BY DEF Chain, IsAlong, accept
<1>3. Is(f0)
  <2>1. \E f : Is(f)
    BY <1>1, AlongExists
  <2> HIDE DEF Is
  <2> QED
    BY <2>1
<1> HIDE DEF f0, p
<1>4. ChainHolds(p, s, f0[s])
  BY <1>1, <1>3, AlongHolds
<1> QED
  BY <1>2, <1>4 DEF p

\* The bytes that are not relevant to a state.
LEMMA OthersIndifferent ==
    ASSUME pattern \in Seq(Nat), accept > 0, LinksExact(pattern, fail, accept),
           NEW s \in 0 .. accept - 1
    PROVE  LET R == {pattern[Chain(s)[n] + 1] : n \in 1 .. Len(Chain(s))}
           IN  /\ \A b \in R : \E n \in 1 .. accept : b = pattern[n]
               /\ \A b \in Nat : b \notin R => Indifferent(pattern, s, b)
<1> DEFINE c == Chain(s)
           R == {pattern[c[n] + 1] : n \in 1 .. Len(c)}
<1>1. ChainHolds(pattern, s, c)
  BY ChainIs
<1>2. s \in Nat /\ accept \in Nat
  BY DEF accept
<1> HIDE DEF c
<1>3. ASSUME NEW b \in R
      PROVE  \E n \in 1 .. accept : b = pattern[n]
  <2>1. PICK n \in 1 .. Len(c) : b = pattern[c[n] + 1]
    OBVIOUS
  <2>2. c[n] \in 1 .. s
    BY <1>1 DEF ChainHolds
  <2>3. c[n] + 1 \in 1 .. accept
    BY <1>2, <2>2
  <2> QED
    BY <2>1, <2>3
<1>4. ASSUME NEW b \in Nat, b \notin R
      PROVE  Indifferent(pattern, s, b)
  <2> SUFFICES ASSUME NEW m \in 1 .. s, EndsWith(pattern, Prefix(pattern, s), m)
               PROVE  pattern[m + 1] # b
    BY DEF Indifferent
  <2>1. PICK n \in 1 .. Len(c) : c[n] = m
    BY <1>1 DEF ChainHolds
  <2> QED
    BY <1>4, <2>1
<1> QED
  BY <1>3, <1>4 DEF c

-----------------------------------------------------------------------------
(***************************************************************************)
(* Numbers in ascending order.                                             *)
(***************************************************************************)

InOrderOf(q, S) ==
    /\ q \in [1 .. Cardinality(S) -> S]
    /\ \A m, n \in 1 .. Cardinality(S) : m < n => q[m] < q[n]

\* Every finite set of numbers has an ascending order.
LEMMA OrderExists ==
    ASSUME NEW N \in Nat, NEW S \in SUBSET (0 .. N)
    PROVE  /\ IsFiniteSet(S) /\ Cardinality(S) \in Nat
           /\ \E q : InOrderOf(q, S)
<1> DEFINE Fewer(m) == {x \in S : x < m}
           Good == {m \in 0 .. N + 1 : \E q : InOrderOf(q, Fewer(m))}
<1>0. \A x \in S : x \in Nat /\ x <= N
  OBVIOUS
<1>1. ASSUME NEW T \in SUBSET S
      PROVE  IsFiniteSet(T) /\ Cardinality(T) \in Nat
  <2>1. T \in SUBSET Nat /\ \A x \in T : x <= N
    OBVIOUS
  <2>2. IsFiniteSet(T)
    BY <2>1, FS_BoundedSetOfNaturals
  <2> QED
    BY <2>2, FS_CardinalityType
<1>2. 0 \in Good
  <2>1. Fewer(0) = {}
    <3>1. \A x \in S : ~(x < 0)
      OBVIOUS
    <3> QED
      BY <3>1
  <2>2. Cardinality({}) = 0
    BY FS_EmptySet
  <2> DEFINE q == [x \in {} |-> x]
  <2>3. q \in [1 .. 0 -> {}]
    <3>1. 1 .. 0 = {}
      OBVIOUS
    <3> QED
      BY <3>1
  <2> HIDE DEF q
  <2>4. InOrderOf(q, {})
    BY <2>2, <2>3 DEF InOrderOf
  <2> HIDE DEF Fewer
  <2> QED
    BY <2>1, <2>4
<1>3. ASSUME NEW m \in 0 .. N, m \in Good
      PROVE  m + 1 \in Good
  <2>1. PICK q : InOrderOf(q, Fewer(m))
    BY <1>3
  <2> DEFINE T == Fewer(m)
             U == Fewer(m + 1)
             n == Cardinality(T)
  <2>2. n \in Nat /\ IsFiniteSet(T)
    BY <1>1
  <2>3. q \in [1 .. n -> T] /\ \A j, z \in 1 .. n : j < z => q[j] < q[z]
    BY <2>1 DEF InOrderOf
  <2>4. m + 1 \in 0 .. N + 1
    OBVIOUS
  <2>5. CASE m \notin S
    <3>1. \A x \in S : x < m + 1 <=> x < m
      BY <2>5
    <3>2. U = T
      BY <3>1
    <3>3. InOrderOf(q, T)
      BY <2>1
    <3> HIDE DEF U, T, Fewer
    <3>4. InOrderOf(q, U)
      BY <3>2, <3>3
    <3> QED
      BY <2>4, <3>4 DEF U
  <2>6. CASE m \in S
    <3>0. \A x \in S : x < m + 1 <=> x < m \/ x = m
      BY <1>0
    <3>1. U = T \cup {m} /\ m \notin T /\ \A x \in T : x < m /\ x \in Int
      <4>1. m \in Nat /\ ~(m < m)
        OBVIOUS
      <4>2. m \notin T /\ \A x \in T : x < m /\ x \in Int
        BY <1>0, <4>1
      <4>3. U = T \cup {m}
        BY <2>6, <3>0
      <4> QED
        BY <4>2, <4>3
    <3> HIDE DEF U, T
    <3>2. Cardinality(U) = n + 1
      BY <2>2, <3>1, FS_AddElement
    <3> HIDE DEF n
    <3> DEFINE r == [j \in 1 .. n + 1 |-> IF j = n + 1 THEN m ELSE q[j]]
    <3>3. r \in [1 .. n + 1 -> U]
      BY <2>2, <2>3, <3>1
    <3>4. ASSUME NEW j \in 1 .. n + 1, NEW z \in 1 .. n + 1, j < z
          PROVE  r[j] < r[z]
      <4>1. j \in 1 .. n /\ r[j] = q[j] /\ q[j] \in T
        BY <2>2, <2>3, <3>4
      <4>2. CASE z = n + 1
        BY <3>1, <4>1, <4>2
      <4>3. CASE z # n + 1
        <5>1. z \in 1 .. n /\ r[z] = q[z]
          BY <2>2, <4>3
        <5> QED
          BY <2>3, <3>4, <4>1, <5>1
      <4> QED
        BY <4>2, <4>3
    <3> HIDE DEF r
    <3>5. InOrderOf(r, U)
      BY <3>2, <3>3, <3>4 DEF InOrderOf
    <3> QED
      BY <2>4, <3>5 DEF U
  <2> QED
    BY <2>5, <2>6
<1>4. N + 1 \in Good
  <2> HIDE DEF Good
  <2>1. N + 1 \in Nat /\ (N + 1) - 1 = N /\ N + 1 \in 0 .. N + 1
    OBVIOUS
  <2>2. \A m \in 0 .. (N + 1) - 1 : m \in Good => m + 1 \in Good
    BY <1>3, <2>1
  <2>3. \A m \in 0 .. N + 1 : m \in Good
    BY <1>2, <2>1, <2>2, UpwardInduction
  <2> QED
    BY <2>1, <2>3
<1>5. Fewer(N + 1) = S
  <2>1. \A x \in S : x < N + 1
    OBVIOUS
  <2> QED
    BY <2>1
<1> HIDE DEF Fewer
<1> QED
  BY <1>1, <1>4, <1>5

\* It holds all of the set, each of it once.
LEMMA OrderIs ==
    ASSUME NEW N \in Nat, NEW S \in SUBSET (0 .. N)
    PROVE  LET q == InAscendingOrder(S)
           IN  /\ q \in Seq(S) /\ Len(q) \in Nat
               /\ \A m, n \in 1 .. Len(q) : m < n => q[m] < q[n]
               /\ \A x \in S : \E m \in 1 .. Len(q) : q[m] = x
<1> DEFINE n == Cardinality(S)
           Is(q) == InOrderOf(q, S)
           q0 == InAscendingOrder(S)
<1>0. \A x \in S : x \in Int
  OBVIOUS
<1>1. IsFiniteSet(S) /\ n \in Nat /\ \E q : Is(q)
  BY OrderExists
<1>2. InOrderOf(q0, S)
  <2>1. \E q \in [1 .. n -> S] : \A j, m \in 1 .. n : j < m => q[j] < q[m]
    BY <1>1 DEF InOrderOf
  <2> QED
    BY <2>1 DEF InAscendingOrder, InOrderOf
<1> HIDE DEF q0
<1>3. q0 \in [1 .. n -> S] /\ \A j, m \in 1 .. n : j < m => q0[j] < q0[m]
  BY <1>2 DEF InOrderOf
<1> HIDE DEF n
<1>4. q0 \in Seq(S) /\ Len(q0) = n
  BY <1>1, <1>3
<1>5. ASSUME NEW j \in 1 .. n, NEW m \in 1 .. n, q0[j] = q0[m]
      PROVE  j = m
  <2>1. q0[j] \in S /\ q0[m] \in S
    BY <1>3
  <2>2. q0[j] \in Int /\ q0[m] \in Int
    BY <1>0, <2>1
  <2>3. ~(j < m) /\ ~(m < j)
    BY <1>3, <1>5, <2>2
  <2> QED
    BY <2>3
<1>6. Cardinality(1 .. n) = n /\ IsFiniteSet(1 .. n)
  BY <1>1, FS_Interval
<1>7. ASSUME NEW x \in S, \A m \in 1 .. n : q0[m] # x
      PROVE  FALSE
  <2> DEFINE T == S \ {x}
  <2>1. IsFiniteSet(T) /\ Cardinality(T) = n - 1
    BY <1>1, FS_RemoveElement DEF n
  <2>2. q0 \in [1 .. n -> T]
    BY <1>3, <1>7
  <2> HIDE DEF T
  <2>3. Cardinality(T) < Cardinality(1 .. n)
    BY <1>1, <1>6, <2>1
  <2>4. \E j, m \in 1 .. n : j # m /\ q0[j] = q0[m]
    BY <1>6, <2>1, <2>2, <2>3, FS_PigeonHole
  <2> QED
    BY <1>5, <2>4
<1>8. \A x \in S : \E m \in 1 .. n : q0[m] = x
  BY <1>7
<1> QED
  BY <1>1, <1>3, <1>4, <1>8 DEF q0

-----------------------------------------------------------------------------
(***************************************************************************)
(* The exceptions of a state.                                              *)
(***************************************************************************)

\* Where a token leads from a state, and from state 0.
After(p, v, s, t) == Reached(p, Prefix(p, s) \o v[t + 1])
Plain(p, v, t) == Reached(p, v[t + 1])

\* An exception says where its tokens lead, which is not where they lead from state 0.
Right(p, v, s, x) ==
    /\ x.begin <= x.last
    /\ \A t \in x.begin .. x.last : After(p, v, s, t) = x.target /\ Plain(p, v, t) # x.target

\* The exceptions behind the first low of them, up to high, are those of a state, as
\* far as the tokens of D go.
SliceExact(ex, low, high, p, v, s, D) ==
    /\ \A n \in low + 1 .. high : Right(p, v, s, ex[n])
    /\ \A m, n \in low + 1 .. high : m < n => ex[m].last < ex[n].begin
    /\ \A t \in D : After(p, v, s, t) # Plain(p, v, t)
            => \E n \in low + 1 .. high : t \in ex[n].begin .. ex[n].last

\* What emit makes of exceptions when it adds one, behind those of a state.
Emitted(ex, low, x, e, p, v, s, D) ==
    /\ Len(e) \in Nat /\ Len(e) >= low
    /\ \A n \in 1 .. low : e[n] = ex[n]
    /\ SliceExact(e, low, Len(e), p, v, s, D \cup (x.begin .. x.last))
    /\ \A n \in low + 1 .. Len(e) :
        e[n].last = x.last \/ \E m \in low + 1 .. Len(ex) : e[n].last = ex[m].last

\* Emitting an exception that is right and behind the others keeps the slice exact,
\* whether it is appended or extends the last one.
LEMMA EmitExact ==
    ASSUME NEW E \in SUBSET [begin : Nat, last : Nat, target : Nat],
           NEW ex \in Seq(E), rangeStart \in 0 .. Len(ex),
           NEW p, NEW v, NEW s, NEW D, SliceExact(ex, rangeStart, Len(ex), p, v, s, D),
           NEW x \in E, Right(p, v, s, x),
           \A n \in rangeStart + 1 .. Len(ex) : ex[n].last < x.begin,
           \A y \in E : [y EXCEPT !.last = x.last] \in E
    PROVE  /\ Emit(ex, x.begin, x.last, x.target) \in Seq(E)
           /\ Emitted(ex, rangeStart, x, Emit(ex, x.begin, x.last, x.target), p, v, s, D)
<1> DEFINE l == Len(ex)
           low == rangeStart
           top == ex[l]
           e == Emit(ex, x.begin, x.last, x.target)
           grown == [top EXCEPT !.last = x.last]
<1>1. l \in Nat /\ low \in Nat /\ low <= l /\ l = Len(ex)
  OBVIOUS
<1>2. \A n \in 1 .. l : ex[n] \in E
  OBVIOUS
<1>3. \A y \in E : y.begin \in Nat /\ y.last \in Nat /\ y.target \in Nat
  OBVIOUS
<1>4. /\ \A n \in low + 1 .. l : Right(p, v, s, ex[n])
      /\ \A m, n \in low + 1 .. l : m < n => ex[m].last < ex[n].begin
      /\ \A t \in D : After(p, v, s, t) # Plain(p, v, t)
            => \E n \in low + 1 .. l : t \in ex[n].begin .. ex[n].last
  BY DEF SliceExact
<1>5. \A n \in low + 1 .. l : n \in 1 .. l
  BY <1>1
<1>6. CASE l > low /\ top.target = x.target /\ top.last + 1 = x.begin
  <2>1. e = [ex EXCEPT ![l].last = x.last]
    BY <1>6 DEF Emit
  <2>2. l \in low + 1 .. l /\ l \in 1 .. l
    BY <1>1, <1>6
  <2>3. top \in E /\ grown \in E
    BY <1>2, <2>2
  <2>4. grown.begin = top.begin /\ grown.last = x.last /\ grown.target = top.target
    BY <2>3
  <2>5. e \in Seq(E) /\ Len(e) = l /\ \A n \in 1 .. l : e[n] = IF n = l THEN grown ELSE ex[n]
    <3>1. e = [ex EXCEPT ![l] = grown]
      BY <2>1
    <3> HIDE DEF e, grown, l
    <3>2. l \in 1 .. Len(ex) /\ Len(ex) = l
      BY <1>1, <2>2
    <3>3. /\ [ex EXCEPT ![l] = grown] \in Seq(E)
          /\ Len([ex EXCEPT ![l] = grown]) = Len(ex)
          /\ \A n \in 1 .. Len(ex) :
                [ex EXCEPT ![l] = grown][n] = IF n = l THEN grown ELSE ex[n]
      BY <2>3, <3>2, ExceptSeq
    <3> QED
      BY <3>1, <3>2, <3>3
  <2> HIDE DEF e, l, low, grown, top
  <2>6. Right(p, v, s, grown)
    <3>1. Right(p, v, s, top)
      BY <1>4, <2>2 DEF top
    <3>2. top.begin <= grown.last
      BY <1>3, <1>6, <2>3, <2>4, <3>1 DEF Right
    <3>3. ASSUME NEW t \in top.begin .. x.last
          PROVE  After(p, v, s, t) = top.target /\ Plain(p, v, t) # top.target
      <4>1. t \in top.begin .. top.last \/ t \in x.begin .. x.last
        BY <1>3, <1>6, <2>3
      <4> QED
        BY <1>6, <3>1, <4>1 DEF Right
    <3> QED
      BY <2>4, <3>2, <3>3 DEF Right
  <2>7. \A n \in low + 1 .. l : Right(p, v, s, e[n])
    BY <1>4, <1>5, <2>5, <2>6
  <2>8. ASSUME NEW m \in low + 1 .. l, NEW n \in low + 1 .. l, m < n
        PROVE  e[m].last < e[n].begin
    <3>1. m \in 1 .. l /\ n \in 1 .. l /\ m # l
      <4>1. m \in low + 1 .. l /\ n \in low + 1 .. l /\ m < n
        BY <2>8
      <4> QED
        BY ONLY <1>1, <4>1, SMT
    <3>2. e[m] = ex[m] /\ ex[m].last < ex[n].begin
      BY <1>4, <2>5, <2>8, <3>1
    <3>3. e[n].begin = ex[n].begin
      BY <2>4, <2>5, <3>1 DEF top
    <3> QED
      BY <3>2, <3>3
  <2>9. ASSUME NEW t \in D \cup (x.begin .. x.last), After(p, v, s, t) # Plain(p, v, t)
        PROVE  \E n \in low + 1 .. l : t \in e[n].begin .. e[n].last
    <3>1. CASE t \in x.begin .. x.last
      <4>1. t \in top.begin .. x.last
        <5>1. top.begin <= top.last
          BY <1>4, <2>2 DEF Right, top
        <5> QED
          BY <1>3, <1>6, <2>3, <3>1, <5>1
      <4> QED
        BY <2>2, <2>4, <2>5, <4>1
    <3>2. CASE t \in D
      <4>1. PICK n \in low + 1 .. l : t \in ex[n].begin .. ex[n].last
        BY <1>4, <2>9, <3>2
      <4>2. CASE n # l
        BY <1>5, <2>5, <4>1, <4>2
      <4>3. CASE n = l
        <5>1. t \in top.begin .. x.last
          <6>1. x.begin <= x.last
            BY DEF Right
          <6>2. t \in top.begin .. top.last
            BY <4>1, <4>3 DEF top
          <6> QED
            BY <1>3, <1>6, <2>3, <6>1, <6>2
        <5> QED
          BY <2>2, <2>4, <2>5, <5>1
      <4> QED
        BY <4>2, <4>3
    <3> QED
      BY <3>1, <3>2
  <2>10. \A n \in 1 .. low : e[n] = ex[n]
    <3> SUFFICES ASSUME NEW n \in 1 .. low PROVE e[n] = ex[n]
      OBVIOUS
    <3>1. n \in 1 .. l /\ n # l
      BY <1>1, <1>6
    <3> QED
      BY <2>5, <3>1
  <2>11. ASSUME NEW n \in low + 1 .. l
         PROVE  e[n].last = x.last \/ \E m \in low + 1 .. l : e[n].last = ex[m].last
    BY <1>5, <2>4, <2>5
  <2>12. SliceExact(e, low, Len(e), p, v, s, D \cup (x.begin .. x.last))
    BY <2>5, <2>7, <2>8, <2>9 DEF SliceExact
  <2>13. Emitted(ex, low, x, e, p, v, s, D)
    BY <1>1, <2>5, <2>10, <2>11, <2>12 DEF Emitted
  <2> QED
    BY <2>5, <2>13 DEF e, low
<1>7. CASE ~(l > low /\ top.target = x.target /\ top.last + 1 = x.begin)
  <2>1. e = Append(ex, x)
    <3>1. x = [begin |-> x.begin, last |-> x.last, target |-> x.target]
      OBVIOUS
    <3> QED
      BY <1>7, <3>1 DEF Emit
  <2>2. e \in Seq(E) /\ Len(e) = l + 1 /\ e[l + 1] = x /\ \A n \in 1 .. l : e[n] = ex[n]
    BY <2>1
  <2> HIDE DEF e, l, low, top
  <2>3. ASSUME NEW n \in low + 1 .. l + 1
        PROVE  n = l + 1 \/ (n \in low + 1 .. l /\ n \in 1 .. l)
    BY ONLY <1>1, n \in low + 1 .. l + 1, SMT
  <2>4. l + 1 \in low + 1 .. l + 1
    BY <1>1
  <2>5. \A n \in low + 1 .. l + 1 : Right(p, v, s, e[n])
    BY <1>4, <2>2, <2>3
  <2>6. ASSUME NEW m \in low + 1 .. l + 1, NEW n \in low + 1 .. l + 1, m < n
        PROVE  e[m].last < e[n].begin
    <3>1. m \in low + 1 .. l /\ m \in 1 .. l
      <4>1. m \in low + 1 .. l + 1 /\ n \in low + 1 .. l + 1 /\ m < n
        BY <2>6
      <4> QED
        BY ONLY <1>1, <4>1, SMT
    <3>2. CASE n = l + 1
      <4>1. ex[m].last < x.begin
        BY <1>1, <3>1 DEF low
      <4> QED
        BY <2>2, <3>1, <3>2, <4>1
    <3>3. CASE n # l + 1
      BY <1>4, <2>2, <2>3, <2>6, <3>1, <3>3
    <3> QED
      BY <3>2, <3>3
  <2>7. ASSUME NEW t \in D \cup (x.begin .. x.last), After(p, v, s, t) # Plain(p, v, t)
        PROVE  \E n \in low + 1 .. l + 1 : t \in e[n].begin .. e[n].last
    <3>1. CASE t \in x.begin .. x.last
      BY <2>2, <2>4, <3>1
    <3>2. CASE t \in D
      <4>1. PICK n \in low + 1 .. l : t \in ex[n].begin .. ex[n].last
        BY <1>4, <2>7, <3>2
      <4>2. n \in low + 1 .. l + 1 /\ n \in 1 .. l
        BY ONLY <1>1, n \in low + 1 .. l, SMT
      <4> QED
        BY <2>2, <4>1, <4>2
    <3> QED
      BY <3>1, <3>2
  <2>8. ASSUME NEW n \in low + 1 .. l + 1
        PROVE  e[n].last = x.last \/ \E m \in low + 1 .. l : e[n].last = ex[m].last
    BY <2>2, <2>3
  <2>9. \A n \in 1 .. low : e[n] = ex[n]
    <3> SUFFICES ASSUME NEW n \in 1 .. low PROVE e[n] = ex[n]
      OBVIOUS
    <3>1. n \in 1 .. l
      BY <1>1
    <3> QED
      BY <2>2, <3>1
  <2>10. SliceExact(e, low, Len(e), p, v, s, D \cup (x.begin .. x.last))
    BY <2>2, <2>5, <2>6, <2>7 DEF SliceExact
  <2>11. Len(e) \in Nat /\ Len(e) >= low
    BY <1>1, <2>2
  <2>12. Emitted(ex, low, x, e, p, v, s, D)
    BY <1>1, <2>2, <2>8, <2>9, <2>10, <2>11 DEF Emitted
  <2> QED
    BY <2>2, <2>12 DEF e, low
<1> QED
  BY <1>6, <1>7

-----------------------------------------------------------------------------
(***************************************************************************)
(* The sorted dictionary as a trie.                                        *)
(***************************************************************************)

\* The tokens of a dictionary as sequences of numbers.
LEMMA TokensAre ==
    ASSUME NEW v \in Seq(Token)
    PROVE  /\ Len(v) \in Nat
           /\ \A t \in Ids(v) : /\ t \in Nat /\ t + 1 \in 1 .. Len(v)
                                /\ v[t + 1] \in Seq(Nat) /\ v[t + 1] \in Seq(Byte)
                                /\ Len(v[t + 1]) \in Nat /\ Len(v[t + 1]) >= 1
<1>1. \A id \in Ids(v) : id \in Nat /\ id + 1 \in 1 .. Len(v) /\ v[id + 1] \in Token
  BY VocabularyTyped
<1>2. Len(v) \in Nat
  BY VocabularyTyped
<1>3. ASSUME NEW t \in Token
      PROVE  t \in Seq(Nat) /\ t \in Seq(Byte) /\ Len(t) \in Nat /\ Len(t) >= 1
  <2>1. t \in Seq(Byte) /\ Len(t) \in 1 .. MaxTokenSize
    BY TokenType DEF ByteSeq
  <2>2. Byte \subseteq Nat
    BY BytesAssumption DEF Byte
  <2>3. t \in Seq(Nat)
    BY <2>1, <2>2, SeqMonotonic
  <2> QED
    BY <2>1, <2>3
<1> QED
  BY <1>1, <1>2, <1>3

\* A prefix and what comes behind it.
LEMMA PrefixAndRest ==
    ASSUME NEW w \in Seq(Nat), NEW n \in 0 .. Len(w)
    PROVE  /\ SubSeq(w, n + 1, Len(w)) \in Seq(Nat)
           /\ w = Prefix(w, n) \o SubSeq(w, n + 1, Len(w))
<1>1. 1 \in 1 .. Len(w) + 1 /\ n \in 1 - 1 .. Len(w) /\ Len(w) \in n .. Len(w)
  OBVIOUS
<1>2. SubSeq(w, 1, n) \o SubSeq(w, n + 1, Len(w)) = SubSeq(w, 1, Len(w))
  BY <1>1, ConcatAdjacentSubSeq
<1>3. SubSeq(w, 1, Len(w)) = w
  BY SubSeqFull
<1>4. SubSeq(w, n + 1, Len(w)) \in Seq(Nat)
  OBVIOUS
<1> QED
  BY <1>2, <1>3, <1>4 DEF Prefix

\* Equal beginnings, byte by byte.
LEMMA SamePrefix ==
    ASSUME NEW w \in Seq(Nat), NEW x \in Seq(Nat), NEW d \in Nat, d <= Len(w), d <= Len(x)
    PROVE  Prefix(w, d) = Prefix(x, d) <=> \A j \in 1 .. d : w[j] = x[j]
<1>1. d \in 0 .. Len(w) /\ d \in 0 .. Len(x)
  OBVIOUS
<1>2. /\ Prefix(w, d) \in Seq(Nat) /\ Len(Prefix(w, d)) = d
      /\ \A j \in 1 .. d : Prefix(w, d)[j] = w[j]
  BY <1>1, PrefixIs DEF Prefix
<1>3. /\ Prefix(x, d) \in Seq(Nat) /\ Len(Prefix(x, d)) = d
      /\ \A j \in 1 .. d : Prefix(x, d)[j] = x[j]
  BY <1>1, PrefixIs DEF Prefix
<1>4. ASSUME \A j \in 1 .. d : w[j] = x[j]
      PROVE  Prefix(w, d) = Prefix(x, d)
  <2>1. Prefix(w, d) = [j \in 1 .. d |-> Prefix(w, d)[j]]
    BY <1>2
  <2>2. Prefix(x, d) = [j \in 1 .. d |-> Prefix(x, d)[j]]
    BY <1>3
  <2>3. \A j \in 1 .. d : Prefix(w, d)[j] = Prefix(x, d)[j]
    BY <1>2, <1>3, <1>4
  <2> QED
    BY <2>1, <2>2, <2>3
<1>5. ASSUME Prefix(w, d) = Prefix(x, d), NEW j \in 1 .. d
      PROVE  w[j] = x[j]
  BY <1>2, <1>3, <1>5
<1> QED
  BY <1>4, <1>5

\* Two tokens share their first d bytes.
Share(v, t, u, d) ==
    /\ Len(v[t + 1]) >= d /\ Len(v[u + 1]) >= d
    /\ \A j \in 1 .. d : v[t + 1][j] = v[u + 1][j]

\* Of the tokens that share bytes, the one without more is the first, and the next bytes
\* of the others do not descend.
LEMMA SortedNext ==
    ASSUME NEW v \in Seq(Token), Sorted(v), NEW t \in Ids(v), NEW u \in Ids(v), t < u,
           NEW d \in Nat, Share(v, t, u, d)
    PROVE  /\ Len(v[u + 1]) > d
           /\ Len(v[t + 1]) > d => v[t + 1][d + 1] <= v[u + 1][d + 1]
<1> DEFINE a == v[t + 1]
           b == v[u + 1]
<1>1. t + 1 \in 1 .. Len(v) /\ u + 1 \in 1 .. Len(v) /\ t + 1 < u + 1
  BY TokensAre
<1>2. a \in Seq(Nat) /\ b \in Seq(Nat) /\ Len(a) \in Nat /\ Len(b) \in Nat
  BY TokensAre
<1>3. LexLess(a, b)
  BY <1>1 DEF Sorted
<1>4. Len(a) >= d /\ Len(b) >= d /\ \A j \in 1 .. d : a[j] = b[j]
  BY DEF Share
<1> HIDE DEF a, b
<1>5. PICK h \in 1 .. Len(b) : /\ h <= Len(a) + 1
                               /\ \A j \in 1 .. h - 1 : a[j] = b[j]
                               /\ h > Len(a) \/ a[h] < b[h]
  BY <1>3 DEF LexLess
<1>6. h > d
  <2>1. SUFFICES ASSUME h <= d PROVE FALSE
    BY <1>2
  <2>2. h \in 1 .. d /\ h \in 1 .. Len(a) /\ ~(h > Len(a))
    BY <1>2, <1>4, <2>1
  <2>3. a[h] = b[h] /\ a[h] < b[h] /\ a[h] \in Nat
    BY <1>2, <1>4, <1>5, <2>2
  <2> QED
    BY <2>3
<1>7. Len(b) > d
  BY <1>2, <1>6
<1>8. ASSUME Len(a) > d
      PROVE  a[d + 1] <= b[d + 1]
  <2>1. d + 1 \in 1 .. Len(a) /\ d + 1 \in 1 .. Len(b)
    BY <1>2, <1>7, <1>8
  <2>2. a[d + 1] \in Nat /\ b[d + 1] \in Nat
    BY <1>2, <2>1, ElementOfSeq
  <2>3. CASE h = d + 1
    BY <1>2, <1>5, <1>8, <2>2, <2>3
  <2>4. CASE h # d + 1
    <3>1. d + 1 \in 1 .. h - 1
      BY <1>2, <1>6, <2>4
    <3> QED
      BY <1>5, <2>2, <3>1
  <2> QED
    BY <2>3, <2>4
<1> QED
  BY <1>7, <1>8 DEF a, b

\* The range of a set without gaps is the set.
LEMMA RangeOfIs ==
    ASSUME NEW N \in Nat, NEW S \in SUBSET (0 .. N), S # {},
           \A t, u \in S, w \in 0 .. N : t <= w /\ w <= u => w \in S
    PROVE  /\ RangeOf(S).begin \in S /\ RangeOf(S).last \in S
           /\ RangeOf(S).begin <= RangeOf(S).last
           /\ S = RangeOf(S).begin .. RangeOf(S).last
<1> DEFINE lower == RangeOf(S).begin
           upper == RangeOf(S).last
<1>1. S \in SUBSET Nat /\ \A h \in S : h <= N
  OBVIOUS
<1>2. \E t \in S : \A u \in S : t <= u
  BY <1>1, LeastNatural
<1>3. \E t \in S : \A u \in S : u <= t
  BY <1>1, LargestNatural
<1>4. lower = CHOOSE t \in S : \A u \in S : t <= u
  BY DEF RangeOf
<1>5. upper = CHOOSE t \in S : \A u \in S : u <= t
  BY DEF RangeOf
<1> HIDE DEF lower, upper
<1>6. lower \in S /\ \A u \in S : lower <= u
  BY <1>2, <1>4
<1>7. upper \in S /\ \A u \in S : u <= upper
  BY <1>3, <1>5
<1>8. \A w \in S : w \in lower .. upper
  BY <1>1, <1>6, <1>7
<1>9. ASSUME NEW w \in lower .. upper
      PROVE  w \in S
  <2>1. lower \in Nat /\ upper \in Nat /\ upper <= N
    BY <1>1, <1>6, <1>7
  <2>2. w \in 0 .. N /\ lower <= w /\ w <= upper
    BY <2>1
  <2> QED
    BY <1>6, <1>7, <2>2
<1>10. lower <= upper
  BY <1>6, <1>7
<1> QED
  BY <1>6, <1>7, <1>8, <1>9, <1>10 DEF lower, upper

\* A call of traverse: tokens that share the bytes read, and what they lead to.
FrameExact(f, p, v, s) ==
    /\ f.begin \in Ids(v) /\ f.last \in Ids(v) /\ f.begin <= f.last
    /\ f.depth \in Nat /\ f.depth >= 1
    /\ \A t \in f.begin .. f.last :
        /\ Len(v[t + 1]) >= f.depth
        /\ Prefix(v[t + 1], f.depth) = Prefix(v[f.begin + 1], f.depth)
    /\ f.kmpJ = Reached(p, Prefix(p, s) \o Prefix(v[f.begin + 1], f.depth))
    /\ f.kmp0 = Reached(p, Prefix(v[f.begin + 1], f.depth))

\* The tokens of a call share the bytes up to its depth.
LEMMA FrameTokens ==
    ASSUME NEW v \in Seq(Token), NEW p, NEW s, NEW f, FrameExact(f, p, v, s)
    PROVE  \A t \in f.begin .. f.last :
            /\ t \in Ids(v) /\ v[t + 1] \in Seq(Nat) /\ f.depth \in 0 .. Len(v[t + 1])
            /\ Prefix(v[t + 1], f.depth) = Prefix(v[f.begin + 1], f.depth)
            /\ \A u \in f.begin .. f.last : Share(v, t, u, f.depth)
<1>0. /\ f.begin \in Ids(v) /\ f.last \in Ids(v) /\ f.begin <= f.last /\ f.depth \in Nat
      /\ \A t \in f.begin .. f.last :
            /\ Len(v[t + 1]) >= f.depth
            /\ Prefix(v[t + 1], f.depth) = Prefix(v[f.begin + 1], f.depth)
  BY DEF FrameExact
<1> DEFINE d == f.depth
           R == f.begin .. f.last
<1>1. ASSUME NEW t \in R
      PROVE  /\ t \in Ids(v) /\ v[t + 1] \in Seq(Nat) /\ d \in 0 .. Len(v[t + 1])
             /\ Prefix(v[t + 1], d) = Prefix(v[f.begin + 1], d)
             /\ d <= Len(v[t + 1])
  <2>1. Len(v) \in Nat
    BY TokensAre
  <2>2. t \in Ids(v)
    BY <1>0, <2>1 DEF Ids
  <2>3. v[t + 1] \in Seq(Nat) /\ Len(v[t + 1]) \in Nat
    BY <2>2, TokensAre
  <2> QED
    BY <1>0, <2>2, <2>3
<1>2. ASSUME NEW t \in R, NEW u \in R
      PROVE  Share(v, t, u, d)
  <2>1. Prefix(v[t + 1], d) = Prefix(v[u + 1], d)
    BY <1>1
  <2>2. v[t + 1] \in Seq(Nat) /\ v[u + 1] \in Seq(Nat) /\ d \in Nat /\ d <= Len(v[t + 1]) /\ d <= Len(v[u + 1])
    BY <1>0, <1>1
  <2>3. \A j \in 1 .. d : v[t + 1][j] = v[u + 1][j]
    BY <2>1, <2>2, SamePrefix
  <2>4. Len(v[t + 1]) >= d /\ Len(v[u + 1]) >= d
    BY <2>2
  <2> QED
    BY <2>3, <2>4 DEF Share
<1> QED
  BY <1>1, <1>2

\* Only the first token of a frame can end where its depth does.
LEMMA FirstLongerIs ==
    ASSUME vocab \in Seq(Token), Sorted(vocab), NEW p, NEW s, NEW f, FrameExact(f, p, vocab, s)
    PROVE  /\ FirstLonger(f) \in Nat /\ f.begin <= FirstLonger(f) /\ FirstLonger(f) <= f.last + 1
           /\ f.begin \in Nat /\ f.last \in Nat
           /\ \A t \in FirstLonger(f) .. f.last : Len(vocab[t + 1]) > f.depth
           /\ \A t \in f.begin .. FirstLonger(f) - 1 : Len(vocab[t + 1]) = f.depth
<1> DEFINE d == f.depth
           lower == f.begin
           upper == f.last
           Fits(t) == /\ \A u \in lower .. t - 1 : Len(vocab[u + 1]) = d
                      /\ t <= upper => Len(vocab[t + 1]) # d
<1>1. lower \in Nat /\ upper \in Nat /\ lower <= upper /\ d \in Nat /\ lower \in Ids(vocab)
  BY TokensAre DEF FrameExact
<1>2. \A t \in lower .. upper : t \in Ids(vocab) /\ Len(vocab[t + 1]) \in Nat /\ Len(vocab[t + 1]) >= d
  BY FrameTokens, TokensAre DEF FrameExact
<1>3. ASSUME NEW t \in lower + 1 .. upper
      PROVE  Len(vocab[t + 1]) > d
  <2>1. lower \in lower .. upper /\ t \in lower .. upper /\ lower < t
    BY <1>1
  <2>2. t \in Ids(vocab) /\ lower \in Ids(vocab) /\ Share(vocab, lower, t, d)
    BY <1>1, <1>2, <2>1, FrameTokens
  <2> QED
    BY <1>1, <2>1, <2>2, SortedNext
<1>4. FirstLonger(f) = CHOOSE t \in lower .. upper + 1 : Fits(t)
  BY DEF FirstLonger
<1> HIDE DEF d, lower, upper
<1>5. lower \in lower .. upper /\ lower \in lower .. upper + 1 /\ lower + 1 \in lower .. upper + 1
  BY <1>1
<1>6. \E t \in lower .. upper + 1 : Fits(t)
  <2>1. CASE Len(vocab[lower + 1]) = d
    <3>1. \A u \in lower .. (lower + 1) - 1 : Len(vocab[u + 1]) = d
      <4>1. \A u \in lower .. (lower + 1) - 1 : u = lower
        BY <1>1
      <4> QED
        BY <2>1, <4>1
    <3>2. lower + 1 <= upper => Len(vocab[(lower + 1) + 1]) # d
      <4>1. ASSUME lower + 1 <= upper
            PROVE  lower + 1 \in lower + 1 .. upper /\ lower + 1 \in lower .. upper
        BY <1>1, <4>1
      <4> QED
        BY <1>1, <1>2, <1>3, <4>1
    <3>3. Fits(lower + 1)
      BY <3>1, <3>2
    <3> QED
      BY <1>5, <3>3
  <2>2. CASE Len(vocab[lower + 1]) # d
    <3>1. \A u \in lower .. lower - 1 : FALSE
      BY <1>1
    <3>2. Fits(lower)
      BY <2>2, <3>1
    <3> QED
      BY <1>5, <3>2
  <2> QED
    BY <2>1, <2>2
<1>7. PICK t \in lower .. upper + 1 : t = FirstLonger(f) /\ Fits(t)
  BY <1>4, <1>6
<1>8. t \in Nat /\ lower <= t /\ t <= upper + 1
  BY <1>1
<1>9. ASSUME NEW u \in t .. upper
      PROVE  Len(vocab[u + 1]) > d
  <2>1. u \in lower .. upper /\ t <= upper
    BY <1>1, <1>8
  <2>2. CASE u = lower
    <3>1. t = lower
      BY <1>1, <1>8, <2>2
    <3>2. Len(vocab[u + 1]) # d
      BY <1>7, <2>1, <2>2, <3>1
    <3>3. Len(vocab[u + 1]) \in Nat /\ Len(vocab[u + 1]) >= d
      BY <1>2, <2>1
    <3> QED
      BY <1>1, <3>2, <3>3
  <2>3. CASE u # lower
    <3>1. u \in lower + 1 .. upper
      BY <1>1, <2>1, <2>3
    <3> QED
      BY <1>3, <3>1
  <2> QED
    BY <2>2, <2>3
<1> QED
  BY <1>1, <1>7, <1>8, <1>9 DEF d, lower, upper

\* Where the tokens of a frame lead.
LEMMA FrameReaches ==
    ASSUME NEW p \in Seq(Nat), Len(p) > 0, NEW s \in 0 .. Len(p), NEW v \in Seq(Token),
           NEW f, FrameExact(f, p, v, s), NEW t \in f.begin .. f.last
    PROVE  /\ f.kmpJ \in 0 .. Len(p) /\ f.kmp0 \in 0 .. Len(p)
           /\ f.kmpJ = f.kmp0 => After(p, v, s, t) = Plain(p, v, t)
           /\ f.kmpJ = Len(p) => After(p, v, s, t) = Len(p)
           /\ Len(v[t + 1]) = f.depth => After(p, v, s, t) = f.kmpJ /\ Plain(p, v, t) = f.kmp0
<1> DEFINE w == v[t + 1]
           d == f.depth
           x == Prefix(w, d)
           y == SubSeq(w, d + 1, Len(w))
           q == Prefix(p, s)
<1>1. w \in Seq(Nat) /\ d \in 0 .. Len(w) /\ x = Prefix(v[f.begin + 1], d)
  BY FrameTokens
<1>2. f.kmpJ = Reached(p, q \o x) /\ f.kmp0 = Reached(p, x)
  BY <1>1 DEF FrameExact
<1>3. After(p, v, s, t) = Reached(p, q \o w) /\ Plain(p, v, t) = Reached(p, w)
  BY DEF After, Plain
<1>4. q \in Seq(Nat)
  BY PrefixIs DEF Prefix
<1> HIDE DEF w, d, q
<1>5. x \in Seq(Nat) /\ x = SubSeq(w, 1, d)
  BY <1>1, PrefixIs DEF Prefix
<1>6. <<>> \o w = w /\ <<>> \o x = x /\ <<>> \in Seq(Nat)
  BY <1>1, <1>5, NothingIs
<1>7. q \o x \in Seq(Nat)
  BY <1>4, <1>5, ConcatIs
<1>8. f.kmpJ \in 0 .. Len(p) /\ f.kmp0 \in 0 .. Len(p)
  BY <1>2, <1>5, <1>7, ReachedType
<1>9. Reached(p, q \o w) = Reached(p, Prefix(p, Reached(p, q \o x)) \o y)
  BY <1>1, <1>4, <1>5, ReachedInTwo
<1>10. Reached(p, w) = Reached(p, Prefix(p, Reached(p, x)) \o y)
  <2>1. Reached(p, <<>> \o w)
            = Reached(p, Prefix(p, Reached(p, <<>> \o SubSeq(w, 1, d))) \o SubSeq(w, d + 1, Len(w)))
    BY <1>1, <1>6, ReachedInTwo
  <2> QED
    BY <1>5, <1>6, <2>1
<1>11. f.kmpJ = f.kmp0 => After(p, v, s, t) = Plain(p, v, t)
  BY <1>2, <1>3, <1>9, <1>10
<1>12. ASSUME f.kmpJ = Len(p)
       PROVE  After(p, v, s, t) = Len(p)
  <2>1. OccursIn(p, q \o x)
    BY <1>2, <1>7, <1>12, ReachedAllOfIt
  <2>2. y \in Seq(Nat) /\ w = x \o y
    BY <1>1, PrefixAndRest DEF Prefix
  <2> HIDE DEF x, y
  <2>3. OccursIn(p, (q \o x) \o y)
    BY <1>7, <2>1, <2>2, OccursInMore
  <2>4. (q \o x) \o y = q \o w
    <3>1. x \in Seq(Nat)
      BY <1>5 DEF x
    <3>2. (q \o x) \o y = q \o (x \o y)
      BY <1>4, <2>2, <3>1, ConcatConcat, Zenon
    <3> QED
      BY <2>2, <3>2, Zenon
  <2>5. q \o w \in Seq(Nat)
    BY <1>1, <1>4, ConcatIs
  <2> QED
    BY <1>3, <2>3, <2>4, <2>5, ReachedAllOfIt
<1>13. ASSUME Len(w) = d
       PROVE  After(p, v, s, t) = f.kmpJ /\ Plain(p, v, t) = f.kmp0
  <2>1. x = w
    BY <1>1, <1>5, <1>13, SubSeqFull
  <2> QED
    BY <1>2, <1>3, <2>1
<1> QED
  BY <1>8, <1>11, <1>12, <1>13 DEF w, d

FrameSet == [begin : Nat, last : Nat, depth : Nat, kmpJ : Nat, kmp0 : Nat]

\* What reading a byte makes of where bytes lead, from state s.
LEMMA ReachesOn ==
    ASSUME pattern \in Seq(Nat), accept > 0, LinksExact(pattern, fail, accept),
           NEW s \in 0 .. accept, NEW w \in Seq(Nat), NEW d \in 0 .. Len(w) - 1,
           NEW x \in Seq(Nat), Prefix(w, d) = x
    PROVE  /\ StepByte(Reached(pattern, Prefix(pattern, s) \o x), w[d + 1])
                = Reached(pattern, Prefix(pattern, s) \o Prefix(w, d + 1))
           /\ StepByte(Reached(pattern, x), w[d + 1]) = Reached(pattern, Prefix(w, d + 1))
           /\ Reached(pattern, Prefix(pattern, s) \o Prefix(w, d + 1)) \in 0 .. accept
           /\ Reached(pattern, Prefix(w, d + 1)) \in 0 .. accept
<1> DEFINE p == pattern
           q == Prefix(p, s)
           b == w[d + 1]
           y == Prefix(w, d + 1)
<1>0. accept = Len(p)
  BY DEF accept
<1>1. q \in Seq(Nat)
  BY <1>0, PrefixIs DEF Prefix
<1>2. <<>> \in Seq(Nat) /\ <<>> \o x = x
  BY NothingIs
<1>3. d + 1 \in 0 .. Len(w)
  OBVIOUS
<1>4. y \in Seq(Nat)
  BY <1>3, PrefixIs DEF Prefix
<1>5. <<>> \o y = y
  BY <1>4, NothingIs
<1>6. q \o x \in Seq(Nat) /\ b \in Nat /\ q \o y = Append(q \o x, b)
  <2>1. q \o SubSeq(w, 1, d) \in Seq(Nat) /\ w[d + 1] \in Nat
        /\ q \o SubSeq(w, 1, d + 1) = Append(q \o SubSeq(w, 1, d), w[d + 1])
    BY <1>1, ConcatByByte
  <2> QED
    BY <2>1 DEF Prefix
<1>7. y = Append(x, b)
  <2>1. <<>> \o SubSeq(w, 1, d + 1) = Append(<<>> \o SubSeq(w, 1, d), w[d + 1])
    BY <1>2, ConcatByByte
  <2> QED
    BY <1>2, <1>5, <2>1 DEF Prefix
<1> HIDE DEF q, b, y
<1>8. ASSUME NEW z \in Seq(Nat)
      PROVE  /\ StepByte(Reached(p, z), b) = Reached(p, Append(z, b))
             /\ Reached(p, Append(z, b)) \in 0 .. accept
  <2>1. Reached(p, z) \in 0 .. accept
    BY <1>0, ReachedType
  <2>2. StepByte(Reached(p, z), b) = Reached(p, Append(Prefix(p, Reached(p, z)), b))
    BY <1>6, <2>1, StepByteIs
  <2>3. Reached(p, Append(z, b)) = Reached(p, Append(Prefix(p, Reached(p, z)), b))
    BY <1>0, <1>6, ReachedByByte
  <2>4. Append(z, b) \in Seq(Nat)
    BY <1>6
  <2>5. Reached(p, Append(z, b)) \in 0 .. accept
    BY <1>0, <2>4, ReachedType
  <2> QED
    BY <2>2, <2>3, <2>5
<1>9. /\ StepByte(Reached(p, q \o x), b) = Reached(p, q \o y)
      /\ Reached(p, q \o y) \in 0 .. accept
  BY <1>6, <1>8
<1>10. /\ StepByte(Reached(p, x), b) = Reached(p, y)
       /\ Reached(p, y) \in 0 .. accept
  BY <1>7, <1>8
<1> QED
  BY <1>9, <1>10 DEF q, b, y

\* The longer tokens of a frame with one next byte.
WithNext(f, b) == {t \in FirstLonger(f) .. f.last : vocab[t + 1][f.depth + 1] = b}

\* The call for them.
LEMMA ChildExact ==
    ASSUME vocab \in Seq(Token), Sorted(vocab), pattern \in Seq(Nat), accept > 0,
           LinksExact(pattern, fail, accept), NEW s \in 0 .. accept,
           NEW f, FrameExact(f, pattern, vocab, s), NEW b,
           NEW S, S = WithNext(f, b), S # {}
    PROVE  LET g == Frame(RangeOf(S), f.depth + 1, StepByte(f.kmpJ, b), StepByte(f.kmp0, b))
           IN  g \in FrameSet /\ FrameExact(g, pattern, vocab, s) /\ S = g.begin .. g.last
<1> DEFINE d == f.depth
           upper == f.last
           R == FirstLonger(f) .. upper
           r == RangeOf(S)
           g == Frame(r, d + 1, StepByte(f.kmpJ, b), StepByte(f.kmp0, b))
           u == r.begin
           w == vocab[u + 1]
           x == Prefix(vocab[f.begin + 1], d)
<1>1. /\ FirstLonger(f) \in Nat /\ f.begin <= FirstLonger(f) /\ FirstLonger(f) <= upper + 1
      /\ f.begin \in Nat /\ upper \in Nat
      /\ \A t \in R : Len(vocab[t + 1]) > d
  BY FirstLongerIs
<1>2. d \in Nat /\ d >= 1 /\ f.begin \in Ids(vocab) /\ upper \in Ids(vocab) /\ f.begin <= upper
      /\ f.kmpJ = Reached(pattern, Prefix(pattern, s) \o x) /\ f.kmp0 = Reached(pattern, x)
  BY DEF FrameExact
<1>3. \A t \in R : t \in f.begin .. upper
  BY <1>1
<1>4. \A t \in R : /\ t \in Ids(vocab) /\ vocab[t + 1] \in Seq(Nat) /\ d \in 0 .. Len(vocab[t + 1])
                   /\ Prefix(vocab[t + 1], d) = x
                   /\ \A z \in R : Share(vocab, t, z, d)
  BY <1>3, FrameTokens
<1>5. \A t \in R : Len(vocab[t + 1]) \in Nat
  BY <1>4, TokensAre
<1>6. S = {t \in R : vocab[t + 1][d + 1] = b}
  BY DEF WithNext
<1>7. \A t, z \in R : t \in Nat /\ (t <= z => \A y \in 0 .. upper : t <= y /\ y <= z => y \in R)
  BY <1>1
<1> HIDE DEF d, R, x
<1>8. ASSUME NEW t \in R
      PROVE  /\ vocab[t + 1] \in Seq(Nat) /\ Len(vocab[t + 1]) \in Nat /\ Len(vocab[t + 1]) >= d + 1
             /\ vocab[t + 1][d + 1] \in Nat
  <2>1. vocab[t + 1] \in Seq(Nat) /\ Len(vocab[t + 1]) \in Nat /\ Len(vocab[t + 1]) > d
    BY <1>1, <1>4, <1>5
  <2> DEFINE y == vocab[t + 1]
  <2> HIDE DEF y
  <2>2. y \in Seq(Nat) /\ Len(y) \in Nat /\ Len(y) > d
    BY <2>1 DEF y
  <2>3. d + 1 \in 1 .. Len(y)
    BY <1>2, <2>2
  <2>4. y[d + 1] \in Nat
    BY <2>2, <2>3, ElementOfSeq
  <2>5. Len(y) >= d + 1
    BY <1>2, <2>2
  <2> QED
    BY <2>2, <2>4, <2>5 DEF y
<1>9. S \in SUBSET (0 .. upper)
  BY <1>1, <1>6 DEF R
<1>10. ASSUME NEW t \in S, NEW z \in S, NEW y \in 0 .. upper, t <= y, y <= z
       PROVE  y \in S
  <2>1. t \in R /\ z \in R /\ vocab[t + 1][d + 1] = b /\ vocab[z + 1][d + 1] = b
    BY <1>6
  <2>2. y \in R
    <3>1. t <= z
      BY <1>7, <1>10, <2>1
    <3> QED
      BY <1>7, <1>10, <2>1, <3>1
  <2>3. ASSUME NEW j \in R, NEW h \in R, j <= h
        PROVE  vocab[j + 1][d + 1] <= vocab[h + 1][d + 1]
    <3>1. CASE j = h
      <4>1. vocab[j + 1][d + 1] \in Nat
        BY <1>8
      <4> QED
        BY <3>1, <4>1
    <3>2. CASE j # h
      <4>1. j < h
        BY <1>7, <2>3, <3>2
      <4>2. j \in Ids(vocab) /\ h \in Ids(vocab) /\ Share(vocab, j, h, d) /\ Len(vocab[j + 1]) > d
        BY <1>1, <1>4
      <4> QED
        BY <1>2, <4>1, <4>2, SortedNext
    <3> QED
      BY <3>1, <3>2
  <2>4. vocab[t + 1][d + 1] <= vocab[y + 1][d + 1] /\ vocab[y + 1][d + 1] <= vocab[z + 1][d + 1]
    BY <1>10, <2>1, <2>2, <2>3
  <2>5. vocab[y + 1][d + 1] \in Nat /\ vocab[t + 1][d + 1] \in Nat
    BY <1>8, <2>1, <2>2
  <2>6. vocab[y + 1][d + 1] = b
    BY <2>1, <2>4, <2>5
  <2> QED
    BY <1>6, <2>2, <2>6
<1>11. /\ r.begin \in S /\ r.last \in S /\ r.begin <= r.last /\ S = r.begin .. r.last
  <2> HIDE DEF r
  <2>1. S # {}
    OBVIOUS
  <2>2. \A t, z \in S, y \in 0 .. upper : t <= y /\ y <= z => y \in S
    BY <1>10
  <2> QED
    BY <1>1, <1>9, <2>1, <2>2, RangeOfIs DEF r
<1>12. /\ g.begin = r.begin /\ g.last = r.last /\ g.depth = d + 1
       /\ g.kmpJ = StepByte(f.kmpJ, b) /\ g.kmp0 = StepByte(f.kmp0, b)
       /\ g = [begin |-> r.begin, last |-> r.last, depth |-> d + 1,
               kmpJ |-> StepByte(f.kmpJ, b), kmp0 |-> StepByte(f.kmp0, b)]
  BY DEF Frame
<1> HIDE DEF r, g
<1>13. \A t \in S : t \in R /\ vocab[t + 1][d + 1] = b
  BY <1>6
<1> HIDE DEF u
<1>14. u \in R /\ w[d + 1] = b
  BY <1>11, <1>13 DEF u
<1> HIDE DEF w
<1>15. /\ w \in Seq(Nat) /\ Len(w) \in Nat /\ Len(w) >= d + 1
       /\ Prefix(w, d) = x
  BY <1>4, <1>8, <1>14 DEF w
<1>16. w \in Seq(Nat) /\ d \in 0 .. Len(w) - 1 /\ Prefix(w, d) = x /\ Len(w) \in Nat
  BY <1>2, <1>15
<1>17. x \in Seq(Nat)
  <2>1. d \in 0 .. Len(w)
    BY <1>16
  <2> QED
    BY <1>16, <2>1, PrefixIs DEF Prefix
<1>18. /\ StepByte(Reached(pattern, Prefix(pattern, s) \o x), w[d + 1])
                = Reached(pattern, Prefix(pattern, s) \o Prefix(w, d + 1))
       /\ StepByte(Reached(pattern, x), w[d + 1]) = Reached(pattern, Prefix(w, d + 1))
       /\ Reached(pattern, Prefix(pattern, s) \o Prefix(w, d + 1)) \in 0 .. accept
       /\ Reached(pattern, Prefix(w, d + 1)) \in 0 .. accept
  BY <1>16, <1>17, ReachesOn
<1>19. /\ g.kmpJ = Reached(pattern, Prefix(pattern, s) \o Prefix(w, d + 1))
       /\ g.kmp0 = Reached(pattern, Prefix(w, d + 1))
       /\ g.kmpJ \in 0 .. accept /\ g.kmp0 \in 0 .. accept
  BY <1>2, <1>12, <1>14, <1>18
<1>20. ASSUME NEW t \in S
       PROVE  Len(vocab[t + 1]) >= d + 1 /\ Prefix(vocab[t + 1], d + 1) = Prefix(w, d + 1)
  <2> DEFINE y == vocab[t + 1]
  <2>1. t \in R /\ u \in R /\ y[d + 1] = b
    BY <1>13, <1>14
  <2>2. y \in Seq(Nat) /\ Len(y) \in Nat /\ Len(y) >= d + 1
    BY <1>8, <2>1
  <2>3. Prefix(y, d) = Prefix(w, d)
    BY <1>4, <1>16, <2>1
  <2> HIDE DEF y
  <2>4. w \in Seq(Nat) /\ Len(w) \in Nat /\ Len(w) >= d + 1
    BY <1>15
  <2>5. \A j \in 1 .. d : y[j] = w[j]
    <3>1. d <= Len(y) /\ d <= Len(w)
      BY ONLY <1>2, <2>4, <2>2, SMT
    <3> QED
      BY <1>2, <2>4, <2>2, <2>3, <3>1, SamePrefix
  <2>6. \A j \in 1 .. d + 1 : y[j] = w[j]
    <3>1. \A j \in 1 .. d + 1 : j \in 1 .. d \/ j = d + 1
      BY <1>2
    <3> QED
      BY <1>14, <2>1, <2>5, <3>1
  <2>7. d + 1 \in Nat /\ d + 1 <= Len(y) /\ d + 1 <= Len(w)
    BY <1>2, <1>16, <2>2
  <2>8. Prefix(y, d + 1) = Prefix(w, d + 1)
    BY <1>16, <2>2, <2>6, <2>7, SamePrefix
  <2> QED
    BY <2>2, <2>8 DEF y
<1>21. r.begin \in Ids(vocab) /\ r.last \in Ids(vocab) /\ r.begin \in Nat /\ r.last \in Nat
  <2>1. r.begin \in R /\ r.last \in R
    BY <1>11, <1>13
  <2>2. r.begin \in Ids(vocab) /\ r.last \in Ids(vocab)
    BY <1>4, <2>1
  <2> QED
    BY <2>2, TokensAre
<1>22. g \in FrameSet
  <2>1. d + 1 \in Nat /\ g.kmpJ \in Nat /\ g.kmp0 \in Nat
    BY <1>2, <1>19 DEF accept
  <2> QED
    BY <1>12, <1>21, <2>1 DEF FrameSet
<1>23. FrameExact(g, pattern, vocab, s)
  <2>1. g.depth \in Nat /\ g.depth >= 1
    BY <1>2, <1>12
  <2>2. \A t \in g.begin .. g.last : t \in S
    BY <1>11, <1>12
  <2>3. vocab[g.begin + 1] = w
    BY <1>12 DEF w, u
  <2> QED
    BY <1>11, <1>12, <1>19, <1>20, <1>21, <2>1, <2>2, <2>3 DEF FrameExact
<1>24. S = g.begin .. g.last
  BY <1>11, <1>12
<1> QED
  BY <1>22, <1>23, <1>24 DEF g, r, d

\* The calls for the longer tokens of a frame.
Splits(f, c, p, v, s, start) ==
    /\ c \in Seq(FrameSet)
    /\ \A a \in 1 .. Len(c) :
        FrameExact(c[a], p, v, s) /\ start <= c[a].begin /\ c[a].last <= f.last
    /\ \A a, b \in 1 .. Len(c) : a < b => c[a].last < c[b].begin
    /\ \A t \in start .. f.last : \E a \in 1 .. Len(c) : t \in c[a].begin .. c[a].last

\* The calls for the longer tokens split them by their next byte, in order.
LEMMA ChildrenAre ==
    ASSUME vocab \in Seq(Token), Sorted(vocab), pattern \in Seq(Nat), accept > 0,
           LinksExact(pattern, fail, accept), NEW s \in 0 .. accept,
           NEW f, FrameExact(f, pattern, vocab, s)
    PROVE  Splits(f, Children(f), pattern, vocab, s, FirstLonger(f))
<1> DEFINE d == f.depth
           lower == FirstLonger(f)
           upper == f.last
           R == lower .. upper
           next(t) == vocab[t + 1][d + 1]
           Of(b) == {t \in R : next(t) = b}
           child(b) == Frame(RangeOf(Of(b)), d + 1, StepByte(f.kmpJ, b), StepByte(f.kmp0, b))
           B == {next(t) : t \in R}
           order == InAscendingOrder(B)
           c == Children(f)
<1>1. c = [n \in 1 .. Len(order) |-> child(order[n])]
  BY DEF Children
<1>2. /\ lower \in Nat /\ f.begin <= lower /\ lower <= upper + 1 /\ f.begin \in Nat /\ upper \in Nat
      /\ \A t \in R : Len(vocab[t + 1]) > d
  BY FirstLongerIs
<1>3. d \in Nat
  BY DEF FrameExact
<1>4. \A y \in f.begin .. upper : y \in Ids(vocab) /\ \A u \in f.begin .. upper : Share(vocab, y, u, d)
  BY FrameTokens
<1>5. \A y \in R : y \in f.begin .. upper
  BY <1>2
<1> HIDE DEF R, d, upper, lower
<1>6. ASSUME NEW t \in R
      PROVE  /\ t \in Ids(vocab) /\ next(t) \in 0 .. NumBytes /\ t \in Nat
             /\ \A z \in R : Share(vocab, t, z, d)
  <2>2. t \in Ids(vocab) /\ \A z \in R : Share(vocab, t, z, d)
    BY <1>4, <1>5
  <2> DEFINE y == vocab[t + 1]
  <2>3. y \in Seq(Byte) /\ Len(y) \in Nat /\ t \in Nat
    BY <2>2, TokensAre
  <2>4. Len(y) > d
    BY <1>2
  <2> HIDE DEF y
  <2>5. d + 1 \in 1 .. Len(y)
    BY <1>3, <2>3, <2>4
  <2>6. y[d + 1] \in Byte
    BY <2>3, <2>5, ElementOfSeq
  <2>7. y[d + 1] \in 0 .. NumBytes
    BY <2>6, BytesAssumption DEF Byte
  <2> QED
    BY <2>2, <2>3, <2>7 DEF y
<1>7. \A b \in B : Of(b) # {}
  OBVIOUS
<1>8. ASSUME NEW b \in B
      PROVE  /\ child(b) \in FrameSet /\ FrameExact(child(b), pattern, vocab, s)
             /\ Of(b) = child(b).begin .. child(b).last
  <2> DEFINE S == Of(b)
  <2>1. S = WithNext(f, b)
    BY DEF R, d, upper, lower, WithNext
  <2>2. S # {}
    BY <1>7
  <2> HIDE DEF S
  <2>3. LET g == Frame(RangeOf(S), f.depth + 1, StepByte(f.kmpJ, b), StepByte(f.kmp0, b))
        IN  g \in FrameSet /\ FrameExact(g, pattern, vocab, s) /\ S = g.begin .. g.last
    BY <2>1, <2>2, ChildExact
  <2> QED
    BY <2>3 DEF S, d
<1> HIDE DEF child
<1>9. B \in SUBSET (0 .. NumBytes) /\ NumBytes \in Nat
  BY <1>6, BytesAssumption
<1> HIDE DEF B, order
<1>10. /\ order \in Seq(B) /\ Len(order) \in Nat
       /\ \A m, n \in 1 .. Len(order) : m < n => order[m] < order[n]
       /\ \A x \in B : \E m \in 1 .. Len(order) : order[m] = x
  BY <1>9, OrderIs DEF order
<1> HIDE DEF c
<1>11. \A n \in 1 .. Len(order) : order[n] \in B
  BY <1>10
<1>12. c \in Seq(FrameSet) /\ Len(c) = Len(order) /\ \A n \in 1 .. Len(order) : c[n] = child(order[n])
  <2>1. \A n \in 1 .. Len(order) : child(order[n]) \in FrameSet
    BY <1>8, <1>11
  <2> DEFINE F == FrameSet
             N == Len(order)
  <2> HIDE DEF F, N
  <2>2. c \in [1 .. N -> F]
    <3>1. \A n \in 1 .. N : child(order[n]) \in F
      BY <2>1 DEF F, N
    <3> QED
      BY <1>1, <3>1, Zenon DEF N
  <2>3. c \in Seq(F) /\ Len(c) = N
    <3>1. N \in Nat
      BY <1>10 DEF N
    <3> QED
      BY ONLY <2>2, <3>1, SMT
  <2> QED
    BY <1>1, <2>3 DEF F, N
<1>13. ASSUME NEW a \in 1 .. Len(c)
       PROVE  /\ FrameExact(c[a], pattern, vocab, s)
              /\ Of(order[a]) = c[a].begin .. c[a].last
              /\ c[a].begin \in Nat /\ c[a].last \in Nat /\ c[a].begin <= c[a].last
  <2>1. /\ FrameExact(c[a], pattern, vocab, s)
        /\ Of(order[a]) = c[a].begin .. c[a].last
    BY <1>8, <1>11, <1>12
  <2>2. c[a] \in FrameSet
    BY <1>12, ElementOfSeq
  <2>3. c[a].begin \in Nat /\ c[a].last \in Nat
    BY <2>2 DEF FrameSet
  <2>4. c[a].begin <= c[a].last
    BY <2>1 DEF FrameExact
  <2> QED
    BY <2>1, <2>3, <2>4
<1>14. ASSUME NEW a \in 1 .. Len(c)
       PROVE  /\ c[a].begin \in R /\ c[a].last \in R
              /\ next(c[a].begin) = order[a] /\ next(c[a].last) = order[a]
  <2>1. c[a].begin \in c[a].begin .. c[a].last /\ c[a].last \in c[a].begin .. c[a].last
    BY <1>13
  <2>2. c[a].begin \in Of(order[a]) /\ c[a].last \in Of(order[a])
    BY <1>13, <2>1
  <2> QED
    BY <2>2
<1>15. ASSUME NEW a \in 1 .. Len(c)
       PROVE  lower <= c[a].begin /\ c[a].last <= upper
  BY <1>2, <1>14 DEF R
<1>16. ASSUME NEW a \in 1 .. Len(c), NEW b \in 1 .. Len(c), a < b
       PROVE  c[a].last < c[b].begin
  <2> DEFINE x == c[a].last
             y == c[b].begin
             m == next(x)
             n == next(y)
  <2>1. x \in R /\ y \in R /\ m = order[a] /\ n = order[b]
    BY <1>14
  <2>2. m \in 0 .. NumBytes /\ n \in 0 .. NumBytes /\ x \in Nat /\ y \in Nat
        /\ x \in Ids(vocab) /\ y \in Ids(vocab) /\ Share(vocab, y, x, d)
    <3> HIDE DEF x, y
    <3> QED
      BY <1>6, <2>1
  <2>3. Len(vocab[y + 1]) > d /\ m = vocab[x + 1][d + 1] /\ n = vocab[y + 1][d + 1]
    BY <1>2, <2>1
  <2> HIDE DEF x, y, m, n
  <2>4. m < n
    BY <1>10, <1>12, <1>16, <2>1
  <2>5. SUFFICES ASSUME ~(x < y) PROVE FALSE
    BY DEF x, y
  <2>6. x # y
    BY <1>9, <2>2, <2>3, <2>4
  <2>7. y < x
    BY <2>2, <2>5, <2>6
  <2>8. n <= m
    BY <1>3, <2>2, <2>3, <2>7, SortedNext
  <2> QED
    BY <1>9, <2>2, <2>4, <2>8
<1>17. ASSUME NEW t \in R
       PROVE  \E a \in 1 .. Len(c) : t \in c[a].begin .. c[a].last
  <2>1. next(t) \in B
    BY DEF B
  <2>2. PICK a \in 1 .. Len(order) : order[a] = next(t)
    BY <1>10, <2>1
  <2>3. t \in Of(order[a])
    BY <2>2
  <2>4. a \in 1 .. Len(c)
    BY <1>12
  <2> QED
    BY <1>13, <2>3, <2>4
<1> QED
  BY <1>12, <1>13, <1>15, <1>16, <1>17 DEF Splits, c, lower, upper, R

-----------------------------------------------------------------------------
(***************************************************************************)
(* One call of traverse.                                                   *)
(***************************************************************************)

\* The tokens of no pending call and of no byte that is left.
Settled(v, st, rest) ==
    {t \in Ids(v) :
        /\ \A a \in 1 .. Len(st) : t \notin st[a].begin .. st[a].last
        /\ \A a \in 1 .. Len(rest) : v[t + 1][1] # rest[a]}

\* The calls that are pending and the bytes that are left are in the order of the
\* dictionary, behind the exceptions of the state, which are exact for all other tokens.
Pending(v, p, s, ex, low, st, rest) ==
    /\ st \in Seq(FrameSet) /\ \A a \in 1 .. Len(st) : FrameExact(st[a], p, v, s)
    /\ \A a, b \in 1 .. Len(rest) : a < b => rest[a] < rest[b]
    /\ \A a, b \in 1 .. Len(st) : a < b => st[a].last < st[b].begin
    /\ \A n \in low + 1 .. Len(ex), a \in 1 .. Len(st) : ex[n].last < st[a].begin
    /\ \A a \in 1 .. Len(st), b \in 1 .. Len(rest) : v[st[a].last + 1][1] < rest[b]
    /\ \A n \in low + 1 .. Len(ex), b \in 1 .. Len(rest) : v[ex[n].last + 1][1] < rest[b]
    /\ SliceExact(ex, low, Len(ex), p, v, s, Settled(v, st, rest))

\* The calls c have taken the place of the first one of st.
HeadReplaced(st, c, z) ==
    /\ Len(c) \in Nat /\ Len(st) \in Nat /\ 1 \in 1 .. Len(st)
    /\ Head(st) = st[1] /\ Len(z) = Len(c) + Len(st) - 1
    /\ \A a \in 1 .. Len(c) : a \in 1 .. Len(z) /\ z[a] = c[a]
    /\ \A a \in 2 .. Len(st) : a - 1 + Len(c) \in 1 .. Len(z) /\ z[a - 1 + Len(c)] = st[a]
    /\ \A a \in 1 .. Len(z) :
        \/ a \in 1 .. Len(c)
        \/ /\ a > Len(c) /\ a - Len(c) + 1 \in 2 .. Len(st)
           /\ a - Len(c) + 1 \in 1 .. Len(st) /\ z[a] = st[a - Len(c) + 1]

\* The calls that take the place of the one on top.
LEMMA ReplaceHead ==
    ASSUME NEW S, NEW st \in Seq(S), st # <<>>, NEW c \in Seq(S)
    PROVE  c \o Tail(st) \in Seq(S) /\ HeadReplaced(st, c, c \o Tail(st))
<1> DEFINE z == c \o Tail(st)
           T == Tail(st)
<1>1. Len(st) \in Nat /\ Len(c) \in Nat /\ Len(st) >= 1 /\ Head(st) = st[1]
  OBVIOUS
<1>2. T \in Seq(S) /\ Len(T) = Len(st) - 1 /\ \A a \in 1 .. Len(T) : T[a] = st[a + 1]
  OBVIOUS
<1> HIDE DEF T
<1>3. z = c \o T
  BY DEF T
<1>4. /\ z \in Seq(S) /\ Len(z) = Len(c) + Len(T)
      /\ \A a \in 1 .. Len(c) + Len(T) : z[a] = IF a <= Len(c) THEN c[a] ELSE T[a - Len(c)]
  BY <1>2, <1>3
<1> HIDE DEF z
<1>5. \A a \in 1 .. Len(c) : a \in 1 .. Len(z) /\ z[a] = c[a]
  BY <1>1, <1>2, <1>4
<1>6. ASSUME NEW a \in 2 .. Len(st)
      PROVE  a - 1 + Len(c) \in 1 .. Len(z) /\ z[a - 1 + Len(c)] = st[a]
  <2> DEFINE b == a - 1 + Len(c)
  <2>1. b \in 1 .. Len(c) + Len(T) /\ ~(b <= Len(c)) /\ b - Len(c) = a - 1 /\ a - 1 \in 1 .. Len(T)
        /\ (a - 1) + 1 = a
    BY <1>1, <1>2
  <2> HIDE DEF b
  <2>2. z[b] = T[a - 1] /\ T[a - 1] = st[a]
    BY <1>2, <1>4, <2>1
  <2> QED
    BY <1>4, <2>1, <2>2 DEF b
<1>7. ASSUME NEW a \in 1 .. Len(z), a \notin 1 .. Len(c)
      PROVE  /\ a > Len(c) /\ a - Len(c) + 1 \in 2 .. Len(st)
             /\ a - Len(c) + 1 \in 1 .. Len(st) /\ z[a] = st[a - Len(c) + 1]
  <2>1. a \in 1 .. Len(c) + Len(T) /\ ~(a <= Len(c)) /\ a > Len(c) /\ a - Len(c) \in 1 .. Len(T)
        /\ a - Len(c) + 1 \in 2 .. Len(st) /\ a - Len(c) + 1 \in 1 .. Len(st)
    BY <1>1, <1>2, <1>4, <1>7
  <2> QED
    BY <1>2, <1>4, <2>1
<1>8. 1 \in 1 .. Len(st) /\ Len(z) = Len(c) + Len(st) - 1
  BY <1>1, <1>2, <1>4
<1> QED
  BY <1>1, <1>4, <1>5, <1>6, <1>7, <1>8 DEF z, HeadReplaced

\* A call is done, calls c take its place, and the exceptions e are exact for D as well,
\* which holds all of its tokens that are exceptions and are not those of c.
LEMMA PendingStep ==
    ASSUME NEW v, Len(v) \in Nat, NEW p, NEW s, NEW ex, NEW low, NEW st, NEW rest,
           Pending(v, p, s, ex, low, st, rest), st # <<>>,
           \A a \in 1 .. Len(st) : \A t \in st[a].begin .. st[a].last :
                \A b \in 1 .. Len(rest) : v[t + 1][1] < rest[b],
           \A n \in low + 1 .. Len(ex) : ex[n].last \in Nat,
           NEW f, f = Head(st), NEW c \in Seq(FrameSet),
           \A a \in 1 .. Len(c) :
                FrameExact(c[a], p, v, s) /\ f.begin <= c[a].begin /\ c[a].last <= f.last,
           \A a, b \in 1 .. Len(c) : a < b => c[a].last < c[b].begin,
           NEW e, NEW D, SliceExact(e, low, Len(e), p, v, s, Settled(v, st, rest) \cup D),
           \A t \in f.begin .. f.last : \/ t \in D \/ After(p, v, s, t) = Plain(p, v, t)
                                        \/ \E a \in 1 .. Len(c) : t \in c[a].begin .. c[a].last,
           \A n \in low + 1 .. Len(e) :
                \/ \E m \in low + 1 .. Len(ex) : e[n].last = ex[m].last
                \/ /\ e[n].last \in f.begin .. f.last
                   /\ \A a \in 1 .. Len(c) : e[n].last < c[a].begin
    PROVE  Pending(v, p, s, e, low, c \o Tail(st), rest)
<1> DEFINE z == c \o Tail(st)
<1>1. /\ st \in Seq(FrameSet) /\ \A a \in 1 .. Len(st) : FrameExact(st[a], p, v, s)
      /\ \A a, b \in 1 .. Len(rest) : a < b => rest[a] < rest[b]
      /\ \A a, b \in 1 .. Len(st) : a < b => st[a].last < st[b].begin
      /\ \A n \in low + 1 .. Len(ex), a \in 1 .. Len(st) : ex[n].last < st[a].begin
      /\ \A a \in 1 .. Len(st), b \in 1 .. Len(rest) : v[st[a].last + 1][1] < rest[b]
      /\ \A n \in low + 1 .. Len(ex), b \in 1 .. Len(rest) : v[ex[n].last + 1][1] < rest[b]
  BY DEF Pending
<1>2. z \in Seq(FrameSet) /\ HeadReplaced(st, c, z)
  <2> DEFINE F == FrameSet
  <2> HIDE DEF F
  <2>1. st \in Seq(F) /\ c \in Seq(F)
    BY <1>1 DEF F
  <2>2. c \o Tail(st) \in Seq(F) /\ HeadReplaced(st, c, c \o Tail(st))
    BY <2>1, ReplaceHead
  <2> QED
    BY <2>2 DEF F
<1> HIDE DEF z
<1>3. /\ z \in Seq(FrameSet) /\ Len(c) \in Nat /\ Len(st) \in Nat /\ 1 \in 1 .. Len(st)
      /\ f = st[1] /\ Len(z) = Len(c) + Len(st) - 1
      /\ \A a \in 1 .. Len(c) : a \in 1 .. Len(z) /\ z[a] = c[a]
      /\ \A a \in 2 .. Len(st) : a - 1 + Len(c) \in 1 .. Len(z) /\ z[a - 1 + Len(c)] = st[a]
      /\ \A a \in 1 .. Len(z) :
            \/ a \in 1 .. Len(c)
            \/ /\ a > Len(c) /\ a - Len(c) + 1 \in 2 .. Len(st)
               /\ a - Len(c) + 1 \in 1 .. Len(st) /\ z[a] = st[a - Len(c) + 1]
  BY <1>2 DEF HeadReplaced
<1>4. /\ \A a \in 1 .. Len(st) : st[a] \in FrameSet
      /\ \A a \in 1 .. Len(c) : c[a] \in FrameSet
  BY <1>1, ElementOfSeq
<1>5. /\ \A a \in 1 .. Len(st) : /\ st[a].begin \in Nat /\ st[a].last \in Nat
                                 /\ st[a].begin <= st[a].last
      /\ \A a \in 1 .. Len(c) : /\ c[a].begin \in Nat /\ c[a].last \in Nat
                                /\ c[a].begin <= c[a].last
  <2>1. \A g \in FrameSet : g.begin \in Nat /\ g.last \in Nat
    BY DEF FrameSet
  <2>2. \A a \in 1 .. Len(st) : st[a].begin <= st[a].last
    BY <1>1 DEF FrameExact
  <2>3. \A a \in 1 .. Len(c) : c[a].begin <= c[a].last
    BY DEF FrameExact
  <2> QED
    BY <1>4, <2>1, <2>2, <2>3
\* The calls of z are some of c or, behind them, some of the other old ones.
<1>6. ASSUME NEW a \in 1 .. Len(z), a \notin 1 .. Len(c)
      PROVE  \E h \in 2 .. Len(st) : h = a - Len(c) + 1 /\ h \in 1 .. Len(st) /\ z[a] = st[h]
  BY <1>3, <1>6
<1>7. ASSUME NEW h \in 2 .. Len(st), NEW a \in 1 .. Len(c)
      PROVE  /\ f.last < st[h].begin /\ c[a].last < st[h].begin
             /\ \A x \in f.begin .. f.last : x < st[h].begin
  <2>1. 1 < h /\ h \in 1 .. Len(st) /\ 1 \in 1 .. Len(st)
    BY <1>3
  <2>2. f.last < st[h].begin
    BY <1>1, <1>3, <2>1
  <2>3. f.last \in Nat /\ st[h].begin \in Nat /\ c[a].last \in Nat /\ c[a].last <= f.last
        /\ f.begin \in Nat
    BY <1>3, <1>5, <2>1
  <2> QED
    BY <2>2, <2>3
<1>8. ASSUME NEW h \in 2 .. Len(st)
      PROVE  f.last < st[h].begin /\ \A x \in f.begin .. f.last : x < st[h].begin
  <2>1. 1 < h /\ h \in 1 .. Len(st) /\ 1 \in 1 .. Len(st)
    BY <1>3
  <2>2. f.last < st[h].begin
    BY <1>1, <1>3, <2>1
  <2>3. f.last \in Nat /\ st[h].begin \in Nat /\ f.begin \in Nat
    BY <1>3, <1>5, <2>1
  <2> QED
    BY <2>2, <2>3
<1>9. \A a \in 1 .. Len(z) : FrameExact(z[a], p, v, s)
  BY <1>1, <1>3, <1>6
<1>10. ASSUME NEW a \in 1 .. Len(z), NEW b \in 1 .. Len(z), a < b
       PROVE  z[a].last < z[b].begin
  <2>1. CASE a \in 1 .. Len(c) /\ b \in 1 .. Len(c)
    BY <1>3, <1>10, <2>1
  <2>2. CASE a \in 1 .. Len(c) /\ b \notin 1 .. Len(c)
    BY <1>3, <1>6, <1>7, <2>2
  <2>3. CASE a \notin 1 .. Len(c)
    <3>1. b \notin 1 .. Len(c)
      BY <1>3, <1>10, <2>3
    <3>2. PICK j \in 2 .. Len(st) : j = a - Len(c) + 1 /\ j \in 1 .. Len(st) /\ z[a] = st[j]
      BY <1>6, <2>3
    <3>3. PICK h \in 2 .. Len(st) : h = b - Len(c) + 1 /\ h \in 1 .. Len(st) /\ z[b] = st[h]
      BY <1>6, <3>1
    <3>4. j < h
      BY <1>3, <1>10, <3>2, <3>3
    <3> QED
      BY <1>1, <3>2, <3>3, <3>4
  <2> QED
    BY <2>1, <2>2, <2>3
<1>11. ASSUME NEW n \in low + 1 .. Len(e), NEW a \in 1 .. Len(z)
       PROVE  e[n].last < z[a].begin
  <2>1. CASE \E m \in low + 1 .. Len(ex) : e[n].last = ex[m].last
    <3>1. PICK m \in low + 1 .. Len(ex) : e[n].last = ex[m].last
      BY <2>1
    <3>2. CASE a \in 1 .. Len(c)
      <4>1. ex[m].last < f.begin
        BY <1>1, <1>3
      <4>2. f.begin <= c[a].begin /\ c[a].begin \in Nat /\ f.begin \in Nat
        BY <1>3, <1>5, <3>2
      <4>3. e[n].last < c[a].begin
        <5>1. PICK x : x = ex[m].last /\ x < f.begin
          BY <4>1
        <5>2. x \in Nat
          BY <5>1
        <5> DEFINE y == c[a].begin
                   l == f.begin
        <5>3. x < l /\ l <= y /\ x \in Nat /\ y \in Nat /\ l \in Nat
          BY <4>2, <5>1, <5>2
        <5> HIDE DEF y, l
        <5>4. x < y
          BY ONLY <5>3, SMT
        <5> QED
          BY <3>1, <5>1, <5>4 DEF y
      <4> QED
        BY <1>3, <3>2, <4>3
    <3>3. CASE a \notin 1 .. Len(c)
      BY <1>1, <1>6, <3>1, <3>3
    <3> QED
      BY <3>2, <3>3
  <2>2. CASE /\ e[n].last \in f.begin .. f.last
             /\ \A b \in 1 .. Len(c) : e[n].last < c[b].begin
    <3>1. CASE a \in 1 .. Len(c)
      BY <1>3, <2>2, <3>1
    <3>2. CASE a \notin 1 .. Len(c)
      BY <1>6, <1>8, <2>2, <3>2
    <3> QED
      BY <3>1, <3>2
  <2> QED
    BY <2>1, <2>2
<1>12. ASSUME NEW a \in 1 .. Len(z), NEW b \in 1 .. Len(rest)
       PROVE  v[z[a].last + 1][1] < rest[b]
  <2>1. CASE a \in 1 .. Len(c)
    <3>1. c[a].last \in f.begin .. f.last
      <4>1. f.begin \in Nat /\ f.last \in Nat
        BY <1>3, <1>5
      <4>2. c[a].begin \in Nat /\ c[a].last \in Nat /\ c[a].begin <= c[a].last
        BY <1>5, <2>1
      <4>3. f.begin <= c[a].begin /\ c[a].last <= f.last
        BY <2>1
      <4> DEFINE x == c[a].begin
                 y == c[a].last
                 l == f.begin
                 u == f.last
      <4>4. l \in Nat /\ u \in Nat /\ x \in Nat /\ y \in Nat /\ x <= y /\ l <= x /\ y <= u
        BY <4>1, <4>2, <4>3
      <4> HIDE DEF x, y, l, u
      <4>5. y \in l .. u
        BY ONLY <4>4, SMT
      <4> QED
        BY <4>5 DEF y, l, u
    <3> QED
      BY <1>3, <2>1, <3>1
  <2>2. CASE a \notin 1 .. Len(c)
    BY <1>1, <1>6, <2>2
  <2> QED
    BY <2>1, <2>2
<1>13. ASSUME NEW n \in low + 1 .. Len(e), NEW b \in 1 .. Len(rest)
       PROVE  v[e[n].last + 1][1] < rest[b]
  <2>1. CASE \E m \in low + 1 .. Len(ex) : e[n].last = ex[m].last
    BY <1>1, <2>1
  <2>2. CASE e[n].last \in f.begin .. f.last
    BY <1>3, <2>2
  <2> QED
    BY <2>1, <2>2
<1>14. SliceExact(e, low, Len(e), p, v, s, Settled(v, z, rest))
  <2>1. ASSUME NEW t \in Settled(v, z, rest), After(p, v, s, t) # Plain(p, v, t)
        PROVE  t \in Settled(v, st, rest) \cup D
    <3>1. /\ t \in Ids(v) /\ \A a \in 1 .. Len(z) : t \notin z[a].begin .. z[a].last
          /\ \A a \in 1 .. Len(rest) : v[t + 1][1] # rest[a]
      BY DEF Settled
    <3>2. CASE t \in f.begin .. f.last
      <4>1. ~\E a \in 1 .. Len(c) : t \in c[a].begin .. c[a].last
        BY <1>3, <3>1
      <4> QED
        BY <2>1, <3>2, <4>1
    <3>3. CASE t \notin f.begin .. f.last
      <4>1. ASSUME NEW h \in 1 .. Len(st)
            PROVE  t \notin st[h].begin .. st[h].last
        <5>1. CASE h = 1
          BY <1>3, <3>3, <5>1
        <5>2. CASE h # 1
          <6>1. h \in 2 .. Len(st)
            BY <5>2
          <6> QED
            BY <1>3, <3>1, <6>1
        <5> QED
          BY <5>1, <5>2
      <4> QED
        BY <3>1, <4>1 DEF Settled
    <3> QED
      BY <3>2, <3>3
  <2> QED
    BY <2>1 DEF SliceExact
<1> QED
  BY <1>1, <1>3, <1>9, <1>10, <1>11, <1>12, <1>13, <1>14 DEF Pending, z

-----------------------------------------------------------------------------
(***************************************************************************)
(* The exceptions of a call for which the match is complete.               *)
(***************************************************************************)

Exceptions(v, q) == [begin : Ids(v), last : Ids(v), target : 0 .. q]

LEMMA ExceptionsAre ==
    ASSUME NEW v \in Seq(Token), NEW q \in Nat
    PROVE  /\ Exceptions(v, q) \in SUBSET [begin : Nat, last : Nat, target : Nat]
           /\ \A x \in Exceptions(v, q) :
                /\ x.begin \in Nat /\ x.last \in Nat /\ x.target \in Nat
                /\ x.begin \in Ids(v) /\ x.last \in Ids(v) /\ x.target \in 0 .. q
                /\ \A t \in Ids(v) : [x EXCEPT !.last = t] \in Exceptions(v, q)
           /\ \A t, u \in Ids(v), a \in 0 .. q :
                [begin |-> t, last |-> u, target |-> a] \in Exceptions(v, q)
<1>1. Ids(v) \subseteq Nat /\ 0 .. q \subseteq Nat
  BY TokensAre
<1>2. ASSUME NEW x \in Exceptions(v, q)
      PROVE  /\ x.begin \in Ids(v) /\ x.last \in Ids(v) /\ x.target \in 0 .. q
             /\ \A t \in Ids(v) : [x EXCEPT !.last = t] \in Exceptions(v, q)
  BY DEF Exceptions
<1>3. \A t, u \in Ids(v), a \in 0 .. q :
        [begin |-> t, last |-> u, target |-> a] \in Exceptions(v, q)
  BY DEF Exceptions
<1>4. Exceptions(v, q) \in SUBSET [begin : Nat, last : Nat, target : Nat]
  BY <1>1 DEF Exceptions
<1> QED
  BY <1>1, <1>2, <1>3, <1>4

LEMMA EmitType ==
    ASSUME NEW v \in Seq(Token), NEW q \in Nat, NEW ex \in Seq(Exceptions(v, q)),
           rangeStart \in Nat, NEW t \in Ids(v), NEW u \in Ids(v), NEW a \in 0 .. q
    PROVE  Emit(ex, t, u, a) \in Seq(Exceptions(v, q))
<1> DEFINE E == Exceptions(v, q)
           l == Len(ex)
           top == ex[l]
           grown == [top EXCEPT !.last = u]
           x == [begin |-> t, last |-> u, target |-> a]
<1>1. l \in Nat /\ x \in E
  BY ExceptionsAre
<1>2. CASE l > rangeStart /\ top.target = a /\ top.last + 1 = t
  <2>1. l \in 1 .. l
    BY <1>1, <1>2
  <2>2. top \in E
    BY <2>1, ElementOfSeq
  <2>3. grown \in E
    BY <2>2, ExceptionsAre
  <2>4. Emit(ex, t, u, a) = [ex EXCEPT ![l] = grown]
    BY <1>2 DEF Emit
  <2> HIDE DEF E, grown
  <2>5. [ex EXCEPT ![l] = grown] \in Seq(E)
    <3>1. ex \in Seq(E) /\ l \in 1 .. Len(ex)
      BY <2>1 DEF E
    <3> QED
      BY <2>3, <3>1, ExceptSeq
  <2> QED
    BY <2>4, <2>5 DEF E
<1>3. CASE ~(l > rangeStart /\ top.target = a /\ top.last + 1 = t)
  <2>1. Emit(ex, t, u, a) = Append(ex, x)
    BY <1>3 DEF Emit
  <2> HIDE DEF x
  <2>2. Append(ex, x) \in Seq(E)
    BY <1>1
  <2> QED
    BY <2>1, <2>2
<1> QED
  BY <1>2, <1>3

IsUpTo(u, f) ==
    u = [n \in f.begin .. f.last + 1 |->
            IF n = f.begin THEN sparse
            ELSE IF base[n] = accept THEN u[n - 1]
            ELSE Emit(u[n - 1], n - 1, n - 1, accept)]

\* The function by which Accepting collects its exceptions exists.
LEMMA UpToExists ==
    ASSUME vocab \in Seq(Token), accept \in Nat, sparse \in Seq(Exceptions(vocab, accept)),
           rangeStart \in Nat, NEW f, f.begin \in Ids(vocab), f.last \in Ids(vocab)
    PROVE  \E u : IsUpTo(u, f)
<1> DEFINE lower == f.begin
           n == f.last + 1
           D == lower .. n
           V == Seq(Exceptions(vocab, accept))
           ends == {lower}
           out == [r \in D |-> sparse]
           next == [r \in D |-> r - 1]
           Step(r, x) == IF r = lower \/ base[r] = accept THEN x ELSE Emit(x, r - 1, r - 1, accept)
           step == [z \in D \X V |-> Step(z[1], z[2])]
<1>0. Len(vocab) \in Nat /\ lower \in Nat /\ n \in Nat /\ f.last \in Nat
  BY TokensAre
<1>1. \A r \in D : r \notin ends => next[r] \in D /\ next[r] < r /\ next[r] = r - 1
  BY <1>0
<1>2. ASSUME NEW r \in D, r # lower
      PROVE  r - 1 \in Ids(vocab)
  BY <1>0, <1>2 DEF Ids
<1>3. ASSUME NEW r \in D, NEW x \in V
      PROVE  Step(r, x) \in V
  <2>1. r # lower => Emit(x, r - 1, r - 1, accept) \in V
    <3>1. accept \in 0 .. accept
      OBVIOUS
    <3>2. x \in Seq(Exceptions(vocab, accept))
      OBVIOUS
    <3> DEFINE t == r - 1
    <3>3. r # lower => t \in Ids(vocab)
      BY <1>2
    <3> HIDE DEF t
    <3>4. r # lower => Emit(x, t, t, accept) \in Seq(Exceptions(vocab, accept))
      BY <3>1, <3>2, <3>3, EmitType
    <3> QED
      BY <3>4 DEF t
  <2> QED
    BY <2>1
<1>4. \A r \in D, x \in V : step[<<r, x>>] = Step(r, x)
  OBVIOUS
<1>5. D \in SUBSET (0 .. n) /\ \A r \in D : r \in ends => out[r] \in V
  BY <1>0
<1> HIDE DEF step, Step, V
<1>6. PICK u \in [D -> V] : Recurs(u, D, ends, out, next, step)
  <2> HIDE DEF ends, out, next, D, n
  <2>1. \A r \in D : r \notin ends => next[r] \in D /\ next[r] < r
    BY <1>1
  <2>2. \A r \in D, x \in V : step[<<r, x>>] \in V
    BY <1>3, <1>4
  <2> QED
    BY ONLY <1>0, <1>5, <2>1, <2>2, RecursionExists
<1>7. ASSUME NEW r \in D
      PROVE  u[r] = IF r = lower THEN sparse
                    ELSE IF base[r] = accept THEN u[r - 1] ELSE Emit(u[r - 1], r - 1, r - 1, accept)
  <2>1. u[r] = IF r \in ends THEN out[r] ELSE step[<<r, u[next[r]]>>]
    <3>1. r \in D /\ Recurs(u, D, ends, out, next, step)
      BY <1>6
    <3> HIDE DEF ends, out, next, D
    <3> QED
      BY ONLY <3>1, RecursUnfolds
  <2>2. (r \in ends <=> r = lower) /\ out[r] = sparse
    OBVIOUS
  <2>3. r # lower => next[r] = r - 1 /\ u[r - 1] \in V
    <3>1. r # lower => next[r] = r - 1 /\ r - 1 \in D
      BY <1>1
    <3> QED
      BY <1>6, <3>1
  <2>4. r # lower => step[<<r, u[r - 1]>>] = Step(r, u[r - 1])
    BY <1>4, <2>3
  <2> HIDE DEF ends, out, next, D
  <2> QED
    BY <2>1, <2>2, <2>3, <2>4 DEF Step
<1>8. u = [r \in D |-> u[r]]
  BY <1>6
<1> HIDE DEF D
<1>9. u = [r \in D |-> IF r = lower THEN sparse
                       ELSE IF base[r] = accept THEN u[r - 1]
                       ELSE Emit(u[r - 1], r - 1, r - 1, accept)]
  BY <1>7, <1>8, Zenon
<1> QED
  BY <1>9 DEF IsUpTo, D

\* What a call of traverse makes of the exceptions.
Added(ex, low, lower, upper, e, p, v, s, D) ==
    /\ Len(e) \in Nat /\ Len(e) >= low
    /\ \A n \in 1 .. low : e[n] = ex[n]
    /\ SliceExact(e, low, Len(e), p, v, s, D \cup (lower .. upper))
    /\ \A n \in low + 1 .. Len(e) :
        e[n].last \in lower .. upper \/ \E m \in low + 1 .. Len(ex) : e[n].last = ex[m].last

\* One more token.
LEMMA AddOne ==
    ASSUME vocab \in Seq(Token), accept \in Nat, NEW p, NEW s, NEW D,
           NEW ex, NEW e \in Seq(Exceptions(vocab, accept)), rangeStart \in Nat,
           \A n \in rangeStart + 1 .. Len(ex) : ex[n].last \in Nat,
           NEW lower \in Nat, NEW t \in Ids(vocab), lower <= t, NEW a \in 0 .. accept,
           \A n \in rangeStart + 1 .. Len(ex) : ex[n].last < lower,
           Added(ex, rangeStart, lower, t - 1, e, p, vocab, s, D),
           After(p, vocab, s, t) = a, Plain(p, vocab, t) # a
    PROVE  Emit(e, t, t, a) \in Seq(Exceptions(vocab, accept))
           /\ Added(ex, rangeStart, lower, t, Emit(e, t, t, a), p, vocab, s, D)
<1> DEFINE E == Exceptions(vocab, accept)
           low == rangeStart
           x == [begin |-> t, last |-> t, target |-> a]
           G == D \cup (lower .. t - 1)
           r == Emit(e, t, t, a)
<1>1. t \in Nat /\ x \in E /\ x.begin = t /\ x.last = t /\ x.target = a
  BY TokensAre, ExceptionsAre
<1> HIDE DEF x
<1>2. /\ Len(e) \in Nat /\ Len(e) >= low
      /\ \A n \in 1 .. low : e[n] = ex[n]
      /\ SliceExact(e, low, Len(e), p, vocab, s, G)
      /\ \A n \in low + 1 .. Len(e) :
            e[n].last \in lower .. t - 1 \/ \E m \in low + 1 .. Len(ex) : e[n].last = ex[m].last
  BY DEF Added
<1>3. \A n \in low + 1 .. Len(e) : e[n].last < t
  <2>1. ASSUME NEW n \in low + 1 .. Len(e), NEW m \in low + 1 .. Len(ex), e[n].last = ex[m].last
        PROVE  e[n].last < t
    <3>1. ex[m].last \in Nat /\ ex[m].last < lower
      OBVIOUS
    <3> QED
      BY <1>1, <2>1, <3>1
  <2>2. ASSUME NEW n \in low + 1 .. Len(e), e[n].last \in lower .. t - 1
        PROVE  e[n].last < t
    BY <1>1, <2>2
  <2> QED
    BY <1>2, <2>1, <2>2
<1>4. Right(p, vocab, s, x)
  <2>1. \A u \in x.begin .. x.last : u = t
    BY <1>1
  <2> QED
    BY <1>1, <2>1 DEF Right
<1>5. /\ Emit(e, x.begin, x.last, x.target) \in Seq(E)
      /\ Emitted(e, low, x, Emit(e, x.begin, x.last, x.target), p, vocab, s, G)
  <2>1. E \in SUBSET [begin : Nat, last : Nat, target : Nat]
    BY ExceptionsAre
  <2>2. \A y \in E : [y EXCEPT !.last = x.last] \in E
    BY <1>1, ExceptionsAre
  <2>3. low \in 0 .. Len(e)
    BY <1>2
  <2>4. \A n \in low + 1 .. Len(e) : e[n].last < x.begin
    BY <1>1, <1>3
  <2> HIDE DEF E, G
  <2>5. e \in Seq(E)
    BY DEF E
  <2> QED
    BY <1>1, <1>2, <1>4, <2>1, <2>2, <2>3, <2>4, <2>5, EmitExact
<1>6. r \in Seq(E) /\ Emitted(e, low, x, r, p, vocab, s, G)
  BY <1>1, <1>5
<1> HIDE DEF r, E
<1>7. /\ Len(r) \in Nat /\ Len(r) >= low
      /\ \A n \in 1 .. low : r[n] = e[n]
      /\ SliceExact(r, low, Len(r), p, vocab, s, G \cup (t .. t))
      /\ \A n \in low + 1 .. Len(r) :
            r[n].last = t \/ \E m \in low + 1 .. Len(e) : r[n].last = e[m].last
  BY <1>1, <1>6 DEF Emitted
<1>8. G \cup (t .. t) = D \cup (lower .. t)
  <2>1. (lower .. t - 1) \cup (t .. t) = lower .. t
    BY <1>1
  <2> QED
    BY <2>1
<1>9. ASSUME NEW n \in low + 1 .. Len(r)
      PROVE  r[n].last \in lower .. t \/ \E m \in low + 1 .. Len(ex) : r[n].last = ex[m].last
  <2>1. CASE r[n].last = t
    BY <1>1, <2>1
  <2>2. CASE \E m \in low + 1 .. Len(e) : r[n].last = e[m].last
    <3>1. PICK m \in low + 1 .. Len(e) : r[n].last = e[m].last
      BY <2>2
    <3>2. CASE e[m].last \in lower .. t - 1
      BY <1>1, <3>1, <3>2
    <3>3. CASE \E h \in low + 1 .. Len(ex) : e[m].last = ex[h].last
      BY <3>1, <3>3
    <3> QED
      BY <1>2, <3>2, <3>3
  <2> QED
    BY <1>7, <2>1, <2>2
<1>10. \A n \in 1 .. low : r[n] = ex[n]
  BY <1>2, <1>7
<1>11. SliceExact(r, low, Len(r), p, vocab, s, D \cup (lower .. t))
  BY <1>7, <1>8
<1>12. Added(ex, low, lower, t, r, p, vocab, s, D)
  BY <1>7, <1>9, <1>10, <1>11 DEF Added
<1> QED
  BY <1>6, <1>12 DEF r, E

\* A call whose bytes complete the pattern: all its tokens that do not accept from
\* state 0 become exceptions, and no others.
LEMMA AcceptingIs ==
    ASSUME vocab \in Seq(Token), pattern \in Seq(Nat), accept > 0, NEW s \in 0 .. accept,
           \A t \in Ids(vocab) : base[t + 1] = Plain(pattern, vocab, t),
           sparse \in Seq(Exceptions(vocab, accept)), rangeStart \in 0 .. Len(sparse),
           NEW D, SliceExact(sparse, rangeStart, Len(sparse), pattern, vocab, s, D),
           NEW f, FrameExact(f, pattern, vocab, s), f.kmpJ = accept,
           \A n \in rangeStart + 1 .. Len(sparse) : sparse[n].last < f.begin
    PROVE  /\ Accepting(f) \in Seq(Exceptions(vocab, accept))
           /\ Added(sparse, rangeStart, f.begin, f.last, Accepting(f), pattern, vocab, s, D)
<1> DEFINE E == Exceptions(vocab, accept)
           lower == f.begin
           upper == f.last
           Is(u) == IsUpTo(u, f)
           u0 == CHOOSE u : Is(u)
           Fits(n, e) == e \in Seq(E) /\ Added(sparse, rangeStart, lower, n - 1, e, pattern, vocab, s, D)
           Good == {h \in 0 .. upper + 1 - lower : Fits(lower + h, u0[lower + h])}
<1>1. /\ lower \in Ids(vocab) /\ upper \in Ids(vocab) /\ lower <= upper /\ lower \in Nat /\ upper \in Nat
      /\ rangeStart \in Nat /\ accept \in Nat /\ Len(sparse) \in Nat
  <2>1. lower \in Ids(vocab) /\ upper \in Ids(vocab) /\ lower <= upper
    BY DEF FrameExact
  <2>2. lower \in Nat /\ upper \in Nat
    BY <2>1, TokensAre
  <2>3. rangeStart \in Nat /\ accept \in Nat /\ Len(sparse) \in Nat
    BY DEF accept
  <2> QED
    BY <2>1, <2>2, <2>3
<1>2. Is(u0)
  <2>1. f.begin \in Ids(vocab) /\ f.last \in Ids(vocab) /\ accept \in Nat /\ rangeStart \in Nat
    BY <1>1
  <2>2. \E u : Is(u)
    BY <2>1, UpToExists
  <2> HIDE DEF Is
  <2> QED
    BY <2>2
<1>3. Accepting(f) = u0[upper + 1]
  BY DEF Accepting, IsUpTo
<1>4. \A n \in lower .. upper + 1 : u0[n] = IF n = lower THEN sparse
            ELSE IF base[n] = accept THEN u0[n - 1] ELSE Emit(u0[n - 1], n - 1, n - 1, accept)
  <2> HIDE DEF u0
  <2> QED
    BY <1>2 DEF IsUpTo
<1> HIDE DEF u0
<1>5. \A t \in lower .. upper : t \in Ids(vocab) /\ t \in Nat /\ After(pattern, vocab, s, t) = accept
  <2>1. \A t \in lower .. upper : t \in Ids(vocab) /\ t \in Nat
    BY <1>1, FrameTokens
  <2>2. accept = Len(pattern)
    BY DEF accept
  <2>3. \A t \in lower .. upper : After(pattern, vocab, s, t) = accept
    BY <2>2, FrameReaches
  <2> QED
    BY <2>1, <2>3
<1>6. \A n \in rangeStart + 1 .. Len(sparse) : sparse[n].last \in Nat
  <2>1. \A n \in rangeStart + 1 .. Len(sparse) : n \in 1 .. Len(sparse)
    BY <1>1
  <2>2. \A n \in 1 .. Len(sparse) : sparse[n] \in E
    BY ElementOfSeq
  <2> QED
    BY <1>1, <2>1, <2>2, ExceptionsAre
<1> HIDE DEF E, lower, upper
<1>7. 0 \in Good
  <2>1. lower .. lower - 1 = {}
    BY <1>1
  <2>2. D \cup (lower .. lower - 1) = D
    BY <2>1
  <2>3. Added(sparse, rangeStart, lower, lower - 1, sparse, pattern, vocab, s, D)
    <3>1. SliceExact(sparse, rangeStart, Len(sparse), pattern, vocab, s, D \cup (lower .. lower - 1))
      BY <2>2, Zenon
    <3>2. Len(sparse) >= rangeStart
      BY <1>1
    <3> QED
      BY <1>1, <3>1, <3>2 DEF Added
  <2>4. lower \in lower .. upper + 1 /\ lower + 0 = lower /\ 0 \in 0 .. upper + 1 - lower
    BY <1>1
  <2> HIDE DEF Fits
  <2>5. Fits(lower, sparse)
    BY <2>3 DEF Fits, E
  <2> QED
    BY <1>4, <2>4, <2>5
<1>8. ASSUME NEW h \in 0 .. upper + 1 - lower - 1, h \in Good
      PROVE  h + 1 \in Good
  <2> DEFINE t == lower + h
             e == u0[t]
  <2>1. t \in lower .. upper /\ t \in lower .. upper + 1 /\ t + 1 \in lower .. upper + 1 /\ t + 1 # lower
        /\ (t + 1) - 1 = t /\ lower + (h + 1) = t + 1 /\ h + 1 \in 0 .. upper + 1 - lower /\ lower <= t
        /\ t \in Nat
    BY <1>1
  <2>2. Fits(t, e)
    BY <1>8
  <2> HIDE DEF t, e, Fits
  <2>3. u0[t + 1] = IF base[t + 1] = accept THEN e ELSE Emit(e, t, t, accept)
    BY <1>4, <2>1 DEF e
  <2>4. t \in Ids(vocab) /\ After(pattern, vocab, s, t) = accept
        /\ base[t + 1] = Plain(pattern, vocab, t)
    BY <1>5, <2>1
  <2>5. e \in Seq(E) /\ Added(sparse, rangeStart, lower, t - 1, e, pattern, vocab, s, D)
    BY <2>2 DEF Fits
  <2>6. CASE base[t + 1] = accept
    <3>1. SliceExact(e, rangeStart, Len(e), pattern, vocab, s, D \cup (lower .. t - 1))
      BY <2>5 DEF Added
    <3>2. \A z \in D \cup (lower .. t) : z \in D \cup (lower .. t - 1) \/ z = t
      BY <1>1, <2>1
    <3>3. SliceExact(e, rangeStart, Len(e), pattern, vocab, s, D \cup (lower .. t))
      BY <2>4, <2>6, <3>1, <3>2 DEF SliceExact
    <3>4. \A z \in lower .. t - 1 : z \in lower .. t
      BY <1>1, <2>1
    <3>5. Added(sparse, rangeStart, lower, t, e, pattern, vocab, s, D)
      BY <2>5, <3>3, <3>4 DEF Added
    <3> QED
      BY <2>1, <2>3, <2>5, <2>6, <3>5 DEF Fits
  <2>7. CASE base[t + 1] # accept
    <3>1. Plain(pattern, vocab, t) # accept /\ accept \in 0 .. accept
      BY <1>1, <2>4, <2>7
    <3>2. \A n \in rangeStart + 1 .. Len(sparse) : sparse[n].last < lower
      BY DEF lower
    <3>3. /\ Emit(e, t, t, accept) \in Seq(E)
          /\ Added(sparse, rangeStart, lower, t, Emit(e, t, t, accept), pattern, vocab, s, D)
      <4>1. e \in Seq(Exceptions(vocab, accept)) /\ rangeStart \in Nat /\ accept \in Nat
            /\ lower \in Nat /\ lower <= t
        BY <1>1, <2>1, <2>5 DEF E
      <4>2. Added(sparse, rangeStart, lower, t - 1, e, pattern, vocab, s, D)
        BY <2>5
      <4> QED
        BY <1>6, <2>4, <3>1, <3>2, <4>1, <4>2, AddOne DEF E
    <3> QED
      BY <2>1, <2>3, <2>7, <3>3 DEF Fits
  <2> QED
    BY <2>6, <2>7
<1>9. upper + 1 - lower \in Good
  <2> DEFINE m == upper + 1 - lower
  <2>1. m \in Nat
    BY <1>1
  <2>2. 0 .. upper + 1 - lower - 1 = 0 .. m - 1
    BY <1>1
  <2> HIDE DEF Good
  <2>3. \A h \in 0 .. m - 1 : h \in Good => h + 1 \in Good
    BY <1>8, <2>2, Zenon
  <2> HIDE DEF m
  <2>4. \A h \in 0 .. m : h \in Good
    BY <1>7, <2>1, <2>3, UpwardInduction
  <2>5. m \in Good
    BY <2>1, <2>4
  <2> QED
    BY <2>5 DEF m
<1>10. lower + (upper + 1 - lower) = upper + 1 /\ (upper + 1) - 1 = upper
  BY <1>1
<1>11. Fits(upper + 1, Accepting(f))
  BY <1>3, <1>9, <1>10
<1> QED
  BY <1>10, <1>11 DEF E, lower, upper

\* The prefix of the exceptions that belongs to earlier states is left alone.
Keeps(ex, low, e) == Len(e) \in Nat /\ Len(e) >= low /\ \A n \in 1 .. low : e[n] = ex[n]

\* Calls c and exceptions e take the place of the call f: the tokens of f that are
\* exceptions, and none of the tokens of c, are in D, for which e is exact too.
Replaces(f, c, ex, low, e, p, v, s, S, D) ==
    /\ \A a \in 1 .. Len(c) :
        FrameExact(c[a], p, v, s) /\ f.begin <= c[a].begin /\ c[a].last <= f.last
    /\ \A a, b \in 1 .. Len(c) : a < b => c[a].last < c[b].begin
    /\ SliceExact(e, low, Len(e), p, v, s, S \cup D)
    /\ \A t \in f.begin .. f.last : \/ t \in D \/ After(p, v, s, t) = Plain(p, v, t)
                                     \/ \E a \in 1 .. Len(c) : t \in c[a].begin .. c[a].last
    /\ \A n \in low + 1 .. Len(e) :
        \/ \E m \in low + 1 .. Len(ex) : e[n].last = ex[m].last
        \/ /\ e[n].last \in f.begin .. f.last
           /\ \A a \in 1 .. Len(c) : e[n].last < c[a].begin

\* Where the automaton is while it takes the tokens of one byte.
Traversing ==
    /\ vocab \in Seq(Token) /\ Sorted(vocab) /\ pattern \in Seq(Nat) /\ accept > 0
    /\ LinksExact(pattern, fail, accept) /\ from \in 1 .. accept - 1
    /\ \A t \in Ids(vocab) : base[t + 1] = Plain(pattern, vocab, t)
    /\ sparse \in Seq(Exceptions(vocab, accept)) /\ rangeStart \in 0 .. Len(sparse)
    /\ Pending(vocab, pattern, from, sparse, rangeStart, stack, bytes)

\* One call, with the exceptions it emits and the calls it makes, keeps Pending.
LEMMA TraversePending ==
    ASSUME Traversing, Traverse
    PROVE  /\ sparse' \in Seq(Exceptions(vocab, accept)) /\ Keeps(sparse, rangeStart, sparse')
           /\ Pending(vocab, pattern, from, sparse', rangeStart, stack', bytes)
<1> DEFINE E == Exceptions(vocab, accept)
           p == pattern
           v == vocab
           s == from
           low == rangeStart
           f == Head(stack)
           start == FirstLonger(f)
           S == Settled(v, stack, bytes)
<1>1. /\ vocab \in Seq(Token) /\ Sorted(vocab) /\ pattern \in Seq(Nat) /\ accept > 0
      /\ LinksExact(pattern, fail, accept) /\ from \in 1 .. accept - 1
      /\ \A t \in Ids(vocab) : base[t + 1] = Plain(pattern, vocab, t)
      /\ sparse \in Seq(E) /\ low \in 0 .. Len(sparse)
      /\ Pending(v, p, s, sparse, low, stack, bytes)
  BY DEF Traversing
<1>2. accept = Len(pattern) /\ accept \in Nat /\ s \in 0 .. accept /\ low \in Nat
      /\ Len(sparse) \in Nat /\ low <= Len(sparse) /\ Len(v) \in Nat
  BY <1>1, TokensAre DEF accept
<1>3. /\ stack \in Seq(FrameSet) /\ \A a \in 1 .. Len(stack) : FrameExact(stack[a], p, v, s)
      /\ \A n \in low + 1 .. Len(sparse), a \in 1 .. Len(stack) : sparse[n].last < stack[a].begin
      /\ \A a \in 1 .. Len(stack), b \in 1 .. Len(bytes) : v[stack[a].last + 1][1] < bytes[b]
      /\ SliceExact(sparse, low, Len(sparse), p, v, s, S)
  BY <1>1 DEF Pending
<1>4. stack # <<>> /\ f = stack[1] /\ 1 \in 1 .. Len(stack)
  BY <1>3 DEF Traverse
<1>5. /\ FrameExact(f, p, v, s)
      /\ \A n \in low + 1 .. Len(sparse) : sparse[n].last < f.begin
  BY <1>3, <1>4
<1>6. \A n \in low + 1 .. Len(sparse) : sparse[n].last \in Nat
  <2>1. \A n \in low + 1 .. Len(sparse) : n \in 1 .. Len(sparse)
    BY <1>2
  <2>2. \A n \in 1 .. Len(sparse) : sparse[n] \in E
    BY <1>1, ElementOfSeq
  <2> QED
    BY <1>1, <1>2, <2>1, <2>2, ExceptionsAre
<1>7. \A a \in 1 .. Len(stack) : \A t \in stack[a].begin .. stack[a].last :
        \A b \in 1 .. Len(bytes) : v[t + 1][1] < bytes[b]
  <2> SUFFICES ASSUME NEW a \in 1 .. Len(stack), NEW t \in stack[a].begin .. stack[a].last,
                      NEW b \in 1 .. Len(bytes)
               PROVE  v[t + 1][1] < bytes[b]
    OBVIOUS
  <2> DEFINE g == stack[a]
  <2>1. FrameExact(g, p, v, s)
    BY <1>3
  <2> HIDE DEF g
  <2>2. g.last \in g.begin .. g.last /\ 1 \in 1 .. g.depth
    <3>1. g.begin \in Nat /\ g.last \in Nat /\ g.begin <= g.last /\ g.depth \in Nat /\ g.depth >= 1
      BY <1>1, <2>1, TokensAre DEF FrameExact
    <3> QED
      BY <3>1
  <2>3. Share(v, t, g.last, g.depth)
    BY <1>1, <2>1, <2>2, FrameTokens DEF g
  <2>4. v[t + 1][1] = v[g.last + 1][1]
    BY <2>2, <2>3 DEF Share
  <2> QED
    BY <1>3, <2>4 DEF g
<1> HIDE DEF E, f, start, S
<1>8. f.begin \in Nat /\ f.last \in Nat /\ f.begin <= f.last /\ f.begin \in Ids(v) /\ f.last \in Ids(v)
  BY <1>1, <1>5, TokensAre DEF FrameExact
\* What follows from calls c in the place of f, and exceptions e.
<1>9. ASSUME NEW c \in Seq(FrameSet), NEW e \in Seq(E), NEW D, Keeps(sparse, low, e),
             Replaces(f, c, sparse, low, e, p, v, s, S, D),
             sparse' = e, stack' = c \o Tail(stack)
      PROVE  /\ sparse' \in Seq(E) /\ Keeps(sparse, low, sparse')
             /\ Pending(v, p, s, sparse', low, stack', bytes)
  <2>1. Pending(v, p, s, e, low, c \o Tail(stack), bytes)
    BY <1>1, <1>2, <1>4, <1>6, <1>7, <1>9, PendingStep DEF f, S, Replaces
  <2> QED
    BY <1>9, <2>1
<1>10. /\ <<>> \in Seq(FrameSet) /\ Len(<<>>) = 0 /\ <<>> \o Tail(stack) = Tail(stack)
       /\ Keeps(sparse, low, sparse)
  <2>1. Tail(stack) \in Seq(FrameSet)
    BY <1>3, <1>4
  <2>2. <<>> \o Tail(stack) = Tail(stack)
    BY <2>1
  <2> QED
    BY <1>2, <2>2 DEF Keeps
<1>11. CASE f.kmpJ = f.kmp0
  <2>1. stack' = <<>> \o Tail(stack) /\ sparse' = sparse
    BY <1>10, <1>11 DEF Traverse, f
  <2>2. \A t \in f.begin .. f.last : After(p, v, s, t) = Plain(p, v, t)
    BY <1>1, <1>2, <1>5, <1>11, FrameReaches
  <2>3. SliceExact(sparse, low, Len(sparse), p, v, s, S \cup {})
    BY <1>3, Zenon DEF SliceExact
  <2>4. Replaces(f, <<>>, sparse, low, sparse, p, v, s, S, {})
    BY <1>10, <2>2, <2>3 DEF Replaces
  <2> QED
    BY <1>1, <1>9, <1>10, <2>1, <2>4, Zenon DEF E
<1>12. CASE f.kmpJ # f.kmp0 /\ f.kmpJ = accept
  <2> DEFINE e == Accepting(f)
             D == f.begin .. f.last
  <2>1. stack' = <<>> \o Tail(stack) /\ sparse' = e
    BY <1>10, <1>12 DEF Traverse, f
  <2>2. e \in Seq(E) /\ Added(sparse, low, f.begin, f.last, e, p, v, s, S)
    BY <1>1, <1>2, <1>3, <1>5, <1>12, AcceptingIs DEF E
  <2> HIDE DEF e
  <2>3. SliceExact(e, low, Len(e), p, v, s, S \cup D) /\ Keeps(sparse, low, e)
    BY <2>2 DEF Added, Keeps
  <2>4. Replaces(f, <<>>, sparse, low, e, p, v, s, S, D)
    BY <1>10, <2>2, <2>3 DEF Replaces, Added
  <2> QED
    BY <1>9, <1>10, <2>1, <2>2, <2>3, <2>4, Zenon DEF E
<1>13. CASE f.kmpJ # f.kmp0 /\ f.kmpJ # accept
  <2> DEFINE c == Children(f)
             D == f.begin .. start - 1
             e == IF start > f.begin THEN Emit(sparse, f.begin, start - 1, f.kmpJ) ELSE sparse
  <2>1. stack' = c \o Tail(stack) /\ sparse' = e
    BY <1>13 DEF Traverse, f, start
  <2>2. /\ start \in Nat /\ f.begin <= start /\ start <= f.last + 1
        /\ \A t \in f.begin .. start - 1 : Len(v[t + 1]) = f.depth
    BY <1>1, <1>5, FirstLongerIs DEF start
  <2>3. Splits(f, c, p, v, s, start)
    BY <1>1, <1>2, <1>5, ChildrenAre DEF start
  <2> HIDE DEF c
  <2>4. /\ c \in Seq(FrameSet)
        /\ \A a \in 1 .. Len(c) :
            FrameExact(c[a], p, v, s) /\ start <= c[a].begin /\ c[a].last <= f.last
        /\ \A a, b \in 1 .. Len(c) : a < b => c[a].last < c[b].begin
        /\ \A t \in start .. f.last : \E a \in 1 .. Len(c) : t \in c[a].begin .. c[a].last
    BY <2>3 DEF Splits
  <2>5. \A a \in 1 .. Len(c) : c[a].begin \in Nat
    <3>1. \A a \in 1 .. Len(c) : c[a] \in FrameSet
      BY <2>4, ElementOfSeq
    <3> QED
      BY <3>1 DEF FrameSet
  <2>6. \A t \in f.begin .. f.last : t \in D \/ t \in start .. f.last
    BY <1>8, <2>2
  <2>7. e \in Seq(E) /\ Added(sparse, low, f.begin, start - 1, e, p, v, s, S)
    <3>1. CASE start > f.begin
      <4>1. \A t \in D : /\ t \in f.begin .. f.last
                         /\ After(p, v, s, t) = f.kmpJ /\ Plain(p, v, t) = f.kmp0
        <5>1. \A t \in D : t \in f.begin .. f.last /\ Len(v[t + 1]) = f.depth
          BY <1>8, <2>2
        <5> QED
          BY <1>1, <1>2, <1>5, <5>1, FrameReaches
      <4> DEFINE x == [begin |-> f.begin, last |-> start - 1, target |-> f.kmpJ]
      <4>2. f.kmpJ \in 0 .. accept
        <5>1. f.begin \in f.begin .. f.last
          BY <1>8
        <5> QED
          BY <1>1, <1>2, <1>5, <5>1, FrameReaches
      <4>3. start - 1 \in Ids(v)
        BY <1>2, <1>8, <2>2, <3>1 DEF Ids
      <4>4. x \in E /\ \A y \in E : [y EXCEPT !.last = x.last] \in E
        BY <1>1, <1>2, <1>8, <4>2, <4>3, ExceptionsAre DEF E
      <4>5. x.begin = f.begin /\ x.last = start - 1 /\ x.target = f.kmpJ
        OBVIOUS
      <4>6. e = Emit(sparse, x.begin, x.last, x.target)
        BY <3>1
      <4> HIDE DEF x, e
      <4>7. Right(p, v, s, x)
        <5>1. x.begin <= x.last
          BY <1>8, <2>2, <3>1, <4>5
        <5>2. \A t \in x.begin .. x.last : t \in D
          BY <4>5
        <5> QED
          BY <1>13, <4>1, <4>5, <5>1, <5>2 DEF Right
      <4>8. E \in SUBSET [begin : Nat, last : Nat, target : Nat]
        BY <1>1, <1>2, ExceptionsAre DEF E
      <4>9. \A n \in low + 1 .. Len(sparse) : sparse[n].last < x.begin
        BY <1>5, <4>5
      <4>10. e \in Seq(E) /\ Emitted(sparse, low, x, e, p, v, s, S)
        BY <1>1, <1>3, <4>4, <4>6, <4>7, <4>8, <4>9, EmitExact
      <4>11. x.last \in f.begin .. start - 1
        BY <1>8, <2>2, <3>1, <4>5
      <4>12. SliceExact(e, low, Len(e), p, v, s, S \cup (f.begin .. start - 1))
        BY <4>5, <4>10 DEF Emitted
      <4> QED
        BY <4>10, <4>11, <4>12 DEF Emitted, Added
    <3>2. CASE ~(start > f.begin)
      <4>1. D = {} /\ e = sparse
        BY <1>8, <2>2, <3>2
      <4>2. SliceExact(sparse, low, Len(sparse), p, v, s, S \cup D)
        BY <1>3, <4>1, Zenon DEF SliceExact
      <4> QED
        BY <1>1, <1>2, <4>1, <4>2 DEF Added
    <3> QED
      BY <3>1, <3>2
  <2> HIDE DEF e
  <2>8. SliceExact(e, low, Len(e), p, v, s, S \cup D) /\ Keeps(sparse, low, e)
    BY <2>7 DEF Added, Keeps
  <2>9. ASSUME NEW n \in low + 1 .. Len(e)
        PROVE  \/ \E m \in low + 1 .. Len(sparse) : e[n].last = sparse[m].last
               \/ /\ e[n].last \in f.begin .. f.last
                  /\ \A a \in 1 .. Len(c) : e[n].last < c[a].begin
    <3>1. CASE e[n].last \in f.begin .. start - 1
      <4>1. e[n].last \in f.begin .. f.last
        BY <1>8, <2>2, <3>1
      <4>2. ASSUME NEW a \in 1 .. Len(c)
            PROVE  e[n].last < c[a].begin
        <5>1. start <= c[a].begin /\ c[a].begin \in Nat
          BY <2>4, <2>5
        <5> QED
          BY <1>8, <2>2, <3>1, <5>1
      <4> QED
        BY <4>1, <4>2
    <3>2. CASE e[n].last \notin f.begin .. start - 1
      BY <2>7, <3>2 DEF Added
    <3> QED
      BY <3>1, <3>2
  <2>10. \A a \in 1 .. Len(c) : f.begin <= c[a].begin
    BY <1>8, <2>2, <2>4, <2>5
  <2>11. Replaces(f, c, sparse, low, e, p, v, s, S, D)
    BY <2>4, <2>6, <2>8, <2>9, <2>10 DEF Replaces
  <2> QED
    BY <1>9, <2>1, <2>4, <2>7, <2>8, <2>11, Zenon DEF E
<1> QED
  BY <1>11, <1>12, <1>13 DEF E

-----------------------------------------------------------------------------
(***************************************************************************)
(* The failure links.                                                      *)
(***************************************************************************)

\* The links of the prefixes up to n are done, h is a border of that prefix, and longer
\* ones have been tried for the next link.
Linking(p, links, n, h) ==
    /\ LinksExact(p, links, n)
    /\ h \in 0 .. n - 1 /\ EndsWith(p, Prefix(p, n), h)
    /\ n < Len(p) => \A m \in h + 1 .. n - 1 : EndsWith(p, Prefix(p, n), m) => p[m + 1] # p[n + 1]

\* The borders of the next prefix, but for the empty one, extend those of this one.
LEMMA BordersExtend ==
    ASSUME NEW p \in Seq(Nat), NEW n \in 1 .. Len(p) - 1, NEW m \in 1 .. n
    PROVE  EndsWith(p, Prefix(p, n + 1), m) <=> EndsWith(p, Prefix(p, n), m - 1) /\ p[m] = p[n + 1]
<1> DEFINE d == Prefix(p, n)
           b == p[n + 1]
<1>1. n \in 0 .. Len(p) - 1 /\ n \in 0 .. Len(p) /\ m \in 1 .. Len(p) /\ n + 1 \in 1 .. Len(p)
      /\ n + 1 \in 0 .. Len(p)
  OBVIOUS
<1>2. d \in Seq(Nat)
  BY <1>1, PrefixIs DEF Prefix
<1>3. b \in Nat
  BY <1>1, ElementOfSeq
<1>4. Prefix(p, n + 1) = Append(d, b)
  <2>1. <<>> \o SubSeq(p, 1, n + 1) = Append(<<>> \o SubSeq(p, 1, n), p[n + 1])
    BY <1>1, NothingIs, ConcatByByte
  <2>2. SubSeq(p, 1, n) \in Seq(Nat) /\ SubSeq(p, 1, n + 1) \in Seq(Nat)
    BY <1>1, PrefixIs
  <2>3. <<>> \o SubSeq(p, 1, n + 1) = SubSeq(p, 1, n + 1) /\ <<>> \o SubSeq(p, 1, n) = SubSeq(p, 1, n)
    BY <2>2, NothingIs
  <2> QED
    BY <2>1, <2>3 DEF Prefix
<1> HIDE DEF d, b
<1>5. EndsWith(p, Append(d, b), m) <=> EndsWith(p, d, m - 1) /\ p[m] = b
  BY <1>1, <1>2, <1>3, EndsExtends
<1> QED
  BY <1>4, <1>5 DEF d, b

\* One more link, which is the longest border of its prefix.
LEMMA LinksGrow ==
    ASSUME NEW p \in Seq(Nat), NEW n \in 1 .. Len(p) - 1, NEW links, LinksExact(p, links, n),
           NEW more, \A m \in 1 .. n : more[m] = links[m], NEW h \in 0 .. n, more[n + 1] = h,
           EndsWith(p, Prefix(p, n + 1), h),
           \A x \in h + 1 .. n : ~EndsWith(p, Prefix(p, n + 1), x)
    PROVE  Linking(p, more, n + 1, h)
<1>1. \A m \in 1 .. n + 1 : m \in 1 .. n \/ m = n + 1
  OBVIOUS
<1>2. h \in 0 .. (n + 1) - 1 /\ (n + 1) - 1 = n
  OBVIOUS
<1>3. LinksExact(p, more, n + 1)
  <2>1. ASSUME NEW m \in 1 .. n
        PROVE  /\ more[m] \in 0 .. m - 1 /\ EndsWith(p, Prefix(p, m), more[m])
               /\ \A x \in more[m] + 1 .. m - 1 : ~EndsWith(p, Prefix(p, m), x)
    BY <2>1 DEF LinksExact
  <2> QED
    BY <1>1, <1>2, <2>1 DEF LinksExact
<1> QED
  BY <1>2, <1>3 DEF Linking

\* kmp_failure's comparison: the next byte goes on with the border, it does not and there
\* is a shorter border, or there is none.
LEMMA LinkingMatch ==
    ASSUME NEW p \in Seq(Nat), NEW n \in 1 .. Len(p) - 1, NEW links, NEW h,
           Linking(p, links, n, h), p[n + 1] = p[h + 1],
           NEW more, \A m \in 1 .. n : more[m] = links[m], more[n + 1] = h + 1
    PROVE  Linking(p, more, n + 1, h + 1)
<1>1. /\ LinksExact(p, links, n) /\ h \in 0 .. n - 1 /\ EndsWith(p, Prefix(p, n), h)
      /\ \A m \in h + 1 .. n - 1 : EndsWith(p, Prefix(p, n), m) => p[m + 1] # p[n + 1]
  BY DEF Linking
<1>2. h + 1 \in 1 .. n /\ (h + 1) - 1 = h /\ h + 1 \in 0 .. n
  BY <1>1
<1>3. EndsWith(p, Prefix(p, n + 1), h + 1)
  BY <1>1, <1>2, BordersExtend
<1>4. ASSUME NEW x \in (h + 1) + 1 .. n
      PROVE  ~EndsWith(p, Prefix(p, n + 1), x)
  <2>1. x \in 1 .. n /\ x - 1 \in h + 1 .. n - 1 /\ (x - 1) + 1 = x
    BY <1>1
  <2>2. EndsWith(p, Prefix(p, n + 1), x) => EndsWith(p, Prefix(p, n), x - 1) /\ p[x] = p[n + 1]
    BY <2>1, BordersExtend
  <2> QED
    BY <1>1, <2>1, <2>2
<1> QED
  BY <1>1, <1>2, <1>3, <1>4, LinksGrow

\* A mismatch leaves the shorter borders to try, or
LEMMA LinkingShorter ==
    ASSUME NEW p \in Seq(Nat), NEW n \in 1 .. Len(p) - 1, NEW links, NEW h,
           Linking(p, links, n, h), p[n + 1] # p[h + 1], h > 0
    PROVE  Linking(p, links, n, links[h])
<1> DEFINE d == Prefix(p, n)
           j == links[h]
<1>1. /\ LinksExact(p, links, n) /\ h \in 0 .. n - 1 /\ EndsWith(p, d, h)
      /\ \A m \in h + 1 .. n - 1 : EndsWith(p, d, m) => p[m + 1] # p[n + 1]
  BY DEF Linking
<1>2. h \in 1 .. n /\ h \in 0 .. Len(p) /\ n \in 0 .. Len(p)
  BY <1>1
<1>3. /\ j \in 0 .. h - 1 /\ EndsWith(p, Prefix(p, h), j)
      /\ \A x \in j + 1 .. h - 1 : ~EndsWith(p, Prefix(p, h), x)
  BY <1>1, <1>2 DEF LinksExact
<1>4. d \in Seq(Nat)
  BY <1>2, PrefixIs DEF Prefix
<1> HIDE DEF d, j
<1>5. \A x \in 0 .. h : EndsWith(p, d, x) <=> EndsWith(p, Prefix(p, h), x)
  BY <1>1, <1>2, <1>4, EndsNest DEF Prefix
<1>6. j \in 0 .. n - 1 /\ j \in 0 .. h
  BY <1>2, <1>3
<1>7. EndsWith(p, d, j)
  BY <1>3, <1>5, <1>6
<1>8. ASSUME NEW m \in j + 1 .. n - 1, EndsWith(p, d, m)
      PROVE  p[m + 1] # p[n + 1]
  <2>1. CASE m < h
    <3>1. m \in j + 1 .. h - 1 /\ m \in 0 .. h
      BY <1>2, <1>6, <2>1
    <3> QED
      BY <1>3, <1>5, <1>8, <3>1
  <2>2. CASE m = h
    BY <2>2
  <2>3. CASE m > h
    <3>1. m \in h + 1 .. n - 1
      BY <1>2, <1>6, <2>3
    <3> QED
      BY <1>1, <1>8, <3>1
  <2> QED
    BY <1>2, <1>6, <2>1, <2>2, <2>3
<1> QED
  BY <1>1, <1>6, <1>7, <1>8 DEF Linking, d, j

\* shows that there is no border.
LEMMA LinkingNone ==
    ASSUME NEW p \in Seq(Nat), NEW n \in 1 .. Len(p) - 1, NEW links, NEW h,
           Linking(p, links, n, h), p[n + 1] # p[h + 1], h = 0,
           NEW more, \A m \in 1 .. n : more[m] = links[m], more[n + 1] = 0
    PROVE  Linking(p, more, n + 1, 0)
<1>1. /\ LinksExact(p, links, n)
      /\ \A m \in 1 .. n - 1 : EndsWith(p, Prefix(p, n), m) => p[m + 1] # p[n + 1]
  BY DEF Linking
<1>2. 0 \in 0 .. n /\ n + 1 \in 0 .. Len(p)
  OBVIOUS
<1>3. EndsWith(p, Prefix(p, n + 1), 0)
  <2>1. Prefix(p, n + 1) \in Seq(Nat)
    BY <1>2, PrefixIs DEF Prefix
  <2> QED
    BY <2>1, EndsWithNothing
<1>4. ASSUME NEW x \in 0 + 1 .. n
      PROVE  ~EndsWith(p, Prefix(p, n + 1), x)
  <2>1. x \in 1 .. n
    OBVIOUS
  <2>2. EndsWith(p, Prefix(p, n + 1), x) => EndsWith(p, Prefix(p, n), x - 1) /\ p[x] = p[n + 1]
    BY <2>1, BordersExtend
  <2>3. CASE x = 1
    BY <2>2, <2>3
  <2>4. CASE x # 1
    <3>1. x - 1 \in 1 .. n - 1 /\ (x - 1) + 1 = x
      BY <2>1, <2>4
    <3> QED
      BY <1>1, <2>2, <3>1
  <2> QED
    BY <2>3, <2>4
<1> QED
  BY <1>1, <1>2, <1>3, <1>4, LinksGrow

-----------------------------------------------------------------------------
(***************************************************************************)
(* The relevant bytes of a state.                                          *)
(***************************************************************************)

\* When a state is begun all its exceptions begin with a relevant byte.
LEMMA StartPending ==
    ASSUME vocab \in Seq(Token), pattern \in Seq(Byte), accept > 0,
           LinksExact(pattern, fail, accept), from \in 1 .. accept - 1
    PROVE  /\ Relevant(from) \in Seq(Byte)
           /\ Pending(vocab, pattern, from, sparse, Len(sparse), <<>>, Relevant(from))
<1> DEFINE R == {pattern[Chain(from)[n] + 1] : n \in 1 .. Len(Chain(from))}
           q == InAscendingOrder(R)
           low == Len(sparse)
<1>1. Byte \subseteq 0 .. NumBytes /\ NumBytes \in Nat /\ Byte \subseteq Nat
  BY BytesAssumption DEF Byte
<1>2. pattern \in Seq(Nat) /\ from \in 0 .. accept - 1 /\ accept = Len(pattern)
  <2>1. pattern \in Seq(Nat)
    BY <1>1, SeqMonotonic
  <2> QED
    BY <2>1 DEF accept
<1>3. /\ \A b \in R : \E n \in 1 .. accept : b = pattern[n]
      /\ \A b \in Nat : b \notin R => Indifferent(pattern, from, b)
  BY <1>2, OthersIndifferent
<1> HIDE DEF R
<1>4. R \in SUBSET Byte
  <2>1. \A n \in 1 .. Len(pattern) : pattern[n] \in Byte
    BY ElementOfSeq
  <2> QED
    BY <1>2, <1>3, <2>1
<1>5. R \in SUBSET (0 .. NumBytes)
  BY <1>1, <1>4
<1>6. /\ q \in Seq(R) /\ Len(q) \in Nat
      /\ \A m, n \in 1 .. Len(q) : m < n => q[m] < q[n]
      /\ \A x \in R : \E m \in 1 .. Len(q) : q[m] = x
  BY <1>1, <1>5, OrderIs
<1>7. Relevant(from) = q
  BY DEF Relevant, R
<1> HIDE DEF q
<1>8. q \in Seq(Byte)
  BY <1>4, <1>6, SeqMonotonic
<1>9. Len(<<>>) = 0 /\ <<>> \in Seq(FrameSet) /\ 1 .. 0 = {}
  OBVIOUS
<1>10. \A n \in low + 1 .. low : FALSE
  BY DEF low
<1> HIDE DEF low
<1>11. ASSUME NEW t \in Settled(vocab, <<>>, q)
       PROVE  After(pattern, vocab, from, t) = Plain(pattern, vocab, t)
  <2> DEFINE w == vocab[t + 1]
  <2>1. t \in Ids(vocab) /\ \A a \in 1 .. Len(q) : w[1] # q[a]
    BY DEF Settled
  <2>2. w \in Seq(Nat) /\ Len(w) \in Nat /\ Len(w) >= 1
    BY <2>1, TokensAre
  <2> HIDE DEF w
  <2>3. w[1] \in Nat /\ Len(w) > 0
    BY <2>2
  <2>4. Indifferent(pattern, from, w[1])
    BY <1>3, <1>6, <2>1, <2>3
  <2>5. from \in 0 .. Len(pattern) - 1
    BY <1>2
  <2>6. Reached(pattern, Prefix(pattern, from) \o w) = Reached(pattern, w)
    BY <1>2, <2>2, <2>3, <2>4, <2>5, IndifferentToken
  <2> QED
    BY <2>6 DEF After, Plain, w
<1>12. SliceExact(sparse, low, low, pattern, vocab, from, Settled(vocab, <<>>, q))
  BY <1>10, <1>11 DEF SliceExact
<1>13. \A a \in 1 .. Len(<<>>) : FALSE
  BY <1>9
<1>14. Pending(vocab, pattern, from, sparse, low, <<>>, q)
  BY <1>6, <1>9, <1>10, <1>12, <1>13 DEF Pending, low
<1> QED
  BY <1>7, <1>8, <1>14 DEF low

\* The first bytes of the tokens do not descend.
LEMMA FirstBytes ==
    ASSUME NEW v \in Seq(Token), Sorted(v), NEW t \in Ids(v), NEW u \in Ids(v), t <= u
    PROVE  v[t + 1][1] <= v[u + 1][1] /\ v[t + 1][1] \in Nat
<1>1. \A x \in Ids(v) : /\ x \in Nat /\ Len(v[x + 1]) \in Nat /\ Len(v[x + 1]) >= 1
                        /\ v[x + 1] \in Seq(Nat)
  BY TokensAre
<1>2. v[t + 1][1] \in Nat
  <2> DEFINE w == v[t + 1]
  <2>1. w \in Seq(Nat) /\ Len(w) \in Nat /\ Len(w) >= 1
    BY <1>1
  <2> HIDE DEF w
  <2>2. w[1] \in Nat
    BY <2>1
  <2> QED
    BY <2>2 DEF w
<1>3. CASE t = u
  BY <1>2, <1>3
<1>4. CASE t # u
  <2>1. t < u
    BY <1>1, <1>4
  <2>2. Share(v, t, u, 0)
    BY <1>1 DEF Share
  <2>3. Len(v[t + 1]) > 0 /\ 0 \in Nat /\ 0 + 1 = 1
    BY <1>1
  <2>4. v[t + 1][0 + 1] <= v[u + 1][0 + 1]
    BY <2>1, <2>2, <2>3, SortedNext
  <2> QED
    BY <1>2, <2>3, <2>4
<1> QED
  BY <1>3, <1>4

\* The tokens that start with a byte are those of a range.
LEMMA StartingWithIs ==
    ASSUME vocab \in Seq(Token), Sorted(vocab), NEW b, StartingWith(b) # {}
    PROVE  LET r == RangeOf(StartingWith(b))
           IN  /\ r.begin \in Ids(vocab) /\ r.last \in Ids(vocab) /\ r.begin <= r.last
               /\ StartingWith(b) = r.begin .. r.last
<1> DEFINE S == StartingWith(b)
           N == Len(vocab)
<1>1. /\ N \in Nat
      /\ \A t \in Ids(vocab) : /\ t \in Nat /\ t <= N
                               /\ Len(vocab[t + 1]) \in Nat /\ Len(vocab[t + 1]) >= 1
                               /\ vocab[t + 1] \in Seq(Nat)
  <2>1. N \in Nat
    BY TokensAre
  <2>2. \A t \in Ids(vocab) : t \in Nat /\ t <= N
    BY <2>1 DEF Ids
  <2> QED
    BY <2>1, <2>2, TokensAre
<1>2. \A t \in S : t \in Ids(vocab) /\ vocab[t + 1][1] = b
  BY DEF StartingWith
<1>3. \A t, u \in Ids(vocab) : t <= u =>
            vocab[t + 1][1] <= vocab[u + 1][1] /\ vocab[t + 1][1] \in Nat
  BY FirstBytes
<1>4. S \in SUBSET (0 .. N)
  BY <1>1, <1>2
<1>5. ASSUME NEW t \in S, NEW u \in S, NEW w \in 0 .. N, t <= w, w <= u
      PROVE  w \in S
  <2>1. w \in Ids(vocab)
    BY <1>1, <1>2, <1>5 DEF Ids
  <2>2. vocab[t + 1][1] <= vocab[w + 1][1] /\ vocab[w + 1][1] <= vocab[u + 1][1]
        /\ vocab[t + 1][1] \in Nat /\ vocab[w + 1][1] \in Nat
    BY <1>2, <1>3, <1>5, <2>1
  <2>3. vocab[t + 1][1] = b /\ vocab[u + 1][1] = b
    BY <1>2
  <2>4. vocab[w + 1][1] = b
    BY <2>2, <2>3
  <2> QED
    BY <2>1, <2>4 DEF StartingWith
<1> HIDE DEF S
<1>6. S # {}
  BY DEF S
<1>7. /\ RangeOf(S).begin \in S /\ RangeOf(S).last \in S
      /\ RangeOf(S).begin <= RangeOf(S).last
      /\ S = RangeOf(S).begin .. RangeOf(S).last
  BY <1>1, <1>4, <1>5, <1>6, RangeOfIs
<1> QED
  BY <1>2, <1>7 DEF S

\* The calls with which the tokens of a byte begin.
CallsOf(b) ==
    IF StartingWith(b) = {} THEN <<>>
    ELSE <<Frame(RangeOf(StartingWith(b)), 1, StepByte(from, b), StepByte(0, b))>>

\* The first call for the tokens of a byte.
LEMMA FirstCall ==
    ASSUME vocab \in Seq(Token), Sorted(vocab), pattern \in Seq(Byte), accept > 0,
           LinksExact(pattern, fail, accept), from \in 1 .. accept - 1,
           NEW b \in Nat, StartingWith(b) # {},
           NEW f, f = Frame(RangeOf(StartingWith(b)), 1, StepByte(from, b), StepByte(0, b))
    PROVE  f \in FrameSet /\ FrameExact(f, pattern, vocab, from) /\ StartingWith(b) = f.begin .. f.last
<1> DEFINE S == StartingWith(b)
           r == RangeOf(S)
           p == pattern
           s == from
           u == r.begin
           w == vocab[u + 1]
<1>0. pattern \in Seq(Nat) /\ accept = Len(pattern) /\ s \in 0 .. accept /\ 0 \in 0 .. accept
  BY BytesAssumption, SeqMonotonic DEF accept, Byte
<1>1. /\ r.begin \in Ids(vocab) /\ r.last \in Ids(vocab) /\ r.begin <= r.last
      /\ S = r.begin .. r.last
  BY StartingWithIs
<1>2. /\ f.begin = r.begin /\ f.last = r.last /\ f.depth = 1
      /\ f.kmpJ = StepByte(s, b) /\ f.kmp0 = StepByte(0, b)
      /\ f = [begin |-> r.begin, last |-> r.last, depth |-> 1,
              kmpJ |-> StepByte(s, b), kmp0 |-> StepByte(0, b)]
  BY DEF Frame
<1>3. \A t \in S : t \in Ids(vocab) /\ vocab[t + 1][1] = b
  BY DEF StartingWith
<1>4. r.begin \in Nat /\ r.last \in Nat /\ u \in S
  <2>1. r.begin \in Nat /\ r.last \in Nat
    BY <1>1, TokensAre
  <2>2. u \in r.begin .. r.last
    BY <1>1, <2>1
  <2> QED
    BY <1>1, <2>1, <2>2
<1> HIDE DEF S, r, u, w
<1>5. \A t \in Ids(vocab) : /\ vocab[t + 1] \in Seq(Nat) /\ Len(vocab[t + 1]) \in Nat
                            /\ Len(vocab[t + 1]) >= 1
  BY TokensAre
<1>6. w \in Seq(Nat) /\ Len(w) \in Nat /\ Len(w) >= 1 /\ w[1] = b
  BY <1>3, <1>4, <1>5 DEF w
<1>7. 0 \in 0 .. Len(w) - 1 /\ 0 + 1 = 1 /\ 0 \in 0 .. Len(w)
  BY <1>6
<1>8. Prefix(w, 0) = <<>> /\ <<>> \in Seq(Nat)
  BY NothingOfIt, NothingIs
<1>9. Reached(p, <<>>) = 0 /\ Reached(p, Prefix(p, s) \o <<>>) = s
  <2>1. Prefix(p, 0) = <<>> /\ Reached(p, Prefix(p, 0)) = 0
    BY <1>0, NothingOfIt, ReachedOfPrefix
  <2>2. Prefix(p, s) \in Seq(Nat)
    BY <1>0, PrefixIs DEF Prefix
  <2>3. Prefix(p, s) \o <<>> = Prefix(p, s)
    BY <2>2, NothingIs
  <2>4. Reached(p, Prefix(p, s)) = s
    BY <1>0, ReachedOfPrefix
  <2> QED
    BY <2>1, <2>3, <2>4
<1>10. /\ StepByte(s, b) = Reached(p, Prefix(p, s) \o Prefix(w, 1))
       /\ StepByte(0, b) = Reached(p, Prefix(w, 1))
       /\ Reached(p, Prefix(p, s) \o Prefix(w, 1)) \in 0 .. accept
       /\ Reached(p, Prefix(w, 1)) \in 0 .. accept
  <2> DEFINE x == <<>>
             d == 0
  <2>1. x \in Seq(Nat) /\ d \in 0 .. Len(w) - 1 /\ Prefix(w, d) = x /\ d + 1 = 1
    BY <1>7, <1>8
  <2>2. Reached(p, x) = 0 /\ Reached(p, Prefix(p, s) \o x) = s
    BY <1>9
  <2> HIDE DEF x, d
  <2>3. /\ StepByte(Reached(p, Prefix(p, s) \o x), w[d + 1])
                = Reached(p, Prefix(p, s) \o Prefix(w, d + 1))
        /\ StepByte(Reached(p, x), w[d + 1]) = Reached(p, Prefix(w, d + 1))
        /\ Reached(p, Prefix(p, s) \o Prefix(w, d + 1)) \in 0 .. accept
        /\ Reached(p, Prefix(w, d + 1)) \in 0 .. accept
    BY <1>0, <1>6, <2>1, ReachesOn
  <2> QED
    BY <1>6, <2>1, <2>2, <2>3
<1>11. ASSUME NEW t \in f.begin .. f.last
       PROVE  Len(vocab[t + 1]) >= f.depth /\ Prefix(vocab[t + 1], f.depth) = Prefix(w, f.depth)
  <2> DEFINE y == vocab[t + 1]
  <2>1. t \in S
    BY <1>1, <1>2
  <2>2. y \in Seq(Nat) /\ Len(y) \in Nat /\ Len(y) >= 1 /\ y[1] = b
    BY <1>3, <1>5, <2>1
  <2> HIDE DEF y
  <2>3. \A j \in 1 .. 1 : y[j] = w[j]
    BY <1>6, <2>2
  <2>4. Prefix(y, 1) = Prefix(w, 1)
    BY <1>6, <2>2, <2>3, SamePrefix
  <2> QED
    BY <1>2, <2>2, <2>4 DEF y
<1>12. FrameExact(f, p, vocab, s)
  <2>1. vocab[f.begin + 1] = w /\ f.depth \in Nat /\ f.depth >= 1
    BY <1>2 DEF w, u
  <2> QED
    BY <1>1, <1>2, <1>10, <1>11, <2>1 DEF FrameExact
<1>13. f \in FrameSet
  <2>1. f.kmpJ \in Nat /\ f.kmp0 \in Nat
    BY <1>0, <1>2, <1>10
  <2> QED
    BY <1>2, <1>4, <2>1 DEF FrameSet
<1> QED
  BY <1>1, <1>2, <1>12, <1>13 DEF S

\* Taking a byte turns the tokens that begin with it into those of the first call.
LEMMA BytePending ==
    ASSUME vocab \in Seq(Token), Sorted(vocab), pattern \in Seq(Byte), accept > 0,
           LinksExact(pattern, fail, accept), from \in 1 .. accept - 1,
           sparse \in Seq(Exceptions(vocab, accept)), rangeStart \in 0 .. Len(sparse),
           bytes \in Seq(Byte), bytes # <<>>,
           Pending(vocab, pattern, from, sparse, rangeStart, <<>>, bytes)
    PROVE  Pending(vocab, pattern, from, sparse, rangeStart, CallsOf(Head(bytes)), Tail(bytes))
<1> DEFINE b == Head(bytes)
           rest == Tail(bytes)
           st == CallsOf(b)
           low == rangeStart
           none == <<>>
           v == vocab
<1>1. /\ b = bytes[1] /\ 1 \in 1 .. Len(bytes) /\ b \in Byte /\ Len(bytes) \in Nat
      /\ Len(rest) = Len(bytes) - 1
      /\ \A n \in 1 .. Len(rest) : n + 1 \in 1 .. Len(bytes) /\ rest[n] = bytes[n + 1]
  OBVIOUS
<1>2. b \in Nat
  BY <1>1, BytesAssumption DEF Byte
<1>3. Len(none) = 0 /\ 1 .. 0 = {}
  OBVIOUS
<1> HIDE DEF b, rest, st, none
<1>4. /\ \A a, c \in 1 .. Len(bytes) : a < c => bytes[a] < bytes[c]
      /\ \A n \in low + 1 .. Len(sparse), c \in 1 .. Len(bytes) : v[sparse[n].last + 1][1] < bytes[c]
      /\ SliceExact(sparse, low, Len(sparse), pattern, v, from, Settled(v, none, bytes))
  BY DEF Pending, none
<1>5. \A c \in 1 .. Len(rest) : rest[c] \in Nat
  <2>1. ASSUME NEW c \in 1 .. Len(rest)
        PROVE  rest[c] \in Byte
    <3>1. c + 1 \in 1 .. Len(bytes) /\ rest[c] = bytes[c + 1]
      BY <1>1
    <3> QED
      BY <3>1, ElementOfSeq
  <2>2. Byte \subseteq Nat
    BY BytesAssumption DEF Byte
  <2> QED
    BY <2>1, <2>2
<1>6. \A a, c \in 1 .. Len(rest) : a < c => rest[a] < rest[c]
  <2>1. ASSUME NEW a \in 1 .. Len(rest), NEW c \in 1 .. Len(rest), a < c
        PROVE  rest[a] < rest[c]
    <3>1. a + 1 < c + 1 /\ a + 1 \in 1 .. Len(bytes) /\ c + 1 \in 1 .. Len(bytes)
      BY <1>1, <2>1
    <3> QED
      BY <1>1, <1>4, <3>1
  <2> QED
    BY <2>1
<1>7. \A n \in low + 1 .. Len(sparse), c \in 1 .. Len(rest) : v[sparse[n].last + 1][1] < rest[c]
  BY <1>1, <1>4
<1>8. \A c \in 1 .. Len(rest) : b < rest[c]
  <2>1. \A c \in 1 .. Len(rest) : 1 < c + 1
    BY <1>1
  <2> QED
    BY <1>1, <1>4, <2>1
<1>9. ASSUME NEW t \in Settled(v, st, rest), v[t + 1][1] # b
      PROVE  t \in Settled(v, none, bytes)
  <2>1. t \in Ids(v) /\ \A c \in 1 .. Len(rest) : v[t + 1][1] # rest[c]
    BY DEF Settled
  <2>2. ASSUME NEW c \in 1 .. Len(bytes)
        PROVE  v[t + 1][1] # bytes[c]
    <3>1. CASE c = 1
      BY <1>1, <1>9, <3>1
    <3>2. CASE c # 1
      <4>1. c - 1 \in 1 .. Len(rest) /\ (c - 1) + 1 = c
        BY <1>1, <3>2
      <4> QED
        BY <1>1, <2>1, <4>1
    <3> QED
      BY <3>1, <3>2
  <2> QED
    BY <1>3, <2>1, <2>2 DEF Settled
<1>10. CASE StartingWith(b) = {}
  <2>1. st = none
    BY <1>10 DEF st, none, CallsOf
  <2>2. \A t \in Settled(v, st, rest) : v[t + 1][1] # b
    BY <1>10 DEF Settled, StartingWith
  <2>3. SliceExact(sparse, low, Len(sparse), pattern, v, from, Settled(v, st, rest))
    BY <1>4, <1>9, <2>2 DEF SliceExact
  <2>4. st \in Seq(FrameSet)
    BY <2>1 DEF none
  <2>5. \A a \in 1 .. Len(st) : FALSE
    BY <1>3, <2>1
  <2> QED
    BY <1>6, <1>7, <2>3, <2>4, <2>5 DEF Pending, b, rest, st
<1>11. CASE StartingWith(b) # {}
  <2> DEFINE f == Frame(RangeOf(StartingWith(b)), 1, StepByte(from, b), StepByte(0, b))
  <2>1. st = <<f>>
    BY <1>11 DEF st, CallsOf
  <2> HIDE DEF f
  <2>2. f \in FrameSet /\ FrameExact(f, pattern, vocab, from) /\ StartingWith(b) = f.begin .. f.last
    BY <1>2, <1>11, FirstCall DEF f
  <2>3. st \in Seq(FrameSet) /\ Len(st) = 1 /\ st[1] = f
    BY <2>1, <2>2
  <2>4. \A a \in 1 .. Len(st) : a = 1 /\ st[a] = f
    BY <2>3
  <2>5. /\ f.begin \in Ids(v) /\ f.last \in Ids(v) /\ f.begin \in Nat /\ f.last \in Nat
        /\ f.begin <= f.last
    <3>1. f.begin \in Ids(v) /\ f.last \in Ids(v) /\ f.begin <= f.last
      BY <2>2 DEF FrameExact
    <3> QED
      BY <3>1, TokensAre
  <2>6. v[f.begin + 1][1] = b /\ v[f.last + 1][1] = b
    <3>1. f.begin \in f.begin .. f.last /\ f.last \in f.begin .. f.last
      BY <2>5
    <3>2. \A t \in StartingWith(b) : v[t + 1][1] = b
      BY DEF StartingWith
    <3> QED
      BY <2>2, <3>1, <3>2
  <2>7. ASSUME NEW n \in low + 1 .. Len(sparse)
        PROVE  sparse[n].last < f.begin
    <3> DEFINE t == sparse[n].last
    <3>1. n \in 1 .. Len(sparse) /\ accept \in Nat
      BY DEF accept
    <3>2. sparse[n] \in Exceptions(vocab, accept)
      BY <3>1, ElementOfSeq
    <3>3. t \in Ids(v) /\ t \in Nat
      BY <3>1, <3>2, ExceptionsAre
    <3>4. v[t + 1][1] < b
      BY <1>1, <1>4
    <3> HIDE DEF t
    <3>5. SUFFICES ASSUME ~(t < f.begin) PROVE FALSE
      BY DEF t
    <3>6. f.begin <= t
      BY <2>5, <3>3, <3>5
    <3>7. \A x, y \in Ids(vocab) : x <= y =>
                vocab[x + 1][1] <= vocab[y + 1][1] /\ vocab[x + 1][1] \in Nat
      BY FirstBytes
    <3>8. v[f.begin + 1][1] <= v[t + 1][1] /\ v[t + 1][1] \in Nat
      <4>1. f.begin \in Ids(vocab) /\ t \in Ids(vocab) /\ f.begin <= t /\ t <= t
        BY <2>5, <3>3, <3>6
      <4> QED
        BY <3>7, <4>1, Zenon
    <3> DEFINE m == v[t + 1][1]
    <3>9. m < b /\ b <= m /\ m \in Nat
      BY <2>6, <3>4, <3>8
    <3> HIDE DEF m
    <3> QED
      BY <1>2, <3>9
  <2>8. \A a \in 1 .. Len(st), c \in 1 .. Len(rest) : v[st[a].last + 1][1] < rest[c]
    BY <1>8, <2>4, <2>6
  <2>9. \A n \in low + 1 .. Len(sparse), a \in 1 .. Len(st) : sparse[n].last < st[a].begin
    BY <2>4, <2>7
  <2>10. \A a, c \in 1 .. Len(st) : ~(a < c)
    BY <2>4
  <2>11. \A t \in Settled(v, st, rest) : v[t + 1][1] # b
    <3>1. \A t \in Settled(v, st, rest) : t \in Ids(v) /\ t \notin f.begin .. f.last
      BY <2>3 DEF Settled
    <3> QED
      BY <2>2, <3>1 DEF StartingWith
  <2>12. SliceExact(sparse, low, Len(sparse), pattern, v, from, Settled(v, st, rest))
    BY <1>4, <1>9, <2>11 DEF SliceExact
  <2>13. \A a \in 1 .. Len(st) : FrameExact(st[a], pattern, v, from)
    BY <2>2, <2>4
  <2> QED
    BY <1>6, <1>7, <2>3, <2>8, <2>9, <2>10, <2>12, <2>13 DEF Pending, b, rest, st
<1> QED
  BY <1>10, <1>11

-----------------------------------------------------------------------------
(***************************************************************************)
(* A transition, and the rows.                                             *)
(***************************************************************************)

\* The exceptions of a state decide where a token leads; where there is none, base does.
LEMMA NextStateIs ==
    ASSUME vocab \in Seq(Token), pattern \in Seq(Nat), NEW s \in 0 .. accept - 1,
           sparse \in Seq(Exceptions(vocab, accept)), Len(base) = Len(vocab),
           \A t \in Ids(vocab) : base[t + 1] = Plain(pattern, vocab, t),
           s > 0 => /\ offsets[s] \in 0 .. Len(sparse) /\ offsets[s + 1] \in 0 .. Len(sparse)
                    /\ SliceExact(sparse, offsets[s], offsets[s + 1], pattern, vocab, s, Ids(vocab)),
           NEW code \in Nat
    PROVE  NextState(s, code) = IF code < Len(vocab) THEN After(pattern, vocab, s, code) ELSE 0
<1> DEFINE mine == IF s = 0 THEN {} ELSE offsets[s] + 1 .. offsets[s + 1]
           seen == {n \in mine : \A m \in mine : m <= n => code >= sparse[m].begin}
           hits == {n \in seen : code <= sparse[n].last}
           h == CHOOSE n \in hits : \A m \in hits : n <= m
<1>0. Len(vocab) \in Nat /\ accept \in Nat
  BY TokensAre DEF accept
<1>1. NextState(s, code) = IF hits # {} THEN sparse[h].target
                           ELSE IF code < Len(vocab) THEN base[code + 1] ELSE 0
  BY DEF NextState
<1>2. \A n \in mine : n \in 1 .. Len(sparse) /\ n \in Nat
  OBVIOUS
<1>3. \A n \in mine : /\ sparse[n].begin \in Nat /\ sparse[n].last \in Nat
                      /\ sparse[n].last \in Ids(vocab)
  <2>1. \A n \in 1 .. Len(sparse) : sparse[n] \in Exceptions(vocab, accept)
    BY ElementOfSeq
  <2> HIDE DEF mine
  <2> QED
    BY <1>0, <1>2, <2>1, ExceptionsAre
<1>4. /\ \A n \in mine : Right(pattern, vocab, s, sparse[n])
      /\ \A m, n \in mine : m < n => sparse[m].last < sparse[n].begin
      /\ s > 0 => \A t \in Ids(vocab) : After(pattern, vocab, s, t) # Plain(pattern, vocab, t)
                    => \E n \in mine : t \in sparse[n].begin .. sparse[n].last
  <2>1. CASE s = 0
    <3>1. mine = {} /\ ~(s > 0)
      BY <2>1
    <3> HIDE DEF mine
    <3> QED
      BY <3>1
  <2>2. CASE s # 0
    <3>1. s > 0 /\ mine = offsets[s] + 1 .. offsets[s + 1]
      BY <2>2
    <3>2. SliceExact(sparse, offsets[s], offsets[s + 1], pattern, vocab, s, Ids(vocab))
      BY <3>1
    <3> HIDE DEF mine
    <3> QED
      BY <3>1, <3>2 DEF SliceExact
  <2> QED
    BY <2>1, <2>2
<1>5. \A n \in mine : sparse[n].begin <= sparse[n].last
  BY <1>4 DEF Right
<1>6. s = 0 => \A t \in Ids(vocab) : After(pattern, vocab, s, t) = Plain(pattern, vocab, t)
  <2>1. \A t \in Ids(vocab) : <<>> \o vocab[t + 1] = vocab[t + 1]
    BY TokensAre, NothingIs
  <2> QED
    BY <2>1, NothingOfIt DEF After, Plain
<1>7. code < Len(vocab) => code \in Ids(vocab)
  BY <1>0 DEF Ids
<1> HIDE DEF mine
<1>8. CASE hits # {}
  <2>1. hits \in SUBSET Nat
    BY <1>2
  <2>2. \E n \in hits : \A m \in hits : n <= m
    <3> HIDE DEF hits
    <3> QED
      BY <1>8, <2>1, LeastNatural
  <2>3. h \in hits
    <3> HIDE DEF hits
    <3> QED
      BY <2>2
  <2> HIDE DEF h
  <2>4. h \in mine /\ code >= sparse[h].begin /\ code <= sparse[h].last
    <3>1. h \in mine /\ \A m \in mine : m <= h => code >= sparse[m].begin
      BY <2>3
    <3>2. h <= h
      BY <1>2, <3>1
    <3> QED
      BY <2>3, <3>1, <3>2
  <2>5. code \in sparse[h].begin .. sparse[h].last
    BY <1>3, <2>4
  <2>6. After(pattern, vocab, s, code) = sparse[h].target
    BY <1>4, <2>4, <2>5 DEF Right
  <2>7. code < Len(vocab)
    <3>1. sparse[h].last \in Nat /\ sparse[h].last < Len(vocab)
      BY <1>0, <1>3, <2>4 DEF Ids
    <3> QED
      BY <1>0, <2>4, <3>1
  <2> HIDE DEF hits
  <2> QED
    BY <1>1, <1>8, <2>6, <2>7
<1>9. CASE hits = {}
  <2>1. ASSUME code < Len(vocab), After(pattern, vocab, s, code) # Plain(pattern, vocab, code)
        PROVE  FALSE
    <3>1. s > 0 /\ code \in Ids(vocab)
      BY <1>6, <1>7, <2>1
    <3>2. PICK n \in mine : code \in sparse[n].begin .. sparse[n].last
      BY <1>4, <2>1, <3>1
    <3>3. sparse[n].begin <= code /\ code <= sparse[n].last
      BY <1>3, <3>2
    <3>4. ASSUME NEW m \in mine, m <= n
          PROVE  code >= sparse[m].begin
      <4>1. CASE m = n
        BY <3>3, <4>1
      <4>2. CASE m # n
        <5>1. m < n
          BY <1>2, <3>4, <4>2
        <5>2. sparse[m].last < sparse[n].begin /\ sparse[m].begin <= sparse[m].last
          BY <1>4, <1>5, <5>1
        <5>3. sparse[m].last \in Nat /\ sparse[m].begin \in Nat /\ sparse[n].begin \in Nat
          BY <1>3
        <5> DEFINE x == sparse[m].begin
                   y == sparse[m].last
                   z == sparse[n].begin
        <5>4. x <= y /\ y < z /\ z <= code /\ x \in Nat /\ y \in Nat /\ z \in Nat /\ code \in Nat
          BY <3>3, <5>2, <5>3
        <5> HIDE DEF x, y, z
        <5>5. code >= x
          BY ONLY <5>4, SMT
        <5> QED
          BY <5>5 DEF x
      <4> QED
        BY <4>1, <4>2
    <3>5. n \in hits
      BY <3>3, <3>4
    <3> QED
      BY <1>9, <3>5
  <2>2. code < Len(vocab) => base[code + 1] = Plain(pattern, vocab, code)
    BY <1>7
  <2> HIDE DEF hits
  <2> QED
    BY <1>1, <1>9, <2>1, <2>2
<1> QED
  BY <1>8, <1>9

\* The bytes of a code.
PieceOf(v, code) == IF code < Len(v) THEN v[code + 1] ELSE <<NumBytes>>

\* The bytes of the first n codes of a row.
BytesUpTo(v, r, n) ==
    LET upTo[l \in 0 .. n] ==
            IF l = 0 THEN <<>>
            ELSE upTo[l - 1] \o (IF r[l] < Len(v) THEN v[r[l] + 1] ELSE <<NumBytes>>)
    IN  upTo[n]

LEMMA RowBytesAre ==
    /\ \A n : RowBytes(n) = BytesUpTo(vocab, row, n)
    /\ \A n : RowBytes(n)' = BytesUpTo(vocab', row', n)
BY DEF RowBytes, BytesUpTo

IsBytesUpTo(u, v, r, n) ==
    u = [l \in 0 .. n |->
            IF l = 0 THEN <<>>
            ELSE u[l - 1] \o (IF r[l] < Len(v) THEN v[r[l] + 1] ELSE <<NumBytes>>)]

LEMMA PieceType ==
    ASSUME NEW v \in Seq(Token), NEW code \in Nat
    PROVE  PieceOf(v, code) \in Seq(Nat)
<1>1. CASE code < Len(v)
  <2>1. code \in Ids(v)
    BY <1>1, TokensAre DEF Ids
  <2>2. v[code + 1] \in Seq(Nat)
    BY <2>1, TokensAre
  <2> QED
    BY <1>1, <2>2 DEF PieceOf
<1>2. CASE ~(code < Len(v))
  <2>1. <<NumBytes>> \in Seq(Nat)
    BY BytesAssumption
  <2> QED
    BY <1>2, <2>1 DEF PieceOf
<1> QED
  BY <1>1, <1>2

\* The bytes of a row grow by those of one code.
LEMMA BytesUpToIs ==
    ASSUME NEW v \in Seq(Token), NEW r \in Seq(Nat)
    PROVE  \A n \in 0 .. Len(r) :
            /\ BytesUpTo(v, r, n) \in Seq(Nat)
            /\ BytesUpTo(v, r, n)
                = IF n = 0 THEN <<>> ELSE BytesUpTo(v, r, n - 1) \o PieceOf(v, r[n])
<1> DEFINE seqs == [l \in 1 .. Len(r) |-> PieceOf(v, r[l])]
           F == FlatTo(seqs)
<1>1. Len(r) \in Nat /\ \A l \in 1 .. Len(r) : r[l] \in Nat
  BY ElementOfSeq
<1>2. seqs \in Seq(Seq(Nat)) /\ Len(seqs) = Len(r)
      /\ \A l \in 1 .. Len(r) : seqs[l] = PieceOf(v, r[l])
  <2>1. \A l \in 1 .. Len(r) : PieceOf(v, r[l]) \in Seq(Nat)
    BY <1>1, PieceType
  <2>2. seqs \in [1 .. Len(r) -> Seq(Nat)]
    BY <2>1
  <2> HIDE DEF seqs
  <2>3. seqs \in Seq(Seq(Nat)) /\ Len(seqs) = Len(r)
    BY <1>1, <2>2
  <2> QED
    BY <2>3 DEF seqs
<1> HIDE DEF seqs
<1>3. /\ F[0] = <<>>
      /\ \A n \in 1 .. Len(r) : F[n] = F[n - 1] \o PieceOf(v, r[n])
      /\ \A n \in 0 .. Len(r) : F[n] \in Seq(Nat)
  BY <1>2, FlatToSteps
<1> HIDE DEF F
<1>4. ASSUME NEW n \in 0 .. Len(r)
      PROVE  BytesUpTo(v, r, n) = F[n]
  <2> DEFINE Is(u) == IsBytesUpTo(u, v, r, n)
             u0 == CHOOSE u : Is(u)
             w == [l \in 0 .. n |-> F[l]]
             Same == {l \in 0 .. n : u0[l] = F[l]}
  <2>1. BytesUpTo(v, r, n) = u0[n]
    BY DEF BytesUpTo, IsBytesUpTo
  <2>2. Is(w)
    <3>1. ASSUME NEW l \in 0 .. n
          PROVE  F[l] = IF l = 0 THEN <<>>
                        ELSE w[l - 1] \o (IF r[l] < Len(v) THEN v[r[l] + 1] ELSE <<NumBytes>>)
      <4>1. CASE l = 0
        BY <1>3, <4>1
      <4>2. CASE l # 0
        <5>1. l \in 1 .. Len(r) /\ l - 1 \in 0 .. n
          BY <1>1, <4>2
        <5> QED
          BY <1>3, <4>2, <5>1 DEF PieceOf
      <4> QED
        BY <4>1, <4>2
    <3>2. w = [l \in 0 .. n |-> IF l = 0 THEN <<>>
                        ELSE w[l - 1] \o (IF r[l] < Len(v) THEN v[r[l] + 1] ELSE <<NumBytes>>)]
      <4> DEFINE g(l) == w[l - 1]
      <4> HIDE DEF g
      <4>1. \A l \in 0 .. n : F[l] = IF l = 0 THEN <<>>
                        ELSE g(l) \o (IF r[l] < Len(v) THEN v[r[l] + 1] ELSE <<NumBytes>>)
        BY <3>1 DEF g
      <4>2. w = [l \in 0 .. n |-> IF l = 0 THEN <<>>
                        ELSE g(l) \o (IF r[l] < Len(v) THEN v[r[l] + 1] ELSE <<NumBytes>>)]
        BY <4>1, Zenon
      <4> QED
        BY <4>2, Zenon DEF g
    <3> HIDE DEF w
    <3> QED
      BY <3>2 DEF IsBytesUpTo
  <2>3. Is(u0)
    <3>1. \E u : Is(u)
      BY <2>2
    <3> HIDE DEF Is
    <3> QED
      BY <3>1
  <2> HIDE DEF u0, w
  <2>4. \A l \in 0 .. n : u0[l] = IF l = 0 THEN <<>> ELSE u0[l - 1] \o PieceOf(v, r[l])
    BY <2>3 DEF IsBytesUpTo, PieceOf
  <2>5. 0 \in Same
    BY <1>1, <1>3, <2>4
  <2>6. ASSUME NEW l \in 0 .. n - 1, l \in Same
        PROVE  l + 1 \in Same
    <3>1. l + 1 \in 0 .. n /\ l + 1 \in 1 .. Len(r) /\ l + 1 # 0 /\ (l + 1) - 1 = l
      BY <1>1
    <3>2. u0[l] = F[l]
      BY <2>6
    <3> QED
      BY <1>3, <2>4, <3>1, <3>2
  <2>7. n \in Nat
    BY <1>1
  <2>8. \A l \in 0 .. n : l \in Same
    <3> HIDE DEF Same
    <3> QED
      BY <2>5, <2>6, <2>7, UpwardInduction
  <2> QED
    BY <2>1, <2>7, <2>8
<1>5. ASSUME NEW n \in 0 .. Len(r), n # 0
      PROVE  n - 1 \in 0 .. Len(r) /\ n \in 1 .. Len(r)
  BY <1>1, <1>5
<1> QED
  BY <1>3, <1>4, <1>5

-----------------------------------------------------------------------------
(***************************************************************************)
(* The inductive invariant of the automaton.                               *)
(***************************************************************************)

\* The exceptions behind the first low of them, up to high, are all those of a state.
SliceDone(ex, low, high, p, v, s) ==
    low <= high /\ high <= Len(ex) /\ SliceExact(ex, low, high, p, v, s, Ids(v))

Compiling == phase \in {"state", "bytes", "traverse"}
Compiled == phase \in {"ready", "row", "answered"} /\ accept > 0

LinksInv ==
    /\ phase = "failure" => i \in 1 .. accept /\ Linking(pattern, fail, i, len)
    /\ phase \notin {"failure", "too_long"} => LinksExact(pattern, fail, accept)
    /\ phase = "too_long" => accept > MaxPatternLen

BaseInv ==
    /\ phase \in {"failure", "base"} => accept > 0 /\ from = 1
    /\ phase \in {"failure", "base", "too_long"} => sparse = <<>>
    /\ \A t \in 0 .. Len(base) - 1 : base[t + 1] = Plain(pattern, vocab, t)
    /\ Compiling \/ Compiled => Len(base) = Len(vocab)

SlicesInv ==
    Compiling \/ Compiled =>
        /\ from \in 1 .. accept
        /\ Compiled => from = accept
        /\ \A s \in 1 .. from - 1 : SliceDone(sparse, offsets[s], SliceEnd(s), pattern, vocab, s)

StackInv ==
    /\ phase # "traverse" => stack = <<>>
    /\ phase \in {"bytes", "traverse"} =>
        /\ from < accept
        /\ rangeStart = offsets[from]
        /\ \A s \in 0 .. accept : offsets[s] <= rangeStart
        /\ Pending(vocab, pattern, from, sparse, rangeStart, stack, bytes)

RowInv ==
    phase \in {"row", "answered"} =>
        /\ state = Reached(pattern, BytesUpTo(vocab, row, taken))
        /\ phase = "answered" =>
            (state = accept <=> OccursIn(pattern, BytesUpTo(vocab, row, Len(row))))

DfaInv == DfaTypeOK /\ LinksInv /\ BaseInv /\ SlicesInv /\ StackInv /\ RowInv

LEMMA DfaTyped ==
    ASSUME DfaTypeOK
    PROVE  /\ vocab \in Seq(Token) /\ Sorted(vocab) /\ Len(vocab) \in Nat
           /\ pattern \in Seq(Byte) /\ pattern \in Seq(Nat) /\ accept \in Nat
           /\ accept = Len(pattern) /\ Exception = Exceptions(vocab, accept)
           /\ sparse \in Seq(Exceptions(vocab, accept)) /\ Len(sparse) \in Nat
           /\ base \in Seq(0 .. accept) /\ Len(base) \in Nat /\ Len(base) <= Len(vocab)
<1>1. vocab \in Seq(Token) /\ Sorted(vocab) /\ pattern \in Seq(Byte)
  BY DfaAssumption DEF DfaTypeOK, ByteSeq
<1>2. Byte \subseteq Nat
  BY BytesAssumption DEF Byte
<1>3. pattern \in Seq(Nat)
  BY <1>1, <1>2, SeqMonotonic
<1>4. Exception = Exceptions(vocab, accept)
  BY DEF Exception, Exceptions
<1>5. Len(vocab) \in Nat /\ accept \in Nat /\ accept = Len(pattern)
  BY <1>1 DEF accept
<1>6. sparse \in Seq(Exceptions(vocab, accept))
  BY <1>4 DEF DfaTypeOK
<1>7. Len(sparse) \in Nat
  BY <1>6
<1>8. base \in Seq(0 .. accept) /\ Len(base) <= Len(vocab)
  BY DEF DfaTypeOK
<1>9. Len(base) \in Nat
  BY <1>8
<1> QED
  BY <1>1, <1>3, <1>4, <1>5, <1>6, <1>7, <1>8, <1>9

LEMMA InitIsDfaInv ==
    ASSUME DfaInit
    PROVE  DfaInv
<1>1. vocab \in Seq(Token) /\ pattern \in Seq(Byte) /\ accept \in Nat /\ accept = Len(pattern)
  BY DfaAssumption DEF DfaInit, ByteSeq, accept
<1>2. pattern \in Seq(Nat)
  <2>1. Byte \subseteq Nat
    BY BytesAssumption DEF Byte
  <2> QED
    BY <1>1, <2>1, SeqMonotonic
<1>3. MaxPatternLen \in Nat /\ Len(vocab) \in Nat
  BY <1>1, DfaAssumption
<1>4. DfaTypeOK
  <2>1. fail \in [1 .. accept -> 0 .. accept] /\ \A n \in 1 .. accept : fail[n] < n
    BY <1>1 DEF DfaInit
  <2>2. offsets \in [0 .. accept -> 0 .. Len(sparse)]
    BY <1>1 DEF DfaInit
  <2>3. vocab \in Vocabularies /\ pattern \in Patterns /\ row = <<>> /\ taken = 0 /\ state = 0
    BY DEF DfaInit
  <2>4. i = 1 /\ len = 0 /\ base = <<>> /\ sparse = <<>> /\ from = 1 /\ bytes = <<>> /\ rangeStart = 0
    BY DEF DfaInit
  <2>5. i \in 0 .. accept + 1 /\ len \in 0 .. accept /\ from \in 1 .. accept + 1 /\ state \in 0 .. accept
    BY <1>1, <2>3, <2>4
  <2>6. Len(base) <= Len(vocab) /\ rangeStart \in 0 .. Len(sparse) /\ taken \in 0 .. Len(row)
    BY <1>3, <2>3, <2>4
  <2>7. base \in Seq(0 .. accept) /\ sparse \in Seq(Exception) /\ bytes \in Seq(Byte) /\ row \in Seq(Nat)
    BY <2>3, <2>4
  <2>8. phase \in {"failure", "ready", "too_long"}
    BY DEF DfaInit
  <2> QED
    BY <2>1, <2>2, <2>3, <2>5, <2>6, <2>7, <2>8 DEF DfaTypeOK
<1>5. LinksInv
  <2>1. CASE phase = "failure"
    <3>1. accept > 0 /\ i = 1 /\ len = 0
      BY <1>1, <2>1 DEF DfaInit
    <3>2. 1 \in 1 .. accept /\ fail[1] = 0
      BY <1>1, <3>1 DEF DfaInit
    <3>3. Prefix(pattern, 1) \in Seq(Nat)
      BY <1>1, <1>2, <3>2, PrefixIs DEF Prefix
    <3>4. EndsWith(pattern, Prefix(pattern, 1), 0)
      BY <1>2, <3>3, EndsWithNothing
    <3>5. LinksExact(pattern, fail, 1)
      BY <3>2, <3>4 DEF LinksExact
    <3>6. Linking(pattern, fail, 1, 0)
      BY <3>4, <3>5 DEF Linking
    <3> QED
      BY <2>1, <3>1, <3>2, <3>6 DEF LinksInv
  <2>2. CASE phase # "failure"
    <3>1. CASE accept > MaxPatternLen
      BY <3>1 DEF LinksInv, DfaInit
    <3>2. CASE ~(accept > MaxPatternLen)
      <4>1. accept = 0
        BY <2>2, <3>2 DEF DfaInit
      <4>2. LinksExact(pattern, fail, accept) /\ phase # "too_long"
        BY <3>2, <4>1 DEF LinksExact, DfaInit
      <4> QED
        BY <2>2, <4>2 DEF LinksInv
    <3> QED
      BY <3>1, <3>2
  <2> QED
    BY <2>1, <2>2
<1>6. phase \in {"failure", "ready", "too_long"} /\ (phase = "failure" => accept > 0)
      /\ (phase = "ready" => accept = 0)
  BY <1>1, <1>3 DEF DfaInit
<1>7. ~(Compiling \/ Compiled)
  BY <1>1, <1>6 DEF Compiling, Compiled
<1>8. BaseInv
  <2>1. Len(base) = 0 /\ from = 1 /\ sparse = <<>>
    BY DEF DfaInit
  <2> QED
    BY <1>6, <1>7, <2>1 DEF BaseInv
<1>9. SlicesInv
  BY <1>7 DEF SlicesInv
<1>10. StackInv
  BY <1>6 DEF StackInv, DfaInit
<1>11. RowInv
  BY <1>6 DEF RowInv
<1> QED
  BY <1>4, <1>5, <1>8, <1>9, <1>10, <1>11 DEF DfaInv

-----------------------------------------------------------------------------
(***************************************************************************)
(* The steps of kmp_failure and of base_pass.                              *)
(***************************************************************************)

\* One lemma per action: it keeps the invariant.
LEMMA FailureStepKeeps ==
    ASSUME DfaInv, FailureStep
    PROVE  DfaInv'
<1>1. DfaTypeOK /\ LinksInv /\ BaseInv /\ StackInv
  BY DEF DfaInv
<1>2. pattern \in Seq(Nat) /\ accept \in Nat /\ accept = Len(pattern)
  BY <1>1, DfaTyped
<1>3. phase = "failure" /\ i \in 1 .. accept /\ i < accept /\ Linking(pattern, fail, i, len)
  BY <1>1 DEF LinksInv, FailureStep
<1>4. i \in 1 .. Len(pattern) - 1 /\ len \in 0 .. i - 1 /\ LinksExact(pattern, fail, i)
  BY <1>2, <1>3 DEF Linking
<1>5. fail \in [1 .. accept -> 0 .. accept] /\ \A n \in 1 .. accept : fail[n] < n
  BY <1>1 DEF DfaTypeOK
<1>6. i + 1 \in 1 .. accept /\ \A n \in 1 .. i : n # i + 1 /\ n \in 1 .. accept
  BY <1>2, <1>3
<1> DEFINE LinksTyped == fail' \in [1 .. accept -> 0 .. accept] /\ \A n \in 1 .. accept : fail'[n] < n
           Goal == /\ i' \in 1 .. accept /\ len' \in 0 .. accept /\ LinksTyped
                   /\ Linking(pattern, fail', i', len')
<1>7. ASSUME pattern[i + 1] = pattern[len + 1]
      PROVE  Goal
  <2>1. len' = len + 1 /\ fail' = [fail EXCEPT ![i + 1] = len + 1] /\ i' = i + 1
    BY <1>7 DEF FailureStep
  <2>2. \A n \in 1 .. i : fail'[n] = fail[n]
    BY <1>5, <1>6, <2>1
  <2>3. fail'[i + 1] = len + 1
    BY <1>5, <1>6, <2>1
  <2>4. Linking(pattern, fail', i + 1, len + 1)
    BY <1>2, <1>3, <1>4, <1>7, <2>2, <2>3, LinkingMatch
  <2>5. LinksTyped
    <3>1. len + 1 \in 0 .. accept /\ len + 1 < i + 1
      BY <1>2, <1>3, <1>4
    <3> QED
      BY <1>5, <1>6, <2>1, <3>1
  <2>6. len + 1 \in 0 .. accept
    BY <1>2, <1>3, <1>4
  <2>7. i' = i + 1 /\ len' = len + 1
    BY <2>1
  <2> HIDE DEF LinksTyped
  <2> QED
    BY <1>6, <2>4, <2>5, <2>6, <2>7
<1>8. ASSUME pattern[i + 1] # pattern[len + 1] /\ len > 0
      PROVE  Goal
  <2>1. len' = fail[len] /\ fail' = fail /\ i' = i
    BY <1>8 DEF FailureStep, Shorter
  <2>2. Linking(pattern, fail, i, fail[len])
    BY <1>2, <1>3, <1>4, <1>8, LinkingShorter
  <2>3. fail[len] \in 0 .. accept
    BY <1>2, <1>4, <1>5, <1>8
  <2>4. LinksTyped
    BY <1>5, <2>1
  <2> HIDE DEF LinksTyped
  <2> QED
    BY <1>3, <2>1, <2>2, <2>3, <2>4
<1>9. ASSUME pattern[i + 1] # pattern[len + 1] /\ ~(len > 0)
      PROVE  Goal
  <2>1. len' = len /\ fail' = [fail EXCEPT ![i + 1] = 0] /\ i' = i + 1 /\ len = 0
    BY <1>4, <1>9 DEF FailureStep
  <2>2. \A n \in 1 .. i : fail'[n] = fail[n]
    BY <1>5, <1>6, <2>1
  <2>3. fail'[i + 1] = 0
    BY <1>5, <1>6, <2>1
  <2>4. Linking(pattern, fail', i + 1, 0)
    BY <1>2, <1>3, <1>4, <1>9, <2>1, <2>2, <2>3, LinkingNone
  <2>5. LinksTyped
    <3>1. 0 \in 0 .. accept /\ 0 < i + 1
      BY <1>2, <1>4
    <3> QED
      BY <1>5, <1>6, <2>1, <3>1
  <2>6. i' = i + 1 /\ len' = 0 /\ 0 \in 0 .. accept
    BY <1>2, <2>1
  <2> HIDE DEF LinksTyped
  <2> QED
    BY <1>6, <2>4, <2>5, <2>6
<1> HIDE DEF LinksTyped
<1>10. Goal
  BY <1>7, <1>8, <1>9
<1> HIDE DEF Goal
<1>11. UNCHANGED <<vocab, pattern, phase, base, sparse, offsets, from, bytes, rangeStart,
                   stack, row, taken, state>> /\ accept' = accept
  BY DEF FailureStep, scan, accept
<1>12. DfaTypeOK'
  <2>1. i' \in 0 .. accept + 1
    BY <1>2, <1>10 DEF Goal
  <2> QED
    BY <1>1, <1>10, <1>11, <2>1 DEF DfaTypeOK, Goal, LinksTyped, Exception
<1>13. LinksInv'
  BY <1>1, <1>3, <1>10, <1>11 DEF LinksInv, Goal
<1>14. BaseInv'
  BY <1>1, <1>3, <1>11 DEF BaseInv, Compiling, Compiled
<1>15. SlicesInv' /\ RowInv'
  BY <1>3, <1>11 DEF SlicesInv, RowInv, Compiling, Compiled
<1>16. StackInv'
  BY <1>1, <1>3, <1>11 DEF StackInv
<1> QED
  BY <1>12, <1>13, <1>14, <1>15, <1>16 DEF DfaInv

LEMMA FailureEndKeeps ==
    ASSUME DfaInv, FailureEnd
    PROVE  DfaInv'
<1>1. DfaTypeOK /\ LinksInv /\ BaseInv /\ StackInv
  BY DEF DfaInv
<1>2. phase = "failure" /\ phase' = "base" /\ i >= accept
  BY DEF FailureEnd
<1>3. UNCHANGED <<vocab, pattern, i, len, fail, base, sparse, offsets, from, bytes, rangeStart,
                  stack, row, taken, state>> /\ accept' = accept
  BY DEF FailureEnd, compiled, scan, accept
<1>4. LinksExact(pattern, fail, accept)
  <2>1. i \in 1 .. accept /\ Linking(pattern, fail, i, len) /\ accept \in Nat
    BY <1>1, <1>2, DfaTyped DEF LinksInv
  <2>2. i = accept
    BY <1>2, <2>1
  <2> QED
    BY <2>1, <2>2 DEF Linking
<1>5. DfaTypeOK'
  BY <1>1, <1>2, <1>3 DEF DfaTypeOK, Exception
<1>6. LinksInv'
  BY <1>2, <1>3, <1>4 DEF LinksInv
<1>7. BaseInv'
  BY <1>1, <1>2, <1>3 DEF BaseInv, Compiling, Compiled
<1>8. SlicesInv' /\ RowInv'
  BY <1>2 DEF SlicesInv, RowInv, Compiling, Compiled
<1>9. StackInv'
  BY <1>1, <1>2, <1>3 DEF StackInv
<1> QED
  BY <1>5, <1>6, <1>7, <1>8, <1>9 DEF DfaInv

LEMMA BaseStepKeeps ==
    ASSUME DfaInv, BaseStep
    PROVE  DfaInv'
<1>1. DfaTypeOK /\ LinksInv /\ BaseInv /\ StackInv
  BY DEF DfaInv
<1>2. /\ vocab \in Seq(Token) /\ Len(vocab) \in Nat /\ pattern \in Seq(Nat) /\ accept \in Nat
      /\ accept = Len(pattern) /\ base \in Seq(0 .. accept) /\ Len(base) \in Nat
  BY <1>1, DfaTyped
<1> DEFINE t == Len(base)
           x == IF Leaves(vocab[t + 1]) THEN StepBytes(0, vocab[t + 1]) ELSE 0
<1>3. phase = "base" /\ t < Len(vocab) /\ base' = Append(base, x)
  BY DEF BaseStep
<1>4. UNCHANGED <<vocab, pattern, phase, i, len, fail, sparse, offsets, from, bytes, rangeStart,
                  stack, row, taken, state>> /\ accept' = accept
  BY DEF BaseStep, scan, accept
<1>5. accept > 0 /\ LinksExact(pattern, fail, accept)
  BY <1>1, <1>3 DEF BaseInv, LinksInv
<1>6. t \in Ids(vocab)
  BY <1>2, <1>3 DEF Ids
<1>7. vocab[t + 1] \in Seq(Nat)
  BY <1>2, <1>6, TokensAre
<1>8. x = Plain(pattern, vocab, t)
  <2>1. CASE Leaves(vocab[t + 1])
    <3>1. StepBytes(0, vocab[t + 1]) = Reached(pattern, Prefix(pattern, 0) \o vocab[t + 1])
      <4>1. 0 \in 0 .. accept
        BY <1>2
      <4> QED
        BY <1>2, <1>5, <1>7, <4>1, StepBytesIs
    <3>2. Prefix(pattern, 0) \o vocab[t + 1] = vocab[t + 1]
      <4>1. Prefix(pattern, 0) = <<>>
        BY NothingOfIt
      <4> QED
        BY <1>7, <4>1, NothingIs
    <3> QED
      BY <2>1, <3>1, <3>2 DEF Plain
  <2>2. CASE ~Leaves(vocab[t + 1])
    <3>1. \A n \in 1 .. Len(vocab[t + 1]) : vocab[t + 1][n] # pattern[1]
      BY <2>2 DEF Leaves
    <3>2. Reached(pattern, vocab[t + 1]) = 0
      BY <1>2, <1>5, <1>7, <3>1, WithoutFirst
    <3> QED
      BY <2>2, <3>2 DEF Plain
  <2> QED
    BY <2>1, <2>2
<1>9. x \in 0 .. accept
  BY <1>2, <1>7, <1>8, ReachedType DEF Plain
<1> HIDE DEF x
<1>10. /\ base' \in Seq(0 .. accept) /\ Len(base') = Len(base) + 1 /\ base'[t + 1] = x
       /\ \A n \in 1 .. t : base'[n] = base[n]
  BY <1>2, <1>3, <1>9
<1>11. Len(base') <= Len(vocab)
  BY <1>2, <1>3, <1>10
<1>12. DfaTypeOK'
  BY <1>1, <1>4, <1>10, <1>11 DEF DfaTypeOK, Exception
<1>13. LinksInv'
  BY <1>1, <1>4 DEF LinksInv
<1>14. BaseInv'
  <2>1. ASSUME NEW u \in 0 .. Len(base') - 1
        PROVE  base'[u + 1] = Plain(pattern, vocab, u)
    <3>1. CASE u = t
      BY <1>8, <1>10, <3>1
    <3>2. CASE u # t
      <4>1. u \in 0 .. Len(base) - 1 /\ u + 1 \in 1 .. t
        BY <1>2, <1>10, <3>2
      <4> QED
        BY <1>1, <1>10, <4>1 DEF BaseInv
    <3> QED
      BY <3>1, <3>2
  <2>2. (accept > 0 /\ from = 1 /\ sparse = <<>>)' /\ phase' = "base"
    BY <1>1, <1>3, <1>4 DEF BaseInv
  <2> QED
    BY <1>4, <2>1, <2>2 DEF BaseInv, Compiling, Compiled
<1>15. SlicesInv' /\ RowInv'
  BY <1>3, <1>4 DEF SlicesInv, RowInv, Compiling, Compiled
<1>16. StackInv'
  BY <1>1, <1>3, <1>4 DEF StackInv
<1> QED
  BY <1>12, <1>13, <1>14, <1>15, <1>16 DEF DfaInv

LEMMA BaseEndKeeps ==
    ASSUME DfaInv, BaseEnd
    PROVE  DfaInv'
<1>1. DfaTypeOK /\ LinksInv /\ BaseInv /\ StackInv
  BY DEF DfaInv
<1>2. phase = "base" /\ phase' = "state" /\ Len(base) = Len(vocab)
  BY DEF BaseEnd
<1>3. UNCHANGED <<vocab, pattern, i, len, fail, base, sparse, offsets, from, bytes, rangeStart,
                  stack, row, taken, state>> /\ accept' = accept
  BY DEF BaseEnd, compiled, scan, accept
<1>4. accept > 0 /\ from = 1 /\ accept \in Nat
  BY <1>1, <1>2, DfaTyped DEF BaseInv
<1>5. DfaTypeOK'
  BY <1>1, <1>2, <1>3 DEF DfaTypeOK, Exception
<1>6. LinksInv'
  BY <1>1, <1>2, <1>3 DEF LinksInv
<1>7. BaseInv'
  BY <1>1, <1>2, <1>3 DEF BaseInv
<1>8. SlicesInv'
  <2>1. from' \in 1 .. accept' /\ 1 .. from' - 1 = {} /\ ~Compiled'
    BY <1>2, <1>3, <1>4 DEF Compiled
  <2> QED
    BY <2>1 DEF SlicesInv
<1>9. RowInv'
  BY <1>2 DEF RowInv
<1>10. StackInv'
  BY <1>1, <1>2, <1>3 DEF StackInv
<1> QED
  BY <1>5, <1>6, <1>7, <1>8, <1>9, <1>10 DEF DfaInv

-----------------------------------------------------------------------------
(***************************************************************************)
(* The steps of sparse_pass and of traverse.                               *)
(***************************************************************************)

\* What is known while the exceptions are collected.
LEMMA WhileCompiling ==
    ASSUME DfaInv, Compiling
    PROVE  /\ LinksExact(pattern, fail, accept) /\ accept > 0 /\ from \in 1 .. accept
           /\ Len(base) = Len(vocab) /\ \A t \in Ids(vocab) : base[t + 1] = Plain(pattern, vocab, t)
           /\ \A s \in 1 .. from - 1 : SliceDone(sparse, offsets[s], SliceEnd(s), pattern, vocab, s)
<1>1. DfaTypeOK /\ LinksInv /\ BaseInv /\ SlicesInv
  BY DEF DfaInv
<1>2. LinksExact(pattern, fail, accept)
  BY <1>1 DEF LinksInv, Compiling
<1>3. /\ from \in 1 .. accept
      /\ \A s \in 1 .. from - 1 : SliceDone(sparse, offsets[s], SliceEnd(s), pattern, vocab, s)
  BY <1>1 DEF SlicesInv
<1>4. accept > 0
  BY <1>1, <1>3, DfaTyped
<1>5. Len(base) = Len(vocab) /\ \A t \in Ids(vocab) : base[t + 1] = Plain(pattern, vocab, t)
  BY <1>1 DEF BaseInv, Ids
<1> QED
  BY <1>2, <1>3, <1>4, <1>5

\* The tables of the failure links and of base, and the rows, are left alone.
LEMMA TablesStay ==
    ASSUME DfaInv, Compiling, Compiling' \/ phase' = "ready",
           UNCHANGED <<vocab, pattern, i, len, fail, base, row, taken, state>>
    PROVE  LinksInv' /\ BaseInv' /\ RowInv' /\ accept' = accept
<1>1. LinksInv /\ BaseInv
  BY DEF DfaInv
<1>2. accept' = accept
  BY DEF accept
<1>3. LinksInv'
  BY <1>1, <1>2 DEF LinksInv, Compiling
<1>4. BaseInv'
  BY <1>1, <1>2 DEF BaseInv, Compiling
<1>5. RowInv'
  BY DEF RowInv, Compiling
<1> QED
  BY <1>2, <1>3, <1>4, <1>5

LEMMA StartStateKeeps ==
    ASSUME DfaInv, StartState
    PROVE  DfaInv'
<1>1. DfaTypeOK /\ SlicesInv /\ StackInv
  BY DEF DfaInv
<1>2. /\ vocab \in Seq(Token) /\ pattern \in Seq(Byte) /\ accept \in Nat /\ Len(sparse) \in Nat
  BY <1>1, DfaTyped
<1>3. /\ phase = "state" /\ phase' = "bytes" /\ from < accept /\ rangeStart' = Len(sparse)
      /\ offsets' = [offsets EXCEPT ![from] = Len(sparse)] /\ bytes' = Relevant(from)
  BY DEF StartState
<1>4. UNCHANGED <<vocab, pattern, i, len, fail, base, sparse, from, stack, row, taken, state>>
  BY DEF StartState, scan
<1>5. Compiling /\ Compiling' /\ ~Compiled /\ ~Compiled'
  BY <1>3 DEF Compiling, Compiled
<1>6. /\ LinksExact(pattern, fail, accept) /\ accept > 0 /\ from \in 1 .. accept
      /\ \A s \in 1 .. from - 1 : SliceDone(sparse, offsets[s], SliceEnd(s), pattern, vocab, s)
  BY <1>5, WhileCompiling
<1>7. LinksInv' /\ BaseInv' /\ RowInv' /\ accept' = accept
  BY <1>4, <1>5, TablesStay
<1>8. offsets \in [0 .. accept -> 0 .. Len(sparse)]
  BY <1>1 DEF DfaTypeOK
<1>9. from \in 0 .. accept /\ from \in 1 .. accept - 1 /\ Len(sparse) \in 0 .. Len(sparse)
  BY <1>2, <1>3, <1>6
<1>10. /\ offsets' \in [0 .. accept -> 0 .. Len(sparse)] /\ offsets'[from] = Len(sparse)
       /\ \A s \in 0 .. accept : s # from => offsets'[s] = offsets[s]
  BY <1>3, <1>8, <1>9
<1>11. /\ bytes' \in Seq(Byte)
       /\ Pending(vocab, pattern, from, sparse, Len(sparse), <<>>, bytes')
  BY <1>2, <1>3, <1>6, <1>9, StartPending
<1>12. DfaTypeOK'
  BY <1>1, <1>3, <1>4, <1>7, <1>9, <1>10, <1>11 DEF DfaTypeOK, Exception
<1>13. SlicesInv'
  <2>1. ASSUME NEW s \in 1 .. from - 1
        PROVE  offsets'[s] = offsets[s] /\ SliceEnd(s)' = SliceEnd(s)
    <3>1. s \in 0 .. accept /\ s + 1 \in 0 .. accept /\ s # from /\ s + 1 <= from
      BY <1>2, <1>6
    <3>2. CASE s + 1 = from
      <4>1. ~Begun(s + 1) /\ Begun(s + 1)'
        BY <1>3, <1>4, <1>6, <3>2 DEF Begun
      <4> QED
        BY <1>10, <3>1, <3>2, <4>1 DEF SliceEnd
    <3>3. CASE s + 1 # from
      <4>1. s + 1 < from
        BY <1>6, <3>1, <3>3
      <4>2. Begun(s + 1) /\ Begun(s + 1)'
        BY <1>4, <4>1 DEF Begun
      <4> QED
        BY <1>10, <3>1, <3>3, <4>2 DEF SliceEnd
    <3> QED
      BY <3>2, <3>3
  <2>2. \A s \in 1 .. from - 1 : SliceDone(sparse, offsets'[s], SliceEnd(s)', pattern, vocab, s)
    BY <1>6, <2>1
  <2> QED
    BY <1>4, <1>5, <1>6, <1>7, <2>2 DEF SlicesInv
<1>14. StackInv'
  <2>1. stack' = <<>>
    BY <1>1, <1>3, <1>4 DEF StackInv
  <2>2. \A s \in 0 .. accept : offsets'[s] <= Len(sparse)
    BY <1>2, <1>10
  <2>3. phase' = "bytes" /\ rangeStart' = Len(sparse) /\ from < accept /\ offsets'[from] = Len(sparse)
    BY <1>3, <1>10
  <2> QED
    BY <1>4, <1>7, <1>11, <2>1, <2>2, <2>3 DEF StackInv
<1> QED
  BY <1>7, <1>12, <1>13, <1>14 DEF DfaInv

\* The slices of the earlier states while a state's exceptions are collected.
LEMMA SlicesStay ==
    ASSUME DfaInv, phase \in {"bytes", "traverse"}, phase' \in {"bytes", "traverse"},
           UNCHANGED <<vocab, pattern, from, offsets>>, Keeps(sparse, rangeStart, sparse')
    PROVE  SlicesInv'
<1>1. Compiling /\ Compiling' /\ ~Compiled'
  BY DEF Compiling, Compiled
<1>2. /\ from \in 1 .. accept
      /\ \A s \in 1 .. from - 1 : SliceDone(sparse, offsets[s], SliceEnd(s), pattern, vocab, s)
  BY <1>1, WhileCompiling
<1>3. DfaTypeOK /\ StackInv
  BY DEF DfaInv
<1>4. accept \in Nat /\ Len(sparse) \in Nat /\ accept' = accept
  BY <1>3, DfaTyped DEF accept
<1>5. offsets \in [0 .. accept -> 0 .. Len(sparse)] /\ rangeStart \in 0 .. Len(sparse)
  BY <1>3 DEF DfaTypeOK
<1>6. \A s \in 0 .. accept : offsets[s] <= rangeStart
  BY <1>3 DEF StackInv
<1>7. ASSUME NEW s \in 1 .. from - 1
      PROVE  /\ SliceEnd(s)' = SliceEnd(s)
             /\ SliceDone(sparse', offsets[s], SliceEnd(s), pattern, vocab, s)
  <2>1. s \in 0 .. accept /\ s + 1 \in 0 .. accept /\ s + 1 <= from
    BY <1>2, <1>4
  <2>2. Begun(s + 1) /\ Begun(s + 1)'
    BY <1>2, <2>1 DEF Begun
  <2>3. SliceEnd(s) = offsets[s + 1] /\ SliceEnd(s)' = offsets[s + 1]
    BY <2>2 DEF SliceEnd
  <2> DEFINE low == offsets[s]
             high == offsets[s + 1]
  <2>4. low \in Nat /\ high \in Nat /\ high <= rangeStart /\ rangeStart \in Nat
    BY <1>4, <1>5, <1>6, <2>1
  <2>5. SliceDone(sparse, low, high, pattern, vocab, s)
    BY <1>2, <2>3
  <2> HIDE DEF low, high
  <2>6. \A n \in low + 1 .. high : n \in 1 .. rangeStart
    BY <2>4
  <2>7. \A n \in low + 1 .. high : sparse'[n] = sparse[n]
    BY <2>6 DEF Keeps
  <2>8. SliceExact(sparse', low, high, pattern, vocab, s, Ids(vocab))
    BY <2>5, <2>7 DEF SliceDone, SliceExact
  <2>9. low <= high /\ high <= Len(sparse')
    <3>1. low <= high
      BY <2>5 DEF SliceDone
    <3>2. Len(sparse') \in Nat /\ Len(sparse') >= rangeStart
      BY DEF Keeps
    <3> QED
      BY <2>4, <3>1, <3>2
  <2> QED
    BY <2>3, <2>8, <2>9 DEF SliceDone, low, high
<1> QED
  BY <1>1, <1>2, <1>4, <1>7 DEF SlicesInv

LEMMA TakeByteKeeps ==
    ASSUME DfaInv, TakeByte
    PROVE  DfaInv'
<1>1. DfaTypeOK /\ StackInv
  BY DEF DfaInv
<1>2. /\ vocab \in Seq(Token) /\ Sorted(vocab) /\ pattern \in Seq(Byte) /\ accept \in Nat
      /\ sparse \in Seq(Exceptions(vocab, accept)) /\ Len(sparse) \in Nat
  BY <1>1, DfaTyped
<1>3. /\ phase = "bytes" /\ phase' = "traverse" /\ bytes # <<>> /\ bytes' = Tail(bytes)
      /\ stack' = CallsOf(Head(bytes))
  BY DEF TakeByte, CallsOf
<1>4. UNCHANGED <<vocab, pattern, i, len, fail, base, sparse, offsets, from, rangeStart,
                  row, taken, state>>
  BY DEF TakeByte, scan
<1>5. Compiling /\ Compiling'
  BY <1>3 DEF Compiling
<1>6. LinksExact(pattern, fail, accept) /\ accept > 0 /\ from \in 1 .. accept
  BY <1>5, WhileCompiling
<1>7. LinksInv' /\ BaseInv' /\ RowInv' /\ accept' = accept
  BY <1>4, <1>5, TablesStay
<1>8. bytes \in Seq(Byte) /\ rangeStart \in 0 .. Len(sparse)
  BY <1>1 DEF DfaTypeOK
<1>9. /\ stack = <<>> /\ from < accept /\ rangeStart = offsets[from]
      /\ \A s \in 0 .. accept : offsets[s] <= rangeStart
      /\ Pending(vocab, pattern, from, sparse, rangeStart, stack, bytes)
  BY <1>1, <1>3 DEF StackInv
<1>10. from \in 1 .. accept - 1
  BY <1>2, <1>6, <1>9
<1>11. Pending(vocab, pattern, from, sparse, rangeStart, stack', bytes')
  BY <1>2, <1>3, <1>6, <1>8, <1>9, <1>10, BytePending
<1>12. bytes' \in Seq(Byte)
  BY <1>3, <1>8
<1>13. DfaTypeOK'
  BY <1>1, <1>3, <1>4, <1>7, <1>12 DEF DfaTypeOK, Exception
<1>14. Keeps(sparse, rangeStart, sparse')
  BY <1>2, <1>4, <1>8 DEF Keeps
<1>15. SlicesInv'
  BY <1>3, <1>4, <1>14, SlicesStay
<1>16. StackInv'
  BY <1>3, <1>4, <1>7, <1>9, <1>11 DEF StackInv
<1> QED
  BY <1>7, <1>13, <1>15, <1>16 DEF DfaInv

LEMMA TraverseKeeps ==
    ASSUME DfaInv, Traverse
    PROVE  DfaInv'
<1>1. DfaTypeOK /\ StackInv
  BY DEF DfaInv
<1>2. /\ vocab \in Seq(Token) /\ Sorted(vocab) /\ pattern \in Seq(Nat) /\ accept \in Nat
      /\ sparse \in Seq(Exceptions(vocab, accept)) /\ Len(sparse) \in Nat
  BY <1>1, DfaTyped
<1>3. phase = "traverse"
  BY DEF Traverse
<1>4. UNCHANGED <<vocab, pattern, phase, i, len, fail, base, offsets, from, bytes, rangeStart,
                  row, taken, state>>
  BY DEF Traverse, scan
<1>5. Compiling /\ Compiling'
  BY <1>3, <1>4 DEF Compiling
<1>6. /\ LinksExact(pattern, fail, accept) /\ accept > 0 /\ from \in 1 .. accept
      /\ \A t \in Ids(vocab) : base[t + 1] = Plain(pattern, vocab, t)
  BY <1>5, WhileCompiling
<1>7. LinksInv' /\ BaseInv' /\ RowInv' /\ accept' = accept
  BY <1>4, <1>5, TablesStay
<1>8. rangeStart \in 0 .. Len(sparse) /\ offsets \in [0 .. accept -> 0 .. Len(sparse)]
  BY <1>1 DEF DfaTypeOK
<1>9. /\ from < accept /\ rangeStart = offsets[from]
      /\ \A s \in 0 .. accept : offsets[s] <= rangeStart
      /\ Pending(vocab, pattern, from, sparse, rangeStart, stack, bytes)
  BY <1>1, <1>3 DEF StackInv
<1>10. Traversing
  <2>1. from \in 1 .. accept - 1
    BY <1>2, <1>6, <1>9
  <2> QED
    BY <1>2, <1>6, <1>8, <1>9, <2>1 DEF Traversing
<1>11. /\ sparse' \in Seq(Exceptions(vocab, accept)) /\ Keeps(sparse, rangeStart, sparse')
       /\ Pending(vocab, pattern, from, sparse', rangeStart, stack', bytes)
  BY <1>10, TraversePending
<1>12. Len(sparse') \in Nat /\ Len(sparse') >= rangeStart
  BY <1>11 DEF Keeps
<1>13. offsets \in [0 .. accept -> 0 .. Len(sparse')] /\ rangeStart \in 0 .. Len(sparse')
  <2>1. \A s \in 0 .. accept : offsets[s] \in 0 .. Len(sparse')
    BY <1>2, <1>8, <1>9, <1>12
  <2> QED
    BY <1>2, <1>8, <1>12, <2>1
<1>14. sparse' \in Seq(Exception)'
  <2>1. Exception' = Exceptions(vocab, accept)
    BY <1>4, <1>7 DEF Exception, Exceptions
  <2> QED
    BY <1>11, <2>1
<1>15. DfaTypeOK'
  BY <1>1, <1>4, <1>7, <1>13, <1>14 DEF DfaTypeOK
<1>16. SlicesInv'
  BY <1>3, <1>4, <1>11, SlicesStay
<1>17. StackInv'
  BY <1>3, <1>4, <1>7, <1>9, <1>11 DEF StackInv
<1> QED
  BY <1>7, <1>15, <1>16, <1>17 DEF DfaInv

LEMMA EndTraverseKeeps ==
    ASSUME DfaInv, EndTraverse
    PROVE  DfaInv'
<1>1. DfaTypeOK /\ StackInv
  BY DEF DfaInv
<1>2. phase = "traverse" /\ phase' = "bytes" /\ stack = <<>>
  BY DEF EndTraverse
<1>3. UNCHANGED <<vocab, pattern, i, len, fail, base, sparse, offsets, from, bytes, rangeStart,
                  stack, row, taken, state>>
  BY DEF EndTraverse, compiled, scan
<1>4. Compiling /\ Compiling'
  BY <1>2 DEF Compiling
<1>5. LinksInv' /\ BaseInv' /\ RowInv' /\ accept' = accept
  BY <1>3, <1>4, TablesStay
<1>6. DfaTypeOK'
  BY <1>1, <1>2, <1>3, <1>5 DEF DfaTypeOK, Exception
<1>7. Keeps(sparse, rangeStart, sparse')
  <2>1. Len(sparse) \in Nat /\ rangeStart \in 0 .. Len(sparse)
    BY <1>1, DfaTyped DEF DfaTypeOK
  <2> QED
    BY <1>3, <2>1 DEF Keeps
<1>8. SlicesInv'
  BY <1>2, <1>3, <1>7, SlicesStay
<1>9. StackInv'
  BY <1>1, <1>2, <1>3, <1>5 DEF StackInv
<1> QED
  BY <1>5, <1>6, <1>8, <1>9 DEF DfaInv

LEMMA EndOfStateKeeps ==
    ASSUME DfaInv, EndOfState
    PROVE  DfaInv'
<1>1. DfaTypeOK /\ StackInv
  BY DEF DfaInv
<1>2. phase = "bytes" /\ phase' = "state" /\ bytes = <<>> /\ from' = from + 1
  BY DEF EndOfState
<1>3. UNCHANGED <<vocab, pattern, i, len, fail, base, sparse, offsets, bytes, rangeStart,
                  stack, row, taken, state>>
  BY DEF EndOfState, scan
<1>4. Compiling /\ Compiling' /\ ~Compiled'
  BY <1>2 DEF Compiling, Compiled
<1>5. LinksInv' /\ BaseInv' /\ RowInv' /\ accept' = accept
  BY <1>3, <1>4, TablesStay
<1>6. /\ from \in 1 .. accept
      /\ \A s \in 1 .. from - 1 : SliceDone(sparse, offsets[s], SliceEnd(s), pattern, vocab, s)
  BY <1>4, WhileCompiling
<1>7. accept \in Nat /\ Len(sparse) \in Nat
  BY <1>1, DfaTyped
<1>8. /\ stack = <<>> /\ from < accept /\ rangeStart = offsets[from]
      /\ Pending(vocab, pattern, from, sparse, rangeStart, stack, bytes)
  BY <1>1, <1>2 DEF StackInv
<1>9. from' \in 1 .. accept /\ from' \in 1 .. accept + 1 /\ from \in 0 .. accept
  BY <1>2, <1>6, <1>7, <1>8
<1>10. DfaTypeOK'
  BY <1>1, <1>2, <1>3, <1>5, <1>9 DEF DfaTypeOK, Exception
<1>11. SliceDone(sparse, offsets[from], Len(sparse), pattern, vocab, from)
  <2> DEFINE none == <<>>
  <2>1. Settled(vocab, none, none) = Ids(vocab)
    <3>1. 1 .. Len(none) = {}
      OBVIOUS
    <3> HIDE DEF none
    <3> QED
      BY <3>1 DEF Settled
  <2>2. SliceExact(sparse, rangeStart, Len(sparse), pattern, vocab, from, Settled(vocab, none, none))
    BY <1>2, <1>8 DEF Pending
  <2>3. rangeStart <= Len(sparse)
    BY <1>1, <1>7 DEF DfaTypeOK
  <2> QED
    BY <1>7, <1>8, <2>1, <2>2, <2>3 DEF SliceDone
<1>12. SlicesInv'
  <2>1. ASSUME NEW s \in 1 .. from
        PROVE  SliceDone(sparse, offsets[s], SliceEnd(s)', pattern, vocab, s)
    <3>1. CASE s = from
      <4>1. ~Begun(s + 1)'
        BY <1>2, <1>6, <3>1 DEF Begun
      <4> QED
        BY <1>3, <1>11, <3>1, <4>1 DEF SliceEnd
    <3>2. CASE s # from
      <4>1. s \in 1 .. from - 1 /\ (s + 1 < from \/ s + 1 = from) /\ s + 1 < from'
        BY <1>2, <1>6, <3>2
      <4>2. Begun(s + 1) /\ Begun(s + 1)'
        BY <1>2, <4>1 DEF Begun
      <4>3. SliceEnd(s)' = SliceEnd(s)
        BY <1>3, <4>2 DEF SliceEnd
      <4> QED
        BY <1>6, <4>1, <4>3
    <3> QED
      BY <3>1, <3>2
  <2>2. \A s \in 1 .. from' - 1 : s \in 1 .. from
    BY <1>2, <1>6
  <2> QED
    BY <1>3, <1>4, <1>5, <1>9, <2>1, <2>2 DEF SlicesInv
<1>13. StackInv'
  BY <1>2, <1>3, <1>8 DEF StackInv
<1> QED
  BY <1>5, <1>10, <1>12, <1>13 DEF DfaInv

LEMMA FinishCompileKeeps ==
    ASSUME DfaInv, FinishCompile
    PROVE  DfaInv'
<1>1. DfaTypeOK /\ StackInv
  BY DEF DfaInv
<1>2. /\ phase = "state" /\ phase' = "ready" /\ from >= accept
      /\ offsets' = [offsets EXCEPT ![accept] = Len(sparse)]
  BY DEF FinishCompile
<1>3. UNCHANGED <<vocab, pattern, i, len, fail, base, sparse, from, bytes, rangeStart,
                  stack, row, taken, state>>
  BY DEF FinishCompile, scan
<1>4. Compiling
  BY <1>2 DEF Compiling
<1>5. LinksInv' /\ BaseInv' /\ RowInv' /\ accept' = accept
  BY <1>2, <1>3, <1>4, TablesStay
<1>6. /\ from \in 1 .. accept /\ accept > 0
      /\ \A s \in 1 .. from - 1 : SliceDone(sparse, offsets[s], SliceEnd(s), pattern, vocab, s)
  BY <1>4, WhileCompiling
<1>7. accept \in Nat /\ Len(sparse) \in Nat
  BY <1>1, DfaTyped
<1>8. from = accept /\ from \in 0 .. accept /\ Len(sparse) \in 0 .. Len(sparse)
  BY <1>2, <1>6, <1>7
<1>9. offsets \in [0 .. accept -> 0 .. Len(sparse)]
  BY <1>1 DEF DfaTypeOK
<1>10. /\ offsets' \in [0 .. accept -> 0 .. Len(sparse)] /\ offsets'[from] = Len(sparse)
       /\ \A s \in 0 .. accept : s # from => offsets'[s] = offsets[s]
  BY <1>2, <1>8, <1>9
<1>11. DfaTypeOK'
  BY <1>1, <1>2, <1>3, <1>5, <1>10 DEF DfaTypeOK, Exception
<1>12. SlicesInv'
  <2>1. ASSUME NEW s \in 1 .. from - 1
        PROVE  offsets'[s] = offsets[s] /\ SliceEnd(s)' = SliceEnd(s)
    <3>1. s \in 0 .. accept /\ s + 1 \in 0 .. accept /\ s # from /\ s + 1 <= from
      BY <1>6, <1>7
    <3>2. CASE s + 1 = from
      <4>1. ~Begun(s + 1) /\ Begun(s + 1)'
        BY <1>2, <1>3, <1>6, <3>2 DEF Begun
      <4> QED
        BY <1>10, <3>1, <3>2, <4>1 DEF SliceEnd
    <3>3. CASE s + 1 # from
      <4>1. s + 1 < from
        BY <1>6, <3>1, <3>3
      <4>2. Begun(s + 1) /\ Begun(s + 1)'
        BY <1>3, <4>1 DEF Begun
      <4> QED
        BY <1>10, <3>1, <3>3, <4>2 DEF SliceEnd
    <3> QED
      BY <3>2, <3>3
  <2>2. \A s \in 1 .. from - 1 : SliceDone(sparse, offsets'[s], SliceEnd(s)', pattern, vocab, s)
    BY <1>6, <2>1
  <2> QED
    BY <1>3, <1>5, <1>6, <1>8, <2>2 DEF SlicesInv
<1>13. StackInv'
  BY <1>1, <1>2, <1>3 DEF StackInv
<1> QED
  BY <1>5, <1>11, <1>12, <1>13 DEF DfaInv

-----------------------------------------------------------------------------
(***************************************************************************)
(* The rows.                                                               *)
(***************************************************************************)

\* A transition of the compiled automaton.
LEMMA TransitionIs ==
    ASSUME DfaInv, Compiled, NEW s \in 0 .. accept - 1, NEW code \in Nat
    PROVE  NextState(s, code) = IF code < Len(vocab) THEN After(pattern, vocab, s, code) ELSE 0
<1>1. DfaTypeOK /\ BaseInv /\ SlicesInv
  BY DEF DfaInv
<1>2. /\ vocab \in Seq(Token) /\ pattern \in Seq(Nat) /\ accept \in Nat
      /\ sparse \in Seq(Exceptions(vocab, accept))
  BY <1>1, DfaTyped
<1>3. Len(base) = Len(vocab) /\ \A t \in Ids(vocab) : base[t + 1] = Plain(pattern, vocab, t)
  BY <1>1 DEF BaseInv, Ids
<1>4. /\ from = accept /\ phase # "state"
      /\ \A n \in 1 .. from - 1 : SliceDone(sparse, offsets[n], SliceEnd(n), pattern, vocab, n)
  BY <1>1 DEF SlicesInv, Compiled
<1>5. offsets \in [0 .. accept -> 0 .. Len(sparse)]
  BY <1>1 DEF DfaTypeOK
<1>6. s > 0 => /\ offsets[s] \in 0 .. Len(sparse) /\ offsets[s + 1] \in 0 .. Len(sparse)
               /\ SliceExact(sparse, offsets[s], offsets[s + 1], pattern, vocab, s, Ids(vocab))
  <2>1. SUFFICES ASSUME s > 0
                 PROVE  /\ offsets[s] \in 0 .. Len(sparse) /\ offsets[s + 1] \in 0 .. Len(sparse)
                        /\ SliceExact(sparse, offsets[s], offsets[s + 1], pattern, vocab, s, Ids(vocab))
    OBVIOUS
  <2>2. s \in 1 .. from - 1 /\ s \in 0 .. accept /\ s + 1 \in 0 .. accept
        /\ (s + 1 < from \/ s + 1 = from)
    BY <1>2, <1>4, <2>1
  <2>3. SliceEnd(s) = offsets[s + 1]
    BY <1>4, <2>2 DEF SliceEnd, Begun
  <2>4. SliceDone(sparse, offsets[s], offsets[s + 1], pattern, vocab, s)
    BY <1>4, <2>2, <2>3
  <2>5. SliceExact(sparse, offsets[s], offsets[s + 1], pattern, vocab, s, Ids(vocab))
    BY <2>4 DEF SliceDone
  <2> QED
    BY <1>5, <2>2, <2>5
<1> QED
  BY <1>2, <1>3, <1>6, NextStateIs

\* What has occurred has occurred.
LEMMA OccursUpTo ==
    ASSUME NEW p \in Seq(Nat), NEW v \in Seq(Token), NEW r \in Seq(Nat), NEW n \in 0 .. Len(r),
           OccursIn(p, BytesUpTo(v, r, n))
    PROVE  OccursIn(p, BytesUpTo(v, r, Len(r)))
<1> DEFINE last == Len(r)
           Has == {m \in Nat : m >= n => OccursIn(p, BytesUpTo(v, r, m))}
<1>1. last \in Nat /\ n \in Nat /\ n <= last
  OBVIOUS
<1>2. 0 \in Has
  BY <1>1
<1>3. ASSUME NEW m \in 0 .. last - 1, m \in Has
      PROVE  m + 1 \in Has
  <2>1. /\ m \in 0 .. Len(r) /\ m + 1 \in 0 .. Len(r) /\ m + 1 \in 1 .. Len(r) /\ m + 1 # 0
        /\ (m + 1) - 1 = m /\ m + 1 \in Nat
    BY <1>1
  <2>2. CASE m >= n
    <3>1. OccursIn(p, BytesUpTo(v, r, m))
      BY <1>3, <2>2
    <3>2. BytesUpTo(v, r, m) \in Seq(Nat)
      BY <2>1, BytesUpToIs
    <3>3. BytesUpTo(v, r, m + 1) = BytesUpTo(v, r, m) \o PieceOf(v, r[m + 1])
      <4>1. \A j \in 0 .. Len(r) : j # 0 =>
                BytesUpTo(v, r, j) = BytesUpTo(v, r, j - 1) \o PieceOf(v, r[j])
        BY BytesUpToIs
      <4> QED
        BY <2>1, <4>1
    <3>4. r[m + 1] \in Nat
      BY <2>1, ElementOfSeq
    <3>5. PieceOf(v, r[m + 1]) \in Seq(Nat)
      BY <3>4, PieceType
    <3>6. OccursIn(p, BytesUpTo(v, r, m) \o PieceOf(v, r[m + 1]))
      BY <3>1, <3>2, <3>5, OccursInMore
    <3> QED
      BY <2>1, <3>3, <3>6
  <2>3. CASE ~(m >= n)
    <3>1. m + 1 >= n => m + 1 = n
      BY <1>1, <2>3
    <3> QED
      BY <2>1, <3>1
  <2> QED
    BY <2>2, <2>3
<1> HIDE DEF Has, last
<1>4. \A m \in 0 .. last : m \in Has
  BY <1>1, <1>2, <1>3, UpwardInduction
<1>5. last \in Has
  BY <1>1, <1>4
<1> QED
  BY <1>1, <1>5 DEF Has, last

\* One code: from what the bytes read have reached to what they and its bytes reach.
LEMMA OneCode ==
    ASSUME DfaInv, Compiled, row \in Seq(Nat), taken \in 0 .. Len(row) - 1, state \in 0 .. accept - 1,
           state = Reached(pattern, BytesUpTo(vocab, row, taken))
    PROVE  NextState(state, row[taken + 1]) = Reached(pattern, BytesUpTo(vocab, row, taken + 1))
<1> DEFINE d == BytesUpTo(vocab, row, taken)
           code == row[taken + 1]
<1>1. /\ vocab \in Seq(Token) /\ pattern \in Seq(Byte) /\ pattern \in Seq(Nat) /\ accept \in Nat
      /\ accept = Len(pattern) /\ Len(vocab) \in Nat
  BY DfaTyped DEF DfaInv
<1>2. Len(pattern) > 0
  BY <1>1 DEF Compiled
<1>3. /\ taken \in 0 .. Len(row) /\ taken + 1 \in 0 .. Len(row) /\ taken + 1 \in 1 .. Len(row)
      /\ taken + 1 # 0 /\ (taken + 1) - 1 = taken
  OBVIOUS
<1>4. code \in Nat
  BY <1>3, ElementOfSeq
<1>5. d \in Seq(Nat) /\ BytesUpTo(vocab, row, taken + 1) = d \o PieceOf(vocab, code)
  BY <1>1, <1>3, BytesUpToIs
<1> HIDE DEF d, code
<1>6. NextState(state, code) = IF code < Len(vocab) THEN After(pattern, vocab, state, code) ELSE 0
  BY <1>4, TransitionIs
<1>7. state = Reached(pattern, d)
  BY DEF d
<1>8. CASE code < Len(vocab)
  <2>1. PieceOf(vocab, code) = vocab[code + 1] /\ PieceOf(vocab, code) \in Seq(Nat)
    BY <1>1, <1>4, <1>8, PieceType DEF PieceOf
  <2>2. Reached(pattern, d \o vocab[code + 1])
            = Reached(pattern, Prefix(pattern, Reached(pattern, d)) \o vocab[code + 1])
    BY <1>1, <1>2, <1>5, <2>1, ReachedByAll
  <2>3. Reached(pattern, d \o vocab[code + 1]) = After(pattern, vocab, state, code)
    BY <1>7, <2>2 DEF After
  <2> QED
    BY <1>5, <1>6, <1>8, <2>1, <2>3 DEF code
<1>9. CASE ~(code < Len(vocab))
  <2>1. PieceOf(vocab, code) = <<NumBytes>> /\ NumBytes \in Nat
    BY <1>9, BytesAssumption DEF PieceOf
  <2>2. d \o PieceOf(vocab, code) = Append(d, NumBytes)
    BY <1>5, <2>1
  <2>3. ~OccursIn(pattern, d)
    <3>1. Reached(pattern, d) # Len(pattern)
      BY <1>1, <1>7
    <3> QED
      BY <1>1, <1>5, <3>1, ReachedAllOfIt
  <2>4. \A n \in 1 .. Len(pattern) : pattern[n] # NumBytes
    <3>1. \A n \in 1 .. Len(pattern) : pattern[n] \in Byte
      BY <1>1, ElementOfSeq
    <3> QED
      BY <2>1, <3>1 DEF Byte
  <2>5. Reached(pattern, Append(d, NumBytes)) = 0
    BY <1>1, <1>2, <1>5, <2>1, <2>3, <2>4, ForeignByte
  <2> QED
    BY <1>5, <1>6, <1>9, <2>2, <2>5 DEF code
<1> QED
  BY <1>8, <1>9

\* The automaton is compiled and stays as it is.
LEMMA AutomatonStays ==
    ASSUME DfaInv, phase \in {"ready", "row"}, phase' \in {"row", "answered"},
           UNCHANGED <<vocab, pattern, compiled>>
    PROVE  LinksInv' /\ BaseInv' /\ SlicesInv' /\ StackInv' /\ accept' = accept
<1>1. LinksInv /\ BaseInv /\ SlicesInv /\ StackInv
  BY DEF DfaInv
<1>2. UNCHANGED <<i, len, fail, base, sparse, offsets, from, bytes, rangeStart, stack>>
      /\ accept' = accept
  BY DEF compiled, accept
<1>3. LinksInv'
  BY <1>1, <1>2 DEF LinksInv
<1>4. Compiled' <=> Compiled
  BY <1>2 DEF Compiled
<1>5. ~Compiling /\ ~Compiling'
  BY DEF Compiling
<1>6. BaseInv'
  BY <1>1, <1>2, <1>4, <1>5 DEF BaseInv
<1>7. \A s : SliceEnd(s)' = SliceEnd(s)
  BY <1>2 DEF SliceEnd, Begun
<1>8. SlicesInv'
  BY <1>1, <1>2, <1>4, <1>5, <1>7 DEF SlicesInv
<1>9. StackInv'
  BY <1>1, <1>2 DEF StackInv
<1> QED
  BY <1>2, <1>3, <1>6, <1>8, <1>9

LEMMA StartRowKeeps ==
    ASSUME DfaInv, StartRow
    PROVE  DfaInv'
<1>1. DfaTypeOK
  BY DEF DfaInv
<1>2. /\ phase = "ready" /\ phase' = "row" /\ row' \in CodeRows /\ taken' = 0 /\ state' = 0
      /\ UNCHANGED <<vocab, pattern, compiled>>
  BY DEF StartRow
<1>3. LinksInv' /\ BaseInv' /\ SlicesInv' /\ StackInv' /\ accept' = accept
  BY <1>2, AutomatonStays
<1>4. vocab \in Seq(Token) /\ pattern \in Seq(Nat) /\ accept \in Nat /\ accept = Len(pattern)
  BY <1>1, DfaTyped
<1>5. row' \in Seq(Nat)
  BY <1>2, DfaAssumption
<1>6. Len(row') \in Nat /\ 0 \in 0 .. Len(row') /\ 0 \in 0 .. accept
  BY <1>4, <1>5
<1>7. DfaTypeOK'
  <2>1. UNCHANGED <<i, len, fail, base, sparse, offsets, from, bytes, rangeStart>>
    BY <1>2 DEF compiled
  <2> QED
    BY <1>1, <1>2, <1>3, <1>5, <1>6, <2>1 DEF DfaTypeOK, Exception
<1>8. RowInv'
  <2> DEFINE none == <<>>
  <2>1. BytesUpTo(vocab, row', 0) = none
    BY <1>4, <1>5, <1>6, BytesUpToIs
  <2>2. Reached(pattern, none) = 0
    <3>1. Reached(pattern, Prefix(pattern, 0)) = 0
      <4>1. 0 \in 0 .. Len(pattern)
        BY <1>4
      <4> QED
        BY <1>4, <4>1, ReachedOfPrefix
    <3> QED
      BY <3>1, NothingOfIt
  <2> HIDE DEF none
  <2> QED
    BY <1>2, <2>1, <2>2 DEF RowInv
<1> QED
  BY <1>3, <1>7, <1>8 DEF DfaInv

LEMMA RowStepKeeps ==
    ASSUME DfaInv, RowStep
    PROVE  DfaInv'
<1>1. DfaTypeOK /\ RowInv
  BY DEF DfaInv
<1>2. /\ phase = "row" /\ phase' = "row" /\ taken < Len(row) /\ state # accept
      /\ state' = NextState(state, row[taken + 1]) /\ taken' = taken + 1
      /\ UNCHANGED <<vocab, pattern, compiled, row>>
  BY DEF RowStep
<1>3. LinksInv' /\ BaseInv' /\ SlicesInv' /\ StackInv' /\ accept' = accept
  BY <1>2, AutomatonStays
<1>4. vocab \in Seq(Token) /\ pattern \in Seq(Nat) /\ accept \in Nat /\ accept = Len(pattern)
  BY <1>1, DfaTyped
<1>5. row \in Seq(Nat) /\ taken \in 0 .. Len(row) /\ state \in 0 .. accept
  BY <1>1 DEF DfaTypeOK
<1>6. /\ taken \in 0 .. Len(row) - 1 /\ taken + 1 \in 0 .. Len(row) /\ state \in 0 .. accept - 1
      /\ accept > 0
  BY <1>2, <1>4, <1>5
<1>7. Compiled
  BY <1>2, <1>6 DEF Compiled
<1>8. state = Reached(pattern, BytesUpTo(vocab, row, taken))
  BY <1>1, <1>2 DEF RowInv
<1>9. NextState(state, row[taken + 1]) = Reached(pattern, BytesUpTo(vocab, row, taken + 1))
  BY <1>5, <1>6, <1>7, <1>8, OneCode
<1>10. state' \in 0 .. accept
  <2>1. BytesUpTo(vocab, row, taken + 1) \in Seq(Nat)
    BY <1>4, <1>5, <1>6, BytesUpToIs
  <2> QED
    BY <1>2, <1>4, <1>9, <2>1, ReachedType
<1>11. DfaTypeOK'
  <2>1. UNCHANGED <<i, len, fail, base, sparse, offsets, from, bytes, rangeStart>>
    BY <1>2 DEF compiled
  <2>2. taken' \in 0 .. Len(row)
    BY <1>2, <1>6
  <2> QED
    BY <1>1, <1>2, <1>3, <1>10, <2>1, <2>2 DEF DfaTypeOK, Exception
<1>12. RowInv'
  BY <1>2, <1>9 DEF RowInv
<1> QED
  BY <1>3, <1>11, <1>12 DEF DfaInv

LEMMA AnswerKeeps ==
    ASSUME DfaInv, Answer
    PROVE  DfaInv'
<1>1. DfaTypeOK /\ RowInv
  BY DEF DfaInv
<1>2. /\ phase = "row" /\ phase' = "answered" /\ (taken = Len(row) \/ state = accept)
      /\ UNCHANGED <<vocab, pattern, compiled, row, taken, state>>
  BY DEF Answer, scan
<1>3. LinksInv' /\ BaseInv' /\ SlicesInv' /\ StackInv' /\ accept' = accept
  BY <1>2, AutomatonStays
<1>4. vocab \in Seq(Token) /\ pattern \in Seq(Nat) /\ accept = Len(pattern)
  BY <1>1, DfaTyped
<1>5. row \in Seq(Nat) /\ taken \in 0 .. Len(row) /\ Len(row) \in 0 .. Len(row)
  BY <1>1 DEF DfaTypeOK
<1>6. DfaTypeOK'
  <2>1. UNCHANGED <<i, len, fail, base, sparse, offsets, from, bytes, rangeStart>>
    BY <1>2 DEF compiled
  <2> QED
    BY <1>1, <1>2, <1>3, <2>1 DEF DfaTypeOK, Exception
<1>7. state = Reached(pattern, BytesUpTo(vocab, row, taken))
  BY <1>1, <1>2 DEF RowInv
<1>8. \A n \in 0 .. Len(row) : BytesUpTo(vocab, row, n) \in Seq(Nat)
  BY <1>4, <1>5, BytesUpToIs
<1>9. \A n \in 0 .. Len(row) :
            Reached(pattern, BytesUpTo(vocab, row, n)) = accept
                <=> OccursIn(pattern, BytesUpTo(vocab, row, n))
  BY <1>4, <1>8, ReachedAllOfIt
<1>10. state = accept <=> OccursIn(pattern, BytesUpTo(vocab, row, Len(row)))
  <2>1. CASE taken = Len(row)
    BY <1>5, <1>7, <1>9, <2>1
  <2>2. CASE state = accept
    <3>1. OccursIn(pattern, BytesUpTo(vocab, row, taken))
      BY <1>5, <1>7, <1>9, <2>2
    <3> QED
      BY <1>4, <1>5, <2>2, <3>1, OccursUpTo
  <2> QED
    BY <1>2, <2>1, <2>2
<1>11. RowInv'
  BY <1>2, <1>3, <1>7, <1>10 DEF RowInv
<1> QED
  BY <1>3, <1>6, <1>11 DEF DfaInv

LEMMA StutterKeeps ==
    ASSUME DfaInv, UNCHANGED dfa_vars
    PROVE  DfaInv'
<1>1. UNCHANGED <<vocab, pattern, phase, i, len, fail, base, sparse, offsets, from, bytes,
                  rangeStart, stack, row, taken, state>> /\ accept' = accept
  BY DEF dfa_vars, compiled, scan, accept
<1>2. DfaTypeOK'
  BY <1>1 DEF DfaInv, DfaTypeOK, Exception
<1>3. LinksInv' /\ BaseInv'
  BY <1>1 DEF DfaInv, LinksInv, BaseInv, Compiling, Compiled
<1>4. SlicesInv'
  BY <1>1 DEF DfaInv, SlicesInv, SliceEnd, Begun, Compiling, Compiled
<1>5. StackInv' /\ RowInv'
  BY <1>1 DEF DfaInv, StackInv, RowInv
<1> QED
  BY <1>2, <1>3, <1>4, <1>5 DEF DfaInv

\* Every step of the automaton preserves the invariant.
THEOREM DfaInvHolds == DfaSpec => []DfaInv
<1>1. DfaInit => DfaInv
  BY InitIsDfaInv
<1>2. DfaInv /\ [DfaNext]_dfa_vars => DfaInv'
  <2>1. ASSUME DfaInv, DfaNext
        PROVE  DfaInv'
    BY <2>1, FailureStepKeeps, FailureEndKeeps, BaseStepKeeps, BaseEndKeeps, StartStateKeeps,
       TakeByteKeeps, TraverseKeeps, EndTraverseKeeps, EndOfStateKeeps, FinishCompileKeeps,
       StartRowKeeps, RowStepKeeps, AnswerKeeps DEF DfaNext
  <2> QED
    BY <2>1, StutterKeeps
<1> QED
  BY <1>1, <1>2, PTL DEF DfaSpec

-----------------------------------------------------------------------------
(***************************************************************************)
(* The properties.                                                         *)
(***************************************************************************)

\* A border as the model states it.
LEMMA BorderIs ==
    ASSUME pattern \in Seq(Nat), NEW n \in 1 .. accept, NEW m \in 0 .. n
    PROVE  Border(m, n) <=> EndsWith(pattern, Prefix(pattern, n), m)
<1> DEFINE d == SubSeq(pattern, 1, n)
<1>1. n \in 0 .. Len(pattern) /\ m \in 0 .. Len(pattern) /\ m <= n
  BY DEF accept
<1>2. d \in Seq(Nat) /\ Len(d) = n /\ \A j \in 1 .. n : d[j] = pattern[j]
  BY <1>1, PrefixIs
<1>3. SubSeq(d, n - m + 1, n) = SubSeq(pattern, n - m + 1, n)
  <2> DEFINE x == SubSeq(d, n - m + 1, n)
             y == SubSeq(pattern, n - m + 1, n)
  <2> HIDE DEF d
  <2>1. x \in Seq(Nat) /\ Len(x) = m /\ \A j \in 1 .. m : x[j] = d[n - m + j]
    <3>1. d \in Seq(Nat) /\ n \in 0 .. Len(d)
      BY <1>1, <1>2
    <3> QED
      BY <3>1, EndIs, Zenon
  <2>2. y \in Seq(Nat) /\ Len(y) = m /\ \A j \in 1 .. m : y[j] = pattern[n - m + j]
    BY <1>1, EndIs
  <2>3. \A j \in 1 .. m : n - m + j \in 1 .. n
    BY <1>1
  <2>4. \A j \in 1 .. m : x[j] = y[j]
    BY <1>2, <2>1, <2>2, <2>3
  <2> HIDE DEF x, y
  <2>5. x = y
    BY <2>1, <2>2, <2>4
  <2> QED
    BY <2>5 DEF x, y
<1> HIDE DEF d
<1>4. SubSeq(pattern, 1, m) = SubSeq(d, n - m + 1, n) <=> EndsWith(pattern, d, m)
  BY <1>1, <1>2, EndsIs
<1> QED
  BY <1>3, <1>4 DEF Border, Prefix, d

\* What the invariant says of the properties' parts.
LEMMA LinksAreBorders ==
    ASSUME DfaInv
    PROVE  FailureIsLongestBorder
<1>1. DfaTypeOK /\ LinksInv
  BY DEF DfaInv
<1>2. pattern \in Seq(Nat) /\ accept \in Nat
  BY <1>1, DfaTyped
<1>3. SUFFICES ASSUME accept \in 1 .. MaxPatternLen,
                      NEW n \in 1 .. IF phase = "failure" THEN i ELSE accept
               PROVE  /\ fail[n] < n /\ Border(fail[n], n)
                      /\ \A m \in fail[n] + 1 .. n - 1 : ~Border(m, n)
  BY <1>1 DEF FailureIsLongestBorder
<1>4. phase # "too_long"
  BY <1>1, <1>2, <1>3, DfaAssumption DEF LinksInv
<1>5. n \in 1 .. accept /\ fail[n] \in 0 .. n - 1
      /\ EndsWith(pattern, Prefix(pattern, n), fail[n])
      /\ \A m \in fail[n] + 1 .. n - 1 : ~EndsWith(pattern, Prefix(pattern, n), m)
  <2>1. CASE phase = "failure"
    <3>1. i \in 1 .. accept /\ LinksExact(pattern, fail, i)
      BY <1>1, <2>1 DEF LinksInv, Linking
    <3>2. n \in 1 .. i /\ n \in 1 .. accept
      BY <1>2, <2>1, <3>1
    <3> QED
      BY <3>1, <3>2 DEF LinksExact
  <2>2. CASE phase # "failure"
    <3>1. LinksExact(pattern, fail, accept)
      BY <1>1, <1>4, <2>2 DEF LinksInv
    <3> QED
      BY <2>2, <3>1 DEF LinksExact
  <2> QED
    BY <2>1, <2>2
<1>6. \A m \in 0 .. n : Border(m, n) <=> EndsWith(pattern, Prefix(pattern, n), m)
  BY <1>2, <1>5, BorderIs
<1>7. fail[n] \in 0 .. n /\ fail[n] < n /\ \A m \in fail[n] + 1 .. n - 1 : m \in 0 .. n
  BY <1>2, <1>5
<1> QED
  BY <1>5, <1>6, <1>7

\* What an exact slice says of the order of its exceptions.
LEMMA SliceInOrder ==
    ASSUME NEW v \in Seq(Token), NEW q \in Nat, NEW ex \in Seq(Exceptions(v, q)), NEW p, NEW s,
           NEW low \in Nat, NEW high \in Nat, high <= Len(ex), NEW D,
           SliceExact(ex, low, high, p, v, s, D),
           \A t \in Ids(v) : base[t + 1] = Plain(p, v, t), NEW n \in low + 1 .. high
    PROVE  /\ ex[n].begin <= ex[n].last
           /\ n > low + 1 => ex[n - 1].last < ex[n].begin
           /\ \A t \in ex[n].begin .. ex[n].last : base[t + 1] # ex[n].target
<1>1. Len(ex) \in Nat /\ Len(v) \in Nat
  OBVIOUS
<1>2. n \in 1 .. Len(ex)
  BY <1>1
<1>3. ex[n] \in Exceptions(v, q)
  BY <1>2, ElementOfSeq
<1> DEFINE x == ex[n]
<1>4. x.begin \in Ids(v) /\ x.last \in Ids(v)
  BY <1>3, ExceptionsAre
<1>5. Right(p, v, s, x)
  BY DEF SliceExact
<1>6. n > low + 1 => ex[n - 1].last < x.begin
  <2>1. SUFFICES ASSUME n > low + 1 PROVE ex[n - 1].last < x.begin
    OBVIOUS
  <2>2. n - 1 \in low + 1 .. high /\ n - 1 < n
    BY <2>1
  <2> QED
    BY <2>2 DEF SliceExact
<1> HIDE DEF x
<1>7. x.begin <= x.last
  BY <1>5 DEF Right
<1>8. ASSUME NEW t \in x.begin .. x.last
      PROVE  base[t + 1] # x.target
  <2>1. t \in Ids(v)
    BY <1>1, <1>4 DEF Ids
  <2>2. Plain(p, v, t) # x.target
    BY <1>5 DEF Right
  <2> QED
    BY <2>1, <2>2
<1> QED
  BY <1>6, <1>7, <1>8 DEF x

LEMMA SlicesInOrder ==
    ASSUME DfaInv
    PROVE  ExceptionsInOrder
<1>1. DfaTypeOK /\ BaseInv /\ SlicesInv /\ StackInv
  BY DEF DfaInv
<1>2. /\ vocab \in Seq(Token) /\ accept \in Nat /\ Len(sparse) \in Nat
      /\ sparse \in Seq(Exceptions(vocab, accept))
  BY <1>1, DfaTyped
<1>3. offsets \in [0 .. accept -> 0 .. Len(sparse)] /\ from \in 1 .. accept + 1
  BY <1>1 DEF DfaTypeOK
<1>4. SUFFICES ASSUME NEW s \in 1 .. accept - 1, Begun(s), NEW n \in offsets[s] + 1 .. SliceEnd(s)
               PROVE  /\ sparse[n].begin <= sparse[n].last
                      /\ n > offsets[s] + 1 => sparse[n - 1].last < sparse[n].begin
                      /\ \A t \in sparse[n].begin .. sparse[n].last : base[t + 1] # sparse[n].target
  BY DEF ExceptionsInOrder
<1>5. s \in 0 .. accept /\ s + 1 \in 0 .. accept /\ accept > 0
  BY <1>2
<1>6. offsets[s] \in Nat /\ SliceEnd(s) \in Nat /\ SliceEnd(s) <= Len(sparse)
  BY <1>2, <1>3, <1>5 DEF SliceEnd
<1>7. Compiling \/ Compiled
  <2>1. CASE sparse = <<>>
    <3>1. Len(sparse) = 0
      BY <2>1
    <3> QED
      BY <1>4, <1>6, <3>1
  <2>2. CASE sparse # <<>>
    <3>1. phase \notin {"failure", "base", "too_long"}
      BY <1>1, <2>2 DEF BaseInv
    <3>2. phase \in {"state", "bytes", "traverse", "ready", "row", "answered"}
      BY <1>1, <3>1 DEF DfaTypeOK
    <3> QED
      BY <1>5, <3>1, <3>2 DEF Compiling, Compiled
  <2> QED
    BY <2>1, <2>2
<1>8. /\ \A t \in Ids(vocab) : base[t + 1] = Plain(pattern, vocab, t)
      /\ from \in 1 .. accept
      /\ \A m \in 1 .. from - 1 : SliceDone(sparse, offsets[m], SliceEnd(m), pattern, vocab, m)
      /\ Compiled => from = accept
  BY <1>1, <1>7 DEF BaseInv, SlicesInv, Ids
<1>9. PICK D : SliceExact(sparse, offsets[s], SliceEnd(s), pattern, vocab, s, D)
  <2>1. CASE s < from
    <3>1. s \in 1 .. from - 1
      BY <1>8, <2>1
    <3> QED
      BY <1>8, <3>1 DEF SliceDone
  <2>2. CASE ~(s < from)
    <3>1. s = from /\ phase # "state"
      BY <1>4, <2>2 DEF Begun
    <3>2. ~Compiled
      BY <1>2, <1>8, <3>1
    <3>3. phase \in {"bytes", "traverse"}
      BY <1>7, <3>1, <3>2 DEF Compiling
    <3>4. /\ rangeStart = offsets[from]
          /\ Pending(vocab, pattern, from, sparse, rangeStart, stack, bytes)
      BY <1>1, <3>3 DEF StackInv
    <3>5. SliceEnd(s) = Len(sparse)
      BY <1>8, <3>1 DEF SliceEnd, Begun
    <3> QED
      BY <3>1, <3>4, <3>5 DEF Pending
  <2> QED
    BY <2>1, <2>2
<1> DEFINE low == offsets[s]
           high == SliceEnd(s)
<1>10. /\ low \in Nat /\ high \in Nat /\ high <= Len(sparse) /\ n \in low + 1 .. high
       /\ SliceExact(sparse, low, high, pattern, vocab, s, D)
  BY <1>6, <1>9
<1> HIDE DEF low, high
<1>11. /\ sparse[n].begin <= sparse[n].last
       /\ n > low + 1 => sparse[n - 1].last < sparse[n].begin
       /\ \A t \in sparse[n].begin .. sparse[n].last : base[t + 1] # sparse[n].target
  BY <1>2, <1>8, <1>10, SliceInOrder
<1> QED
  BY <1>11 DEF low

LEMMA TransitionsAreMatched ==
    ASSUME DfaInv
    PROVE  TransitionsAreExact
<1>1. DfaTypeOK
  BY DEF DfaInv
<1>2. ASSUME phase = "ready", accept > 0, NEW s \in 0 .. accept - 1, NEW t \in Ids(vocab)
      PROVE  NextState(s, t) = Matched(SubSeq(pattern, 1, s) \o vocab[t + 1])
  <2>1. Compiled
    BY <1>2 DEF Compiled
  <2>2. t \in Nat /\ t < Len(vocab)
    BY <1>1, DfaTyped DEF Ids
  <2>3. NextState(s, t) = After(pattern, vocab, s, t)
    BY <2>1, <2>2, TransitionIs
  <2> QED
    BY <2>3, MatchedIsReached DEF After, Prefix
<1> QED
  BY <1>2, LinksAreBorders, SlicesInOrder DEF TransitionsAreExact

LEMMA RowsAreMatched ==
    ASSUME DfaInv
    PROVE  RowContainsIsExact
<1>1. RowInv
  BY DEF DfaInv
<1>2. RowBytes(taken) = BytesUpTo(vocab, row, taken)
      /\ RowBytes(Len(row)) = BytesUpTo(vocab, row, Len(row))
  BY RowBytesAre
<1> QED
  BY <1>1, <1>2, MatchedIsReached DEF RowInv, RowContainsIsExact

\* kmp_failure yields the longest proper borders, the exceptions of every state are ascending
\* and disjoint and none repeats the transition from state 0, and every transition of the
\* compiled automaton is that of the byte automaton over the whole token.
THEOREM TransitionsStayExact == DfaSpec => []TransitionsAreExact
<1>1. DfaInv => TransitionsAreExact
  BY TransitionsAreMatched
<1> QED
  BY <1>1, DfaInvHolds, PTL

\* row_contains answers exactly whether the bytes of the row contain the pattern, whatever
\* codes the row has, and its state is at every code what the bytes so far amount to.
THEOREM RowsAnswerExactly == DfaSpec => []RowContainsIsExact
<1>1. DfaInv => RowContainsIsExact
  BY RowsAreMatched
<1> QED
  BY <1>1, DfaInvHolds, PTL
=============================================================================
