--------------------------- MODULE TrainerProofs ---------------------------
(***************************************************************************)
(* Proofs about Trainer, for every alphabet, token size, capacity, corpus  *)
(* and configuration: training never enters a token twice, its ids never   *)
(* wrap, its counters never saturate, and it refines DictionaryGrowth.     *)
(*                                                                         *)
(* The argument turns on PrevIsLongest: the token before pos is still the  *)
(* longest one that starts where it starts, so that the longer merged pair *)
(* cannot be in the dictionary.                                            *)
(***************************************************************************)
EXTENDS Trainer, ByteStringsProofs, FunctionTheorems

\* While rows are scanned the dictionary has room.
ScanHasRoom == stage \in {"order", "row"} => ~fullDictionary

\* The local threshold is the configured one, or the controller's.
ThresholdInStep == threshold = IF Dynamic THEN ctrl.threshold ELSE config.value

IInv ==
    /\ TypeOK
    /\ SingleByteTokens \subseteq Tokens
    /\ PrevIsLongest
    /\ IdsArePositions
    /\ CapacityRespected
    /\ ScanHasRoom
    /\ ThresholdInStep
    /\ CountsNeverSaturate

-----------------------------------------------------------------------------
(***************************************************************************)
(* The controller.                                                         *)
(***************************************************************************)

LEMMA NewControllerType ==
    ASSUME NEW capacity \in Nat, NEW budget \in Nat
    PROVE  NewController(capacity, budget) \in Controller
<1>1. CheckInterval(capacity) \in Nat \ {0}
  BY ThresholdAssumption DEF CheckInterval
<1> QED
  BY <1>1, ThresholdAssumption DEF NewController, Controller

LEMMA OnBytesScannedType ==
    ASSUME NEW c \in Controller, NEW n \in Nat
    PROVE  /\ OnBytesScanned(c, n) \in Controller
           /\ OnBytesScanned(c, n).threshold = c.threshold
  BY DEF OnBytesScanned, Controller

LEMMA OnEntryCreatedType ==
    ASSUME NEW c \in Controller
    PROVE  OnEntryCreated(c) \in Controller
<1> DEFINE created == [c EXCEPT !.entriesCreated = @ + 1]
<1>1. created \in Controller
  BY DEF Controller
<1>2. ASSUME NEW d \in Controller
      PROVE  Rebalance(d) \in Controller
  <2> DEFINE t == IF TooFast(d) /\ d.threshold < MaxThreshold THEN d.threshold + 1
                  ELSE IF TooSlow(d) /\ d.threshold > MinThreshold THEN d.threshold - 1
                  ELSE d.threshold
  <2>1. d.threshold \in MinThreshold .. MaxThreshold
    BY DEF Controller
  <2>2. t \in MinThreshold .. MaxThreshold
    BY <2>1, ThresholdAssumption
  <2>3. Rebalance(d) = [d EXCEPT !.threshold = t,
                                 !.entriesAtCheck = d.entriesCreated,
                                 !.bytesAtCheck = d.bytesScanned,
                                 !.nextCheckpoint = d.entriesCreated + d.checkInterval]
    BY DEF Rebalance
  <2> HIDE DEF t
  <2>4. d.entriesCreated + d.checkInterval \in Nat
    BY DEF Controller
  <2>5. d.entriesCreated \in Nat /\ d.bytesScanned \in Nat /\ d.checkInterval \in Nat
    BY DEF Controller
  <2> QED
    BY <2>2, <2>3, <2>4, <2>5 DEF Controller
<1>3. OnEntryCreated(c) = IF created.entriesCreated >= created.nextCheckpoint
                          THEN Rebalance(created) ELSE created
  BY DEF OnEntryCreated
<1> QED
  BY <1>1, <1>2, <1>3

LEMMA ScannedType ==
    ASSUME NEW n \in Nat, ctrl \in Controller
    PROVE  /\ Scanned(n) \in Controller
           /\ Scanned(n).threshold = ctrl.threshold
  BY OnBytesScannedType DEF Scanned

-----------------------------------------------------------------------------
(***************************************************************************)
(* What one iteration of the merge loop finds.                             *)
(***************************************************************************)

\* The match at pos is the longest dictionary token there, and its id names it.
LEMMA CurrentFound ==
    ASSUME IInv, stage = "row", pos < Len(row)
    PROVE  /\ Current \in Token /\ Current \in Tokens
           /\ IsLongestAt(Tokens, row, pos, Current)
           /\ Len(Current) \in 1 .. MaxTokenSize
           /\ pos + Len(Current) \in 0 .. Len(row)
           /\ ids[Current] \in 0 .. TokenSpace - 1
           /\ ids[Current] + 1 \in DOMAIN dict
           /\ dict[ids[Current] + 1] = Current
<1>1. Tokens \in SUBSET Token /\ row \in ByteSeq /\ pos \in Nat
  BY LenProperties DEF IInv, TypeOK, ByteSeq
<1>2. IsLongestAt(Tokens, row, pos, Current)
  BY <1>1, LongestMatchFound DEF IInv, Current
<1>3. Current \in Tokens /\ Current \in Token
  BY <1>1, <1>2 DEF IsLongestAt
<1>4. Len(Current) \in 1 .. MaxTokenSize /\ pos + Len(Current) <= Len(row)
  BY <1>2, <1>3, TokenType DEF IsLongestAt, StartsAt
<1>5. PICK i \in DOMAIN dict : dict[i] = Current /\ ids[Current] = i - 1
  BY <1>3 DEF IInv, IdsArePositions
<1>6. DOMAIN dict = 1 .. Len(dict) /\ Len(dict) \in Nat
  BY LenProperties DEF IInv, TypeOK
<1>7. ids[Current] + 1 = i
  BY <1>5, <1>6
<1>8. ids[Current] \in 0 .. TokenSpace - 1
  BY <1>3 DEF IInv, TypeOK
<1>9. pos + Len(Current) \in 0 .. Len(row)
  BY <1>1, <1>4, LenProperties, BytesAssumption DEF ByteSeq
<1> QED
  BY <1>2, <1>3, <1>4, <1>5, <1>7, <1>8, <1>9

\* The bytes a merge inserts are the concatenation of two held tokens, start
\* where the previous token starts, and are not in the dictionary.
LEMMA PairIsNew ==
    ASSUME IInv, stage = "row", pos < Len(row), PairFits
    PROVE  /\ PairBytes \in Token
           /\ PairBytes = dict[prevId + 1] \o Current
           /\ Len(PairBytes) = prevLen + Len(Current)
           /\ PairBytes \notin Tokens
           /\ StartsAt(row, pos - prevLen, PairBytes)
           /\ pos - prevLen \in Nat
<1> DEFINE prev == dict[prevId + 1]
           from == pos - prevLen
<1>1. /\ Current \in Token
      /\ IsLongestAt(Tokens, row, pos, Current)
      /\ Len(Current) \in 1 .. MaxTokenSize
  BY CurrentFound
<1>2. /\ prev \in Token /\ Len(prev) = prevLen /\ prevLen <= pos
      /\ IsLongestAt(Tokens, row, from, prev)
      /\ Len(prev) \in 1 .. MaxTokenSize
  <2>1. prevId + 1 \in DOMAIN dict /\ dict \in Seq(Token)
    BY DEF IInv, PrevIsLongest, TypeOK
  <2>2. prev \in Token
    BY <2>1, LenProperties
  <2> QED
    BY <2>2, TokenType DEF IInv, PrevIsLongest
<1>3. row \in ByteSeq /\ pos \in Nat /\ Len(row) \in Nat
  BY LenProperties DEF IInv, TypeOK, ByteSeq
<1>4. from \in Nat /\ from + Len(prev) = pos
  BY <1>2, <1>3
<1>5. StartsAt(row, from, prev) /\ StartsAt(row, from + Len(prev), Current)
  BY <1>1, <1>2, <1>4 DEF IsLongestAt
<1>6. PairBytes = Slice(row, from, from + Len(prev) + Len(Current))
  BY <1>4 DEF PairBytes
<1>7. /\ PairBytes = prev \o Current
      /\ PairBytes \in ByteSeq
      /\ Len(PairBytes) = Len(prev) + Len(Current)
      /\ StartsAt(row, from, PairBytes)
  <2> HIDE DEF prev, from
  <2> QED
    BY <1>1, <1>2, <1>3, <1>4, <1>5, <1>6, AdjacentMatches
<1>8. PairBytes \in Token
  <2>1. Len(PairBytes) \in 1 .. MaxTokenSize
    BY <1>1, <1>2, <1>7, BytesAssumption DEF PairFits
  <2> QED
    BY <1>7, <2>1, TokenIntro
<1>9. PairBytes \notin Tokens
  <2>1. PairBytes \in Tokens => Len(PairBytes) <= Len(prev)
    BY <1>2, <1>7 DEF IsLongestAt
  <2> QED
    BY <2>1, <1>1, <1>2, <1>7
<1> QED
  BY <1>2, <1>4, <1>7, <1>8, <1>9

-----------------------------------------------------------------------------
(***************************************************************************)
(* Entering a token.                                                       *)
(***************************************************************************)

\* A new token takes the next position as its id, and nothing else moves.
LEMMA InsertTokenKeepsIds ==
    ASSUME IInv, NEW t \in Token, t \notin Tokens, Len(dict) < DictCapacity,
           InsertToken(t)
    PROVE  /\ dict' \in Seq(Token)
           /\ Len(dict') = Len(dict) + 1
           /\ \A i \in DOMAIN dict : i \in DOMAIN dict' /\ dict'[i] = dict[i]
           /\ nextId + 1 \in DOMAIN dict' /\ dict'[nextId + 1] = t
           /\ nextId % TokenSpace = nextId /\ nextId \in 0 .. TokenSpace - 1
           /\ nextId' = nextId + 1 /\ nextId' \in NumBytes .. DictCapacity
           /\ Tokens' = Tokens \cup {t}
           /\ Tokens' \subseteq Token
           /\ ids' \in [Tokens' -> 0 .. TokenSpace - 1]
           /\ IdsArePositions'
<1>1. /\ dict \in Seq(Token) /\ Len(dict) \in Nat /\ DOMAIN dict = 1 .. Len(dict)
      /\ nextId = Len(dict) /\ nextId \in NumBytes .. DictCapacity
      /\ Tokens \subseteq Token /\ ids \in [Tokens -> 0 .. TokenSpace - 1]
  BY LenProperties DEF IInv, TypeOK, IdsArePositions
<1>2. DictCapacity \in Nat /\ TokenSpace \in Nat /\ NumBytes \in Nat
      /\ DictCapacity <= TokenSpace
  BY TrainerAssumption, BytesAssumption
<1>3. nextId \in 0 .. TokenSpace - 1
  BY <1>1, <1>2
<1>4. nextId % TokenSpace = nextId
  BY <1>2, <1>3
<1>5. /\ dict' = Append(dict, t) /\ nextId' = nextId + 1
      /\ ids' = [u \in Tokens \cup {t} |-> IF u = t THEN nextId ELSE ids[u]]
  BY <1>4 DEF InsertToken
<1>6. /\ dict' \in Seq(Token) /\ Len(dict') = Len(dict) + 1
      /\ \A i \in 1 .. Len(dict) : dict'[i] = dict[i]
      /\ dict'[Len(dict) + 1] = t
  BY <1>1, <1>5, AppendProperties
<1>7. DOMAIN dict' = 1 .. Len(dict) + 1
  BY <1>6, LenProperties
<1>8. Tokens' = Tokens \cup {t}
  BY <1>5 DEF Tokens
<1>9. ids' \in [Tokens' -> 0 .. TokenSpace - 1]
  BY <1>1, <1>3, <1>5, <1>8 DEF Tokens
<1>10. Tokens' = {dict'[i] : i \in DOMAIN dict'}
  <2>1. Tokens = {dict[i] : i \in DOMAIN dict}
    BY DEF IInv, IdsArePositions
  <2> QED
    BY <2>1, <1>1, <1>6, <1>7, <1>8
<1>11. ASSUME NEW i \in DOMAIN dict'
       PROVE  ids'[dict'[i]] = i - 1
  <2>1. CASE i = Len(dict) + 1
    BY <2>1, <1>1, <1>5, <1>6
  <2>2. CASE i # Len(dict) + 1
    <3>1. i \in DOMAIN dict
      BY <2>2, <1>1, <1>7
    <3>2. dict'[i] = dict[i] /\ dict[i] \in Tokens /\ ids[dict[i]] = i - 1
      BY <3>1, <1>1, <1>6 DEF IInv, IdsArePositions
    <3> QED
      BY <3>2, <1>5
  <2> QED
    BY <2>1, <2>2
<1>12. IdsArePositions'
  BY <1>1, <1>5, <1>6, <1>10, <1>11 DEF IdsArePositions
<1>13. /\ \A i \in DOMAIN dict : i \in DOMAIN dict' /\ dict'[i] = dict[i]
       /\ nextId + 1 \in DOMAIN dict' /\ dict'[nextId + 1] = t
  BY <1>1, <1>6, <1>7
<1>14. nextId' \in NumBytes .. DictCapacity
  BY <1>1, <1>2, <1>5
<1>15. Tokens' \subseteq Token
  BY <1>1, <1>8
<1> QED
  BY <1>3, <1>4, <1>5, <1>6, <1>8, <1>9, <1>12, <1>13, <1>14, <1>15, Zenon

-----------------------------------------------------------------------------
(***************************************************************************)
(* IInv is inductive.                                                      *)
(***************************************************************************)

LEMMA SelectionType ==
    ASSUME NEW rows \in Seq(ByteSeq), NEW k \in 0 .. Len(rows),
           NEW order \in Selections(Len(rows), k)
    PROVE  [i \in 1 .. k |-> rows[order[i]]] \in Seq(ByteSeq)
<1>1. k \in Nat /\ \A i \in 1 .. k : rows[order[i]] \in ByteSeq
  BY LenProperties DEF Selections
<1> QED
  BY <1>1

LEMMA GatheredType ==
    ASSUME NEW rows \in Seq(ByteSeq), NEW budget \in Nat
    PROVE  Gathered(rows, budget) \in Seq(ByteSeq)
<1> DEFINE taken == {i \in 1 .. Len(rows) : ByteCount(rows, i - 1) <= budget}
<1>1. Len(rows) \in Nat /\ \A i \in 1 .. Len(rows) : rows[i] \in ByteSeq
  BY LenProperties
<1>2. IsFiniteSet(1 .. Len(rows)) /\ Cardinality(1 .. Len(rows)) = Len(rows)
  <2>1. 1 \in Int /\ Len(rows) \in Int
    BY <1>1
  <2>2. /\ IsFiniteSet(1 .. Len(rows))
        /\ Cardinality(1 .. Len(rows)) =
                IF 1 > Len(rows) THEN 0 ELSE Len(rows) - 1 + 1
    BY <2>1, FS_Interval, Zenon
  <2> QED
    BY <1>1, <2>2
<1>3. taken \in SUBSET (1 .. Len(rows))
  OBVIOUS
<1>4. IsFiniteSet(taken) /\ Cardinality(taken) <= Len(rows)
  BY <1>2, <1>3, FS_Subset
<1>5. Cardinality(taken) \in Nat
  BY <1>4, FS_CardinalityType
<1>6. \A n \in 0 .. Len(rows) : SubSeq(rows, 1, n) \in Seq(ByteSeq)
  BY <1>1, SubSeqProperties
<1>7. Cardinality(taken) \in 0 .. Len(rows)
  <2> HIDE DEF taken
  <2> QED
    BY <1>1, <1>4, <1>5
<1>8. SubSeq(rows, 1, Cardinality(taken)) \in Seq(ByteSeq)
  BY <1>6, <1>7, Zenon
<1> QED
  BY <1>8, Zenon DEF Gathered

LEMMA InputType ==
    ASSUME corpus \in Corpora, config \in Configs
    PROVE  /\ corpus \in Seq(ByteSeq) /\ Len(corpus) \in Nat
           /\ config.num \in Nat \ {0} /\ config.den \in Nat \ {0}
           /\ config.kind \in {"fixed", "dynamic"} /\ config.value \in 0 .. MaxThreshold
           /\ TotalBytes \in Nat /\ ScanBudget \in Nat
           /\ InitialShuffle(corpus, config) \in 0 .. Len(corpus)
<1>1. corpus \in Seq(ByteSeq) /\ Len(corpus) \in Nat
  BY TrainerAssumption, LenProperties
<1>2. /\ config.num \in Nat \ {0} /\ config.den \in Nat \ {0}
      /\ config.kind \in {"fixed", "dynamic"} /\ config.value \in 0 .. MaxThreshold
  BY TrainerAssumption
<1>3. TotalBytes \in Nat
  BY <1>1, RowOffsetsExist DEF TotalBytes, ByteCount
<1>4. ASSUME NEW m \in Nat, NEW n \in Nat, NEW d \in Nat \ {0}
      PROVE  m * n \in Nat /\ (m * n) \div d \in Nat
  <2>1. m * n \in Nat
    OBVIOUS
  <2> DEFINE x == m * n
  <2> HIDE DEF x
  <2>2. x \in Nat => x \div d \in Nat
    OBVIOUS
  <2> QED
    BY <2>1, <2>2 DEF x
<1>5. ScanBudget \in Nat
  BY <1>2, <1>3, <1>4 DEF ScanBudget
<1>6. InitialShuffle(corpus, config) \in 0 .. Len(corpus)
  <2> DEFINE doubled == MinOf(2 * config.num, config.den)
             drawn == (doubled * Len(corpus)) \div config.den
  <2>1. doubled \in Nat
    BY <1>2 DEF MinOf
  <2>2. drawn \in Nat
    BY <1>1, <1>2, <1>4, <2>1
  <2>3. InitialShuffle(corpus, config) = IF config.kind = "fixed" THEN Len(corpus)
                                         ELSE MinOf(drawn + ShuffleSlack, Len(corpus))
    BY DEF InitialShuffle
  <2> HIDE DEF drawn
  <2> QED
    BY <1>1, <2>2, <2>3, TrainerAssumption DEF MinOf
<1> QED
  BY <1>1, <1>2, <1>3, <1>5, <1>6

LEMMA IInvInit == Init => IInv
<1> SUFFICES ASSUME Init
             PROVE  IInv
  OBVIOUS
<1> USE DEF Init
<1>1. /\ ScanBudget \in Nat /\ config.value \in 0 .. MaxThreshold
      /\ InitialShuffle(corpus, config) \in 0 .. Len(corpus)
      /\ config.kind \in {"fixed", "dynamic"}
  BY InputType
<1>2. NumBytes \in Nat \ {0} /\ MaxTokenSize \in Nat \ {0}
  BY BytesAssumption
<1>3. SingleByteTokens \subseteq Token
  <2>1. ASSUME NEW b \in Byte
        PROVE  <<b>> \in Token
    <3>1. <<b>> \in Seq(Byte) /\ Len(<<b>>) = 1
      OBVIOUS
    <3>2. 1 \in 1 .. MaxTokenSize
      BY <1>2
    <3> HIDE DEF Init
    <3> QED
      BY <3>1, <3>2, TokenIntro DEF ByteSeq
  <2> QED
    BY <2>1 DEF SingleByteTokens
<1>4. Tokens = SingleByteTokens
  BY DEF Tokens
<1>5. \A i \in 1 .. NumBytes : <<i - 1>> \in SingleByteTokens
  BY <1>2 DEF SingleByteTokens, Byte
<1>6. dict \in Seq(Token) /\ Len(dict) = NumBytes /\ DOMAIN dict = 1 .. NumBytes
  BY <1>2, <1>3, <1>5
<1>7. ids \in [Tokens -> 0 .. TokenSpace - 1]
  BY <1>2, <1>4, TrainerAssumption DEF SingleByteTokens, Byte
<1>8. ctrl \in Controller
  <2>1. DictCapacity - NumBytes \in Nat
    BY <1>2, TrainerAssumption
  <2> QED
    BY <1>1, <2>1, NewControllerType
<1>9. threshold \in 0 .. MaxThreshold
  BY <1>1, ThresholdAssumption
<1>10. TypeOK
  <2>1. row \in ByteSeq /\ Len(row) = 0 /\ sample \in Seq(ByteSeq)
    BY DEF ByteSeq
  <2>2. prevId \in 0 .. TokenSpace - 1 /\ prevLen \in 0 .. MaxTokenSize
    BY <1>2, TrainerAssumption
  <2>3. nextId \in NumBytes .. DictCapacity
    BY <1>2, TrainerAssumption
  <2>4. pos \in 0 .. Len(row) /\ \A p \in DOMAIN freq : freq[p] \in 1 .. MaxThreshold
    BY <2>1
  <2>5. /\ corpus \in Corpora /\ config \in Configs
        /\ stage \in {"order", "rows", "row", "done"}
        /\ shuffleK \in 0 .. Len(corpus)
        /\ nextRow \in Nat \ {0}
    BY <1>1
  <2>6. fullDictionary \in BOOLEAN /\ budgetExhausted \in BOOLEAN
    BY Zenon
  <2> HIDE DEF Init
  <2> QED
    BY <1>3, <1>4, <1>6, <1>7, <1>8, <1>9, <2>1, <2>2, <2>3, <2>4, <2>5, <2>6 DEF TypeOK
<1>11. IdsArePositions
  <2>1. \A i \in 1 .. NumBytes : ids[<<i - 1>>] = i - 1
    BY <1>5
  <2>2. ASSUME NEW t \in SingleByteTokens
        PROVE  \E i \in 1 .. NumBytes : t = <<i - 1>>
    <3>1. PICK b \in Byte : t = <<b>>
      BY DEF SingleByteTokens
    <3>2. b + 1 \in 1 .. NumBytes /\ b = (b + 1) - 1
      BY <1>2 DEF Byte
    <3> QED
      BY <3>1, <3>2
  <2> QED
    BY <1>4, <1>5, <1>6, <2>1, <2>2 DEF IdsArePositions
<1>12. CapacityRespected /\ ScanHasRoom /\ PrevIsLongest
  BY <1>2, <1>6, TrainerAssumption DEF CapacityRespected, ScanHasRoom, PrevIsLongest
<1>13. ThresholdInStep /\ CountsNeverSaturate
  BY DEF ThresholdInStep, CountsNeverSaturate, NewController
<1> QED
  BY <1>4, <1>10, <1>11, <1>12, <1>13 DEF IInv

\* A step that leaves the dictionary alone keeps what is said about it.
LEMMA SameDictionary ==
    ASSUME IInv, UNCHANGED dictVars, UNCHANGED fullDictionary
    PROVE  /\ Tokens' = Tokens
           /\ SingleByteTokens \subseteq Tokens'
           /\ IdsArePositions' /\ CapacityRespected'
           /\ dict' \in Seq(Token) /\ Tokens' \subseteq Token
           /\ ids' \in [Tokens' -> 0 .. TokenSpace - 1]
           /\ nextId' \in NumBytes .. DictCapacity
           /\ fullDictionary' \in BOOLEAN
<1>1. /\ dict' = dict /\ ids' = ids /\ nextId' = nextId
      /\ fullDictionary' = fullDictionary
  BY DEF dictVars
<1>2. Tokens' = Tokens
  BY <1>1 DEF Tokens
<1>3. IdsArePositions' /\ CapacityRespected'
  BY <1>1, <1>2 DEF IInv, IdsArePositions, CapacityRespected
<1> QED
  BY <1>1, <1>2, <1>3 DEF IInv, TypeOK

\* Choosing the sample.
LEMMA OrderStep ==
    ASSUME IInv, RetryShuffle \/ AcceptOrder
    PROVE  IInv'
<1>1. /\ corpus \in Seq(ByteSeq) /\ Len(corpus) \in Nat /\ ScanBudget \in Nat
      /\ shuffleK \in 0 .. Len(corpus)
  BY InputType DEF IInv, TypeOK
<1>2. /\ UNCHANGED <<inputVars, nextRow, rowVars, dictVars, freq, threshold, ctrl, stopVars>>
      /\ stage = "order" /\ stage' \in {"order", "rows"}
  BY DEF RetryShuffle, AcceptOrder
<1>3. /\ SingleByteTokens \subseteq Tokens'
      /\ IdsArePositions' /\ CapacityRespected'
      /\ dict' \in Seq(Token) /\ Tokens' \subseteq Token
      /\ ids' \in [Tokens' -> 0 .. TokenSpace - 1]
      /\ nextId' \in NumBytes .. DictCapacity
      /\ fullDictionary' \in BOOLEAN
  BY <1>2, SameDictionary DEF stopVars
<1>4. sample' \in Seq(ByteSeq) /\ shuffleK' \in 0 .. Len(corpus)
  <2>1. CASE RetryShuffle
    BY <2>1, <1>1 DEF RetryShuffle, IInv, TypeOK, MinOf
  <2>2. CASE AcceptOrder
    <3>1. PICK order \in Selections(Len(corpus), shuffleK) :
            LET selected == [i \in 1 .. shuffleK |-> corpus[order[i]]]
            IN  sample' = IF Dynamic /\ ScanBudget <= TotalBytes \div 2
                          THEN Gathered(selected, ScanBudget) ELSE selected
      BY <2>2 DEF AcceptOrder
    <3>2. [i \in 1 .. shuffleK |-> corpus[order[i]]] \in Seq(ByteSeq)
      BY <1>1, SelectionType
    <3>3. sample' \in Seq(ByteSeq)
      BY <1>1, <3>1, <3>2, GatheredType
    <3> QED
      BY <2>2, <3>3, <1>1 DEF AcceptOrder
  <2> QED
    BY <2>1, <2>2
<1>5. TypeOK'
  BY <1>2, <1>3, <1>4 DEF IInv, TypeOK, inputVars, rowVars, stopVars
<1>6. ScanHasRoom' /\ PrevIsLongest'
  BY <1>2 DEF IInv, ScanHasRoom, PrevIsLongest, stopVars
<1>7. ThresholdInStep' /\ CountsNeverSaturate'
  BY <1>2 DEF IInv, ThresholdInStep, CountsNeverSaturate, Dynamic, inputVars, stopVars
<1> QED
  BY <1>3, <1>5, <1>6, <1>7 DEF IInv

\* Stepping from row to row, and sealing the dictionary at the end.
LEMMA BetweenRowsStep ==
    ASSUME IInv, SkipEmptyRow \/ EndRow \/ SealDictionary
    PROVE  IInv'
<1>1. /\ UNCHANGED <<inputVars, sampleVars, rowVars, dictVars, freq, threshold, ctrl, stopVars>>
      /\ stage' \in {"rows", "done"}
  BY DEF SkipEmptyRow, MayStartRow, EndRow, SealDictionary
<1>2. nextRow' \in Nat \ {0}
  BY DEF SkipEmptyRow, EndRow, SealDictionary, IInv, TypeOK
<1>3. /\ SingleByteTokens \subseteq Tokens'
      /\ IdsArePositions' /\ CapacityRespected'
      /\ dict' \in Seq(Token) /\ Tokens' \subseteq Token
      /\ ids' \in [Tokens' -> 0 .. TokenSpace - 1]
      /\ nextId' \in NumBytes .. DictCapacity
      /\ fullDictionary' \in BOOLEAN
  BY <1>1, SameDictionary DEF stopVars
<1>4. TypeOK'
  BY <1>1, <1>2, <1>3 DEF IInv, TypeOK, inputVars, sampleVars, rowVars, stopVars
<1>5. ScanHasRoom' /\ PrevIsLongest'
  BY <1>1 DEF ScanHasRoom, PrevIsLongest
<1>6. ThresholdInStep' /\ CountsNeverSaturate'
  BY <1>1 DEF IInv, ThresholdInStep, CountsNeverSaturate, Dynamic, inputVars, stopVars
<1> QED
  BY <1>3, <1>4, <1>5, <1>6 DEF IInv

\* The first token of a row.
LEMMA StartRowStep ==
    ASSUME IInv, StartRow
    PROVE  IInv'
<1> DEFINE first == LongestMatch(Tokens, row', 0)
<1>1. /\ UNCHANGED <<inputVars, sampleVars, dictVars, freq, threshold, fullDictionary>>
      /\ row' = sample[nextRow] /\ row' # <<>> /\ nextRow <= Len(sample)
      /\ nextRow' = nextRow + 1
      /\ prevId' = ids[first] /\ prevLen' = Len(first) /\ pos' = Len(first)
      /\ ctrl' = Scanned(Len(first))
      /\ stage' \in {"rows", "row"}
      /\ ~fullDictionary
  BY DEF StartRow, MayStartRow
<1>2. row' \in ByteSeq /\ Len(row') \in Nat \ {0}
  <2>1. nextRow \in 1 .. Len(sample) /\ sample \in Seq(ByteSeq)
    BY <1>1, LenProperties DEF IInv, TypeOK
  <2>2. row' \in ByteSeq
    BY <1>1, <2>1, ElementOfSeq
  <2> QED
    BY <1>1, <2>2, EmptySeq DEF ByteSeq
<1>3. IsLongestAt(Tokens, row', 0, first)
  <2>1. Tokens \in SUBSET Token /\ SingleByteTokens \subseteq Tokens
    BY DEF IInv, TypeOK
  <2> QED
    BY <1>2, <2>1, LongestMatchFound
<1>4. first \in Tokens /\ first \in Token /\ Len(first) \in 1 .. MaxTokenSize
  BY <1>3, TokenType DEF IsLongestAt, IInv, TypeOK
<1>5. Len(first) \in 0 .. Len(row') /\ Len(first) \in Nat
  BY <1>2, <1>3, <1>4, BytesAssumption DEF IsLongestAt, StartsAt
<1>6. /\ Tokens' = Tokens
      /\ SingleByteTokens \subseteq Tokens'
      /\ IdsArePositions' /\ CapacityRespected'
      /\ dict' \in Seq(Token) /\ Tokens' \subseteq Token
      /\ ids' \in [Tokens' -> 0 .. TokenSpace - 1]
      /\ nextId' \in NumBytes .. DictCapacity
      /\ fullDictionary' \in BOOLEAN
  BY <1>1, SameDictionary
<1>7. ctrl' \in Controller /\ ctrl'.threshold = ctrl.threshold
  BY <1>1, <1>5, ScannedType DEF IInv, TypeOK
<1>8. TypeOK'
  <2>1. prevId' \in 0 .. TokenSpace - 1 /\ prevLen' \in 0 .. MaxTokenSize
    BY <1>1, <1>4, BytesAssumption DEF IInv, TypeOK
  <2>2. budgetExhausted' \in BOOLEAN
    BY Zenon DEF StartRow, Exhausted, BudgetExhausted
  <2>3. nextRow' \in Nat \ {0}
    BY <1>1 DEF IInv, TypeOK
  <2> HIDE DEF first
  <2> QED
    BY <1>1, <1>2, <1>5, <1>6, <1>7, <2>1, <2>2, <2>3
       DEF IInv, TypeOK, inputVars, sampleVars, dictVars
<1>9. PrevIsLongest'
  <2>1. PICK i \in DOMAIN dict : dict[i] = first /\ ids[first] = i - 1
    BY <1>4 DEF IInv, IdsArePositions
  <2>2. DOMAIN dict = 1 .. Len(dict) /\ Len(dict) \in Nat
    BY LenProperties DEF IInv, TypeOK
  <2>3. prevId' + 1 = i /\ dict' = dict /\ pos' - prevLen' = 0 /\ prevLen' <= pos'
    BY <1>1, <1>5, <2>1, <2>2 DEF dictVars
  <2> HIDE DEF first
  <2> QED
    BY <1>1, <1>3, <1>6, <2>1, <2>3 DEF PrevIsLongest
<1>10. ScanHasRoom'
  BY <1>1 DEF ScanHasRoom
<1>11. ThresholdInStep' /\ CountsNeverSaturate'
  BY <1>1, <1>7 DEF IInv, ThresholdInStep, CountsNeverSaturate, Dynamic, inputVars
<1> QED
  BY <1>6, <1>8, <1>9, <1>10, <1>11 DEF IInv

\* The budget runs out at the match at pos.
LEMMA ScanExhaustedStep ==
    ASSUME IInv, ScanExhausted
    PROVE  IInv'
<1>1. /\ UNCHANGED <<inputVars, sampleVars, nextRow, rowVars, dictVars, freq,
                     threshold, fullDictionary>>
      /\ stage = "row" /\ pos < Len(row) /\ stage' = "rows"
      /\ ctrl' = Scanned(Len(Current))
      /\ budgetExhausted' \in BOOLEAN
      /\ ~fullDictionary
  BY DEF ScanExhausted, IInv, ScanHasRoom
<1>2. /\ SingleByteTokens \subseteq Tokens'
      /\ IdsArePositions' /\ CapacityRespected'
      /\ dict' \in Seq(Token) /\ Tokens' \subseteq Token
      /\ ids' \in [Tokens' -> 0 .. TokenSpace - 1]
      /\ nextId' \in NumBytes .. DictCapacity
      /\ fullDictionary' \in BOOLEAN
  BY <1>1, SameDictionary
<1>3. ctrl' \in Controller /\ ctrl'.threshold = ctrl.threshold
  <2>1. Len(Current) \in Nat
    BY <1>1, CurrentFound, BytesAssumption
  <2> QED
    BY <1>1, <2>1, ScannedType DEF IInv, TypeOK
<1>4. TypeOK'
  BY <1>1, <1>2, <1>3 DEF IInv, TypeOK, inputVars, sampleVars, rowVars
<1>5. ScanHasRoom' /\ PrevIsLongest'
  BY <1>1 DEF ScanHasRoom, PrevIsLongest
<1>6. ThresholdInStep' /\ CountsNeverSaturate'
  BY <1>1, <1>3 DEF IInv, ThresholdInStep, CountsNeverSaturate, Dynamic, inputVars
<1> QED
  BY <1>2, <1>4, <1>5, <1>6 DEF IInv

\* An incremented count is at least one and fits its u8.
LEMMA IncrementedType ==
    ASSUME IInv
    PROVE  Incremented \in 1 .. MaxThreshold
<1>1. MaxThreshold \in Nat /\ 1 <= MaxThreshold
  BY ThresholdAssumption
<1>2. Pair \in DOMAIN freq => freq[Pair] \in 1 .. MaxThreshold
  BY DEF IInv, TypeOK
<1> QED
  BY <1>1, <1>2 DEF Incremented, MinOf

\* The pair is not merged: the scan moves on by one token.
LEMMA AdvanceStep ==
    ASSUME IInv, Advance
    PROVE  IInv'
<1>1. /\ UNCHANGED <<inputVars, stage, sampleVars, nextRow, row, dictVars, threshold, stopVars>>
      /\ stage = "row" /\ pos < Len(row)
      /\ PairFits => Incremented < threshold
      /\ freq' = IF PairFits THEN WithCount(Pair, Incremented) ELSE freq
      /\ ctrl' = Scanned(Len(Current))
      /\ prevId' = ids[Current] /\ prevLen' = Len(Current)
      /\ pos' = pos + Len(Current)
      /\ ~fullDictionary
  BY DEF Advance, InBudget, IInv, ScanHasRoom
<1>2. /\ Current \in Tokens /\ IsLongestAt(Tokens, row, pos, Current)
      /\ Len(Current) \in 1 .. MaxTokenSize /\ pos + Len(Current) \in 0 .. Len(row)
      /\ ids[Current] \in 0 .. TokenSpace - 1
      /\ ids[Current] + 1 \in DOMAIN dict /\ dict[ids[Current] + 1] = Current
  BY <1>1, CurrentFound
<1>3. Len(Current) \in Nat /\ Len(Current) \in 0 .. MaxTokenSize
  BY <1>2, BytesAssumption
<1>4. /\ Tokens' = Tokens
      /\ SingleByteTokens \subseteq Tokens'
      /\ IdsArePositions' /\ CapacityRespected'
      /\ dict' \in Seq(Token) /\ Tokens' \subseteq Token
      /\ ids' \in [Tokens' -> 0 .. TokenSpace - 1]
      /\ nextId' \in NumBytes .. DictCapacity
      /\ fullDictionary' \in BOOLEAN
  BY <1>1, SameDictionary DEF stopVars
<1>5. ctrl' \in Controller /\ ctrl'.threshold = ctrl.threshold
  BY <1>1, <1>3, ScannedType DEF IInv, TypeOK
<1>6. \A p \in DOMAIN freq' :
            \/ p \in DOMAIN freq /\ freq'[p] = freq[p]
            \/ freq'[p] = Incremented /\ Incremented < threshold
  BY <1>1 DEF WithCount
<1>7. TypeOK'
  <2>1. \A p \in DOMAIN freq' : freq'[p] \in 1 .. MaxThreshold
    BY <1>6, IncrementedType DEF IInv, TypeOK
  <2>2. pos' \in 0 .. Len(row')
    BY <1>1, <1>2
  <2> QED
    BY <1>1, <1>2, <1>3, <1>4, <1>5, <2>1, <2>2
       DEF IInv, TypeOK, inputVars, sampleVars, stopVars
<1>8. PrevIsLongest'
  <2>1. pos' - prevLen' = pos /\ prevLen' <= pos' /\ dict' = dict /\ row' = row
    BY <1>1, <1>3 DEF dictVars, IInv, TypeOK
  <2> QED
    BY <1>1, <1>2, <1>4, <2>1 DEF PrevIsLongest
<1>9. ScanHasRoom'
  BY <1>1 DEF ScanHasRoom, stopVars
<1>10. ThresholdInStep'
  BY <1>1, <1>5 DEF IInv, ThresholdInStep, Dynamic, inputVars
<1>11. CountsNeverSaturate'
  <2>1. threshold \in 0 .. MaxThreshold /\ MaxThreshold \in Nat
    BY ThresholdAssumption DEF IInv, TypeOK
  <2>2. config.kind = "fixed" => threshold = config.value
    BY DEF IInv, ThresholdInStep, Dynamic
  <2>3. \A p \in DOMAIN freq : freq[p] < MaxThreshold
                               /\ (config.kind = "fixed" => freq[p] < config.value)
    BY <1>1 DEF IInv, CountsNeverSaturate
  <2>4. Incremented \in 1 .. MaxThreshold
    BY IncrementedType
  <2>5. Incremented < threshold => Incremented < MaxThreshold
    BY <2>1, <2>4
  <2> QED
    BY <1>1, <1>6, <2>2, <2>3, <2>5 DEF CountsNeverSaturate, inputVars
<1> QED
  BY <1>4, <1>7, <1>8, <1>9, <1>10, <1>11 DEF IInv

\* What both kinds of merge enter into the dictionary.
LEMMA MergeInserts ==
    ASSUME IInv, MergePair \/ FillDictionary
    PROVE  /\ stage = "row" /\ pos < Len(row) /\ PairFits
           /\ Len(dict) < DictCapacity
           /\ dict' \in Seq(Token)
           /\ dict' = Append(dict, PairBytes)
           /\ Len(dict') = Len(dict) + 1
           /\ nextId + 1 \in DOMAIN dict' /\ dict'[nextId + 1] = PairBytes
           /\ nextId % TokenSpace = nextId /\ nextId \in 0 .. TokenSpace - 1
           /\ nextId' = nextId + 1 /\ nextId' \in NumBytes .. DictCapacity
           /\ nextId' = Len(dict')
           /\ Tokens' = Tokens \cup {PairBytes}
           /\ Tokens' \subseteq Token
           /\ ids' \in [Tokens' -> 0 .. TokenSpace - 1]
           /\ IdsArePositions'
<1>1. /\ stage = "row" /\ pos < Len(row) /\ PairFits /\ InsertToken(PairBytes)
      /\ ~fullDictionary
  BY DEF MergePair, FillDictionary, InBudget, IInv, ScanHasRoom
<1>2. Len(dict) < DictCapacity
  <2>1. Len(dict) <= DictCapacity /\ Len(dict) # DictCapacity
    BY <1>1 DEF IInv, CapacityRespected
  <2>2. Len(dict) \in Nat /\ DictCapacity \in Nat
    BY TrainerAssumption, LenProperties DEF IInv, TypeOK
  <2> QED
    BY <2>1, <2>2
<1>3. PairBytes \in Token /\ PairBytes \notin Tokens
  BY <1>1, PairIsNew
<1>4. dict' = Append(dict, PairBytes)
  BY <1>1 DEF InsertToken
<1> HIDE DEF PairBytes
<1>5. /\ dict' \in Seq(Token)
      /\ Len(dict') = Len(dict) + 1
      /\ nextId + 1 \in DOMAIN dict' /\ dict'[nextId + 1] = PairBytes
      /\ nextId % TokenSpace = nextId /\ nextId \in 0 .. TokenSpace - 1
      /\ nextId' = nextId + 1 /\ nextId' \in NumBytes .. DictCapacity
      /\ Tokens' = Tokens \cup {PairBytes}
      /\ Tokens' \subseteq Token
      /\ ids' \in [Tokens' -> 0 .. TokenSpace - 1]
      /\ IdsArePositions'
  BY <1>1, <1>2, <1>3, InsertTokenKeepsIds
<1>6. nextId' = Len(dict')
  BY <1>5 DEF IdsArePositions
<1> QED
  BY <1>1, <1>2, <1>4, <1>5, <1>6

\* A frequent pair becomes a token, and the token before the next position.
LEMMA MergePairStep ==
    ASSUME IInv, MergePair
    PROVE  IInv'
<1>1. /\ UNCHANGED <<inputVars, stage, sampleVars, nextRow, row, stopVars>>
      /\ stage = "row" /\ pos < Len(row) /\ PairFits
      /\ nextId + 1 # DictCapacity
      /\ ctrl' = IF Dynamic THEN OnEntryCreated(Scanned(Len(Current))) ELSE ctrl
      /\ threshold' = IF Dynamic THEN ctrl'.threshold ELSE threshold
      /\ freq' = WithoutCount(Pair)
      /\ prevId' = nextId % TokenSpace
      /\ prevLen' = prevLen + Len(Current) /\ pos' = pos + Len(Current)
      /\ ~fullDictionary
  BY DEF MergePair, HasRoom, PrevBecomesPair, InBudget, IInv, ScanHasRoom
<1>2. /\ Len(dict) < DictCapacity
      /\ dict' \in Seq(Token)
      /\ nextId + 1 \in DOMAIN dict' /\ dict'[nextId + 1] = PairBytes
      /\ nextId % TokenSpace = nextId /\ nextId \in 0 .. TokenSpace - 1
      /\ nextId' \in NumBytes .. DictCapacity
      /\ nextId' = nextId + 1 /\ nextId' = Len(dict')
      /\ Tokens' = Tokens \cup {PairBytes} /\ Tokens' \subseteq Token
      /\ ids' \in [Tokens' -> 0 .. TokenSpace - 1]
      /\ IdsArePositions'
  BY MergeInserts
<1>3. /\ Len(Current) \in 1 .. MaxTokenSize /\ pos + Len(Current) \in 0 .. Len(row)
  BY <1>1, CurrentFound
<1>4. /\ Len(PairBytes) = prevLen + Len(Current)
      /\ StartsAt(row, pos - prevLen, PairBytes)
  BY <1>1, PairIsNew
<1>5. /\ Len(Current) \in Nat /\ prevLen \in Nat /\ pos \in Nat /\ prevLen <= pos
      /\ MaxTokenSize \in Nat
  BY <1>1, <1>3, BytesAssumption, LenProperties
     DEF IInv, TypeOK, PrevIsLongest, ByteSeq
<1>6. ctrl' \in Controller
  BY <1>1, <1>5, ScannedType, OnEntryCreatedType DEF IInv, TypeOK
<1>7. \A p \in DOMAIN freq' : p \in DOMAIN freq /\ freq'[p] = freq[p]
  BY <1>1 DEF WithoutCount
<1>8. TypeOK'
  <2>1. prevId' \in 0 .. TokenSpace - 1 /\ prevLen' \in 0 .. MaxTokenSize
    BY <1>1, <1>2, <1>3, <1>5 DEF PairFits
  <2>2. pos' \in 0 .. Len(row')
    BY <1>1, <1>3
  <2>3. threshold' \in 0 .. MaxThreshold
    <3>1. ctrl'.threshold \in MinThreshold .. MaxThreshold
      BY <1>6 DEF Controller
    <3>2. ctrl'.threshold \in 0 .. MaxThreshold
      BY <3>1, ThresholdAssumption
    <3> QED
      BY <1>1, <3>2 DEF IInv, TypeOK
  <2>4. \A p \in DOMAIN freq' : freq'[p] \in 1 .. MaxThreshold
    BY <1>7 DEF IInv, TypeOK
  <2> QED
    BY <1>1, <1>2, <1>6, <2>1, <2>2, <2>3, <2>4
       DEF IInv, TypeOK, inputVars, sampleVars, stopVars
<1>9. SingleByteTokens \subseteq Tokens'
  BY <1>2 DEF IInv
<1>10. PrevIsLongest'
  <2>1. /\ prevId' = nextId /\ row' = row
        /\ pos' - prevLen' = pos - prevLen /\ prevLen' <= pos'
    BY <1>1, <1>2, <1>5 DEF IInv
  <2>2. IsLongestAt(Tokens, row, pos - prevLen, dict[prevId + 1])
        /\ Len(dict[prevId + 1]) = prevLen
    BY <1>1 DEF IInv, PrevIsLongest
  <2>3. ASSUME NEW u \in Tokens', StartsAt(row, pos - prevLen, u)
        PROVE  Len(u) <= Len(PairBytes)
    <3>1. CASE u = PairBytes
      <4>1. Len(PairBytes) \in Nat
        BY <1>4, <1>5
      <4> QED
        BY <3>1, <4>1
    <3>2. CASE u \in Tokens
      <4>1. Len(u) <= prevLen /\ Len(u) \in Nat
        BY <2>2, <2>3, <3>2, TokenType DEF IsLongestAt, IInv, TypeOK, ByteSeq
      <4> QED
        BY <1>4, <1>5, <4>1
    <3> QED
      BY <1>2, <2>3, <3>1, <3>2
  <2>4. IsLongestAt(Tokens', row, pos - prevLen, PairBytes)
    BY <1>2, <1>4, <2>3 DEF IsLongestAt
  <2> HIDE DEF PairBytes
  <2> QED
    BY <1>1, <1>2, <1>4, <2>1, <2>4 DEF PrevIsLongest
<1>11. CapacityRespected' /\ ScanHasRoom'
  <2>1. Len(dict') \in NumBytes .. DictCapacity /\ Len(dict') # DictCapacity
    BY <1>1, <1>2
  <2> QED
    BY <1>1, <2>1, TrainerAssumption, BytesAssumption
       DEF CapacityRespected, ScanHasRoom, stopVars
<1>12. ThresholdInStep'
  BY <1>1 DEF IInv, ThresholdInStep, Dynamic, inputVars
<1>13. CountsNeverSaturate'
  BY <1>1, <1>7 DEF IInv, CountsNeverSaturate, inputVars
<1> QED
  BY <1>2, <1>8, <1>9, <1>10, <1>11, <1>12, <1>13 DEF IInv

\* The last token the dictionary has room for.
LEMMA FillDictionaryStep ==
    ASSUME IInv, FillDictionary
    PROVE  IInv'
<1>1. /\ UNCHANGED <<inputVars, sampleVars, nextRow, rowVars, threshold, budgetExhausted>>
      /\ stage = "row" /\ pos < Len(row) /\ stage' = "rows"
      /\ nextId + 1 = DictCapacity /\ fullDictionary' = TRUE
      /\ ctrl' = Scanned(Len(Current))
      /\ freq' = WithCount(Pair, Incremented)
  BY DEF FillDictionary, HasRoom, InBudget
<1>2. /\ dict' \in Seq(Token)
      /\ nextId' \in NumBytes .. DictCapacity
      /\ nextId' = nextId + 1 /\ nextId' = Len(dict')
      /\ Tokens' = Tokens \cup {PairBytes} /\ Tokens' \subseteq Token
      /\ ids' \in [Tokens' -> 0 .. TokenSpace - 1]
      /\ IdsArePositions'
  BY MergeInserts
<1>3. ctrl' \in Controller /\ ctrl'.threshold = ctrl.threshold
  <2>1. Len(Current) \in Nat
    BY <1>1, CurrentFound, BytesAssumption
  <2> QED
    BY <1>1, <2>1, ScannedType DEF IInv, TypeOK
<1>4. TypeOK'
  <2>1. \A p \in DOMAIN freq' : freq'[p] \in 1 .. MaxThreshold
    BY <1>1, IncrementedType DEF IInv, TypeOK, WithCount
  <2>2. fullDictionary' \in BOOLEAN
    BY <1>1, Zenon
  <2> QED
    BY <1>1, <1>2, <1>3, <2>1, <2>2 DEF IInv, TypeOK, inputVars, sampleVars, rowVars
<1>5. SingleByteTokens \subseteq Tokens'
  BY <1>2 DEF IInv
<1>6. CapacityRespected'
  BY <1>1, <1>2, TrainerAssumption DEF CapacityRespected
<1>7. PrevIsLongest' /\ ScanHasRoom' /\ CountsNeverSaturate'
  BY <1>1 DEF PrevIsLongest, ScanHasRoom, CountsNeverSaturate
<1>8. ThresholdInStep'
  BY <1>1, <1>3 DEF IInv, ThresholdInStep, Dynamic, inputVars
<1> QED
  BY <1>2, <1>4, <1>5, <1>6, <1>7, <1>8 DEF IInv

LEMMA IInvNext == IInv /\ [Next]_vars => IInv'
<1> SUFFICES ASSUME IInv, [Next]_vars
             PROVE  IInv'
  OBVIOUS
<1>1. CASE UNCHANGED vars
  <2>1. /\ UNCHANGED <<corpus, config, stage, shuffleK, sample, nextRow, row, pos>>
        /\ UNCHANGED <<prevId, prevLen, dict, ids, nextId, freq, threshold, ctrl>>
        /\ UNCHANGED <<fullDictionary, budgetExhausted>>
    BY <1>1 DEF vars, inputVars, sampleVars, rowVars, dictVars, stopVars
  <2> QED
    BY <2>1 DEF IInv, TypeOK, Tokens, PrevIsLongest, IdsArePositions, CapacityRespected,
                ScanHasRoom, ThresholdInStep, Dynamic, CountsNeverSaturate
<1>2. CASE RetryShuffle \/ AcceptOrder
  BY <1>2, OrderStep
<1>3. CASE SkipEmptyRow \/ EndRow \/ SealDictionary
  BY <1>3, BetweenRowsStep
<1>4. CASE StartRow
  BY <1>4, StartRowStep
<1>5. CASE ScanExhausted
  BY <1>5, ScanExhaustedStep
<1>6. CASE Advance
  BY <1>6, AdvanceStep
<1>7. CASE MergePair
  BY <1>7, MergePairStep
<1>8. CASE FillDictionary
  BY <1>8, FillDictionaryStep
<1> QED
  BY <1>1, <1>2, <1>3, <1>4, <1>5, <1>6, <1>7, <1>8 DEF Next

LEMMA Invariance == Spec => []IInv
  BY IInvInit, IInvNext, PTL DEF Spec

-----------------------------------------------------------------------------
(***************************************************************************)
(* The controller's account and the sample: what IInv leaves out.  The     *)
(* bytes scanned are those before the scan position, so that a sample that *)
(* holds more than the budget never ends the scan by itself.               *)
(***************************************************************************)

\* What a controller knows of its dictionary and budget: a checkpoint is ahead, and every
\* entry since the last one has cost a byte.
AccountInOrder(c) ==
    /\ c.entriesCreated < c.nextCheckpoint
    /\ c.nextCheckpoint = c.entriesAtCheck + c.checkInterval
    /\ DeltaEntries(c) <= DeltaBytes(c)

\* The controller's account is that of the dictionary and of the bytes scanned.
ControllerInv ==
    /\ Dynamic =>
        /\ AccountInOrder(ctrl)
        /\ ctrl.capacity = DictCapacity - NumBytes
        /\ ctrl.scanBudget = ScanBudget
        /\ ctrl.entriesCreated < ctrl.capacity
        /\ ~fullDictionary => ctrl.entriesCreated = Len(dict) - NumBytes
        /\ ctrl.bytesScanned <= ctrl.scanBudget + MaxTokenSize
        /\ budgetExhausted <=> BudgetExhausted(ctrl)
    /\ stage \in {"order", "row"} => ~budgetExhausted

\* The sample is all of the rows, or holds more bytes than may be scanned, and the
\* bytes scanned are those before the scan position.
SampleIsEnough ==
    \/ Len(sample) = Len(corpus)
    \/ Dynamic /\ ByteCount(sample, Len(sample)) > ScanBudget

SampleInv ==
    /\ ~Dynamic => shuffleK = Len(corpus)
    /\ stage = "order" => ctrl.bytesScanned = 0 /\ nextRow = 1
    /\ stage # "order" => SampleIsEnough /\ nextRow \in 1 .. Len(sample) + 1
    /\ Dynamic /\ stage = "rows" /\ ~fullDictionary /\ ~budgetExhausted =>
            ctrl.bytesScanned = ByteCount(sample, nextRow - 1)
    /\ stage = "row" => nextRow > 1 /\ row = sample[nextRow - 1]
    /\ Dynamic /\ stage = "row" => ctrl.bytesScanned = ByteCount(sample, nextRow - 2) + pos
    /\ SampleSuffices

\* Scanning bytes only adds to what an entry may have cost.
LEMMA ScanKeepsAccount ==
    ASSUME NEW c \in Controller, AccountInOrder(c), NEW n \in Nat \ {0}
    PROVE  LET d == OnBytesScanned(c, n)
           IN  /\ d \in Controller /\ AccountInOrder(d)
               /\ DeltaEntries(d) < DeltaBytes(d)
               /\ d.capacity = c.capacity /\ d.scanBudget = c.scanBudget
               /\ d.entriesCreated = c.entriesCreated
               /\ d.bytesScanned = c.bytesScanned + n
<1> DEFINE d == OnBytesScanned(c, n)
<1>1. d \in Controller
  BY OnBytesScannedType
<1>2. /\ d.capacity = c.capacity /\ d.scanBudget = c.scanBudget
      /\ d.entriesCreated = c.entriesCreated /\ d.entriesAtCheck = c.entriesAtCheck
      /\ d.bytesAtCheck = c.bytesAtCheck /\ d.checkInterval = c.checkInterval
      /\ d.nextCheckpoint = c.nextCheckpoint
      /\ d.bytesScanned = c.bytesScanned + n
  BY DEF OnBytesScanned, Controller
<1>3. /\ c.entriesCreated \in Nat /\ c.entriesAtCheck \in Nat
      /\ c.bytesScanned \in Nat /\ c.bytesAtCheck \in Nat
  BY DEF Controller
<1> HIDE DEF d
<1>4. DeltaEntries(d) = DeltaEntries(c) /\ DeltaBytes(d) = DeltaBytes(c) + n
      /\ DeltaEntries(c) \in Int /\ DeltaBytes(c) \in Int
  BY <1>2, <1>3 DEF DeltaEntries, DeltaBytes
<1>5. AccountInOrder(d) /\ DeltaEntries(d) < DeltaBytes(d)
  BY <1>2, <1>4 DEF AccountInOrder
<1> QED
  BY <1>1, <1>2, <1>5 DEF d

\* An entry is accounted for, at the checkpoint if it is due, provided that a byte was
\* scanned for it.
LEMMA CreateKeepsAccount ==
    ASSUME NEW c \in Controller, AccountInOrder(c), DeltaEntries(c) < DeltaBytes(c)
    PROVE  LET d == OnEntryCreated(c)
           IN  /\ AccountInOrder(d)
               /\ d.capacity = c.capacity /\ d.scanBudget = c.scanBudget
               /\ d.entriesCreated = c.entriesCreated + 1
               /\ d.bytesScanned = c.bytesScanned
<1> DEFINE created == [c EXCEPT !.entriesCreated = @ + 1]
           d == OnEntryCreated(c)
<1>1. /\ c.entriesCreated \in Nat /\ c.entriesAtCheck \in Nat /\ c.nextCheckpoint \in Nat
      /\ c.bytesScanned \in Nat /\ c.bytesAtCheck \in Nat /\ c.checkInterval \in Nat \ {0}
  BY DEF Controller
<1>2. /\ created.entriesCreated = c.entriesCreated + 1
      /\ created.capacity = c.capacity /\ created.scanBudget = c.scanBudget
      /\ created.entriesAtCheck = c.entriesAtCheck /\ created.bytesAtCheck = c.bytesAtCheck
      /\ created.checkInterval = c.checkInterval
      /\ created.nextCheckpoint = c.nextCheckpoint
      /\ created.bytesScanned = c.bytesScanned
      /\ created \in Controller
  BY DEF Controller
<1>3. d = IF created.entriesCreated >= created.nextCheckpoint
          THEN Rebalance(created) ELSE created
  BY DEF OnEntryCreated
<1> HIDE DEF created, d
<1>4. CASE created.entriesCreated >= created.nextCheckpoint
  <2>1. d = Rebalance(created)
    BY <1>3, <1>4
  <2>2. /\ d.capacity = created.capacity /\ d.scanBudget = created.scanBudget
        /\ d.entriesCreated = created.entriesCreated
        /\ d.bytesScanned = created.bytesScanned
        /\ d.entriesAtCheck = created.entriesCreated
        /\ d.bytesAtCheck = created.bytesScanned
        /\ d.checkInterval = created.checkInterval
        /\ d.nextCheckpoint = created.entriesCreated + created.checkInterval
    BY <1>2, <2>1 DEF Rebalance, Controller
  <2> QED
    BY <1>1, <1>2, <2>2 DEF AccountInOrder, DeltaEntries, DeltaBytes, d
<1>5. CASE created.entriesCreated < created.nextCheckpoint
  <2>1. d = created
    BY <1>1, <1>2, <1>3, <1>5
  <2>2. DeltaEntries(d) = DeltaEntries(c) + 1 /\ DeltaBytes(d) = DeltaBytes(c)
        /\ DeltaEntries(c) \in Int /\ DeltaBytes(c) \in Int
    BY <1>1, <1>2, <2>1 DEF DeltaEntries, DeltaBytes
  <2>3. AccountInOrder(d)
    BY <1>2, <1>5, <2>1, <2>2 DEF AccountInOrder
  <2> QED
    BY <1>2, <2>1, <2>3 DEF d
<1> QED
  BY <1>1, <1>2, <1>4, <1>5

\* The token that a row starts with.
LEMMA StartRowMatches ==
    ASSUME IInv, StartRow
    PROVE  /\ LongestMatch(Tokens, row', 0) \in Token
           /\ Len(LongestMatch(Tokens, row', 0)) \in 1 .. MaxTokenSize
<1>1. nextRow \in 1 .. Len(sample) /\ sample \in Seq(ByteSeq)
  BY LenProperties DEF StartRow, MayStartRow, IInv, TypeOK
<1>2. row' \in ByteSeq /\ row' # <<>>
  BY <1>1, ElementOfSeq DEF StartRow
<1>3. Len(row') \in Nat /\ 0 < Len(row')
  BY <1>2, EmptySeq, LenProperties DEF ByteSeq
<1>4. IsLongestAt(Tokens, row', 0, LongestMatch(Tokens, row', 0))
  BY <1>2, <1>3, LongestMatchFound DEF IInv, TypeOK
<1> QED
  BY <1>4, TokenType DEF IsLongestAt, IInv, TypeOK

\* The controller after the scan of one match.
LEMMA ScannedAccount ==
    ASSUME IInv, ControllerInv, Dynamic, ~budgetExhausted, NEW n \in 1 .. MaxTokenSize
    PROVE  LET c == Scanned(n)
           IN  /\ c \in Controller /\ AccountInOrder(c)
               /\ DeltaEntries(c) < DeltaBytes(c)
               /\ c.capacity = ctrl.capacity /\ c.scanBudget = ctrl.scanBudget
               /\ c.entriesCreated = ctrl.entriesCreated
               /\ c.bytesScanned = ctrl.bytesScanned + n
               /\ c.bytesScanned <= c.scanBudget + MaxTokenSize
<1>1. ctrl \in Controller /\ n \in Nat \ {0} /\ MaxTokenSize \in Nat
  BY BytesAssumption DEF IInv, TypeOK
<1>2. ctrl.bytesScanned <= ctrl.scanBudget /\ ctrl.bytesScanned \in Nat /\ ctrl.scanBudget \in Nat
  BY <1>1 DEF ControllerInv, BudgetExhausted, Controller
<1>3. Scanned(n) = OnBytesScanned(ctrl, n)
  BY DEF Scanned
<1>4. /\ Scanned(n) \in Controller /\ AccountInOrder(Scanned(n))
      /\ DeltaEntries(Scanned(n)) < DeltaBytes(Scanned(n))
      /\ Scanned(n).capacity = ctrl.capacity /\ Scanned(n).scanBudget = ctrl.scanBudget
      /\ Scanned(n).entriesCreated = ctrl.entriesCreated
      /\ Scanned(n).bytesScanned = ctrl.bytesScanned + n
  BY <1>1, <1>3, ScanKeepsAccount DEF ControllerInv
<1> QED
  BY <1>1, <1>2, <1>4

LEMMA ControllerInit == Init => ControllerInv
<1> SUFFICES ASSUME Init PROVE ControllerInv
  OBVIOUS
<1>1. /\ ctrl = NewController(DictCapacity - NumBytes, ScanBudget)
      /\ Len(dict) = NumBytes /\ budgetExhausted = FALSE
  BY BytesAssumption DEF Init
<1>2. ScanBudget \in Nat
  BY InputType DEF Init
<1>3. /\ ctrl.capacity = DictCapacity - NumBytes /\ ctrl.scanBudget = ScanBudget
      /\ ctrl.entriesCreated = 0 /\ ctrl.bytesScanned = 0
      /\ ctrl.entriesAtCheck = 0 /\ ctrl.bytesAtCheck = 0
      /\ ctrl.nextCheckpoint = ctrl.checkInterval
      /\ ctrl.checkInterval = CheckInterval(DictCapacity - NumBytes)
  BY <1>1 DEF NewController
<1>4. ctrl.capacity \in Nat \ {0}
  BY <1>3, BytesAssumption, TrainerAssumption
<1>5. ctrl.checkInterval \in Nat \ {0}
  BY <1>3, <1>4, ThresholdAssumption DEF CheckInterval
<1>6. AccountInOrder(ctrl)
  BY <1>3, <1>5 DEF AccountInOrder, DeltaEntries, DeltaBytes
<1> QED
  BY <1>1, <1>2, <1>3, <1>4, <1>6, BytesAssumption, TrainerAssumption
     DEF ControllerInv, BudgetExhausted

LEMMA ControllerStep == IInv /\ ControllerInv /\ [Next]_vars => ControllerInv'
<1> SUFFICES ASSUME IInv, ControllerInv, [Next]_vars PROVE ControllerInv'
  OBVIOUS
<1>1. /\ UNCHANGED inputVars /\ Dynamic' = Dynamic /\ ScanBudget' = ScanBudget
  BY DEF Next, vars, RetryShuffle, AcceptOrder, SkipEmptyRow, StartRow, EndRow, ScanExhausted,
         Advance, MergePair, FillDictionary, SealDictionary, inputVars, Dynamic, ScanBudget,
         TotalBytes
<1>2. MaxTokenSize \in Nat
  BY BytesAssumption
<1>3. CASE RetryShuffle \/ AcceptOrder \/ SkipEmptyRow \/ EndRow \/ SealDictionary \/ UNCHANGED vars
  <2>1. ctrl' = ctrl /\ dict' = dict /\ UNCHANGED stopVars
    BY <1>3 DEF RetryShuffle, AcceptOrder, SkipEmptyRow, EndRow, SealDictionary, vars, dictVars
  <2>2. stage' \in {"order", "row"} => stage \in {"order", "row"}
    BY <1>3 DEF RetryShuffle, AcceptOrder, SkipEmptyRow, MayStartRow, EndRow, SealDictionary, vars
  <2> QED
    BY <1>1, <2>1, <2>2 DEF ControllerInv, AccountInOrder, stopVars
<1>4. CASE StartRow
  <2> DEFINE first == LongestMatch(Tokens, row', 0)
  <2>1. /\ ctrl' = Scanned(Len(first)) /\ dict' = dict /\ ~budgetExhausted
        /\ fullDictionary' = fullDictionary
        /\ budgetExhausted' = Exhausted(ctrl')
        /\ stage' = IF budgetExhausted' THEN "rows" ELSE "row"
    BY <1>4 DEF StartRow, MayStartRow, dictVars
  <2>2. Len(first) \in 1 .. MaxTokenSize
    BY <1>4, StartRowMatches
  <2> HIDE DEF first
  <2>3. stage' \in {"order", "row"} => ~budgetExhausted'
    BY <2>1
  <2>4. CASE Dynamic
    BY <1>1, <2>1, <2>2, <2>3, <2>4, ScannedAccount DEF ControllerInv, Exhausted
  <2>5. CASE ~Dynamic
    BY <1>1, <2>3, <2>5 DEF ControllerInv
  <2> QED
    BY <2>4, <2>5
<1>5. CASE ScanExhausted \/ Advance \/ MergePair \/ FillDictionary
  <2> DEFINE n == Len(Current)
             c == Scanned(n)
  <2>1. stage = "row" /\ pos < Len(row) /\ ~budgetExhausted
    BY <1>5 DEF ScanExhausted, Advance, MergePair, FillDictionary, InBudget, ControllerInv
  <2>2. n \in 1 .. MaxTokenSize
    BY <2>1, CurrentFound
  <2>3. /\ stage' \in {"row", "rows"}
        /\ stage' = "row" => ~budgetExhausted'
    BY <1>5, <2>1 DEF ScanExhausted, Advance, MergePair, FillDictionary, stopVars
  <2> HIDE DEF n
  <2>4. CASE ~Dynamic
    BY <1>1, <2>3, <2>4 DEF ControllerInv
  <2>5. CASE Dynamic
    <3>1. /\ c \in Controller /\ AccountInOrder(c)
          /\ DeltaEntries(c) < DeltaBytes(c)
          /\ c.capacity = ctrl.capacity /\ c.scanBudget = ctrl.scanBudget
          /\ c.entriesCreated = ctrl.entriesCreated
          /\ c.bytesScanned <= c.scanBudget + MaxTokenSize
      BY <2>1, <2>2, <2>5, ScannedAccount
    <3>2. /\ ctrl.capacity = DictCapacity - NumBytes /\ ctrl.scanBudget = ScanBudget
          /\ ctrl.entriesCreated < ctrl.capacity
          /\ ~fullDictionary
          /\ ctrl.entriesCreated = Len(dict) - NumBytes
      BY <2>1, <2>5 DEF ControllerInv, IInv, ScanHasRoom
    <3> HIDE DEF c
    <3>3. CASE ScanExhausted
      <4>1. /\ ctrl' = c /\ BudgetExhausted(c) /\ budgetExhausted' /\ dict' = dict
            /\ fullDictionary' = fullDictionary
        BY <2>5, <3>3 DEF ScanExhausted, Exhausted, dictVars, c, n
      <4> QED
        BY <1>1, <2>3, <3>1, <3>2, <4>1 DEF ControllerInv
    <3>4. CASE Advance
      <4>1. /\ ctrl' = c /\ ~BudgetExhausted(c) /\ dict' = dict
            /\ fullDictionary' = fullDictionary /\ budgetExhausted' = budgetExhausted
        BY <2>5, <3>4 DEF Advance, InBudget, Exhausted, dictVars, stopVars, c, n
      <4> QED
        BY <1>1, <2>1, <2>3, <3>1, <3>2, <4>1 DEF ControllerInv
    <3>5. CASE MergePair
      <4>1. /\ ctrl' = OnEntryCreated(c) /\ ~BudgetExhausted(c)
            /\ fullDictionary' = fullDictionary /\ budgetExhausted' = budgetExhausted
            /\ nextId + 1 # DictCapacity
        BY <2>5, <3>5 DEF MergePair, InBudget, Exhausted, stopVars, HasRoom, c, n
      <4>2. /\ Len(dict') = Len(dict) + 1 /\ Len(dict') \in NumBytes .. DictCapacity
            /\ nextId = Len(dict)
        BY <3>5, MergeInserts DEF IInv, IdsArePositions
      <4>3. Len(dict) \in Nat /\ NumBytes \in Nat /\ DictCapacity \in Nat
        BY LenProperties, BytesAssumption, TrainerAssumption DEF IInv, TypeOK
      <4>4. /\ AccountInOrder(ctrl')
            /\ ctrl'.capacity = c.capacity /\ ctrl'.scanBudget = c.scanBudget
            /\ ctrl'.entriesCreated = c.entriesCreated + 1
            /\ ctrl'.bytesScanned = c.bytesScanned
        BY <3>1, <4>1, CreateKeepsAccount
      <4>5. /\ ctrl'.entriesCreated = Len(dict') - NumBytes
            /\ ctrl'.entriesCreated < ctrl'.capacity
        BY <3>1, <3>2, <4>1, <4>2, <4>3, <4>4
      <4>6. ~BudgetExhausted(ctrl')
        BY <4>1, <4>4 DEF BudgetExhausted
      <4> QED
        BY <1>1, <2>1, <2>3, <3>1, <3>2, <4>1, <4>4, <4>5, <4>6 DEF ControllerInv
    <3>6. CASE FillDictionary
      <4>1. /\ ctrl' = c /\ ~BudgetExhausted(c) /\ fullDictionary' = TRUE
            /\ budgetExhausted' = budgetExhausted
        BY <2>5, <3>6 DEF FillDictionary, InBudget, Exhausted, c, n
      <4> QED
        BY <1>1, <2>1, <2>3, <3>1, <3>2, <4>1 DEF ControllerInv
    <3> QED
      BY <1>5, <3>3, <3>4, <3>5, <3>6
  <2> QED
    BY <2>4, <2>5
<1> QED
  BY <1>3, <1>4, <1>5 DEF Next

\* What is gathered is all of the selection, or more than the budget.
LEMMA GatheredIsEnough ==
    ASSUME NEW rows \in Seq(ByteSeq), NEW budget \in Nat
    PROVE  LET some == Gathered(rows, budget)
           IN  \/ some = rows
               \/ ByteCount(some, Len(some)) > budget
<1> DEFINE taken == {i \in 1 .. Len(rows) : ByteCount(rows, i - 1) <= budget}
           left == {i \in 1 .. Len(rows) : i \notin taken}
<1>1. Len(rows) \in Nat
  BY LenProperties
<1>2. \A n \in 0 .. Len(rows) : ByteCount(rows, n) \in Nat
  BY ByteCountSteps
<1>3. Gathered(rows, budget) = SubSeq(rows, 1, Cardinality(taken))
  BY DEF Gathered
<1>4. ASSUME NEW n \in Nat
      PROVE  Cardinality(1 .. n) = n
  <2>1. 1 \in Int /\ n \in Int
    OBVIOUS
  <2>2. Cardinality(1 .. n) = IF 1 > n THEN 0 ELSE n - 1 + 1
    BY <2>1, FS_Interval, Zenon
  <2> QED
    BY <2>2
<1>5. CASE left = {}
  <2>1. taken = 1 .. Len(rows)
    BY <1>5
  <2>2. Cardinality(taken) = Len(rows)
    BY <1>1, <1>4, <2>1
  <2> QED
    BY <1>3, <2>2, SubSeqFull
<1>6. CASE left # {}
  <2>1. PICK m \in left : \A i \in left : m <= i
    <3>1. left \in SUBSET Nat
      BY <1>1
    <3> QED
      BY <1>6, <3>1, LeastNatural
  <2>2. m \in 1 .. Len(rows) /\ m - 1 \in 0 .. Len(rows) /\ m - 1 \in Nat
        /\ ByteCount(rows, m - 1) > budget
    BY <1>1, <1>2, <2>1
  <2>3. ASSUME NEW i \in 1 .. Len(rows), i \in taken PROVE i <= m - 1
    <3>1. CASE i >= m
      <4>1. i - 1 \in m - 1 .. Len(rows)
        BY <1>1, <2>2, <3>1
      <4>2. ByteCount(rows, m - 1) <= ByteCount(rows, i - 1)
        BY <2>2, <4>1, ByteCountMonotone
      <4>3. ByteCount(rows, i - 1) <= budget /\ i - 1 \in 0 .. Len(rows)
        BY <1>1, <2>3
      <4> QED
        BY <1>2, <2>2, <4>2, <4>3
    <3> QED
      BY <2>2, <3>1
  <2>4. ASSUME NEW i \in 1 .. m - 1 PROVE i \in taken
    <3>1. i \in 1 .. Len(rows) /\ ~(m <= i)
      BY <1>1, <2>2
    <3>2. i \notin left
      <4> HIDE DEF left
      <4> QED
        BY <2>1, <3>1
    <3> QED
      BY <3>1, <3>2
  <2>5. taken = 1 .. m - 1
    <3>1. taken \subseteq 1 .. m - 1
      <4>1. \A i \in taken : i \in 1 .. Len(rows)
        OBVIOUS
      <4> HIDE DEF taken
      <4> QED
        BY <2>3, <4>1
    <3> HIDE DEF taken
    <3> QED
      BY <2>4, <3>1
  <2> HIDE DEF taken
  <2>6. Cardinality(taken) = m - 1
    BY <1>4, <2>2, <2>5
  <2>7. /\ Len(SubSeq(rows, 1, m - 1)) = m - 1
        /\ ByteCount(SubSeq(rows, 1, m - 1), m - 1) = ByteCount(rows, m - 1)
    <3>1. m - 1 \in 0 .. m - 1
      BY <2>2
    <3>2. ByteCount(SubSeq(rows, 1, m - 1), m - 1) = ByteCount(rows, m - 1)
      BY <2>2, <3>1, ByteCountOfPrefix
    <3>3. Len(SubSeq(rows, 1, m - 1)) = m - 1
      <4>1. \A k \in 1 .. m - 1 : rows[k] \in ByteSeq
        BY <1>1, <2>2, ElementOfSeq
      <4> QED
        BY <2>2, <4>1, SubSeqProperties
    <3> QED
      BY <3>2, <3>3
  <2> QED
    BY <1>3, <2>2, <2>6, <2>7
<1> QED
  BY <1>5, <1>6

LEMMA SampleInit == Init => SampleInv
<1> SUFFICES ASSUME Init PROVE SampleInv
  OBVIOUS
<1>1. ctrl.bytesScanned = 0 /\ nextRow = 1 /\ stage = "order"
  BY DEF Init, NewController
<1>2. ~Dynamic => shuffleK = Len(corpus)
  <2>1. ~Dynamic => config.kind = "fixed"
    BY TrainerAssumption DEF Init, Dynamic
  <2> QED
    BY <2>1 DEF Init, InitialShuffle
<1> QED
  BY <1>1, <1>2 DEF SampleInv, SampleSuffices

\* The accepted order leaves a sample that is enough.
LEMMA AcceptOrderIsEnough ==
    ASSUME IInv, SampleInv, AcceptOrder
    PROVE  SampleIsEnough'
<1>1. /\ corpus \in Seq(ByteSeq) /\ Len(corpus) \in Nat /\ ScanBudget \in Nat
      /\ shuffleK \in 0 .. Len(corpus)
  BY InputType DEF IInv, TypeOK
<1>2. PICK order \in Selections(Len(corpus), shuffleK) :
        LET selected == [i \in 1 .. shuffleK |-> corpus[order[i]]]
        IN  /\ \/ ~Dynamic
               \/ ByteCount(selected, shuffleK) > ScanBudget
               \/ shuffleK = Len(corpus)
            /\ sample' = IF Dynamic /\ ScanBudget <= TotalBytes \div 2
                         THEN Gathered(selected, ScanBudget)
                         ELSE selected
  BY DEF AcceptOrder
<1> DEFINE selected == [i \in 1 .. shuffleK |-> corpus[order[i]]]
<1>3. selected \in Seq(ByteSeq)
  BY <1>1, SelectionType
<1>4. Len(selected) = shuffleK
  BY <1>1, <1>3, LenProperties
<1>5. Dynamic' = Dynamic /\ ScanBudget' = ScanBudget /\ corpus' = corpus
  BY DEF AcceptOrder, inputVars, Dynamic, ScanBudget, TotalBytes
<1>6. \/ ~Dynamic
      \/ ByteCount(selected, shuffleK) > ScanBudget
      \/ shuffleK = Len(corpus)
  BY <1>2
<1>7. sample' = selected \/ (Dynamic /\ sample' = Gathered(selected, ScanBudget))
  BY <1>2
<1> HIDE DEF selected
<1>8. \/ shuffleK = Len(corpus)
      \/ Dynamic /\ ByteCount(selected, Len(selected)) > ScanBudget
  BY <1>4, <1>6 DEF SampleInv
<1>9. CASE sample' = selected
  BY <1>4, <1>5, <1>8, <1>9 DEF SampleIsEnough
<1>10. CASE Dynamic /\ sample' = Gathered(selected, ScanBudget)
  <2>1. sample' = selected \/ ByteCount(sample', Len(sample')) > ScanBudget
    BY <1>1, <1>3, <1>10, GatheredIsEnough
  <2> QED
    BY <1>5, <1>9, <1>10, <2>1 DEF SampleIsEnough
<1> QED
  BY <1>7, <1>9, <1>10

\* When a row is entered, the scan stands where its bytes begin.
LEMMA RowBytes ==
    ASSUME IInv, NEW n \in 1 .. Len(sample)
    PROVE  /\ ByteCount(sample, n) = ByteCount(sample, n - 1) + Len(sample[n])
           /\ ByteCount(sample, n) \in Nat /\ ByteCount(sample, n - 1) \in Nat
           /\ Len(sample[n]) \in Nat
<1>1. sample \in Seq(ByteSeq) /\ Len(sample) \in Nat
  BY LenProperties DEF IInv, TypeOK
<1>2. sample[n] \in ByteSeq /\ n - 1 \in 0 .. Len(sample) /\ n \in 0 .. Len(sample)
  BY <1>1, ElementOfSeq
<1> QED
  BY <1>1, <1>2, ByteCountSteps, LenProperties DEF ByteSeq

LEMMA SampleStep ==
    ASSUME IInv, ControllerInv, SampleInv, [Next]_vars
    PROVE  SampleInv'
<1>1. /\ Dynamic' = Dynamic /\ ScanBudget' = ScanBudget /\ corpus' = corpus
  BY DEF Next, vars, RetryShuffle, AcceptOrder, SkipEmptyRow, StartRow, EndRow, ScanExhausted,
         Advance, MergePair, FillDictionary, SealDictionary, inputVars, Dynamic, ScanBudget,
         TotalBytes
<1>2. /\ sample \in Seq(ByteSeq) /\ Len(sample) \in Nat /\ nextRow \in Nat \ {0}
      /\ Len(corpus) \in Nat /\ shuffleK \in 0 .. Len(corpus)
      /\ corpus \in Seq(ByteSeq) /\ ScanBudget \in Nat
  BY InputType, LenProperties DEF IInv, TypeOK
<1>3. CASE RetryShuffle
  <2>1. /\ stage' = stage /\ stage = "order" /\ Dynamic /\ ctrl' = ctrl /\ nextRow' = nextRow
    BY <1>3 DEF RetryShuffle
  <2> QED
    BY <1>1, <2>1 DEF SampleInv, SampleSuffices
<1>4. CASE AcceptOrder
  <2>1. /\ stage' = "rows" /\ stage = "order" /\ ctrl' = ctrl /\ nextRow' = nextRow
        /\ shuffleK' = shuffleK
    BY <1>4 DEF AcceptOrder
  <2>2. SampleIsEnough'
    BY <1>4, AcceptOrderIsEnough
  <2>3. sample' \in Seq(ByteSeq)
    BY <1>4, OrderStep DEF IInv, TypeOK
  <2>4. ByteCount(sample', 0) = 0 /\ Len(sample') \in Nat
    BY <2>3, ByteCountSteps, LenProperties
  <2>5. nextRow' - 1 = 0 /\ nextRow' \in 1 .. Len(sample') + 1 /\ ctrl'.bytesScanned = 0
    BY <2>1, <2>4 DEF SampleInv
  <2> QED
    BY <1>1, <2>1, <2>2, <2>4, <2>5 DEF SampleInv, SampleSuffices
<1>5. CASE SkipEmptyRow
  <2>1. /\ stage = "rows" /\ stage' = "rows" /\ ctrl' = ctrl /\ nextRow' = nextRow + 1
        /\ UNCHANGED sampleVars /\ UNCHANGED stopVars
        /\ nextRow <= Len(sample) /\ sample[nextRow] = <<>>
        /\ ~fullDictionary /\ ~budgetExhausted
    BY <1>5 DEF SkipEmptyRow, MayStartRow
  <2>2. nextRow \in 1 .. Len(sample) /\ nextRow' - 1 = nextRow /\ nextRow' \in 1 .. Len(sample) + 1
    BY <1>2, <2>1
  <2>3. ByteCount(sample, nextRow) = ByteCount(sample, nextRow - 1)
    BY <2>1, <2>2, RowBytes
  <2> QED
    BY <1>1, <2>1, <2>2, <2>3 DEF SampleInv, SampleSuffices, SampleIsEnough, sampleVars, stopVars
<1>6. CASE StartRow
  <2> DEFINE n == Len(LongestMatch(Tokens, row', 0))
  <2>1. /\ stage = "rows" /\ nextRow' = nextRow + 1
        /\ UNCHANGED sampleVars
        /\ nextRow <= Len(sample) /\ row' = sample[nextRow]
        /\ ~fullDictionary /\ ~budgetExhausted
        /\ pos' = n /\ ctrl' = Scanned(n)
        /\ stage' = IF budgetExhausted' THEN "rows" ELSE "row"
    BY <1>6 DEF StartRow, MayStartRow
  <2>2. n \in 1 .. MaxTokenSize
    BY <1>6, StartRowMatches
  <2> HIDE DEF n
  <2>3. /\ nextRow \in 1 .. Len(sample) /\ nextRow' - 1 = nextRow /\ nextRow' - 2 = nextRow - 1
        /\ nextRow' \in 1 .. Len(sample) + 1 /\ nextRow' > 1
    BY <1>2, <2>1
  <2>4. Dynamic => ctrl'.bytesScanned = ByteCount(sample, nextRow - 1) + n
    BY <2>1, <2>2, ScannedAccount DEF SampleInv
  <2> QED
    BY <1>1, <2>1, <2>3, <2>4 DEF SampleInv, SampleSuffices, SampleIsEnough, sampleVars
<1>7. CASE EndRow
  <2>1. /\ stage = "row" /\ stage' = "rows" /\ ctrl' = ctrl /\ nextRow' = nextRow
        /\ UNCHANGED sampleVars /\ UNCHANGED stopVars /\ pos = Len(row)
    BY <1>7 DEF EndRow
  <2>2. nextRow - 1 \in 1 .. Len(sample) /\ (nextRow - 1) - 1 = nextRow - 2
    BY <1>2, <2>1 DEF SampleInv
  <2>3. ByteCount(sample, nextRow - 1) = ByteCount(sample, nextRow - 2) + Len(row)
    BY <2>1, <2>2, RowBytes DEF SampleInv
  <2> QED
    BY <1>1, <2>1, <2>3 DEF SampleInv, SampleSuffices, SampleIsEnough, sampleVars, stopVars
<1>8. CASE ScanExhausted \/ FillDictionary
  <2>1. /\ stage = "row" /\ stage' = "rows" /\ nextRow' = nextRow
        /\ UNCHANGED sampleVars
        /\ fullDictionary' \/ budgetExhausted'
    BY <1>8 DEF ScanExhausted, FillDictionary, InBudget
  <2> QED
    BY <1>1, <2>1 DEF SampleInv, SampleSuffices, SampleIsEnough, sampleVars
<1>9. CASE Advance \/ MergePair
  <2> DEFINE n == Len(Current)
  <2>1. /\ stage = "row" /\ stage' = "row" /\ nextRow' = nextRow /\ row' = row
        /\ UNCHANGED sampleVars /\ UNCHANGED stopVars
        /\ pos < Len(row) /\ pos' = pos + n /\ ~budgetExhausted
    BY <1>9 DEF Advance, MergePair, InBudget, ControllerInv
  <2>2. n \in 1 .. MaxTokenSize
    BY <2>1, CurrentFound
  <2>3. ASSUME Dynamic
        PROVE  ctrl'.bytesScanned = ctrl.bytesScanned + n
    <3>1. /\ Scanned(n) \in Controller /\ AccountInOrder(Scanned(n))
          /\ DeltaEntries(Scanned(n)) < DeltaBytes(Scanned(n))
          /\ Scanned(n).bytesScanned = ctrl.bytesScanned + n
      <4> HIDE DEF n
      <4> QED
        BY <2>1, <2>2, <2>3, ScannedAccount
    <3>2. ctrl' = Scanned(n) \/ ctrl' = OnEntryCreated(Scanned(n))
      BY <1>9, <2>3 DEF Advance, MergePair
    <3> HIDE DEF n
    <3> QED
      BY <3>1, <3>2, CreateKeepsAccount
  <2> HIDE DEF n
  <2>4. Dynamic => ctrl'.bytesScanned = ByteCount(sample, nextRow - 2) + pos'
    <3>1. pos \in Nat /\ n \in Nat
      BY <2>2, LenProperties, BytesAssumption DEF IInv, TypeOK, ByteSeq
    <3>2. nextRow - 1 \in 1 .. Len(sample) /\ (nextRow - 1) - 1 = nextRow - 2
      BY <1>2, <2>1 DEF SampleInv
    <3>3. ByteCount(sample, nextRow - 2) \in Nat
      BY <3>2, RowBytes
    <3> QED
      BY <2>1, <2>3, <3>1, <3>3 DEF SampleInv
  <2> QED
    BY <1>1, <2>1, <2>4 DEF SampleInv, SampleSuffices, SampleIsEnough, sampleVars
<1>10. CASE SealDictionary
  <2>1. /\ stage = "rows" /\ stage' = "done" /\ ctrl' = ctrl /\ nextRow' = nextRow
        /\ UNCHANGED sampleVars /\ UNCHANGED stopVars
        /\ fullDictionary \/ budgetExhausted \/ nextRow > Len(sample)
    BY <1>10 DEF SealDictionary
  <2>2. SampleSuffices'
    <3>1. SUFFICES ASSUME Len(sample) < Len(corpus), ~fullDictionary, ~budgetExhausted
                   PROVE  FALSE
      BY <1>1, <2>1 DEF SampleSuffices, sampleVars, stopVars
    <3>2. nextRow - 1 = Len(sample)
      BY <1>2, <2>1, <3>1 DEF SampleInv
    <3>3. Dynamic /\ ByteCount(sample, Len(sample)) > ScanBudget
      BY <1>2, <2>1, <3>1 DEF SampleInv, SampleIsEnough
    <3>4. ctrl.bytesScanned = ByteCount(sample, Len(sample))
      BY <2>1, <3>1, <3>2, <3>3 DEF SampleInv
    <3> QED
      BY <3>1, <3>3, <3>4 DEF ControllerInv, BudgetExhausted
  <2> QED
    BY <1>1, <2>1, <2>2 DEF SampleInv, SampleIsEnough, sampleVars
<1>11. CASE UNCHANGED vars
  BY <1>1, <1>11 DEF vars, sampleVars, rowVars, stopVars, SampleInv, SampleIsEnough, SampleSuffices
<1> QED
  BY <1>3, <1>4, <1>5, <1>6, <1>7, <1>8, <1>9, <1>10, <1>11 DEF Next

LEMMA AccountInvariance == Spec => [](IInv /\ ControllerInv /\ SampleInv)
<1>1. Init => ControllerInv /\ SampleInv
  BY ControllerInit, SampleInit
<1>2. IInv /\ ControllerInv /\ SampleInv /\ [Next]_vars => ControllerInv' /\ SampleInv'
  BY ControllerStep, SampleStep
<1> QED
  BY <1>1, <1>2, Invariance, PTL DEF Spec

-----------------------------------------------------------------------------
(***************************************************************************)
(* Sorting: ranks are the positions 1 .. Len(tokens), each of them once.   *)
(***************************************************************************)

Ahead(tokens, i) == {j \in 1 .. Len(tokens) : Precedes(tokens, j, i)}

\* The order of positions is strict and total, whatever tokens are there.
LEMMA PrecedesOrders ==
    ASSUME NEW tokens \in Seq(Token)
    PROVE  /\ \A i \in 1 .. Len(tokens) : ~Precedes(tokens, i, i)
           /\ \A h, i, j \in 1 .. Len(tokens) :
                Precedes(tokens, h, i) /\ Precedes(tokens, i, j) => Precedes(tokens, h, j)
           /\ \A i, j \in 1 .. Len(tokens) :
                i # j => Precedes(tokens, i, j) \/ Precedes(tokens, j, i)
<1>1. \A i \in 1 .. Len(tokens) : tokens[i] \in ByteSeq
  BY TokenType, ElementOfSeq
<1>2. \A i \in 1 .. Len(tokens) : ~Precedes(tokens, i, i)
  BY <1>1, LexIrreflexive DEF Precedes
<1>3. ASSUME NEW h \in 1 .. Len(tokens), NEW i \in 1 .. Len(tokens), NEW j \in 1 .. Len(tokens),
             Precedes(tokens, h, i), Precedes(tokens, i, j)
      PROVE  Precedes(tokens, h, j)
  <2>1. tokens[h] \in ByteSeq /\ tokens[i] \in ByteSeq /\ tokens[j] \in ByteSeq
    BY <1>1
  <2>2. LexLess(tokens[h], tokens[i]) /\ LexLess(tokens[i], tokens[j])
            => LexLess(tokens[h], tokens[j])
    BY <2>1, LexTransitive
  <2> QED
    BY <1>3, <2>2 DEF Precedes
<1>4. ASSUME NEW i \in 1 .. Len(tokens), NEW j \in 1 .. Len(tokens), i # j
      PROVE  Precedes(tokens, i, j) \/ Precedes(tokens, j, i)
  <2>1. tokens[i] \in ByteSeq /\ tokens[j] \in ByteSeq
    BY <1>1
  <2>2. tokens[i] # tokens[j] =>
            LexLess(tokens[i], tokens[j]) \/ LexLess(tokens[j], tokens[i])
    BY <2>1, LexTotal
  <2> QED
    BY <1>4, <2>2 DEF Precedes
<1> QED
  BY <1>2, <1>3, <1>4

LEMMA RanksAreOrdered ==
    ASSUME NEW tokens \in Seq(Token)
    PROVE  /\ \A i \in 1 .. Len(tokens) : Rank(tokens, i) \in 1 .. Len(tokens)
           /\ \A i, j \in 1 .. Len(tokens) :
                Precedes(tokens, i, j) => Rank(tokens, i) < Rank(tokens, j)
<1> DEFINE n == Len(tokens)
<1>1. n \in Nat
  BY LenProperties
<1>2. IsFiniteSet(1 .. n) /\ Cardinality(1 .. n) = n
  <2>1. 1 \in Int /\ n \in Int
    BY <1>1
  <2>2. IsFiniteSet(1 .. n) /\ Cardinality(1 .. n) = IF 1 > n THEN 0 ELSE n - 1 + 1
    BY <2>1, FS_Interval, Zenon
  <2> QED
    BY <1>1, <2>2
<1>3. \A i \in 1 .. n : Rank(tokens, i) = Cardinality(Ahead(tokens, i)) + 1
  BY DEF Rank, Ahead
<1>4. ASSUME NEW i \in 1 .. n
      PROVE  /\ Ahead(tokens, i) \subseteq 1 .. n /\ i \notin Ahead(tokens, i)
             /\ IsFiniteSet(Ahead(tokens, i))
             /\ Cardinality(Ahead(tokens, i)) \in 0 .. n - 1
  <2>1. Ahead(tokens, i) \subseteq 1 .. n /\ i \notin Ahead(tokens, i)
    BY PrecedesOrders DEF Ahead
  <2>2. IsFiniteSet(Ahead(tokens, i)) /\ Cardinality(Ahead(tokens, i)) <= n
        /\ (n = Cardinality(Ahead(tokens, i)) => 1 .. n = Ahead(tokens, i))
    <3>1. Ahead(tokens, i) \in SUBSET (1 .. n)
      BY <2>1
    <3> QED
      BY <1>2, <3>1, FS_Subset, Zenon
  <2>3. Cardinality(Ahead(tokens, i)) \in Nat
    BY <2>2, FS_CardinalityType
  <2>4. n # Cardinality(Ahead(tokens, i))
    BY <2>1, <2>2
  <2> QED
    BY <1>1, <2>1, <2>2, <2>3, <2>4
<1>5. ASSUME NEW i \in 1 .. n, NEW j \in 1 .. n, Precedes(tokens, i, j)
      PROVE  Rank(tokens, i) < Rank(tokens, j)
  <2>1. Ahead(tokens, i) \in SUBSET Ahead(tokens, j)
    BY <1>5, PrecedesOrders DEF Ahead
  <2>2. i \in Ahead(tokens, j) /\ i \notin Ahead(tokens, i)
    BY <1>4, <1>5 DEF Ahead
  <2>3. /\ Cardinality(Ahead(tokens, i)) <= Cardinality(Ahead(tokens, j))
        /\ Cardinality(Ahead(tokens, j)) # Cardinality(Ahead(tokens, i))
    <3>1. IsFiniteSet(Ahead(tokens, j))
      BY <1>4
    <3> QED
      BY <2>1, <2>2, <3>1, FS_Subset, Zenon
  <2>4. Cardinality(Ahead(tokens, i)) \in Int /\ Cardinality(Ahead(tokens, j)) \in Int
    BY <1>1, <1>4
  <2> QED
    BY <1>3, <2>3, <2>4
<1>6. \A i \in 1 .. n : Rank(tokens, i) \in 1 .. n
  BY <1>1, <1>3, <1>4
<1> QED
  BY <1>5, <1>6

\* sort_tokens sorts: strictly, if no token is there twice.
LEMMA SortTokensSorts ==
    ASSUME NEW tokens \in Seq(Token),
           \A i, j \in 1 .. Len(tokens) : tokens[i] = tokens[j] => i = j
    PROVE  LET s == SortTokens(tokens)
           IN  /\ s \in Seq(Token) /\ Len(s) = Len(tokens)
               /\ {s[k] : k \in 1 .. Len(tokens)} = {tokens[k] : k \in 1 .. Len(tokens)}
               /\ \A j, k \in 1 .. Len(tokens) : j < k => LexLess(s[j], s[k])
<1> DEFINE n == Len(tokens)
           rank == [i \in 1 .. n |-> Rank(tokens, i)]
           at(k) == CHOOSE i \in 1 .. n : Rank(tokens, i) = k
           s == SortTokens(tokens)
<1>1. n \in Nat
  BY LenProperties
<1>2. \A k \in 1 .. n : \E i \in 1 .. n : Rank(tokens, i) = k
  <2>1. rank \in [1 .. n -> 1 .. n]
    BY RanksAreOrdered
  <2>2. ASSUME NEW i \in 1 .. n, NEW j \in 1 .. n, rank[i] = rank[j]
        PROVE  i = j
    <3>1. SUFFICES ASSUME i # j PROVE FALSE
      OBVIOUS
    <3>2. Precedes(tokens, i, j) \/ Precedes(tokens, j, i)
      BY <3>1, PrecedesOrders
    <3>3. rank[i] < rank[j] \/ rank[j] < rank[i]
      BY <3>2, RanksAreOrdered
    <3>4. rank[i] \in Int /\ rank[j] \in Int
      BY <2>1
    <3> QED
      BY <2>2, <3>3, <3>4
  <2> HIDE DEF rank
  <2>3. rank \in Injection(1 .. n, 1 .. n)
    BY <2>1, <2>2, Fun_IsInj
  <2>4. rank \in Surjection(1 .. n, 1 .. n)
    <3>1. IsFiniteSet(1 .. n)
      <4>1. 1 \in Int /\ n \in Int
        BY <1>1
      <4> QED
        BY <4>1, FS_Interval, Zenon
    <3> QED
      BY <2>3, <3>1, FS_Injection, Zenon
  <2>5. \A k \in 1 .. n : \E i \in 1 .. n : rank[i] = k
    BY <2>4, Fun_SurjectionProperties
  <2> QED
    BY <2>5 DEF rank
<1>3. \A k \in 1 .. n : at(k) \in 1 .. n /\ Rank(tokens, at(k)) = k
  BY <1>2
<1>4. s = [k \in 1 .. n |-> tokens[at(k)]]
  BY DEF SortTokens
<1> HIDE DEF at, s
<1>5. \A k \in 1 .. n : tokens[at(k)] \in Token
  BY <1>3, ElementOfSeq
<1>6. s \in Seq(Token) /\ Len(s) = n
  BY <1>1, <1>4, <1>5
<1>7. \A i \in 1 .. n : \E k \in 1 .. n : at(k) = i
  <2> SUFFICES ASSUME NEW i \in 1 .. n PROVE \E k \in 1 .. n : at(k) = i
    OBVIOUS
  <2> DEFINE k == Rank(tokens, i)
  <2>1. k \in 1 .. n
    BY RanksAreOrdered
  <2>2. at(k) \in 1 .. n /\ Rank(tokens, at(k)) = k
    BY <1>3, <2>1
  <2>3. CASE at(k) # i
    <3>1. Precedes(tokens, at(k), i) \/ Precedes(tokens, i, at(k))
      BY <2>2, <2>3, PrecedesOrders
    <3>2. k < k
      BY <2>2, <3>1, RanksAreOrdered
    <3> QED
      BY <2>1, <3>2
  <2> QED
    BY <2>1, <2>3
<1>8. {s[k] : k \in 1 .. n} = {tokens[k] : k \in 1 .. n}
  BY <1>3, <1>4, <1>7
<1>9. ASSUME NEW j \in 1 .. n, NEW k \in 1 .. n, j < k
      PROVE  LexLess(s[j], s[k])
  <2>1. /\ at(j) \in 1 .. n /\ Rank(tokens, at(j)) = j
        /\ at(k) \in 1 .. n /\ Rank(tokens, at(k)) = k
    BY <1>3
  <2>2. ~Precedes(tokens, at(k), at(j))
    <3>1. ~(k < j)
      BY <1>9
    <3> QED
      BY <2>1, <3>1, RanksAreOrdered
  <2>3. at(j) # at(k)
    BY <1>9, <2>1
  <2>4. Precedes(tokens, at(j), at(k))
    BY <2>1, <2>2, <2>3, PrecedesOrders
  <2>5. LexLess(tokens[at(j)], tokens[at(k)])
    BY <2>1, <2>3, <2>4 DEF Precedes
  <2> QED
    BY <1>4, <2>5
<1> QED
  BY <1>6, <1>8, <1>9 DEF s

\* Sealing sorts a dictionary that is complete and holds no token twice.
LEMMA SealedConformsStep ==
    ASSUME IInv, SealedConforms, [Next]_vars
    PROVE  SealedConforms'
<1>1. CASE SealDictionary
  <2> DEFINE n == Len(dict)
  <2>1. dict \in Seq(Token) /\ n \in Nat /\ DOMAIN dict = 1 .. n
    BY LenProperties DEF IInv, TypeOK
  <2>2. \A i, j \in 1 .. n : dict[i] = dict[j] => i = j
    BY <2>1 DEF IInv, IdsArePositions
  <2>3. sealed' = SortTokens(dict) /\ UNCHANGED dict
    BY <1>1 DEF SealDictionary, dictVars
  <2>4. /\ sealed' \in Seq(Token) /\ Len(sealed') = n
        /\ {sealed'[k] : k \in 1 .. n} = {dict[k] : k \in 1 .. n}
        /\ \A j, k \in 1 .. n : j < k => LexLess(sealed'[j], sealed'[k])
    BY <2>1, <2>2, <2>3, SortTokensSorts
  <2>5. DOMAIN sealed' = 1 .. n
    BY <2>4, LenProperties
  <2>6. SingleByteTokens \subseteq {dict[k] : k \in 1 .. n}
    BY <2>1 DEF IInv, IdsArePositions
  <2>7. {sealed'[k] : k \in 1 .. n} \subseteq Token
    BY <2>4, <2>5, ElementOfSeq
  <2>8. \A i \in 1 .. n - 1 : LexLess(sealed'[i], sealed'[i + 1])
    BY <2>1, <2>4
  <2> QED
    BY <2>3, <2>4, <2>5, <2>6, <2>7, <2>8 DEF SealedConforms
<1>2. CASE RetryShuffle \/ AcceptOrder \/ SkipEmptyRow \/ StartRow \/ EndRow
             \/ ScanExhausted \/ Advance \/ MergePair \/ FillDictionary
  <2>1. stage' # "done"
    BY <1>2 DEF RetryShuffle, AcceptOrder, SkipEmptyRow, StartRow, MayStartRow, EndRow,
                ScanExhausted, Advance, MergePair, FillDictionary, InBudget
  <2> QED
    BY <2>1 DEF SealedConforms
<1>3. CASE UNCHANGED vars
  BY <1>3 DEF vars, dictVars, SealedConforms
<1> QED
  BY <1>1, <1>2, <1>3 DEF Next

-----------------------------------------------------------------------------
(***************************************************************************)
(* The theorems.                                                           *)
(***************************************************************************)

\* Every variable of training keeps its type.
THEOREM TypeCorrectness == Spec => []TypeOK
<1>1. IInv => TypeOK
  BY DEF IInv
<1> QED
  BY Invariance, <1>1, PTL

\* The token before the scan position is always a longest match, however many
\* tokens the merge loop has inserted since it was matched.
THEOREM PrevStaysLongest == Spec => []PrevIsLongest
<1>1. IInv => PrevIsLongest
  BY DEF IInv
<1> QED
  BY Invariance, <1>1, PTL

\* No token is entered twice, no u16 id wraps since ids are positions, and the
\* dictionary never outgrows its capacity, at which the scan ends.
THEOREM DictionaryStaysInStep == Spec => []DictionaryInStep
<1>1. IInv => DictionaryInStep
  BY DEF IInv, DictionaryInStep
<1> QED
  BY Invariance, <1>1, PTL

\* While the dictionary has room, no pair counter reaches u8::MAX.
THEOREM NoSaturation == Spec => []CountsNeverSaturate
<1>1. IInv => CountsNeverSaturate
  BY DEF IInv
<1> QED
  BY Invariance, <1>1, PTL

\* Dynamic training stops within one token of its byte budget, and only then.
THEOREM BudgetKept == Spec => []BudgetRespected
<1>1. ControllerInv => BudgetRespected
  BY DEF ControllerInv, BudgetRespected, BudgetExhausted
<1> QED
  BY <1>1, AccountInvariance, PTL

\* The controller's account of entries and bytes stays that of the scan, through
\* every checkpoint.
THEOREM ControllerStaysInStep == Spec => []ControllerInStep
<1>1. IInv /\ ControllerInv => ControllerInStep
  BY DEF IInv, ThresholdInStep, ControllerInv, AccountInOrder, ControllerInStep
<1> QED
  BY <1>1, AccountInvariance, PTL

\* Neither the partial shuffle nor gather_sample ever cuts the scan short.
THEOREM SampleIsSufficient == Spec => []SampleSuffices
<1>1. SampleInv => SampleSuffices
  BY DEF SampleInv
<1> QED
  BY <1>1, AccountInvariance, PTL

\* The dictionary that training seals passes the conformance check of the format:
\* strictly ascending, complete, and with all the tokens that were trained.
THEOREM SealedStaysConformant == Spec => []SealedConforms
<1>1. Init => SealedConforms
  BY DEF Init, SealedConforms
<1>2. IInv /\ SealedConforms /\ [Next]_vars => SealedConforms'
  BY SealedConformsStep
<1> QED
  BY <1>1, <1>2, Invariance, PTL DEF Spec

\* Training implements DictionaryGrowth: every step enters the concatenation
\* of two held tokens, new and within the capacity, or leaves the dictionary.
THEOREM Refinement == Spec => ImplementsGrowth
<1>1. Init => Growth!Init
  BY DEF Init, Growth!Init
<1>2. IInv /\ [Next]_vars => [Growth!Next]_Growth!vars
  <2> SUFFICES ASSUME IInv, [Next]_vars
               PROVE  Growth!Next \/ UNCHANGED <<dict, stage = "done">>
    BY DEF Growth!vars
  <2>1. CASE MergePair \/ FillDictionary
    <3>1. /\ stage = "row" /\ pos < Len(row) /\ PairFits
          /\ Len(dict) < DictCapacity /\ dict' = Append(dict, PairBytes)
      BY <2>1, MergeInserts
    <3>2. /\ PairBytes = dict[prevId + 1] \o Current /\ PairBytes \notin Tokens
          /\ Len(PairBytes) = prevLen + Len(Current)
      BY <3>1, PairIsNew
    <3>3. prevId + 1 \in DOMAIN dict /\ Len(dict[prevId + 1]) = prevLen
      BY <3>1 DEF IInv, PrevIsLongest
    <3>4. ids[Current] + 1 \in DOMAIN dict /\ dict[ids[Current] + 1] = Current
      BY <3>1, CurrentFound
    <3>5. Tokens = Growth!Held
      BY DEF IInv, IdsArePositions, Growth!Held
    <3>6. dict[prevId + 1] \in Growth!Held /\ Current \in Growth!Held
      BY <3>3, <3>4 DEF Growth!Held
    <3>7. stage # "done" /\ stage' # "done"
      BY <2>1, <3>1 DEF MergePair, FillDictionary
    <3>8. Len(dict[prevId + 1]) + Len(Current) <= MaxTokenSize
      BY <3>1, <3>3 DEF PairFits
    <3> HIDE DEF PairBytes, Current
    <3> QED
      BY <3>1, <3>2, <3>5, <3>6, <3>7, <3>8 DEF Growth!Next, Growth!Grow
  <2>2. CASE SealDictionary
    BY <2>2 DEF SealDictionary, dictVars, Growth!Next, Growth!Complete
  <2>3. CASE RetryShuffle \/ AcceptOrder \/ SkipEmptyRow \/ StartRow \/ EndRow
             \/ ScanExhausted \/ Advance \/ UNCHANGED vars
    <3>1. dict' = dict /\ (stage' = "done" <=> stage = "done")
      BY <2>3 DEF RetryShuffle, AcceptOrder, SkipEmptyRow, StartRow, MayStartRow, EndRow,
                  ScanExhausted, Advance, InBudget, vars, dictVars
    <3> QED
      BY <3>1
  <2> QED
    BY <2>1, <2>2, <2>3 DEF Next
<1> QED
  BY <1>1, <1>2, Invariance, PTL DEF Spec, ImplementsGrowth, Growth!Spec
=============================================================================
