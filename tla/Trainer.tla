------------------------------ MODULE Trainer ------------------------------
(***************************************************************************)
(* Training (src/src/encoding/trainer.rs): a single pass over a random     *)
(* sample of the rows that grows a dictionary by merging adjacent tokens.  *)
(*                                                                         *)
(*   "order"  make_training_order draws a random selection of rows, and    *)
(*            draws a larger one while it is short of the scan budget;     *)
(*   "rows"   discover_tokens is between two rows of the sample;           *)
(*   "row"    it is inside a row, at the head of the while loop: the token *)
(*            prevId occupies row[pos - prevLen .. pos];                   *)
(*   "done"   the tokens were sorted and sealed.                           *)
(*                                                                         *)
(* The training-time LongestPrefixMatcher is its abstract value here, the  *)
(* function from the tokens it holds to their ids, and the id it will      *)
(* assign next.  StdRng is a nondeterministic choice.                      *)
(***************************************************************************)
EXTENDS ByteStrings, ThresholdController, TLC

CONSTANTS
    Corpora,        \* the row sequences that may be trained on
    Configs,        \* the TrainingConfigs, see FixedConfig and DynamicConfig
    DictCapacity,   \* max_dict_size: 2^max_dict_bits
    TokenSpace,     \* the number of u16 token ids, 65536
    ShuffleSlack    \* rows drawn beyond twice the sampled fraction, 1024

FixedConfig(value) == [kind |-> "fixed", value |-> value, num |-> 1, den |-> 1]
\* A dynamic threshold with sample_fraction num / den.
DynamicConfig(num, den) == [kind |-> "dynamic", value |-> 0, num |-> num, den |-> den]

ASSUME TrainerAssumption ==
    /\ Corpora \subseteq Seq(ByteSeq)
    /\ Configs \subseteq [kind : {"fixed", "dynamic"}, value : 0 .. MaxThreshold,
                          num : Nat \ {0}, den : Nat \ {0}]
    /\ DictCapacity \in Nat /\ TokenSpace \in Nat
    /\ NumBytes < DictCapacity /\ DictCapacity <= TokenSpace
    /\ ShuffleSlack \in Nat \ {0}

VARIABLES
    corpus, config,     \* the input
    stage,
    shuffleK,           \* how many rows the next partial shuffle selects
    sample,             \* the rows discover_tokens iterates over
    nextRow,            \* the index in sample of the next row
    row, pos,           \* the current row and the offset of the next token
    prevId, prevLen,    \* the token that ends at pos
    dict,               \* dict_bytes and dict_offsets: the tokens by id
    ids, nextId,        \* the matcher: token -> id, and its next_id
    freq,               \* PairFrequencies: pair of ids -> count
    threshold, ctrl,    \* the merge threshold and the controller behind it
    fullDictionary, budgetExhausted,
    sealed              \* the sorted dictionary that train returns

inputVars  == <<corpus, config>>
sampleVars == <<shuffleK, sample>>
rowVars    == <<row, pos, prevId, prevLen>>
dictVars   == <<dict, ids, nextId>>
stopVars   == <<fullDictionary, budgetExhausted>>
vars == <<inputVars, stage, sampleVars, nextRow, rowVars, dictVars, freq,
          threshold, ctrl, stopVars, sealed>>

MinOf(m, n) == IF m < n THEN m ELSE n

TotalBytes == ByteCount(corpus, Len(corpus))

Dynamic == config.kind = "dynamic"

\* scan_budget; fixed training has none, and its controller stays unused.
ScanBudget == (TotalBytes * config.num) \div config.den

\* Mutant: no slack, so that a small fraction selects no row at all.
InitialShuffle_NoSlack(rows, cfg) ==
    IF cfg.kind = "fixed" THEN Len(rows)
    ELSE (MinOf(2 * cfg.num, cfg.den) * Len(rows)) \div cfg.den

InitialShuffle(rows, cfg) ==
    IF cfg.kind = "fixed" THEN Len(rows)
    ELSE LET doubled == MinOf(2 * cfg.num, cfg.den)
         IN  MinOf((doubled * Len(rows)) \div cfg.den + ShuffleSlack, Len(rows))

Init ==
    /\ corpus \in Corpora
    /\ config \in Configs
    /\ stage = "order"
    /\ shuffleK = InitialShuffle(corpus, config)
    /\ sample = <<>>
    /\ nextRow = 1
    /\ row = <<>> /\ pos = 0 /\ prevId = 0 /\ prevLen = 0
    /\ dict = [i \in 1 .. NumBytes |-> <<i - 1>>]
    /\ ids = [t \in SingleByteTokens |-> t[1]]
    /\ nextId = NumBytes
    /\ freq = <<>>
    /\ ctrl = NewController(DictCapacity - NumBytes, ScanBudget)
    /\ threshold = IF Dynamic THEN MinThreshold ELSE config.value
    /\ fullDictionary = FALSE /\ budgetExhausted = FALSE
    /\ sealed = <<>>

-----------------------------------------------------------------------------
(***************************************************************************)
(* make_training_order and gather_sample.                                  *)
(***************************************************************************)

\* The selections a partial shuffle of n rows can leave: k distinct rows.
Selections(n, k) ==
    {order \in [1 .. k -> 1 .. n] : \A i, j \in 1 .. k : order[i] = order[j] => i = j}

\* gather_sample: the rows taken before the copied bytes exceed the budget.
\* Mutant: the sample may end with the budget not exceeded.
Gathered_OffByOne(rows, budget) ==
    LET taken == {i \in 1 .. Len(rows) : ByteCount(rows, i - 1) < budget}
    IN  SubSeq(rows, 1, Cardinality(taken))

Gathered(rows, budget) ==
    LET taken == {i \in 1 .. Len(rows) : ByteCount(rows, i - 1) <= budget}
    IN  SubSeq(rows, 1, Cardinality(taken))

RetryShuffle ==
    /\ stage = "order"
    /\ Dynamic
    /\ shuffleK < Len(corpus)
    /\ \E order \in Selections(Len(corpus), shuffleK) :
        ByteCount([i \in 1 .. shuffleK |-> corpus[order[i]]], shuffleK) <= ScanBudget
    /\ shuffleK' = MinOf(2 * shuffleK, Len(corpus))
    /\ UNCHANGED <<inputVars, stage, sample, nextRow, rowVars, dictVars, freq,
                   threshold, ctrl, stopVars, sealed>>

AcceptOrder ==
    /\ stage = "order"
    /\ \E order \in Selections(Len(corpus), shuffleK) :
        LET selected == [i \in 1 .. shuffleK |-> corpus[order[i]]]
        IN  /\ \/ ~Dynamic
               \/ ByteCount(selected, shuffleK) > ScanBudget
               \/ shuffleK = Len(corpus)
            /\ sample' = IF Dynamic /\ ScanBudget <= TotalBytes \div 2
                         THEN Gathered(selected, ScanBudget)
                         ELSE selected
    /\ stage' = "rows"
    /\ UNCHANGED <<inputVars, shuffleK, nextRow, rowVars, dictVars, freq,
                   threshold, ctrl, stopVars, sealed>>

-----------------------------------------------------------------------------
(***************************************************************************)
(* discover_tokens.                                                        *)
(***************************************************************************)

Tokens == DOMAIN ids

\* The controller after n more bytes were scanned; fixed training has none.
Scanned(n) == IF Dynamic THEN OnBytesScanned(ctrl, n) ELSE ctrl
\* Mutant: the budget is checked before the match is counted.
Exhausted_Stale(c) == Dynamic /\ BudgetExhausted(ctrl)

Exhausted(c) == Dynamic /\ BudgetExhausted(c)

\* The head of the loop over the rows.
MayStartRow ==
    stage = "rows" /\ ~fullDictionary /\ ~budgetExhausted /\ nextRow <= Len(sample)

SkipEmptyRow ==
    /\ MayStartRow
    /\ sample[nextRow] = <<>>
    /\ nextRow' = nextRow + 1
    /\ UNCHANGED <<inputVars, stage, sampleVars, rowVars, dictVars, freq,
                   threshold, ctrl, stopVars, sealed>>

StartRow ==
    /\ MayStartRow
    /\ sample[nextRow] # <<>>
    /\ row' = sample[nextRow]
    /\ nextRow' = nextRow + 1
    /\ LET first == LongestMatch(Tokens, row', 0)
       IN  /\ prevId' = ids[first]
           /\ prevLen' = Len(first)
           /\ pos' = Len(first)
           /\ ctrl' = Scanned(Len(first))
    /\ budgetExhausted' = Exhausted(ctrl')
    /\ stage' = IF budgetExhausted' THEN "rows" ELSE "row"
    /\ UNCHANGED <<inputVars, sampleVars, dictVars, freq, threshold,
                   fullDictionary, sealed>>

EndRow ==
    /\ stage = "row"
    /\ pos = Len(row)
    /\ stage' = "rows"
    /\ UNCHANGED <<inputVars, sampleVars, nextRow, rowVars, dictVars, freq,
                   threshold, ctrl, stopVars, sealed>>

\* The token the while loop matches at pos.
Current == LongestMatch(Tokens, row, pos)

ScanExhausted ==
    /\ stage = "row"
    /\ pos < Len(row)
    /\ ctrl' = Scanned(Len(Current))
    /\ Exhausted(ctrl')
    /\ budgetExhausted' = TRUE
    /\ stage' = "rows"
    /\ UNCHANGED <<inputVars, sampleVars, nextRow, rowVars, dictVars, freq,
                   threshold, fullDictionary, sealed>>

Pair == <<prevId, ids[Current]>>
PairBytes == Slice(row, pos - prevLen, pos + Len(Current))

\* Mutant: an off-by-one in the length limit.
PairFits_OffByOne == prevLen + Len(Current) <= MaxTokenSize + 1

PairFits == prevLen + Len(Current) <= MaxTokenSize

\* PairFrequencies::increment: a missing pair counts 1, a u8 saturates.
Incremented ==
    IF Pair \in DOMAIN freq THEN MinOf(freq[Pair] + 1, MaxThreshold) ELSE 1

WithCount(pair, n) == [p \in DOMAIN freq \cup {pair} |-> IF p = pair THEN n ELSE freq[p]]

\* Mutant: the counter of a merged pair is left in the table.
WithoutCount_Kept(pair) == WithCount(pair, Incremented)

WithoutCount(pair) == [p \in DOMAIN freq \ {pair} |-> freq[p]]

\* The guard of one iteration that ends with a token after the scan.
InBudget(c) == stage = "row" /\ pos < Len(row) /\ ~Exhausted(c)

\* The pair is too long for a token, or not frequent enough yet.
Advance ==
    /\ InBudget(Scanned(Len(Current)))
    /\ PairFits => Incremented < threshold
    /\ freq' = IF PairFits THEN WithCount(Pair, Incremented) ELSE freq
    /\ ctrl' = Scanned(Len(Current))
    /\ prevId' = ids[Current]
    /\ prevLen' = Len(Current)
    /\ pos' = pos + Len(Current)
    /\ UNCHANGED <<inputVars, stage, sampleVars, nextRow, row, dictVars,
                   threshold, stopVars, sealed>>

\* lpm.insert and the two pushes onto the dictionary under construction.
InsertToken(t) ==
    LET id == nextId % TokenSpace
    IN  /\ ids' = [u \in Tokens \cup {t} |-> IF u = t THEN id ELSE ids[u]]
        /\ nextId' = nextId + 1
        /\ dict' = Append(dict, t)

\* Whether the dictionary has room for more than the token being inserted.
\* Mutant: the limit is noticed one token late.
HasRoom_OneLate == nextId # DictCapacity

HasRoom == nextId + 1 # DictCapacity

\* The merged pair is the previous token of the next iteration.
\* Mutant: the iteration goes on from the token it matched before the merge.
PrevBecomesPair_KeepsMatch == prevId' = ids[Current] /\ prevLen' = Len(Current)

PrevBecomesPair == prevId' = nextId % TokenSpace /\ prevLen' = prevLen + Len(Current)

MergePair ==
    /\ InBudget(Scanned(Len(Current)))
    /\ PairFits /\ Incremented >= threshold
    /\ InsertToken(PairBytes)
    /\ HasRoom
    /\ ctrl' = IF Dynamic THEN OnEntryCreated(Scanned(Len(Current))) ELSE ctrl
    /\ threshold' = IF Dynamic THEN ctrl'.threshold ELSE threshold
    /\ freq' = WithoutCount(Pair)
    /\ PrevBecomesPair
    /\ pos' = pos + Len(Current)
    /\ UNCHANGED <<inputVars, stage, sampleVars, nextRow, row, stopVars, sealed>>

\* The last token the dictionary has room for ends the row and the scan at once.
FillDictionary ==
    /\ InBudget(Scanned(Len(Current)))
    /\ PairFits /\ Incremented >= threshold
    /\ InsertToken(PairBytes)
    /\ ~HasRoom
    /\ fullDictionary' = TRUE
    /\ ctrl' = Scanned(Len(Current))
    /\ freq' = WithCount(Pair, Incremented)
    /\ stage' = "rows"
    /\ UNCHANGED <<inputVars, sampleVars, nextRow, rowVars, threshold,
                   budgetExhausted, sealed>>

\* The order sort_by gives to positions: that of their tokens, and of equal ones
\* their own.
\* Mutant: shorter tokens first.
Precedes_ByLength(tokens, i, j) ==
    \/ Len(tokens[i]) < Len(tokens[j])
    \/ Len(tokens[i]) = Len(tokens[j]) /\ LexLess(tokens[i], tokens[j])
    \/ tokens[i] = tokens[j] /\ i < j

Precedes(tokens, i, j) ==
    LexLess(tokens[i], tokens[j]) \/ (tokens[i] = tokens[j] /\ i < j)

Rank(tokens, i) == Cardinality({j \in 1 .. Len(tokens) : Precedes(tokens, j, i)}) + 1

\* sort_tokens: ids are reassigned to the sorted positions.
SortTokens(tokens) ==
    [k \in 1 .. Len(tokens) |-> tokens[CHOOSE i \in 1 .. Len(tokens) : Rank(tokens, i) = k]]

SealDictionary ==
    /\ stage = "rows"
    /\ fullDictionary \/ budgetExhausted \/ nextRow > Len(sample)
    /\ sealed' = SortTokens(dict)
    /\ stage' = "done"
    /\ UNCHANGED <<inputVars, sampleVars, nextRow, rowVars, dictVars, freq,
                   threshold, ctrl, stopVars>>

Next ==
    \/ RetryShuffle \/ AcceptOrder
    \/ SkipEmptyRow \/ StartRow \/ EndRow
    \/ ScanExhausted \/ Advance \/ MergePair \/ FillDictionary
    \/ SealDictionary

Spec == Init /\ [][Next]_vars

\* Training is one sequential call: as long as it can take a step, it does.
FairSpec == Spec /\ WF_vars(Next)

-----------------------------------------------------------------------------
(***************************************************************************)
(* Properties.                                                             *)
(***************************************************************************)

\* Every variable of training has its type.
TypeOK ==
    /\ corpus \in Corpora /\ config \in Configs
    /\ stage \in {"order", "rows", "row", "done"}
    /\ shuffleK \in 0 .. Len(corpus)
    /\ sample \in Seq(ByteSeq)
    /\ nextRow \in Nat \ {0}
    /\ row \in ByteSeq /\ pos \in 0 .. Len(row)
    /\ prevId \in 0 .. TokenSpace - 1 /\ prevLen \in 0 .. MaxTokenSize
    /\ dict \in Seq(Token)
    /\ ids \in [Tokens -> 0 .. TokenSpace - 1] /\ Tokens \subseteq Token
    /\ nextId \in NumBytes .. DictCapacity
    /\ \A p \in DOMAIN freq : freq[p] \in 1 .. MaxThreshold
    /\ threshold \in 0 .. MaxThreshold
    /\ ctrl \in Controller
    /\ fullDictionary \in BOOLEAN /\ budgetExhausted \in BOOLEAN

\* Inside a row, the token that precedes pos is the longest dictionary token
\* that starts where it starts, although the dictionary has grown since it was
\* matched: the merge loop (trainer.rs, discover_tokens) inserts tokens while it
\* holds an earlier match.
PrevIsLongest ==
    stage = "row" =>
        /\ prevId + 1 \in DOMAIN dict
        /\ Len(dict[prevId + 1]) = prevLen
        /\ prevLen <= pos
        /\ IsLongestAt(Tokens, row, pos - prevLen, dict[prevId + 1])

\* No token is entered twice: the id of every token is its position, and the
\* matcher's ids, which are truncated to u16, never wrap (lpm.insert,
\* `self.next_id as Token`).
IdsArePositions ==
    /\ nextId = Len(dict)
    /\ Tokens = {dict[i] : i \in DOMAIN dict}
    /\ \A i \in DOMAIN dict : ids[dict[i]] = i - 1

\* The scan stops exactly when the dictionary is full, and never holds more
\* than 2^max_dict_bits tokens.
CapacityRespected ==
    /\ Len(dict) <= DictCapacity
    /\ fullDictionary <=> Len(dict) = DictCapacity

\* The two together: what the rest of training, and the codes a row can hold,
\* rely on while tokens are entered one at a time in the middle of a row.
DictionaryInStep == IdsArePositions /\ CapacityRespected

\* A pair's u8 counter never needs to saturate: the pair is merged, and its
\* counter retired, before it can count to 255; with a fixed threshold no live
\* counter has reached the threshold.
CountsNeverSaturate ==
    ~fullDictionary =>
        \A p \in DOMAIN freq :
            /\ freq[p] < MaxThreshold
            /\ config.kind = "fixed" => freq[p] < config.value

\* Dynamic training overshoots the byte budget by less than one token, and has
\* stopped by the time it has overshot it.
BudgetRespected ==
    Dynamic =>
        /\ ctrl.bytesScanned <= ctrl.scanBudget + MaxTokenSize
        /\ budgetExhausted <=> ctrl.bytesScanned > ctrl.scanBudget

\* The controller's account of the dictionary is exact, a checkpoint is never
\* missed, and every entry has cost at least one byte since the last
\* checkpoint, so that the zero-byte and full-dictionary cases of rebalance
\* are never needed.  Every variable has its type.
ControllerInStep ==
    /\ TypeOK
    /\ Dynamic /\ ~fullDictionary => ctrl.entriesCreated = Len(dict) - NumBytes
    /\ Dynamic => /\ threshold = ctrl.threshold
                  /\ ctrl.entriesCreated < ctrl.nextCheckpoint
                  /\ ctrl.nextCheckpoint = ctrl.entriesAtCheck + ctrl.checkInterval
                  /\ DeltaEntries(ctrl) <= DeltaBytes(ctrl)
                  /\ ctrl.entriesCreated < ctrl.capacity

\* Training on a part of the rows ends because of the budget or a full
\* dictionary, never by running out of sampled rows: neither the partial
\* shuffle nor gather_sample cuts the scan short (trainer.rs, the comment of
\* make_training_order and the test gathered_and_in_place_scans_agree).
SampleSuffices ==
    stage = "done" /\ Len(sample) < Len(corpus) => fullDictionary \/ budgetExhausted

\* The sealed dictionary is what the conformance check of the format asks for:
\* strictly ascending, hence without duplicates, with every single byte.
SealedConforms ==
    stage = "done" =>
        /\ \A i \in 1 .. Len(sealed) - 1 : LexLess(sealed[i], sealed[i + 1])
        /\ SingleByteTokens \subseteq {sealed[i] : i \in DOMAIN sealed}
        /\ {sealed[i] : i \in DOMAIN sealed} \subseteq Token
        /\ Len(sealed) = Len(dict)

\* Training ends, whatever the corpus and the threshold.
Terminates == <>(stage = "done")

\* Every step of training grows the dictionary as DictionaryGrowth allows: a
\* merged slice of the row is always the concatenation of two held tokens.
Growth == INSTANCE DictionaryGrowth WITH tokens <- dict, complete <- stage = "done"
ImplementsGrowth == Growth!Spec
=============================================================================
