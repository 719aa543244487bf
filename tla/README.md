# OnPair in TLA+

Specifications of OnPair (the crate in `src/src`), model-checked with TLC, and
theorems about them checked with TLAPS.  OnPair compresses columns of short
strings: it trains a dictionary of byte strings ("tokens" of 1 to 16 bytes) on a
sample, replaces each row by the codes of its greedy longest matches, decodes by
copying tokens, and answers equality, prefix and substring queries on the codes
without decoding.

The crate is a library without threads, locks or persistence of its own.  What
makes it hard is elsewhere: matches held while the dictionary they came from
grows; loops that run several cursors in lockstep and throw away what the idle
ones write; fixed-width copies that overrun on purpose; buffers read back from
storage whose checks are fused, deferred or done row by row; searches that skip
whatever cannot matter.  Every one of these is correct only by an argument over
many steps, and these are the arguments the modules check.

## Inventory

| part (under `src/src`) | state | operations | what makes it correct |
|---|---|---|---|
| trainer (`encoding/trainer.rs`) | dictionary bytes and offsets, growing matcher, pair counters, previous match, threshold controller | choose and gather a sample, scan and merge, rebalance, sort and seal | the dictionary is duplicate-free, complete, within capacity; budget kept; ends |
| growing matcher (`encoding/lpm.rs`) | short map, linear and promoted buckets | `insert`, `find_longest_match` | the longest token of any window, after any insertions |
| frozen matcher (`encoding/dictionary_matcher.rs`) | blocks of keys, samples, prefix bounds, prefix chains | `from_dictionary`, `find_all` | the greedy code of every window, for several at once |
| lane parser (`encoding/lanes.rs`) | four cursors with code and row-end buffers | batch, split, round, join | the greedy codes of each row, in order; buffers suffice |
| parser, rows (`encoding/{parser,rows}.rs`, `lib.rs`) | the caller's code and offset buffers | validate, train, `parse`, `parse_rows[_into]`, `compress` | rows come back as they went in, from any buffers and slices |
| configuration (`encoding/config.rs`) | none | range checks | training is started with values it can handle |
| decoding (`decoding/`) | cursor, output buffer | `decompress_into[_unchecked]` | no store outside the buffer, right bytes, exact refusal |
| dictionary (`core/dictionary`, `core/validate.rs`) | raw buffers, sealed forms | `validate_safety`, `validate`, `to_wide`, padding | acceptance is what readers rely on; both forms agree |
| token lookup (`search/{lookup,tokenize}.rs`) | a range of token ids | `narrow`, `prefix_range`, `tokenize` | exact ranges; greedy; ends on any safe dictionary |
| column (`column/mod.rs`, `search/{equals,prefix}.rs`) | codes and row offsets; prepared needle | `row_codes`, decompression, `rows_equal_to`, `rows_starting_with` | the rows whose bytes match; malformed offsets panic |
| substring automaton (`search/substring/dfa.rs`) | failure table, base row, sparse exceptions | `ContainsDfa::new`, `row_contains` | the byte automaton, token by token |
| substring scan (`search/substring/probe`) | alignment graph, cut, cover, verifier, row resolver | `ContainsScan::new`, `scan` | every matching row once, whichever plan was chosen |
| membership kernels (`scan/{dispatch,matcher}`, `plan/cost.rs`) | tables of a cover, a block's mask | price, dispatch, `check` | the mask is membership in the cover, on every CPU and for every matcher |
| frequency index (`search/index`) | prefix sums | build, validate, query | counts no code twice, refuses what it cannot hold |

How they interact.  `compress` trains (`trainer` with the growing matcher), seals
the `dictionary`, builds the frozen matcher from it and parses the rows through the
`lane parser`.  A `Column` holds the dictionary, the codes and the row offsets; a
`ColumnView` over owned or stored parts decodes through `decoding` and searches
through `lookup` and the two substring searches.  What one part hands to the next
is what the checks are about: the trainer's dictionary must be one that
`validate` accepts, both matchers must choose the token that `tokenize`
chooses (else equality in the code domain is wrong), and the substring scan
relies on rows being greedy.  There are no messages and no callbacks; a
`ContainsScan` is shared between threads, which is sound because scanning changes
nothing in it.

`PROJECT.json` lists each component with what is left out of it, and the hazards
of each line of code, with the properties that cover them.

## Modules

Shared definitions:

- `ByteStrings`: bytes, tokens, slices, `StartsAt`, the longest match of a set of
  tokens (`LongestMatch`), concatenation (`Flat`), row offsets (`ByteCount`).  `NumBytes`
  stands for 256 and `MaxTokenSize` for 16.
- `Vocabulary`: a dictionary as a sequence of tokens, token `id` at `id + 1`;
  `Conforms` (sorted, unique, complete) and `Greedy`, the encoding everything is
  measured by, with the codes and offsets of several rows (`CodesOf`, `OffsetsOf`);
  rows as slices of a column's codes, and which offsets make `row_codes` panic
  (`BadRow`).
- `SealedDictionary`: a dictionary as bytes and offsets, the way the decoder reads
  it, with reads of `MaxTokenSize` bytes.

Components and how their state and actions correspond to the code:

- `Trainer` (with `ThresholdController`): one action per iteration of a loop of
  `train`.  `RetryShuffle`/`AcceptOrder` are `make_training_order` and
  `gather_sample`, where the random order is any order; `SkipEmptyRow`,
  `StartRow`, `Advance`, `MergePair`, `FillDictionary`, `ScanExhausted`, `EndRow` are
  the branches of the merge loop; `SealDictionary` is `sort_tokens`.  `dict`,
  `ids`/`nextId` and `freq` are the dictionary buffers, the matcher's contents and
  the pair counters.  The matcher is its specification: a match is `LongestMatch`.
- `DictionaryGrowth`: the abstract specification of training.  A dictionary grows
  from the single bytes by concatenations of two tokens it holds, one at a time,
  each new, up to its capacity, and is then complete.  `Trainer` implements it.
- `LongestPrefixMatcher`: `insert` into map, bucket or promoted bucket; the search
  is an operator over all windows.
- `DictionaryMatcher`: `from_dictionary` token by token with the stack of prefix
  tokens, then `find_all` for a pair of windows, one lockstep round per action.
- `Lanes`: `StartBatch` takes a batch and deals its rows to lanes, `Round` is one
  pass over all lanes of `parse_batch`'s loop, `JoinLane` appends a lane.  Both
  callers (Arrow pairs in place, other rows copied and padded) are behaviours.
- `GreedyEncoding`: the abstract specification of parsing: rows are delivered
  whole, in order, each as its greedy codes, with their offsets.  `Lanes`
  implements it, a joined lane being one delivery of several rows.
- `ColumnCodec`: the front door, on top of `Decoder`.  `Parse`, `ParseRows` and `Refuse` are
  the functions of `Parser` and `compress`, with the buffers `parse_rows_into` reuses
  (`Cleared`), the array's own offsets (`Row`) and their width (`FromUsize`).
  `DecompressColumn`, `DecompressRow` and `RowPanic` are the methods of `ColumnView`, each
  starting a run of `Decoder`; `Release` is the caller's.  Encoding is one step, since
  `Lanes` shows that it delivers the greedy codes.
- `Decoder`: `UncheckedStore`, `StartBatch`/`BatchStore`/`EndBatch`,
  `StartTail`/`TailCopy`, `TooSmall`, `BadCode`, `Finish`.  `out` is a function from the cells
  written so far, so that a cell outside the buffer is visible.
- `DictionaryValidation`: the loops of the compact and of the wide validation and of
  conformance, a token per step, with wrapping subtraction, over the same buffers.
- `Lookup`: the two binary searches of `narrow`, a comparison per step, under
  `prefix_range` and `tokenize`.
- `Column`: preparation of a query, selection of rows, the panic of `row_codes`.
- `ContainsDfa`: `kmp_failure`, `base_pass`, `sparse_pass`, `traverse` (its recursion as a
  stack), `emit`, and `row_contains`.
- `AlignmentGraph`, `MinCut`, `HitVerifier`, `SubstringScan`: one state machine in four
  layers.  `AlignmentGraph` scans the dictionary for tokens that overlap the
  pattern and builds paths; `MinCut` solves for a cut under given weights;
  `HitVerifier` walks codes along edges; `SubstringScan` prepares, chooses a cut, and
  scans blocks, one hit at a time, with the row resolver.
- `FrequencyIndex`: an index as a sequence of prefix counts, how it is built and
  checked, and the sums it answers; `MinCut` prices edges with it, and `SubstringScan`
  rejects it (`RejectIndex`), plans with it, and asks it again (`ExpectedHits`).
- `BlockMatchers`: a cover is priced, its matcher dispatched for a CPU and run over
  blocks into one mask.  `MatcherCosts` is the cost table and the choice;
  `Avx2Kernel`, `Avx512Kernel` and `NeonKernel` are the kernels, each an operator
  from codes to mask bits, over the lane semantics in `Vectors` of the instructions they
  use.

`MC*` modules hold the instances for TLC, `*Proofs` the theorems.  `ByteStringsProofs`
holds the lemmas that several of the proof modules use.

Each definition that models code is in the `map` of `PROJECT.json` with its lines.

## Runs

| run | question | properties |
|---|---|---|
| `trainer` | the merge loop, budget, sampling and the adaptive threshold | `PrevIsLongest`, `DictionaryInStep`, `CountsNeverSaturate`, `SealedConforms`, `BudgetRespected`, `ControllerInStep`, `SampleSuffices`, `ImplementsGrowth`, `Terminates` |
| `longest_prefix_matcher` | any order of insertions over the promotion point | `FindsLongest`, `HoldsEveryToken` |
| `dictionary_matcher` | construction and lockstep search | `RecordsGiveLongest`, `FindsGreedyCodes` |
| `next_block_comment` | a claim of a comment (below) | `NextBlockIsLarger`, violated |
| `lanes` | interleaved parsing | `LanesKeepToTheirRows`, `FinishedRowsAreFinal`, `ImplementsGreedy`, `Terminates` |
| `column_codec` | over-copying within a buffer; whole columns there and back | `StoresInBounds`, `DecodedSoFar`, `TooSmallIsExact`, `RoundTripIsExact` |
| `dictionary_validation` | what acceptance means | `VerdictsAgree`, `AcceptedIsReadable`, `ConformanceIsExact`, `PaddingSuffices` |
| `lookup` | binary searches over tokens | `RangeIsExact`, `TokenizesGreedily`, `Terminates` |
| `column` | queries on codes | `SelectsMatchingRows`, `RowsAreDisjoint` |
| `contains_dfa` | the token automaton | `TransitionsAreExact`, `RowContainsIsExact` |
| `substring_scan` | index, graph, cut, cover, rows | `GraphIsExact`, `MinimumCut`, `ExpectedHitsAreExact`, `HitsAreInTheirRow`, `ScanIsExact` |
| `block_matchers` | every kernel on every CPU | `HitsAreExact`, `PlannedMatcherRuns`, `Crossovers` |

Together they show, on the instances below: training gives a dictionary that
`validate` accepts; both matchers, the lanes and `tokenize` all compute the same
greedy encoding; decoding gives the bytes back for any codes in range and any
buffer; and the three kinds of search return exactly the rows whose decoded bytes
match, whichever plan the frequencies suggest and whichever vector kernel runs it.
What goes into a column comes out of it, row by row and whole.  A mutant of the code for every property (`mutants` in `PROJECT.json`) shows that the property
notices a plausible mistake.

### Bounds, and why they are enough

- *Two byte values*.  No algorithm here depends on more than
  the order of bytes, their equality, and the smallest and largest of them (zero
  padding, `0xFF` pads); two values have all the ties that matter, and make
  overlaps of tokens and patterns dense.
- *Tokens of up to 3, 4 or 8 bytes* instead of 16; `column_codec` uses 16.  Word and block
  sizes, promotion and caps shrink with them (`WordSize` 4, `BlockKeys` 2,
  `PromoteThreshold` 2, two enumerated tokens per overlap and one for an overlap of one byte,
  blocks of three codes), so that every structure is entered, crossed and overflowed; the two
  caps differ, so that `GraphIsExact` tells one from the other.
- *Trainer*: with a fixed threshold, one row of up to seven bytes or two of up to
  four, capacity five: the dictionary fills in the middle of rows, at their ends, and not at all.  With the dynamic
  threshold there are rows of up to 14 bytes, so that several checkpoints fit into a row,
  and corpora of which the sample is every row, or only some.
- *Matcher runs*: dictionaries up to all tokens of up to three bytes, which
  gives block counts one to eight, full last blocks and empty prefixes.
- *Lanes*: two lanes, batches of two bytes, corpora of up to four rows: more
  rows than lanes, fewer, empty rows, empty lanes, rows longer than a batch.
- *Column and decoder*: stored streams of three codes are two batches and a tail in one
  run; capacities from 0 to 50, and 63 to 65, around three codes with padding.  Encoded
  columns have up to three rows, arrays that begin and end anywhere in 18 bytes and
  past them, and one input of 21 codes for offsets below 20 (`OffsetLimit`), which
  wrap and make `row_codes` panic.
- *Validation*: every sequence of up to three offsets and many of four to six;
  four tokens are the fewest that can have an increasing pair above the last start.
- *Column, automaton, scan*: every pattern or needle of up to three or four bytes
  and some longer ones with nested borders, rows of up to six bytes, slices with foreign
  codes around them, and offsets that decrease, repeat or leave the stream.
- *Planning*: the weights come from every assignment of two counts to tokens and two
  price lists; scanning is checked for every cut that some such weights give.
- *Frequency index*: indexes of up to nine tokens (`MaxTokens`) and fifteen codes
  (`MaxCodes`); built ones, stored ones that count other codes, and stored ones that are
  empty, too long, decreasing, or of another dictionary.
- *Kernels*: full-width registers and codes; the block is two pairs of mask words
  (256 codes; 4096 in the code), enough for a word that is skipped, one that is not,
  and a block that reuses the mask.  The covers have numbers of points around every
  crossover of the cost model and every number of nibble batches, with and without ranges,
  at both ends of the codes; the streams hold the cover's codes and their
  neighbours and nibble look-alikes, in one or two blocks.

Several bounds are named constants: `DictCapacity`, `MaxThreshold`, `MaxTokens`,
`MaxPatternLen`, `MaxNumTokens`, `OffsetLimit`, `Padding`.

### Deadlock

`CHECK_DEADLOCK FALSE` is set where a call returns and nothing follows it: the last
state has no successor.  `dictionary_matcher` can always search again, `column_codec`
can always decompress again, and `block_matchers` can always scan another stream, so there
deadlock is checked.

### Fairness

Liveness is claimed in three runs (`trainer`, `lanes`, `lookup`), under
`WF_vars(Next)`.  Each models one synchronous call on one thread: the code never waits, so
a step that can be taken is taken.  No fairness is asked of a single action:
where several are enabled (which random order, which input), any of them may be
chosen for ever, and termination must follow all the same.

### A comment the code contradicts

`find_all` (`encoding/dictionary_matcher.rs:228`) says that the block after the one it searches
"starts with a larger" key.  `from_dictionary` always appends a pad, so that a
dictionary which fills its last block is followed by a block of `u128::MAX` keys; an
input of sixteen `0xFF` bytes has that very key.  The run `next_block_comment` finds
this state.  The answer is right all the same, as `FindsGreedyCodes` shows: the pads'
record holds the tokens that are runs of `0xFF`.

## Proofs

The theorems hold for every value of the constants that satisfies the
assumptions of the modules: any number of bytes, any token size, any corpora,
dictionaries, code streams and buffers.  Every safety property and every action property
of the runs `trainer`, `longest_prefix_matcher`, `dictionary_matcher`, `lanes`,
`column_codec`, `dictionary_validation`, `lookup`, `column`, `contains_dfa` and
`block_matchers` is proved, and both refinements.

The assumptions are those the code relies on:

- `BytesAssumption`, `ThresholdAssumption`: there are bytes, tokens, a range of thresholds.
- `TrainerAssumption`: rows are byte strings; the capacity holds more than the single bytes
  and fits the id space, as `MaxDictBits` (9 to 16) gives it.
- `DecoderAssumption`: dictionaries are readable, which is what the theorem
  `SafeDictionaries` says of those that validation accepts.  The safety condition of
  `decompress_into_unchecked` is in the initial states of `Decoder` that begin there.
- `ColumnCodecAssumption`: a parser's dictionary conforms and its sealed form holds the same
  tokens; an array's offsets ascend, as Arrow has it and `validate_offsets` asserts.
- `ValidationAssumption` and `LookupAssumption`: buffers of any values, and any dictionary
  that passed the safety checks, sorted or not.
- `ColumnAssumption`: conformant dictionaries, row offsets and codes of any values.
- `GraphAssumption`: sorted dictionaries, patterns of bytes, any caps of which the one for overlaps
  of one byte is the smaller.  `ScanAssumption`: columns and frequency indexes are numbers, row
  offsets in any order and stored sums of any kind, and a block holds at least one code.
- `DfaAssumption`: sorted dictionaries, patterns of bytes, rows of any numbers, whether or
  not they are codes of the dictionary, and any limit on the length of a pattern.
- `GreedyAssumption`, `LanesAssumption`: conformant dictionaries, at least one lane, any size
  of batches.  `OffsetsFit`: the caller's offset type can address the codes; it is what makes
  `FromUsize` exact, and without it the offsets in the model really wrap.
- `MatcherAssumption` (of `DictionaryMatcher`): conformant dictionaries, blocks of a power of
  two keys, tokens of two bytes or more, and calls with at least one input.
- `LpmAssumption`: a token is at most two words long, a bucket is promoted at some size, and
  what is inserted are tokens.
- `BlockAssumption`: covers are points and ranges of 16-bit codes, streams are codes, and a block
  is a whole number of the 128 codes that the widest step of a kernel takes.

**Training** (`TrainerProofs`).  The inductive invariant `IInv` is `TypeOK`,
`SingleByteTokens \subseteq Tokens`, `PrevIsLongest`, `IdsArePositions`,
`CapacityRespected`, `ScanHasRoom`, `ThresholdInStep` and `CountsNeverSaturate`.  Its heart is
that a merged pair is new (`PairIsNew`): the previous token is the longest match at
its place, the pair starts there and is longer, so it cannot be in the dictionary.
That needs `PrevIsLongest` of the *grown* dictionary, which survives a merge since
the only token added is the pair, and the pair becomes the previous match.
`IdsArePositions` then follows (a new token gets the next id), and with
`ScanHasRoom` (inside the loop the dictionary is not full) so does the capacity.
`ThresholdInStep` ties the threshold to the controller, which lets
`CountsNeverSaturate` survive its changes.

Two further invariants rest on it.  `ControllerInv` says that a checkpoint is always ahead
and that every entry since the last one has cost a byte (`AccountInOrder`: no rate is
divided by zero and none is above one entry per byte), and that the controller counts
what the dictionary and the scan really did.  `SampleInv` says that the sample is all rows or
holds more than the budget, and that the bytes accounted are those before the scan position;
a sample that is used up has then used up the budget.  `SortTokensSorts` shows that the ranks
that `sort_tokens` assigns order the dictionary without losing a token.  Theorems:
`TypeCorrectness`, `PrevStaysLongest`, `DictionaryStaysInStep`, `NoSaturation`, `BudgetKept`,
`ControllerStaysInStep`, `SampleIsSufficient`, `SealedStaysConformant`, and `Refinement`, that
training implements `DictionaryGrowth`.

**Growing matcher** (`MatcherProofs`).  `LpmInv` says where every token is.  A short one has
its key in the map (`ShortHolds`, `IsHeld`), a long one is an entry of the bucket of its first
word, and nothing else is in either.  A linear bucket is sorted by falling suffix
length; a promoted one (`GroupedInOrder`) has ascending suffixes within a length, and its table of
ends says exactly where each length stops.  `find_longest_match` is right only because of
that order, which no single insertion states: `LinearInsertion` and `GroupedInsertion`
show that an insertion in the middle keeps it, shifting the ends of the shorter lengths by one,
and `BuildIsInOrder` that promotion establishes it.  `BinarySearchFinds` is the halving
search on a sorted group; it is a recursive function, which exists because the interval
shrinks (`HalvingExists`).  `MaskedIs` and `LowerWordIs` turn masked words back into bytes, so that an
equality of words is one of tokens (`FindLongFinds`, `FindShortFinds`).  Theorems:
`LpmInvHolds`, `LpmHoldsEveryToken`, `LpmFindsLongest`.

**Frozen matcher** (also `MatcherProofs`).  The first half is about construction.
`StackInv` says that the stack holds exactly the prefix tokens of the token just added.  It
is inductive because the dictionary is sorted: a prefix token of the next token is the token
before it or one of that one's prefix tokens (`NextPrefixTokens`), so that whatever is popped
is never needed again.  `RecordOfStack` turns such a stack into a record that is right under
every length bound, and `PadStack` does so for the pads, whose stack is the runs of the
largest byte.  `KeysInv` and `ChainsInv` keep keys and records of what was added, `SinglesInv` the
direct table.  The second half is the search.  Zero-padded keys keep the order of tokens
(`KeysKeepOrder`), so the keys ascend, pads included (`KeysAscend`).  `StartsInv` says where the
two-byte prefixes begin, and `FirstBracket` that the range taken from it brackets the key;
`Halved` is one step of either search.  `SearchInv` bounds every range by the steps left, which
is why as many steps as the widest range needs bring *all* inputs of a batch to one block
(`EnterBlockKeeps`), however early a narrow one got there.  `WindowTokens` is the last link: the
tokens a window begins with are the prefix tokens of the key found that are not longer
than what the two share, because a key between two keys shares what they share
(`KeysBetweenAgree`).  Theorems: `Invariance`, `LongestRecords`, `GreedyAnswers`.

**Lanes** (`LanesProofs`).  `PlaceInv` puts each lane inside one of its rows, or at the
end of its last, with no more codes than bytes behind it; that alone makes its buffer
sufficient for every write, the discarded ones of an exhausted lane included
(`LanesStayInRows`).  `CodesInv` says that what a lane has written, with the greedy codes of the
rest of its row, is the codes of all its rows so far; a round moves one code across
(`GreedyOfRest`).  Over the batches, `IInv` says that what was joined is the codes and offsets of
the rows before (`DeliveredRows`).  Theorems: `InvariantHolds`, `LanesStayInRows`,
`FinishedStaysFinal` (an action property: a finished row is never touched again), and
`LanesImplementGreedy`, the refinement of `GreedyEncoding`, where joining a lane is one
delivery of its rows and everything else a stutter.

**Decoding** (`DecoderProofs`).  `IInv` is `TypeOK`, `InBounds`, `GoodSoFar` (the codes
before the cursor are in range), `DecodedSoFar`, `TooSmallIsExact`, `Room` and `Stuck` (where a
decoder that gave up stands).  `Room` is what
the comment in the source says in words: in a batch, the codes that
remain of it still have `MaxTokenSize` bytes each after the cursor; in the
unchecked path either all remaining codes have, or the whole result fits with
`MaxTokenSize` bytes to spare.  `StoreStep` is the other half: a
fixed-width store at the cursor leaves the cells before it alone and puts the
token's bytes behind them.  Theorems: `Invariance`, `NoOverrun`, `DecodesFaithfully`,
`RefusalIsExact`.

The same module proves the round trip of `ColumnCodec`, whose steps are those of `Decoder`
between the calls of the front door.  `ColumnInv` says that the column holds what some parser
made of the input, and `AnswerInv` that the codes being decoded spell the row or column asked
for: greedy codes spell their row (`GreedySpells`), and the codes between two row
offsets are those of that row (`CodesOfSteps`).  Theorems: `CodecInvariance`,
`RoundTrip` and `CodecDecodes`, the decoder's properties for every call through a column.

**Validation** (`ValidationProofs`).  `validate_safety` checks each pair of neighbouring
offsets on its own, and the padding of the last token only; that this makes *every* token
readable is `Ascent` and `LastSuffices`: pairs that never step back put every start at or
below the last.  `PairFlawsAreExact` shows that the wrapping subtraction hides nothing,
since a pair that would wrap is flagged as decreasing.  The invariant says that the
flags are the union of the flags of the pairs seen, and `CompactVerdictIsExact` takes it
to the verdict.  `WideInv` does the same for the fused check, which defers its verdict
and copies meanwhile: its flags, and the rows it has copied, are those of the pairs seen, and a
row it did not dare to copy is one of a dictionary it refuses.  `ConformInv` is the loop over
sorted tokens; that comparing neighbours is enough is `NeighboursSuffice`.  Theorems:
`SafeDictionaries`, `PaddingIsEnough`, `VerdictsAlwaysAgree`, `ConformanceStaysExact`.

**Alignment graph** (also `ValidationProofs`).  `scan_payload` looks for the pattern's first two
bytes in all tokens at once, and jumps: past the byte it hit, or, where the pattern is inside a
token, to that token's last bytes.  `GraphInv` says that this loses nothing: the
tokens listed for an overlap are those with such a tail *before the cursor* (`Lists`, or the
overlap is given up and they are too many), and the tokens known to hold the pattern are those
that hold it before the cursor.  To be inductive it needs `LeadsPassed`: the cursor
is never inside a token that begins with the pattern, short of that token's last bytes.  `TokenAtFinds` shows that galloping over the offsets finds the
token that holds a hit, from any token before it, `FrontOfTail` and `FrontOfPattern` that
whatever begins with two bytes of the pattern is a hit, and `TailsPassed`, `HoldersPassed` and
`LeadsStayPassed` that a step passes only what it records.  Overlaps of one byte, which two bytes
cannot find, are collected before (`SinglesInv`).  Afterwards the collected tokens stay, and a
path fails only where no token begins (`EveryByteHasPrefix`).  Theorems: `GraphInvHolds`,
`GraphStaysExact`.

**Expected hits** (also `ValidationProofs`).  The estimate adds up prefix counts, by token for the
points of a cover and by difference for its ranges, so it is exact only if no token is in two
runs.  `MergedRunsAre` says that merging in order leaves runs that neither overlap nor touch
(`MergeStaysApart`: the next run begins no earlier than the last one merged), whatever edges
were cut.  `RunsAddUp` and `HitsAddUp` then go through these runs: each contributes the
difference of two counts (`SumOfRun`, `HitsOfRun`), its tokens are new (`NextRun`), and what was added
up is at most the count at its end, which bounds the whole by all codes.  The counts of an
index that was built are those of the codes below each token (`BuildCounts`).  Sums over sets are
recursive functions over subsets (`IsSum`); that they do not depend on the order of summation is
`SumOfAny`.  `HitsInv` carries what this needs of the index and of the graph.  Theorems:
`HitsInvHolds`, `ExpectedHitsStayExact`.

**Row resolver** (also `ValidationProofs`).  Row offsets between the first and the last are
never checked, yet a hit has to be verified in a row that holds it, as the verifier
reads codes up to the row's ends.  `ResolverInv` says that the current row begins no later
than the code where the next hit is looked for, nor than the next block; a hit behind
its end is therefore in a later row (`HitIsInLaterRow`).  `FindRowFinds` is the search: galloping
stops since the last boundary is behind every hit (`GallopBrackets`), and bisecting keeps a
boundary that is not behind the hit and one that is, until they are neighbours
(`BisectFinds`); of the offsets in between it needs nothing.  Both are recursive functions, which
exist because their rank falls (`DescentExists`, `DescentInduction`).  Theorems:
`ResolverInvHolds`, `HitsAreResolved`.

**Lookup** (`LookupProofs`).  `Bounds` keeps both binary searches within the range on every
dictionary, sorted or not; `RangeIsExact` and `FirstIsFirst` (the lower search has found the first
token with the byte) say what they find on a sorted one.  For `tokenize`, `LongestInv` says that
the token remembered is the longest match of at most the bytes narrowed by, and `GreedyInv` that
the codes so far with the greedy codes of the rest are those of the text.  Theorems:
`RangeStaysExact`, `TokenizeIsGreedy`.

**Substring automaton** (also `LookupProofs`).  The specification that the proof works with
is `Reached`: the longest prefix of the pattern that some bytes end with, or all of it once it
has occurred.  `ReachedByAll` is why an automaton exists at all, of bytes only what they have
reached matters for what comes; tokens are taken as their bytes one after the other.
`LinksInv` is the invariant of `kmp_failure`: the links so far are exact, and every border of
the next prefix extends one that is still to be tried (`BordersOfLink`, `LinkingShorter`).  From
it `StepByte` and `StepBytes` are that automaton (`StepByteIs`, `StepBytesIs`).  Then the
exceptions.  `SlicesInv` says of each finished state that its exceptions are in
order and disjoint, that each is right for all its tokens, and that a token in none of them leads
where it leads from state 0.  While they are collected this is true of some tokens only, and
`Pending` says of which: not of those in a call of `traverse` that is still on the stack,
nor of those whose first byte is still to be taken; what is emitted lies before both, so that
the order survives and merging with the last exception is right (`EmitExact`).  `StartPending`
begins it, because a token that starts with no relevant byte is never an exception
(`IndifferentToken`); `TraversePending` keeps it, through a call that completes the pattern
(`AcceptingIs`), one that is dropped because both states agree, and one that is split by the next
byte (`ChildrenAre`, where sortedness is used).  `RowInv` takes it to rows of any codes: a code
outside the dictionary is a byte that no pattern has (`ForeignByte`).  `DfaInv` is all of these,
with the types.  Theorems: `DfaInvHolds`, `TransitionsStayExact`, `RowsAnswerExactly`.

**Column** (`SearchProofs`).  A row is checked against its own two offsets only, so that
rows share no code is a property of all checks together: the invariant
`SeenAscend` says that the offsets seen so far ascend and stay within the codes, for
row offsets of any values, and `PanicIsDue` that a panic names a row that is no slice.
For the answers, `QueryInv` says that the interval prepared for each token of the needle is that
of the tokens extending the rest of the needle.  `BeginsByCodes` is the argument on which
searching without decoding rests: *if a row is greedy*, its bytes begin with the
needle exactly if its codes follow the needle's up to some code that extends the
rest.  `SelectedInv` then carries the verdicts of the rows seen.  Theorems: `DisjointRows`,
`SelectionIsExact`.

**Block matchers** (also `SearchProofs`).  `MatchersInv` says that the plan is the one the cost
model makes for this cover and CPU, that the matcher prepared decides the cover and needs
only instructions the CPU has, and that the hits are those of the blocks behind the position
(`CoveredBelow`).  Of the mask it says only its type: the mask is shared by all blocks, and a
kernel that finds no hit does not write it, so that what it holds is stale.  The heart is
therefore `IsExact`: whatever the mask held, a check either says that no code is covered, or has
written *every* word, each exact.  For each kernel it is proved lane by lane.  The
vector instructions move codes around, and each step is matched by the one that brings
them back: `Avx2NarrowIs` and `Avx512PackedIs` for saturating packs that interleave
halves and the permutation after them; `NeonSumTells` for pairwise sums that must carry each of
eight bits to its own place; `WrappedDistance` for the one subtraction, modulo 2^16, that
decides a range.  `RowsSelectPoints` is why nibble tables do not invent codes: a bit in all
four rows is *one* point of the batch agreeing in four nibbles (`NibblesDiffer`), and more than
eight points take several batches (`BatchesSelectPoints`).  `CheckExact` sums up all kernels,
`CheapestCanRun` the plan.  Theorems: `MatchersInvHolds`, `MatcherRunsAsPlanned`, `CrossoversHold`,
`ResolverGetsExactHits`.

**Common lemmas** (`ByteStringsProofs`): the longest match exists where every byte
is a token (`LongestMatchFound`) and is one only (`LongestIsUnique`), slices and adjacent
matches (`SliceProperties`, `AdjacentMatches`), the order of byte strings (`LexTransitive`,
`LexTotal`, `NeighboursSuffice`), row offsets add up and are monotone (`ByteCountSteps`,
`ByteCountMonotone`), concatenations and their pieces (`FlatToSteps`, `PiecesOfFlat`,
`FlatToOfRest`), the greedy codes of a row from any position (`GreedyFromUnfolds`, `GreedyOfRest`,
`GreedySpells`) and of several rows (`CodesOfSteps`, `CodesOfRest`).  Sums, concatenations,
powers and greedy codes are recursive functions, not RECURSIVE operators; that such a
function exists is shown with approximations of every length, and where a proof would need
induction it uses the least or greatest counterexample (`LeastNatural`,
`UpwardInduction`, `DownwardInduction`, which take a set and not an operator).

Only model-checked:

- liveness and its fairness (`Terminates`), which with `ENABLED` are out of the prover's reach;
- of `SubstringScan`: `MinimumCut`, that one pass up and one down a forest find the cheapest cut,
  and `ScanIsExact`, for which the walks of the verifier would have to be proved
  to be the encodings of the pattern;
- whatever a recursive definition computes for all inputs beyond what its lemmas say.

## Not modelled

- What the vector instructions mean is taken from the instruction sets' manuals, on the
  operands the kernels give them (`Vectors`, `NeonKernel`); how they are scheduled, and
  the lookup of CPU features by the standard library, are outside.
- The ranking of whole plans in floating point (`plan/mod.rs`): plans that answer the
  same question alike.  All cuts are checked instead, and all matchers.
- Configuration newtypes (one comparison each), error types, formatting.
- Which dictionary `train` gives, in `ColumnCodec`: any conformant one, since encoding and
  decoding must agree for all of them; `Trainer` says which can come out.
- The rounding of `f64` rates in the threshold controller: fractions are compared
  exactly.
- 2^32 rows of training input, whose ids would be truncated (see the hazard without a
  property), and decreasing input offsets in release builds: Arrow arrays have none,
  and a debug build asserts it.

## Plan

Done: the core (training, matching, parsing, decoding, validation), the round trip
through the library's front door, the search side including the frequency index, the
substring scan and its vector kernels, and the proofs about training, both matchers, the
lanes, decoding, the round trip, validation, lookup, columns, the substring automaton, the
alignment graph, the expected hits, the row resolver and the vector kernels.
Every component that keeps state is modelled.

1. Extend the models, where a new question comes up: several scans of one prepared
   `ContainsScan` over chunks of a column; the ranking of plans, if it were in integers.
2. Prove `MinimumCut` (the sums over sets of the expected hits serve it too), then
   `ScanIsExact`.
