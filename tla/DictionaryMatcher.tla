-------------------------- MODULE DictionaryMatcher --------------------------
(***************************************************************************)
(* The frozen matcher of a trained dictionary                              *)
(* (src/src/encoding/dictionary_matcher.rs): built token by token from the *)
(* sorted dictionary, then searched for several inputs at once, all of     *)
(* them with the same number of steps.                                     *)
(*                                                                         *)
(*   "build"    from_dictionary, one token per step;                       *)
(*   "ready"    find_all may be called;                                    *)
(*   "samples"  its binary search over the first keys of the blocks;       *)
(*   "block"    its search inside the one block it reached.                *)
(*                                                                         *)
(* A key is a sequence of MaxTokenSize bytes, most significant first, so   *)
(* that keys compare as byte strings.  In the program BlockKeys is 8.      *)
(***************************************************************************)
EXTENDS Vocabulary

CONSTANTS
    Vocabularies,
    BlockKeys,
    Searches        \* the inputs of one call, at least one: sequences of [data, win]

ASSUME MatcherAssumption ==
    /\ \A vocab \in Vocabularies : Conforms(vocab)
    /\ MaxTokenSize > 1
    /\ BlockKeys \in Nat /\ \E e \in 0 .. BlockKeys : BlockKeys = TwoTo[e]
    /\ Searches \subseteq Seq([data : ByteSeq, win : 1 .. MaxTokenSize]) \ {<<>>}

Key == [1 .. MaxTokenSize -> Byte]
LargestKey == [k \in 1 .. MaxTokenSize |-> NumBytes - 1]

\* The bytes of s as a key: from_be_bytes of the zero-padded buffer.
KeyOf(s) == [k \in 1 .. MaxTokenSize |-> IF k <= Len(s) THEN s[k] ELSE 0]

KeyLeq(a, b) == ~LexLess(b, a)

NumPrefixes == NumBytes * NumBytes
PrefixOf(key) == key[1] * NumBytes + key[2]

SetMax(S) == CHOOSE m \in S : \A n \in S : n <= m

VARIABLES
    vocab,
    mode,
    keys, chains,       \* one per token, then pads
    chain,              \* the prefix tokens of the token just added, shortest first
    singles,
    firstBlocks,
    inputs,             \* of the call being answered
    base, size, steps,  \* its search over the samples
    slot, half,         \* and inside the blocks
    found               \* the answers: pairs of id and length

table == <<vocab, keys, chains, chain, singles, firstBlocks>>
search == <<inputs, base, size, steps, slot, half, found>>
vars == <<table, mode, search>>

Init ==
    /\ vocab \in Vocabularies
    /\ mode = "build"
    /\ keys = <<>> /\ chains = <<>> /\ chain = <<>>
    /\ singles = [b \in Byte |-> 0]
    /\ firstBlocks = <<>>
    /\ inputs = <<>> /\ base = <<>> /\ size = <<>> /\ steps = 0
    /\ slot = <<>> /\ half = 0 /\ found = <<>>

Length(id) == Len(vocab[id + 1])

\* The slot of PrefixChain.ids from which a token of this length is filled in,
\* counted from 1: slot k is for a bound of k + 1 bytes.
\* Mutant: the slot of its own length is left out.
FillFrom_Late(length) == length

FillFrom(length) == IF length < 2 THEN 1 ELSE length - 1

\* PrefixChain::new: the lengths of the prefix tokens, and by length bound the
\* longest of them, each filled in over the shorter ones.
PrefixChain(ids) ==
    [lens |-> {Length(ids[n]) : n \in DOMAIN ids},
     ids  |-> [k \in 1 .. MaxTokenSize - 1 |->
                LET within == {n \in DOMAIN ids : FillFrom(Length(ids[n])) <= k}
                IN  IF within = {} THEN 0 ELSE ids[SetMax(within)]]]

\* The stack without the tokens on top that the next one does not extend.
Popped(token) ==
    LET extended(n) == StartsAt(token, 0, vocab[chain[n] + 1])
        kept == CHOOSE n \in 0 .. Len(chain) :
                    /\ n > 0 => extended(n)
                    /\ \A m \in n + 1 .. Len(chain) : ~extended(m)
    IN  SubSeq(chain, 1, kept)

AddToken ==
    /\ mode = "build"
    /\ Len(keys) < Len(vocab)
    /\ LET id == Len(keys)
           token == vocab[id + 1]
       IN  /\ keys' = Append(keys, KeyOf(token))
           /\ chain' = Append(Popped(token), id)
           /\ singles' = IF Len(token) = 1 THEN [singles EXCEPT ![token[1]] = id] ELSE singles
           /\ chains' = Append(chains, PrefixChain(chain'))
    /\ UNCHANGED <<vocab, mode, firstBlocks, search>>

\* The first token with this two-byte prefix or a larger one.
Start(p) == Cardinality({k \in DOMAIN keys : PrefixOf(keys[k]) < p})

\* The block of the last token before that one.
\* Mutant: the block of that one.
FirstBlock_OfFirst(p) == Start(p) \div BlockKeys

FirstBlock(p) == (IF Start(p) = 0 THEN 0 ELSE Start(p) - 1) \div BlockKeys

\* The tokens on the stack that are runs of the largest byte.
IsRun(id) == \A k \in 1 .. Length(id) : vocab[id + 1][k] = NumBytes - 1
Runs(ids) == Flat([n \in 1 .. Len(ids) |-> IF IsRun(ids[n]) THEN <<ids[n]>> ELSE <<>>])

PaddedLen == (Len(vocab) \div BlockKeys + 1) * BlockKeys

ChainPads == [k \in 1 .. PaddedLen - Len(vocab) |-> PrefixChain(Runs(chain))]

FinishBuild ==
    /\ mode = "build"
    /\ Len(keys) = Len(vocab)
    /\ firstBlocks' = [p \in 0 .. NumPrefixes |-> FirstBlock(p)]
    /\ keys' = keys \o [k \in 1 .. PaddedLen - Len(vocab) |-> LargestKey]
    /\ chain' = Runs(chain)
    /\ chains' = chains \o ChainPads
    /\ mode' = "ready"
    /\ UNCHANGED <<vocab, singles, search>>

Blocks == 0 .. Len(keys) \div BlockKeys - 1
Sample(block) == keys[block * BlockKeys + 1]
InBlock(block, k) == keys[block * BlockKeys + k + 1]

\* window_key
InputKey(j) == KeyOf(inputs[j].data)

\* The steps of a binary search over the largest of the ranges.
StepsFor(largest) ==
    CHOOSE e \in 0 .. largest : TwoTo[e] >= largest /\ (e > 0 => TwoTo[e - 1] < largest)

Search ==
    /\ mode = "ready"
    /\ inputs' \in Searches
    /\ base' = [j \in DOMAIN inputs' |-> firstBlocks[PrefixOf(KeyOf(inputs'[j].data))]]
    /\ size' = [j \in DOMAIN inputs' |->
                    firstBlocks[PrefixOf(KeyOf(inputs'[j].data)) + 1] + 1 - base'[j]]
    /\ steps' = StepsFor(SetMax({size'[j] : j \in DOMAIN inputs'}))
    /\ slot' = [j \in DOMAIN inputs' |-> 0]
    /\ half' = BlockKeys \div 2
    /\ found' = <<>>
    /\ mode' = "samples"
    /\ UNCHANGED table

\* advance_if_le
Advanced(a, b, at, step) == IF KeyLeq(a, b) THEN at + step ELSE at

\* One step for every input, those whose range is down to one block included.
SampleStep ==
    /\ mode = "samples"
    /\ steps > 0
    /\ base' = [j \in DOMAIN inputs |->
            Advanced(Sample(base[j] + size[j] \div 2), InputKey(j), base[j], size[j] \div 2)]
    /\ size' = [j \in DOMAIN inputs |-> size[j] - size[j] \div 2]
    /\ steps' = steps - 1
    /\ UNCHANGED <<table, mode, inputs, slot, half, found>>

EnterBlock ==
    /\ mode = "samples"
    /\ steps = 0
    /\ mode' = "block"
    /\ UNCHANGED <<table, search>>

BlockStep ==
    /\ mode = "block"
    /\ half > 0
    /\ slot' = [j \in DOMAIN inputs |->
            Advanced(InBlock(base[j], slot[j] + half), InputKey(j), slot[j], half)]
    /\ half' = half \div 2
    /\ UNCHANGED <<table, mode, inputs, base, size, steps, found>>

\* The number of leading bytes that two keys share.
Common(a, b) ==
    CHOOSE n \in 0 .. MaxTokenSize :
        /\ \A k \in 1 .. n : a[k] = b[k]
        /\ n < MaxTokenSize => a[n + 1] # b[n + 1]

\* The longest match cannot be longer than this.
MaxLen(q, j) ==
    LET common == Common(keys[q + 1], InputKey(j))
    IN  IF common < inputs[j].win THEN common ELSE inputs[j].win

Answer(j) ==
    LET q == base[j] * BlockKeys + slot[j]
        fits == {n \in chains[q + 1].lens : n <= MaxLen(q, j)}
        len == IF fits = {} THEN 0 ELSE SetMax(fits)
    IN  IF len = 1 THEN <<singles[InputKey(j)[1]], len>>
        ELSE <<chains[q + 1].ids[FillFrom(len)], len>>

FindAll ==
    /\ mode = "block"
    /\ half = 0
    /\ found' = [j \in DOMAIN inputs |-> Answer(j)]
    /\ mode' = "ready"
    /\ UNCHANGED <<table, inputs, base, size, steps, slot, half>>

Next == AddToken \/ FinishBuild \/ Search \/ SampleStep \/ EnterBlock \/ BlockStep \/ FindAll

Spec == Init /\ [][Next]_vars

-----------------------------------------------------------------------------
(***************************************************************************)
(* Properties.                                                             *)
(***************************************************************************)

Record == [lens : SUBSET (1 .. MaxTokenSize), ids : [1 .. MaxTokenSize - 1 -> Ids(vocab)]]

\* Every variable of the matcher has its type, and every key a record.
TypeOK ==
    /\ vocab \in Vocabularies
    /\ mode \in {"build", "ready", "samples", "block"}
    /\ keys \in Seq(Key) /\ chains \in Seq(Record) /\ Len(chains) = Len(keys)
    /\ chain \in Seq(Ids(vocab)) /\ singles \in [Byte -> Ids(vocab)]
    /\ mode # "build" =>
        /\ firstBlocks \in [0 .. NumPrefixes -> Blocks]
        /\ Len(keys) % BlockKeys = 0
    /\ steps \in Nat /\ half \in 0 .. BlockKeys \div 2

\* The tokens that token id starts with, itself included.
PrefixTokens(id) == {p \in Ids(vocab) : StartsAt(vocab[id + 1], 0, vocab[p + 1])}

\* What the stack holds is exactly the prefix tokens of the token just added: none
\* of them was popped for an earlier token, and nothing else stayed.
StackHoldsPrefixes ==
    (mode = "build" /\ keys # <<>>) =>
        /\ {chain[n] : n \in DOMAIN chain} = PrefixTokens(Len(keys) - 1)
        /\ \A m, n \in DOMAIN chain : m < n => Length(chain[m]) < Length(chain[n])

\* While the stack holds that, the record of a token, and of a pad, which stands
\* for a run of the largest byte, gives its longest prefix token under every bound.
RecordsGiveLongest ==
    /\ TypeOK
    /\ StackHoldsPrefixes
    /\ mode = "ready" => \A k \in DOMAIN keys : \A bound \in 2 .. MaxTokenSize :
        LET own == IF k <= Len(vocab) THEN vocab[k] ELSE LargestKey
            cut == SubSeq(own, 1, IF bound < Len(own) THEN bound ELSE Len(own))
        IN  vocab[chains[k].ids[bound - 1] + 1] = LongestMatch(TokensOf(vocab), cut, 0)

\* Through both searches and for every input, however many steps the others force
\* on it, the range left begins with a key that is not above the input's, and all
\* tokens behind the range are above it.
Brackets(j, first, width) ==
    /\ first + width <= Len(keys)
    /\ KeyLeq(keys[first + 1], InputKey(j))
    /\ \A k \in first + width + 1 .. Len(vocab) : ~KeyLeq(keys[k], InputKey(j))
SearchBrackets ==
    \A j \in DOMAIN inputs :
        /\ mode = "samples" => Brackets(j, base[j] * BlockKeys, size[j] * BlockKeys)
        /\ mode = "block" => Brackets(j, base[j] * BlockKeys + slot[j],
                                      IF half = 0 THEN 1 ELSE 2 * half)

\* However the searches of a batch are interleaved, none loses its key, and find_all
\* answers every input with the greedy code of its window, the choice that
\* GreedyEncoding makes; beyond the end of the bytes the window holds zeros.
FindsGreedyCodes ==
    /\ SearchBrackets
    /\ \A j \in DOMAIN found :
        LET window == SubSeq(InputKey(j), 1, inputs[j].win)
            code == CodeAt(vocab, window, 0)
        IN  found[j] = <<code, Length(code)>>

\* In the block that is searched the last key that is not above the input's is the
\* last one of all: "the next block starts with a larger one"
\* (dictionary_matcher.rs, find_all).
NextBlockIsLarger ==
    mode = "block" => \A j \in DOMAIN inputs :
        base[j] + 1 \in Blocks => ~KeyLeq(Sample(base[j] + 1), InputKey(j))
=============================================================================
