------------------------ MODULE LongestPrefixMatcher ------------------------
(***************************************************************************)
(* The matcher that training inserts into and searches                     *)
(* (src/src/encoding/lpm.rs).  Tokens of up to WordSize bytes are entries  *)
(* of a hash map, keyed by their zero-padded word and their length; longer *)
(* ones lie in the bucket of their first word, in order of falling length  *)
(* until a bucket outgrows PromoteThreshold and is regrouped for binary    *)
(* search.                                                                 *)
(*                                                                         *)
(* A word is a sequence of WordSize bytes, in memory order.  A hash map is *)
(* a function.  In the program WordSize is 8, MaxTokenSize twice that and  *)
(* PromoteThreshold 48.                                                    *)
(***************************************************************************)
EXTENDS ByteStrings

CONSTANTS
    WordSize,           \* BUCKET_PREFIX_LEN
    PromoteThreshold,
    Insertable,         \* tokens that training may insert
    MaxTokens,          \* how many tokens there may be
    Windows             \* non-empty inputs to search

ASSUME LpmAssumption ==
    /\ WordSize \in Nat \ {0}
    /\ MaxTokenSize = 2 * WordSize
    /\ PromoteThreshold \in Nat
    /\ Insertable \subseteq Token
    /\ MaxTokens \in Nat
    /\ Windows \subseteq ByteSeq \ {<<>>}

MaxSuffixLen == MaxTokenSize - WordSize

Word == [1 .. WordSize -> Byte]

Least(m, n) == IF m < n THEN m ELSE n

\* The first len bytes of data in a word, zeros above them.
LoadWord(data, len) ==
    [k \in 1 .. WordSize |-> IF k <= Least(len, Len(data)) THEN data[k] ELSE 0]

\* x & mask_u64(len)
Masked(x, len) == [k \in 1 .. WordSize |-> IF k <= len THEN x[k] ELSE 0]

\* x >> 8 * by, for a word with its first byte lowest
ShiftedDown(x, by) ==
    [k \in 1 .. WordSize |-> IF k + by <= WordSize THEN x[k + by] ELSE 0]

\* load_window, upper word: read so as to end where the window ends, and shifted
\* into place.
\* Mutant: it is not shifted.
UpperWord_Unshifted(data) ==
    LET n == Least(Len(data), MaxTokenSize)
    IN  [k \in 1 .. WordSize |-> IF n > WordSize THEN data[n - WordSize + k] ELSE 0]

UpperWord(data) ==
    LET n == Least(Len(data), MaxTokenSize)
    IN  IF n > WordSize
        THEN ShiftedDown([k \in 1 .. WordSize |-> data[n - WordSize + k]], MaxTokenSize - n)
        ELSE [k \in 1 .. WordSize |-> 0]

\* load_window, lower word: one read, or the first and the last part bytes of a
\* shorter window, part the largest power of two that fits it.  Where they
\* overlap they are equal, so that their union is either.
LowerWord(data) ==
    LET n == Len(data)
        part == TwoTo[CHOOSE e \in 0 .. n : TwoTo[e] <= n /\ n < TwoTo[e + 1]]
        last == [k \in 1 .. part |-> data[n - part + k]]
    IN  IF n >= WordSize THEN LoadWord(data, WordSize)
        ELSE [k \in 1 .. WordSize |->
                IF k <= part THEN data[k]
                ELSE IF k <= n THEN last[k - (n - part)]
                ELSE 0]

VARIABLES
    shortMap,       \* token ids, by pairs of word and length
    longMap,        \* buckets, by first word
    maxShortLen,
    nextId,
    tokens          \* the tokens inserted, in order: what the maps stand for

lpm_vars == <<shortMap, longMap, maxShortLen, nextId, tokens>>

Entry(data, id) ==
    [suffix |-> LoadWord(SubSeq(data, WordSize + 1, Len(data)), Len(data) - WordSize),
     slen   |-> Len(data) - WordSize,
     token  |-> id]

\* A bucket: its entries in order, and, once grouped, for each suffix length the
\* end of its group and the set of lengths present.
Linear(es) == [grouped |-> FALSE, entries |-> es]
Grouped(es, ends, present) ==
    [grouped |-> TRUE, entries |-> es, ends |-> ends, present |-> present]

LpmInit ==
    /\ shortMap = [key \in {<<LoadWord(<<b>>, 1), 1>> : b \in Byte} |-> key[1][1]]
    /\ longMap = [w \in {} |-> 0]
    /\ maxShortLen = 1
    /\ nextId = NumBytes
    /\ tokens = [k \in 1 .. NumBytes |-> <<k - 1>>]

InsertAt(es, pos, e) == SubSeq(es, 1, pos) \o <<e>> \o SubSeq(es, pos + 1, Len(es))

\* The order of words as integers: the last byte is the highest.
WordLess(x, y) ==
    \E k \in 1 .. WordSize : x[k] < y[k] /\ \A j \in k + 1 .. WordSize : x[j] = y[j]

GroupOrder(a, b) ==
    a.slen > b.slen \/ (a.slen = b.slen /\ WordLess(a.suffix, b.suffix))

\* GroupedBucket::build
Build(es) ==
    LET n == Len(es)
        all == {es[k] : k \in 1 .. n}
        sorted == CHOOSE s \in [1 .. n -> all] :
                    /\ \A e \in all : \E k \in 1 .. n : s[k] = e
                    /\ \A j, k \in 1 .. n : j < k => ~GroupOrder(s[k], s[j])
    IN  Grouped(sorted,
                [slen \in 1 .. MaxSuffixLen + 1 |-> Cardinality({e \in all : e.slen >= slen})],
                {e.slen : e \in all})

\* partition_point in a linear bucket: behind the longer entries.
LinearPos(es, e) == Cardinality({k \in 1 .. Len(es) : es[k].slen > e.slen})

\* The linear bucket with one more entry, promoted when it has too many.
LinearInserted(bucket, e) ==
    LET es == InsertAt(bucket.entries, LinearPos(bucket.entries, e), e)
    IN  IF Len(es) > PromoteThreshold THEN Build(es) ELSE Linear(es)

\* partition_point in the group of the entry's length: behind the lower suffixes.
GroupPos(bucket, e) ==
    bucket.ends[e.slen + 1]
        + Cardinality({k \in bucket.ends[e.slen + 1] + 1 .. bucket.ends[e.slen] :
                        WordLess(bucket.entries[k].suffix, e.suffix)})

\* The groups whose ends an insertion moves: those of shorter suffixes lie behind.
\* Mutant: all but the entry's own.
EndMoves_OthersOnly(slen, at) == at < slen

EndMoves(slen, at) == at <= slen

GroupedInserted(bucket, e) ==
    Grouped(InsertAt(bucket.entries, GroupPos(bucket, e), e),
            [at \in DOMAIN bucket.ends |->
                bucket.ends[at] + (IF EndMoves(e.slen, at) THEN 1 ELSE 0)],
            bucket.present \cup {e.slen})

IsShort(data) == Len(data) <= WordSize

InsertShort(data) ==
    /\ IsShort(data)
    /\ LET key == <<LoadWord(data, Len(data)), Len(data)>>
       IN  shortMap' = [k \in DOMAIN shortMap \cup {key} |->
                            IF k = key THEN nextId ELSE shortMap[k]]
    /\ maxShortLen' = IF Len(data) > maxShortLen THEN Len(data) ELSE maxShortLen
    /\ UNCHANGED longMap

InsertLong(data) ==
    /\ ~IsShort(data)
    /\ LET prefix == LoadWord(data, WordSize)
           bucket == IF prefix \in DOMAIN longMap THEN longMap[prefix] ELSE Linear(<<>>)
           e == Entry(data, nextId)
       IN  longMap' = [w \in DOMAIN longMap \cup {prefix} |->
                IF w # prefix THEN longMap[w]
                ELSE IF bucket.grouped THEN GroupedInserted(bucket, e)
                ELSE LinearInserted(bucket, e)]
    /\ UNCHANGED <<shortMap, maxShortLen>>

\* Training never inserts a token twice: Trainer's PrevIsLongest and
\* IdsArePositions.
Insert(data) ==
    /\ nextId < MaxTokens
    /\ data \notin {tokens[k] : k \in 1 .. Len(tokens)}
    /\ InsertShort(data) \/ InsertLong(data)
    /\ nextId' = nextId + 1
    /\ tokens' = Append(tokens, data)

LpmNext == \E data \in Insertable : Insert(data)

LpmSpec == LpmInit /\ [][LpmNext]_lpm_vars

-----------------------------------------------------------------------------
(***************************************************************************)
(* find_longest_match.                                                     *)
(***************************************************************************)

NoMatch == [token |-> -1, len |-> 0]

\* An entry's suffix is what the window's upper word starts with.
SuffixMatches(e, val) == \A k \in 1 .. e.slen : val[k] = e.suffix[k]

\* search_linear: the first entry that fits the window and matches.
SearchLinear(es, val, maxSlen) ==
    LET hits == {k \in 1 .. Len(es) :
                    es[k].slen <= maxSlen /\ SuffixMatches(es[k], val)}
    IN  IF hits = {} THEN NoMatch
        ELSE LET first == CHOOSE k \in hits : \A j \in hits : k <= j
             IN  [token |-> es[first].token, len |-> es[first].slen]

\* binary_search_by_key: by halving, so that it is right in sorted groups only.
\* The position of the target in the group between from and to, or 0.
BinarySearch(es, from, to, target) ==
    LET middle(p) == p[1] + p[2] \div 2
        halve[p \in Nat \X Nat] ==     \* where a slice begins, and its size
            IF p[2] <= 1 THEN p[1]
            ELSE halve[<<IF WordLess(target, es[middle(p) + 1].suffix) THEN p[1] ELSE middle(p),
                         p[2] - p[2] \div 2>>]
        at == halve[<<from, to - from>>] + 1
    IN  IF from < to /\ es[at].suffix = target THEN at ELSE 0

\* GroupedBucket::find: the longest suffix length with a hit in its group.
FindGrouped(bucket, val, maxSlen) ==
    LET at(slen) == BinarySearch(bucket.entries, bucket.ends[slen + 1], bucket.ends[slen],
                                 Masked(val, slen))
        hits == {slen \in bucket.present : slen <= maxSlen /\ at(slen) # 0}
    IN  IF hits = {} THEN NoMatch
        ELSE LET longest == CHOOSE slen \in hits : \A other \in hits : other <= slen
             IN  [token |-> bucket.entries[at(longest)].token, len |-> longest]

FindLong(data) ==
    LET maxSlen == Least(Len(data), MaxTokenSize) - WordSize
    IN  IF maxSlen < 1 \/ LowerWord(data) \notin DOMAIN longMap THEN NoMatch
        ELSE LET bucket == longMap[LowerWord(data)]
             IN  IF bucket.grouped THEN FindGrouped(bucket, UpperWord(data), maxSlen)
                 ELSE SearchLinear(bucket.entries, Masked(UpperWord(data), maxSlen), maxSlen)

ShortMax(data) == Least(Least(Len(data), MaxTokenSize), maxShortLen)

FindShort(data) ==
    LET key(len) == <<Masked(LowerWord(data), len), len>>
        hits == {len \in 1 .. ShortMax(data) : key(len) \in DOMAIN shortMap}
        longest == CHOOSE len \in hits : \A other \in hits : other <= len
    IN  IF hits = {} THEN NoMatch
        ELSE [token |-> shortMap[key(longest)], len |-> longest]

FindLongestMatch(data) ==
    IF FindLong(data) = NoMatch THEN FindShort(data)
    ELSE [token |-> FindLong(data).token, len |-> WordSize + FindLong(data).len]

-----------------------------------------------------------------------------
(***************************************************************************)
(* Properties.                                                             *)
(***************************************************************************)

Buckets == {longMap[w] : w \in DOMAIN longMap}

\* Every variable of the matcher has its type.
LpmTypeOK ==
    /\ DOMAIN shortMap \subseteq Word \X (1 .. WordSize)
    /\ \A key \in DOMAIN shortMap : shortMap[key] \in 0 .. nextId - 1
    /\ DOMAIN longMap \subseteq Word
    /\ \A b \in Buckets : \A k \in 1 .. Len(b.entries) :
        b.entries[k] \in [suffix : Word, slen : 1 .. MaxSuffixLen, token : 0 .. nextId - 1]
    /\ maxShortLen \in 1 .. WordSize
    /\ nextId \in Nat /\ tokens \in Seq(Token)

\* Whatever the mix of maps and buckets the tokens ended up in, a search returns
\* the longest token that starts the input, with its id: zero padding never makes
\* a token match that is longer than the input or differs from it.
FindsLongest ==
    \A data \in Windows :
        LET found == FindLongestMatch(data)
            T == {tokens[k] : k \in 1 .. Len(tokens)}
        IN  /\ found.token \in 0 .. Len(tokens) - 1
            /\ tokens[found.token + 1] = LongestMatch(T, data, 0)
            /\ found.len = Len(tokens[found.token + 1])

\* A bucket is promoted exactly when it outgrows the threshold, and from then on
\* its groups, and the ends and lengths that find relies on, stay those of its
\* entries through every later insertion.
GroupsInOrder ==
    /\ \A b \in Buckets : b.grouped <=> Len(b.entries) > PromoteThreshold
    /\ \A b \in Buckets : b.grouped =>
           /\ \A slen \in 1 .. MaxSuffixLen :
               /\ {k \in 1 .. Len(b.entries) : b.entries[k].slen = slen}
                       = b.ends[slen + 1] + 1 .. b.ends[slen]
               /\ slen \in b.present <=> b.ends[slen + 1] < b.ends[slen]
               /\ \A j, k \in b.ends[slen + 1] + 1 .. b.ends[slen] :
                   j < k => WordLess(b.entries[j].suffix, b.entries[k].suffix)

\* Every token is held exactly once, under the id of its place in the order of
\* insertion, whether its bucket was promoted since or not, and in order there.
HoldsEveryToken ==
    LET short == {<<SubSeq(key[1], 1, key[2]), shortMap[key]>> : key \in DOMAIN shortMap}
        long == UNION {{<<w \o SubSeq(e.suffix, 1, e.slen), e.token>> :
                            e \in {longMap[w].entries[k] : k \in 1 .. Len(longMap[w].entries)}} :
                       w \in DOMAIN longMap}
    IN  /\ LpmTypeOK /\ GroupsInOrder
        /\ short \cup long = {<<tokens[k], k - 1>> : k \in 1 .. Len(tokens)}
        /\ nextId = Len(tokens)
        /\ \A b \in Buckets : \A j, k \in 1 .. Len(b.entries) :
                b.entries[j] = b.entries[k] => j = k
=============================================================================
