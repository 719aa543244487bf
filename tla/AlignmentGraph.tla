--------------------------- MODULE AlignmentGraph ---------------------------
(***************************************************************************)
(* Every way a pattern can be encoded in a greedily tokenized row          *)
(* (src/src/search/substring/probe/alignment).  Nodes are pattern offsets, *)
(* from the source 0 to the sink.  An edge is a token that covers the      *)
(* pattern between two offsets: an alignment edge, whose tokens an         *)
(* occurrence begins inside; a greedy edge, the longest token there; a     *)
(* range edge, whose tokens finish the pattern.                            *)
(*                                                                         *)
(*   "single"   MatchStarts: tokens that end with the first byte;          *)
(*   "payload"  scan_payload: one hit of the pattern's first two bytes in  *)
(*              the concatenated tokens per step;                          *)
(*   "paths"    build_path from each start, one offset per step;           *)
(*   "graph"    the graph is built; "error" if it cannot be.               *)
(***************************************************************************)
EXTENDS Vocabulary

Sets == INSTANCE FiniteSetsExt

CONSTANTS
    Dictionaries,           \* sorted dictionaries
    Patterns,
    MaxPatternLen,
    MaxEnumeratedTokens,    \* most tokens an alignment edge lists
    MaxSingleByteTokens     \* the same for an overlap of one byte

ASSUME GraphAssumption ==
    /\ \A vocab \in Dictionaries : vocab \in Seq(Token) /\ Sorted(vocab)
    /\ Patterns \subseteq ByteSeq
    /\ MaxPatternLen \in Nat
    /\ MaxSingleByteTokens \in 1 .. MaxEnumeratedTokens
    /\ MaxEnumeratedTokens \in Nat

VARIABLES
    vocab, pattern,     \* the arguments
    phase,
    token, cursor,      \* the token and the payload position reached
    listed,             \* the tokens listed for each overlap length
    unenumerated,       \* the overlap lengths with too many tokens to list
    contained,          \* tokens with the pattern inside, but not at the start
    length, offset,     \* of build_path: the start and the offset reached
    nodes               \* built offsets, with the greedy token and the range

starts == <<token, cursor, listed, unenumerated, contained>>
paths == <<length, offset, nodes>>
graph == <<starts, paths>>

sink == Len(pattern)

NoToken == -1
Unbuilt == [greedy |-> NoToken, range |-> {}, built |-> FALSE]

\* Overlaps are shorter than the pattern and than a token.
OverlapLengths == 1 .. Sets!Min({sink, MaxTokenSize}) - 1

LengthOf(t) == Len(vocab[t + 1])

\* The empty pattern is in every row, without a search.
GraphInit ==
    /\ vocab \in Dictionaries /\ pattern \in Patterns
    /\ phase = IF sink > MaxPatternLen THEN "error"
               ELSE IF sink = 0 THEN "ready"
               ELSE IF sink > 1 THEN "single" ELSE "payload"
    /\ token = 0 /\ cursor = 0
    /\ listed = [k \in OverlapLengths |-> {}]
    /\ unenumerated = {} /\ contained = {}
    /\ length = 0 /\ offset = 0
    /\ nodes = [o \in 0 .. sink - 1 |-> Unbuilt]

\* record_overlap.
Record(k, t, limit) ==
    IF k \notin unenumerated /\ Cardinality(listed[k]) < limit
    THEN listed' = [listed EXCEPT ![k] = @ \cup {t}] /\ UNCHANGED unenumerated
    ELSE listed' = [listed EXCEPT ![k] = {}] /\ unenumerated' = unenumerated \cup {k}

\* A token of one byte begins the occurrence at a boundary.
EndsWithFirstByte(t) == LengthOf(t) > 1 /\ vocab[t + 1][LengthOf(t)] = pattern[1]

CollectSingleByte ==
    /\ phase = "single"
    /\ token < Len(vocab) /\ 1 \notin unenumerated
    /\ token' = token + 1
    /\ IF EndsWithFirstByte(token) THEN Record(1, token, MaxSingleByteTokens)
                                   ELSE UNCHANGED <<listed, unenumerated>>
    /\ UNCHANGED <<vocab, pattern, phase, cursor, contained, paths>>

SinglesCollected ==
    /\ phase = "single"
    /\ token = Len(vocab) \/ 1 \in unenumerated
    /\ token' = 0
    /\ phase' = "payload"
    /\ UNCHANGED <<vocab, pattern, cursor, listed, unenumerated, contained, paths>>

Payload == Flat(vocab)

\* Where each token begins and the one before it ends, token_payload's offsets.
PayloadOffsets == RowOffsets(vocab)

\* What the payload is searched for.
Front == SubSeq(pattern, 1, Sets!Min({sink, 2}))

Hits == {at \in cursor .. Len(Payload) - 1 : StartsAt(Payload, at, Front)}

\* token_at: gallop to a bound, then bisect below it.
TokenAt(first, at) ==
    LET size == Len(vocab) - first
        end(j) == PayloadOffsets[first + 1 + j]
        gallop[b \in Nat \ {0}] == IF b < size /\ end(b - 1) <= at THEN gallop[2 * b] ELSE b
        passed == gallop[1] \div 2
    IN  first + passed + Cardinality({j \in passed .. Sets!Min({gallop[1], size}) - 1 : end(j) <= at})

\* Only the last bytes of a token that holds the pattern can begin another one.
\* Mutant: the whole token is left behind.
AfterMatch_Token(t) == PayloadOffsets[t + 1]

AfterMatch(t) == PayloadOffsets[t + 1] - (sink - 1)

ScanPayload ==
    /\ phase = "payload"
    /\ Hits # {}
    /\ LET hit == Sets!Min(Hits)
           t == TokenAt(token, hit)
           tail == Slice(Payload, hit, PayloadOffsets[t + 1])
           inside == hit # PayloadOffsets[t]
           fits == Len(tail) >= Len(Front)
           whole == fits /\ StartsAt(tail, 0, pattern)
           partial == fits /\ ~whole /\ inside /\ StartsAt(pattern, 0, tail)
       IN  /\ token' = t
           /\ cursor' = IF whole THEN AfterMatch(t) ELSE hit + 1
           /\ contained' = IF whole /\ inside THEN contained \cup {t} ELSE contained
           /\ IF partial THEN Record(Len(tail), t, MaxEnumeratedTokens)
                         ELSE UNCHANGED <<listed, unenumerated>>
    /\ UNCHANGED <<vocab, pattern, phase, paths>>

PayloadScanned ==
    /\ phase = "payload"
    /\ Hits = {}
    /\ phase' = "paths"
    /\ UNCHANGED <<vocab, pattern, graph>>

Rest(o) == SubSeq(pattern, o + 1, sink)

\* longest_prefix: see Lookup.
Prefixes(o) == {t \in Ids(vocab) : StartsAt(pattern, o, vocab[t + 1])}
StartingWith(o) == {t \in Ids(vocab) : StartsAt(vocab[t + 1], 0, Rest(o))}

OnPath == phase = "paths" /\ offset < sink /\ ~nodes[offset].built

\* An exact match of the rest is in the range already.
BuildPosition ==
    /\ OnPath
    /\ Prefixes(offset) # {}
    /\ LET t == CodeAt(vocab, pattern, offset)
           next == offset + LengthOf(t)
       IN  /\ nodes' = [nodes EXCEPT ![offset] =
                            [greedy |-> IF next < sink THEN t ELSE NoToken,
                             range |-> StartingWith(offset), built |-> TRUE]]
           /\ offset' = next
    /\ UNCHANGED <<vocab, pattern, phase, starts, length>>

\* MissingByteToken.
MissingByte ==
    /\ OnPath
    /\ Prefixes(offset) = {}
    /\ phase' = "error"
    /\ UNCHANGED <<vocab, pattern, graph>>

HasOverlap(k) == listed[k] # {} \/ k \in unenumerated

\* The path from the next start: after the source, the overlaps by length.
NextPath ==
    /\ phase = "paths" /\ ~OnPath
    /\ LET later == {k \in OverlapLengths : k > length /\ HasOverlap(k)}
       IN  IF later # {}
           THEN length' = Sets!Min(later) /\ offset' = length' /\ UNCHANGED phase
           ELSE phase' = "graph" /\ UNCHANGED <<length, offset>>
    /\ UNCHANGED <<vocab, pattern, starts, nodes>>

GraphStep ==
    \/ CollectSingleByte \/ SinglesCollected
    \/ ScanPayload \/ PayloadScanned
    \/ BuildPosition \/ MissingByte \/ NextPath

\* The edges: their ends, and the tokens they list.  One with too many to list is
\* never cut.
Edge(from, to, tokens) == [from |-> from, to |-> to, tokens |-> tokens]

GreedyEdges ==
    {Edge(o, o + LengthOf(nodes[o].greedy), {nodes[o].greedy}) :
        o \in {o \in 0 .. sink - 1 : nodes[o].greedy # NoToken}}

RangeEdges ==
    {Edge(o, sink, nodes[o].range) : o \in {o \in 0 .. sink - 1 : nodes[o].range # {}}}

AlignmentEdges ==
    {Edge(0, k, listed[k]) : k \in {k \in OverlapLengths : HasOverlap(k)}}
    \cup (IF contained = {} THEN {} ELSE {Edge(0, sink, contained)})

Edges == GreedyEdges \cup RangeEdges \cup AlignmentEdges

Cuttable(e) == e.tokens # {}
=============================================================================
