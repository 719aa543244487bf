--------------------------- MODULE SubstringScan ---------------------------
(***************************************************************************)
(* Substring search over a whole code stream (ContainsScan,                *)
(* src/src/search/substring/probe): a pattern's alignment graph is cut,    *)
(* the tokens of the cut, its cover, are searched for block by block, each *)
(* hit is given to the row that holds it and verified there.  The row      *)
(* offsets come from storage, where a view may be a slice of its codes,    *)
(* and are not checked as a whole.                                         *)
(*                                                                         *)
(*   "graph"    the graph is built: see AlignmentGraph for the phases       *)
(*              before;                                                    *)
(*   "planned"  a cut is chosen;                                           *)
(*   "ready"    the scan is prepared; it does not change from here on;     *)
(*   "blocks"   scan::run, before a block;                                 *)
(*   "hits"     Resolver::rows, before the next hit of a block;            *)
(*   "locate"   the hit is not in the current row;                         *)
(*   "verify"   it is;                                                     *)
(*   "done"     the rows are returned;                                     *)
(*   "asked"    expected_hits is returned;                                 *)
(*   "panic"    InvalidColumn::BadRowOffsets.                              *)
(***************************************************************************)
EXTENDS HitVerifier

Seqs == INSTANCE SequencesExt

CONSTANTS
    Views,      \* columns: a dictionary, codes and row offsets
    Sampled(_), \* codes that an index is built for, for a dictionary
    Stored(_),  \* and prefix sums that were stored
    BlockLen    \* BLOCK

ASSUME ScanAssumption ==
    /\ \A v \in Views : v.codes \in Seq(Nat) /\ v.rowOffsets \in Seq(Nat)
    /\ \A d \in Dictionaries : Sampled(d) \subseteq Seq(Nat) /\ Stored(d) \subseteq Seq(Nat)
    /\ BlockLen \in Nat \ {0}

VARIABLES
    index,          \* the frequency index, while planning and once asked with
    counted,        \* the codes it counts, if they are known
    weight,         \* of the edges, while planning
    cut,
    view,           \* the columns to scan, None before
    block,          \* where the block begins
    next,           \* where in the block the next hit is looked for
    hit,
    row, rowEnd,    \* the row located last
    resolved,       \* hits before it are skipped
    out

plan == <<index, counted, weight, cut>>
resolver == <<block, next, hit, row, rowEnd, resolved, out>>
call == <<vocab, pattern, graph>>
scan_vars == <<call, phase, plan, view, resolver>>

None == [vocab |-> <<>>, codes |-> <<>>, rowOffsets |-> <<>>]

Uncounted == <<-1>>

ScanInit ==
    /\ GraphInit
    /\ index = Refused /\ counted = Uncounted
    /\ weight = <<>> /\ cut = {}
    /\ view = None
    /\ block = 0 /\ next = 0 /\ hit = 0 /\ row = 0 /\ rowEnd = 0 /\ resolved = 0
    /\ out = <<>>

BuildGraph == GraphStep /\ UNCHANGED <<plan, view, resolver>>

\* The index that a caller passes: built for a stream, or stored sums that it adopts.
PassIndex ==
    /\ \/ \E codes \in Sampled(vocab) :
            counted' = codes /\ index' = build(codes, Len(vocab))
       \/ \E sums \in Stored(vocab) : counted' = Uncounted /\ index' = new(sums)
    /\ index' # Refused

\* check_frequencies.
Mismatch(i) == num_tokens(i) # Len(vocab)

\* Before anything is built.
RejectIndex ==
    /\ phase = IF sink = 0 THEN "ready" ELSE IF sink > 1 THEN "single" ELSE "payload"
    /\ token = 0 /\ cursor = 0
    /\ PassIndex /\ Mismatch(index')
    /\ phase' = "error"
    /\ UNCHANGED <<call, weight, cut, view, resolver>>

\* plan::select keeps one of the cuts of a few weights, by a cost model that only
\* matters for speed.
Select ==
    /\ phase = "graph"
    /\ PassIndex /\ ~Mismatch(index')
    /\ \E price \in Prices :
        weight' = [e \in CuttableEdges |-> Weight(e, index', price)]
    /\ cut' = Solve(weight')
    /\ phase' = "planned"
    /\ UNCHANGED <<call, view, resolver>>

Prepare ==
    /\ phase = "planned"
    /\ index' = Refused /\ counted' = Uncounted
    /\ weight' = <<>>
    /\ phase' = "ready"
    /\ UNCHANGED <<call, cut, view, resolver>>

\* ProbeCover: runs of tokens, of which those that overlap or touch are merged.
Run(begin, last) == [begin |-> begin, last |-> last]

Runs ==
    UNION {IF e \in RangeEdges THEN {Run(Sets!Min(e.tokens), Sets!Max(e.tokens))}
           ELSE {Run(t, t) : t \in e.tokens} : e \in cut}

\* Mutant: only runs that touch are merged, not those that overlap.
Merge_Touching(merged, run) ==
    IF merged # <<>> /\ run.begin = Seqs!Last(merged).last + 1
    THEN [merged EXCEPT ![Len(merged)].last = run.last]
    ELSE Append(merged, run)

Merge(merged, run) ==
    IF merged # <<>> /\ run.begin <= Seqs!Last(merged).last + 1
    THEN [merged EXCEPT ![Len(merged)].last = Sets!Max({@, run.last})]
    ELSE Append(merged, run)

Before(a, b) == a.begin < b.begin \/ (a.begin = b.begin /\ a.last < b.last)

\* One after the other, in the order of their first tokens.
MergedRuns ==
    LET merge[runs \in SUBSET Runs] ==
            IF runs = {} THEN <<>>
            ELSE LET run == CHOOSE r \in runs : \A q \in runs : q = r \/ Before(q, r)
                 IN  Merge(merge[runs \ {run}], run)
        merged == merge[Runs]
    IN  {merged[n] : n \in 1 .. Len(merged)}

Cover == UNION {run.begin .. run.last : run \in MergedRuns}

Points(runs) == {run \in runs : run.begin = run.last}

\* ProbeCover::frequency.
cover_frequency ==
    LET points == Points(MergedRuns)
    IN  Sets!MapThenSumSet(LAMBDA run : frequency(index, run.begin), points)
        + Sets!MapThenSumSet(LAMBDA run : range_frequency(index, run.begin, run.last),
                             MergedRuns \ points)

\* expected_hits, which may be asked with another index than planning had.  It leaves the
\* scan as it was, so that nothing needs to follow here.
ExpectedHits ==
    /\ phase = "ready"
    /\ PassIndex
    /\ phase' = IF Mismatch(index') THEN "error" ELSE "asked"
    /\ UNCHANGED <<call, weight, cut, view, resolver>>

FirstCode(v) == v.rowOffsets[1]
EndCode(v) == v.rowOffsets[Len(v.rowOffsets)]

\* Codes behind the last row are not looked at.
Codes == SubSeq(view.codes, 1, EndCode(view))

BadOffsets(v) == FirstCode(v) > EndCode(v) \/ EndCode(v) > Len(v.codes)

Scannable == {v \in Views : v.vocab = vocab}

\* ContainsScan::scan: without offsets there are no rows, and without codes no row
\* can contain the pattern.
ScanNothing ==
    /\ phase = "ready"
    /\ view' \in {v \in Scannable :
            \/ v.rowOffsets = <<>>
            \/ ~BadOffsets(v) /\ sink > 0 /\ FirstCode(v) = EndCode(v)}
    /\ phase' = "done"
    /\ UNCHANGED <<call, plan, resolver>>

ScanPanics ==
    /\ phase = "ready"
    /\ view' \in {v \in Scannable : v.rowOffsets # <<>> /\ BadOffsets(v)}
    /\ phase' = "panic"
    /\ UNCHANGED <<call, plan, resolver>>

\* Every row contains the empty pattern.
ScanEverything ==
    /\ phase = "ready"
    /\ sink = 0
    /\ view' \in {v \in Scannable : v.rowOffsets # <<>> /\ ~BadOffsets(v)}
    /\ out' = [n \in 1 .. NumRows(view') |-> n - 1]
    /\ phase' = "done"
    /\ UNCHANGED <<call, plan, block, next, hit, row, rowEnd, resolved>>

\* Up to Resolver::new.
StartScan ==
    /\ phase = "ready"
    /\ sink > 0
    /\ view' \in {v \in Scannable :
            v.rowOffsets # <<>> /\ ~BadOffsets(v) /\ FirstCode(v) # EndCode(v)}
    /\ block' = FirstCode(view')
    /\ rowEnd' = view'.rowOffsets[2]
    /\ phase' = IF rowEnd' > EndCode(view') THEN "panic" ELSE "blocks"
    /\ UNCHANGED <<call, plan, next, hit, row, resolved, out>>

\* Mask bits of the padding are cleared.
\* Mutant: they are not.
Valid_Whole == BlockLen

Valid == Sets!Min({BlockLen, Len(Codes) - block})

BlockCode(n) == IF block + n < Len(Codes) THEN Codes[block + n + 1] ELSE 0

Mask == {n \in 0 .. Valid - 1 : BlockCode(n) \in Cover}

StartBlock ==
    /\ phase = "blocks"
    /\ block < Len(Codes)
    /\ next' = Sets!Max({resolved - block, 0})
    /\ phase' = "hits"
    /\ UNCHANGED <<call, plan, view, block, hit, row, rowEnd, resolved, out>>

FinishScan ==
    /\ phase = "blocks"
    /\ block >= Len(Codes)
    /\ phase' = "done"
    /\ UNCHANGED <<call, plan, view, resolver>>

HitsLeft == {n \in Mask : n >= next}

TakeHit ==
    /\ phase = "hits"
    /\ HitsLeft # {}
    /\ hit' = block + Sets!Min(HitsLeft)
    /\ phase' = IF hit' >= rowEnd THEN "locate" ELSE "verify"
    /\ UNCHANGED <<call, plan, view, block, next, row, rowEnd, resolved, out>>

EndBlock ==
    /\ phase = "hits"
    /\ HitsLeft = {}
    /\ block' = block + BlockLen
    /\ phase' = "blocks"
    /\ UNCHANGED <<call, plan, view, next, hit, row, rowEnd, resolved, out>>

\* find_row: gallop until a boundary passes the code, then bisect the last step.
FindRow(first, code) ==
    LET end == NumRows(view)
        boundary(r) == view.rowOffsets[r + 1]
        gallop[p \in Nat \X (Nat \ {0})] ==     \* from lo, by the step
            LET hi == Sets!Min({p[1] + p[2], end})
            IN  IF boundary(hi) > code THEN <<p[1], hi>> ELSE gallop[<<hi, p[2] * 2>>]
        bisect[p \in (0 .. end) \X (0 .. end)] ==     \* lo and hi
            LET mid == p[1] + (p[2] - p[1]) \div 2
            IN  IF p[2] - p[1] <= 1 THEN p[1]
                ELSE IF boundary(mid) <= code THEN bisect[<<mid, p[2]>>]
                                              ELSE bisect[<<p[1], mid>>]
    IN  IF boundary(first + 1) > code THEN first
        ELSE bisect[gallop[<<first + 1, 1>>]]

LocateRow ==
    /\ phase = "locate"
    /\ row' = FindRow(row + 1, hit)
    /\ rowEnd' = view.rowOffsets[row' + 2]
    /\ phase' = IF rowEnd' > Len(Codes) THEN "panic" ELSE "verify"
    /\ UNCHANGED <<call, plan, view, block, next, hit, resolved, out>>

\* The rest of a row that matched is skipped, in later blocks too.
Verify ==
    /\ phase = "verify"
    /\ IF Check(cut, Codes, view.rowOffsets[row + 1], rowEnd, hit)
       THEN /\ out' = Append(out, row)
            /\ resolved' = rowEnd
            /\ next' = rowEnd - block
       ELSE next' = hit - block + 1 /\ UNCHANGED <<out, resolved>>
    /\ phase' = "hits"
    /\ UNCHANGED <<call, plan, view, block, hit, row, rowEnd>>

ScanNext ==
    \/ RejectIndex \/ BuildGraph \/ Select \/ Prepare \/ ExpectedHits
    \/ ScanNothing \/ ScanPanics \/ ScanEverything \/ StartScan
    \/ StartBlock \/ FinishScan
    \/ TakeHit \/ EndBlock \/ LocateRow \/ Verify

ScanSpec == ScanInit /\ [][ScanNext]_scan_vars

-----------------------------------------------------------------------------
(***************************************************************************)
(* Properties.                                                             *)
(***************************************************************************)

\* Every variable has its type.
ScanTypeOK ==
    /\ phase \in {"single", "payload", "paths", "graph", "error", "planned", "ready",
                  "blocks", "hits", "locate", "verify", "done", "asked", "panic"}
    /\ token \in 0 .. Len(vocab) /\ cursor \in 0 .. Len(Payload)
    /\ listed \in [OverlapLengths -> SUBSET Ids(vocab)]
    /\ unenumerated \subseteq OverlapLengths /\ contained \subseteq Ids(vocab)
    /\ length \in 0 .. sink /\ offset \in 0 .. sink
    /\ DOMAIN nodes = 0 .. sink - 1
    /\ cut \subseteq Edges
    /\ {block, next, hit, row, rowEnd, resolved} \subseteq Nat

Complete == phase \notin {"single", "payload", "paths", "error"} /\ sink > 0

EndsWithPrefix(t, k) == LengthOf(t) > k /\ IsTail(k, t)

Inside(t) == \E at \in 1 .. LengthOf(t) : StartsAt(vocab[t + 1], at, pattern)

\* One pass over the concatenated tokens, which skips what cannot matter, finds
\* exactly the tokens an occurrence can begin inside: those that end with a prefix of
\* the pattern, unless they are too many, and those with the pattern inside.  And
\* preparing fails on no dictionary with all bytes and no pattern of legal length.
GraphIsExact ==
    /\ ScanTypeOK
    /\ phase = "graph" =>
        /\ \A k \in OverlapLengths :
            LET tokens == {t \in Ids(vocab) : EndsWithPrefix(t, k)}
                limit == IF k = 1 THEN MaxSingleByteTokens ELSE MaxEnumeratedTokens
            IN  IF Cardinality(tokens) > limit THEN k \in unenumerated
                ELSE k \notin unenumerated /\ listed[k] = tokens
        /\ contained = {t \in Ids(vocab) : Inside(t) /\ ~StartsAt(vocab[t + 1], 0, pattern)}
    /\ phase = "error" =>
        sink > MaxPatternLen \/ ~Conforms(vocab) \/ (index # Refused /\ Mismatch(index))

\* No path from the source to the sink avoids the edges of C.
Separates(C) ==
    LET reached[v \in 0 .. sink] ==
            v = 0 \/ \E e \in Edges \ C : e.to = v /\ reached[e.from]
    IN  ~reached[sink]

\* The sides that cross no edge which cannot be cut.
Sides ==
    {side \in {{0} \cup S : S \in SUBSET Active} :
        \A e \in Edges : ~Cuttable(e) /\ e.from \in side => e.to \in side}

\* The cut separates the source from the sink by edges with listed tokens only, is the
\* cheapest of all that do, and of those the one with the smallest source side
\* (mincut.rs, solve).
MinimumCut ==
    (phase = "planned" /\ weight # <<>>) =>
        /\ cut \subseteq CuttableEdges /\ Separates(cut)
        /\ \A side \in Sides :
            LET cost == Total(Crossing(side), weight)
            IN  /\ Total(cut, weight) <= cost
                /\ Total(cut, weight) = cost => SourceSide(weight) \subseteq side

\* The expected hits, of the plan as of a later question, are the occurrences of the
\* cover's tokens, each counted once however the runs of the cut's edges overlap, and
\* never more than all codes: the density is a fraction (ProbeCover::frequency, fraction).
ExpectedHitsAreExact ==
    phase \in {"planned", "asked"} =>
        /\ cover_frequency = Sets!MapThenSumSet(LAMBDA t : frequency(index, t), Cover)
        /\ cover_frequency \in 0 .. total_frequency(index)
        /\ counted # Uncounted =>
            cover_frequency = Cardinality({n \in DOMAIN counted : counted[n] \in Cover})

\* A hit is a code of the stream, and the row it is verified in holds it and ends
\* within the codes, even if the offsets decrease (scan/resolver.rs).
HitsAreInTheirRow ==
    /\ phase = "locate" => row + 1 < NumRows(view) /\ hit \in rowEnd .. Len(Codes) - 1
    /\ phase = "verify" =>
        hit \in view.rowOffsets[row + 1] .. rowEnd - 1 /\ rowEnd <= Len(Codes)

Decoded(codes) == Seqs!FlattenSeq([n \in 1 .. Len(codes) |-> vocab[codes[n] + 1]])

\* The row is one that the encoder produced.
Encoded(codes) ==
    /\ \A n \in 1 .. Len(codes) : codes[n] \in Ids(vocab)
    /\ codes = Greedy(vocab, Decoded(codes))

ContainsPattern(s) == \E at \in 0 .. Len(s) : StartsAt(s, at, pattern)

NonDecreasing(offsets) == \A n \in 1 .. Len(offsets) - 1 : offsets[n] <= offsets[n + 1]

\* Of the rows that the encoder produced, the scan returns exactly those that contain
\* the pattern, each once and in order, whichever cut was chosen and whatever codes
\* precede, follow or separate them.
ScanIsExact ==
    (phase = "done" /\ Conforms(vocab) /\ NonDecreasing(view.rowOffsets)) =>
        /\ \A n \in 1 .. Len(out) - 1 : out[n] < out[n + 1]
        /\ \A n \in 0 .. NumRows(view) - 1 : Encoded(RowCodes(view, n)) =>
            ((\E m \in 1 .. Len(out) : out[m] = n) <=> ContainsPattern(Decoded(RowCodes(view, n))))
=============================================================================
