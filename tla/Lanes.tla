------------------------------- MODULE Lanes -------------------------------
(***************************************************************************)
(* Interleaved greedy parsing (src/src/encoding/lanes.rs).  The rows are   *)
(* taken in batches; the rows of a batch are dealt to NumLanes lanes by    *)
(* byte count, all lanes advance one code a round in a loop without        *)
(* data-dependent branches, and their buffers are joined in row order.     *)
(*                                                                         *)
(*   "batch"  parse_arrow_batched / parse_rows_batched is about to take a  *)
(*            batch;                                                       *)
(*   "lanes"  the rounds of parse_batch;                                   *)
(*   "join"   the lanes' codes and row ends are appended, lane by lane;    *)
(*   "done"   every row is encoded.                                        *)
(*                                                                         *)
(* An inactive lane keeps writing: to a spare slot of each of its buffers. *)
(***************************************************************************)
EXTENDS GreedyEncoding

CONSTANTS
    NumLanes,
    BatchBytes,
    Leads,          \* lengths of what precedes the first row in the caller's bytes
    OffsetLimit     \* offsets are stored modulo this: 2^32 or 2^64

ASSUME LanesAssumption ==
    /\ NumLanes \in Nat \ {0}
    /\ BatchBytes \in Nat
    /\ Leads \subseteq Nat
    /\ OffsetLimit \in Nat \ {0}

\* The caller's offsets are wide enough to address the codes (parser.rs, parse_rows_into),
\* as those of an Arrow array are, having addressed the bytes.
ASSUME OffsetsFit ==
    \A v \in Vocabularies, r \in Corpora : Len(CodesOf(v, r, Len(r))) < OffsetLimit

LaneIds == 0 .. NumLanes - 1

VARIABLES
    copies,         \* parse_rows, which copies each batch, rather than parse_arrow
    lead,           \* the first offset of the Arrow pair: it may be a slice
    mode,
    start, end,     \* the rows of the batch, end excluded
    lane,           \* the lane being joined
    bounds,         \* lane j has the rows bounds[j] up to bounds[j + 1] of the batch
    at, rowEnd, row, count,     \* of each lane
    laneCodes, laneRowEnds      \* its buffers

input == <<vocab, rows, copies, lead>>
cursor == <<at, rowEnd, row, count, laneCodes, laneRowEnds>>
vars == <<input, codes, rowOffsets, mode, start, end, lane, bounds, cursor>>

Least(m, n) == IF m < n THEN m ELSE n

\* The bytes that parse_batch sees: the caller's, or a padded copy of the batch.
Data ==
    IF copies THEN Flat(SubSeq(rows, start + 1, end)) \o [k \in 1 .. MaxTokenSize |-> 0]
    ELSE [k \in 1 .. lead |-> 0] \o Flat(rows)

\* The offset in them of row i of the batch that starts at row start.
Offset(i) ==
    IF copies THEN ByteCount(rows, start + i) - ByteCount(rows, start)
    ELSE lead + ByteCount(rows, start + i)

\* The bytes in the first k rows of the batch.
Size(k) == ByteCount(rows, start + k) - ByteCount(rows, start)

Init ==
    /\ GreedyInit
    /\ copies \in BOOLEAN /\ lead \in Leads
    /\ copies => lead = 0
    /\ mode = "batch" /\ start = 0 /\ end = 0 /\ lane = 0
    /\ bounds = [j \in 0 .. NumLanes |-> 0]
    /\ at = [j \in LaneIds |-> 0] /\ rowEnd = at /\ row = at /\ count = at
    /\ laneCodes = [j \in LaneIds |-> <<>>] /\ laneRowEnds = laneCodes

\* The rows of the next batch: whole rows up to BatchBytes (parse_arrow), or
\* rows until BatchBytes is reached (parse_rows), but one at least.
BatchRows ==
    CHOOSE n \in 1 .. Len(rows) - start :
        IF copies
        THEN /\ \A k \in 1 .. n - 1 : Size(k) < BatchBytes
             /\ start + n < Len(rows) => Size(n) >= BatchBytes
        ELSE /\ n > 1 => Size(n) <= BatchBytes
             /\ start + n < Len(rows) => Size(n + 1) > BatchBytes

\* The rows at which the lanes of a batch of n rows start and end, dealt so that
\* their bytes are about equal: partition_point over the n + 1 offsets.
LaneBounds(n) ==
    [j \in 0 .. NumLanes |->
        IF j = 0 THEN 0
        ELSE IF j = NumLanes THEN n
        ELSE Least(n, Cardinality({k \in 0 .. n : Size(k) < (Size(n) * j) \div NumLanes}))]

\* One code per byte at most, and a slot for the discarded writes.
CodeSlots(bytes) == bytes + 1

StartBatch ==
    /\ mode = "batch"
    /\ start < Len(rows)
    /\ LET n == BatchRows
           b == LaneBounds(n)
       IN  /\ end' = start + n
           /\ bounds' = b
           /\ row' = [j \in LaneIds |-> b[j]]
           /\ at' = [j \in LaneIds |-> Offset(b[j])]
           /\ rowEnd' = [j \in LaneIds |->
                            IF b[j] < b[j + 1] THEN Offset(b[j] + 1) ELSE Offset(b[j])]
           /\ laneCodes' = [j \in LaneIds |->
                                [k \in 1 .. CodeSlots(Size(b[j + 1]) - Size(b[j])) |-> 0]]
           /\ laneRowEnds' = [j \in LaneIds |-> [k \in 1 .. b[j + 1] - b[j] + 1 |-> 0]]
    /\ count' = [j \in LaneIds |-> 0]
    /\ mode' = "lanes"
    /\ UNCHANGED <<input, codes, rowOffsets, start, lane>>

\* What find_all may match for lane j: the rest of its row, and one byte, of no
\* consequence, for an inactive lane.
\* Mutant: the window is not cut at the end of the row.
WindowLen_PastRow(j) == MaxTokenSize

WindowLen(j) ==
    IF rowEnd[j] = at[j] THEN 1 ELSE Least(rowEnd[j] - at[j], MaxTokenSize)
Window(j) ==
    [k \in 1 .. WindowLen(j) |->
        IF at[j] + k <= Len(Data) THEN Data[at[j] + k] ELSE 0]
Found(j) == CodeAt(vocab, Window(j), 0)

Active(j) == rowEnd[j] > at[j]
Running(j) == row[j] < bounds[j + 1]

NextAt(j) == IF Active(j) THEN at[j] + Len(vocab[Found(j) + 1]) ELSE at[j]

\* Mutant: the discarded code of an inactive lane is counted.
NextCount_Always(j) == count[j] + 1

NextCount(j) == IF Active(j) THEN count[j] + 1 ELSE count[j]

\* The row is done: its bytes are used up.
\* Mutant: a row without bytes is never done.
RowDone_NotEmpty(j) == Active(j) /\ NextAt(j) = rowEnd[j] /\ Running(j)

RowDone(j) == NextAt(j) = rowEnd[j] /\ Running(j)

\* After its last row a lane keeps rowEnd = at, so that it stays inactive.
NextRowEnd(j) ==
    IF RowDone(j)
    THEN IF row[j] + 1 < bounds[j + 1] THEN Offset(row[j] + 2) ELSE NextAt(j)
    ELSE rowEnd[j]

Round ==
    /\ mode = "lanes"
    /\ laneCodes' = [j \in LaneIds |-> [laneCodes[j] EXCEPT ![count[j] + 1] = Found(j)]]
    /\ count' = [j \in LaneIds |-> NextCount(j)]
    /\ at' = [j \in LaneIds |-> NextAt(j)]
    /\ laneRowEnds' = [j \in LaneIds |->
            [laneRowEnds[j] EXCEPT ![row[j] - bounds[j] + 1] = NextCount(j)]]
    /\ row' = [j \in LaneIds |-> IF RowDone(j) THEN row[j] + 1 ELSE row[j]]
    /\ rowEnd' = [j \in LaneIds |-> NextRowEnd(j)]
    /\ mode' = IF \E j \in LaneIds : Running(j) THEN "lanes" ELSE "join"
    /\ UNCHANGED <<input, codes, rowOffsets, start, end, lane, bounds>>

FromUsize(n) == n % OffsetLimit

\* Mutant: the row ends stay relative to the lane.
JoinedOffset_NoBase(rowEndInLane) == FromUsize(rowEndInLane)

JoinedOffset(rowEndInLane) == FromUsize(Len(codes) + rowEndInLane)

JoinLane ==
    /\ mode = "join"
    /\ codes' = codes \o SubSeq(laneCodes[lane], 1, count[lane])
    /\ rowOffsets' = rowOffsets \o
            [k \in 1 .. bounds[lane + 1] - bounds[lane] |->
                JoinedOffset(laneRowEnds[lane][k])]
    /\ IF lane + 1 < NumLanes
       THEN lane' = lane + 1 /\ UNCHANGED <<mode, start>>
       ELSE lane' = 0 /\ mode' = "batch" /\ start' = end
    /\ UNCHANGED <<input, end, bounds, cursor>>

Finish ==
    /\ mode = "batch"
    /\ start = Len(rows)
    /\ mode' = "done"
    /\ UNCHANGED <<input, codes, rowOffsets, start, end, lane, bounds, cursor>>

Next == StartBatch \/ Round \/ JoinLane \/ Finish

Spec == Init /\ [][Next]_vars

\* Parsing is one sequential call.
FairSpec == Spec /\ WF_vars(Next)

-----------------------------------------------------------------------------
(***************************************************************************)
(* Properties.                                                             *)
(***************************************************************************)

\* Every variable of the parser has its type.
TypeOK ==
    /\ vocab \in Vocabularies /\ rows \in Corpora /\ copies \in BOOLEAN /\ lead \in Nat
    /\ codes \in Seq(Ids(vocab)) /\ rowOffsets \in Seq(0 .. OffsetLimit - 1)
    /\ mode \in {"batch", "lanes", "join", "done"}
    /\ start \in 0 .. Len(rows) /\ end \in 0 .. Len(rows) /\ lane \in LaneIds
    /\ bounds \in [0 .. NumLanes -> 0 .. Len(rows)]
    /\ at \in [LaneIds -> Nat] /\ rowEnd \in [LaneIds -> Nat]
    /\ row \in [LaneIds -> 0 .. Len(rows)] /\ count \in [LaneIds -> Nat]
    /\ laneCodes \in [LaneIds -> Seq(Ids(vocab))]
    /\ laneRowEnds \in [LaneIds -> Seq(Nat)]

\* Every lane, inactive ones included, has a slot for its next write in both of
\* its buffers (lanes.rs, "one slot for the discarded write of an inactive lane").
BuffersSuffice ==
    /\ TypeOK
    /\ mode = "lanes" => \A j \in LaneIds :
        /\ count[j] + 1 \in DOMAIN laneCodes[j]
        /\ row[j] - bounds[j] + 1 \in DOMAIN laneRowEnds[j]

\* A code never reaches into the next row, and a lane that ran out of rows stays
\* at the end of its last one, however long the other lanes keep running, with room
\* for what it writes and discards.
LanesKeepToTheirRows ==
    /\ BuffersSuffice
    /\ mode = "lanes" => \A j \in LaneIds :
        /\ at[j] <= rowEnd[j]
        /\ IF Running(j)
           THEN Offset(row[j]) <= at[j] /\ rowEnd[j] = Offset(row[j] + 1)
           ELSE at[j] = rowEnd[j] /\ at[j] = Offset(bounds[j + 1])

\* What a lane's buffers hold for the rows it has finished is final: their greedy
\* codes, and where each row's codes end, whatever was written and discarded since.
FinishedRowsAreFinal ==
    mode \in {"lanes", "join"} => \A j \in LaneIds :
        \A n \in 0 .. row[j] - bounds[j] :
            LET mine == CodesOf(vocab, SubSeq(rows, start + bounds[j] + 1, Len(rows)), n)
            IN  /\ Len(mine) <= count[j]
                /\ SubSeq(laneCodes[j], 1, Len(mine)) = mine
                /\ n > 0 => laneRowEnds[j][n] = Len(mine)

\* Lanes implement GreedyEncoding: whole rows, in order, each as its greedy codes,
\* with offsets that no width of the caller's offsets truncates.
ImplementsGreedy == GreedySpec

\* Parsing ends, having delivered every row.
Terminates == <>(mode = "done" /\ Len(rowOffsets) = Len(rows) + 1)
=============================================================================
