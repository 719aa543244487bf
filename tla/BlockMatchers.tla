--------------------------- MODULE BlockMatchers ---------------------------
(***************************************************************************)
(* The search for a cover's codes in a stream                              *)
(* (src/src/search/substring/probe/scan): the matcher planned for the      *)
(* cover is prepared for the instruction set of the CPU and then run block *)
(* by block, always into the same mask.  What the mask says of a block     *)
(* goes to the resolver, which SubstringScan describes.                    *)
(*                                                                         *)
(*   "cover"     a cover is chosen;                                        *)
(*   "planned"   with its matcher;                                         *)
(*   "prepared"  the matcher is built, and does not change from here on;   *)
(*   "blocks"    scan::run, before a block;                                *)
(*   "panic"     dispatch cannot build what was planned.                   *)
(***************************************************************************)
EXTENDS MatcherCosts

CONSTANTS
    Cpus,           \* architectures and the features they detect
    Covers,         \* points and ranges, in ascending order
    Streams(_),     \* codes to search for a cover, and where the first row begins
    Densities,      \* expected fractions of hits: their numbers and the total
    BlockLen        \* BLOCK

Code == 0 .. Width - 1

ASSUME BlockAssumption ==
    /\ BlockLen \in Nat /\ BlockLen > 0 /\ BlockLen % 128 = 0
    /\ \A c \in Covers :
        /\ c.points \in Seq(Code)
        /\ c.ranges \in Seq({r \in [begin : Code, last : Code] : r.begin <= r.last})
        /\ \A s \in Streams(c) : s.codes \in Seq(Code) /\ s.first \in 0 .. Len(s.codes)

VARIABLES
    phase,
    cpu, cover,
    isa, kind,      \* the plan
    matcher,
    stream, at,     \* what is scanned, and where the block begins
    skip,           \* pairs of groups without hits are not packed
    bits,           \* the mask, of one word for 64 codes
    hits            \* what the resolver got

plan == <<cpu, cover, isa, kind>>
scan == <<stream, at, skip, bits, hits>>
matchers_vars == <<phase, plan, matcher, scan>>

Avx2 == INSTANCE Avx2Kernel
Avx512 == INSTANCE Avx512Kernel
Neon == INSTANCE NeonKernel

Words == 0 .. (BlockLen \div 64) - 1
NoBits == [w \in Words |-> {}]
NoStream == [codes |-> <<>>, first |-> 0]
NoMatcher == [kernel |-> "none", needs |-> {}, admits |-> {}]

Covered == {cover.points[p] : p \in DOMAIN cover.points}
           \cup UNION {cover.ranges[r].begin .. cover.ranges[r].last : r \in DOMAIN cover.ranges}

MatchersInit ==
    /\ phase = "cover"
    /\ cpu \in Cpus /\ cover \in Covers
    /\ isa = "Scalar" /\ kind = "Table"
    /\ matcher = NoMatcher
    /\ stream = NoStream /\ at = 0 /\ skip = FALSE /\ bits = NoBits /\ hits = {}

Plan ==
    /\ phase = "cover"
    /\ isa' = detect_isa(cpu)
    /\ kind' = cheapest(isa', cover)
    /\ phase' = "planned"
    /\ UNCHANGED <<cpu, cover, matcher, scan>>

\* A byte for each code in the code.
Table_new == [kernel |-> "Table", needs |-> {}, admits |-> Covered]

\* The kernel, the instructions it needs, and what it is prepared with.  AVX-512 has no
\* EqOr of its own.
Prepare ==
    /\ phase = "planned"
    /\ matcher' =
        CASE kind = "Table" -> Table_new
          [] kind = "EqOr" /\ isa = "Neon" ->
                [kernel |-> "Neon.EqOr", needs |-> {"neon"}, admits |-> Neon!EqOr_new(cover)]
          [] kind = "EqOr" /\ isa \in {"Avx2", "Avx512Bw"} ->
                [kernel |-> "Avx2.EqOr", needs |-> {"avx2"}, admits |-> Avx2!EqOr_new(cover)]
          [] kind = "Nibble" /\ isa = "Neon" ->
                [kernel |-> "Neon.Nibble", needs |-> {"neon"},
                 admits |-> Neon!Nibble_new(cover, Batches(cover))]
          [] kind = "Nibble" /\ isa = "Avx2" ->
                [kernel |-> "Avx2.Nibble", needs |-> {"avx2"},
                 admits |-> Avx2!Nibble_new(cover, Batches(cover))]
          [] kind = "Nibble" /\ isa = "Avx512Bw" ->
                [kernel |-> "Avx512.Nibble", needs |-> {"avx512f", "avx512bw"},
                 admits |-> Avx512!Nibble_new(cover, Batches(cover))]
    /\ phase' = IF \/ isa # "Scalar" /\ ~supports(cpu, isa)
                   \/ kind = "Nibble" /\ Batches(cover) \notin 1 .. MaxNibbleBatches
                THEN "panic" ELSE "prepared"
    /\ UNCHANGED <<plan, scan>>

Codes == stream.codes

\* Every scan has a mask of its own, and finds the codes of the first row on.
StartScan ==
    /\ phase = "prepared"
    /\ stream' \in Streams(cover)
    /\ at' = stream'.first
    /\ \E d \in Densities :
        skip' = skip_empty_packing(d[1], d[2], Len(stream'.codes) - stream'.first)
    /\ bits' = NoBits /\ hits' = {}
    /\ phase' = "blocks"
    /\ UNCHANGED <<plan, matcher>>

\* The last partial block is padded with zeros.
Block ==
    [n \in 0 .. BlockLen - 1 |-> IF at + n < Len(Codes) THEN Codes[at + n + 1] ELSE 0]

Valid == SmallerOf(BlockLen, Len(Codes) - at)

Table_check(admits, codes) ==
    LET word == [w \in Words |-> {k \in 0 .. 63 : codes[64 * w + k] \in admits}]
    IN  [bits |-> word, written |-> \E w \in Words : word[w] # {}]

\* Matcher::check, through the vtable.
check(codes) ==
    LET m == matcher.admits
    IN  CASE matcher.kernel = "Table" -> Table_check(m, codes)
          [] matcher.kernel = "Neon.EqOr" -> Neon!EqOr_check(m, codes, bits, skip)
          [] matcher.kernel = "Avx2.EqOr" -> Avx2!EqOr_check(m, codes, bits, skip)
          [] matcher.kernel = "Neon.Nibble" -> Neon!Nibble_check(m, codes, bits, skip)
          [] matcher.kernel = "Avx2.Nibble" -> Avx2!Nibble_check(m, codes, bits, skip)
          [] matcher.kernel = "Avx512.Nibble" -> Avx512!Nibble_check(m, codes, bits, skip)

clear_from(mask, valid) == [w \in Words |-> {k \in mask[w] : 64 * w + k < valid}]

\* A mask of which the matcher says that it has no hits is not looked at, and whatever
\* it holds stays for the next block.
ScanBlock ==
    /\ phase = "blocks"
    /\ at < Len(Codes)
    /\ LET result == check(Block)
       IN  IF result.written
           THEN /\ bits' = clear_from(result.bits, Valid)
                /\ hits' = hits \cup UNION {{at + 64 * w + k : k \in bits'[w]} : w \in Words}
           ELSE bits' = result.bits /\ UNCHANGED hits
    /\ at' = at + BlockLen
    /\ UNCHANGED <<phase, plan, matcher, stream, skip>>

EndScan ==
    /\ phase = "blocks"
    /\ at >= Len(Codes)
    /\ phase' = "prepared"
    /\ stream' = NoStream /\ at' = 0 /\ skip' = FALSE /\ bits' = NoBits /\ hits' = {}
    /\ UNCHANGED <<plan, matcher>>

MatchersNext == Plan \/ Prepare \/ StartScan \/ ScanBlock \/ EndScan

MatchersSpec == MatchersInit /\ [][MatchersNext]_matchers_vars

-----------------------------------------------------------------------------
(***************************************************************************)
(* Properties.                                                             *)
(***************************************************************************)

\* Every variable has its type.
MatchersTypeOK ==
    /\ phase \in {"cover", "planned", "prepared", "blocks", "panic"}
    /\ isa \in {"Scalar", "Neon", "Avx2", "Avx512Bw"} /\ kind \in {"Table", "EqOr", "Nibble"}
    /\ at \in Nat /\ skip \in BOOLEAN
    /\ bits \in [Words -> SUBSET (0 .. 63)] /\ hits \subseteq Nat

\* On every CPU, with every matcher, and whether or not empty pairs are skipped, the
\* resolver gets exactly the positions of the cover's codes: none of a block before,
\* none of the padding, and none is lost where a matcher reports no hits.
HitsAreExact ==
    phase = "blocks" =>
        hits = {n \in stream.first .. SmallerOf(at, Len(Codes)) - 1 : Codes[n + 1] \in Covered}

\* What is planned can be built: dispatch reaches neither its assertion nor its
\* unreachable arm, and the kernel, even a borrowed one, only needs instructions that
\* the CPU has.
PlannedMatcherRuns ==
    /\ MatchersTypeOK
    /\ phase # "panic"
    /\ matcher.needs \subseteq cpu.features

\* The crossovers that the cost model promises (plan/cost.rs:14-22), without ranges: on
\* NEON EqOr beats the table up to 10 points, Nibble beats EqOr from 4 points and the
\* table up to 24, so that EqOr is chosen up to 3 points, Nibble up to 24 and the table
\* beyond; and on AVX-512 Nibble is chosen from 5 points up to the most that its batches
\* hold.  Of AVX2 the cost model promises no crossover.
Crossovers ==
    (phase = "planned" /\ cover.ranges = <<>>) =>
        LET points == Len(cover.points)
            beats(this, other) ==
                matcher_cost(of(isa), this, cover) < matcher_cost(of(isa), other, cover)
        IN  /\ isa = "Neon" =>
                /\ beats("EqOr", "Table") <=> points <= 10
                /\ beats("Nibble", "EqOr") <=> points >= 4
                /\ beats("Nibble", "Table") <=> points <= 24
            /\ isa = "Neon" => kind = CASE points \in 1 .. 3 -> "EqOr"
                                        [] points \in 4 .. 24 -> "Nibble"
                                        [] OTHER -> "Table"
            /\ isa = "Avx512Bw" => (kind = "Nibble" <=> points \in 5 .. MaxNibbleBatches * PerBatch)
=============================================================================
