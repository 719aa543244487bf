---------------------------- MODULE MatcherCosts ----------------------------
(***************************************************************************)
(* Which membership matcher is planned for a cover                         *)
(* (src/src/search/substring/probe/plan/cost.rs), and which instruction    *)
(* set it runs on (scan/dispatch.rs).  Costs are in thousandths of a table *)
(* scan.                                                                   *)
(***************************************************************************)
EXTENDS Vectors

MaxNibbleBatches == 4

NoModel == [point |-> 0, range |-> 0, nibble_base |-> 0, nibble_batch |-> 0]

of(isa) ==
    CASE isa = "Neon" -> [point |-> 92, range |-> 138, nibble_base |-> 92, nibble_batch |-> 230]
      [] isa = "Avx2" -> [point |-> 28, range |-> 56, nibble_base |-> 140, nibble_batch |-> 56]
      [] isa = "Avx512Bw" -> [point |-> 28, range |-> 56, nibble_base |-> 93, nibble_batch |-> 33]
      [] OTHER -> NoModel

Batches(cover) == DivCeil(Len(cover.points), PerBatch)

\* Mutant: the cap on the batches is not looked at.
can_run_Uncapped(kind, cover) ==
    CASE kind = "Table" -> TRUE
      [] kind = "EqOr" -> cover.points # <<>> \/ cover.ranges # <<>>
      [] kind = "Nibble" -> cover.points # <<>>

can_run(kind, cover) ==
    CASE kind = "Table" -> TRUE
      [] kind = "EqOr" -> cover.points # <<>> \/ cover.ranges # <<>>
      [] kind = "Nibble" -> Batches(cover) \in 1 .. MaxNibbleBatches

\* Of scanning one code.
matcher_cost(model, kind, cover) ==
    LET ranges == model.range * Len(cover.ranges)
    IN  CASE kind = "Table" -> 1000
          [] kind = "EqOr" -> model.point * Len(cover.points) + ranges
          [] kind = "Nibble" -> model.nibble_base + model.nibble_batch * Batches(cover) + ranges

\* The table, then EqOr, on ties.  Without a model only the table runs.
cheapest(isa, cover) ==
    LET cost(kind) == matcher_cost(of(isa), kind, cover)
        first == IF can_run("EqOr", cover) /\ cost("EqOr") < cost("Table") THEN "EqOr" ELSE "Table"
    IN  IF isa = "Scalar" THEN "Table"
        ELSE IF can_run("Nibble", cover) /\ cost("Nibble") < cost(first) THEN "Nibble" ELSE first

\* Mutant: AVX-512 borrows AVX2's EqOr without asking for AVX2.
supports_NoBorrow(cpu, isa) ==
    CASE isa = "Scalar" -> TRUE
      [] isa = "Neon" -> cpu.arch = "aarch64" /\ "neon" \in cpu.features
      [] isa = "Avx2" -> cpu.arch = "x86_64" /\ "avx2" \in cpu.features
      [] isa = "Avx512Bw" -> cpu.arch = "x86_64" /\ {"avx512f", "avx512bw"} \subseteq cpu.features

supports(cpu, isa) ==
    CASE isa = "Scalar" -> TRUE
      [] isa = "Neon" -> cpu.arch = "aarch64" /\ "neon" \in cpu.features
      [] isa = "Avx2" -> cpu.arch = "x86_64" /\ "avx2" \in cpu.features
      [] isa = "Avx512Bw" ->
            cpu.arch = "x86_64" /\ {"avx2", "avx512f", "avx512bw"} \subseteq cpu.features

detect_isa(cpu) ==
    CASE supports(cpu, "Avx512Bw") -> "Avx512Bw"
      [] supports(cpu, "Avx2") /\ ~supports(cpu, "Avx512Bw") -> "Avx2"
      [] supports(cpu, "Neon") -> "Neon"
      [] OTHER -> "Scalar"

\* The fraction of codes that are hits is below 0.025%, or less than one hit is
\* expected.
skip_empty_packing(hits, total, codes) == hits * 4000 < total \/ hits * codes < total
=============================================================================
