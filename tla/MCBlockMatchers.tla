-------------------------- MODULE MCBlockMatchers --------------------------
(***************************************************************************)
(* BlockMatchers with blocks of two pairs of groups; covers whose numbers  *)
(* of points are around every crossover of the cost model and every number *)
(* of nibble batches, with and without ranges, at both ends of the codes;  *)
(* and streams of up to two blocks that hold every code of the cover and   *)
(* the codes that a kernel could take for one of them.                     *)
(***************************************************************************)
EXTENDS BlockMatchers

MCCpus ==
    {[arch |-> "x86_64", features |-> f] :
        f \in {{}, {"avx2"}, {"avx512f", "avx512bw"}, {"avx2", "avx512f", "avx512bw"}}}
    \cup {[arch |-> "aarch64", features |-> f] : f \in {{}, {"neon"}}}
    \cup {[arch |-> "riscv64", features |-> {}]}

\* Ascending, and alike in many of their nibbles.
Points(n) == [p \in 1 .. n |-> (p - 1) * 1808 + (p % 5) * 16 + (p % 3)]

Run(begin, last) == [begin |-> begin, last |-> last]

MCCovers ==
    {[points |-> Points(n), ranges |-> <<>>] :
        n \in {0, 1, 3, 4, 5, 7, 8, 9, 10, 11, 17, 24, 25, 32, 33, 36}}
    \cup {[points |-> <<>>, ranges |-> r] :
        r \in {<<Run(0, 300)>>, <<Run(255, 257), Run(4090, 4111), Run(65000, 65535)>>}}
    \cup {[points |-> <<18, 33, 4660, 13330>>, ranges |-> <<Run(40, 47)>>],
          [points |-> Points(10), ranges |-> <<Run(60000, 60001), Run(65534, 65535)>>]}

Bases(c) ==
    c.points \o [r \in DOMAIN c.ranges |-> c.ranges[r].begin]
             \o [r \in DOMAIN c.ranges |-> c.ranges[r].last] \o <<0, 32768>>

Offsets == <<0, 1, Width - 1, 0, 16, Width - 16, 256, 4096, Width - 256>>

\* The codes of a cover, and codes that differ from them in one of their nibbles.
Mixed(c, n) ==
    [k \in 1 .. n |->
        (Bases(c)[(k % Len(Bases(c))) + 1]
         + Offsets[(((5 * k) \div Len(Bases(c))) % Len(Offsets)) + 1]) % Width]

CoveredBy(c) == {c.points[p] : p \in DOMAIN c.points}
                \cup UNION {c.ranges[r].begin .. c.ranges[r].last : r \in DOMAIN c.ranges}

Filler(c) == CHOOSE x \in 0 .. 400 : x \notin CoveredBy(c)

\* A covered code, if there is one.
Member(c) == Bases(c)[1]

Sparse(c, n, places) == [k \in 1 .. n |-> IF k - 1 \in places THEN Member(c) ELSE Filler(c)]

\* Mixed ones; hits in the first block only; in the first pair of one and the last pair
\* of the next; none at all.
MCStreams(c) ==
    {[codes |-> Mixed(c, 256), first |-> 0], [codes |-> Mixed(c, 438), first |-> 3],
     [codes |-> Sparse(c, 300, {5, 200}), first |-> 0],
     [codes |-> Sparse(c, 500, {127, 256 + 190}), first |-> 0],
     [codes |-> Sparse(c, 130, {0}), first |-> 1]}

MCDensities == {<<0, 1>>, <<1, 200>>}
=============================================================================
