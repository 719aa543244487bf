----------------------------- MODULE Avx2Kernel -----------------------------
(***************************************************************************)
(* The AVX2 kernels (src/src/search/substring/probe/scan/matcher/avx2.rs): *)
(* 64 codes fill four registers of 16 lanes, their hits two of 32 bytes.   *)
(***************************************************************************)
EXTENDS Vectors

load(codes, from) == [i \in 0 .. 3 |-> [k \in 0 .. 15 |-> codes[from + 16 * i + k]]]

or(hit, with) == [at \in 0 .. 1 |-> [k \in 0 .. 31 |-> hit[at][k] \/ with[at][k]]]

any(a, b) == LET both == or(a, b) IN \E at \in 0 .. 1, k \in 0 .. 31 : both[at][k]

\* 0xD8.
Order == <<0, 2, 1, 3>>

\* One byte for each comparison lane, in the order of the codes.
narrow(hit) == [at \in 0 .. 1 |-> permute(Order, packs(16, hit[2 * at], hit[2 * at + 1]))]

movemask(a, b) ==
    LET word(hit) == {k \in 0 .. 63 : hit[k \div 32][k % 32]}
    IN  [w \in 0 .. 1 |-> IF w = 0 THEN word(a) ELSE word(b)]

\* Mutant: the words of a pair without hits keep the bits of the block before.
words_Stale(hits, bits, skip) ==
    LET pairs == {w \div 2 : w \in DOMAIN bits}
        empty == {p \in pairs : skip /\ ~any(hits[2 * p], hits[2 * p + 1])}
        packed == [p \in pairs \ empty |-> movemask(hits[2 * p], hits[2 * p + 1])]
    IN  [bits |-> [w \in DOMAIN bits |->
                    IF w \div 2 \in empty THEN bits[w] ELSE packed[w \div 2][w % 2]],
         written |-> empty # pairs]

\* The hits of every group of 64 codes, in pairs; those without any need no packing.
words(hits, bits, skip) ==
    LET pairs == {w \div 2 : w \in DOMAIN bits}
        empty == {p \in pairs : skip /\ ~any(hits[2 * p], hits[2 * p + 1])}
        packed == [p \in pairs \ empty |-> movemask(hits[2 * p], hits[2 * p + 1])]
    IN  [bits |-> [w \in DOMAIN bits |->
                    IF w \div 2 \in empty THEN {} ELSE packed[w \div 2][w % 2]],
         written |-> empty # pairs]

hold(range) == <<set1(16, range.begin), set1(16, range.last - range.begin)>>

\* There is no unsigned comparison: x <= width iff the smaller one is x.
inside(held, codes) ==
    narrow([i \in 0 .. 3 |-> [k \in 0 .. 15 |->
        LET x == WrappingSub(codes[i][k], held[1][k]) IN SmallerOf(x, held[2][k]) = x]])

check_ranges(hit, held, codes) ==
    or(hit, [at \in 0 .. 1 |-> [k \in 0 .. 31 |->
                \E r \in DOMAIN held : inside(held[r], codes)[at][k]]])

ranges_mask(held, codes, bits, skip) ==
    IF held = <<>> THEN [bits |-> [w \in DOMAIN bits |-> {}], written |-> FALSE]
    ELSE words([g \in DOMAIN bits |->
                  LET group == load(codes, 64 * g)
                  IN  check_ranges(inside(Head(held), group), Tail(held), group)], bits, skip)

broadcast(code) == set1(16, code)

eq_or_hits(points, codes) ==
    narrow([i \in 0 .. 3 |-> [k \in 0 .. 15 |->
        \E p \in DOMAIN points : codes[i][k] = points[p][k]]])

EqOr_new(cover) ==
    [points |-> [p \in DOMAIN cover.points |-> broadcast(cover.points[p])],
     ranges |-> [r \in DOMAIN cover.ranges |-> hold(cover.ranges[r])]]

eq_or_mask(points, ranges, codes, bits, skip) ==
    IF points = <<>> THEN ranges_mask(ranges, codes, bits, skip)
    ELSE words([g \in DOMAIN bits |->
                  LET group == load(codes, 64 * g)
                  IN  check_ranges(eq_or_hits(points, group), ranges, group)], bits, skip)

EqOr_check(matcher, codes, bits, skip) ==
    eq_or_mask(matcher.points, matcher.ranges, codes, bits, skip)

batch(points, at) == [shift \in 0 .. 3 |-> RepeatRow(32, nibble_rows(points, at)[shift])]

\* Low and high bytes of 32 codes at a time, two nibbles of each, and the points that
\* all four nibbles select.
nibble_hits(batches, codes) ==
    [at \in 0 .. 1 |->
        LET lo == codes[2 * at]
            hi == codes[2 * at + 1]
            Low(v) == [k \in 0 .. 15 |-> v[k] % 256]
            High(v) == [k \in 0 .. 15 |-> v[k] \div 256]
            low_byte == permute(Order, packus(16, Low(lo), Low(hi)))
            high_byte == permute(Order, packus(16, High(lo), High(hi)))
            nibbles == <<and0f(low_byte), and0f(srli4(low_byte)),
                         and0f(high_byte), and0f(srli4(high_byte))>>
            found == [b \in DOMAIN batches |->
                        [n \in 0 .. 3 |-> shuffle(batches[b][n], nibbles[n + 1])]]
        IN  [k \in 0 .. 31 |-> \E b \in DOMAIN batches :
                found[b][0][k] \cap found[b][1][k] \cap found[b][2][k] \cap found[b][3][k] # {}]]

Nibble_new(cover, batches) ==
    [points |-> [at \in 1 .. batches |-> batch(cover.points, at - 1)],
     ranges |-> [r \in DOMAIN cover.ranges |-> hold(cover.ranges[r])]]

nibble_mask(batches, ranges, codes, bits, skip) ==
    words([g \in DOMAIN bits |->
             LET group == load(codes, 64 * g)
             IN  check_ranges(nibble_hits(batches, group), ranges, group)], bits, skip)

Nibble_check(matcher, codes, bits, skip) ==
    nibble_mask(matcher.points, matcher.ranges, codes, bits, skip)
=============================================================================
