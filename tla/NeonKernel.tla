----------------------------- MODULE NeonKernel -----------------------------
(***************************************************************************)
(* The NEON kernels (src/src/search/substring/probe/scan/matcher/neon.rs): *)
(* 64 codes fill eight registers of 8 lanes, their hits four of 16 bytes.  *)
(***************************************************************************)
EXTENDS Vectors

load(codes, from) == [i \in 0 .. 7 |-> [k \in 0 .. 7 |-> codes[from + 8 * i + k]]]

or(hit, with) == [at \in 0 .. 3 |-> [k \in 0 .. 15 |-> hit[at][k] \/ with[at][k]]]

any(a, b) == \E at \in 0 .. 3, k \in 0 .. 15 : a[at][k] \/ b[at][k]

\* The bytes of comparison lanes, which are equal.
HitBytes(v) == [k \in 0 .. 15 |-> v[k \div 2]]

narrow(hit) ==
    [at \in 0 .. 3 |-> vuzp1(16, HitBytes(hit[2 * at]), HitBytes(hit[2 * at + 1]))]

\* Lane bits, halved by three rounds of sums: 128 hits end in 16 bytes.
movemask(a, b) ==
    LET bits(v) == [k \in 0 .. 15 |-> IF v[k] THEN 2 ^ (k % 8) ELSE 0]
        half(hit) == vpadd(16, vpadd(16, bits(hit[0]), bits(hit[1])),
                               vpadd(16, bits(hit[2]), bits(hit[3])))
        lanes == vpadd(16, half(a), half(b))
    IN  [w \in 0 .. 1 |->
            {k \in 0 .. 63 : (lanes[8 * w + (k \div 8)] \div 2 ^ (k % 8)) % 2 = 1}]

words(hits, bits, skip) ==
    LET pairs == {w \div 2 : w \in DOMAIN bits}
        empty == {p \in pairs : skip /\ ~any(hits[2 * p], hits[2 * p + 1])}
        packed == [p \in pairs \ empty |-> movemask(hits[2 * p], hits[2 * p + 1])]
    IN  [bits |-> [w \in DOMAIN bits |->
                    IF w \div 2 \in empty THEN {} ELSE packed[w \div 2][w % 2]],
         written |-> empty # pairs]

hold(range) == <<set1(8, range.begin), set1(8, range.last - range.begin)>>

inside(held, codes) ==
    narrow([i \in 0 .. 7 |-> [k \in 0 .. 7 |->
        WrappingSub(codes[i][k], held[1][k]) <= held[2][k]]])

check_ranges(hit, held, codes) ==
    or(hit, [at \in 0 .. 3 |-> [k \in 0 .. 15 |->
                \E r \in DOMAIN held : inside(held[r], codes)[at][k]]])

ranges_mask(held, codes, bits, skip) ==
    IF held = <<>> THEN [bits |-> [w \in DOMAIN bits |-> {}], written |-> FALSE]
    ELSE words([g \in DOMAIN bits |->
                  LET group == load(codes, 64 * g)
                  IN  check_ranges(inside(Head(held), group), Tail(held), group)], bits, skip)

broadcast(code) == set1(8, code)

eq_or_hits(points, codes) ==
    narrow([i \in 0 .. 7 |-> [k \in 0 .. 7 |->
        \E p \in DOMAIN points : codes[i][k] = points[p][k]]])

EqOr_new(cover) ==
    [points |-> [p \in DOMAIN cover.points |-> broadcast(cover.points[p])],
     ranges |-> [r \in DOMAIN cover.ranges |-> hold(cover.ranges[r])]]

eq_or_mask(points, ranges, codes, bits, skip) ==
    IF points = <<>> THEN ranges_mask(ranges, codes, bits, skip)
    ELSE words([g \in DOMAIN bits |->
                  LET group == load(codes, 64 * g)
                  IN  check_ranges(eq_or_hits(points, group), ranges, group)], bits, skip)

EqOr_check(matcher, codes, bits, skip) ==
    eq_or_mask(matcher.points, matcher.ranges, codes, bits, skip)

batch(points, at) == [shift \in 0 .. 3 |-> RepeatRow(16, nibble_rows(points, at)[shift])]

\* The bytes of 16-bit lanes, the low one first.
CodeBytes(v) == [k \in 0 .. 15 |-> IF k % 2 = 0 THEN v[k \div 2] % 256 ELSE v[k \div 2] \div 256]

nibble_hits(batches, codes) ==
    [at \in 0 .. 3 |->
        LET lo == CodeBytes(codes[2 * at])
            hi == CodeBytes(codes[2 * at + 1])
            low_byte == vuzp1(16, lo, hi)
            high_byte == vuzp2(16, lo, hi)
            shr4(bytes) == [k \in 0 .. 15 |-> bytes[k] \div 16]
            nibbles == <<and0f(low_byte), shr4(low_byte), and0f(high_byte), shr4(high_byte)>>
            found == [b \in DOMAIN batches |->
                        [n \in 0 .. 3 |-> vqtbl1(batches[b][n], nibbles[n + 1])]]
        IN  [k \in 0 .. 15 |-> \E b \in DOMAIN batches :
                found[b][0][k] \cap found[b][1][k] \cap found[b][2][k] \cap found[b][3][k] # {}]]

Nibble_new(cover, batches) ==
    [points |-> [at \in 1 .. batches |-> batch(cover.points, at - 1)],
     ranges |-> [r \in DOMAIN cover.ranges |-> hold(cover.ranges[r])]]

nibble_mask(batches, ranges, codes, bits, skip) ==
    words([g \in DOMAIN bits |->
             LET group == load(codes, 64 * g)
             IN  check_ranges(nibble_hits(batches, group), ranges, group)], bits, skip)

Nibble_check(matcher, codes, bits, skip) ==
    nibble_mask(matcher.points, matcher.ranges, codes, bits, skip)
=============================================================================
