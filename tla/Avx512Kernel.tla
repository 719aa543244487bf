---------------------------- MODULE Avx512Kernel ----------------------------
(***************************************************************************)
(* The AVX-512BW kernel                                                    *)
(* (src/src/search/substring/probe/scan/matcher/avx512.rs): 64 codes fill  *)
(* two registers of 32 lanes, and a comparison gives a word of mask bits.  *)
(***************************************************************************)
EXTENDS Vectors

load(codes, from) == [i \in 0 .. 1 |-> [k \in 0 .. 31 |-> codes[from + 32 * i + k]]]

or(hit, with) == hit \cup with

any(a, b) == or(a, b) # {}

join(lo, hi) == lo \cup {32 + k : k \in hi}

movemask(a, b) == [w \in 0 .. 1 |-> IF w = 0 THEN a ELSE b]

words(hits, bits, skip) ==
    LET pairs == {w \div 2 : w \in DOMAIN bits}
        empty == {p \in pairs : skip /\ ~any(hits[2 * p], hits[2 * p + 1])}
    IN  [bits |-> [w \in DOMAIN bits |->
                    IF w \div 2 \in empty THEN {}
                    ELSE movemask(hits[w - (w % 2)], hits[w - (w % 2) + 1])[w % 2]],
         written |-> empty # pairs]

hold(range) == <<set1(32, range.begin), set1(32, range.last - range.begin)>>

inside(held, codes) ==
    LET mask(v) == {k \in 0 .. 31 : WrappingSub(v[k], held[1][k]) <= held[2][k]}
    IN  join(mask(codes[0]), mask(codes[1]))

check_ranges(hit, held, codes) ==
    or(hit, UNION {inside(held[r], codes) : r \in DOMAIN held})

batch(points, at) == [shift \in 0 .. 3 |-> RepeatRow(64, nibble_rows(points, at)[shift])]

\* Packing interleaves four lanes of each register.
Order == <<0, 2, 4, 6, 1, 3, 5, 7>>

nibble_hits(batches, codes) ==
    LET Low(v) == [k \in 0 .. 31 |-> v[k] % 256]
        High(v) == [k \in 0 .. 31 |-> v[k] \div 256]
        low_byte == permute(Order, packus(32, Low(codes[0]), Low(codes[1])))
        high_byte == permute(Order, packus(32, High(codes[0]), High(codes[1])))
        nibbles == <<and0f(low_byte), and0f(srli4(low_byte)),
                     and0f(high_byte), and0f(srli4(high_byte))>>
        found == [b \in DOMAIN batches |->
                    [n \in 0 .. 3 |-> shuffle(batches[b][n], nibbles[n + 1])]]
    IN  {k \in 0 .. 63 : \E b \in DOMAIN batches :
            found[b][0][k] \cap found[b][1][k] \cap found[b][2][k] \cap found[b][3][k] # {}}

Nibble_new(cover, batches) ==
    [points |-> [at \in 1 .. batches |-> batch(cover.points, at - 1)],
     ranges |-> [r \in DOMAIN cover.ranges |-> hold(cover.ranges[r])]]

nibble_mask(batches, ranges, codes, bits, skip) ==
    words([g \in DOMAIN bits |->
             LET group == load(codes, 64 * g)
             IN  check_ranges(nibble_hits(batches, group), ranges, group)], bits, skip)

Nibble_check(matcher, codes, bits, skip) ==
    nibble_mask(matcher.points, matcher.ranges, codes, bits, skip)
=============================================================================
