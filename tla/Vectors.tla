------------------------------ MODULE Vectors ------------------------------
(***************************************************************************)
(* What the membership kernels of all instruction sets share               *)
(* (src/src/search/substring/probe/scan/matcher/mod.rs), and the vector    *)
(* instructions that those of x86 use.  A register is a function of its    *)
(* lane numbers: codes are 16-bit lanes, a comparison gives a Boolean per  *)
(* lane, an entry of a nibble table is the set of its bits.  A u64 mask    *)
(* word is the set of its bits.                                            *)
(***************************************************************************)
EXTENDS Naturals, Sequences

PerBatch == 8
Width == 65536      \* values of a u16 lane

SmallerOf(m, n) == IF m <= n THEN m ELSE n

DivCeil(m, n) == (m + n - 1) \div n

Nibble(code, shift) == (code \div 16 ^ shift) % 16

\* Point k of the batch sets bit k in the entry that its nibble selects.
nibble_rows(points, at) ==
    LET from == SmallerOf(at * PerBatch, Len(points))
        to == SmallerOf(from + PerBatch, Len(points))
    IN  [shift \in 0 .. 3 |-> [nibble \in 0 .. 15 |->
            {k \in 0 .. to - from - 1 : Nibble(points[from + k + 1], shift) = nibble}]]

-----------------------------------------------------------------------------
\* The same value in all n lanes.
set1(n, x) == [k \in 0 .. n - 1 |-> x]

WrappingSub(x, y) == (x + Width - y) % Width

\* A 16-byte row in every 128-bit lane of a register of n bytes.
RepeatRow(n, row) == [k \in 0 .. n - 1 |-> row[k % 16]]

(***************************************************************************)
(* x86: an instruction that packs two registers, or looks bytes up, works  *)
(* within the 128-bit lanes, of 8 codes or 16 bytes each.                  *)
(***************************************************************************)

\* Two registers of n lanes packed into one of 2n bytes.
packs(n, lo, hi) ==
    [k \in 0 .. 2 * n - 1 |->
        LET at == 8 * (k \div 16) + (k % 8) IN IF k % 16 < 8 THEN lo[at] ELSE hi[at]]

\* Saturating to a byte, where lanes from 2^15 on are negative.
packus(n, lo, hi) ==
    LET packed == packs(n, lo, hi)
    IN  [k \in DOMAIN packed |->
            IF packed[k] >= Width \div 2 THEN 0 ELSE SmallerOf(packed[k], 255)]

\* The 64-bit lanes in the given order.
permute(order, bytes) == [k \in DOMAIN bytes |-> bytes[8 * order[(k \div 8) + 1] + (k % 8)]]

\* Each 16-bit lane of a register of bytes shifted right by 4.
srli4(bytes) ==
    [k \in DOMAIN bytes |->
        (bytes[k] \div 16) + (IF k % 2 = 0 THEN 16 * (bytes[k + 1] % 16) ELSE 0)]

and0f(bytes) == [k \in DOMAIN bytes |-> bytes[k] % 16]

shuffle(table, bytes) ==
    [k \in DOMAIN bytes |->
        IF bytes[k] >= 128 THEN {} ELSE table[16 * (k \div 16) + (bytes[k] % 16)]]

(***************************************************************************)
(* NEON: the even, the odd lanes of two registers of n lanes, the sums of  *)
(* their neighbours, and a look-up of bytes.                               *)
(***************************************************************************)
vuzp1(n, lo, hi) == [k \in 0 .. n - 1 |-> IF 2 * k < n THEN lo[2 * k] ELSE hi[2 * k - n]]
vuzp2(n, lo, hi) ==
    [k \in 0 .. n - 1 |-> IF 2 * k < n THEN lo[2 * k + 1] ELSE hi[2 * k + 1 - n]]

vpadd(n, lo, hi) ==
    LET even == vuzp1(n, lo, hi)
        odd == vuzp2(n, lo, hi)
    IN  [k \in 0 .. n - 1 |-> (even[k] + odd[k]) % 256]

vqtbl1(table, bytes) == [k \in DOMAIN bytes |-> IF bytes[k] > 15 THEN {} ELSE table[bytes[k]]]
=============================================================================
