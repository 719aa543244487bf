---------------------------- MODULE ByteStrings ----------------------------
(***************************************************************************)
(* The data every OnPair component works on: bytes, rows (byte sequences)  *)
(* and tokens (non-empty byte sequences of at most MaxTokenSize bytes),    *)
(* with the one notion the whole format rests on, the longest token of a   *)
(* dictionary that starts at a position of a row.                          *)
(*                                                                         *)
(* In the program there are 256 byte values and MAX_TOKEN_SIZE is 16; both *)
(* are parameters here.                                                    *)
(***************************************************************************)
EXTENDS Integers, Sequences, FiniteSets

CONSTANTS NumBytes, MaxTokenSize

ASSUME BytesAssumption ==
    /\ NumBytes \in Nat \ {0}
    /\ MaxTokenSize \in Nat \ {0}

Byte == 0 .. NumBytes - 1

ByteSeq == Seq(Byte)

Token == UNION {[1 .. n -> Byte] : n \in 1 .. MaxTokenSize}

\* The powers of two.
TwoTo[e \in Nat] == IF e = 0 THEN 1 ELSE 2 * TwoTo[e - 1]

\* The Rust slice s[from..to], whose bounds are zero-based and half open.
Slice(s, from, to) == [k \in 1 .. to - from |-> s[from + k]]

\* Token t occurs in s at the zero-based position at.
StartsAt(s, at, t) ==
    /\ at + Len(t) <= Len(s)
    /\ \A k \in 1 .. Len(t) : s[at + k] = t[k]

\* t is a longest member of T that occurs in s at position at.
IsLongestAt(T, s, at, t) ==
    /\ t \in T
    /\ StartsAt(s, at, t)
    /\ \A u \in T : StartsAt(s, at, u) => Len(u) <= Len(t)

LongestMatch(T, s, at) == CHOOSE t \in T : IsLongestAt(T, s, at, t)

\* The bytewise order of Rust's slice comparison, strict.
LexLess(a, b) ==
    \E k \in 1 .. Len(b) :
        /\ k <= Len(a) + 1
        /\ \A j \in 1 .. k - 1 : a[j] = b[j]
        /\ k > Len(a) \/ a[k] < b[k]

\* Byte sequences one after the other: the first n of them for each n, and all.
FlatTo(seqs) ==
    LET upTo[n \in 0 .. Len(seqs)] == IF n = 0 THEN <<>> ELSE upTo[n - 1] \o seqs[n]
    IN  upTo
Flat(seqs) == FlatTo(seqs)[Len(seqs)]

\* The zero-based offset at which every row starts, and the last one ends, when
\* the rows are laid out one after the other.
RowOffsets(rows) ==
    LET at[i \in 0 .. Len(rows)] == IF i = 0 THEN 0 ELSE at[i - 1] + Len(rows[i])
    IN  at

\* The bytes in the first n rows.
ByteCount(rows, n) == RowOffsets(rows)[n]

\* The tokens every dictionary contains: one per byte value.
SingleByteTokens == {<<b>> : b \in Byte}
=============================================================================
