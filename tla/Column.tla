------------------------------- MODULE Column -------------------------------
(***************************************************************************)
(* Equality and prefix search over a column (src/src/column/mod.rs,        *)
(* search/equals.rs and search/prefix.rs): the needle is prepared once     *)
(* against the dictionary and then compared with the codes of each row,    *)
(* which are never decoded.  Vocabulary says what a row is.                *)
(*                                                                         *)
(*   "prepare"  PrefixQuery::new, one token of the needle per step;        *)
(*   "rows"     select, one row per step;                                  *)
(*   "done"     the rows are returned;                                     *)
(*   "panic"    InvalidColumn::BadRowOffsets.                              *)
(***************************************************************************)
EXTENDS Vocabulary

CONSTANTS
    Views,      \* columns: a conformant dictionary, codes and row offsets
    Needles

ASSUME ColumnAssumption ==
    /\ \A v \in Views :
        /\ Conforms(v.vocab)
        /\ v.codes \in Seq(Nat) /\ v.rowOffsets \in Seq(Nat)
    /\ Needles \subseteq ByteSeq

VARIABLES
    view, needle, op,       \* the call: "equal" or "prefix"
    mode,
    query,                  \* the tokens of the needle
    intervals,              \* the token ranges of PrefixQuery, as sets
    byteOff,                \* bytes of the needle before the next interval's token
    k,                      \* rows looked at
    selected                \* those that satisfy the query

call == <<view, needle, op>>
vars == <<call, mode, query, intervals, byteOff, k, selected>>

\* tokenize: see Lookup.
Init ==
    /\ view \in Views /\ needle \in Needles
    /\ op \in {"equal", "prefix"}
    /\ mode = IF op = "prefix" THEN "prepare" ELSE "rows"
    /\ query = Greedy(view.vocab, needle)
    /\ intervals = <<>> /\ byteOff = 0
    /\ k = 0 /\ selected = <<>>

\* prefix_range: see Lookup.
Extending(prefix) == {t \in Ids(view.vocab) : StartsAt(view.vocab[t + 1], 0, prefix)}

TokenLen(t) == Len(view.vocab[t + 1])

\* What is left of the needle at a token.
\* Mutant: behind the token.
Rest_Behind(t) == SubSeq(needle, byteOff + TokenLen(t) + 1, Len(needle))

Rest(t) == SubSeq(needle, byteOff + 1, Len(needle))

PrepareToken ==
    /\ mode = "prepare"
    /\ Len(intervals) < Len(query)
    /\ LET t == query[Len(intervals) + 1]
       IN  intervals' = Append(intervals, Extending(Rest(t))) /\ byteOff' = byteOff + TokenLen(t)
    /\ UNCHANGED <<call, mode, query, k, selected>>

Prepared ==
    /\ mode = "prepare"
    /\ Len(intervals) = Len(query)
    /\ mode' = "rows"
    /\ UNCHANGED <<call, query, intervals, byteOff, k, selected>>

Common(row) == IF Len(row) < Len(query) THEN Len(row) ELSE Len(query)

\* How many codes of the row agree with the needle's tokens.
Agreed(row) ==
    CHOOSE d \in 0 .. Common(row) :
        /\ \A n \in 1 .. d : row[n] = query[n]
        /\ d < Common(row) => row[d + 1] # query[d + 1]

\* The first code that differs must cover the rest of the needle.
StartsWith(row) ==
    LET d == Agreed(row)
    IN  \/ d = Len(query)
        \/ d < Len(query) /\ d < Len(row) /\ row[d + 1] \in intervals[d + 1]

Satisfies(row) == IF op = "equal" THEN row = query ELSE StartsWith(row)

SelectRow ==
    /\ mode = "rows"
    /\ k < NumRows(view)
    /\ ~BadRow(view, k)
    /\ selected' = IF Satisfies(RowCodes(view, k)) THEN Append(selected, k) ELSE selected
    /\ k' = k + 1
    /\ UNCHANGED <<call, mode, query, intervals, byteOff>>

Malformed ==
    /\ mode = "rows"
    /\ k < NumRows(view)
    /\ BadRow(view, k)
    /\ mode' = "panic"
    /\ UNCHANGED <<call, query, intervals, byteOff, k, selected>>

Return ==
    /\ mode = "rows"
    /\ k = NumRows(view)
    /\ mode' = "done"
    /\ UNCHANGED <<call, query, intervals, byteOff, k, selected>>

Next == PrepareToken \/ Prepared \/ SelectRow \/ Malformed \/ Return

Spec == Init /\ [][Next]_vars

-----------------------------------------------------------------------------
(***************************************************************************)
(* Properties.                                                             *)
(***************************************************************************)

\* Every variable has its type; an interval is a set of tokens.
TypeOK ==
    /\ mode \in {"prepare", "rows", "done", "panic"}
    /\ query \in Seq(Ids(view.vocab)) /\ intervals \in Seq(SUBSET Ids(view.vocab))
    /\ Len(intervals) <= Len(query) /\ byteOff \in 0 .. Len(needle)
    /\ k \in 0 .. NumRows(view) /\ selected \in Seq(Nat)

\* The bytes of a row.
Decoded(row) == Flat(Spelled(view.vocab, row))

\* The row is one that the encoder produced.
Encoded(row) ==
    /\ \A n \in 1 .. Len(row) : row[n] \in Ids(view.vocab)
    /\ row = Greedy(view.vocab, Decoded(row))

Matches(row) ==
    IF op = "equal" THEN Decoded(row) = needle ELSE StartsAt(Decoded(row), 0, needle)

\* The row indices collected so far are ascending, and of the rows that the encoder
\* produced they are exactly those whose bytes match: neither a token of the needle
\* that was absorbed by a longer one, nor a row that ends inside a token of it,
\* misleads the comparison of codes.
SelectsMatchingRows ==
    /\ TypeOK
    /\ \A n \in 1 .. Len(selected) :
        selected[n] \in 0 .. k - 1 /\ (n > 1 => selected[n - 1] < selected[n])
    /\ \A n \in 0 .. k - 1 : Encoded(RowCodes(view, n)) =>
        ((\E m \in 1 .. Len(selected) : selected[m] = n) <=> Matches(RowCodes(view, n)))

\* Rows are returned only if the offsets never decrease and stay inside the codes, so
\* that no code belongs to two rows, although every row is checked by itself; and a
\* panic names a row that breaks this (column/mod.rs, row_codes).
RowsAreDisjoint ==
    LET offsets == view.rowOffsets
    IN  /\ mode = "done" =>
            \A i, j \in 1 .. Len(offsets) : i < j /\ NumRows(view) > 0 =>
                offsets[i] <= offsets[j] /\ offsets[j] <= Len(view.codes)
        /\ mode = "panic" =>
            offsets[k + 2] \notin offsets[k + 1] .. Len(view.codes)
=============================================================================
