----------------------------- MODULE MCTrainer -----------------------------
(***************************************************************************)
(* Small instances of Trainer: two byte values, tokens of up to four       *)
(* bytes, and every corpus of a few short rows.                            *)
(***************************************************************************)
EXTENDS Trainer

RowsUpTo(n) == UNION {[1 .. k -> Byte] : k \in 0 .. n}

\* One row of up to seven bytes, or two of up to four.
MCFixedCorpora ==
    {<<r>> : r \in RowsUpTo(7)} \cup {<<r, s>> : r, s \in RowsUpTo(4)}

MCFixedConfigs == {FixedConfig(v) : v \in {0, 2, 3}}

\* Up to three rows of few lengths, empty ones included, so that a selection
\* may fall short of the budget and a budget may end inside any row.
MCDynamicCorpora ==
    LET Repeat(unit, n) == [i \in 1 .. n |-> unit[((i - 1) % Len(unit)) + 1]]
        rows == {<<>>, <<0>>, Repeat(<<0, 1>>, 3), Repeat(<<0>>, 6), Repeat(<<0>>, 14)}
    IN  {<<r>> : r \in rows} \cup {<<r, s>> : r, s \in rows} \cup
        {<<r, s, t>> : r, s, t \in rows}

MCDynamicConfigs ==
    {DynamicConfig(1, 5), DynamicConfig(1, 3), DynamicConfig(1, 2),
     DynamicConfig(2, 3), DynamicConfig(1, 1)}

MCCorpora == MCFixedCorpora \cup MCDynamicCorpora

MCConfigs == MCFixedConfigs \cup MCDynamicConfigs

\* Each kind of training has its own corpora.
MCInit ==
    /\ Init
    /\ corpus \in IF Dynamic THEN MCDynamicCorpora ELSE MCFixedCorpora

MCSpec == MCInit /\ [][Next]_vars /\ WF_vars(Next)
=============================================================================
