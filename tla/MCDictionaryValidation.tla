----------------------- MODULE MCDictionaryValidation -----------------------
(***************************************************************************)
(* DictionaryValidation with offsets below eight and tokens of up to three *)
(* bytes: every sequence of up to three offsets, and many of four to six   *)
(* (four tokens are the fewest that can have an increasing pair above the  *)
(* last start), over buffers from empty to padded, and dictionaries of up  *)
(* to three tokens of up to two bytes, in any order, complete or not.      *)
(***************************************************************************)
EXTENDS DictionaryValidation

SomeBytes(n) == [k \in 1 .. n |-> (k \div 2) % 2]

Malformed ==
    [bytes : {SomeBytes(n) : n \in {0, 2, 3, 5, 9}},
     offsets : UNION {[1 .. n -> 0 .. 7] : n \in 0 .. 3}
                    \cup UNION {[1 .. n -> {0, 1, 4, 7}] : n \in 4 .. 5}
                    \cup [1 .. 6 -> {0, 1}]]

\* Tokens one after the other, the last of them padded or not.
LaidOut(tokens, pad) ==
    LET end[n \in 0 .. Len(tokens)] == IF n = 0 THEN 0 ELSE end[n - 1] + Len(tokens[n])
        bytes[n \in 0 .. Len(tokens)] == IF n = 0 THEN <<>> ELSE bytes[n - 1] \o tokens[n]
    IN  [bytes |-> bytes[Len(tokens)] \o [k \in 1 .. pad |-> 1],
         offsets |-> [n \in 1 .. Len(tokens) + 1 |-> end[n - 1]]]

Short == UNION {[1 .. n -> Byte] : n \in 1 .. 2}

MCRaws ==
    Malformed \cup {LaidOut(tokens, pad) :
        tokens \in UNION {[1 .. n -> Short] : n \in 1 .. 3}, pad \in {0, 1, 2}}
=============================================================================
