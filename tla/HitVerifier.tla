---------------------------- MODULE HitVerifier ----------------------------
(***************************************************************************)
(* Whether an occurrence of the pattern passes through a code of a row     *)
(* (src/src/search/substring/probe/verify.rs): the codes around it are     *)
(* matched with the edges of the alignment graph, forward to the sink and  *)
(* backward to the source, and are never decoded.                          *)
(***************************************************************************)
EXTENDS MinCut

EdgesWith(E, t) == {<<e.from, e.to>> : e \in {e \in E : t \in e.tokens}}

\* A token on no edge, on one, or on several: TokenEdges::single.
OnNone(t) == EdgesWith(Edges, t) = {}
OnOne(t) == Cardinality(EdgesWith(Edges, t)) = 1
OnSeveral(t) == ~OnNone(t) /\ ~OnOne(t)

ContainsWholePattern(t) == <<0, sink>> \in EdgesWith(Edges, t)

\* The token ends with the first k bytes of the pattern.
IsTail(k, t) ==
    /\ t \in Ids(vocab)
    /\ LengthOf(t) >= k
    /\ StartsAt(vocab[t + 1], LengthOf(t) - k, SubSeq(pattern, 1, k))

OverlapAt(v) == v \in OverlapLengths /\ HasOverlap(v)

\* Codes from one on match a path from a node to the sink.
Forward(node, at, codes, rowEnd) ==
    LET walk[c \in at .. rowEnd, v \in 0 .. sink - 1] ==
            /\ c < rowEnd
            /\ LET code == codes[c + 1]
               IN  \/ code \in nodes[v].range
                   \/ code = nodes[v].greedy /\ walk[c + 1, v + LengthOf(code)]
    IN  walk[at, node]

\* A node's overlap is entered by a token that is not on an edge into it, if its
\* tokens are not listed.
\* Mutant: all tokens are taken to be listed.
EntersUnlisted_Never(v, t) == FALSE

EntersUnlisted(v, t) == OverlapAt(v) /\ listed[v] = {} /\ IsTail(v, t)

\* Codes up to one match a path from the source to a node.
Backward(node, codeEnd, codes, rowStart) ==
    LET walk[c \in rowStart .. codeEnd, v \in 0 .. sink - 1] ==
            \/ v = 0
            \/ /\ c > rowStart
               /\ LET code == codes[c]
                      ends == EdgesWith(Edges, code)
                  IN  CASE OnSeveral(code) /\ LengthOf(code) > v ->
                             OverlapAt(v) /\ IsTail(v, code)
                        [] OnSeveral(code) /\ LengthOf(code) <= v ->
                             /\ nodes[v - LengthOf(code)].greedy = code
                             /\ walk[c - 1, v - LengthOf(code)]
                        [] OnOne(code) /\ \E u \in 0 .. v : <<u, v>> \in ends ->
                             \E u \in 0 .. v : <<u, v>> \in ends /\ walk[c - 1, u]
                        [] OTHER -> EntersUnlisted(v, code)
    IN  walk[codeEnd, node]

\* HitVerifier::check, where cut is the cut that the cover comes from.
Check(cut, codes, rowStart, rowEnd, at) ==
    LET hit == codes[at + 1]
        passes(edge) ==
            /\ edge[2] = sink \/ Forward(edge[2], at + 1, codes, rowEnd)
            /\ edge[1] = 0 \/ Backward(edge[1], at, codes, rowStart)
    IN  IF OnSeveral(hit)
        THEN ContainsWholePattern(hit) \/ \E edge \in EdgesWith(cut, hit) : passes(edge)
        ELSE \E edge \in EdgesWith(Edges, hit) : passes(edge)
=============================================================================
