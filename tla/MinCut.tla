------------------------------- MODULE MinCut -------------------------------
(***************************************************************************)
(* The cheapest cut of an alignment graph (src/src/search/substring/probe/ *)
(* alignment/mincut.rs): without the source and the sink the greedy edges  *)
(* form a forest, so one pass from the children to their parents adds up   *)
(* costs, and one back assigns the sides.  An alignment edge that lists no *)
(* tokens forces its target onto the source side.                          *)
(***************************************************************************)
EXTENDS AlignmentGraph, FrequencyIndex

CONSTANTS
    Prices      \* cut weights: per hit, per point and per range

ASSUME PricesAssumption == Prices \subseteq [hit : Nat, point : Nat, range : Nat]

Total(E, w) == Sets!MapThenSumSet(LAMBDA e : w[e], E)

edge_frequency(e, index) ==
    IF e \in RangeEdges THEN range_frequency(index, Sets!Min(e.tokens), Sets!Max(e.tokens))
    ELSE Sets!MapThenSumSet(LAMBDA t : frequency(index, t), e.tokens)

\* CutWeights::of.
Weight(e, index, price) ==
    price.hit * edge_frequency(e, index)
    + (IF e \in RangeEdges THEN price.range ELSE price.point * Cardinality(e.tokens))

CuttableEdges == {e \in Edges : Cuttable(e)}

Forced(v) == \E e \in Edges : ~Cuttable(e) /\ e.to = v

Active == {v \in 1 .. sink - 1 : \E e \in Edges : v \in {e.from, e.to}}

\* The edge to the next internal node, if there is one.
Up(v) == {e \in CuttableEdges : e.from = v /\ e.to # sink}

Parent(v) == IF Up(v) = {} THEN sink ELSE (CHOOSE e \in Up(v) : TRUE).to

\* What placing a node on the source side costs more than on the sink side, before
\* its children: range edges charge the one side, alignment edges the other.
Own(v, w) ==
    Total({e \in CuttableEdges : e.from = v /\ e.to = sink}, w)
    - Total({e \in CuttableEdges : e.from = 0 /\ e.to = v}, w)

\* Moving a parent to the source side saves at most the connecting edge.
\* Mutant: a child that is forced is treated as any other.
Contribution_Free(v, delta, cost) == Sets!Max({Sets!Min({delta, 0}), -cost})

Contribution(v, delta, cost) ==
    IF Forced(v) THEN -cost ELSE Sets!Max({Sets!Min({delta, 0}), -cost})

\* The forward pass, children first.
Delta(w) ==
    LET delta[v \in 1 .. sink - 1] ==
            Own(v, w) + Sets!MapThenSumSet(
                LAMBDA c : Contribution(c, delta[c], Total(Up(c), w)),
                {c \in Active : c < v /\ Parent(c) = v})
    IN  delta

\* The backward pass, parents first: the sink side on ties.
SourceSide(w) ==
    LET delta == Delta(w)
        onSource[v \in 0 .. sink] ==
            \/ v = 0
            \/ /\ v \in Active
               /\ \/ Forced(v)
                  \/ delta[v] < IF onSource[Parent(v)] THEN 0 ELSE -Total(Up(v), w)
    IN  {v \in 0 .. sink : onSource[v]}

\* Edges from the source side to the sink side.
Crossing(side) == {e \in CuttableEdges : e.from \in side /\ e.to \notin side}

Solve(w) == Crossing(SourceSide(w))
=============================================================================
