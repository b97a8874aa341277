----------------------------- MODULE MCWorkflow ------------------------------
EXTENDS Workflow

Result(kind, g) == [kind |-> kind, deps |-> g]

\* Two proposals, the first of which depends on the second, or which depend on
\* each other; the first may come with a question.  What is planned by hand, or
\* for the second phase, is one Task.
Chain == <<{2}, {}>>
Cycle == <<{2}, {1}>>
ChainFirst ==
  [p \in 0 .. 2 |->
    IF p = 1 THEN {Result("proposed", Chain), Result("proposed", Cycle), Result("asks", Chain)}
    ELSE {Result("proposed", <<{}>>)}]

\* topoOrder against its definition, on every graph of three proposals: an order
\* is found for those without a cycle, and only for those; it has every proposal
\* once, after those it depends on; and of two orders it is the first one.
ThreeGraphs == [1 .. 3 -> SUBSET (1 .. 3)]
Topological(g) == {o \in [DOMAIN g -> DOMAIN g] :
                     \A m \in DOMAIN o : /\ \A n \in 1 .. m - 1 : o[n] # o[m]
                                         /\ g[o[m]] \subseteq {o[n] : n \in 1 .. m - 1}}
Earlier(o, q) == \E m \in DOMAIN o : o[m] < q[m] /\ \A n \in 1 .. m - 1 : o[n] = q[n]
ASSUME \A g \in ThreeGraphs :
  /\ ValidGraph(g) <=> Topological(g) # {}
  /\ ValidGraph(g) => /\ Order(g) \in Topological(g)
                      /\ \A o \in Topological(g) \ {Order(g)} : Earlier(Order(g), o)
=============================================================================
