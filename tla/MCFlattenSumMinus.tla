------------------------- MODULE MCFlattenSumMinus -------------------------
EXTENDS FlattenSumMinus

CONSTANTS p, q, c, d, a, b

PEdge(from, symbol, call, to) == [from |-> from, symbol |-> symbol, call |-> call, to |-> to]
CEdge(from, symbol, weight, to) == [from |-> from, symbol |-> symbol, weight |-> weight, to |-> to]

\* Calls on a, returns to p by a silent b.
Alternating == [final |-> {q},
                edges |-> {PEdge(p, a, 1, q), PEdge(p, b, 0, p), PEdge(q, a, 1, q), PEdge(q, b, 0, p)}]

\* Cannot read b in q.
Stuck == [final |-> {q},
            edges |-> {PEdge(p, a, 1, q), PEdge(p, b, 0, q), PEdge(q, a, 2, p)}]

\* May call either child on a.
Either == [final |-> {p},
           edges |-> {PEdge(p, a, 1, q), PEdge(p, a, 2, p), PEdge(p, b, 0, p), PEdge(q, b, 1, p), PEdge(q, a, 0, q)}]

\* Returns on the second letter.
Second == [edges |-> {CEdge(c, x, -1, d) : x \in {a, b}}, final |-> {d}]
\* Waits for a b.
Waiting == [edges |-> {CEdge(c, a, -1, c), CEdge(c, b, -2, d)}, final |-> {d}]
\* Waits for an a.
WaitingA == [edges |-> {CEdge(c, b, -1, c), CEdge(c, a, 0, d)}, final |-> {d}]
\* May return after each letter, and go on.
Restless == [edges |-> {CEdge(c, a, -1, c), CEdge(c, b, -2, d), CEdge(d, b, -1, c), CEdge(d, a, 0, d)},
             final |-> {c, d}]
\* May return at b or wait for another.
Hesitant == [edges |-> {CEdge(c, a, -1, c), CEdge(c, b, -2, d), CEdge(c, b, 0, c)}, final |-> {d}]
\* After a b, cannot read a.
Choosy == [edges |-> {CEdge(c, a, -1, c), CEdge(c, b, -2, d), CEdge(d, b, -1, c)}, final |-> {c}]

\* Cannot read a, and waits in the sink for ever.
Late == [edges |-> {CEdge(c, b, -1, d)}, final |-> {d}]

NestedOf(x, y, z) == [edges |-> x.edges, final |-> x.final,
                      child |-> [i \in Child |-> IF i = 1 THEN y ELSE z]]

\* One of the two children may leave a choice.
SomeNested ==
  {NestedOf(x, y, z) : x \in {Alternating, Stuck, Either},
                       y \in {Second, Waiting, WaitingA, Restless, Hesitant, Choosy},
                       z \in {Second, Waiting, WaitingA}} \cup
  {NestedOf(x, Late, z) : x \in {Alternating, Stuck}, z \in {Second, Waiting, WaitingA}}

SomeWeights == {-2, -1, 0}
=============================================================================
