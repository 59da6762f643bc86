-------------------------- MODULE MCFlattenRegular --------------------------
EXTENDS FlattenRegular, FiniteSetsExt

CONSTANTS p, q, c, d, a, b

PEdge(from, symbol, call, to) == [from |-> from, symbol |-> symbol, call |-> call, to |-> to]

\* Calls on a, returns to p by a silent b: accepting when it sees both.
Alternating == [final |-> {q},
                edges |-> {PEdge(p, a, 1, q), PEdge(p, b, 0, p), PEdge(q, a, 1, q), PEdge(q, b, 0, p)}]

\* May always call or not; once in q it is never accepting again.
Leaving == [final |-> {p},
            edges |-> {PEdge(p, a, 1, p), PEdge(p, b, 0, p), PEdge(p, b, 1, q), PEdge(q, a, 1, q), PEdge(q, b, 0, q)}]

\* Children that may return: of two edges, or of three that go on after a
\* return.
MayReturn(E) == \E e \in E : e.from = c /\ e.to = d
Continues(E) == /\ \E e \in E : e.from = d /\ e.to = c
                /\ \A e \in E : e.from = d => e.to = c

Children == {[edges |-> E, final |-> {d}] :
               E \in {D \in kSubset(2, ChildEdge) : MayReturn(D)}
                    \cup {D \in kSubset(3, ChildEdge) : MayReturn(D) /\ Continues(D)}}

CEdge(from, symbol, weight, to) == [from |-> from, symbol |-> symbol, weight |-> weight, to |-> to]

\* Waits for an a.
Waiting == [edges |-> {CEdge(c, b, -1, c), CEdge(c, a, 2, d)}, final |-> {d}]

\* Sums that cross a bound and come back.
Swinging == [edges |-> {CEdge(c, a, 2, c), CEdge(c, b, -1, c), CEdge(c, b, -1, d)}, final |-> {d}]

\* May return after every letter.
Restless == [edges |-> {CEdge(c, a, -1, c), CEdge(c, b, 2, d), CEdge(d, b, -1, c), CEdge(d, a, -1, d)},
               final |-> {c, d}]

\* Calls either child on a.
Either == [final |-> {p},
           edges |-> {PEdge(p, a, 1, q), PEdge(p, a, 2, p), PEdge(p, b, 0, p), PEdge(q, b, 0, p), PEdge(q, a, 0, q)}]

NestedOf(x, y, z) == [edges |-> x.edges, final |-> x.final,
                      child |-> [i \in Child |-> IF i = 1 THEN y ELSE z]]

SomeNested == {NestedOf(x, y, Waiting) : x \in {Alternating, Leaving}, y \in Children}
                \cup {NestedOf(Either, y, Swinging) : y \in {Waiting, Restless}}

SomeWeights == {-1, 2}
=============================================================================
