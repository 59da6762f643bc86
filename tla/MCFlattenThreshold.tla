------------------------- MODULE MCFlattenThreshold -------------------------
EXTENDS FlattenThreshold

CONSTANTS p, q, c, d, a, b

PEdge(from, symbol, call, to) == [from |-> from, symbol |-> symbol, call |-> call, to |-> to]
CEdge(from, symbol, weight, to) == [from |-> from, symbol |-> symbol, weight |-> weight, to |-> to]

\* Calls on a, returns to p by a silent b: accepting when it sees both.
Alternating == [final |-> {q},
                edges |-> {PEdge(p, a, 1, q), PEdge(p, b, 0, p), PEdge(q, a, 1, q),
                           PEdge(q, b, SilentWeight, p)}]

\* Calls either child, or none.
Either == [final |-> {p},
           edges |-> {PEdge(p, a, 1, q), PEdge(p, a, 0, p), PEdge(p, b, 2, p), PEdge(q, b, 0, p),
                      PEdge(q, a, 0, q)}]

\* Gains on a before an exit that costs nothing.
Gaining == [edges |-> {CEdge(c, a, 1, c), CEdge(c, b, 0, c), CEdge(c, b, 0, d)}, final |-> {d}]

\* Runs of different values meet again in the same state.
Meeting == [edges |-> {CEdge(c, a, 2, c), CEdge(c, a, 0, d), CEdge(d, a, 1, c), CEdge(d, b, 1, c)},
            final |-> {d}]

\* May return after every letter, and must pay for a b.
Paying == [edges |-> {CEdge(c, a, 0, c), CEdge(c, b, 2, d), CEdge(d, b, 0, c), CEdge(d, a, 1, d)},
           final |-> {c, d}]

\* Waits for an a, gains nothing by waiting.
Waiting == [edges |-> {CEdge(c, b, 0, c), CEdge(c, a, 2, d)}, final |-> {d}]

\* Loses what a leads to, unless it exits at once.
Dropping == [edges |-> {CEdge(c, a, 0, c), CEdge(c, a, 1, d), CEdge(c, b, 2, d), CEdge(d, b, 0, d)},
             final |-> {d}]

\* Runs of different sums wait in the same state.
Choosing == [edges |-> {CEdge(c, a, 1, c), CEdge(c, a, 2, c), CEdge(c, b, 0, d)}, final |-> {d}]

Named == {Choosing, Gaining, Meeting, Paying, Dropping}

\* An edge to wait, one to return and one to go on from there.
Looping == {[edges |-> {CEdge(c, x, v, c), CEdge(c, y, w, d), CEdge(d, z, u, c)}, final |-> {d}] :
              x, y, z \in Symbol, u, v, w \in {0, 2}}

NestedOf(x, y, z) == [edges |-> x.edges, final |-> x.final,
                      child |-> [i \in Child |-> IF i = 1 THEN y ELSE z]]

SomeNested == {NestedOf(Alternating, y, Waiting) : y \in Named \cup Looping}
                \cup {NestedOf(Either, y, Paying) : y \in Named \cup {Waiting}}
SomeThresholds == {-2, 0, 1, 3}
=============================================================================
