----------------------- MODULE FlattenSumMinus_proofs -----------------------
(***************************************************************************)
(* What the flattened automaton for averages of SumMinus emits and what it *)
(* refuses, for all nested automata and bounds.                            *)
(*                                                                         *)
(* Calls stay in step with the parent: the states of U_sync that are kept  *)
(* carry the parent's own state, so that none emits anything while the     *)
(* parent calls no child (CallsInStep, SilentEdgesQuiet).  And the bag     *)
(* stands for the calls: erasing what U_sync adds to the state of a child  *)
(* maps the bag onto the calls that have not returned, each counted as     *)
(* often as it is there, and what the bag has accumulated is what the      *)
(* calls have read and not emitted (EmittedCorrect, RefusedCorrect).       *)
(*                                                                         *)
(* The preparation keeps what a child can return: the states that a word   *)
(* leads to by the letters are, but for the sink, those made of the states *)
(* it leads to in the child given (ReturnsCorrect).                        *)
(***************************************************************************)
EXTENDS FlattenSumMinus, DataInduction

\* A state has one edge on a letter, to a child or to none; weights of children
\* are not positive.
LetterOK(m) ==
  /\ \A d, e \in m.parent : d.from = e.from => d = e
  /\ \A e \in m.parent : e.call \in Child \cup {NoChild}
  /\ \A i \in Child : \A e \in m.child[i] : e.weight \in Int /\ e.weight <= 0

\* A state of U_sync.
KeyOK(k) ==
  /\ k = [parent |-> k.parent, child |-> k.child, state |-> k.state,
          acc |-> k.acc, pending |-> k.pending]
  /\ k.child \in Child
  /\ k.acc \in -AccBound .. 0

WeightsOK == \A i \in Child : \A e \in child[i].edges : e.weight \in Int /\ e.weight <= 0

Inv ==
  /\ nested \in Nested
  /\ WeightsOK
  /\ stage # "flatten" => DOMAIN bag = {}
  /\ \A m \in letters : LetterOK(m)
  /\ \A k \in DOMAIN bag : KeyOK(k)
  /\ InStep

-----------------------------------------------------------------------------
(* The letters *)

\* The edges of nested automata are what NestedAutomaton says.
LEMMA NestedEdges ==
  ASSUME nested \in Nested
  PROVE  /\ \A e \in nested.edges : e \in ParentEdge /\ e.call \in Child \cup {NoChild}
         /\ \A i \in Child : \A e \in nested.child[i].edges : e.weight \in Int /\ e.weight <= 0
<1>1. nested \in NestedAutomaton
  BY NestedAssumption
<1>2. /\ nested.edges \subseteq ParentEdge
      /\ nested.child \in [Child -> ChildAutomaton]
  BY <1>1 DEF NestedAutomaton
<1>3. \A i \in Child : nested.child[i].edges \subseteq ChildEdge
  BY <1>2 DEF ChildAutomaton
<1>4. \A e \in ParentEdge : e.call \in Child \cup {NoChild, SilentWeight}
  BY DEF ParentEdge
<1>5. \A e \in ChildEdge : e.weight \in Int /\ e.weight <= 0
  BY NestedAssumption, SumMinusAssumption DEF ChildEdge
<1> QED
  BY <1>2, <1>3, <1>4, <1>5, SumMinusAssumption

\* Splitting final states keeps the weights.
LEMMA SplitWeights ==
  ASSUME Inv, Split
  PROVE  WeightsOK'
<1> SUFFICES ASSUME NEW i \in Child, NEW e \in SplitChild(nested.child[i]).edges
             PROVE  e.weight \in Int /\ e.weight <= 0
  BY DEF WeightsOK, Split
<1>1. PICK d \in nested.child[i].edges : e.weight = d.weight
  BY DEF SplitChild
<1> QED
  BY <1>1, NestedEdges DEF Inv

\* Completing adds edges of weight 0, and for the parent one edge where it had
\* none.
LEMMA CompleteLetters ==
  ASSUME Inv, Complete
  PROVE  WeightsOK' /\ \A m \in letters' : LetterOK(m)
<1>1. \A i \in Child : \A e \in CompleteChild(child[i]).edges : e.weight \in Int /\ e.weight <= 0
  <2> TAKE i \in Child
  <2> TAKE e \in CompleteChild(child[i]).edges
  <2>1. e \in child[i].edges \/ e.weight = 0
    BY DEF CompleteChild
  <2> QED
    BY <2>1 DEF Inv, WeightsOK
<1>2. \A i \in Child : child'[i] = CompleteChild(child[i])
  BY DEF Complete
<1>3. WeightsOK'
  BY <1>1, <1>2 DEF WeightsOK
<1>4. \A e \in CompleteParent : e.call \in Child \cup {NoChild}
  BY NestedEdges DEF Inv, CompleteParent
<1>5. AtMostOne(CompleteParent)
  <2> SUFFICES ASSUME NEW d \in CompleteParent, NEW e \in CompleteParent,
                      d.from = e.from, d.symbol = e.symbol
               PROVE  d = e
    BY DEF AtMostOne
  <2> DEFINE missing == IF Missing(ParentState, nested.edges) = {} THEN {}
                        ELSE Missing(ParentState \cup {Sink}, nested.edges)
             added(x) == [from |-> x[1], symbol |-> x[2], call |-> NoChild, to |-> Sink]
  <2>1. \A x \in missing : \A f \in nested.edges : ~(f.from = x[1] /\ f.symbol = x[2])
    BY DEF Missing, On, In
  <2>2. \A x \in missing : x = <<x[1], x[2]>>
    BY DEF Missing
  <2>3. \A f \in CompleteParent : f \in nested.edges \/ \E x \in missing : f = added(x)
    BY DEF CompleteParent
  <2>4. CASE d \in nested.edges /\ e \in nested.edges
    BY <2>4 DEF Complete, Deterministic, AtMostOne
  <2>0. \A x : added(x).from = x[1] /\ added(x).symbol = x[2]
    OBVIOUS
  <2> HIDE DEF missing, added
  <2>5. CASE d \in nested.edges /\ e \notin nested.edges
    <3>1. PICK x \in missing : e = added(x)
      BY <2>3, <2>5
    <3> QED
      BY <2>0, <2>1, <2>5, <3>1
  <2>6. CASE d \notin nested.edges /\ e \in nested.edges
    <3>1. PICK x \in missing : d = added(x)
      BY <2>3, <2>6
    <3> QED
      BY <2>0, <2>1, <2>6, <3>1
  <2>7. CASE d \notin nested.edges /\ e \notin nested.edges
    <3>1. PICK x \in missing : d = added(x)
      BY <2>3, <2>7
    <3>2. PICK y \in missing : e = added(y)
      BY <2>3, <2>7
    <3>3. x = y
      BY <2>0, <2>2, <3>1, <3>2
    <3> QED
      BY <3>1, <3>2, <3>3
  <2> QED
    BY <2>4, <2>5, <2>6, <2>7
<1>6. ASSUME NEW m \in letters'
      PROVE  LetterOK(m)
  <2>1. PICK a \in Symbol : m = [symbol |-> a, parent |-> On(CompleteParent, a),
                                 child |-> [i \in Child |-> On(child'[i].edges, a)]]
    BY DEF Complete
  <2>2. m.parent \subseteq CompleteParent /\ \A e \in m.parent : e.symbol = a
    BY <2>1 DEF On
  <2>3. \A i \in Child : m.child[i] \subseteq child'[i].edges
    BY <2>1 DEF On
  <2> QED
    BY <1>3, <1>4, <1>5, <2>2, <2>3 DEF LetterOK, AtMostOne, WeightsOK
<1> QED
  BY <1>3, <1>6

\* A letter that chooses edges has one for each state; whoever gets the edges
\* of a child, they are edges of a child.
LEMMA DeterminizeLetters ==
  ASSUME Inv, Determinize
  PROVE  \A m \in letters' : LetterOK(m)
<1> TAKE m \in letters'
<1>0. PICK a \in Symbol : \E P \in EdgeChoices(On(nested.edges, a)), f \in ChildChoices(a) :
        m = [symbol |-> a, parent |-> P, child |-> Attributed(f)]
  BY DEF Determinize
<1>1. PICK P \in EdgeChoices(On(nested.edges, a)), f \in ChildChoices(a) :
        m = [symbol |-> a, parent |-> P, child |-> Attributed(f)]
  BY <1>0
<1>2. P \subseteq nested.edges /\ AtMostOne(P) /\ \A e \in P : e.symbol = a
  BY DEF EdgeChoices, On
<1>3. \A i \in Child : f[i] \subseteq child[i].edges
  BY DEF ChildChoices, EdgeChoices, On
<1>4. \A i \in Child : \A e \in Attributed(f)[i] : \E j \in Child : e \in f[j]
  BY DEF Attributed
<1>5. \A i \in Child : \A e \in m.child[i] : e.weight \in Int /\ e.weight <= 0
  BY <1>1, <1>3, <1>4 DEF Inv, WeightsOK
<1>6. \A d, e \in m.parent : d.from = e.from => d = e
  BY <1>1, <1>2 DEF AtMostOne
<1> QED
  BY <1>1, <1>2, <1>5, <1>6, NestedEdges DEF LetterOK, Inv

-----------------------------------------------------------------------------
(* The steps of U_sync *)

\* A call in step with the parent takes the parent's edge.
LEMMA SyncStep ==
  ASSUME NEW m, LetterOK(m), NEW k, KeyOK(k),
         NEW e \in m.parent, e.from = k.parent,
         NEW s \in SyncSteps(k, m)
  PROVE  /\ KeyOK(s.to)
         /\ s.to.parent = e.to
         /\ Silent(e) => s.emit = 0
<1>1. In(m.parent, k.parent) = {e}
  BY DEF In, LetterOK
<1>2. PICK x \in ChildSteps(k, m) :
        /\ Silent(e) => -AccBound <= k.acc + x.weight
        /\ s = IF Silent(e) THEN SilentStep(k, e, x) ELSE CallingStep(k, e, x)
  BY <1>1 DEF SyncSteps
<1>3. x.weight \in Int /\ x.weight <= 0
  BY DEF ChildSteps, In, LetterOK, KeyOK
<1>4. k.acc \in Int /\ k.acc <= 0 /\ AccBound \in Nat
  BY SumMinusAssumption DEF KeyOK
<1>0. k = [parent |-> k.parent, child |-> k.child, state |-> k.state,
            acc |-> k.acc, pending |-> k.pending] /\ k.child \in Child
  BY DEF KeyOK
<1>5. CASE Silent(e)
  <2> DEFINE waits == k.pending \/ x.to \in child[k.child].final
  <2>1. s.emit = 0 /\ s.to = [k EXCEPT !.parent = e.to, !.state = x.to, !.acc = @ + x.weight, !.pending = waits]
    BY <1>2, <1>5 DEF SilentStep
  <2> HIDE DEF waits
  <2>2. s.to = [parent |-> e.to, child |-> k.child, state |-> x.to, acc |-> k.acc + x.weight, pending |-> waits]
    BY <1>0, <2>1
  <2>3. k.acc + x.weight \in -AccBound .. 0
    BY <1>2, <1>3, <1>4, <1>5
  <2> QED
    BY <1>0, <2>1, <2>2, <2>3 DEF KeyOK
<1>6. CASE ~Silent(e)
  <2>1. s.to = [k EXCEPT !.parent = e.to, !.state = x.to, !.acc = 0, !.pending = FALSE]
    BY <1>2, <1>6 DEF CallingStep
  <2>2. s.to = [parent |-> e.to, child |-> k.child, state |-> x.to, acc |-> 0, pending |-> FALSE]
    BY <1>0, <2>1
  <2>3. 0 \in -AccBound .. 0
    BY <1>4
  <2> QED
    BY <1>0, <1>6, <2>2, <2>3 DEF KeyOK
<1> QED
  BY <1>5, <1>6

\* What a call starts from is in step.
LEMMA SeedOK ==
  ASSUME NEW m, LetterOK(m), NEW e \in m.parent, ~Silent(e)
  PROVE  KeyOK(Seed(e)) /\ Seed(e).parent = e.from
BY SumMinusAssumption DEF LetterOK, KeyOK, Seed, Silent

\* An edge of the flattened automaton keeps all calls in step.
LEMMA LetterKeeps ==
  ASSUME Inv, NEW m \in letters, NEW e \in In(m.parent, parent), Letter(m, e)
  PROVE  Inv'
<1>1. LetterOK(m) /\ e \in m.parent /\ e.from = parent
  BY DEF Inv, In
<1>2. DOMAIN Active(e) \subseteq DOMAIN bag \cup (IF Silent(e) THEN {} ELSE {Seed(e)})
  BY DEF Active, Bags!BagAdd
<1>3. \A k \in DOMAIN Active(e) : KeyOK(k) /\ k.parent = e.from
  BY <1>1, <1>2, SeedOK DEF Inv, InStep
<1>4. DOMAIN bag' = Onwards(Active(e), m)
  BY DEF Letter, Advance
<1>5. ASSUME NEW t \in DOMAIN bag'
      PROVE  KeyOK(t) /\ t.parent = parent' /\ ~Ended(t)
  <2>1. ~Ended(t)
    BY <1>4 DEF Onwards
  <2>2. PICK k \in DOMAIN Active(e) : \E s \in SyncSteps(k, m) : s.to = t
    BY <1>4 DEF Onwards
  <2> QED
    BY <1>1, <1>3, <2>1, <2>2, SyncStep DEF Letter
<1>6. UNCHANGED <<nested, stage, child, letters>>
  BY DEF Letter, preSync
<1>7. \A t \in DOMAIN bag' : ~Ended(t)'
  BY <1>5, <1>6 DEF Ended
<1>8. InStep'
  BY <1>5, <1>7 DEF InStep, KeyOK
<1>9. stage = "flatten"
  BY DEF Letter
<1> QED
  BY <1>5, <1>6, <1>8, <1>9 DEF Inv, WeightsOK, KeyOK, LetterOK

-----------------------------------------------------------------------------
\* The preparation changes nothing the calls stand on while there are calls.
LEMMA PrepareKeeps ==
  ASSUME Inv, Prepare
  PROVE  Inv'
<1>1. stage # "flatten" /\ DOMAIN bag = {} /\ UNCHANGED <<nested, bag>>
  BY DEF Prepare, PreSyncNext, Split, Complete, Determinize, flat, Inv
<1>2. DOMAIN bag' = {}
  BY <1>1
<1>3. WeightsOK' /\ \A m \in letters' : LetterOK(m)'
  <2>1. CASE Split
    BY <2>1, SplitWeights DEF Split, Inv, LetterOK
  <2>2. CASE Complete
    BY <2>2, CompleteLetters DEF LetterOK
  <2>3. CASE Determinize
    <3>1. UNCHANGED child
      BY <2>3 DEF Determinize
    <3> QED
      BY <2>3, <3>1, DeterminizeLetters DEF LetterOK, WeightsOK, Inv
  <2> QED
    BY <2>1, <2>2, <2>3 DEF Prepare, PreSyncNext
<1> QED
  BY <1>1, <1>2, <1>3 DEF Inv, InStep, LetterOK

\* The invariant holds at the start.
LEMMA InvInit == Init => Inv
<1> SUFFICES ASSUME Init PROVE Inv
  OBVIOUS
<1>1. nested \in Nested
  BY DEF Init, PreSyncInit
<1>2. WeightsOK
  BY <1>1, NestedEdges DEF Init, PreSyncInit, WeightsOK
<1>3. letters = {} /\ DOMAIN bag = {}
  BY DEF Init, PreSyncInit
<1> QED
  BY <1>1, <1>2, <1>3 DEF Inv, InStep

\* Every step keeps the invariant.
LEMMA InvStep == Inv /\ [Next]_vars => Inv'
<1> SUFFICES ASSUME Inv, [Next]_vars PROVE Inv'
  OBVIOUS
<1>1. CASE Prepare
  BY <1>1, PrepareKeeps
<1>2. ASSUME NEW m \in letters, NEW e \in In(m.parent, parent), Letter(m, e)
      PROVE  Inv'
  BY <1>2, LetterKeeps
<1>3. CASE UNCHANGED vars
  BY <1>3 DEF Inv, InStep, WeightsOK, KeyOK, LetterOK, Ended, vars, preSync, flat
<1> QED
  BY <1>1, <1>2, <1>3 DEF Next

\* For every nested automaton and word: the calls kept carry the parent's own
\* state, have not ended, and owe no more than the bound.
THEOREM CallsInStep == Spec => []InStep
<1>1. Inv => InStep
  BY DEF Inv
<1> QED
  BY InvInit, InvStep, <1>1, PTL DEF Spec

\* For every nested automaton and word: no call emits anything on an edge that
\* calls no child, so flatten_Avg_SumMinus never gives up.
THEOREM SilentEdgesQuiet == Spec => []Quiet
<1>1. Inv => Quiet
  <2> SUFFICES ASSUME Inv, NEW m \in letters, NEW e \in In(m.parent, parent), Silent(e),
                      NEW k \in DOMAIN bag, NEW s \in SyncSteps(k, m)
               PROVE  s.emit = 0
    BY DEF Quiet
  <2>1. LetterOK(m) /\ KeyOK(k) /\ k.parent = parent
    BY DEF Inv, InStep
  <2>2. e \in m.parent /\ e.from = k.parent
    BY <2>1 DEF In
  <2> QED
    BY <2>1, <2>2, SyncStep
<1> QED
  BY InvInit, InvStep, <1>1, PTL DEF Spec
-----------------------------------------------------------------------------
(***************************************************************************)
(* The bag stands for the calls                                            *)
(***************************************************************************)

EndedCall(r) == r[2] \in child[r[1]].final
CallOf(k) == <<k.child, k.state>>
Live(B) == {k \in DOMAIN B : ~k.pending}
LiveAt(B, r) == {k \in Live(B) : CallOf(k) = r}
Accumulated(B) == [k \in DOMAIN B |-> B[k] * k.acc]

\* The keys that do not wait count the calls; those that wait have ended; what
\* all have accumulated is what is owed.
Represents(B, R, o) ==
  /\ IsFiniteSet(DOMAIN B)
  /\ \A k \in DOMAIN B : B[k] \in Nat \ {0} /\ k.acc \in Int
  /\ \A k \in DOMAIN B : k.pending => EndedCall(CallOf(k))
  /\ DOMAIN R = {CallOf(k) : k \in Live(B)}
  /\ \A r \in DOMAIN R : R[r] = SumFunctionOnSet(B, LiveAt(B, r))
  /\ o = SumFunction(Accumulated(B))

\* One more copy of x is one more wherever x is counted.
LEMMA SumAdd ==
  ASSUME NEW B, NEW x, IsFiniteSet(DOMAIN B), \A k \in DOMAIN B : B[k] \in Int,
         NEW F, F \subseteq DOMAIN Bags!BagAdd(B, x)
  PROVE  SumFunctionOnSet(Bags!BagAdd(B, x), F) =
           SumFunctionOnSet(B, F \cap DOMAIN B) + (IF x \in F THEN 1 ELSE 0)
<1> DEFINE A == Bags!BagAdd(B, x)
           G == F \ {x}
<1>1. /\ DOMAIN A = DOMAIN B \cup {x}
      /\ \A k \in DOMAIN B : k # x => A[k] = B[k]
      /\ A[x] = IF x \in DOMAIN B THEN B[x] + 1 ELSE 1
  BY DEF Bags!BagAdd
<1>2. \A k \in DOMAIN A : A[k] \in Int
  BY <1>1
<1> HIDE DEF A
<1>3. IsFiniteSet(DOMAIN A)
  BY <1>1, FS_AddElement
<1>4. IsFiniteSet(F) /\ IsFiniteSet(G) /\ IsFiniteSet(F \cap DOMAIN B) /\ \A k \in F : A[k] \in Int
  <2>1. F \in SUBSET DOMAIN A /\ G \in SUBSET DOMAIN A /\ F \cap DOMAIN B \in SUBSET DOMAIN B
    BY DEF A
  <2> QED
    BY <1>2, <1>3, <2>1, FS_Subset
<1>5. SumFunctionOnSet(A, G) = SumFunctionOnSet(B, G)
  <2>1. \A k \in G : B[k] \in Int /\ A[k] = B[k]
    BY <1>1 DEF A
  <2> QED
    BY <1>4, <2>1, SumSame
<1>6. \A k \in F \cap DOMAIN B : B[k] \in Int
  OBVIOUS
<1>7. CASE x \in F
  <2>1. SumFunctionOnSet(A, F) = A[x] + SumFunctionOnSet(A, G)
    BY <1>4, <1>7, SumRemove
  <2>2. CASE x \in DOMAIN B
    <3> DEFINE H == F \cap DOMAIN B
    <3>1. x \in H /\ H \ {x} = G
      BY <1>1, <1>7, <2>2 DEF A
    <3>2. IsFiniteSet(H) /\ \A k \in H : B[k] \in Int
      BY <1>4, <1>6
    <3> HIDE DEF H, G
    <3>3. SumFunctionOnSet(B, H) = B[x] + SumFunctionOnSet(B, G)
      BY <3>1, <3>2, SumRemove
    <3>4. SumFunctionOnSet(B, G) \in Int /\ B[x] \in Int
      <4>1. \A k \in G : B[k] \in Int
        BY <3>1, <3>2
      <4> QED
        BY <1>4, <4>1, <2>2, SumRemove
    <3>5. A[x] = B[x] + 1
      BY <1>1, <2>2
    <3> HIDE DEF A
    <3>6. SumFunctionOnSet(A, F) = SumFunctionOnSet(B, H) + 1
      BY <1>5, <2>1, <3>3, <3>4, <3>5
    <3> QED
      BY <1>7, <3>6 DEF H, A
  <2>3. CASE x \notin DOMAIN B
    <3>1. F \cap DOMAIN B = G /\ A[x] = 1
      BY <1>1, <2>3 DEF A
    <3>2. SumFunctionOnSet(B, G) \in Int
      BY <1>4, <1>6, <3>1, SumRemove
    <3> HIDE DEF A, G
    <3>3. SumFunctionOnSet(A, F) = 1 + SumFunctionOnSet(B, G)
      BY <1>5, <2>1, <3>1
    <3>4. SumFunctionOnSet(B, F \cap DOMAIN B) = SumFunctionOnSet(B, G)
      BY <3>1
    <3>5. SumFunctionOnSet(A, F) = SumFunctionOnSet(B, F \cap DOMAIN B) + 1
      BY <3>2, <3>3, <3>4
    <3> QED
      BY <1>7, <3>5 DEF A
  <2> QED
    BY <2>2, <2>3
<1>8. CASE x \notin F
  <2>1. F = G /\ F \cap DOMAIN B = G
    BY <1>1, <1>8 DEF A
  <2>2. SumFunctionOnSet(B, G) \in Int
    BY <1>4, <1>6, <2>1, SumRemove
  <2> HIDE DEF G
  <2>3. SumFunctionOnSet(A, F) = SumFunctionOnSet(B, F \cap DOMAIN B)
    BY <1>5, <2>1
  <2>4. SumFunctionOnSet(B, F \cap DOMAIN B) \in Int
    BY <2>1, <2>2
  <2> QED
    BY <1>8, <2>3, <2>4 DEF A
<1> QED
  BY <1>7, <1>8

\* A call made starts with a key of its own, which has accumulated nothing.
LEMMA CallRepresented ==
  ASSUME NEW B, NEW R, NEW o, Represents(B, R, o), NEW x, x.acc = 0, x.pending = FALSE
  PROVE  Represents(Bags!BagAdd(B, x), Bags!BagAdd(R, CallOf(x)), o)
<1> DEFINE A == Bags!BagAdd(B, x)
           y == CallOf(x)
           Q == Bags!BagAdd(R, y)
<1>1. /\ DOMAIN A = DOMAIN B \cup {x}
      /\ \A k \in DOMAIN B : k # x => A[k] = B[k]
      /\ A[x] = IF x \in DOMAIN B THEN B[x] + 1 ELSE 1
  BY DEF Bags!BagAdd
<1>2. /\ DOMAIN Q = DOMAIN R \cup {y}
      /\ \A r \in DOMAIN R : r # y => Q[r] = R[r]
      /\ Q[y] = IF y \in DOMAIN R THEN R[y] + 1 ELSE 1
  BY DEF Bags!BagAdd
<1>3. IsFiniteSet(DOMAIN B) /\ \A k \in DOMAIN B : B[k] \in Nat \ {0} /\ k.acc \in Int
  BY DEF Represents
<1>4. IsFiniteSet(DOMAIN A) /\ \A k \in DOMAIN A : A[k] \in Nat \ {0} /\ k.acc \in Int
  <2>1. IsFiniteSet(DOMAIN A)
    BY <1>1, <1>3, FS_AddElement
  <2>2. \A k \in DOMAIN A : A[k] \in Nat \ {0} /\ k.acc \in Int
    BY <1>1, <1>3
  <2> QED
    BY <2>1, <2>2
<1>5. \A F : F \subseteq DOMAIN A =>
        SumFunctionOnSet(A, F) = SumFunctionOnSet(B, F \cap DOMAIN B) + (IF x \in F THEN 1 ELSE 0)
  BY <1>3, SumAdd
<1> HIDE DEF A, Q, y
<1>6. \A k \in DOMAIN A : k.pending => EndedCall(CallOf(k))
  BY <1>1 DEF Represents
<1>7. DOMAIN Q = {CallOf(k) : k \in Live(A)}
  BY <1>1, <1>2 DEF Represents, Live, y
<1>8. ASSUME NEW r \in DOMAIN Q
      PROVE  Q[r] = SumFunctionOnSet(A, LiveAt(A, r))
  <2>1. LiveAt(A, r) \subseteq DOMAIN A /\ LiveAt(A, r) \cap DOMAIN B = LiveAt(B, r)
    BY <1>1 DEF LiveAt, Live
  <2>2. x \in LiveAt(A, r) <=> r = y
    BY <1>1 DEF LiveAt, Live, y
  <2>3. SumFunctionOnSet(A, LiveAt(A, r)) = SumFunctionOnSet(B, LiveAt(B, r)) + (IF r = y THEN 1 ELSE 0)
    BY <1>5, <2>1, <2>2
  <2>4. IsFiniteSet(LiveAt(B, r)) /\ \A k \in LiveAt(B, r) : B[k] \in Int
    <3>1. LiveAt(B, r) \in SUBSET DOMAIN B
      BY DEF LiveAt, Live
    <3> QED
      BY <1>3, <3>1, FS_Subset
  <2>5. SumFunctionOnSet(B, LiveAt(B, r)) \in Int
    BY <2>4, SumRemove
  <2>6. r \in DOMAIN R => R[r] = SumFunctionOnSet(B, LiveAt(B, r))
    BY DEF Represents
  <2>7. CASE r = y
    <3>1. CASE y \in DOMAIN R
      BY <1>2, <2>3, <2>5, <2>6, <2>7, <3>1
    <3>2. CASE y \notin DOMAIN R
      <4>1. LiveAt(B, r) = {}
        BY <2>7, <3>2 DEF LiveAt, Represents
      <4>2. SumFunctionOnSet(B, {}) = 0
        BY SumEmpty
      <4> QED
        BY <1>2, <2>3, <2>7, <3>2, <4>1, <4>2
    <3> QED
      BY <3>1, <3>2
  <2>8. CASE r # y
    <3>1. r \in DOMAIN R /\ Q[r] = R[r]
      BY <1>2, <2>8
    <3> QED
      BY <2>3, <2>5, <2>6, <2>8, <3>1
  <2> QED
    BY <2>7, <2>8
<1>9. o = SumFunction(Accumulated(A))
  <2> DEFINE f == Accumulated(A)
             g == Accumulated(B)
             D == DOMAIN B \ {x}
  <2>1. \A k \in DOMAIN A : f[k] \in Int
    BY <1>4 DEF Accumulated
  <2>2. \A k \in DOMAIN B : g[k] \in Int
    BY <1>3 DEF Accumulated
  <2>3. f[x] = 0
    BY <1>1, <1>4 DEF Accumulated
  <2>4. x \in DOMAIN B => g[x] = 0
    BY <1>3 DEF Accumulated
  <2>5. \A k \in D : f[k] = g[k]
    BY <1>1 DEF Accumulated
  <2>6. DOMAIN f = DOMAIN A /\ DOMAIN g = DOMAIN B
    BY DEF Accumulated
  <2>7. IsFiniteSet(D) /\ DOMAIN A \ {x} = D /\ (x \notin DOMAIN B => D = DOMAIN B)
    <3>1. IsFiniteSet(DOMAIN B \ {x})
      BY <1>3, FS_RemoveElement
    <3>2. DOMAIN A \ {x} = DOMAIN B \ {x}
      BY <1>1
    <3> QED
      BY <3>1, <3>2
  <2>8. \A k \in D : g[k] \in Int /\ f[k] = g[k]
    BY <2>2, <2>5
  <2> HIDE DEF f, g, D
  <2>9. SumFunctionOnSet(f, D) = SumFunctionOnSet(g, D) /\ SumFunctionOnSet(g, D) \in Int
    BY <2>7, <2>8, SumSame, SumRemove
  <2>10. SumFunctionOnSet(f, DOMAIN A) = SumFunctionOnSet(f, D)
    <3>1. SumFunctionOnSet(f, DOMAIN A) = f[x] + SumFunctionOnSet(f, DOMAIN A \ {x})
      BY <1>1, <1>4, <2>1, SumRemove
    <3> QED
      BY <2>3, <2>7, <2>9, <3>1
  <2>11. SumFunctionOnSet(g, DOMAIN B) = SumFunctionOnSet(g, D)
    <3>1. CASE x \in DOMAIN B
      <4>1. SumFunctionOnSet(g, DOMAIN B) = g[x] + SumFunctionOnSet(g, DOMAIN B \ {x})
        BY <1>3, <2>2, <3>1, SumRemove
      <4> QED
        BY <2>4, <2>9, <3>1, <4>1 DEF D
    <3>2. CASE x \notin DOMAIN B
      BY <2>7, <3>2
    <3> QED
      BY <3>1, <3>2
  <2>12. o = SumFunctionOnSet(g, DOMAIN B)
    BY <2>6 DEF Represents, SumFunction, g
  <2> QED
    BY <2>6, <2>9, <2>10, <2>11, <2>12 DEF SumFunction, f
<1>10. Represents(A, Q, o)
  BY <1>4, <1>6, <1>7, <1>8, <1>9 DEF Represents
<1> QED
  BY <1>10 DEF A, Q, y

-----------------------------------------------------------------------------
(***************************************************************************)
(* The bag and the calls take a letter                                     *)
(***************************************************************************)

\* A letter chooses an edge for each state of each child.
Chooses(m) == \A i \in Child : \A d, x \in m.child[i] : d.from = x.from => d = x

TheStep(k, m) == CHOOSE s : s \in SyncSteps(k, m)
TheEdge(r, m) == CHOOSE d : d \in RunSteps(r, m)
WeightOf(k, m) == IF k.pending THEN 0 ELSE TheEdge(CallOf(k), m).weight

\* A key that does not wait has the edge of its call, if there is one.
LEMMA OneEdge ==
  ASSUME NEW m, LetterOK(m), Chooses(m), NEW k, KeyOK(k), ~k.pending => RunSteps(CallOf(k), m) # {}
  PROVE  /\ ~k.pending => RunSteps(CallOf(k), m) = {TheEdge(CallOf(k), m)}
         /\ WeightOf(k, m) \in Int /\ WeightOf(k, m) <= 0
         /\ ChildSteps(k, m) = {[weight |-> WeightOf(k, m),
                                to |-> IF k.pending THEN k.state ELSE TheEdge(CallOf(k), m).to]}
<1>1. CASE k.pending
  BY <1>1 DEF ChildSteps, WeightOf
<1>2. CASE ~k.pending
  <2>1. RunSteps(CallOf(k), m) = In(m.child[k.child], k.state)
    BY DEF RunSteps, CallOf
  <2>2. PICK d \in In(m.child[k.child], k.state) : TRUE
    BY <1>2, <2>1
  <2>3. k.child \in Child
    BY DEF KeyOK
  <2>4. In(m.child[k.child], k.state) = {d}
    BY <2>2, <2>3 DEF In, Chooses
  <2>5. d.weight \in Int /\ d.weight <= 0
    BY <2>2, <2>3 DEF In, LetterOK
  <2>6. TheEdge(CallOf(k), m) = d
    BY <2>1, <2>4 DEF TheEdge
  <2>7. ChildSteps(k, m) = {[weight |-> d.weight, to |-> d.to]}
    BY <1>2, <2>4 DEF ChildSteps
  <2> QED
    BY <1>2, <2>1, <2>4, <2>5, <2>6, <2>7 DEF WeightOf
<1> QED
  BY <1>1, <1>2

\* The step of a key is that of its call, if it does not wait.
LEMMA OneStep ==
  ASSUME NEW m, LetterOK(m), Chooses(m), NEW k, KeyOK(k), NEW e \in m.parent, e.from = k.parent,
         SyncSteps(k, m) # {}
  PROVE  /\ SyncSteps(k, m) = {TheStep(k, m)}
         /\ ~k.pending => RunSteps(CallOf(k), m) = {TheEdge(CallOf(k), m)}
         /\ WeightOf(k, m) \in Int /\ WeightOf(k, m) <= 0
         /\ TheStep(k, m).emit = IF Silent(e) THEN 0 ELSE k.acc + WeightOf(k, m)
         /\ TheStep(k, m).to.acc = IF Silent(e) THEN k.acc + WeightOf(k, m) ELSE 0
         /\ TheStep(k, m).to.child = k.child
         /\ TheStep(k, m).to.state = IF k.pending THEN k.state ELSE TheEdge(CallOf(k), m).to
         /\ TheStep(k, m).to.pending <=>
              Silent(e) /\ (k.pending \/ TheStep(k, m).to.state \in child[k.child].final)
<1> DEFINE move(x) == IF Silent(e) THEN SilentStep(k, e, x) ELSE CallingStep(k, e, x)
<1>1. In(m.parent, k.parent) = {e}
  BY DEF In, LetterOK
<1>2. SyncSteps(k, m) = {move(x) : x \in {y \in ChildSteps(k, m) : Silent(e) => -AccBound <= k.acc + y.weight}}
  BY <1>1 DEF SyncSteps
<1>3. PICK x \in ChildSteps(k, m) : move(x) \in SyncSteps(k, m)
  BY <1>2
<1>4. ~k.pending => RunSteps(CallOf(k), m) # {}
  BY <1>3 DEF ChildSteps, RunSteps, CallOf
<1>6. /\ ~k.pending => RunSteps(CallOf(k), m) = {TheEdge(CallOf(k), m)}
      /\ WeightOf(k, m) \in Int /\ WeightOf(k, m) <= 0
      /\ ChildSteps(k, m) = {x}
      /\ x.weight = WeightOf(k, m)
      /\ x.to = IF k.pending THEN k.state ELSE TheEdge(CallOf(k), m).to
  BY <1>3, <1>4, OneEdge
<1>7. SyncSteps(k, m) = {move(x)}
  BY <1>2, <1>3, <1>6
<1>8. TheStep(k, m) = move(x)
  BY <1>7 DEF TheStep
<1>0. k = [parent |-> k.parent, child |-> k.child, state |-> k.state,
           acc |-> k.acc, pending |-> k.pending]
  BY DEF KeyOK
<1>9. CASE Silent(e)
  <2> DEFINE waits == k.pending \/ x.to \in child[k.child].final
  <2>1. move(x) = [emit |-> 0, to |-> [k EXCEPT !.parent = e.to, !.state = x.to, !.acc = @ + x.weight, !.pending = waits]]
    BY <1>9 DEF SilentStep
  <2> HIDE DEF waits, move
  <2>3. move(x).to = [parent |-> e.to, child |-> k.child, state |-> x.to, acc |-> k.acc + x.weight, pending |-> waits]
    <3>1. move(x).to = [k EXCEPT !.parent = e.to, !.state = x.to, !.acc = @ + x.weight, !.pending = waits]
      BY <2>1
    <3> QED
      BY <1>0, <3>1
  <2>2. move(x).emit = 0
    BY <2>1
  <2>4. /\ move(x).to.acc = k.acc + x.weight /\ move(x).to.child = k.child
        /\ move(x).to.state = x.to /\ move(x).to.pending = waits
    BY <2>3
  <2> QED
    BY <1>6, <1>7, <1>8, <1>9, <2>2, <2>4 DEF waits
<1>10. CASE ~Silent(e)
  <2>1. move(x) = [emit |-> k.acc + x.weight, to |-> [k EXCEPT !.parent = e.to, !.state = x.to, !.acc = 0, !.pending = FALSE]]
    BY <1>10 DEF CallingStep
  <2> HIDE DEF move
  <2>3. move(x).to = [parent |-> e.to, child |-> k.child, state |-> x.to, acc |-> 0, pending |-> FALSE]
    <3>1. move(x).to = [k EXCEPT !.parent = e.to, !.state = x.to, !.acc = 0, !.pending = FALSE]
      BY <2>1
    <3> QED
      BY <1>0, <3>1
  <2>2. move(x).emit = k.acc + x.weight
    BY <2>1
  <2>4. /\ move(x).to.acc = 0 /\ move(x).to.child = k.child
        /\ move(x).to.state = x.to /\ move(x).to.pending = FALSE
    BY <2>3
  <2> QED
    BY <1>6, <1>7, <1>8, <1>10, <2>2, <2>4
<1> QED
  BY <1>9, <1>10

\* All calls are in step with edge e and have an edge on the letter.
AllStep(B, m, e) == \A k \in DOMAIN B : KeyOK(k) /\ k.parent = e.from /\ SyncSteps(k, m) # {}

\* They are in step, and those that do not wait have an edge of their child.
AllRead(B, m, e) ==
  \A k \in DOMAIN B : KeyOK(k) /\ k.parent = e.from /\ (~k.pending => RunSteps(CallOf(k), m) # {})

GoesTo(r, m) == <<r[1], TheEdge(r, m).to>>
Total(B, m) == [k \in DOMAIN B |-> B[k] * (k.acc + WeightOf(k, m))]

\* What the calls have accumulated and what they read is, call by call, what is
\* owed and what the runs read.
LEMMA TotalRead ==
  ASSUME NEW m, LetterOK(m), Chooses(m), NEW e \in m.parent,
         NEW A, NEW R, NEW o, Represents(A, R, o), AllRead(A, m, e)
  PROVE  /\ SumFunctionOnSet(Total(A, m), DOMAIN A) = o + WeightsRead(R, m)
         /\ o \in Int /\ WeightsRead(R, m) \in Int
<1> DEFINE D == DOMAIN A
           L == Live(A)
           acc == Accumulated(A)
           tot == Total(A, m)
           wts == [k \in D |-> A[k] * WeightOf(k, m)]
           call == [k \in L |-> CallOf(k)]
           weight == [r \in DOMAIN R |-> TheEdge(r, m).weight]
           read == [r \in DOMAIN R |-> R[r] * SumFunction([d \in RunSteps(r, m) |-> d.weight])]
<1>1. \A k \in D : /\ A[k] \in Int /\ k.acc \in Int /\ WeightOf(k, m) \in Int
                   /\ ~k.pending => RunSteps(CallOf(k), m) = {TheEdge(CallOf(k), m)}
  BY OneEdge DEF Represents, AllRead
<1>2. IsFiniteSet(D) /\ o = SumFunctionOnSet(acc, D)
  BY DEF Represents, SumFunction, Accumulated
<1>3. L \subseteq D /\ \A k \in D \ L : k.pending
  BY DEF Live
<1>4. IsFiniteSet(L) /\ IsFiniteSet(D \ L)
  <2>1. L \in SUBSET D /\ D \ L \in SUBSET D
    BY <1>3
  <2> QED
    BY <1>2, <2>1, FS_Subset
<1>5. \A k \in D : acc[k] \in Int /\ wts[k] \in Int /\ tot[k] = acc[k] + wts[k]
  BY <1>1, Distributes DEF Accumulated, Total
<1>6. SumFunctionOnSet(tot, D) = SumFunctionOnSet(acc, D) + SumFunctionOnSet(wts, D)
  <2> HIDE DEF tot, acc, wts, D
  <2> QED
    BY <1>2, <1>5, SumPlus
<1>7. SumFunctionOnSet(wts, D) = SumFunctionOnSet(wts, L)
  <2>1. \A k \in D \ L : wts[k] = 0
    BY <1>1, <1>3 DEF WeightOf
  <2>2. D = L \cup (D \ L) /\ L \cap (D \ L) = {}
    BY <1>3
  <2> HIDE DEF wts, D, L
  <2>3. SumFunctionOnSet(wts, D \ L) = 0
    BY <1>4, <2>1, SumZeros
  <2>4. \A k \in L : wts[k] \in Int
    BY <1>3, <1>5
  <2>5. SumFunctionOnSet(wts, L) \in Int
    BY <1>4, <2>4, SumRemove
  <2> DEFINE waiting == D \ L
  <2>6. \A k \in waiting : wts[k] \in Int
    BY <1>5
  <2> HIDE DEF waiting
  <2>7. SumFunctionOnSet(wts, L \cup waiting) = SumFunctionOnSet(wts, L) + SumFunctionOnSet(wts, waiting)
    BY <1>4, <2>2, <2>4, <2>6, SumUnion DEF waiting
  <2>8. D = L \cup waiting /\ SumFunctionOnSet(wts, waiting) = 0
    BY <2>2, <2>3 DEF waiting
  <2> QED
    BY <2>5, <2>7, <2>8
<1>8. \A r \in DOMAIN R : \E k \in L : CallOf(k) = r
  BY DEF Represents
<1>9. \A k \in L : CallOf(k) \in DOMAIN R
  BY DEF Represents
<1>10. \A r \in DOMAIN R : weight[r] \in Int /\ RunSteps(r, m) = {TheEdge(r, m)}
  <2> SUFFICES ASSUME NEW r \in DOMAIN R
               PROVE  TheEdge(r, m).weight \in Int /\ RunSteps(r, m) = {TheEdge(r, m)}
    OBVIOUS
  <2>1. PICK k \in L : CallOf(k) = r
    BY <1>8
  <2>2. k \in D /\ ~k.pending
    BY <2>1 DEF Live
  <2> QED
    BY <1>1, <2>1, <2>2 DEF WeightOf
<1>11. SumFunctionOnSet(read, DOMAIN R) = SumFunctionOnSet(wts, L)
  <2>1. ASSUME NEW k \in L
        PROVE  A[k] \in Int /\ call[k] \in DOMAIN R /\ wts[k] = weight[call[k]] * A[k]
    <3>1. k \in D /\ ~k.pending
      BY DEF Live
    <3>2. WeightOf(k, m) = weight[call[k]]
      BY <1>9, <3>1 DEF WeightOf
    <3>3. wts[k] = A[k] * WeightOf(k, m)
      BY <3>1
    <3> HIDE DEF wts, weight
    <3> QED
      BY <1>1, <1>9, <3>1, <3>2, <3>3
  <2>2. ASSUME NEW r \in DOMAIN R
        PROVE  /\ weight[r] \in Int
               /\ read[r] = weight[r] * SumFunctionOnSet(A, Fibre(call, L, r))
    <3> DEFINE wf == [d \in RunSteps(r, m) |-> d.weight]
               x == TheEdge(r, m)
    <3>1. Fibre(call, L, r) = LiveAt(A, r)
      BY DEF LiveAt, Fibre
    <3>2. R[r] = SumFunctionOnSet(A, LiveAt(A, r))
      BY DEF Represents
    <3>3. IsFiniteSet(LiveAt(A, r)) /\ \A k \in LiveAt(A, r) : A[k] \in Int
      <4>1. LiveAt(A, r) \in SUBSET D
        BY <1>3 DEF LiveAt
      <4> QED
        BY <1>1, <1>2, <4>1, FS_Subset
    <3>4. R[r] \in Int
      BY <3>2, <3>3, SumRemove
    <3>5. DOMAIN wf = {x} /\ wf[x] = weight[r]
      BY <1>10
    <3>6. SumFunction(wf) = weight[r]
      <4> HIDE DEF wf, x, weight
      <4> QED
        BY <1>10, <3>5, SumSingleton DEF SumFunction
    <3>7. read[r] = R[r] * SumFunction(wf)
      OBVIOUS
    <3>8. \A a, b \in Int : a * b = b * a
      OBVIOUS
    <3> HIDE DEF read, wf, weight, call, L
    <3>9. read[r] = weight[r] * R[r]
      BY <1>10, <3>4, <3>6, <3>7, <3>8
    <3> QED
      BY <1>10, <3>1, <3>2, <3>9
  <2>3. IsFiniteSet(DOMAIN R)
    <3>1. IsFiniteSet({call[k] : k \in L})
      <4> HIDE DEF call, L
      <4> QED
        BY <1>4, FiniteImage
    <3>2. DOMAIN R = {call[k] : k \in L}
      BY DEF Represents
    <3> QED
      BY <3>1, <3>2
  <2> DEFINE T == DOMAIN R
  <2>4. Carries(L, T, A, call, weight, wts)
    BY <2>1 DEF Carries
  <2>5. Gathers(L, T, A, call, weight, read)
    BY <2>2 DEF Gathers
  <2>6. IsFiniteSet(T)
    BY <2>3
  <2> HIDE DEF wts, L, call, weight, read, T
  <2>7. SumFunctionOnSet(read, T) = SumFunctionOnSet(wts, L)
    BY <1>4, <2>4, <2>5, <2>6, SumFibres
  <2> QED
    BY <2>7 DEF T
<1>12. WeightsRead(R, m) = SumFunctionOnSet(read, DOMAIN R)
  BY DEF WeightsRead, SumFunction
<1>13. SumFunctionOnSet(acc, D) \in Int /\ SumFunctionOnSet(wts, D) \in Int
  <2> HIDE DEF acc, wts, D
  <2> QED
    BY <1>2, <1>5, SumRemove
<1> HIDE DEF acc, wts, read, D
<1>14. WeightsRead(R, m) = SumFunctionOnSet(wts, D)
  BY <1>7, <1>11, <1>12
<1> QED
  BY <1>2, <1>6, <1>13, <1>14 DEF D

\* A bag that steps on a letter consists of calls that can read it.
LEMMA StepReads ==
  ASSUME NEW m, LetterOK(m), Chooses(m), NEW e \in m.parent, NEW A, AllStep(A, m, e)
  PROVE  AllRead(A, m, e)
<1> SUFFICES ASSUME NEW k \in DOMAIN A
             PROVE  KeyOK(k) /\ k.parent = e.from /\ (~k.pending => RunSteps(CallOf(k), m) # {})
  BY DEF AllRead
<1>1. KeyOK(k) /\ e.from = k.parent /\ SyncSteps(k, m) # {}
  BY DEF AllStep
<1>2. ~k.pending => RunSteps(CallOf(k), m) = {TheEdge(CallOf(k), m)}
  BY <1>1, OneStep
<1> QED
  BY <1>1, <1>2

\* What a letter emits.
LEMMA LetterEmits ==
  ASSUME NEW m, LetterOK(m), Chooses(m), NEW e \in m.parent,
         NEW A, NEW R, NEW o, Represents(A, R, o), AllStep(A, m, e)
  PROVE  SumOver(A, m) = IF Silent(e) THEN 0 ELSE o + WeightsRead(R, m)
<1> DEFINE D == DOMAIN A
           emits == [k \in D |-> A[k] * SumFunction([s \in SyncSteps(k, m) |-> s.emit])]
           tot == Total(A, m)
<1>1. IsFiniteSet(D) /\ \A k \in D : A[k] \in Int /\ k.acc \in Int
  BY DEF Represents
<1>2. SumOver(A, m) = SumFunctionOnSet(emits, D)
  BY DEF SumOver, SumFunction
<1>3. ASSUME NEW k \in D
      PROVE  /\ WeightOf(k, m) \in Int
             /\ emits[k] = IF Silent(e) THEN 0 ELSE A[k] * (k.acc + WeightOf(k, m))
  <2> DEFINE x == TheStep(k, m)
             ef == [s \in SyncSteps(k, m) |-> s.emit]
  <2>1. /\ SyncSteps(k, m) = {x} /\ WeightOf(k, m) \in Int
        /\ x.emit = IF Silent(e) THEN 0 ELSE k.acc + WeightOf(k, m)
    BY OneStep DEF AllStep
  <2>2. DOMAIN ef = {x} /\ ef[x] = x.emit /\ ef[x] \in Int
    BY <1>1, <2>1
  <2>3. SumFunction(ef) = x.emit
    <3> HIDE DEF ef, x
    <3> QED
      BY <2>2, SumSingleton DEF SumFunction
  <2>4. emits[k] = A[k] * SumFunction(ef)
    OBVIOUS
  <2> HIDE DEF emits, ef, x
  <2> QED
    BY <1>1, <2>1, <2>3, <2>4
<1>4. CASE Silent(e)
  <2>1. \A k \in D : emits[k] = 0
    BY <1>3, <1>4
  <2> HIDE DEF emits, D
  <2> QED
    BY <1>1, <1>2, <1>4, <2>1, SumZeros
<1>5. CASE ~Silent(e)
  <2>1. ASSUME NEW k \in D
        PROVE  tot[k] \in Int /\ emits[k] = tot[k]
    <3>1. tot[k] = A[k] * (k.acc + WeightOf(k, m))
      BY DEF Total
    <3>2. emits[k] = A[k] * (k.acc + WeightOf(k, m)) /\ WeightOf(k, m) \in Int
      BY <1>3, <1>5
    <3>3. A[k] \in Int /\ k.acc + WeightOf(k, m) \in Int
      BY <1>1, <3>2
    <3> HIDE DEF emits, tot
    <3> QED
      BY <3>1, <3>2, <3>3
  <2> HIDE DEF emits, tot
  <2>2. SumFunctionOnSet(emits, D) = SumFunctionOnSet(tot, D)
    BY <1>1, <2>1, SumSame
  <2> QED
    <3>1. AllRead(A, m, e)
      BY StepReads
    <3>2. SumFunctionOnSet(tot, D) = o + WeightsRead(R, m)
      BY <3>1, TotalRead DEF tot, D
    <3> HIDE DEF D, emits, tot
    <3> QED
      BY <1>2, <1>5, <2>2, <3>2
<1> QED
  BY <1>4, <1>5

\* Where the call of a key is after the letter, and when it is still counted.
LEMMA KeyGoesOn ==
  ASSUME NEW m, LetterOK(m), Chooses(m), NEW e \in m.parent,
         NEW A, NEW R, NEW o, Represents(A, R, o), AllStep(A, m, e), NEW k \in DOMAIN A,
         NEW t, t = TheStep(k, m).to
  PROVE  /\ SyncSteps(k, m) = {TheStep(k, m)}
         /\ t.acc = IF Silent(e) THEN k.acc + WeightOf(k, m) ELSE 0
         /\ t.acc \in Int
         /\ t.pending => EndedCall(CallOf(t))
         /\ Silent(e) => ~Ended(t)
         /\ ~t.pending /\ ~Ended(t) <=> ~k.pending /\ ~EndedCall(GoesTo(CallOf(k), m))
         /\ ~k.pending => CallOf(t) = GoesTo(CallOf(k), m)
<1>1. /\ SyncSteps(k, m) = {TheStep(k, m)}
      /\ WeightOf(k, m) \in Int
      /\ t.acc = IF Silent(e) THEN k.acc + WeightOf(k, m) ELSE 0
      /\ t.child = k.child
      /\ t.state = IF k.pending THEN k.state ELSE TheEdge(CallOf(k), m).to
      /\ t.pending <=> Silent(e) /\ (k.pending \/ t.state \in child[k.child].final)
  BY OneStep DEF AllStep
<1>2. k.acc \in Int /\ (k.pending => EndedCall(CallOf(k)))
  BY DEF Represents
<1>3. EndedCall(CallOf(t)) <=> t.state \in child[k.child].final
  BY <1>1 DEF EndedCall, CallOf
<1>4. Ended(t) <=> t.state \in child[k.child].final /\ ~t.pending
  BY <1>1 DEF Ended
<1>5. EndedCall(CallOf(k)) <=> k.state \in child[k.child].final
  BY DEF EndedCall, CallOf
<1>6. ~k.pending => CallOf(t) = GoesTo(CallOf(k), m)
  BY <1>1 DEF CallOf, GoesTo
<1>7. ~k.pending => (EndedCall(GoesTo(CallOf(k), m)) <=> t.state \in child[k.child].final)
  BY <1>3, <1>6
<1>8. k.pending => t.state \in child[k.child].final
  BY <1>1, <1>2, <1>5
<1>9. t.acc \in Int
  BY <1>1, <1>2
<1>10. t.pending => EndedCall(CallOf(t))
  BY <1>1, <1>3, <1>8
<1>11. Silent(e) => ~Ended(t)
  BY <1>1, <1>4
<1>12. ~t.pending /\ ~Ended(t) <=> ~k.pending /\ ~EndedCall(GoesTo(CallOf(k), m))
  BY <1>1, <1>4, <1>7, <1>8
<1> QED
  BY <1>1, <1>6, <1>9, <1>10, <1>11, <1>12

\* After the letter the bag stands for the calls that are still running.
LEMMA LetterRepresented ==
  ASSUME NEW m, LetterOK(m), Chooses(m), NEW e \in m.parent,
         NEW A, NEW R, NEW o, Represents(A, R, o), AllStep(A, m, e)
  PROVE  Represents(Advance(A, m), StillRunning(R, m),
                    IF Silent(e) THEN o + WeightsRead(R, m) ELSE 0)
<1> DEFINE D == DOMAIN A
           L == Live(A)
           go == [k \in D |-> TheStep(k, m).to]
           call == [k \in D |-> CallOf(k)]
           B == Advance(A, m)
           Q == StillRunning(R, m)
           on == DOMAIN B
<1>1. IsFiniteSet(D) /\ \A k \in D : A[k] \in Nat \ {0} /\ k.acc \in Int
  BY DEF Represents
<1>2. \A k \in D : /\ SyncSteps(k, m) = {TheStep(k, m)}
                   /\ go[k].acc = IF Silent(e) THEN k.acc + WeightOf(k, m) ELSE 0
                   /\ go[k].acc \in Int
                   /\ go[k].pending => EndedCall(CallOf(go[k]))
                   /\ Silent(e) => ~Ended(go[k])
                   /\ ~go[k].pending /\ ~Ended(go[k]) <=> ~k.pending /\ ~EndedCall(GoesTo(CallOf(k), m))
                   /\ ~k.pending => CallOf(go[k]) = GoesTo(CallOf(k), m)
  BY KeyGoesOn
<1>3. \A k \in D : {s.to : s \in SyncSteps(k, m)} = {go[k]}
  BY <1>2
<1>4. on = {t \in {go[k] : k \in D} : ~Ended(t)}
  BY <1>3 DEF Advance, Onwards
<1>5. \A t \in on : B[t] = SumFunctionOnSet(A, Fibre(go, D, t))
  <2> TAKE t \in on
  <2>1. {k \in D : \E s \in SyncSteps(k, m) : s.to = t} = Fibre(go, D, t)
    BY <1>2 DEF Fibre
  <2>2. B[t] = SumFunctionOnSet(A, {k \in D : \E s \in SyncSteps(k, m) : s.to = t})
    BY DEF Advance
  <2> QED
    BY <2>1, <2>2
<1>6. /\ \A k \in L : RunSteps(CallOf(k), m) = {TheEdge(CallOf(k), m)} /\ CallOf(k) \in DOMAIN R
      /\ \A r \in DOMAIN R : \E k \in L : CallOf(k) = r
  <2>1. \A k \in L : k \in D /\ ~k.pending
    BY DEF Live
  <2> QED
    BY <2>1, OneStep DEF Represents, AllStep
<1>7. \A r \in DOMAIN R : {<<r[1], d.to>> : d \in RunSteps(r, m)} = {GoesTo(r, m)}
  <2> TAKE r \in DOMAIN R
  <2>1. RunSteps(r, m) = {TheEdge(r, m)}
    BY <1>6
  <2> QED
    BY <2>1 DEF GoesTo
<1>8. DOMAIN Q = {x \in {GoesTo(r, m) : r \in DOMAIN R} : ~EndedCall(x)}
  BY <1>7 DEF StillRunning, EndedCall
<1>9. \A x \in DOMAIN Q : Q[x] = SumFunctionOnSet(R, {r \in DOMAIN R : GoesTo(r, m) = x})
  <2> TAKE x \in DOMAIN Q
  <2>1. {r \in DOMAIN R : x \in {<<r[1], d.to>> : d \in RunSteps(r, m)}} = {r \in DOMAIN R : GoesTo(r, m) = x}
    BY <1>7
  <2>2. Q[x] = SumFunctionOnSet(R, {r \in DOMAIN R : x \in {<<r[1], d.to>> : d \in RunSteps(r, m)}})
    BY DEF StillRunning
  <2> QED
    BY <2>1, <2>2
<1>10. L = {k \in D : ~k.pending} /\ DOMAIN go = D /\ \A k \in D : call[k] = CallOf(k)
  BY DEF Live
<1>11. /\ \A r : LiveAt(A, r) = {k \in L : CallOf(k) = r}
       /\ \A x : LiveAt(B, x) = {t \in on : ~t.pending /\ CallOf(t) = x}
       /\ \A r \in DOMAIN R : R[r] = SumFunctionOnSet(A, LiveAt(A, r))
       /\ o = SumFunctionOnSet(Accumulated(A), D)
  BY DEF LiveAt, Live, Represents, SumFunction, Accumulated
<1> HIDE DEF D, L, go, call, B, Q, on
<1>12. IsFiniteSet(on) /\ IsFiniteSet(DOMAIN R) /\ IsFiniteSet(L)
  <2>1. L \in SUBSET D /\ on \in SUBSET {go[k] : k \in D}
    BY <1>4, <1>10
  <2>2. IsFiniteSet({go[k] : k \in D})
    BY <1>1, FiniteImage
  <2>3. IsFiniteSet(L)
    BY <1>1, <2>1, FS_Subset
  <2>4. IsFiniteSet({call[k] : k \in L})
    BY <2>3, FiniteImage
  <2>5. DOMAIN R = {call[k] : k \in L}
    <3>1. \A k \in L : call[k] = CallOf(k)
      BY <1>10
    <3> QED
      BY <1>6, <3>1
  <2> QED
    BY <2>1, <2>2, <2>3, <2>4, <2>5, FS_Subset
<1>13. ASSUME NEW t \in on
       PROVE  /\ B[t] \in Nat \ {0} /\ t.acc \in Int
              /\ t.pending => EndedCall(CallOf(t))
  <2>1. PICK k \in D : go[k] = t
    BY <1>4
  <2>2. Fibre(go, D, t) \in SUBSET D /\ k \in Fibre(go, D, t)
    BY <2>1 DEF Fibre
  <2>3. IsFiniteSet(Fibre(go, D, t)) /\ \A j \in Fibre(go, D, t) : A[j] \in Nat
    BY <1>1, <2>2, FS_Subset
  <2>4. B[t] \in Nat /\ A[k] <= B[t]
    BY <1>5, <2>2, <2>3, SumNat
  <2>5. A[k] \in Nat \ {0}
    BY <1>1
  <2> QED
    BY <1>2, <2>1, <2>4, <2>5
<1>14. DOMAIN Q = {CallOf(t) : t \in Live(B)}
  <2>1. Live(B) = {t \in on : ~t.pending}
    BY DEF Live, on
  <2>2. ASSUME NEW x \in DOMAIN Q
        PROVE  \E t \in Live(B) : CallOf(t) = x
    <3>1. PICK r \in DOMAIN R : GoesTo(r, m) = x /\ ~EndedCall(x)
      BY <1>8
    <3>2. PICK k \in L : CallOf(k) = r
      BY <1>6
    <3>3. k \in D /\ ~k.pending
      BY <1>10
    <3>4. ~go[k].pending /\ ~Ended(go[k]) /\ CallOf(go[k]) = x
      BY <1>2, <3>1, <3>2, <3>3
    <3>5. go[k] \in Live(B)
      BY <1>4, <2>1, <3>3, <3>4
    <3> QED
      BY <3>4, <3>5
  <2>3. ASSUME NEW t \in Live(B)
        PROVE  CallOf(t) \in DOMAIN Q
    <3>1. PICK k \in D : go[k] = t /\ ~Ended(t) /\ ~t.pending
      BY <1>4, <2>1
    <3>2. ~k.pending /\ ~EndedCall(GoesTo(CallOf(k), m)) /\ CallOf(t) = GoesTo(CallOf(k), m)
      BY <1>2, <3>1
    <3>3. CallOf(k) \in DOMAIN R
      BY <1>6, <1>10, <3>2
    <3> QED
      BY <1>8, <3>2, <3>3
  <2> QED
    BY <2>2, <2>3
<1>15. ASSUME NEW x \in DOMAIN Q
       PROVE  Q[x] = SumFunctionOnSet(B, LiveAt(B, x))
  <2> DEFINE F == {k \in L : GoesTo(CallOf(k), m) = x}
             T == {r \in DOMAIN R : GoesTo(r, m) = x}
             U == LiveAt(B, x)
             one == [y \in T \cup U |-> 1]
  <2>0. ~EndedCall(x)
    BY <1>8
  <2>1. F \in SUBSET D /\ F \in SUBSET L /\ U \in SUBSET on /\ T \in SUBSET DOMAIN R
    BY <1>10, <1>11
  <2>2. IsFiniteSet(F) /\ IsFiniteSet(T) /\ IsFiniteSet(U)
    BY <1>12, <2>1, FS_Subset
  <2>3. Carries(F, T, A, call, one, A)
    BY <1>1, <1>6, <1>10, <2>1 DEF Carries
  <2>4. Gathers(F, T, A, call, one, R)
    <3> SUFFICES ASSUME NEW r \in T
                 PROVE  one[r] \in Int /\ R[r] = one[r] * SumFunctionOnSet(A, Fibre(call, F, r))
      BY DEF Gathers
    <3>1. Fibre(call, F, r) = LiveAt(A, r)
      BY <1>10, <1>11 DEF Fibre
    <3>2. LiveAt(A, r) \in SUBSET D
      BY <1>10, <1>11
    <3>3. IsFiniteSet(LiveAt(A, r)) /\ \A k \in LiveAt(A, r) : A[k] \in Int
      BY <1>1, <3>2, FS_Subset
    <3>4. SumFunctionOnSet(A, LiveAt(A, r)) \in Int
      BY <3>3, SumRemove
    <3>5. R[r] = SumFunctionOnSet(A, LiveAt(A, r)) /\ one[r] = 1
      BY <1>11
    <3> QED
      BY <3>1, <3>4, <3>5
  <2>5. Carries(F, U, A, go, one, A)
    <3> SUFFICES ASSUME NEW k \in F
                 PROVE  A[k] \in Int /\ go[k] \in U /\ A[k] = one[go[k]] * A[k]
      BY DEF Carries
    <3>1. k \in D /\ ~k.pending /\ A[k] \in Int /\ GoesTo(CallOf(k), m) = x
      BY <1>1, <1>10
    <3>2. ~go[k].pending /\ ~Ended(go[k]) /\ CallOf(go[k]) = x
      BY <1>2, <2>0, <3>1
    <3>3. go[k] \in U
      BY <1>4, <1>11, <3>1, <3>2
    <3>4. one[go[k]] = 1
      BY <3>3
    <3> QED
      BY <3>1, <3>3, <3>4
  <2>6. Gathers(F, U, A, go, one, B)
    <3> SUFFICES ASSUME NEW t \in U
                 PROVE  one[t] \in Int /\ B[t] = one[t] * SumFunctionOnSet(A, Fibre(go, F, t))
      BY DEF Gathers
    <3>1. t \in on /\ ~t.pending /\ ~Ended(t) /\ CallOf(t) = x
      BY <1>4, <1>11
    <3>2. Fibre(go, F, t) = Fibre(go, D, t)
      <4>1. ASSUME NEW k \in D, go[k] = t
            PROVE  k \in F
        BY <1>2, <1>10, <3>1, <4>1
      <4> QED
        BY <2>1, <4>1 DEF Fibre
    <3>3. B[t] = SumFunctionOnSet(A, Fibre(go, F, t)) /\ B[t] \in Int /\ one[t] = 1
      BY <1>5, <1>13, <3>1, <3>2
    <3> QED
      BY <3>3
  <2> HIDE DEF F, T, U, one
  <2>7. SumFunctionOnSet(R, T) = SumFunctionOnSet(A, F)
    BY <2>2, <2>3, <2>4, SumFibres
  <2>8. SumFunctionOnSet(B, U) = SumFunctionOnSet(A, F)
    BY <2>2, <2>5, <2>6, SumFibres
  <2> QED
    BY <1>9, <2>7, <2>8 DEF T, U
<1>16. SumFunction(Accumulated(B)) = IF Silent(e) THEN o + WeightsRead(R, m) ELSE 0
  <2> DEFINE acc == Accumulated(B)
             tot == Total(A, m)
             c == [t \in on |-> t.acc]
  <2>1. SumFunction(acc) = SumFunctionOnSet(acc, on) /\ \A t \in on : acc[t] = B[t] * t.acc
    BY DEF Accumulated, SumFunction, on
  <2>2. CASE ~Silent(e)
    <3>1. \A t \in on : t.acc = 0
      BY <1>2, <1>4, <2>2
    <3>2. \A t \in on : acc[t] = 0
      BY <1>13, <2>1, <3>1
    <3> HIDE DEF acc
    <3>3. SumFunctionOnSet(acc, on) = 0
      BY <1>12, <3>2, SumZeros
    <3> QED
      BY <2>1, <2>2, <3>3 DEF acc
  <2>3. CASE Silent(e)
    <3>0. \A a, b \in Int : a * b = b * a
      OBVIOUS
    <3>1. \A k \in D : tot[k] = A[k] * (k.acc + WeightOf(k, m))
      BY DEF Total, D
    <3> HIDE DEF tot
    <3>2. Carries(D, on, A, go, c, tot)
      <4> SUFFICES ASSUME NEW k \in D
                   PROVE  A[k] \in Int /\ go[k] \in on /\ tot[k] = c[go[k]] * A[k]
        BY DEF Carries
      <4>1. go[k].acc = k.acc + WeightOf(k, m) /\ go[k].acc \in Int /\ ~Ended(go[k])
        BY <1>2, <2>3
      <4>2. go[k] \in on
        BY <1>4, <4>1
      <4>3. c[go[k]] = go[k].acc
        BY <4>2
      <4>4. A[k] \in Int
        BY <1>1
      <4> HIDE DEF c
      <4> QED
        BY <3>0, <3>1, <4>1, <4>2, <4>3, <4>4
    <3>3. Gathers(D, on, A, go, c, acc)
      <4> SUFFICES ASSUME NEW t \in on
                   PROVE  c[t] \in Int /\ acc[t] = c[t] * SumFunctionOnSet(A, Fibre(go, D, t))
        BY DEF Gathers
      <4>1. B[t] = SumFunctionOnSet(A, Fibre(go, D, t)) /\ B[t] \in Int /\ c[t] = t.acc /\ t.acc \in Int
        BY <1>5, <1>13
      <4>2. acc[t] = B[t] * t.acc
        BY <2>1
      <4> HIDE DEF acc, c
      <4> QED
        BY <3>0, <4>1, <4>2
    <3> HIDE DEF acc, c
    <3>4. SumFunctionOnSet(acc, on) = SumFunctionOnSet(tot, D)
      BY <1>1, <1>12, <3>2, <3>3, SumFibres
    <3>5. SumFunctionOnSet(tot, D) = o + WeightsRead(R, m)
      BY StepReads, TotalRead DEF tot, D
    <3> QED
      BY <2>1, <2>3, <3>4, <3>5 DEF acc
  <2> QED
    BY <2>2, <2>3
<1>17. Represents(B, Q, IF Silent(e) THEN o + WeightsRead(R, m) ELSE 0)
  BY <1>12, <1>13, <1>14, <1>15, <1>16 DEF Represents, on
<1> QED
  BY <1>17 DEF B, Q

-----------------------------------------------------------------------------
(***************************************************************************)
(* What is emitted, and which letters are refused                          *)
(***************************************************************************)

CallsInv ==
  /\ Inv
  /\ \A m \in letters : Chooses(m)
  /\ Represents(bag, running, owed)
  /\ EmittedExact

\* A completed child has at most one edge on a symbol, as before.
LEMMA CompleteChooses ==
  ASSUME Inv, Complete
  PROVE  \A m \in letters' : Chooses(m)
<1> SUFFICES ASSUME NEW m \in letters', NEW i \in Child, NEW d \in m.child[i], NEW x \in m.child[i],
                    d.from = x.from
             PROVE  d = x
  BY DEF Chooses
<1> DEFINE c == child[i]
           sink == <<Sink, "copy">>
           open == c.states \ c.final
           missing == IF Missing(open, c.edges) = {} THEN {} ELSE Missing(open \cup {sink}, c.edges)
           added(y) == [from |-> y[1], symbol |-> y[2], weight |-> 0, to |-> sink]
<1>1. PICK a \in Symbol : m = [symbol |-> a, parent |-> On(CompleteParent, a),
                               child |-> [j \in Child |-> On(child'[j].edges, a)]]
  BY DEF Complete
<1>2. d \in child'[i].edges /\ x \in child'[i].edges /\ d.symbol = a /\ x.symbol = a
  BY <1>1 DEF On
<1>3. child'[i] = CompleteChild(c)
  BY DEF Complete
<1>4. \A f \in CompleteChild(c).edges : f \in c.edges \/ \E y \in missing : f = added(y)
  <2>1. CompleteChild(c).edges = c.edges \cup {added(y) : y \in missing}
    BY DEF CompleteChild
  <2> QED
    BY <2>1
<1>5. \A y \in missing : \A f \in c.edges : ~(f.from = y[1] /\ f.symbol = y[2])
  BY DEF Missing, On, In
<1>6. \A y : added(y).from = y[1] /\ added(y).symbol = y[2]
  OBVIOUS
<1>7. \A y \in missing : y = <<y[1], y[2]>>
  BY DEF Missing
<1>8. \A f, g \in c.edges : f.from = g.from /\ f.symbol = g.symbol => f = g
  BY DEF Complete, Deterministic, AtMostOne
<1> HIDE DEF c, missing, added
<1>9. CASE d \in c.edges /\ x \in c.edges
  BY <1>2, <1>8, <1>9
<1>10. CASE d \in c.edges /\ x \notin c.edges
  <2>1. PICK y \in missing : x = added(y)
    BY <1>2, <1>3, <1>4, <1>10
  <2> QED
    BY <1>2, <1>5, <1>6, <1>10, <2>1
<1>11. CASE d \notin c.edges /\ x \in c.edges
  <2>1. PICK y \in missing : d = added(y)
    BY <1>2, <1>3, <1>4, <1>11
  <2> QED
    BY <1>2, <1>5, <1>6, <1>11, <2>1
<1>12. CASE d \notin c.edges /\ x \notin c.edges
  <2>1. PICK y \in missing : d = added(y)
    BY <1>2, <1>3, <1>4, <1>12
  <2>2. PICK z \in missing : x = added(z)
    BY <1>2, <1>3, <1>4, <1>12
  <2>3. y = z
    BY <1>2, <1>6, <1>7, <2>1, <2>2
  <2> QED
    BY <2>1, <2>2, <2>3
<1> QED
  BY <1>9, <1>10, <1>11, <1>12

\* Whoever gets the edges of a child gets those of one child, for their rank is
\* that child's alone.
LEMMA OneBusyChild ==
  ASSUME NEW busy \in SUBSET Child, NEW i \in busy, NEW j \in busy,
         Cardinality({l \in busy : l <= i}) = Cardinality({l \in busy : l <= j})
  PROVE  i = j
<1>1. IsFiniteSet(busy) /\ busy \subseteq Int
  <2>1. IsFiniteSet(Child)
    BY PreSyncAssumption
  <2>2. IsFiniteSet(busy)
    BY <2>1, FS_Subset
  <2>3. Cardinality(Child) \in Nat
    BY <2>1, FS_CardinalityType
  <2>4. \A x \in Child : x \in 1..Cardinality(Child)
    BY PreSyncAssumption
  <2> QED
    BY <2>2, <2>3, <2>4
<1>2. ASSUME NEW x \in busy, NEW y \in busy, x < y,
             Cardinality({l \in busy : l <= x}) = Cardinality({l \in busy : l <= y})
      PROVE  FALSE
  <2> DEFINE X == {l \in busy : l <= x}
             Y == {l \in busy : l <= y}
  <2>0. \A l \in busy : l \in Int
    BY <1>1
  <2>1. X \in SUBSET Y /\ y \in Y /\ y \notin X /\ Y \in SUBSET busy
    BY <1>2, <2>0
  <2>2. Cardinality(X) = Cardinality(Y)
    BY <1>2
  <2> HIDE DEF X, Y
  <2>3. IsFiniteSet(Y)
    BY <1>1, <2>1, FS_Subset
  <2>4. X = Y
    BY <2>1, <2>2, <2>3, FS_Subset
  <2> QED
    BY <2>1, <2>4
<1>3. i \in Int /\ j \in Int
  BY <1>1
<1>4. i < j \/ j < i \/ i = j
  BY <1>3
<1> QED
  BY <1>2, <1>4

\* After determinization a letter chooses one edge for each state of a child.
LEMMA DeterminizeChooses ==
  ASSUME Inv, Determinize
  PROVE  \A m \in letters' : Chooses(m)
<1> SUFFICES ASSUME NEW m \in letters', NEW k \in Child, NEW d \in m.child[k], NEW x \in m.child[k],
                    d.from = x.from
             PROVE  d = x
  BY DEF Chooses
<1>0. PICK a \in Symbol : \E P \in EdgeChoices(On(nested.edges, a)), f \in ChildChoices(a) :
        m = [symbol |-> a, parent |-> P, child |-> Attributed(f)]
  BY DEF Determinize
<1>1. PICK P \in EdgeChoices(On(nested.edges, a)), f \in ChildChoices(a) :
        m = [symbol |-> a, parent |-> P, child |-> Attributed(f)]
  BY <1>0
<1> DEFINE busy == {i \in Child : f[i] # {}}
           rank(i) == Cardinality({l \in busy : l <= i})
<1>2. \A i \in Child : AtMostOne(f[i]) /\ \A y \in f[i] : y.symbol = a
  BY DEF ChildChoices, EdgeChoices, On
<1>3. \A y \in Attributed(f)[k] : \E i \in busy : y \in f[i] /\ rank(i) = k
  <2> DEFINE taken(n) == UNION {f[i] : i \in {j \in busy : rank(j) = n}}
  <2>1. Attributed(f) = [n \in Child |->
                          {y \in taken(n) : y.from \in child[n].states /\ y.to \in child[n].states}]
    BY DEF Attributed
  <2>2. Attributed(f)[k] \subseteq taken(k)
    <3> HIDE DEF taken
    <3> QED
      BY <2>1
  <2> HIDE DEF rank, busy
  <2> QED
    BY <2>2
<1>4. d \in Attributed(f)[k] /\ x \in Attributed(f)[k]
  BY <1>1
<1>5. PICK i \in busy : d \in f[i] /\ rank(i) = k
  BY <1>3, <1>4
<1>6. PICK j \in busy : x \in f[j] /\ rank(j) = k
  BY <1>3, <1>4
<1>7. busy \in SUBSET Child
  OBVIOUS
<1>8. rank(i) = rank(j)
  BY <1>5, <1>6
<1> HIDE DEF busy
<1>9. i = j
  BY <1>5, <1>6, <1>7, <1>8, OneBusyChild
<1> QED
  BY <1>2, <1>5, <1>6, <1>7, <1>9 DEF AtMostOne

\* The calls that read a letter, the one its edge makes included, are what the
\* bag stands for.
LEMMA ReadingRepresented ==
  ASSUME CallsInv, NEW m \in letters, NEW e \in In(m.parent, parent)
  PROVE  /\ LetterOK(m) /\ Chooses(m) /\ e \in m.parent
         /\ Represents(Active(e), Reading(e), owed)
         /\ \A k \in DOMAIN Active(e) : KeyOK(k) /\ k.parent = e.from
<1>1. LetterOK(m) /\ Chooses(m) /\ e \in m.parent /\ e.from = parent
  BY DEF CallsInv, Inv, In
<1>2. \A k \in DOMAIN bag : KeyOK(k) /\ k.parent = e.from
  BY <1>1 DEF CallsInv, Inv, InStep
<1>3. Represents(bag, running, owed)
  BY DEF CallsInv
<1>4. CASE Silent(e)
  BY <1>1, <1>2, <1>3, <1>4 DEF Active, Reading
<1>5. CASE ~Silent(e)
  <2>1. KeyOK(Seed(e)) /\ Seed(e).parent = e.from
    BY <1>1, <1>5, SeedOK
  <2>2. CallOf(Seed(e)) = Start(e.call) /\ Seed(e).acc = 0 /\ Seed(e).pending = FALSE
    BY DEF CallOf, Seed, Start
  <2>3. Active(e) = Bags!BagAdd(bag, Seed(e)) /\ Reading(e) = Bags!BagAdd(running, Start(e.call))
    BY <1>5 DEF Active, Reading
  <2>4. Represents(Bags!BagAdd(bag, Seed(e)), Bags!BagAdd(running, CallOf(Seed(e))), owed)
    BY <1>3, <2>2, CallRepresented
  <2>5. DOMAIN Active(e) = DOMAIN bag \cup {Seed(e)}
    BY <2>3 DEF Bags!BagAdd
  <2> QED
    BY <1>1, <1>2, <2>1, <2>2, <2>3, <2>4, <2>5
<1> QED
  BY <1>4, <1>5

\* A letter keeps the bag of calls in agreement with the calls that run.
LEMMA CallsLetter ==
  ASSUME CallsInv, NEW m \in letters, NEW e \in In(m.parent, parent), Letter(m, e)
  PROVE  CallsInv'
<1> DEFINE A == Active(e)
           R == Reading(e)
           B == Advance(A, m)
           Q == StillRunning(R, m)
           o == IF Silent(e) THEN owed + WeightsRead(R, m) ELSE 0
<1>1. Inv'
  BY LetterKeeps DEF CallsInv
<1>2. /\ LetterOK(m) /\ Chooses(m) /\ e \in m.parent
      /\ Represents(A, R, owed)
      /\ \A k \in DOMAIN A : KeyOK(k) /\ k.parent = e.from
  BY ReadingRepresented
<1>3. AllStep(A, m, e)
  BY <1>2 DEF AllStep, Letter, CanStep
<1>4. Represents(B, Q, o)
  BY <1>2, <1>3, LetterRepresented
<1>5. SumOver(A, m) = IF Silent(e) THEN 0 ELSE owed + WeightsRead(R, m)
  BY <1>2, <1>3, LetterEmits
<1>6. /\ bag' = B /\ running' = Q /\ owed' = o
      /\ emitted' = SumOver(A, m)
      /\ due' = IF Silent(e) THEN 0 ELSE owed + WeightsRead(R, m)
      /\ UNCHANGED <<child, letters>>
  BY DEF Letter, preSync
<1> HIDE DEF B, Q, o
<1>7. Represents(bag, running, owed)'
  BY <1>4, <1>6 DEF Represents, EndedCall, LiveAt, Live, Accumulated, CallOf
<1>8. EmittedExact'
  BY <1>5, <1>6 DEF EmittedExact
<1>9. \A l \in letters' : Chooses(l)'
  BY <1>6 DEF CallsInv, Chooses
<1> QED
  BY <1>1, <1>7, <1>8, <1>9 DEF CallsInv

\* Nobody calls during the preparation.
LEMMA CallsPrepare ==
  ASSUME CallsInv, Prepare
  PROVE  CallsInv'
<1>1. Inv'
  BY PrepareKeeps DEF CallsInv
<1>2. DOMAIN bag = {} /\ UNCHANGED <<bag, running, owed, emitted, due>>
  BY DEF Prepare, PreSyncNext, Split, Complete, Determinize, flat, calls, CallsInv, Inv
<1>3. Represents(bag, running, owed)'
  BY <1>2 DEF CallsInv, Represents, EndedCall, LiveAt, Live, Accumulated, CallOf
<1>4. \A l \in letters' : Chooses(l)'
  <2>1. CASE Split
    BY <2>1 DEF CallsInv, Split, Chooses
  <2>2. CASE Complete
    BY <2>2, CompleteChooses DEF CallsInv, Chooses
  <2>3. CASE Determinize
    BY <2>3, DeterminizeChooses DEF CallsInv, Chooses
  <2> QED
    BY <2>1, <2>2, <2>3 DEF Prepare, PreSyncNext
<1>5. EmittedExact'
  BY <1>2 DEF CallsInv, EmittedExact
<1> QED
  BY <1>1, <1>3, <1>4, <1>5 DEF CallsInv

\* There are no calls at the start.
LEMMA CallsInit == Init => CallsInv
<1> SUFFICES ASSUME Init PROVE CallsInv
  OBVIOUS
<1>1. letters = {} /\ bag = << >> /\ running = << >> /\ owed = 0 /\ emitted = due
  BY DEF Init, PreSyncInit
<1>2. DOMAIN bag = {} /\ DOMAIN running = {}
  BY <1>1
<1>3. IsFiniteSet(DOMAIN bag) /\ Live(bag) = {} /\ DOMAIN Accumulated(bag) = {}
  BY <1>2, FS_EmptySet DEF Live, Accumulated
<1>4. SumFunction(Accumulated(bag)) = 0
  BY <1>3, SumEmpty DEF SumFunction
<1>5. Represents(bag, running, owed)
  BY <1>1, <1>2, <1>3, <1>4 DEF Represents
<1> QED
  BY <1>1, <1>5, InvInit DEF CallsInv, EmittedExact

\* Every step keeps the agreement.
LEMMA CallsStep == CallsInv /\ [Next]_vars => CallsInv'
<1> SUFFICES ASSUME CallsInv, [Next]_vars PROVE CallsInv'
  OBVIOUS
<1>1. CASE Prepare
  BY <1>1, CallsPrepare
<1>2. ASSUME NEW m \in letters, NEW e \in In(m.parent, parent), Letter(m, e)
      PROVE  CallsInv'
  BY <1>2, CallsLetter
<1>3. CASE UNCHANGED vars
  <2>1. UNCHANGED <<nested, stage, child, letters, parent, bag, emitted, running, owed, due>>
    BY <1>3 DEF vars, preSync, flat, calls
  <2>2. Inv'
    BY <1>3, InvStep DEF CallsInv
  <2>3. Represents(bag, running, owed)'
    BY <2>1 DEF CallsInv, Represents, EndedCall, LiveAt, Live, Accumulated, CallOf
  <2> QED
    BY <2>1, <2>2, <2>3 DEF CallsInv, Chooses, EmittedExact
<1> QED
  BY <1>1, <1>2, <1>3 DEF Next

\* For every nested automaton and word: what the flattened automaton emits when
\* the parent calls is all that the children read since it last called, and it
\* emits nothing otherwise.
THEOREM EmittedCorrect == Spec => []EmittedExact
<1>1. CallsInv => EmittedExact
  BY DEF CallsInv
<1> QED
  BY CallsInit, CallsStep, <1>1, PTL DEF Spec

\* A letter that all calls take is one that all runs can read.
LEMMA StepReadable ==
  ASSUME CallsInv, NEW m \in letters, NEW e \in In(m.parent, parent), CanStep(Active(e), m),
         NEW r \in DOMAIN Reading(e)
  PROVE  r[2] \notin child[r[1]].final /\ RunSteps(r, m) # {}
<1> DEFINE A == Active(e)
           R == Reading(e)
<1>1. /\ LetterOK(m) /\ Chooses(m) /\ e \in m.parent
      /\ Represents(A, R, owed)
      /\ \A k \in DOMAIN A : KeyOK(k) /\ k.parent = e.from
  BY ReadingRepresented
<1>2. PICK k \in Live(A) : CallOf(k) = r
  BY <1>1 DEF Represents
<1>3. k \in DOMAIN A /\ ~k.pending
  BY DEF Live
<1>4. SyncSteps(k, m) # {}
  BY <1>3 DEF CanStep
<1>5. ~Ended(k)
  BY <1>4 DEF SyncSteps
<1>6. RunSteps(CallOf(k), m) = {TheEdge(CallOf(k), m)}
  BY <1>1, <1>3, <1>4, OneStep
<1> QED
  BY <1>2, <1>3, <1>5, <1>6 DEF Ended, CallOf

\* A letter that all runs can read is taken, as long as the calls are as many
\* as the bound allows, and so is what has been accumulated.
LEMMA ReadableSteps ==
  ASSUME CallsInv, NEW m \in letters, NEW e \in In(m.parent, parent),
         \A r \in DOMAIN Reading(e) : r[2] \notin child[r[1]].final /\ RunSteps(r, m) # {},
         SumFunction(Active(e)) <= CBound,
         -AccBound <= owed + WeightsRead(Reading(e), m)
  PROVE  CanStep(Active(e), m)
<1> DEFINE A == Active(e)
           R == Reading(e)
           D == DOMAIN A
           tot == Total(A, m)
<1>1. /\ LetterOK(m) /\ Chooses(m) /\ e \in m.parent
      /\ Represents(A, R, owed)
      /\ \A k \in D : KeyOK(k) /\ k.parent = e.from
  BY ReadingRepresented
<1>2. IsFiniteSet(D) /\ \A k \in D : A[k] \in Nat \ {0} /\ k.acc \in Int
  BY <1>1 DEF Represents
<1>3. \A k \in D : ~k.pending => CallOf(k) \in DOMAIN R
  BY <1>1 DEF Represents, Live
<1>4. AllRead(A, m, e)
  BY <1>1, <1>3 DEF AllRead
<1>5. \A k \in D : /\ WeightOf(k, m) \in Int /\ WeightOf(k, m) <= 0
                   /\ \E y : ChildSteps(k, m) = {[weight |-> WeightOf(k, m), to |-> y]}
  BY <1>1, <1>4, OneEdge DEF AllRead
<1>6. SumFunctionOnSet(tot, D) = owed + WeightsRead(R, m)
  BY <1>1, <1>4, TotalRead
<1>7. ASSUME NEW k \in D
      PROVE  /\ tot[k] \in Int /\ tot[k] <= 0
             /\ tot[k] <= k.acc + WeightOf(k, m)
  <2> DEFINE n == A[k]
             a == k.acc + WeightOf(k, m)
  <2>1. n \in Nat \ {0} /\ a \in Int /\ a <= 0
    <3>1. k.acc <= 0
      BY <1>1, SumMinusAssumption DEF KeyOK
    <3> QED
      BY <1>2, <1>5, <3>1
  <2>2. tot[k] = n * a
    BY DEF Total
  <2> HIDE DEF n, a, tot
  <2>3. n * a \in Int /\ n * a <= a
    <3>1. (n - 1) * a <= 0
      BY <2>1
    <3>2. n * a = (n - 1) * a + a
      BY <2>1
    <3> QED
      BY <2>1, <3>1, <3>2
  <2> QED
    BY <2>1, <2>2, <2>3 DEF a
<1>8. \A k \in D : SumFunctionOnSet(tot, D) <= tot[k]
  <2> HIDE DEF tot, D
  <2> QED
    BY <1>2, <1>7, SumNegative
<1>9. SumFunctionOnSet(tot, D) \in Int
  <2> HIDE DEF tot, D
  <2> QED
    BY <1>2, <1>7, SumRemove
<1>10. ASSUME NEW k \in D
       PROVE  SyncSteps(k, m) # {}
  <2>1. -AccBound <= k.acc + WeightOf(k, m)
    <3>1. AccBound \in Nat
      BY SumMinusAssumption
    <3>2. -AccBound <= SumFunctionOnSet(tot, D) /\ SumFunctionOnSet(tot, D) <= tot[k]
      BY <1>6, <1>8
    <3> HIDE DEF tot, D
    <3> QED
      BY <1>2, <1>5, <1>7, <1>9, <3>1, <3>2 DEF D
  <2>2. ~Ended(k)
    <3>1. CASE k.pending
      BY <3>1 DEF Ended
    <3>2. CASE ~k.pending
      BY <1>3, <3>2 DEF Ended, CallOf
    <3> QED
      BY <3>1, <3>2
  <2>3. PICK y : ChildSteps(k, m) = {[weight |-> WeightOf(k, m), to |-> y]}
    BY <1>5
  <2>4. e \in In(m.parent, k.parent)
    BY <1>1 DEF In
  <2> DEFINE x == [weight |-> WeightOf(k, m), to |-> y]
  <2>5. x \in ChildSteps(k, m) /\ -AccBound <= k.acc + x.weight
    BY <2>1, <2>3
  <2> QED
    BY <2>2, <2>4, <2>5 DEF SyncSteps
<1>11. ASSUME NEW t \in Onwards(A, m)
       PROVE  Advance(A, m)[t] <= CBound
  <2> DEFINE F == {k \in D : \E s \in SyncSteps(k, m) : s.to = t}
  <2>1. F \in SUBSET D
    OBVIOUS
  <2>2. Advance(A, m)[t] = SumFunctionOnSet(A, F)
    BY DEF Advance
  <2>3. SumFunctionOnSet(A, D) <= CBound
    BY DEF SumFunction
  <2> HIDE DEF F, D, A
  <2>4. \A k \in D : A[k] \in Nat
    BY <1>2
  <2>5. /\ SumFunctionOnSet(A, F) \in Nat /\ SumFunctionOnSet(A, D) \in Nat
        /\ SumFunctionOnSet(A, F) <= SumFunctionOnSet(A, D)
    BY <1>2, <2>1, <2>4, SumNat
  <2>6. CBound \in Nat
    BY SumMinusAssumption
  <2> QED
    BY <2>2, <2>3, <2>5, <2>6
<1> QED
  BY <1>10, <1>11 DEF CanStep

\* For every nested automaton and word: a letter is refused exactly when a child
\* cannot read it, or a bound is reached.
THEOREM RefusedCorrect == Spec => []RefusedExactly
<1>1. CallsInv => RefusedExactly
  BY StepReadable, ReadableSteps DEF RefusedExactly
<1> QED
  BY CallsInit, CallsStep, <1>1, PTL DEF Spec


-----------------------------------------------------------------------------
(***************************************************************************)
(* What a child can return                                                 *)
(***************************************************************************)

\* The edges for each symbol have integers for weights.
IntegerEdges(edges) == \A a \in Symbol : \A e \in edges[a] : e.weight \in Int

IsWord(u, n) == n \in Nat /\ u \in [1..n -> Symbol]

\* What After computes, letter by letter.
LEMMA AfterSteps ==
  ASSUME NEW edges, NEW start, NEW n, NEW u, IsWord(u, n), IntegerEdges(edges)
  PROVE  /\ After(edges, start, u)[0] = {<<start, 0>>}
         /\ \A k \in 1..n : After(edges, start, u)[k] = Steps(edges[u[k]], After(edges, start, u)[k - 1])
         /\ Len(u) = n
<1> DEFINE Q == {start} \cup {e.to : e \in UNION {edges[a] : a \in Symbol}}
           S == SUBSET (Q \X Int)
           step == [x \in (1..n) \X S |-> Steps(edges[u[x[1]]], x[2])]
           Def(h) == [k \in 0..n |-> IF k = 0 THEN {<<start, 0>>} ELSE Steps(edges[u[k]], h[k - 1])]
           W == After(edges, start, u)
<1> USE DEF IsWord
<1>0. Len(u) = n
  OBVIOUS
<1>1. \A a \in Symbol, R \in S : Steps(edges[a], R) \in S
  <2> TAKE a \in Symbol, R \in S
  <2>0. ASSUME NEW x \in R, NEW e \in In(edges[a], x[1])
        PROVE  <<e.to, x[2] + e.weight>> \in Q \X Int
    <3>1. e \in edges[a]
      BY DEF In
    <3>2. e.to \in Q /\ e.weight \in Int
      BY <3>1 DEF IntegerEdges
    <3>3. x[2] \in Int
      OBVIOUS
    <3> QED
      BY <3>2, <3>3
  <2> HIDE DEF Q
  <2> QED
    BY <2>0 DEF Steps
<1>2. W = CHOOSE h : h = Def(h)
  BY <1>0 DEF After
<1>3. \A k \in 1..n : u[k] \in Symbol
  OBVIOUS
<1>4. {<<start, 0>>} \in S
  OBVIOUS
<1> HIDE DEF W, Q, S
<1>5. step \in [(1..n) \X S -> S]
  BY <1>1, <1>3
<1>6. \A k \in 1..n, R \in S : step[<<k, R>>] = Steps(edges[u[k]], R)
  OBVIOUS
<1> HIDE DEF step
<1>7. PICK h : Iterates(h, n, S, {<<start, 0>>}, step)
  BY <1>4, <1>5, Recursion
<1>8. h \in [0..n -> S] /\ h[0] = {<<start, 0>>} /\ \A k \in 1..n : h[k] = Steps(edges[u[k]], h[k - 1])
  <2>1. h \in [0..n -> S] /\ h[0] = {<<start, 0>>} /\ \A k \in 1..n : h[k] = step[<<k, h[k - 1]>>]
    BY <1>7 DEF Iterates
  <2>2. ASSUME NEW k \in 1..n
        PROVE  h[k] = Steps(edges[u[k]], h[k - 1])
    <3>1. h[k - 1] \in S
      BY <2>1
    <3> QED
      BY <1>6, <2>1, <3>1
  <2> QED
    BY <2>1, <2>2
<1>9. h = Def(h)
  <2>1. \A k \in 0..n : h[k] = IF k = 0 THEN {<<start, 0>>} ELSE Steps(edges[u[k]], h[k - 1])
    BY <1>8
  <2> QED
    BY <1>8, <2>1
<1>10. W = Def(W)
  BY <1>2, <1>9
<1>11. \A k \in 0..n : W[k] = IF k = 0 THEN {<<start, 0>>} ELSE Steps(edges[u[k]], W[k - 1])
  <2>1. \A k \in 0..n : Def(W)[k] = IF k = 0 THEN {<<start, 0>>} ELSE Steps(edges[u[k]], W[k - 1])
    OBVIOUS
  <2> HIDE DEF Def
  <2> QED
    BY <1>10, <2>1
<1> QED
  BY <1>0, <1>11 DEF W

\* The state where runs end that do not return.
Trap == <<Sink, "copy">>

\* Child i is the split child, but for edges to the sink.
KeptChild(i) ==
  LET c == nested.child[i]
  IN  /\ child[i].initial = SplitChild(c).initial
      /\ child[i].final = SplitChild(c).final
      /\ \A a \in Symbol : /\ {e \in LetterEdges(i)[a] : e.to # Trap} = On(SplitChild(c).edges, a)
                           /\ \A e \in LetterEdges(i)[a] : /\ e.weight \in Int
                                                           /\ e.from = Trap => e.to = Trap

\* A state and what has become of it.
LEMMA Targets ==
  ASSUME NEW c, NEW s
  PROVE  /\ SourceOf(c, s) \in TargetsOf(c, s)
         /\ \A r, t : t \in TargetsOf(c, s) /\ t \in TargetsOf(c, r) => r = s
         /\ \A t \in TargetsOf(c, s) : t = Trap => s = Sink
         /\ TargetsOf(c, s) \ {<<s, "cont">>} # {}
         /\ TargetsOf(c, s) \ {<<s, "cont">>} \subseteq TargetsOf(c, s)
<1>1. CASE Splits(c, s)
  <2>1. SourceOf(c, s) = <<s, "cont">> /\ TargetsOf(c, s) = {<<s, "stop">>, <<s, "cont">>}
    BY <1>1 DEF SourceOf, TargetsOf
  <2>2. <<s, "stop">> \in TargetsOf(c, s) \ {<<s, "cont">>}
    BY <2>1
  <2> QED
    BY <2>1, <2>2 DEF TargetsOf, Trap
<1>2. CASE ~Splits(c, s)
  <2>1. SourceOf(c, s) = <<s, "copy">> /\ TargetsOf(c, s) = {<<s, "copy">>}
    BY <1>2 DEF SourceOf, TargetsOf
  <2>2. <<s, "copy">> \in TargetsOf(c, s) \ {<<s, "cont">>}
    BY <2>1
  <2> QED
    BY <2>1, <2>2 DEF TargetsOf, Trap
<1> QED
  BY <1>1, <1>2

\* The edges of the split child.
LEMMA SplitEdges ==
  ASSUME NEW c, NEW a
  PROVE  /\ \A d \in On(c.edges, a) : \A t \in TargetsOf(c, d.to) :
              [from |-> SourceOf(c, d.from), symbol |-> d.symbol, weight |-> d.weight, to |-> t]
                \in On(SplitChild(c).edges, a)
         /\ \A e \in On(SplitChild(c).edges, a) : \E d \in On(c.edges, a) :
              e.from = SourceOf(c, d.from) /\ e.weight = d.weight /\ e.to \in TargetsOf(c, d.to)
<1>1. SplitChild(c).edges =
        UNION {{[from |-> SourceOf(c, d.from), symbol |-> d.symbol, weight |-> d.weight, to |-> t] :
                  t \in TargetsOf(c, d.to)} : d \in c.edges}
  BY DEF SplitChild
<1>2. \A d \in c.edges : \A t \in TargetsOf(c, d.to) :
        [from |-> SourceOf(c, d.from), symbol |-> d.symbol, weight |-> d.weight, to |-> t] \in SplitChild(c).edges
  BY <1>1
<1>3. ASSUME NEW e \in On(SplitChild(c).edges, a)
      PROVE  \E d \in On(c.edges, a) :
               e.from = SourceOf(c, d.from) /\ e.weight = d.weight /\ e.to \in TargetsOf(c, d.to)
  <2>1. e \in SplitChild(c).edges /\ e.symbol = a
    BY DEF On
  <2>2. PICK d \in c.edges : \E t \in TargetsOf(c, d.to) :
          e = [from |-> SourceOf(c, d.from), symbol |-> d.symbol, weight |-> d.weight, to |-> t]
    BY <1>1, <2>1
  <2>3. /\ e.from = SourceOf(c, d.from) /\ e.weight = d.weight
        /\ e.to \in TargetsOf(c, d.to) /\ e.symbol = d.symbol
    BY <2>2
  <2>4. d \in On(c.edges, a)
    BY <2>1, <2>3 DEF On
  <2> QED
    BY <2>3, <2>4
<1> QED
  BY <1>2, <1>3 DEF On

\* Where the runs of the split child are, and where those of the child given
\* are: G of these, L of those.
Meets(c, G, L) ==
  /\ \A y \in L : y[1] # Trap => \E x \in G : y[1] \in TargetsOf(c, x[1]) /\ y[2] = x[2]
  /\ \A x \in G : <<SourceOf(c, x[1]), x[2]>> \in L

Covers(c, G, L) == \A x \in G : \A t \in TargetsOf(c, x[1]) : <<t, x[2]>> \in L

\* Runs of the given child and of the prepared one that meet still meet after a
\* letter.
LEMMA MeetsStep ==
  ASSUME NEW i \in Child, KeptChild(i), NEW a \in Symbol, NEW G, NEW L,
         Meets(nested.child[i], G, L)
  PROVE  /\ Meets(nested.child[i], Steps(GivenEdges(i)[a], G), Steps(LetterEdges(i)[a], L))
         /\ Covers(nested.child[i], Steps(GivenEdges(i)[a], G), Steps(LetterEdges(i)[a], L))
<1> DEFINE c == nested.child[i]
           D == GivenEdges(i)[a]
           E == LetterEdges(i)[a]
<1>1. D = On(c.edges, a)
  BY DEF GivenEdges
<1>2. /\ {e \in E : e.to # Trap} = On(SplitChild(c).edges, a)
      /\ \A e \in E : e.from = Trap => e.to = Trap
  BY DEF KeptChild
<1>3. /\ \A d \in D : \A t \in TargetsOf(c, d.to) :
           [from |-> SourceOf(c, d.from), symbol |-> d.symbol, weight |-> d.weight, to |-> t]
             \in On(SplitChild(c).edges, a)
      /\ \A e \in On(SplitChild(c).edges, a) : \E d \in D :
           e.from = SourceOf(c, d.from) /\ e.weight = d.weight /\ e.to \in TargetsOf(c, d.to)
  BY <1>1, SplitEdges
<1> HIDE DEF c, D, E
<1>4. ASSUME NEW y \in Steps(E, L), y[1] # Trap
      PROVE  \E x \in Steps(D, G) : y[1] \in TargetsOf(c, x[1]) /\ y[2] = x[2]
  <2>1. PICK z \in L : \E e \in In(E, z[1]) : y = <<e.to, z[2] + e.weight>>
    BY DEF Steps
  <2>2. PICK e \in In(E, z[1]) : y = <<e.to, z[2] + e.weight>>
    BY <2>1
  <2>3. e \in E /\ e.from = z[1] /\ e.to # Trap
    BY <1>4, <2>2 DEF In
  <2>4. z[1] # Trap
    BY <1>2, <2>3
  <2>5. PICK d \in D : e.from = SourceOf(c, d.from) /\ e.weight = d.weight /\ e.to \in TargetsOf(c, d.to)
    BY <1>2, <1>3, <2>3
  <2>6. PICK x \in G : z[1] \in TargetsOf(c, x[1]) /\ z[2] = x[2]
    BY <2>4 DEF Meets, c
  <2>7. x[1] = d.from
    BY <2>3, <2>5, <2>6, Targets
  <2>8. d \in In(D, x[1])
    BY <2>7 DEF In
  <2> DEFINE w == <<d.to, x[2] + d.weight>>
  <2>9. w \in Steps(D, G)
    BY <2>8 DEF Steps
  <2>10. y[1] \in TargetsOf(c, w[1]) /\ y[2] = w[2]
    BY <2>2, <2>5, <2>6
  <2> QED
    BY <2>9, <2>10
<1>5. ASSUME NEW x \in Steps(D, G), NEW t \in TargetsOf(c, x[1])
      PROVE  <<t, x[2]>> \in Steps(E, L)
  <2>1. PICK z \in G : \E d \in In(D, z[1]) : x = <<d.to, z[2] + d.weight>>
    BY DEF Steps
  <2>2. PICK d \in In(D, z[1]) : x = <<d.to, z[2] + d.weight>>
    BY <2>1
  <2>3. d \in D /\ d.from = z[1] /\ t \in TargetsOf(c, d.to)
    BY <2>2 DEF In
  <2> DEFINE e == [from |-> SourceOf(c, d.from), symbol |-> d.symbol, weight |-> d.weight, to |-> t]
             y == <<SourceOf(c, z[1]), z[2]>>
  <2>4. e \in E
    BY <1>2, <1>3, <2>3
  <2>5. y \in L
    BY DEF Meets, c
  <2>6. e \in In(E, y[1])
    BY <2>3, <2>4 DEF In
  <2>7. <<e.to, y[2] + e.weight>> = <<t, x[2]>>
    BY <2>2
  <2> HIDE DEF e, y
  <2> QED
    BY <2>5, <2>6, <2>7 DEF Steps
<1>6. ASSUME NEW x \in Steps(D, G)
      PROVE  <<SourceOf(c, x[1]), x[2]>> \in Steps(E, L)
  BY <1>5, Targets
<1> QED
  BY <1>4, <1>5, <1>6 DEF Meets, Covers, c, D, E

\* A word takes the split child where it takes the child given.
LEMMA MeetsAfter ==
  ASSUME NEW i \in Child, KeptChild(i), NEW n \in Nat, NEW u \in [1..n -> Symbol],
         \A e \in nested.child[i].edges : e.weight \in Int
  PROVE  LET G == After(GivenEdges(i), InitialChild, u)
             L == After(LetterEdges(i), child[i].initial, u)
         IN  /\ Len(u) = n
             /\ \A k \in 0..n : Meets(nested.child[i], G[k], L[k])
             /\ \A k \in 1..n : Covers(nested.child[i], G[k], L[k])
<1> DEFINE c == nested.child[i]
           D == GivenEdges(i)
           E == LetterEdges(i)
           initial == child[i].initial
           G == After(D, InitialChild, u)
           L == After(E, initial, u)
           T == {k \in 0..n : Meets(c, G[k], L[k])}
<1>0. IsWord(u, n)
  BY DEF IsWord
<1>1. IntegerEdges(D)
  BY DEF GivenEdges, On, IntegerEdges
<1>2. IntegerEdges(E)
  BY DEF KeptChild, IntegerEdges
<1>5. initial = SourceOf(c, InitialChild)
  BY DEF KeptChild, SplitChild
<1> HIDE DEF D, E, initial
<1>3. /\ G[0] = {<<InitialChild, 0>>}
      /\ \A k \in 1..n : G[k] = Steps(D[u[k]], G[k - 1])
      /\ Len(u) = n
  BY <1>0, <1>1, AfterSteps
<1>4. /\ L[0] = {<<initial, 0>>}
      /\ \A k \in 1..n : L[k] = Steps(E[u[k]], L[k - 1])
  BY <1>0, <1>2, AfterSteps
<1> HIDE DEF G, L
<1>6. Meets(c, G[0], L[0])
  BY <1>3, <1>4, <1>5, Targets DEF Meets
<1>7. ASSUME NEW k \in 1..n, Meets(c, G[k - 1], L[k - 1])
      PROVE  Meets(c, G[k], L[k]) /\ Covers(c, G[k], L[k])
  <2> DEFINE a == u[k]
             g == G[k - 1]
             l == L[k - 1]
  <2>1. a \in Symbol /\ Meets(c, g, l) /\ G[k] = Steps(D[a], g) /\ L[k] = Steps(E[a], l)
    BY <1>3, <1>4, <1>7
  <2> HIDE DEF a, g, l
  <2> QED
    BY <2>1, MeetsStep DEF D, E
<1> HIDE DEF c
<1>8. 0 \in T
  BY <1>6
<1>9. ASSUME NEW k \in 0..(n - 1), k \in T
      PROVE  k + 1 \in T
  <2>1. k + 1 \in 1..n /\ (k + 1) - 1 = k
    OBVIOUS
  <2> QED
    BY <1>7, <1>9, <2>1
<1>10. 0..n \subseteq T
  <2> HIDE DEF T
  <2> QED
    BY <1>8, <1>9, BoundedInduction
<1>11. \A k \in 1..n : Meets(c, G[k - 1], L[k - 1])
  BY <1>10
<1> QED
  BY <1>3, <1>7, <1>10, <1>11 DEF c, G, L, D, E, initial

\* So it returns the same.
LEMMA SameReturned ==
  ASSUME nested \in Nested, NEW i \in Child, KeptChild(i), NEW n \in Nat \ {0}, NEW u \in [1..n -> Symbol],
         \A e \in nested.child[i].edges : e.weight \in Int
  PROVE  Returned(LetterEdges(i), child[i].initial, child[i].final, u) =
           Returned(GivenEdges(i), InitialChild, nested.child[i].final, u)
<1> DEFINE c == nested.child[i]
           G == After(GivenEdges(i), InitialChild, u)[n]
           L == After(LetterEdges(i), child[i].initial, u)[n]
<1>1. Len(u) = n /\ Meets(c, G, L) /\ Covers(c, G, L)
  BY MeetsAfter
<1>2. child[i].final = UNION {TargetsOf(c, s) \ {<<s, "cont">>} : s \in c.final}
  BY DEF KeptChild, SplitChild
<1>3. Sink \notin c.final
  <2>1. nested.child \in [Child -> ChildAutomaton]
    BY NestedAssumption DEF NestedAutomaton
  <2> QED
    BY <2>1, PreSyncAssumption DEF ChildAutomaton
<1> HIDE DEF c, G, L
<1>4. ASSUME NEW y \in L, y[1] \in child[i].final
      PROVE  \E x \in G : x[1] \in c.final /\ x[2] = y[2]
  <2>1. PICK s \in c.final : y[1] \in TargetsOf(c, s)
    BY <1>2, <1>4
  <2>2. y[1] # Trap
    BY <1>3, <2>1, Targets
  <2>3. PICK x \in G : y[1] \in TargetsOf(c, x[1]) /\ y[2] = x[2]
    BY <1>1, <2>2 DEF Meets
  <2>4. x[1] = s
    BY <2>1, <2>3, Targets
  <2> QED
    BY <2>1, <2>3, <2>4
<1>5. ASSUME NEW x \in G, x[1] \in c.final
      PROVE  \E y \in L : y[1] \in child[i].final /\ y[2] = x[2]
  <2>1. PICK t \in TargetsOf(c, x[1]) : t \in TargetsOf(c, x[1]) \ {<<x[1], "cont">>}
    BY Targets
  <2> DEFINE y == <<t, x[2]>>
  <2>2. y \in L
    BY <1>1, <2>1 DEF Covers
  <2>3. y[1] \in child[i].final /\ y[2] = x[2]
    BY <1>2, <1>5, <2>1
  <2> QED
    BY <2>2, <2>3
<1>6. Returned(LetterEdges(i), child[i].initial, child[i].final, u) = {y[2] : y \in {z \in L : z[1] \in child[i].final}}
  BY <1>1 DEF Returned, L
<1>7. Returned(GivenEdges(i), InitialChild, c.final, u) = {x[2] : x \in {z \in G : z[1] \in c.final}}
  BY <1>1 DEF Returned, G
<1> QED
  BY <1>4, <1>5, <1>6, <1>7 DEF c

\* isDeterministicNested, of the automaton given.
GivenDeterministic ==
  /\ AtMostOne(nested.edges)
  /\ \A i \in Child : /\ AtMostOne(nested.child[i].edges)
                      /\ \A e \in nested.child[i].edges : e.from \notin nested.child[i].final

\* No child is passed over when chosen edges are handed out.
NoneSkipped ==
  GivenDeterministic \/ \A i \in Child, a \in Symbol : On(nested.child[i].edges, a) # {}

PreparedInv ==
  /\ nested \in Nested
  /\ stage = "split" => child = [i \in Child |-> SplitChild(nested.child[i])]
  /\ stage = "flatten" => (NoneSkipped => \A i \in Child : KeptChild(i))

\* A deterministic automaton is one also after splitting, which finds nothing
\* to split.
LEMMA SplitDeterministic ==
  ASSUME GivenDeterministic, child = [i \in Child |-> SplitChild(nested.child[i])]
  PROVE  Deterministic
<1> SUFFICES ASSUME NEW i \in Child
             PROVE  /\ AtMostOne(child[i].edges)
                    /\ \A e \in child[i].edges : e.from \notin child[i].final
  BY DEF Deterministic, GivenDeterministic
<1> DEFINE c == nested.child[i]
<1>1. AtMostOne(c.edges) /\ \A e \in c.edges : e.from \notin c.final
  BY DEF GivenDeterministic
<1>2. \A s : ~Splits(c, s)
  BY <1>1 DEF Splits, In
<1>3. \A s : SourceOf(c, s) = <<s, "copy">> /\ TargetsOf(c, s) = {<<s, "copy">>}
  BY <1>2 DEF SourceOf, TargetsOf
<1>4. child[i].edges = UNION {{[from |-> SourceOf(c, e.from), symbol |-> e.symbol, weight |-> e.weight, to |-> t] :
                                  t \in TargetsOf(c, e.to)} : e \in c.edges}
  BY DEF SplitChild
<1>5. child[i].final = UNION {TargetsOf(c, s) \ {<<s, "cont">>} : s \in c.final}
  BY DEF SplitChild
<1> DEFINE Copy(d) == [from |-> <<d.from, "copy">>, symbol |-> d.symbol, weight |-> d.weight, to |-> <<d.to, "copy">>]
<1>6. \A e \in child[i].edges : \E d \in c.edges : e = Copy(d)
  BY <1>3, <1>4
<1>7. \A d : /\ Copy(d).from = <<d.from, "copy">> /\ Copy(d).symbol = d.symbol
  OBVIOUS
<1> HIDE DEF c, Copy
<1>8. AtMostOne(child[i].edges)
  <2> SUFFICES ASSUME NEW e \in child[i].edges, NEW f \in child[i].edges,
                      e.from = f.from, e.symbol = f.symbol
               PROVE  e = f
    BY DEF AtMostOne
  <2>1. PICK d \in c.edges : e = Copy(d)
    BY <1>6
  <2>2. PICK g \in c.edges : f = Copy(g)
    BY <1>6
  <2>3. d.from = g.from /\ d.symbol = g.symbol
    BY <1>7, <2>1, <2>2
  <2> QED
    BY <1>1, <2>1, <2>2, <2>3 DEF AtMostOne
<1>9. ASSUME NEW e \in child[i].edges, e.from \in child[i].final
      PROVE  FALSE
  <2>1. PICK d \in c.edges : e = Copy(d)
    BY <1>6
  <2>2. PICK s \in c.final : e.from \in TargetsOf(c, s)
    BY <1>5, <1>9
  <2>3. d.from = s
    BY <1>3, <1>7, <2>1, <2>2
  <2> QED
    BY <1>1, <2>3
<1> QED
  BY <1>8, <1>9

\* No edge of the split child touches the sink, and its weights are integers.
LEMMA SplitChildEdges ==
  ASSUME nested \in Nested, NEW i \in Child, NEW a
  PROVE  \A e \in On(SplitChild(nested.child[i]).edges, a) : e.from # Trap /\ e.to # Trap /\ e.weight \in Int
<1> TAKE e \in On(SplitChild(nested.child[i]).edges, a)
<1>1. PICK d \in On(nested.child[i].edges, a) :
        /\ e.from = SourceOf(nested.child[i], d.from) /\ e.weight = d.weight
        /\ e.to \in TargetsOf(nested.child[i], d.to)
  BY SplitEdges
<1>2. d \in nested.child[i].edges
  BY DEF On
<1>3. d.from # Sink /\ d.to # Sink /\ d.weight \in Int
  <2>1. nested.child[i] \in ChildAutomaton
    BY NestedAssumption DEF NestedAutomaton
  <2>2. d \in ChildEdge
    BY <1>2, <2>1 DEF ChildAutomaton
  <2>3. d.from \in ChildState /\ d.to \in ChildState /\ d.weight \in Int
    BY <2>2, NestedAssumption DEF ChildEdge
  <2> QED
    BY <2>3, PreSyncAssumption
<1> QED
  BY <1>1, <1>3, Targets

\* Completing adds edges to the sink only.
LEMMA CompleteKeeps ==
  ASSUME PreparedInv, Complete
  PROVE  \A i \in Child : KeptChild(i)'
<1> TAKE i \in Child
<1> DEFINE c == nested.child[i]
<1>1. child[i] = SplitChild(c) /\ nested' = nested /\ nested \in Nested
  BY DEF PreparedInv, Complete
<1>2. child'[i] = CompleteChild(SplitChild(c))
  BY <1>1 DEF Complete
<1>3. child'[i].initial = SplitChild(c).initial /\ child'[i].final = SplitChild(c).final
  BY <1>2 DEF CompleteChild, SplitChild
<1>4. \A e \in SplitChild(c).edges : e \in child'[i].edges
  BY <1>2 DEF CompleteChild, SplitChild
<1>5. \A e \in child'[i].edges : e \in SplitChild(c).edges \/ (e.to = Trap /\ e.weight = 0)
  <2> DEFINE s == SplitChild(c)
             open == s.states \ s.final
             missing == IF Missing(open, s.edges) = {} THEN {} ELSE Missing(open \cup {Trap}, s.edges)
             more == {[from |-> x[1], symbol |-> x[2], weight |-> 0, to |-> Trap] : x \in missing}
  <2>1. child'[i].edges = s.edges \cup more
    BY <1>2 DEF CompleteChild, SplitChild, Trap
  <2>2. \A e \in more : e.to = Trap /\ e.weight = 0
    OBVIOUS
  <2> HIDE DEF more
  <2> QED
    BY <2>1, <2>2
<1>6. ASSUME NEW a \in Symbol
      PROVE  LetterEdges(i)'[a] = On(child'[i].edges, a)
  <2> DEFINE letter(b) == [symbol |-> b, parent |-> On(CompleteParent, b),
                           child |-> [j \in Child |-> On(child'[j].edges, b)]]
  <2>1. letters' = {letter(b) : b \in Symbol}
    BY DEF Complete
  <2>2. \A b : letter(b).symbol = b /\ letter(b).child[i] = On(child'[i].edges, b)
    OBVIOUS
  <2> HIDE DEF letter
  <2>3. {l \in letters' : l.symbol = a} = {letter(a)}
    BY <2>1, <2>2
  <2>4. LetterEdges(i)'[a] = UNION {m.child[i] : m \in {l \in letters' : l.symbol = a}}
    BY DEF LetterEdges
  <2> QED
    BY <2>2, <2>3, <2>4
<1>7. ASSUME NEW a \in Symbol
      PROVE  \A e \in On(SplitChild(c).edges, a) : e.from # Trap /\ e.to # Trap /\ e.weight \in Int
  BY <1>1, SplitChildEdges
<1> HIDE DEF c
<1>8. ASSUME NEW a \in Symbol
      PROVE  /\ {e \in LetterEdges(i)'[a] : e.to # Trap} = On(SplitChild(c).edges, a)
             /\ \A e \in LetterEdges(i)'[a] : e.weight \in Int /\ (e.from = Trap => e.to = Trap)
  BY <1>4, <1>5, <1>6, <1>7 DEF On
<1> QED
  BY <1>1, <1>3, <1>8 DEF KeptChild, c, Trap

\* Every edge is chosen by some choice.
LEMMA ChoiceWith ==
  ASSUME NEW E
  PROVE  /\ EdgeChoices(E) # {}
         /\ \A e \in E : \E F \in EdgeChoices(E) : e \in F
<1>1. ASSUME NEW e \in E
      PROVE  \E F \in EdgeChoices(E) : e \in F
  <2> DEFINE Q == {d.from : d \in E}
             take(s) == IF s = e.from THEN e ELSE CHOOSE d \in E : d.from = s
             F == {take(s) : s \in Q}
  <2>1. \A s \in Q : take(s) \in E /\ take(s).from = s
    OBVIOUS
  <2>2. e.from \in Q /\ take(e.from) = e
    OBVIOUS
  <2> HIDE DEF take
  <2>3. F \in SUBSET E /\ AtMostOne(F)
    BY <2>1 DEF AtMostOne
  <2>4. {d.from : d \in F} = Q
    BY <2>1
  <2> QED
    BY <2>2, <2>3, <2>4 DEF EdgeChoices
<1>2. CASE E = {}
  <2>1. {} \in EdgeChoices(E)
    BY <1>2 DEF EdgeChoices, AtMostOne
  <2> QED
    BY <1>1, <2>1
<1> QED
  BY <1>1, <1>2

\* When no child is passed over, each gets its own edges.
LEMMA AttributedOwn ==
  ASSUME child = [i \in Child |-> SplitChild(nested.child[i])], nested \in Nested,
         NEW a, NEW f \in ChildChoices(a), \A i \in Child : f[i] # {}, NEW k \in Child
  PROVE  Attributed(f)[k] = f[k]
<1> DEFINE busy == {i \in Child : f[i] # {}}
           rank(i) == Cardinality({j \in busy : j <= i})
           taken == UNION {f[i] : i \in {j \in busy : rank(j) = k}}
<1>1. Attributed(f)[k] = {e \in taken : e.from \in child[k].states /\ e.to \in child[k].states}
  BY DEF Attributed
<1>2. ASSUME NEW i \in Child
      PROVE  rank(i) = i
  <2> DEFINE N == Cardinality(Child)
  <2>1. Child = 1..N /\ N \in Nat
    BY PreSyncAssumption, FS_CardinalityType
  <2> HIDE DEF N
  <2>2. busy = Child
    OBVIOUS
  <2>3. {j \in busy : j <= i} = 1..i /\ i \in Nat /\ i >= 1
    BY <2>1, <2>2
  <2>4. Cardinality(1..i) = i
    BY <2>3, FS_Interval
  <2> QED
    BY <2>3, <2>4
<1>3. taken = f[k]
  <2> HIDE DEF rank
  <2> QED
    BY <1>2
<1>4. \A e \in f[k] : e \in SplitChild(nested.child[k]).edges
  BY DEF ChildChoices, EdgeChoices, On
<1>5. \A e \in SplitChild(nested.child[k]).edges : e.from \in child[k].states /\ e.to \in child[k].states
  <2> DEFINE c == nested.child[k]
  <2> TAKE e \in SplitChild(c).edges
  <2>1. PICK d \in On(c.edges, e.symbol) : e.from = SourceOf(c, d.from) /\ e.to \in TargetsOf(c, d.to)
    <3>1. e \in On(SplitChild(c).edges, e.symbol)
      BY DEF On
    <3> QED
      BY <3>1, SplitEdges
  <2>2. d.from \in ChildState /\ d.to \in ChildState
    <3>1. c \in ChildAutomaton
      BY NestedAssumption DEF NestedAutomaton
    <3>2. d \in ChildEdge
      BY <2>1, <3>1 DEF ChildAutomaton, On
    <3> QED
      BY <3>2 DEF ChildEdge
  <2>3. child[k].states = UNION {TargetsOf(c, s) : s \in ChildState}
    BY DEF SplitChild
  <2> HIDE DEF c
  <2> QED
    BY <2>1, <2>2, <2>3, Targets
<1> HIDE DEF taken
<1> QED
  BY <1>1, <1>3, <1>4, <1>5

\* Each edge of a child is chosen by some letter, and only letters for its
\* symbol give it to the child.
LEMMA DeterminizeKeeps ==
  ASSUME PreparedInv, Determinize, NoneSkipped
  PROVE  \A i \in Child : KeptChild(i)'
<1> TAKE i \in Child
<1> DEFINE c == nested.child[i]
<1>1. /\ child = [j \in Child |-> SplitChild(nested.child[j])]
      /\ nested \in Nested /\ nested' = nested /\ child' = child
  BY DEF PreparedInv, Determinize
<1>2. \A j \in Child, a \in Symbol : On(nested.child[j].edges, a) # {}
  BY <1>1, SplitDeterministic DEF NoneSkipped, Determinize
<1>3. \A j \in Child, a \in Symbol : On(child[j].edges, a) # {}
  <2> TAKE j \in Child, a \in Symbol
  <2>1. PICK d \in On(nested.child[j].edges, a) : TRUE
    BY <1>2
  <2>2. PICK t \in TargetsOf(nested.child[j], d.to) : TRUE
    BY Targets
  <2>3. On(SplitChild(nested.child[j]).edges, a) # {}
    BY <2>1, <2>2, SplitEdges
  <2> QED
    BY <1>1, <2>3
<1>4. ASSUME NEW a \in Symbol, NEW f \in ChildChoices(a)
      PROVE  Attributed(f)[i] = f[i] /\ f[i] \subseteq On(child[i].edges, a)
  <2>1. \A j \in Child : f[j] \in EdgeChoices(On(child[j].edges, a))
    BY DEF ChildChoices
  <2>2. ASSUME NEW j \in Child
        PROVE  f[j] # {}
    <3>1. PICK e \in On(child[j].edges, a) : TRUE
      BY <1>3
    <3>2. e.from \in {d.from : d \in f[j]}
      BY <2>1, <3>1 DEF EdgeChoices
    <3> QED
      BY <3>2
  <2> QED
    BY <1>1, <2>1, <2>2, AttributedOwn DEF EdgeChoices
<1> DEFINE of(a) == {[symbol |-> a, parent |-> P, child |-> Attributed(f)] :
                       P \in EdgeChoices(On(nested.edges, a)), f \in ChildChoices(a)}
<1>5. letters' = UNION {of(a) : a \in Symbol}
  BY DEF Determinize
<1>6. ASSUME NEW a \in Symbol, NEW m \in letters', m.symbol = a
      PROVE  m.child[i] \subseteq On(child[i].edges, a)
  <2>1. PICK b \in Symbol : m \in of(b)
    BY <1>5, <1>6
  <2>2. PICK P \in EdgeChoices(On(nested.edges, b)), f \in ChildChoices(b) :
          m = [symbol |-> b, parent |-> P, child |-> Attributed(f)]
    BY <2>1
  <2>3. b = a /\ m.child[i] = Attributed(f)[i]
    BY <1>6, <2>2
  <2> QED
    BY <1>4, <2>3
<1>7. ASSUME NEW a \in Symbol, NEW e \in On(child[i].edges, a)
      PROVE  \E m \in letters' : m.symbol = a /\ e \in m.child[i]
  <2>1. PICK P \in EdgeChoices(On(nested.edges, a)) : TRUE
    BY ChoiceWith
  <2>2. PICK F \in EdgeChoices(On(child[i].edges, a)) : e \in F
    BY ChoiceWith
  <2> DEFINE f == [j \in Child |-> IF j = i THEN F ELSE CHOOSE G : G \in EdgeChoices(On(child[j].edges, a))]
             m == [symbol |-> a, parent |-> P, child |-> Attributed(f)]
  <2>3. \A j \in Child : f[j] \in EdgeChoices(On(child[j].edges, a))
    BY <2>2, ChoiceWith
  <2>4. f \in ChildChoices(a)
    <3> HIDE DEF f
    <3>1. f \in [Child -> UNION {EdgeChoices(On(child[j].edges, a)) : j \in Child}]
      <4>1. f = [j \in Child |-> f[j]]
        BY DEF f
      <4> QED
        BY <2>3, <4>1
    <3> QED
      BY <2>3, <3>1 DEF ChildChoices
  <2>5. f[i] = F
    OBVIOUS
  <2> HIDE DEF f
  <2>6. m \in of(a)
    BY <2>1, <2>4
  <2>7. m.symbol = a /\ m.child[i] = f[i]
    BY <1>4, <2>4
  <2> HIDE DEF m, of
  <2>8. m \in letters'
    BY <1>5, <2>6
  <2> QED
    BY <2>2, <2>5, <2>7, <2>8
<1>8. ASSUME NEW a \in Symbol
      PROVE  LetterEdges(i)'[a] = On(SplitChild(c).edges, a)
  <2>1. LetterEdges(i)'[a] = UNION {m.child[i] : m \in {l \in letters' : l.symbol = a}}
    BY DEF LetterEdges
  <2>2. child[i].edges = SplitChild(c).edges
    BY <1>1
  <2> QED
    BY <1>6, <1>7, <2>1, <2>2
<1>9. ASSUME NEW a \in Symbol
      PROVE  \A e \in On(SplitChild(c).edges, a) : e.from # Trap /\ e.to # Trap /\ e.weight \in Int
  BY <1>1, SplitChildEdges
<1>10. child'[i].initial = SplitChild(c).initial /\ child'[i].final = SplitChild(c).final
  BY <1>1
<1> HIDE DEF c
<1>11. ASSUME NEW a \in Symbol
       PROVE  /\ {e \in LetterEdges(i)'[a] : e.to # Trap} = On(SplitChild(c).edges, a)
              /\ \A e \in LetterEdges(i)'[a] : e.weight \in Int /\ (e.from = Trap => e.to = Trap)
  BY <1>8, <1>9
<1> QED
  BY <1>1, <1>10, <1>11 DEF KeptChild, c, Trap

\* At the start nothing is prepared.
LEMMA PreparedInit == Init => PreparedInv
BY DEF Init, PreSyncInit, PreparedInv

\* Every step keeps what the preparation has established.
LEMMA PreparedStep == PreparedInv /\ [Next]_vars => PreparedInv'
<1> SUFFICES ASSUME PreparedInv, [Next]_vars PROVE PreparedInv'
  OBVIOUS
<1>1. CASE Split
  BY <1>1 DEF Split, PreparedInv
<1>2. CASE Complete
  BY <1>2, CompleteKeeps DEF Complete, PreparedInv
<1>3. CASE Determinize
  <2>1. nested' = nested /\ stage' = "flatten"
    BY <1>3 DEF Determinize
  <2>2. NoneSkipped' => NoneSkipped
    BY <2>1 DEF NoneSkipped, GivenDeterministic
  <2> QED
    BY <1>3, <2>1, <2>2, DeterminizeKeeps DEF PreparedInv
<1>4. CASE UNCHANGED <<nested, preSync>>
  BY <1>4 DEF preSync, PreparedInv, NoneSkipped, GivenDeterministic, KeptChild, LetterEdges
<1> QED
  BY <1>1, <1>2, <1>3, <1>4 DEF Next, Prepare, PreSyncNext, Letter, vars

\* For every nested automaton, and words of every length: splitting, completing
\* and determinizing change nothing of what a child can return, when the
\* automaton is deterministic or each child has an edge on each symbol.  (An
\* automaton with neither may have edges handed to the wrong child.)
THEOREM ReturnsCorrect == Spec => [](NoneSkipped => ReturnsKept)
<1>1. PreparedInv => (NoneSkipped => ReturnsKept)
  <2> SUFFICES ASSUME PreparedInv, NoneSkipped, stage = "flatten",
                      NEW i \in Child, NEW n \in 1..MaxLength, NEW u \in [1..n -> Symbol]
               PROVE  Returned(LetterEdges(i), child[i].initial, child[i].final, u) =
                        Returned(GivenEdges(i), InitialChild, nested.child[i].final, u)
    BY DEF ReturnsKept
  <2>1. n \in Nat \ {0}
    BY PreSyncAssumption
  <2>2. nested \in Nested /\ KeptChild(i)
    BY DEF PreparedInv
  <2>3. \A e \in nested.child[i].edges : e.weight \in Int
    BY <2>2, NestedEdges
  <2> QED
    BY <2>1, <2>2, <2>3, SameReturned
<1> QED
  BY PreparedInit, PreparedStep, <1>1, PTL DEF Spec
=============================================================================
