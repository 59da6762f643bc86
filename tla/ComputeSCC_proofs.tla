-------------------------- MODULE ComputeSCC_proofs --------------------------
(***************************************************************************)
(* Proofs about Automaton::compute_SCC as modelled in ComputeSCC.tla: the  *)
(* first search, the second, and the order in which components are numbered. *)
(***************************************************************************)
EXTENDS ComputeSCC, SequenceTheorems, TLAPS

-----------------------------------------------------------------------------
(***************************************************************************)
(* The first search: numbers, components, SCCOrder.                        *)
(***************************************************************************)

-----------------------------------------------------------------------------
(* Reachability *)

\* Every state reaches itself.
LEMMA ReachesItself ==
  ASSUME NEW G \in [State -> SUBSET State], NEW s \in State
  PROVE  Reaches(G, s, s)
BY DEF Reaches

\* A state reaches the end of each of its edges.
LEMMA ReachesSuccessor ==
  ASSUME NEW G \in [State -> SUBSET State], NEW s \in State, NEW t \in G[s]
  PROVE  Reaches(G, s, t)
BY DEF Reaches, Closed

\* Reachability is transitive.
LEMMA ReachesTransitive ==
  ASSUME NEW G \in [State -> SUBSET State], NEW s \in State, NEW t \in State,
         NEW u \in State, Reaches(G, s, t), Reaches(G, t, u)
  PROVE  Reaches(G, s, u)
BY DEF Reaches

-----------------------------------------------------------------------------
(* The call stack and its updates *)

\* The shape of a call stack that is not empty.
LEMMA TopFacts ==
  ASSUME TypeOK, callStack # <<>>
  PROVE  /\ depth \in Nat
         /\ depth >= 1
         /\ DOMAIN callStack = 1 .. depth
         /\ \A i \in 1 .. depth : callStack[i] \in Frame
         /\ Top \in Frame
         /\ callStack \in Seq(Frame)
<1>1. callStack \in Seq(Frame)
  BY DEF TypeOK
<1>2. /\ depth \in Nat
      /\ DOMAIN callStack = 1 .. depth
      /\ depth >= 1
  BY <1>1, LenProperties, EmptySeq DEF depth
<1>3. \A i \in 1 .. depth : callStack[i] \in Frame
  BY <1>1, ElementOfSeq DEF depth
<1>4. QED
  BY <1>1, <1>2, <1>3 DEF Top

\* Collecting the edges changes the current frame alone.
LEMMA CollectedFacts ==
  ASSUME TypeOK, callStack # <<>>
  PROVE  /\ Collected \in Seq(Frame)
         /\ Len(Collected) = depth
         /\ \A i \in 1 .. depth :
              /\ Collected[i].state = callStack[i].state
              /\ Collected[i].ready = IF i = depth THEN TRUE ELSE callStack[i].ready
              /\ Collected[i].todo = IF i = depth THEN succ[Top.state] ELSE callStack[i].todo
<1> DEFINE fr == [Top EXCEPT !.ready = TRUE, !.todo = succ[Top.state]]
<1>1. fr \in Frame
  BY TopFacts DEF TypeOK, Frame
<1>2. Collected = [callStack EXCEPT ![depth] = fr]
  BY TopFacts DEF Collected, Top, Frame
<1>3. depth \in 1 .. Len(callStack)
  BY TopFacts DEF depth
<1>4. QED
  BY <1>1, <1>2, <1>3, ExceptSeq, TopFacts DEF depth, Top, Frame

\* Moving past an edge changes the current frame alone.
LEMMA AdvancedFacts ==
  ASSUME TypeOK, callStack # <<>>, NEW c \in State
  PROVE  /\ Advanced(c) \in Seq(Frame)
         /\ Len(Advanced(c)) = depth
         /\ \A i \in 1 .. depth :
              /\ Advanced(c)[i].state = callStack[i].state
              /\ Advanced(c)[i].ready = callStack[i].ready
              /\ Advanced(c)[i].todo = IF i = depth THEN Top.todo \ {c} ELSE callStack[i].todo
<1> DEFINE fr == [Top EXCEPT !.todo = @ \ {c}]
<1>1. fr \in Frame
  BY TopFacts DEF TypeOK, Frame
<1>2. Advanced(c) = [callStack EXCEPT ![depth] = fr]
  BY TopFacts DEF Advanced, Top, Frame
<1>3. depth \in 1 .. Len(callStack)
  BY TopFacts DEF depth
<1>4. QED
  BY <1>1, <1>2, <1>3, ExceptSeq, TopFacts DEF depth, Top, Frame

\* Following an edge puts a new frame on top.
LEMMA DescendedFacts ==
  ASSUME TypeOK, callStack # <<>>, NEW c \in State
  PROVE  /\ Append(Advanced(c), NewFrame(c)) \in Seq(Frame)
         /\ Len(Append(Advanced(c), NewFrame(c))) = depth + 1
         /\ \A i \in 1 .. depth :
              /\ Append(Advanced(c), NewFrame(c))[i].state = callStack[i].state
              /\ Append(Advanced(c), NewFrame(c))[i].ready = callStack[i].ready
              /\ Append(Advanced(c), NewFrame(c))[i].todo =
                   IF i = depth THEN Top.todo \ {c} ELSE callStack[i].todo
         /\ Append(Advanced(c), NewFrame(c))[depth + 1] = NewFrame(c)
<1>1. NewFrame(c) \in Frame
  BY DEF NewFrame, Frame
<1>2. /\ Advanced(c) \in Seq(Frame)
      /\ Len(Advanced(c)) = depth
      /\ \A i \in 1 .. depth :
           /\ Advanced(c)[i].state = callStack[i].state
           /\ Advanced(c)[i].ready = callStack[i].ready
           /\ Advanced(c)[i].todo = IF i = depth THEN Top.todo \ {c} ELSE callStack[i].todo
  BY AdvancedFacts
<1>3. /\ Append(Advanced(c), NewFrame(c)) \in Seq(Frame)
      /\ Len(Append(Advanced(c), NewFrame(c))) = depth + 1
      /\ \A i \in 1 .. depth : Append(Advanced(c), NewFrame(c))[i] = Advanced(c)[i]
      /\ Append(Advanced(c), NewFrame(c))[depth + 1] = NewFrame(c)
  BY <1>1, <1>2, AppendProperties
<1>4. QED
  BY <1>2, <1>3

\* Returning drops the current frame.
LEMMA ReturnedFacts ==
  ASSUME TypeOK, callStack # <<>>,
         NEW cs, cs = SubSeq(callStack, 1, depth - 1)
  PROVE  /\ cs \in Seq(Frame)
         /\ Len(cs) = depth - 1
         /\ \A i \in 1 .. depth - 1 : cs[i] = callStack[i]
<1>1. /\ 1 \in Int
      /\ depth - 1 \in Int
      /\ \A i \in 1 .. depth - 1 : callStack[i] \in Frame
  BY TopFacts
<1>2. /\ cs \in Seq(Frame)
      /\ Len(cs) = IF 1 <= depth - 1 THEN (depth - 1) - 1 + 1 ELSE 0
      /\ \A i \in 1 .. (depth - 1) - 1 + 1 : cs[i] = callStack[1 + i - 1]
  BY <1>1, SubSeqProperties
<1>3. QED
  BY <1>2, TopFacts

-----------------------------------------------------------------------------
(* Tarjan's stack *)

\* What is popped from the root s of a component: the states of Tarjan's stack
\* that were discovered no earlier than s; the others stay.
LEMMA PopFacts ==
  ASSUME TypeOK, StackInv, NEW s \in State, stackMem[s],
         NEW st, st = BelowOnStack(s)
  PROVE  /\ HeadDownTo(s) = {u \in State : stackMem[u] /\ spot[s] <= spot[u]}
         /\ st \in Seq(State)
         /\ DOMAIN st \subseteq DOMAIN stack
         /\ \A i \in DOMAIN st : st[i] = stack[i]
         /\ \A u \in State : (\E i \in DOMAIN st : st[i] = u)
                             <=> stackMem[u] /\ ~(spot[s] <= spot[u])
<1> DEFINE k == CHOOSE k \in DOMAIN stack : stack[k] = s
<1>1. /\ stack \in Seq(State)
      /\ DOMAIN stack = 1 .. Len(stack)
      /\ Len(stack) \in Nat
      /\ \A i \in 1 .. Len(stack) : stack[i] \in State
      /\ spot \in [State -> Int]
  BY LenProperties, ElementOfSeq DEF TypeOK
<1>2. k \in DOMAIN stack /\ stack[k] = s
  BY DEF StackInv
<1>3. /\ st = SubSeq(stack, 1, k - 1)
      /\ HeadDownTo(s) = {stack[i] : i \in k .. Len(stack)}
  BY DEF BelowOnStack, HeadDownTo
<1> HIDE DEF k
<1>4. \A i \in 1 .. Len(stack) : spot[s] <= spot[stack[i]] <=> k <= i
  BY <1>1, <1>2 DEF StackInv
<1>5. /\ st \in Seq(State)
      /\ Len(st) = k - 1
      /\ \A i \in 1 .. k - 1 : st[i] = stack[i]
  <2>1. /\ 1 \in Int
        /\ k - 1 \in Int
        /\ \A i \in 1 .. k - 1 : stack[i] \in State
    BY <1>1, <1>2
  <2>2. /\ st \in Seq(State)
        /\ Len(st) = IF 1 <= k - 1 THEN (k - 1) - 1 + 1 ELSE 0
        /\ \A i \in 1 .. (k - 1) - 1 + 1 : st[i] = stack[1 + i - 1]
    BY <2>1, <1>3, SubSeqProperties
  <2>3. QED
    BY <2>2, <1>1, <1>2
<1>6. DOMAIN st = 1 .. k - 1
  BY <1>5, LenProperties
<1>7. \A u \in State : stackMem[u] <=> \E i \in 1 .. Len(stack) : stack[i] = u
  BY <1>1 DEF StackInv
<1>8. HeadDownTo(s) = {u \in State : stackMem[u] /\ spot[s] <= spot[u]}
  BY <1>1, <1>2, <1>3, <1>4, <1>7
<1>9. ASSUME NEW u \in State
      PROVE  (\E i \in DOMAIN st : st[i] = u) <=> stackMem[u] /\ ~(spot[s] <= spot[u])
  <2>1. ASSUME NEW i \in DOMAIN st, st[i] = u
        PROVE  stackMem[u] /\ ~(spot[s] <= spot[u])
    <3>1. i \in 1 .. Len(stack) /\ i < k /\ stack[i] = u
      BY <2>1, <1>1, <1>2, <1>5, <1>6
    <3>2. QED
      BY <3>1, <1>1, <1>2, <1>4, <1>7
  <2>2. ASSUME stackMem[u], ~(spot[s] <= spot[u])
        PROVE  \E i \in DOMAIN st : st[i] = u
    <3>1. PICK i \in 1 .. Len(stack) : stack[i] = u
      BY <2>2, <1>7
    <3>2. i \in 1 .. k - 1
      BY <3>1, <2>2, <1>1, <1>2, <1>4
    <3>3. QED
      BY <3>1, <3>2, <1>5, <1>6
  <2>3. QED
    BY <2>1, <2>2
<1>10. QED
  BY <1>1, <1>2, <1>5, <1>6, <1>8, <1>9

-----------------------------------------------------------------------------
(* What the steps of the first search do to the call stack *)

\* Every frame but the last is ready.
LEMMA ReadyFacts ==
  ASSUME TypeOK, CallStackInv, callStack # <<>>
  PROVE  /\ ReadyFrames = IF Top.ready THEN 1 .. depth ELSE 1 .. depth - 1
         /\ \A i \in ReadyFrames : stackMem[FrameState(i)] /\ FrameState(i) \in State
         /\ Top.state \in State
         /\ Top.state = FrameState(depth)
BY TopFacts DEF CallStackInv, ReadyFrames, FrameState, Frame, Top

\* The current frame becomes ready, with all the edges of its state to visit.
LEMMA EnterEffect ==
  ASSUME TypeOK, CallStackInv, TagEnter
  PROVE  /\ callStack' \in Seq(Frame)
         /\ depth' = depth
         /\ DOMAIN callStack' = 1 .. depth
         /\ ReadyFrames' = 1 .. depth
         /\ ReadyFrames = 1 .. depth - 1
         /\ \A i \in 1 .. depth :
              /\ callStack'[i].state = callStack[i].state
              /\ callStack'[i].ready
              /\ callStack'[i].todo = IF i = depth THEN succ[Top.state] ELSE callStack[i].todo
<1>1. callStack # <<>> /\ callStack' = Collected /\ ~Top.ready
  BY DEF TagEnter, InLoop
<1>2. /\ callStack' \in Seq(Frame)
      /\ depth' = depth
      /\ DOMAIN callStack' = 1 .. depth
  BY <1>1, CollectedFacts, LenProperties DEF depth
<1>3. \A i \in 1 .. depth :
        /\ callStack'[i].state = callStack[i].state
        /\ callStack'[i].ready = IF i = depth THEN TRUE ELSE callStack[i].ready
        /\ callStack'[i].todo = IF i = depth THEN succ[Top.state] ELSE callStack[i].todo
  BY <1>1, CollectedFacts
<1>4. ReadyFrames = 1 .. depth - 1 /\ \A i \in 1 .. depth - 1 : callStack[i].ready
  BY <1>1, ReadyFacts DEF ReadyFrames
<1>5. ASSUME NEW i \in 1 .. depth
      PROVE  callStack'[i].ready
  <2>1. CASE i = depth
    BY <2>1, <1>3
  <2>2. CASE i # depth
    <3>1. i \in 1 .. depth - 1
      BY <2>2, <1>1, TopFacts
    <3>2. callStack'[i].ready = callStack[i].ready
      BY <2>2, <1>3
    <3>3. QED
      BY <3>1, <3>2, <1>4
  <2>3. QED
    BY <2>1, <2>2
<1>6. ReadyFrames' = 1 .. depth
  BY <1>2, <1>5 DEF ReadyFrames
<1>7. QED
  BY <1>2, <1>3, <1>4, <1>5, <1>6

\* The current frame leaves the edge to c behind and one for c comes on top.
LEMMA DescendEffect ==
  ASSUME TypeOK, CallStackInv, NEW c \in State, TagDescend(c)
  PROVE  /\ callStack' \in Seq(Frame)
         /\ depth' = depth + 1
         /\ DOMAIN callStack' = 1 .. depth + 1
         /\ ReadyFrames' = 1 .. depth
         /\ ReadyFrames = 1 .. depth
         /\ callStack'[depth + 1] = NewFrame(c)
         /\ \A i \in 1 .. depth :
              /\ callStack'[i].state = callStack[i].state
              /\ callStack'[i].ready
              /\ callStack'[i].todo = IF i = depth THEN Top.todo \ {c} ELSE callStack[i].todo
<1>1. callStack # <<>> /\ callStack' = Append(Advanced(c), NewFrame(c)) /\ Top.ready
  BY DEF TagDescend, InLoop
<1>2. /\ callStack' \in Seq(Frame)
      /\ Len(callStack') = depth + 1
      /\ callStack'[depth + 1] = NewFrame(c)
      /\ \A i \in 1 .. depth :
              /\ callStack'[i].state = callStack[i].state
              /\ callStack'[i].ready = callStack[i].ready
              /\ callStack'[i].todo = IF i = depth THEN Top.todo \ {c} ELSE callStack[i].todo
  BY <1>1, DescendedFacts
<1>3. DOMAIN callStack' = 1 .. depth + 1
  BY <1>2, LenProperties
<1>4. ReadyFrames = 1 .. depth /\ \A i \in 1 .. depth : callStack[i].ready
  BY <1>1, ReadyFacts DEF ReadyFrames
<1>5. ~callStack'[depth + 1].ready
  BY <1>2 DEF NewFrame
<1>6. ReadyFrames' = 1 .. depth
  BY <1>2, <1>3, <1>4, <1>5, <1>1, TopFacts DEF ReadyFrames
<1>7. QED
  BY <1>2, <1>3, <1>4, <1>6 DEF depth

\* The current frame leaves the edge to c behind.
LEMMA SeenEffect ==
  ASSUME TypeOK, CallStackInv, NEW c \in State, TagSeen(c)
  PROVE  /\ callStack' \in Seq(Frame)
         /\ depth' = depth
         /\ DOMAIN callStack' = 1 .. depth
         /\ ReadyFrames' = 1 .. depth
         /\ ReadyFrames = 1 .. depth
         /\ \A i \in 1 .. depth :
              /\ callStack'[i].state = callStack[i].state
              /\ callStack'[i].ready
              /\ callStack'[i].todo = IF i = depth THEN Top.todo \ {c} ELSE callStack[i].todo
<1>1. callStack # <<>> /\ callStack' = Advanced(c) /\ Top.ready
  BY DEF TagSeen, InLoop
<1>2. /\ callStack' \in Seq(Frame)
      /\ depth' = depth
      /\ \A i \in 1 .. depth :
              /\ callStack'[i].state = callStack[i].state
              /\ callStack'[i].ready = callStack[i].ready
              /\ callStack'[i].todo = IF i = depth THEN Top.todo \ {c} ELSE callStack[i].todo
  BY <1>1, AdvancedFacts DEF depth
<1>3. DOMAIN callStack' = 1 .. depth
  BY <1>2, LenProperties DEF depth
<1>4. ReadyFrames = 1 .. depth /\ \A i \in 1 .. depth : callStack[i].ready
  BY <1>1, ReadyFacts DEF ReadyFrames
<1>5. ReadyFrames' = 1 .. depth
  BY <1>2, <1>3, <1>4 DEF ReadyFrames
<1>6. QED
  BY <1>2, <1>3, <1>4, <1>5

\* The current frame is dropped; the ones below it are ready and untouched.
LEMMA ReturnEffect ==
  ASSUME TypeOK, CallStackInv, TagReturn \/ TagRoot
  PROVE  /\ callStack' \in Seq(Frame)
         /\ depth' = depth - 1
         /\ DOMAIN callStack' = 1 .. depth - 1
         /\ ReadyFrames' = 1 .. depth - 1
         /\ ReadyFrames = 1 .. depth
         /\ \A i \in 1 .. depth - 1 : callStack'[i] = callStack[i] /\ callStack[i].ready
<1>1. callStack # <<>> /\ callStack' = SubSeq(callStack, 1, depth - 1) /\ Top.ready
  BY DEF TagReturn, TagRoot, InLoop
<1>2. /\ callStack' \in Seq(Frame)
      /\ depth' = depth - 1
      /\ \A i \in 1 .. depth - 1 : callStack'[i] = callStack[i]
  BY <1>1, ReturnedFacts DEF depth
<1>3. DOMAIN callStack' = 1 .. depth - 1
  BY <1>2, LenProperties DEF depth
<1>4. ReadyFrames = 1 .. depth /\ \A i \in 1 .. depth : callStack[i].ready
  BY <1>1, ReadyFacts DEF ReadyFrames
<1>5. \A i \in 1 .. depth - 1 : i \in 1 .. depth
  BY <1>1, TopFacts
<1>6. ReadyFrames' = 1 .. depth - 1
  BY <1>2, <1>3, <1>4, <1>5 DEF ReadyFrames
<1>7. QED
  BY <1>2, <1>3, <1>4, <1>5, <1>6

-----------------------------------------------------------------------------
(* What the steps of the first search do to the low links *)

\* A low link only falls, and only that of the current state when an edge is
\* seen.
LEMMA LinkFacts ==
  ASSUME TypeOK, callStack # <<>>, NEW c \in State
  PROVE  /\ LinkTo(c) \in [State -> Int]
         /\ \A s \in State : LinkTo(c)[s] <= low[s]
         /\ \A s \in State : s # Top.state => LinkTo(c)[s] = low[s]
         /\ stackMem[c] => LinkTo(c)[Top.state] <= spot[c]
         /\ \/ LinkTo(c)[Top.state] = low[Top.state]
            \/ stackMem[c] /\ LinkTo(c)[Top.state] = spot[c]
<1>1. /\ Top.state \in State
      /\ low \in [State -> Int]
      /\ spot \in [State -> Int]
  BY TopFacts DEF TypeOK, Frame
<1>2. CASE stackMem[c]
  BY <1>1, <1>2 DEF LinkTo, Least
<1>3. CASE ~stackMem[c]
  BY <1>1, <1>3 DEF LinkTo
<1>4. QED
  BY <1>2, <1>3

\* On return a low link only falls, and only that of the parent.
LEMMA LowerFacts ==
  ASSUME TypeOK, callStack # <<>>
  PROVE  /\ LowerParent \in [State -> Int]
         /\ \A s \in State : LowerParent[s] <= low[s]
         /\ depth > 1 => LowerParent[callStack[depth - 1].state] <= low[Top.state]
         /\ \A s \in State :
              \/ LowerParent[s] = low[s]
              \/ /\ depth > 1
                 /\ s = callStack[depth - 1].state
                 /\ LowerParent[s] = low[Top.state]
<1>1. /\ Top.state \in State
      /\ low \in [State -> Int]
  BY TopFacts DEF TypeOK, Frame
<1>2. CASE depth > 1
  <2> DEFINE p == callStack[depth - 1].state
  <2>1. p \in State
    BY <1>2, TopFacts DEF Frame
  <2>2. LowerParent = [low EXCEPT ![p] = Least(@, low[Top.state])]
    BY <1>2 DEF LowerParent
  <2> HIDE DEF p
  <2>3. QED
    BY <1>1, <1>2, <2>1, <2>2 DEF Least, p
<1>3. CASE ~(depth > 1)
  BY <1>1, <1>3 DEF LowerParent
<1>4. QED
  BY <1>2, <1>3

-----------------------------------------------------------------------------
(* What the pop of a component does *)

\* The states of Tarjan's stack that are no older than the root get the next
\* number and lose their mark.
LEMMA RootEffect ==
  ASSUME TypeOK, StackInv, CallStackInv, TagRoot,
         NEW popped, popped = {u \in State : stackMem[u] /\ spot[Top.state] <= spot[u]}
  PROVE  /\ Top.state \in State
         /\ Top.state \in popped
         /\ \A s \in State : stackMem'[s] <=> s \notin popped /\ stackMem[s]
         /\ tag' = [s \in State |-> IF s \in popped THEN nb_SCCs ELSE tag[s]]
         /\ nb_SCCs' = nb_SCCs + 1
         /\ Tagged' = Tagged \cup popped
         /\ spot' = spot
         /\ succ' = succ
<1>1. /\ Top.state \in State /\ stackMem[Top.state]
      /\ Top.state \in popped
  BY ReadyFacts, TopFacts DEF TagRoot, InLoop, TypeOK
<1>2. HeadDownTo(Top.state) = popped
  BY <1>1, PopFacts
<1>3. /\ stackMem' = [s \in State |-> s \notin popped /\ stackMem[s]]
      /\ tag' = [s \in State |-> IF s \in popped THEN nb_SCCs ELSE tag[s]]
      /\ nb_SCCs' = nb_SCCs + 1
      /\ spot' = spot
      /\ succ' = succ
  BY <1>2 DEF TagRoot, MarksWithout, graphVars
<1>4. nb_SCCs # -1 /\ popped \subseteq State
  BY DEF TypeOK
<1>5. Tagged' = Tagged \cup popped
  BY <1>3, <1>4 DEF Tagged
<1>6. QED
  BY <1>1, <1>3, <1>5

-----------------------------------------------------------------------------
(* The types *)

\* The search before any step.
LEMMA InitType == Init => TypeOK
<1> SUFFICES ASSUME Init PROVE TypeOK
  OBVIOUS
<1>1. callStack \in Seq(Frame)
  BY InitialAssumption DEF Init, InitSearch, NewFrame, Frame
<1>2. /\ stack \in Seq(State)
      /\ DOMAIN origin = {}
      /\ DOMAIN final_SCCs = {}
  BY DEF Init, InitSearch
<1>3. QED
  BY <1>1, <1>2 DEF Init, InitGraph, InitSearch, TypeOK

\* A step keeps the types.  What is left on Tarjan's stack after a pop is a
\* sequence of states only because the root popped is on the stack.
LEMMA TypeStep ==
  ASSUME TypeOK, pc = "tag" => StackInv /\ CallStackInv, [Next]_vars
  PROVE  TypeOK'
<1>1. CASE TagEnter
  <2>1. /\ Top.state \in State /\ Top \in Frame
        /\ callStack' \in Seq(Frame)
    BY <1>1, EnterEffect, TopFacts DEF TagEnter, InLoop, Frame
  <2>2. stack' \in Seq(State)
    BY <1>1, <2>1, AppendProperties DEF TagEnter, TypeOK
  <2>3. QED
    BY <1>1, <2>1, <2>2 DEF TagEnter, TypeOK, graphVars, sccVars, dagVars
<1>2. ASSUME NEW c \in State, TagDescend(c)
      PROVE  TypeOK'
  <2>1. callStack' \in Seq(Frame)
    BY <1>2, DescendEffect DEF TagDescend, InLoop
  <2>2. QED
    BY <1>2, <2>1 DEF TagDescend, TypeOK, graphVars, sccVars, dagVars
<1>3. ASSUME NEW c \in State, TagSeen(c)
      PROVE  TypeOK'
  <2>1. callStack' \in Seq(Frame)
    BY <1>3, SeenEffect DEF TagSeen, InLoop
  <2>2. low' \in [State -> Int]
    BY <1>3, LinkFacts DEF TagSeen, InLoop
  <2>3. QED
    BY <1>3, <2>1, <2>2 DEF TagSeen, TypeOK, graphVars, sccVars, dagVars
<1>4. CASE TagReturn
  <2>1. callStack' \in Seq(Frame)
    BY <1>4, ReturnEffect DEF TagReturn, InLoop
  <2>2. low' \in [State -> Int]
    BY <1>4, LowerFacts DEF TagReturn, InLoop
  <2>3. QED
    BY <1>4, <2>1, <2>2 DEF TagReturn, TypeOK, graphVars, sccVars, dagVars
<1>5. CASE TagRoot
  <2>1. callStack' \in Seq(Frame)
    BY <1>5, ReturnEffect DEF TagRoot, InLoop
  <2>2. low' \in [State -> Int]
    BY <1>5, LowerFacts DEF TagRoot, InLoop
  <2>3. Top.state \in State /\ stackMem[Top.state]
    BY <1>5, ReadyFacts, TopFacts DEF TagRoot, InLoop
  <2>4. stack' \in Seq(State)
    BY <1>5, <2>3, PopFacts DEF TagRoot, InLoop
  <2>5. /\ tag' \in [State -> Int]
        /\ stackMem' \in [State -> BOOLEAN]
        /\ nb_SCCs' \in Nat
    BY <1>5 DEF TagRoot, MarksWithout, TypeOK
  <2>6. QED
    BY <1>5, <2>1, <2>2, <2>4, <2>5 DEF TagRoot, InLoop, TypeOK, graphVars, dagVars
<1>6. CASE TagFinished
  <2>1. callStack' \in Seq(Frame)
    BY <1>6, InitialAssumption DEF TagFinished, NewFrame, Frame
  <2>2. QED
    BY <1>6, <2>1 DEF TagFinished, ComponentIds, TypeOK, graphVars, sccVars
<1>7. CASE DagEnter
  <2>1. callStack' \in Seq(Frame) /\ Top.state \in State
    <3>1. CASE stackMem[Top.state]
      BY <1>7, <3>1, ReturnedFacts, TopFacts DEF DagEnter, InLoop, Frame
    <3>2. CASE ~stackMem[Top.state]
      BY <1>7, <3>2, CollectedFacts, TopFacts DEF DagEnter, InLoop, Frame
    <3>3. QED
      BY <3>1, <3>2
  <2>2. stackMem' \in [State -> BOOLEAN]
    BY <1>7, <2>1 DEF DagEnter, TypeOK
  <2>3. /\ DOMAIN origin' = DOMAIN origin
        /\ \A i \in DOMAIN origin' : origin'[i] \in State \cup {None}
    BY <1>7, <2>1 DEF DagEnter, TypeOK
  <2>4. QED
    BY <1>7, <2>1, <2>2, <2>3 DEF DagEnter, InLoop, TypeOK, graphVars, sccVars
<1>8. ASSUME NEW c \in State, DagEdge(c)
      PROVE  TypeOK'
  <2>1. callStack' \in Seq(Frame)
    BY <1>8, AdvancedFacts, DescendedFacts DEF DagEdge, InLoop, AfterEdge
  <2>2. nexts' \subseteq Int \X Int
    BY <1>8, TopFacts DEF DagEdge, InLoop, DagWith, TypeOK, Frame
  <2>3. QED
    BY <1>8, <2>1, <2>2 DEF DagEdge, TypeOK, graphVars, sccVars
<1>9. CASE DagReturn
  <2>1. callStack' \in Seq(Frame)
    BY <1>9, ReturnedFacts DEF DagReturn, InLoop
  <2>2. QED
    BY <1>9, <2>1 DEF DagReturn, TypeOK, graphVars, sccVars, dagVars
<1>10. CASE DagFinished
  BY <1>10 DEF DagFinished, TypeOK, graphVars, searchVars, sccVars, dagVars
<1>11. CASE MarkFinal
  BY <1>11 DEF MarkFinal, FinalsMarked, TypeOK, graphVars, searchVars, sccVars
<1>12. CASE UNCHANGED vars
  BY <1>12 DEF TypeOK, vars, graphVars, searchVars, sccVars, dagVars
<1>13. QED
  BY <1>1, <1>2, <1>3, <1>4, <1>5, <1>6, <1>7, <1>8, <1>9, <1>10, <1>11, <1>12
     DEF Next, Terminated

-----------------------------------------------------------------------------
(* The invariant of the first search, action by action *)

\* The steps of compute_SCC_tag.
TagStep ==
  \/ TagEnter
  \/ \E c \in State : TagDescend(c)
  \/ \E c \in State : TagSeen(c)
  \/ TagReturn
  \/ TagRoot

\* Tarjan's stack stays in the order of discovery and holds the discovered
\* states that have no number.
LEMMA StackStep ==
  ASSUME TypeOK, StackInv, CallStackInv, TagStep
  PROVE  StackInv'
<1>1. CASE TagEnter
  <2>1. /\ Top.state \in State
        /\ spot[Top.state] = -1
        /\ ~stackMem[Top.state]
        /\ tag[Top.state] = -1
    BY <1>1, ReadyFacts, TopFacts
       DEF TagEnter, InLoop, CallStackInv, StackInv, FrameState, Top, Tagged
  <2>2. /\ DOMAIN stack = 1 .. Len(stack)
        /\ Len(stack) \in Nat
        /\ DOMAIN stack' = 1 .. Len(stack) + 1
        /\ \A i \in 1 .. Len(stack) : stack'[i] = stack[i] /\ stack[i] \in State
        /\ stack'[Len(stack) + 1] = Top.state
    BY <1>1, <2>1, AppendProperties, LenProperties, ElementOfSeq DEF TagEnter, TypeOK
  <2>3. /\ \A s \in State : s # Top.state => spot'[s] = spot[s]
        /\ \A s \in State : s # Top.state => stackMem'[s] = stackMem[s]
        /\ spot'[Top.state] = time
        /\ stackMem'[Top.state]
        /\ time' = time + 1 /\ time \in Nat
        /\ Tagged' = Tagged
    BY <1>1, <2>1 DEF TagEnter, TypeOK, sccVars, Tagged
  <2>4. \A i \in 1 .. Len(stack) : /\ stackMem[stack[i]]
                                   /\ stack[i] # Top.state
                                   /\ spot[stack[i]] < time
    BY <2>1, <2>2 DEF StackInv
  <2>5. (\A s \in State : stackMem[s] <=> \E i \in DOMAIN stack : stack[i] = s)'
    BY <2>1, <2>2, <2>3, <2>4 DEF StackInv
  <2>6. (\A i, j \in DOMAIN stack : i < j => spot[stack[i]] < spot[stack[j]])'
    BY <2>1, <2>2, <2>3, <2>4 DEF StackInv
  <2>7. (\A s \in State : spot[s] # -1 <=> stackMem[s] \/ s \in Tagged)'
    BY <2>1, <2>3 DEF StackInv
  <2>8. (\A s \in State : stackMem[s] => s \notin Tagged)'
    BY <2>1, <2>3 DEF StackInv, Tagged
  <2>9. (\A s \in State : -1 <= spot[s] /\ spot[s] < time)'
    <3> SUFFICES ASSUME NEW s \in State
                 PROVE  -1 <= spot'[s] /\ spot'[s] < time'
      OBVIOUS
    <3>1. spot[s] \in Int /\ -1 <= spot[s] /\ spot[s] < time
      BY DEF StackInv, TypeOK
    <3>2. QED
      BY <2>3, <3>1
  <2>10. (\A s, t \in State : spot[s] = spot[t] /\ spot[s] # -1 => s = t)'
    BY <2>1, <2>3 DEF StackInv, TypeOK
  <2>11. QED
    BY <2>5, <2>6, <2>7, <2>8, <2>9, <2>10 DEF StackInv
<1>2. ASSUME NEW c \in State, TagDescend(c) \/ TagSeen(c) \/ TagReturn
      PROVE  StackInv'
  BY <1>2 DEF TagDescend, TagSeen, TagReturn, sccVars, StackInv, Tagged
<1>3. CASE TagRoot
  <2> DEFINE T == Top.state
             popped == HeadDownTo(T)
  <2>1. T \in State /\ stackMem[T]
    BY <1>3, ReadyFacts, TopFacts DEF TagRoot, InLoop
  <2>2. /\ popped = {u \in State : stackMem[u] /\ spot[T] <= spot[u]}
        /\ DOMAIN stack' \subseteq DOMAIN stack
        /\ \A i \in DOMAIN stack' : stack'[i] = stack[i]
        /\ \A u \in State : (\E i \in DOMAIN stack' : stack'[i] = u)
                            <=> stackMem[u] /\ ~(spot[T] <= spot[u])
    BY <1>3, <2>1, PopFacts DEF TagRoot
  <2>3. /\ \A s \in State : stackMem'[s] <=> s \notin popped /\ stackMem[s]
        /\ Tagged' = Tagged \cup popped
        /\ spot' = spot /\ time' = time
    BY <1>3, <2>2, RootEffect DEF TagRoot
  <2> HIDE DEF popped, T
  <2>4. (\A s \in State : stackMem[s] <=> \E i \in DOMAIN stack : stack[i] = s)'
    BY <2>2, <2>3
  <2>5. (\A i, j \in DOMAIN stack : i < j => spot[stack[i]] < spot[stack[j]])'
    BY <2>2, <2>3 DEF StackInv
  <2>6. (\A s \in State : spot[s] # -1 <=> stackMem[s] \/ s \in Tagged)'
    BY <2>2, <2>3 DEF StackInv
  <2>7. (\A s \in State : stackMem[s] => s \notin Tagged)'
    BY <2>2, <2>3 DEF StackInv
  <2>8. (/\ \A s \in State : -1 <= spot[s] /\ spot[s] < time
         /\ \A s, t \in State : spot[s] = spot[t] /\ spot[s] # -1 => s = t)'
    BY <2>3 DEF StackInv
  <2>9. QED
    BY <2>4, <2>5, <2>6, <2>7, <2>8 DEF StackInv
<1>4. QED
  BY <1>1, <1>2, <1>3, InitialAssumption DEF TagStep

\* The call stack stays a path of states on Tarjan's stack.
LEMMA CallStackStep ==
  ASSUME TypeOK, StackInv, CallStackInv, TagStep
  PROVE  CallStackInv'
<1>1. CASE TagEnter
  <2>1. /\ callStack # <<>>
        /\ Top.state \in State
        /\ spot[Top.state] = -1
        /\ Top.state = FrameState(depth)
        /\ depth \in Nat /\ depth >= 1
    BY <1>1, ReadyFacts, TopFacts DEF TagEnter, InLoop, CallStackInv, FrameState, Top
  <2>2. \A i \in 1 .. depth - 1 : /\ stackMem[FrameState(i)]
                                  /\ FrameState(i) \in State
                                  /\ FrameState(i) # Top.state
                                  /\ spot[FrameState(i)] < time
    BY <1>1, <2>1, EnterEffect, ReadyFacts DEF StackInv
  <2>3. /\ \A s \in State : s # Top.state => /\ spot'[s] = spot[s]
                                            /\ low'[s] = low[s]
                                            /\ stackMem'[s] = stackMem[s]
        /\ spot'[Top.state] = time /\ low'[Top.state] = time
        /\ stackMem'[Top.state]
        /\ succ' = succ
    BY <1>1, <2>1 DEF TagEnter, TypeOK, graphVars
  <2>4. \A i \in 1 .. depth : FrameState(i)' = FrameState(i)
    BY <1>1, EnterEffect DEF FrameState
  <2>5. (\A i \in DOMAIN callStack :
           IF callStack[i].ready
           THEN stackMem[FrameState(i)] /\ callStack[i].todo \subseteq succ[FrameState(i)]
           ELSE i = depth /\ spot[FrameState(i)] = -1)'
    <3> SUFFICES ASSUME NEW i \in 1 .. depth
                 PROVE  /\ stackMem'[FrameState(i)]
                        /\ callStack'[i].todo \subseteq succ[FrameState(i)]
      BY <1>1, <2>3, <2>4, EnterEffect
    <3>1. CASE i = depth
      BY <1>1, <2>1, <2>3, <3>1, EnterEffect
    <3>2. CASE i # depth
      <4>1. i \in 1 .. depth - 1
        BY <2>1, <3>2
      <4>2. callStack[i].todo \subseteq succ[FrameState(i)]
        BY <4>1, <1>1, EnterEffect, TopFacts, <2>1 DEF CallStackInv, ReadyFrames
      <4>3. QED
        BY <1>1, <4>1, <4>2, <2>2, <2>3, <3>2, EnterEffect
    <3>3. QED
      BY <3>1, <3>2
  <2>6. (\A i \in DOMAIN callStack : i > 1 => FrameState(i) \in succ[FrameState(i - 1)])'
    BY <1>1, <2>1, <2>3, <2>4, EnterEffect, TopFacts DEF CallStackInv
  <2>7. (\A i, j \in ReadyFrames : i < j => spot[FrameState(i)] < spot[FrameState(j)])'
    BY <1>1, <2>1, <2>2, <2>3, <2>4, EnterEffect DEF CallStackInv
  <2>8. (\A i \in ReadyFrames : low[FrameState(i)] <= spot[FrameState(i)])'
    <3> SUFFICES ASSUME NEW i \in 1 .. depth
                 PROVE  low'[FrameState(i)] <= spot'[FrameState(i)]
      BY <1>1, <2>4, EnterEffect
    <3>1. CASE i = depth
      BY <2>1, <2>3, <3>1 DEF TypeOK
    <3>2. CASE i # depth
      <4>1. i \in 1 .. depth - 1
        BY <2>1, <3>2
      <4>2. low[FrameState(i)] <= spot[FrameState(i)]
        BY <1>1, <4>1, EnterEffect DEF CallStackInv
      <4>3. QED
        BY <2>2, <2>3, <4>1, <4>2
    <3>3. QED
      BY <3>1, <3>2
  <2>9. QED
    BY <2>5, <2>6, <2>7, <2>8 DEF CallStackInv
<1>2. ASSUME NEW c \in State, TagDescend(c)
      PROVE  CallStackInv'
  <2>1. /\ callStack # <<>>
        /\ depth \in Nat /\ depth >= 1
        /\ Top.state = FrameState(depth)
        /\ c \in Top.todo
        /\ spot[c] = -1
        /\ UNCHANGED <<spot, low, stackMem, succ>>
    BY <1>2, ReadyFacts, TopFacts DEF TagDescend, InLoop, graphVars
  <2>2. \A i \in 1 .. depth : /\ FrameState(i)' = FrameState(i)
                              /\ callStack[i].ready
                              /\ stackMem[FrameState(i)]
                              /\ callStack[i].todo \subseteq succ[FrameState(i)]
    BY <1>2, DescendEffect DEF FrameState, CallStackInv, ReadyFrames
  <2>3. /\ callStack'[depth + 1].state = c
        /\ ~callStack'[depth + 1].ready
    <3>1. callStack'[depth + 1] = NewFrame(c)
      BY <1>2, DescendEffect
    <3>2. QED
      BY <3>1 DEF NewFrame
  <2>4. c \in succ[FrameState(depth)]
    BY <2>1, <2>2 DEF Top
  <2>5. (\A i \in DOMAIN callStack :
           IF callStack[i].ready
           THEN stackMem[FrameState(i)] /\ callStack[i].todo \subseteq succ[FrameState(i)]
           ELSE i = depth /\ spot[FrameState(i)] = -1)'
    <3> SUFFICES ASSUME NEW i \in 1 .. depth + 1
                 PROVE  (IF callStack[i].ready
                         THEN /\ stackMem[FrameState(i)]
                              /\ callStack[i].todo \subseteq succ[FrameState(i)]
                         ELSE i = depth /\ spot[FrameState(i)] = -1)'
      BY <1>2, DescendEffect
    <3>1. CASE i = depth + 1
      BY <1>2, <2>1, <2>3, <3>1, DescendEffect DEF FrameState
    <3>2. CASE i # depth + 1
      <4>1. i \in 1 .. depth
        BY <2>1, <3>2
      <4>2. callStack'[i].todo \subseteq succ[FrameState(i)]
        BY <1>2, <2>1, <2>2, <4>1, DescendEffect DEF Top
      <4>3. QED
        BY <1>2, <2>1, <2>2, <4>1, <4>2, DescendEffect
    <3>3. QED
      BY <3>1, <3>2
  <2>6. (\A i \in DOMAIN callStack : i > 1 => FrameState(i) \in succ[FrameState(i - 1)])'
    <3> SUFFICES ASSUME NEW i \in 1 .. depth + 1, i > 1
                 PROVE  FrameState(i)' \in succ[FrameState(i - 1)']
      BY <1>2, <2>1, DescendEffect
    <3>1. CASE i = depth + 1
      <4>1. i - 1 = depth /\ i - 1 \in 1 .. depth
        BY <2>1, <3>1
      <4>2. FrameState(i)' = c /\ FrameState(i - 1)' = FrameState(i - 1)
        BY <2>2, <2>3, <3>1, <4>1 DEF FrameState
      <4>3. QED
        BY <2>1, <2>4, <4>1, <4>2
    <3>2. CASE i # depth + 1
      <4>1. i \in 1 .. depth /\ i - 1 \in 1 .. depth
        BY <2>1, <3>2
      <4>2. FrameState(i) \in succ[FrameState(i - 1)]
        BY <2>1, <4>1, TopFacts DEF CallStackInv
      <4>3. FrameState(i)' = FrameState(i) /\ FrameState(i - 1)' = FrameState(i - 1)
        BY <2>2, <4>1
      <4>4. QED
        BY <2>1, <4>2, <4>3
    <3>3. QED
      BY <3>1, <3>2
  <2>7. (/\ \A i, j \in ReadyFrames : i < j => spot[FrameState(i)] < spot[FrameState(j)]
         /\ \A i \in ReadyFrames : low[FrameState(i)] <= spot[FrameState(i)])'
    <3>1. /\ \A i, j \in 1 .. depth : i < j => spot[FrameState(i)] < spot[FrameState(j)]
          /\ \A i \in 1 .. depth : low[FrameState(i)] <= spot[FrameState(i)]
      BY <1>2, DescendEffect DEF CallStackInv
    <3>2. ReadyFrames' = 1 .. depth
      BY <1>2, DescendEffect
    <3>3. QED
      BY <2>1, <2>2, <3>1, <3>2
  <2>8. QED
    BY <2>5, <2>6, <2>7 DEF CallStackInv
<1>3. ASSUME NEW c \in State, TagSeen(c)
      PROVE  CallStackInv'
  <2>1. /\ callStack # <<>>
        /\ depth \in Nat /\ depth >= 1
        /\ UNCHANGED <<spot, stackMem, succ>>
        /\ low' = LinkTo(c)
    BY <1>3, TopFacts DEF TagSeen, InLoop, graphVars
  <2>2. \A i \in 1 .. depth : /\ FrameState(i)' = FrameState(i)
                              /\ callStack[i].ready
                              /\ stackMem[FrameState(i)]
                              /\ FrameState(i) \in State
                              /\ callStack[i].todo \subseteq succ[FrameState(i)]
    BY <1>3, <2>1, SeenEffect, ReadyFacts, TopFacts DEF FrameState, CallStackInv, ReadyFrames
  <2>3. (\A i \in DOMAIN callStack :
           IF callStack[i].ready
           THEN stackMem[FrameState(i)] /\ callStack[i].todo \subseteq succ[FrameState(i)]
           ELSE i = depth /\ spot[FrameState(i)] = -1)'
    <3> SUFFICES ASSUME NEW i \in 1 .. depth
                 PROVE  callStack'[i].todo \subseteq succ[FrameState(i)]
      BY <1>3, <2>1, <2>2, SeenEffect
    <3>1. callStack'[i].todo \subseteq callStack[i].todo
      BY <1>3, SeenEffect DEF Top
    <3>2. QED
      BY <2>2, <3>1
  <2>4. (\A i \in DOMAIN callStack : i > 1 => FrameState(i) \in succ[FrameState(i - 1)])'
    <3>1. \A i \in 1 .. depth : i > 1 => FrameState(i) \in succ[FrameState(i - 1)]
      BY <2>1, TopFacts DEF CallStackInv
    <3>2. \A i \in 1 .. depth : i > 1 => i - 1 \in 1 .. depth
      BY <2>1
    <3>3. \A i \in 1 .. depth : i > 1 => FrameState(i - 1)' = FrameState(i - 1)
      BY <2>2, <3>2
    <3>4. DOMAIN callStack' = 1 .. depth
      BY <1>3, SeenEffect
    <3>5. QED
      BY <2>1, <2>2, <3>1, <3>3, <3>4
  <2>5. (\A i, j \in ReadyFrames : i < j => spot[FrameState(i)] < spot[FrameState(j)])'
    <3>1. \A i, j \in 1 .. depth : i < j => spot[FrameState(i)] < spot[FrameState(j)]
      BY <1>3, SeenEffect DEF CallStackInv
    <3>2. ReadyFrames' = 1 .. depth
      BY <1>3, SeenEffect
    <3>3. QED
      BY <2>1, <2>2, <3>1, <3>2
  <2>6. (\A i \in ReadyFrames : low[FrameState(i)] <= spot[FrameState(i)])'
    <3> SUFFICES ASSUME NEW i \in 1 .. depth
                 PROVE  low'[FrameState(i)] <= spot[FrameState(i)]
      BY <1>3, <2>1, <2>2, SeenEffect
    <3>1. /\ low'[FrameState(i)] <= low[FrameState(i)]
          /\ low'[FrameState(i)] \in Int /\ low[FrameState(i)] \in Int
          /\ spot[FrameState(i)] \in Int
      BY <2>1, <2>2, LinkFacts DEF TypeOK
    <3>2. low[FrameState(i)] <= spot[FrameState(i)]
      BY <1>3, SeenEffect DEF CallStackInv
    <3>3. QED
      BY <3>1, <3>2
  <2>7. QED
    BY <2>3, <2>4, <2>5, <2>6 DEF CallStackInv
<1>4. ASSUME TagReturn \/ TagRoot
      PROVE  CallStackInv'
  <2>1. /\ callStack # <<>>
        /\ depth \in Nat /\ depth >= 1
        /\ Top.state = FrameState(depth)
        /\ Top.state \in State /\ stackMem[Top.state]
        /\ UNCHANGED <<spot, succ>>
        /\ low' = LowerParent
    BY <1>4, ReadyFacts, TopFacts DEF TagReturn, TagRoot, InLoop, graphVars
  <2>2. \A i \in 1 .. depth - 1 : /\ FrameState(i)' = FrameState(i)
                                  /\ callStack'[i] = callStack[i]
                                  /\ callStack[i].ready
                                  /\ stackMem[FrameState(i)]
                                  /\ FrameState(i) \in State
                                  /\ callStack[i].todo \subseteq succ[FrameState(i)]
                                  /\ spot[FrameState(i)] < spot[Top.state]
    BY <1>4, <2>1, ReturnEffect, ReadyFacts, TopFacts DEF FrameState, CallStackInv
  <2>3. \A i \in 1 .. depth - 1 : stackMem'[FrameState(i)]
    <3>1. CASE TagReturn
      BY <2>2, <3>1 DEF TagReturn
    <3>2. CASE TagRoot
      <4>1. HeadDownTo(Top.state)
              = {u \in State : stackMem[u] /\ spot[Top.state] <= spot[u]}
        BY <2>1, PopFacts
      <4>2. \A i \in 1 .. depth - 1 : FrameState(i) \notin HeadDownTo(Top.state)
        BY <2>1, <2>2, <4>1 DEF TypeOK
      <4>3. QED
        BY <2>2, <3>2, <4>2 DEF TagRoot, MarksWithout
    <3>3. QED
      BY <1>4, <3>1, <3>2
  <2>4. (\A i \in DOMAIN callStack :
           IF callStack[i].ready
           THEN stackMem[FrameState(i)] /\ callStack[i].todo \subseteq succ[FrameState(i)]
           ELSE i = depth /\ spot[FrameState(i)] = -1)'
    BY <1>4, <2>1, <2>2, <2>3, ReturnEffect
  <2>5. (\A i \in DOMAIN callStack : i > 1 => FrameState(i) \in succ[FrameState(i - 1)])'
    <3>1. \A i \in 1 .. depth : i > 1 => FrameState(i) \in succ[FrameState(i - 1)]
      BY <2>1, TopFacts DEF CallStackInv
    <3>2. \A i \in 1 .. depth - 1 : i \in 1 .. depth /\ (i > 1 => i - 1 \in 1 .. depth - 1)
      BY <2>1
    <3>3. \A i \in 1 .. depth - 1 : i > 1 => FrameState(i - 1)' = FrameState(i - 1)
      BY <2>2, <3>2
    <3>4. DOMAIN callStack' = 1 .. depth - 1
      BY <1>4, ReturnEffect
    <3>5. QED
      BY <2>1, <2>2, <3>1, <3>2, <3>3, <3>4
  <2>6. (\A i, j \in ReadyFrames : i < j => spot[FrameState(i)] < spot[FrameState(j)])'
    BY <1>4, <2>1, <2>2, ReturnEffect DEF CallStackInv
  <2>7. (\A i \in ReadyFrames : low[FrameState(i)] <= spot[FrameState(i)])'
    <3> SUFFICES ASSUME NEW i \in 1 .. depth - 1
                 PROVE  low'[FrameState(i)] <= spot[FrameState(i)]
      BY <1>4, <2>1, <2>2, ReturnEffect
    <3>1. /\ low'[FrameState(i)] <= low[FrameState(i)]
          /\ low'[FrameState(i)] \in Int /\ low[FrameState(i)] \in Int
          /\ spot[FrameState(i)] \in Int
      BY <2>1, <2>2, LowerFacts DEF TypeOK
    <3>2. low[FrameState(i)] <= spot[FrameState(i)]
      BY <1>4, <2>1, ReturnEffect DEF CallStackInv
    <3>3. QED
      BY <3>1, <3>2
  <2>8. QED
    BY <2>4, <2>5, <2>6, <2>7 DEF CallStackInv
<1>5. QED
  BY <1>1, <1>2, <1>3, <1>4 DEF TagStep

\* Every edge of a state on Tarjan's stack stays accounted for.
LEMMA VisitedStep ==
  ASSUME TypeOK, TypeOK', StackInv, CallStackInv, VisitedInv, TagStep
  PROVE  VisitedInv'
<1> SUFFICES ASSUME NEW s \in State, stackMem'[s], NEW c \in State, c \in succ'[s]
             PROVE  Unvisited(s, c)' \/ c \in Tagged' \/ Accounted(s, c)'
  BY DEF VisitedInv, TypeOK
<1>0. /\ succ' = succ /\ callStack # <<>>
      /\ depth \in Nat /\ depth >= 1
      /\ Top.state \in State /\ Top.state = FrameState(depth)
  BY ReadyFacts, TopFacts
     DEF TagStep, TagEnter, TagDescend, TagSeen, TagReturn, TagRoot, InLoop, graphVars
<1>00. /\ stackMem[s] => Unvisited(s, c) \/ c \in Tagged \/ Accounted(s, c)
       /\ \A x \in State : spot[x] \in Int /\ low[x] \in Int /\ spot'[x] \in Int /\ low'[x] \in Int
  BY <1>0 DEF VisitedInv, TypeOK
<1>1. CASE TagEnter
  <2>1. /\ spot[Top.state] = -1
        /\ ~stackMem[Top.state]
        /\ \A x \in State : x # Top.state => /\ spot'[x] = spot[x]
                                            /\ low'[x] = low[x]
                                            /\ stackMem'[x] = stackMem[x]
        /\ stackMem'[Top.state]
        /\ spot'[Top.state] = time
        /\ \A x \in State : spot[x] < time
        /\ time \in Nat
        /\ Tagged' = Tagged
    <3>1. spot[Top.state] = -1
      BY <1>0, <1>1, TopFacts DEF TagEnter, CallStackInv, Top
    <3>2. ~stackMem[Top.state]
      BY <1>0, <3>1 DEF StackInv
    <3>3. \A x \in State : spot[x] < time
      BY DEF StackInv
    <3>4. QED
      BY <1>0, <1>1, <3>1, <3>2, <3>3 DEF TagEnter, TypeOK, sccVars, Tagged
  <2>2. \A i \in 1 .. depth : FrameState(i)' = FrameState(i)
    BY <1>1, EnterEffect DEF FrameState
  <2>3. \A i \in 1 .. depth - 1 : /\ FrameState(i) \in State
                                  /\ FrameState(i) # Top.state
                                  /\ i \in 1 .. depth
    BY <1>0, <1>1, <2>1, EnterEffect, ReadyFacts
  <2>4. CASE s = Top.state
    <3>1. /\ depth \in ReadyFrames'
          /\ callStack'[depth].todo = succ[s]
      BY <1>0, <1>1, <2>4, EnterEffect
    <3>2. callStack'[depth].state = s
      BY <1>0, <2>2, <2>4 DEF FrameState
    <3>3. QED
      BY <1>0, <3>1, <3>2 DEF Unvisited, FrameState
  <2>5. CASE s # Top.state
    <3>0. stackMem[s]
      BY <2>1, <2>5
    <3>1. CASE \E i \in ReadyFrames : FrameState(i) = s /\ c \in callStack[i].todo
      <4>1. PICK i \in 1 .. depth - 1 : FrameState(i) = s /\ c \in callStack[i].todo
        BY <1>1, <3>1, EnterEffect
      <4>2. i \in 1 .. depth /\ i # depth
        BY <1>0, <4>1
      <4>3. i \in ReadyFrames' /\ callStack'[i].todo = callStack[i].todo
        BY <1>1, <4>2, EnterEffect
      <4>4. FrameState(i)' = s
        BY <2>2, <4>1, <4>2
      <4>5. QED
        BY <4>1, <4>3, <4>4 DEF Unvisited
    <3>2. CASE depth > 1 /\ c = Top.state /\ s = FrameState(depth - 1)
      <4>1. stackMem'[c] /\ spot'[c] = time /\ spot'[s] = spot[s]
        BY <2>1, <2>5, <3>2
      <4> DEFINE k == depth - 1
      <4>2. k \in 1 .. depth - 1 /\ k \in ReadyFrames /\ k \in ReadyFrames'
        BY <1>0, <1>1, <3>2, EnterEffect
      <4>3. low[FrameState(k)] <= spot[FrameState(k)]
        BY <4>2 DEF CallStackInv
      <4>4. low'[s] <= spot'[c]
        BY <1>00, <2>1, <2>5, <3>2, <4>1, <4>3
      <4>5. \A i \in ReadyFrames' : spot'[FrameState(i)'] <= spot'[s] => i <= k
        BY <1>0, <1>00, <1>1, <2>1, <2>2, <4>1, EnterEffect
      <4>6. FrameState(k) = s
        BY <3>2
      <4> HIDE DEF k
      <4>7. callStack'[k].state = s
        BY <4>6, <4>2, <2>2, <2>3 DEF FrameState
      <4>8. QED
        BY <1>00, <4>1, <4>2, <4>4, <4>5, <4>7 DEF Accounted, FrameState
    <3>3. CASE c \in Tagged
      BY <2>1, <3>3
    <3>4. CASE Accounted(s, c)
      <4>1. stackMem[c] /\ c # Top.state
        BY <2>1, <3>4 DEF Accounted
      <4>2. /\ stackMem'[c] /\ spot'[c] = spot[c] /\ spot'[s] = spot[s]
        BY <2>1, <2>5, <4>1
      <4>3. ASSUME NEW i \in 1 .. depth, spot'[FrameState(i)'] <= spot'[s]
            PROVE  i \in 1 .. depth - 1 /\ spot[FrameState(i)] <= spot[s]
        BY <1>0, <1>00, <2>1, <2>2, <2>3, <4>2, <4>3
      <4>4. ASSUME NEW i \in 1 .. depth, spot'[FrameState(i)'] <= spot'[s]
            PROVE  \E k \in 1 .. depth : /\ i <= k
                                         /\ spot'[FrameState(k)'] <= spot'[s]
                                         /\ low'[FrameState(k)'] <= spot'[c]
        <5>1. PICK k \in 1 .. depth - 1 : /\ i <= k
                                         /\ spot[FrameState(k)] <= spot[s]
                                         /\ low[FrameState(k)] <= spot[c]
          BY <1>1, <3>4, <4>3, <4>4, EnterEffect DEF Accounted
        <5>2. QED
          BY <2>1, <2>2, <2>3, <4>2, <5>1
      <4>5. QED
        BY <1>1, <4>2, <4>4, EnterEffect DEF Accounted
    <3>5. QED
      BY <1>00, <3>0, <3>1, <3>2, <3>3, <3>4 DEF Unvisited
  <2>6. QED
    BY <2>4, <2>5
<1>2. ASSUME NEW e \in State, TagDescend(e)
      PROVE  Unvisited(s, c)' \/ c \in Tagged' \/ Accounted(s, c)'
  <2>1. /\ UNCHANGED <<spot, low, stackMem>>
        /\ Tagged' = Tagged
        /\ Top.ready
    BY <1>2 DEF TagDescend, sccVars, Tagged
  <2>2. /\ ReadyFrames' = 1 .. depth /\ ReadyFrames = 1 .. depth
        /\ depth' = depth + 1
        /\ callStack'[depth + 1] = NewFrame(e)
        /\ \A i \in 1 .. depth : callStack'[i].todo = IF i = depth THEN Top.todo \ {e}
                                                      ELSE callStack[i].todo
    BY <1>2, DescendEffect
  <2>3. \A i \in 1 .. depth : callStack'[i].state = callStack[i].state
    BY <1>2, DescendEffect
  <2>4. CASE \E i \in ReadyFrames : FrameState(i) = s /\ c \in callStack[i].todo
    <3>1. PICK i \in 1 .. depth : FrameState(i) = s /\ c \in callStack[i].todo
      BY <2>2, <2>4
    <3>2. CASE i = depth /\ c = e
      <4>1. /\ callStack'[depth + 1].state = c
            /\ ~callStack'[depth + 1].ready
        BY <2>2, <3>2 DEF NewFrame
      <4>2. callStack'[depth].state = s
        BY <2>3, <3>1, <3>2 DEF FrameState
      <4>3. /\ depth' > 1
            /\ ~callStack'[depth'].ready
            /\ c = callStack'[depth'].state
            /\ s = callStack'[depth' - 1].state
        BY <1>0, <2>2, <4>1, <4>2
      <4>4. QED
        BY <4>3 DEF Unvisited, Top, FrameState
    <3>3. CASE ~(i = depth /\ c = e)
      <4>1. c \in callStack'[i].todo
        BY <2>2, <3>1, <3>3 DEF Top
      <4>2. callStack'[i].state = s /\ i \in ReadyFrames'
        BY <2>2, <2>3, <3>1 DEF FrameState
      <4>3. QED
        BY <4>1, <4>2 DEF Unvisited, FrameState
    <3>4. QED
      BY <3>2, <3>3
  <2>5. CASE c \in Tagged
    BY <2>1, <2>5
  <2>6. CASE Accounted(s, c)
    BY <2>1, <2>2, <2>3, <2>6 DEF Accounted, FrameState
  <2>7. QED
    BY <1>00, <2>1, <2>4, <2>5, <2>6 DEF Unvisited
<1>3. ASSUME NEW e \in State, TagSeen(e)
      PROVE  Unvisited(s, c)' \/ c \in Tagged' \/ Accounted(s, c)'
  <2>1. /\ UNCHANGED <<spot, stackMem>>
        /\ Tagged' = Tagged
        /\ Top.ready
        /\ low' = LinkTo(e)
        /\ spot[e] # -1
    BY <1>3 DEF TagSeen, sccVars, Tagged
  <2>2. /\ ReadyFrames' = 1 .. depth /\ ReadyFrames = 1 .. depth
        /\ \A i \in 1 .. depth : callStack'[i].todo = IF i = depth THEN Top.todo \ {e}
                                                      ELSE callStack[i].todo
    BY <1>3, SeenEffect
  <2>3. \A i \in 1 .. depth : /\ callStack'[i].state = callStack[i].state
                              /\ FrameState(i)' = FrameState(i)
                              /\ FrameState(i) \in State
    BY <1>0, <1>3, <2>2, SeenEffect, ReadyFacts DEF FrameState
  <2>4. \A x \in State : low'[x] <= low[x]
    BY <1>0, <2>1, LinkFacts
  <2>5. CASE \E i \in ReadyFrames : FrameState(i) = s /\ c \in callStack[i].todo
    <3>1. PICK i \in 1 .. depth : FrameState(i) = s /\ c \in callStack[i].todo
      BY <2>2, <2>5
    <3>2. CASE i = depth /\ c = e
      <4>1. CASE stackMem[c]
        <5>1. low'[s] <= spot[c] /\ s = Top.state
          BY <1>0, <2>1, <3>1, <3>2, <4>1, LinkFacts
        <5>2. /\ depth \in ReadyFrames'
              /\ callStack'[depth].state = s
              /\ \A j \in ReadyFrames' : j <= depth
          BY <1>0, <2>2, <2>3, <3>1, <3>2 DEF FrameState
        <5>3. spot'[s] <= spot'[s] /\ low'[s] <= spot'[c] /\ stackMem'[c]
          BY <1>00, <2>1, <4>1, <5>1
        <5>4. QED
          BY <5>2, <5>3 DEF Accounted, FrameState
      <4>2. CASE ~stackMem[c]
        BY <2>1, <3>2, <4>2 DEF StackInv
      <4>3. QED
        BY <4>1, <4>2
    <3>3. CASE ~(i = depth /\ c = e)
      <4>1. c \in callStack'[i].todo
        BY <2>2, <3>1, <3>3 DEF Top
      <4>2. callStack'[i].state = s /\ i \in ReadyFrames'
        BY <2>2, <2>3, <3>1 DEF FrameState
      <4>3. QED
        BY <4>1, <4>2 DEF Unvisited, FrameState
    <3>4. QED
      BY <3>2, <3>3
  <2>6. CASE c \in Tagged
    BY <2>1, <2>6
  <2>7. CASE Accounted(s, c)
    <3>1. stackMem'[c]
      BY <2>1, <2>7 DEF Accounted
    <3>2. ASSUME NEW i \in 1 .. depth, spot'[FrameState(i)'] <= spot'[s]
          PROVE  \E k \in 1 .. depth : /\ i <= k
                                       /\ spot'[FrameState(k)'] <= spot'[s]
                                       /\ low'[FrameState(k)'] <= spot'[c]
      <4>1. PICK k \in 1 .. depth : /\ i <= k
                                   /\ spot[FrameState(k)] <= spot[s]
                                   /\ low[FrameState(k)] <= spot[c]
        BY <2>1, <2>2, <2>3, <2>7, <3>2 DEF Accounted
      <4>2. low'[FrameState(k)] <= spot[c]
        BY <1>00, <2>3, <2>4, <4>1
      <4>3. QED
        BY <2>1, <2>3, <4>1, <4>2
    <3>3. QED
      BY <2>2, <3>1, <3>2 DEF Accounted
  <2>8. QED
    BY <1>00, <2>1, <2>5, <2>6, <2>7 DEF Unvisited
<1>4. ASSUME TagReturn \/ TagRoot
      PROVE  Unvisited(s, c)' \/ c \in Tagged' \/ Accounted(s, c)'
  <2>1. /\ UNCHANGED spot
        /\ Top.ready
        /\ Top.todo = {}
        /\ low' = LowerParent
    BY <1>4 DEF TagReturn, TagRoot
  <2>2. /\ ReadyFrames' = 1 .. depth - 1 /\ ReadyFrames = 1 .. depth
        /\ \A i \in 1 .. depth - 1 : callStack'[i] = callStack[i]
    BY <1>4, ReturnEffect
  <2>3. \A i \in 1 .. depth - 1 : FrameState(i)' = FrameState(i)
    BY <2>2 DEF FrameState
  <2>4. \A i \in 1 .. depth : FrameState(i) \in State
    BY <1>0, <2>2, ReadyFacts
  <2>5. \A x \in State : low'[x] <= low[x]
    BY <1>0, <2>1, LowerFacts
  <2>6. CASE stackMem[s] /\ \E i \in ReadyFrames : FrameState(i) = s /\ c \in callStack[i].todo
    <3>1. PICK i \in 1 .. depth : FrameState(i) = s /\ c \in callStack[i].todo
      BY <2>2, <2>6
    <3>2. i # depth
      BY <2>1, <3>1 DEF Top
    <3>3. i \in 1 .. depth - 1
      BY <1>0, <3>1, <3>2
    <3>4. QED
      BY <2>2, <2>3, <3>1, <3>3 DEF Unvisited
  <2>7. ASSUME Accounted(s, c), stackMem'[c]
        PROVE  Accounted(s, c)'
    <3>1. ASSUME NEW i \in 1 .. depth - 1, spot[FrameState(i)] <= spot[s]
          PROVE  \E k \in 1 .. depth - 1 : /\ i <= k
                                           /\ spot[FrameState(k)] <= spot[s]
                                           /\ low'[FrameState(k)] <= spot[c]
      <4>1. PICK k \in 1 .. depth : /\ i <= k
                                   /\ spot[FrameState(k)] <= spot[s]
                                   /\ low[FrameState(k)] <= spot[c]
        BY <1>0, <2>2, <2>7, <3>1 DEF Accounted
      <4>2. CASE k = depth
        <5> DEFINE p == depth - 1
        <5>1. p \in 1 .. depth - 1 /\ i <= p /\ depth > 1 /\ p \in 1 .. depth
          BY <1>0, <3>1
        <5>2. spot[FrameState(p)] < spot[FrameState(depth)]
          BY <1>0, <2>2, <5>1 DEF CallStackInv
        <5>3. low'[FrameState(p)] <= low[FrameState(depth)]
          BY <1>0, <2>1, <5>1, LowerFacts DEF FrameState
        <5>4. FrameState(p) \in State /\ FrameState(depth) \in State
          BY <1>0, <2>4, <5>1
        <5> HIDE DEF p
        <5>5. spot[FrameState(p)] <= spot[s] /\ low'[FrameState(p)] <= spot[c]
          BY <1>00, <4>1, <4>2, <5>2, <5>3, <5>4
        <5>6. QED
          BY <5>1, <5>5
      <4>3. CASE k # depth
        <5>1. k \in 1 .. depth - 1
          BY <1>0, <4>1, <4>3
        <5>2. low'[FrameState(k)] <= spot[c]
          BY <1>00, <2>4, <2>5, <4>1
        <5>3. QED
          BY <4>1, <5>1, <5>2
      <4>4. QED
        BY <4>2, <4>3
    <3>2. QED
      BY <2>1, <2>2, <2>3, <2>7, <3>1 DEF Accounted
  <2>8. CASE TagReturn
    <3>1. UNCHANGED stackMem /\ Tagged' = Tagged
      BY <2>8 DEF TagReturn, sccVars, Tagged
    <3>2. stackMem[s]
      BY <3>1
    <3>3. Accounted(s, c) => stackMem'[c]
      BY <3>1 DEF Accounted
    <3>4. QED
      BY <1>00, <2>1, <2>6, <2>7, <3>1, <3>2, <3>3 DEF Unvisited
  <2>9. CASE TagRoot
    <3> DEFINE popped == {u \in State : stackMem[u] /\ spot[Top.state] <= spot[u]}
    <3>1. /\ \A x \in State : stackMem'[x] <=> x \notin popped /\ stackMem[x]
          /\ Tagged' = Tagged \cup popped
      BY <2>9, RootEffect
    <3> HIDE DEF popped
    <3>2. stackMem[s]
      BY <3>1
    <3>3. Accounted(s, c) => stackMem'[c] \/ c \in Tagged'
      BY <3>1 DEF Accounted
    <3>4. QED
      BY <1>00, <2>1, <2>6, <2>7, <3>1, <3>2, <3>3 DEF Unvisited
  <2>10. QED
    BY <1>4, <2>8, <2>9
<1>5. QED
  BY <1>1, <1>2, <1>3, <1>4 DEF TagStep

\* An edge out of a component that is popped was visited, so the low link of
\* the root shows that it leads into the component or to a state numbered
\* before.
LEMMA PopClosed ==
  ASSUME TypeOK, StackInv, CallStackInv, VisitedInv, TagRoot,
         NEW s \in State, stackMem[s], spot[Top.state] <= spot[s],
         NEW t \in succ[s]
  PROVE  (stackMem[t] /\ spot[Top.state] <= spot[t]) \/ t \in Tagged
<1>1. /\ callStack # <<>>
      /\ depth \in Nat /\ depth >= 1
      /\ ReadyFrames = 1 .. depth
      /\ Top.state = FrameState(depth)
      /\ Top.state \in State
      /\ Top.ready /\ Top.todo = {}
      /\ low[Top.state] = spot[Top.state]
  BY ReadyFacts, TopFacts, ReturnEffect DEF TagRoot, InLoop
<1>2. ~Unvisited(s, t)
  <2>1. ASSUME NEW i \in 1 .. depth, FrameState(i) = s
        PROVE  t \notin callStack[i].todo
    <3>1. CASE i = depth
      BY <1>1, <3>1 DEF Top
    <3>2. CASE i # depth
      <4>1. spot[s] < spot[Top.state]
        BY <1>1, <2>1, <3>2 DEF CallStackInv
      <4>2. QED
        BY <1>1, <4>1 DEF TypeOK
    <3>3. QED
      BY <3>1, <3>2
  <2>2. QED
    BY <1>1, <2>1 DEF Unvisited
<1>3. CASE Accounted(s, t)
  <2>1. PICK k \in 1 .. depth : /\ depth <= k
                               /\ low[FrameState(k)] <= spot[t]
    BY <1>1, <1>3 DEF Accounted
  <2>2. k = depth
    BY <1>1, <2>1
  <2>3. QED
    BY <1>1, <1>3, <2>1, <2>2 DEF Accounted
<1>4. QED
  BY <1>2, <1>3 DEF VisitedInv

\* The states that are popped with a root reach it and are reached by it.
LEMMA PopMutual ==
  ASSUME TypeOK, StackInv, CallStackInv, ReachInv, TagRoot,
         NEW s \in State, stackMem[s], spot[Top.state] <= spot[s]
  PROVE  Reaches(succ, Top.state, s) /\ Reaches(succ, s, Top.state)
<1>1. /\ depth \in Nat /\ depth >= 1
      /\ ReadyFrames = 1 .. depth
      /\ Top.state = FrameState(depth)
      /\ Top.state \in State
      /\ spot \in [State -> Int]
  BY ReadyFacts, TopFacts, ReturnEffect DEF TagRoot, InLoop, TypeOK
<1>2. Reaches(succ, Top.state, s)
  BY <1>1 DEF ReachInv, FramesReach
<1>3. PICK k \in 1 .. depth :
        /\ Reaches(succ, s, FrameState(k))
        /\ \A j \in 1 .. depth : j > k => spot[FrameState(j)] > spot[s]
  BY <1>1 DEF ReachInv, ReachFrames
<1>4. k = depth
  BY <1>1, <1>3
<1>5. QED
  BY <1>1, <1>2, <1>3, <1>4

\* A state that is not a root has a parent: its low link leads below it.
LEMMA ParentExists ==
  ASSUME TypeOK, StackInv, CallStackInv, ReachInv, TagReturn
  PROVE  depth > 1
<1>1. /\ depth \in Nat /\ depth >= 1
      /\ ReadyFrames = 1 .. depth
      /\ Top.state = FrameState(depth)
      /\ Top.state \in State
      /\ spot \in [State -> Int] /\ low \in [State -> Int]
      /\ depth \in 1 .. depth
  BY ReadyFacts, TopFacts, ReturnEffect DEF TagReturn, InLoop, TypeOK
<1>2. low[Top.state] < spot[Top.state]
  BY <1>1 DEF CallStackInv, TagReturn
<1>3. PICK u \in State : stackMem[u] /\ spot[u] = low[Top.state]
  BY <1>1 DEF ReachInv, LowReached
<1>4. PICK k \in 1 .. depth : spot[FrameState(k)] <= spot[u]
  BY <1>1, <1>3 DEF ReachInv, ReachFrames
<1>5. k # depth
  BY <1>1, <1>2, <1>3, <1>4
<1>6. QED
  BY <1>1, <1>5

\* Numbers stay in order when a component is popped.
LEMMA NumberStep ==
  ASSUME TypeOK, StackInv, CallStackInv, VisitedInv, NumberInv, TagStep
  PROVE  NumberInv'
<1>1. CASE TagRoot
  <2> DEFINE popped == {u \in State : stackMem[u] /\ spot[Top.state] <= spot[u]}
  <2>1. /\ Top.state \in State
        /\ \A s \in State : stackMem'[s] <=> s \notin popped /\ stackMem[s]
        /\ tag' = [s \in State |-> IF s \in popped THEN nb_SCCs ELSE tag[s]]
        /\ nb_SCCs' = nb_SCCs + 1
        /\ Tagged' = Tagged \cup popped
        /\ succ' = succ
    BY <1>1, RootEffect
  <2>3. ASSUME NEW s \in popped, NEW t \in succ[s]
        PROVE  t \in popped \/ t \in Tagged
    BY <1>1, PopClosed DEF TypeOK
  <2>4. /\ nb_SCCs \in Nat
        /\ popped \subseteq State
        /\ tag \in [State -> Int]
        /\ \A s \in State : -1 <= tag[s] /\ tag[s] < nb_SCCs
        /\ \A s \in Tagged : s \in State /\ s \notin popped
        /\ \A s \in State : succ[s] \subseteq State
    BY DEF TypeOK, NumberInv, StackInv, Tagged
  <2> HIDE DEF popped
  <2>5. (\A s \in State : -1 <= tag[s] /\ tag[s] < nb_SCCs)'
    BY <2>1, <2>4
  <2>6. ASSUME NEW s \in Tagged', NEW t \in succ'[s]
        PROVE  t \in Tagged' /\ tag'[t] <= tag'[s]
    <3>1. CASE s \in popped
      BY <2>1, <2>3, <2>4, <3>1
    <3>2. CASE s \in Tagged
      <4>1. t \in Tagged /\ tag[t] <= tag[s]
        BY <2>1, <3>2 DEF NumberInv, TagsOrdered
      <4>2. QED
        BY <2>1, <2>4, <3>2, <4>1
    <3>3. QED
      BY <2>1, <3>1, <3>2
  <2>7. QED
    BY <2>5, <2>6 DEF NumberInv, TagsOrdered
<1>2. ASSUME NEW c \in State, TagEnter \/ TagDescend(c) \/ TagSeen(c) \/ TagReturn
      PROVE  NumberInv'
  BY <1>2 DEF TagEnter, TagDescend, TagSeen, TagReturn, graphVars, sccVars,
              NumberInv, TagsOrdered, Tagged
<1>3. QED
  BY <1>1, <1>2, InitialAssumption DEF TagStep

\* States of Tarjan's stack and frames go on reaching one another.  When a
\* state that is not a root returns, its low link leads to a frame below it,
\* and from there to its parent.
LEMMA ReachStep ==
  ASSUME TypeOK, TypeOK', StackInv, CallStackInv, ReachInv, TagStep
  PROVE  ReachInv'
<1>0. /\ succ' = succ /\ succ \in [State -> SUBSET State] /\ callStack # <<>>
      /\ depth \in Nat /\ depth >= 1
      /\ Top.state \in State /\ Top.state = FrameState(depth)
      /\ \A x \in State : /\ spot[x] \in Int /\ low[x] \in Int
                          /\ spot'[x] \in Int /\ low'[x] \in Int
  BY ReadyFacts, TopFacts
     DEF TagStep, TagEnter, TagDescend, TagSeen, TagReturn, TagRoot, InLoop, graphVars, TypeOK
<1>1. CASE TagEnter
  <2>1. /\ spot[Top.state] = -1
        /\ ~stackMem[Top.state]
        /\ \A x \in State : x # Top.state => /\ spot'[x] = spot[x]
                                            /\ low'[x] = low[x]
                                            /\ stackMem'[x] = stackMem[x]
        /\ stackMem'[Top.state]
        /\ spot'[Top.state] = time
        /\ low'[Top.state] = time
        /\ \A x \in State : spot[x] < time
        /\ time \in Nat
    <3>1. spot[Top.state] = -1
      BY <1>0, <1>1, TopFacts DEF TagEnter, CallStackInv, Top
    <3>2. ~stackMem[Top.state]
      BY <1>0, <3>1 DEF StackInv
    <3>3. \A x \in State : spot[x] < time
      BY DEF StackInv
    <3>4. QED
      BY <1>0, <1>1, <3>1, <3>2, <3>3 DEF TagEnter, TypeOK
  <2>2. \A i \in 1 .. depth : FrameState(i)' = FrameState(i)
    BY <1>1, EnterEffect DEF FrameState
  <2>3. \A i \in 1 .. depth - 1 : /\ FrameState(i) \in State
                                  /\ stackMem[FrameState(i)]
                                  /\ FrameState(i) # Top.state
                                  /\ i \in 1 .. depth
    BY <1>0, <1>1, <2>1, EnterEffect, ReadyFacts
  <2>4. ReadyFrames' = 1 .. depth /\ ReadyFrames = 1 .. depth - 1
    BY <1>1, EnterEffect
  <2>5. FramesReach'
    <3> SUFFICES ASSUME NEW i \in 1 .. depth, NEW s \in State, stackMem'[s],
                        spot'[FrameState(i)] <= spot'[s]
                 PROVE  Reaches(succ, FrameState(i), s)
      BY <1>0, <2>2, <2>4 DEF FramesReach
    <3>1. CASE i = depth
      <4>1. s = Top.state
        BY <1>0, <2>1, <3>1
      <4>2. QED
        BY <1>0, <3>1, <4>1, ReachesItself
    <3>2. CASE i # depth /\ s # Top.state
      BY <1>0, <2>1, <2>3, <2>4, <3>2 DEF ReachInv, FramesReach
    <3>3. CASE i # depth /\ s = Top.state
      <4> DEFINE p == depth - 1
      <4>1. i \in 1 .. p /\ p \in 1 .. p /\ depth > 1 /\ depth \in 1 .. depth
        BY <1>0, <3>3
      <4>2. s \in succ[FrameState(p)]
        BY <1>0, <3>3, <4>1, TopFacts DEF CallStackInv
      <4>3. spot[FrameState(i)] <= spot[FrameState(p)]
        <5>1. CASE i = p
          BY <1>0, <2>3, <4>1, <5>1
        <5>2. CASE i # p
          <6>1. i < p
            BY <1>0, <4>1, <5>2
          <6>2. spot[FrameState(i)] < spot[FrameState(p)]
            BY <2>4, <4>1, <6>1 DEF CallStackInv
          <6>3. QED
            BY <1>0, <2>3, <4>1, <6>2
        <5>3. QED
          BY <5>1, <5>2
      <4>4. FrameState(p) \in State /\ stackMem[FrameState(p)] /\ FrameState(i) \in State
        BY <2>3, <4>1
      <4>5. p \in ReadyFrames /\ i \in ReadyFrames
        BY <2>4, <4>1
      <4> HIDE DEF p
      <4>6. Reaches(succ, FrameState(i), FrameState(p))
        BY <4>3, <4>4, <4>5 DEF ReachInv, FramesReach
      <4>7. Reaches(succ, FrameState(p), s)
        BY <1>0, <4>2, <4>4, ReachesSuccessor
      <4>8. QED
        BY <1>0, <4>4, <4>6, <4>7, ReachesTransitive
    <3>4. QED
      BY <3>1, <3>2, <3>3
  <2>6. ReachFrames'
    <3> SUFFICES ASSUME NEW s \in State, stackMem'[s]
                 PROVE  \E k \in 1 .. depth :
                          /\ spot'[FrameState(k)] <= spot'[s]
                          /\ Reaches(succ, s, FrameState(k))
                          /\ \A j \in 1 .. depth : j > k => spot'[FrameState(j)] > spot'[s]
      BY <1>0, <2>2, <2>4 DEF ReachFrames
    <3>1. CASE s = Top.state
      <4>1. /\ depth \in 1 .. depth
            /\ spot'[FrameState(depth)] <= spot'[s]
            /\ \A j \in 1 .. depth : ~(j > depth)
        BY <1>0, <3>1
      <4>2. Reaches(succ, s, FrameState(depth))
        BY <1>0, <3>1, ReachesItself
      <4>3. QED
        BY <4>1, <4>2
    <3>2. CASE s # Top.state
      <4>1. stackMem[s] /\ spot'[s] = spot[s]
        BY <2>1, <3>2
      <4>2. PICK k \in 1 .. depth - 1 :
              /\ spot[FrameState(k)] <= spot[s]
              /\ Reaches(succ, s, FrameState(k))
              /\ \A j \in 1 .. depth - 1 : j > k => spot[FrameState(j)] > spot[s]
        BY <2>4, <4>1 DEF ReachInv, ReachFrames
      <4>3. /\ k \in 1 .. depth
            /\ spot'[FrameState(k)] <= spot'[s]
        BY <2>1, <2>3, <4>1, <4>2
      <4>4. ASSUME NEW j \in 1 .. depth, j > k
            PROVE  spot'[FrameState(j)] > spot'[s]
        <5>1. CASE j = depth
          BY <1>0, <2>1, <4>1, <5>1
        <5>2. CASE j # depth
          <6>1. j \in 1 .. depth - 1
            BY <1>0, <5>2
          <6>2. QED
            BY <2>1, <2>3, <4>1, <4>2, <4>4, <6>1
        <5>3. QED
          BY <5>1, <5>2
      <4>5. QED
        BY <4>2, <4>3, <4>4
    <3>3. QED
      BY <3>1, <3>2
  <2>7. LowReached'
    <3> SUFFICES ASSUME NEW i \in 1 .. depth
                 PROVE  \E s \in State : /\ stackMem'[s]
                                         /\ spot'[s] = low'[FrameState(i)]
                                         /\ Reaches(succ, FrameState(i), s)
      BY <1>0, <2>2, <2>4 DEF LowReached
    <3>1. CASE i = depth
      BY <1>0, <2>1, <3>1, ReachesItself
    <3>2. CASE i # depth
      <4>1. i \in 1 .. depth - 1
        BY <1>0, <3>2
      <4>2. PICK s \in State : /\ stackMem[s]
                              /\ spot[s] = low[FrameState(i)]
                              /\ Reaches(succ, FrameState(i), s)
        BY <2>4, <4>1 DEF ReachInv, LowReached
      <4>3. s # Top.state
        BY <2>1, <4>2
      <4>4. QED
        BY <2>1, <2>3, <4>1, <4>2, <4>3
    <3>3. QED
      BY <3>1, <3>2
  <2>8. QED
    BY <2>5, <2>6, <2>7 DEF ReachInv
<1>2. ASSUME NEW e \in State, TagDescend(e)
      PROVE  ReachInv'
  <2>1. /\ UNCHANGED <<spot, low, stackMem, succ>>
        /\ ReadyFrames' = 1 .. depth /\ ReadyFrames = 1 .. depth
        /\ \A i \in 1 .. depth : callStack'[i].state = callStack[i].state
    BY <1>0, <1>2, DescendEffect DEF TagDescend
  <2>2. QED
    BY <2>1 DEF ReachInv, FramesReach, ReachFrames, LowReached, FrameState
<1>3. ASSUME NEW e \in State, TagSeen(e)
      PROVE  ReachInv'
  <2>1. /\ UNCHANGED <<spot, stackMem, succ>>
        /\ low' = LinkTo(e)
        /\ e \in Top.todo
    BY <1>0, <1>3 DEF TagSeen
  <2>2. /\ ReadyFrames' = 1 .. depth /\ ReadyFrames = 1 .. depth
        /\ \A i \in 1 .. depth : callStack'[i].state = callStack[i].state
    BY <1>3, SeenEffect
  <2>3. FramesReach' /\ ReachFrames'
    BY <2>1, <2>2 DEF ReachInv, FramesReach, ReachFrames, FrameState
  <2>4. LowReached'
    <3> SUFFICES ASSUME NEW i \in 1 .. depth
                 PROVE  \E s \in State : /\ stackMem[s]
                                         /\ spot[s] = low'[FrameState(i)]
                                         /\ Reaches(succ, FrameState(i), s)
      BY <2>1, <2>2 DEF LowReached, FrameState
    <3>1. FrameState(i) \in State
      BY <1>0, <2>2, ReadyFacts
    <3>2. PICK s \in State : /\ stackMem[s]
                            /\ spot[s] = low[FrameState(i)]
                            /\ Reaches(succ, FrameState(i), s)
      BY <2>2 DEF ReachInv, LowReached
    <3>3. CASE low'[FrameState(i)] = low[FrameState(i)]
      BY <3>2, <3>3
    <3>4. CASE low'[FrameState(i)] # low[FrameState(i)]
      <4>1. FrameState(i) = Top.state
        BY <1>0, <2>1, <3>1, <3>4, LinkFacts
      <4>2. stackMem[e] /\ low'[FrameState(i)] = spot[e]
        BY <1>0, <2>1, <3>4, <4>1, LinkFacts
      <4>3. e \in succ[FrameState(i)]
        BY <1>0, <1>3, <2>1, <2>2, <4>1, TopFacts DEF CallStackInv, ReadyFrames, Top
      <4>4. Reaches(succ, FrameState(i), e)
        BY <1>0, <3>1, <4>3, ReachesSuccessor
      <4>5. QED
        BY <4>2, <4>4
    <3>5. QED
      BY <3>3, <3>4
  <2>5. QED
    BY <2>3, <2>4 DEF ReachInv
<1>4. ASSUME TagReturn \/ TagRoot
      PROVE  ReachInv'
  <2>1. /\ UNCHANGED <<spot, succ>>
        /\ low' = LowerParent
    BY <1>0, <1>4 DEF TagReturn, TagRoot
  <2>2. /\ ReadyFrames' = 1 .. depth - 1 /\ ReadyFrames = 1 .. depth
        /\ \A i \in 1 .. depth - 1 : i \in 1 .. depth /\ callStack'[i] = callStack[i]
    BY <1>0, <1>4, ReturnEffect
  <2>3. /\ \A i \in 1 .. depth : FrameState(i) \in State /\ stackMem[FrameState(i)]
        /\ \A i \in 1 .. depth - 1 : FrameState(i)' = FrameState(i)
        /\ depth \in 1 .. depth
    BY <1>0, <2>2, ReadyFacts DEF FrameState
  <2>4. \A i, j \in 1 .. depth : i < j => spot[FrameState(i)] < spot[FrameState(j)]
    BY <2>2 DEF CallStackInv
  <2>5. \A s \in State : stackMem'[s] => stackMem[s]
    <3>1. CASE TagReturn
      BY <3>1 DEF TagReturn
    <3>2. CASE TagRoot
      BY <3>2, RootEffect
    <3>3. QED
      BY <1>4, <3>1, <3>2
  <2>6. FramesReach'
    BY <2>1, <2>2, <2>3, <2>5 DEF ReachInv, FramesReach
  <2>8. CASE TagReturn
    <3>1. /\ stackMem' = stackMem
          /\ spot[Top.state] # low[Top.state]
      BY <2>8 DEF TagReturn
    \* The low link of the current state leads below it, so there is a parent.
    <3>2. PICK u \in State : /\ stackMem[u]
                            /\ spot[u] = low[Top.state]
                            /\ Reaches(succ, Top.state, u)
      BY <1>0, <2>2, <2>3 DEF ReachInv, LowReached
    <3>3. low[Top.state] < spot[Top.state]
      BY <1>0, <2>2, <2>3, <3>1 DEF CallStackInv
    <3>4. PICK ku \in 1 .. depth : /\ spot[FrameState(ku)] <= spot[u]
                                  /\ Reaches(succ, u, FrameState(ku))
      BY <2>2, <3>2 DEF ReachInv, ReachFrames
    <3>5. ku # depth
      BY <1>0, <2>3, <3>2, <3>3, <3>4
    <3> DEFINE p == depth - 1
    <3>6. ku \in 1 .. p /\ p \in 1 .. depth /\ p \in 1 .. p /\ depth > 1 /\ ku <= p
          /\ p < depth
      BY <1>0, <3>5
    <3>7. \A j \in 1 .. p : ~(j > p)
      BY <1>0
    <3>8. Reaches(succ, FrameState(ku), FrameState(p))
      <4>1. spot[FrameState(ku)] <= spot[FrameState(p)]
        <5>1. CASE ku = p
          BY <1>0, <2>3, <3>6, <5>1
        <5>2. CASE ku # p
          BY <1>0, <2>3, <2>4, <3>6, <5>2
        <5>3. QED
          BY <5>1, <5>2
      <4> HIDE DEF p
      <4>2. QED
        BY <2>2, <2>3, <3>6, <4>1 DEF ReachInv, FramesReach
    <3>9. Reaches(succ, Top.state, FrameState(p))
      <4> HIDE DEF p
      <4>1. Reaches(succ, u, FrameState(p))
        BY <1>0, <2>3, <3>4, <3>6, <3>8, ReachesTransitive
      <4>2. QED
        BY <1>0, <2>3, <3>2, <3>6, <4>1, ReachesTransitive
    <3>10. spot[FrameState(p)] < spot[Top.state]
      BY <1>0, <2>3, <2>4, <3>6
    <3>11. Top.state \in succ[FrameState(p)] /\ FrameState(p) = callStack[depth - 1].state
      BY <1>0, <2>3, <3>6, TopFacts DEF CallStackInv, FrameState
    <3>12. FrameState(p) \in State
      BY <2>3, <3>6
    <3> HIDE DEF p
    <3>13. ReachFrames'
      <4> SUFFICES ASSUME NEW s \in State, stackMem[s]
                   PROVE  \E k \in 1 .. depth - 1 :
                            /\ spot[FrameState(k)] <= spot[s]
                            /\ Reaches(succ, s, FrameState(k))
                            /\ \A j \in 1 .. depth - 1 : j > k => spot[FrameState(j)] > spot[s]
        BY <2>1, <2>2, <2>3, <3>1 DEF ReachFrames
      <4>1. PICK k \in 1 .. depth :
              /\ spot[FrameState(k)] <= spot[s]
              /\ Reaches(succ, s, FrameState(k))
              /\ \A j \in 1 .. depth : j > k => spot[FrameState(j)] > spot[s]
        BY <2>2 DEF ReachInv, ReachFrames
      <4>2. CASE k = depth
        <5>1. Reaches(succ, s, FrameState(p))
          BY <1>0, <3>9, <3>12, <4>1, <4>2, ReachesTransitive
        <5>2. spot[FrameState(p)] <= spot[s]
          BY <1>0, <3>10, <3>12, <4>1, <4>2
        <5>3. QED
          BY <3>6, <3>7, <5>1, <5>2 DEF p
      <4>3. CASE k # depth
        <5>1. k \in 1 .. depth - 1
          BY <1>0, <4>3
        <5>2. QED
          BY <2>2, <4>1, <5>1
      <4>4. QED
        BY <4>2, <4>3
    <3>14. LowReached'
      <4> SUFFICES ASSUME NEW i \in 1 .. depth - 1
                   PROVE  \E s \in State : /\ stackMem[s]
                                           /\ spot[s] = low'[FrameState(i)]
                                           /\ Reaches(succ, FrameState(i), s)
        BY <2>1, <2>2, <2>3, <3>1 DEF LowReached
      <4>1. i \in 1 .. depth /\ FrameState(i) \in State
        BY <2>2, <2>3
      <4>2. PICK s \in State : /\ stackMem[s]
                              /\ spot[s] = low[FrameState(i)]
                              /\ Reaches(succ, FrameState(i), s)
        BY <2>2, <4>1 DEF ReachInv, LowReached
      <4>3. CASE low'[FrameState(i)] = low[FrameState(i)]
        BY <4>2, <4>3
      <4>4. CASE low'[FrameState(i)] # low[FrameState(i)]
        <5>1. FrameState(i) = FrameState(p) /\ low'[FrameState(i)] = low[Top.state]
          BY <1>0, <2>1, <3>11, <4>1, <4>4, LowerFacts
        <5>2. Reaches(succ, FrameState(p), Top.state)
          BY <1>0, <3>11, <3>12, ReachesSuccessor
        <5>3. Reaches(succ, FrameState(p), u)
          BY <1>0, <3>2, <3>12, <5>2, ReachesTransitive
        <5>4. QED
          BY <3>2, <5>1, <5>3
      <4>5. QED
        BY <4>3, <4>4
    <3>15. QED
      BY <2>6, <3>13, <3>14 DEF ReachInv
  <2>9. CASE TagRoot
    <3> DEFINE popped == {u \in State : stackMem[u] /\ spot[Top.state] <= spot[u]}
    <3>1. \A s \in State : stackMem'[s] <=> s \notin popped /\ stackMem[s]
      BY <2>9, RootEffect
    <3>2. \A s \in State : stackMem'[s] <=> stackMem[s] /\ spot[s] < spot[Top.state]
      BY <1>0, <3>1
    <3>3. spot[Top.state] = low[Top.state]
      BY <2>9 DEF TagRoot
    <3> HIDE DEF popped
    <3>4. ReachFrames'
      <4> SUFFICES ASSUME NEW s \in State, stackMem[s], spot[s] < spot[Top.state]
                   PROVE  \E k \in 1 .. depth - 1 :
                            /\ spot[FrameState(k)] <= spot[s]
                            /\ Reaches(succ, s, FrameState(k))
                            /\ \A j \in 1 .. depth - 1 : j > k => spot[FrameState(j)] > spot[s]
        BY <2>1, <2>2, <2>3, <3>2 DEF ReachFrames
      <4>1. PICK k \in 1 .. depth :
              /\ spot[FrameState(k)] <= spot[s]
              /\ Reaches(succ, s, FrameState(k))
              /\ \A j \in 1 .. depth : j > k => spot[FrameState(j)] > spot[s]
        BY <2>2 DEF ReachInv, ReachFrames
      <4>2. k # depth
        BY <1>0, <4>1
      <4>3. k \in 1 .. depth - 1
        BY <1>0, <4>2
      <4>4. QED
        BY <2>2, <4>1, <4>3
    <3>5. LowReached'
      <4> SUFFICES ASSUME NEW i \in 1 .. depth - 1
                   PROVE  \E s \in State : /\ stackMem'[s]
                                           /\ spot[s] = low'[FrameState(i)]
                                           /\ Reaches(succ, FrameState(i), s)
        BY <2>1, <2>2, <2>3 DEF LowReached
      <4>1. i \in 1 .. depth /\ FrameState(i) \in State /\ i < depth
        BY <1>0, <2>2, <2>3
      <4>2. PICK s \in State : /\ stackMem[s]
                              /\ spot[s] = low[FrameState(i)]
                              /\ Reaches(succ, FrameState(i), s)
        BY <2>2, <4>1 DEF ReachInv, LowReached
      <4>3. spot[FrameState(i)] < spot[Top.state]
        BY <1>0, <2>3, <2>4, <4>1
      <4>4. low[FrameState(i)] <= spot[FrameState(i)]
        BY <2>2, <4>1 DEF CallStackInv
      <4>5. low'[FrameState(i)] = low[FrameState(i)]
        \* A parent keeps its own link: it is below the root's.
        <5>1. LowerParent[FrameState(i)] <= low[FrameState(i)]
          BY <1>0, <4>1, LowerFacts
        <5>2. \/ LowerParent[FrameState(i)] = low[FrameState(i)]
              \/ LowerParent[FrameState(i)] = low[Top.state]
          BY <1>0, <4>1, LowerFacts
        <5>3. QED
          BY <1>0, <2>1, <3>3, <4>1, <4>3, <4>4, <5>1, <5>2
      <4>6. stackMem'[s]
        BY <1>0, <3>2, <4>1, <4>2, <4>3, <4>4
      <4>7. QED
        BY <4>2, <4>5, <4>6
    <3>6. QED
      BY <2>6, <3>4, <3>5 DEF ReachInv
  <2>10. QED
    BY <1>4, <2>8, <2>9
<1>5. QED
  BY <1>1, <1>2, <1>3, <1>4 DEF TagStep

\* Tagged states are reachable, numbers have no gap, and the call stack starts
\* at the initial state until that state is numbered.
LEMMA CoverStep ==
  ASSUME TypeOK, StackInv, CallStackInv, VisitedInv, ReachInv, NumberInv, CoverInv,
         pc = "tag", TagStep
  PROVE  CoverInv'
<1>0. /\ succ' = succ /\ succ \in [State -> SUBSET State] /\ callStack # <<>>
      /\ pc' = pc
      /\ depth \in Nat /\ depth >= 1 /\ 1 \in 1 .. depth
      /\ Top.state \in State /\ Top.state = FrameState(depth)
      /\ FrameState(1) = initial
  BY ReadyFacts, TopFacts
     DEF TagStep, TagEnter, TagDescend, TagSeen, TagReturn, TagRoot, InLoop, graphVars, TypeOK,
         CoverInv
<1>1. ASSUME NEW c \in State, TagEnter \/ TagDescend(c) \/ TagSeen(c)
      PROVE  CoverInv'
  <2>1. tag' = tag /\ nb_SCCs' = nb_SCCs /\ Tagged' = Tagged
    BY <1>1 DEF TagEnter, TagDescend, TagSeen, sccVars, Tagged
  <2>2. callStack' # <<>> /\ callStack'[1].state = callStack[1].state
    <3>1. callStack'[1].state = callStack[1].state
      BY <1>0, <1>1, EnterEffect, DescendEffect, SeenEffect
    <3>2. (depth' = depth \/ depth' = depth + 1) /\ callStack' \in Seq(Frame)
      <4>1. CASE TagEnter
        BY <4>1, EnterEffect
      <4>2. CASE TagDescend(c)
        BY <4>2, DescendEffect
      <4>3. CASE TagSeen(c)
        BY <4>3, SeenEffect
      <4>4. QED
        BY <1>1, <4>1, <4>2, <4>3
    <3>3. depth' >= 1
      BY <1>0, <3>2
    <3>4. QED
      BY <3>1, <3>2, <3>3, EmptySeq DEF depth
  <2>3. QED
    BY <1>0, <2>1, <2>2 DEF CoverInv, FrameState
<1>2. CASE TagReturn
  <2>1. tag' = tag /\ nb_SCCs' = nb_SCCs /\ Tagged' = Tagged
    BY <1>2 DEF TagReturn, sccVars, Tagged
  <2>2. depth > 1 /\ 1 \in 1 .. depth - 1
    BY <1>0, <1>2, ParentExists
  <2>3. /\ callStack'[1] = callStack[1]
        /\ depth' >= 1
        /\ callStack' \in Seq(Frame)
    BY <1>0, <1>2, <2>2, ReturnEffect
  <2>4. callStack' # <<>>
    BY <2>3, EmptySeq DEF depth
  <2>5. QED
    BY <1>0, <2>1, <2>3, <2>4 DEF CoverInv, FrameState
<1>3. CASE TagRoot
  <2> DEFINE popped == {u \in State : stackMem[u] /\ spot[Top.state] <= spot[u]}
  <2>1. /\ Top.state \in popped
        /\ tag' = [s \in State |-> IF s \in popped THEN nb_SCCs ELSE tag[s]]
        /\ nb_SCCs' = nb_SCCs + 1
        /\ Tagged' = Tagged \cup popped
    BY <1>3, RootEffect
  <2>2. ReadyFrames = 1 .. depth
    BY <1>3, ReturnEffect
  <2>3. \A s \in popped : Reaches(succ, initial, s)
    <3> SUFFICES ASSUME NEW s \in popped
                 PROVE  Reaches(succ, initial, s)
      OBVIOUS
    <3>1. spot[FrameState(1)] <= spot[Top.state]
      <4>1. CASE depth = 1
        BY <1>0, <4>1 DEF TypeOK
      <4>2. CASE depth # 1
        <5>1. spot[FrameState(1)] < spot[FrameState(depth)]
          BY <1>0, <2>2, <4>2 DEF CallStackInv
        <5>2. QED
          BY <1>0, <5>1, InitialAssumption DEF TypeOK
      <4>3. QED
        BY <4>1, <4>2
    <3>2. spot[FrameState(1)] <= spot[s] /\ s \in State /\ stackMem[s]
      BY <1>0, <3>1, InitialAssumption DEF TypeOK
    <3>3. QED
      BY <1>0, <2>2, <3>2 DEF ReachInv, FramesReach
  <2>4. /\ nb_SCCs \in Nat
        /\ popped \subseteq State
        /\ Tagged \subseteq State
        /\ \A s \in Tagged : s \notin popped
    BY DEF TypeOK, StackInv, Tagged
  <2> HIDE DEF popped
  <2>5. \A s \in Tagged' : Reaches(succ', initial, s)
    BY <1>0, <2>1, <2>3 DEF CoverInv
  <2>6. \A i \in 0 .. nb_SCCs' - 1 : \E s \in Tagged' : tag'[s] = i
    <3> SUFFICES ASSUME NEW i \in 0 .. nb_SCCs
                 PROVE  \E s \in Tagged' : tag'[s] = i
      BY <2>1, <2>4
    <3>1. CASE i = nb_SCCs
      BY <1>0, <2>1, <3>1
    <3>2. CASE i # nb_SCCs
      <4>1. PICK s \in Tagged : tag[s] = i
        BY <2>4, <3>2 DEF CoverInv
      <4>2. tag'[s] = i
        BY <2>1, <2>4, <4>1
      <4>3. QED
        BY <2>1, <4>1, <4>2
    <3>3. QED
      BY <3>1, <3>2
  <2>7. CASE depth = 1
    <3>1. initial \in Tagged'
      BY <1>0, <2>1, <2>7
    <3>2. depth' = 0 /\ callStack' \in Seq(Frame)
      BY <1>3, <2>7, ReturnEffect
    <3>3. callStack' = <<>>
      BY <3>2, EmptySeq DEF depth
    <3>4. QED
      BY <2>5, <2>6, <3>1, <3>3 DEF CoverInv
  <2>8. CASE depth # 1
    <3>1. 1 \in 1 .. depth - 1
      BY <1>0, <2>8
    <3>2. callStack'[1] = callStack[1] /\ depth' >= 1 /\ callStack' \in Seq(Frame)
      BY <1>0, <1>3, <2>8, <3>1, ReturnEffect
    <3>3. callStack' # <<>>
      BY <3>2, EmptySeq DEF depth
    <3>4. QED
      BY <1>0, <2>5, <2>6, <3>2, <3>3 DEF CoverInv, FrameState
  <2>9. QED
    BY <2>7, <2>8
<1>4. QED
  BY <1>1, <1>2, <1>3, InitialAssumption DEF TagStep

-----------------------------------------------------------------------------
(* The invariant as a whole *)

\* The search before any step.
LEMMA InitSearchInv == Init => SearchInv
<1> SUFFICES ASSUME Init PROVE SearchInv
  OBVIOUS
<1>1. /\ callStack = <<NewFrame(initial)>>
      /\ stack = <<>>
      /\ stackMem = [s \in State |-> FALSE]
      /\ spot = [s \in State |-> -1]
      /\ tag = [s \in State |-> -1]
      /\ time = 0 /\ nb_SCCs = 0 /\ pc = "tag"
  BY DEF Init, InitSearch
<1>2. /\ DOMAIN callStack = {1}
      /\ depth = 1
      /\ callStack[1] = NewFrame(initial)
      /\ ~callStack[1].ready /\ callStack[1].state = initial
      /\ callStack # <<>>
  BY <1>1 DEF depth, NewFrame
<1>3. ReadyFrames = {}
  BY <1>2 DEF ReadyFrames
<1>4. Tagged = {}
  BY <1>1 DEF Tagged
<1>5. DOMAIN stack = {}
  BY <1>1
<1>6. StackInv
  BY <1>1, <1>4, <1>5 DEF StackInv
<1>7. CallStackInv
  BY <1>1, <1>2, <1>3, InitialAssumption DEF CallStackInv, FrameState
<1>8. VisitedInv /\ ReachInv
  BY <1>1, <1>3 DEF VisitedInv, ReachInv, FramesReach, ReachFrames, LowReached
<1>9. NumberInv
  BY <1>1, <1>4 DEF NumberInv, TagsOrdered
<1>10. CoverInv
  BY <1>1, <1>2, <1>4 DEF CoverInv, FrameState
<1>11. QED
  BY <1>6, <1>7, <1>8, <1>9, <1>10 DEF SearchInv

\* A step of compute_SCC_tag happens in its loop and stays there.
LEMMA TagStepStays ==
  ASSUME TagStep
  PROVE  pc = "tag" /\ pc' = "tag"
BY DEF TagStep, TagEnter, TagDescend, TagSeen, TagReturn, TagRoot, InLoop

\* A step that is not one of compute_SCC_tag leaves the numbers alone and ends
\* outside its loop, unless nothing happens.
LEMMA OtherStep ==
  ASSUME [Next]_vars, ~TagStep
  PROVE  \/ UNCHANGED vars
         \/ /\ pc' # "tag"
            /\ pc = "tag" => callStack = <<>>
            /\ UNCHANGED <<succ, tag, nb_SCCs>>
BY DEF Next, TagStep, TagFinished, DagEnter, DagEdge, DagReturn, DagFinished, MarkFinal,
       Terminated, InLoop, graphVars, sccVars

\* A step keeps the invariant.
LEMMA SearchStep ==
  ASSUME TypeOK, TypeOK', SearchInv, [Next]_vars
  PROVE  SearchInv'
<1>1. CASE TagStep
  <2>1. /\ pc = "tag" /\ pc' = "tag"
        /\ StackInv /\ CallStackInv /\ VisitedInv /\ ReachInv
        /\ NumberInv /\ CoverInv
    BY <1>1, TagStepStays DEF SearchInv
  <2>2. StackInv' /\ CallStackInv' /\ VisitedInv' /\ ReachInv' /\ NumberInv' /\ CoverInv'
    BY <1>1, <2>1, StackStep, CallStackStep, VisitedStep, ReachStep, NumberStep, CoverStep
  <2>3. QED
    BY <2>2 DEF SearchInv
<1>2. CASE UNCHANGED vars
  <2>1. /\ UNCHANGED <<succ, pc, callStack, spot, low, time, stack, stackMem, tag, nb_SCCs>>
        /\ depth' = depth /\ Top' = Top /\ Tagged' = Tagged /\ ReadyFrames' = ReadyFrames
    BY <1>2 DEF vars, graphVars, searchVars, sccVars, depth, Top, Tagged, ReadyFrames
  <2>2. \A i : FrameState(i)' = FrameState(i)
    BY <2>1 DEF FrameState
  <2>3. StackInv => StackInv'
    BY <2>1 DEF StackInv
  <2>4. CallStackInv => CallStackInv'
    BY <2>1 DEF CallStackInv, FrameState
  <2>5. VisitedInv => VisitedInv'
    BY <2>1 DEF VisitedInv, Unvisited, Accounted, FrameState
  <2>6. ReachInv => ReachInv'
    BY <2>1 DEF ReachInv, FramesReach, ReachFrames, LowReached, FrameState
  <2>7. NumberInv' /\ CoverInv'
    BY <2>1 DEF SearchInv, NumberInv, TagsOrdered, CoverInv, FrameState
  <2>8. QED
    BY <2>1, <2>3, <2>4, <2>5, <2>6, <2>7 DEF SearchInv
<1>3. CASE ~TagStep /\ ~UNCHANGED vars
  <2>1. /\ pc' # "tag"
        /\ pc = "tag" => callStack = <<>>
        /\ UNCHANGED <<succ, tag, nb_SCCs>>
    BY <1>3, OtherStep
  <2>2. Tagged' = Tagged
    BY <2>1 DEF Tagged
  <2>3. initial \in Tagged
    BY <2>1 DEF SearchInv, CoverInv
  <2>4. NumberInv' /\ CoverInv'
    BY <2>1, <2>2, <2>3 DEF SearchInv, NumberInv, TagsOrdered, CoverInv
  <2>5. QED
    BY <2>1, <2>4 DEF SearchInv
<1>4. QED
  BY <1>1, <1>2, <1>3

-----------------------------------------------------------------------------
(* The theorems *)

\* Types and the invariant hold together: a pop leaves a sequence of states
\* only because the root is on the stack.
THEOREM InvariantHolds == Spec => [](TypeOK /\ SearchInv)
<1>1. Init => TypeOK /\ SearchInv
  BY InitType, InitSearchInv
<1>2. TypeOK /\ SearchInv /\ [Next]_vars => (TypeOK /\ SearchInv)'
  BY TypeStep, SearchStep DEF SearchInv
<1>3. QED
  BY <1>1, <1>2, PTL DEF Spec

\* Every variable of compute_SCC keeps its type: indices of the arrays origin
\* and final_SCCs are the numbers given out.
THEOREM TypeCorrect == Spec => []TypeOK
BY InvariantHolds, PTL

\* The invariant of Tarjan's search holds for every graph.
THEOREM SearchInvHolds == Spec => []SearchInv
BY InvariantHolds, PTL

\* No edge ever leads from a numbered state to one that has no number or a
\* larger one: top_dag and the desilencing passes may follow the numbers.
THEOREM NumbersOrdered == Spec => []TagsOrdered
<1>1. SearchInv => TagsOrdered
  BY DEF SearchInv, NumberInv
<1>2. QED
  BY <1>1, SearchInvHolds, PTL

\* States that reach each other have one number, for an edge never leads to a
\* larger number.
LEMMA MutualSameNumber ==
  ASSUME TypeOK, NumberInv, NEW s \in Tagged, NEW t \in Tagged, Mutual(succ, s, t)
  PROVE  tag[s] = tag[t]
<1>1. ASSUME NEW x \in Tagged, NEW y \in Tagged, Reaches(succ, x, y)
      PROVE  tag[y] <= tag[x]
  <2> DEFINE C == {u \in Tagged : tag[u] <= tag[x]}
  <2>1. /\ Tagged \subseteq State
        /\ \A u \in Tagged : tag[u] \in Int
        /\ DOMAIN succ = State
    BY DEF Tagged, TypeOK
  <2>2. C \in SUBSET (DOMAIN succ) /\ x \in C
    BY <2>1
  <2>3. Closed(succ, C)
    <3> SUFFICES ASSUME NEW u \in C, NEW v \in succ[u]
                 PROVE  v \in C
      BY DEF Closed
    <3>1. v \in Tagged /\ tag[v] <= tag[u]
      BY DEF NumberInv, TagsOrdered
    <3>2. QED
      BY <2>1, <3>1
  <2>4. y \in C
    BY <1>1, <2>2, <2>3 DEF Reaches
  <2>5. QED
    BY <2>4
<1>2. tag[s] <= tag[t] /\ tag[t] <= tag[s]
  BY <1>1 DEF Mutual
<1>3. QED
  BY <1>2 DEF Tagged, TypeOK

\* States that carry one number reach each other: they were popped together.
SameNumberMutual ==
  \A s, t \in Tagged : tag[s] = tag[t] => Mutual(succ, s, t)

\* States numbered alike stay mutually reachable: a root numbers what is above
\* it on the stack, and the stack is a path.
LEMMA SameNumberStep ==
  ASSUME TypeOK, SearchInv, SameNumberMutual, [Next]_vars
  PROVE  SameNumberMutual'
<1>1. CASE TagRoot
  <2> DEFINE popped == {u \in State : stackMem[u] /\ spot[Top.state] <= spot[u]}
  <2>1. /\ StackInv /\ CallStackInv /\ ReachInv /\ NumberInv
        /\ succ \in [State -> SUBSET State]
        /\ nb_SCCs \in Nat
    BY <1>1 DEF SearchInv, TagRoot, InLoop, TypeOK
  <2>2. /\ Top.state \in State
        /\ tag' = [s \in State |-> IF s \in popped THEN nb_SCCs ELSE tag[s]]
        /\ Tagged' = Tagged \cup popped
        /\ succ' = succ
    BY <1>1, <2>1, RootEffect
  <2>3. \A s \in popped : Reaches(succ, Top.state, s) /\ Reaches(succ, s, Top.state)
    BY <1>1, <2>1, PopMutual
  <2>4. popped \subseteq State
    OBVIOUS
  <2>5. \A s \in Tagged : s \notin popped /\ s \in State /\ tag[s] # nb_SCCs
    BY <2>1 DEF StackInv, NumberInv, Tagged, TypeOK
  <2> HIDE DEF popped
  <2>6. ASSUME NEW s \in Tagged', NEW t \in Tagged', tag'[s] = tag'[t]
        PROVE  Mutual(succ', s, t)
    <3>1. CASE s \in popped /\ t \in popped
      BY <2>1, <2>2, <2>3, <2>4, <3>1, ReachesTransitive DEF Mutual
    <3>2. CASE s \in Tagged /\ t \in Tagged
      BY <2>2, <2>5, <2>6, <3>2 DEF SameNumberMutual
    <3>3. QED
      BY <2>2, <2>4, <2>5, <2>6, <3>1, <3>2
  <2>7. QED
    BY <2>6 DEF SameNumberMutual
<1>2. CASE ~TagRoot
  <2>1. UNCHANGED <<succ, tag>>
    BY <1>2 DEF Next, vars, TagEnter, TagDescend, TagSeen, TagReturn, TagFinished, DagEnter,
                DagEdge, DagReturn, DagFinished, MarkFinal, Terminated, graphVars, sccVars
  <2>2. QED
    BY <2>1 DEF SameNumberMutual, Tagged
<1>3. QED
  BY <1>1, <1>2

\* At every moment of the search two numbered states carry the same number
\* exactly when each reaches the other.
THEOREM ComponentsCorrect == Spec => []TagsAreComponents
<1>1. Init => SameNumberMutual
  BY DEF Init, SameNumberMutual, Tagged
<1>2. TypeOK /\ SearchInv /\ SameNumberMutual /\ [Next]_vars => SameNumberMutual'
  BY SameNumberStep
<1>3. TypeOK /\ SearchInv /\ SameNumberMutual => TagsAreComponents
  BY MutualSameNumber DEF TagsAreComponents, SameNumberMutual, SearchInv
<1>4. QED
  BY <1>1, <1>2, <1>3, InvariantHolds, PTL DEF Spec

\* When the search is over the numbered states are the reachable ones and the
\* numbers are those the arrays SCCs and final_SCCs are indexed with.
THEOREM ReachableNumbered == Spec => []TagsReachable
<1>1. TypeOK /\ SearchInv => TagsReachable
  <2> SUFFICES ASSUME TypeOK, SearchInv, pc # "tag"
               PROVE  /\ Tagged = {s \in State : Reaches(succ, initial, s)}
                      /\ {tag[s] : s \in Tagged} = 0 .. nb_SCCs - 1
    BY DEF TagsReachable
  <2>1. /\ initial \in Tagged
        /\ Tagged \subseteq State
        /\ DOMAIN succ = State
    BY DEF SearchInv, CoverInv, Tagged, TypeOK
  <2>2. Closed(succ, Tagged)
    BY DEF SearchInv, NumberInv, TagsOrdered, Closed
  <2>3. \A s \in State : Reaches(succ, initial, s) => s \in Tagged
    BY <2>1, <2>2 DEF Reaches
  <2>4. \A s \in Tagged : Reaches(succ, initial, s)
    BY DEF SearchInv, CoverInv
  <2>5. \A s \in Tagged : tag[s] \in 0 .. nb_SCCs - 1
    BY DEF SearchInv, NumberInv, Tagged, TypeOK
  <2>6. \A i \in 0 .. nb_SCCs - 1 : \E s \in Tagged : tag[s] = i
    BY DEF SearchInv, CoverInv
  <2>7. QED
    BY <2>1, <2>3, <2>4, <2>5, <2>6
<1>2. QED
  BY <1>1, InvariantHolds, PTL

\* A pop numbers one whole component all of whose exits are numbered: the
\* search implements SCCOrder, step by step.
THEOREM ImplementsOrderSafety == Spec => Order!Safety
<1>1. Init => Order!Init
  BY DEF Init, InitGraph, InitSearch, Order!Init
<1>2. TypeOK /\ SearchInv /\ [Next]_vars => [Order!Next]_(Order!vars)
  <2> SUFFICES ASSUME TypeOK, SearchInv, [Next]_vars
               PROVE  [Order!Next]_(Order!vars)
    OBVIOUS
  <2>1. CASE TagRoot
    <3> DEFINE popped == {u \in State : stackMem[u] /\ spot[Top.state] <= spot[u]}
    <3>1. /\ StackInv /\ CallStackInv /\ ReachInv /\ NumberInv /\ VisitedInv /\ CoverInv
          /\ succ \in [State -> SUBSET State]
          /\ pc = "tag"
      BY <2>1 DEF SearchInv, TagRoot, InLoop, TypeOK
    <3>2. /\ Top.state \in popped
          /\ tag' = [s \in State |-> IF s \in popped THEN nb_SCCs ELSE tag[s]]
          /\ nb_SCCs' = nb_SCCs + 1
          /\ Tagged' = Tagged \cup popped
          /\ succ' = succ
      BY <2>1, <3>1, RootEffect
    <3>3. \A s \in popped : tag[s] = -1
      BY <3>1 DEF StackInv, Tagged
    <3>4. \A s \in popped : succ[s] \subseteq popped \cup {t \in State : tag[t] # -1}
      BY <2>1, <3>1, PopClosed DEF Tagged
    <3>5. \A s, t \in popped : Reaches(succ, s, t)
      BY <2>1, <3>1, <3>2, PopMutual, ReachesTransitive
    <3>6. \A s \in popped : Reaches(succ, initial, s)
      <4>1. CoverInv'
        BY <2>1, <3>1, CoverStep DEF TagStep
      <4>2. QED
        BY <3>2, <4>1 DEF CoverInv
    <3>7. popped \in SUBSET State
      OBVIOUS
    <3> HIDE DEF popped
    <3>8. \A s, t : Order!Reaches(succ, s, t) <=> Reaches(succ, s, t)
      BY DEF Order!Reaches, Order!Closed, Reaches, Closed
    <3>9. /\ popped # {}
          /\ \A s \in popped : /\ tag[s] = -1
                               /\ Order!Reaches(succ, initial, s)
                               /\ succ[s] \subseteq popped \cup {t \in State : tag[t] # -1}
          /\ \A s, t \in popped : Order!Reaches(succ, s, t)
      BY <3>2, <3>3, <3>4, <3>5, <3>6, <3>8
    <3>10. Order!Number(popped)
      BY <3>2, <3>9 DEF Order!Number
    <3>11. QED
      BY <3>7, <3>10 DEF Order!Next
  <2>2. CASE ~TagRoot
    BY <2>2 DEF Next, vars, TagEnter, TagDescend, TagSeen, TagReturn, TagFinished, DagEnter,
                DagEdge, DagReturn, DagFinished, MarkFinal, Terminated, graphVars, sccVars,
                Order!vars
  <2>3. QED
    BY <2>1, <2>2
<1>3. QED
  BY <1>1, <1>2, InvariantHolds, PTL DEF Spec, Order!Safety

-----------------------------------------------------------------------------
(***************************************************************************)
(* What follows the first search: the DAG of components, their origins and *)
(* which of them accept.                                                   *)
(***************************************************************************)

-----------------------------------------------------------------------------
(* The invariant *)

\* A discovered state that is no longer searched is no root.
NoLateRoot ==
  \A s \in State : stackMem[s] /\ low[s] = spot[s] => \E i \in ReadyFrames : FrameState(i) = s

\* Of each component the first search leaves one state whose spot and low are
\* equal: the one discovered first.
RootIsFirst ==
  \A i \in 0 .. nb_SCCs - 1 : \E r \in Tagged :
    /\ tag[r] = i
    /\ spot[r] = low[r]
    /\ \A s \in Tagged : tag[s] = i => /\ spot[r] <= spot[s]
                                       /\ spot[s] = low[s] => s = r

\* The second search goes through numbered states; only its current frame may
\* be waiting to be looked at.
DagFrames ==
  \A i \in DOMAIN callStack :
    /\ FrameState(i) \in Tagged
    /\ IF callStack[i].ready
       THEN stackMem[FrameState(i)] /\ callStack[i].todo \subseteq succ[FrameState(i)]
       ELSE i = depth

\* The search has been at t or is about to be.
Arrived(t) == stackMem[t] \/ (callStack # <<>> /\ ~Top.ready /\ Top.state = t)

\* The edge from s to t has not been looked at.
ToVisit(s, t) == \E i \in ReadyFrames : FrameState(i) = s /\ t \in callStack[i].todo

\* An edge out of a visited state is still to be looked at, or was followed and
\* is in the DAG.
DagEdges ==
  \A s \in State : stackMem[s] =>
    /\ s \in Tagged
    /\ \A t \in succ[s] :
         \/ ToVisit(s, t)
         \/ Arrived(t) /\ (tag[s] # tag[t] => <<tag[s], tag[t]>> \in nexts)

\* The DAG has no other edges.
DagSound ==
  \A n \in nexts : \E s \in Tagged : \E t \in succ[s] :
    tag[s] # tag[t] /\ n = <<tag[s], tag[t]>>

\* A root that was visited is the origin of its component.
DagOrigins ==
  \A s \in State : stackMem[s] /\ spot[s] = low[s] => origin[tag[s]] = s

\* No component is marked accepting yet.
NoFinals == \A i \in DOMAIN final_SCCs : ~final_SCCs[i]

\* What holds while the second search runs.
DagSearchInv == DagFrames /\ DagEdges /\ DagSound /\ DagOrigins /\ Arrived(initial)

DagInv ==
  /\ pc = "tag" => NoLateRoot
  /\ RootIsFirst
  /\ pc = "dag" => DagSearchInv
  /\ pc \in {"dag", "final"} => NoFinals
  /\ DagIsQuotient
  /\ FinalsExact

-----------------------------------------------------------------------------
(* Roots *)

\* A state that leaves the call stack but stays on Tarjan's stack is no root.
LEMMA NoLateRootStep ==
  ASSUME TypeOK, StackInv, CallStackInv, NoLateRoot, TagStep
  PROVE  NoLateRoot'
<1>0. /\ callStack # <<>>
      /\ depth \in Nat /\ depth >= 1
      /\ Top.state \in State /\ Top.state = FrameState(depth)
      /\ low \in [State -> Int] /\ spot \in [State -> Int]
  BY ReadyFacts, TopFacts
     DEF TagStep, TagEnter, TagDescend, TagSeen, TagReturn, TagRoot, InLoop, TypeOK
<1> SUFFICES ASSUME NEW s \in State, stackMem'[s], low'[s] = spot'[s]
             PROVE  \E i \in ReadyFrames' : FrameState(i)' = s
  BY DEF NoLateRoot
<1>1. CASE TagEnter
  <2>1. /\ ReadyFrames' = 1 .. depth /\ ReadyFrames = 1 .. depth - 1
        /\ \A i \in 1 .. depth : FrameState(i)' = FrameState(i)
    BY <1>1, EnterEffect DEF FrameState
  <2>2. CASE s = Top.state
    BY <1>0, <2>1, <2>2
  <2>3. CASE s # Top.state
    <3>1. stackMem[s] /\ low[s] = spot[s]
      BY <1>0, <1>1, <2>3 DEF TagEnter, TypeOK
    <3>2. PICK i \in 1 .. depth - 1 : FrameState(i) = s
      BY <2>1, <3>1 DEF NoLateRoot
    <3>3. QED
      BY <1>0, <2>1, <3>2
  <2>4. QED
    BY <2>2, <2>3
<1>2. ASSUME NEW c \in State, TagDescend(c)
      PROVE  \E i \in ReadyFrames' : FrameState(i)' = s
  <2>1. /\ ReadyFrames' = 1 .. depth /\ ReadyFrames = 1 .. depth
        /\ \A i \in 1 .. depth : FrameState(i)' = FrameState(i)
    BY <1>2, DescendEffect DEF FrameState
  <2>2. stackMem[s] /\ low[s] = spot[s]
    BY <1>2 DEF TagDescend
  <2>3. QED
    BY <2>1, <2>2 DEF NoLateRoot
<1>3. ASSUME NEW c \in State, TagSeen(c)
      PROVE  \E i \in ReadyFrames' : FrameState(i)' = s
  <2>1. /\ ReadyFrames' = 1 .. depth /\ ReadyFrames = 1 .. depth
        /\ \A i \in 1 .. depth : FrameState(i)' = FrameState(i)
    BY <1>3, SeenEffect DEF FrameState
  <2>2. CASE s = Top.state
    BY <1>0, <2>1, <2>2
  <2>3. CASE s # Top.state
    <3>1. stackMem[s] /\ low[s] = spot[s]
      BY <1>0, <1>3, <2>3, LinkFacts DEF TagSeen
    <3>2. QED
      BY <2>1, <3>1 DEF NoLateRoot
  <2>4. QED
    BY <2>2, <2>3
<1>4. ASSUME TagReturn \/ TagRoot
      PROVE  \E i \in ReadyFrames' : FrameState(i)' = s
  <2>1. /\ ReadyFrames' = 1 .. depth - 1 /\ ReadyFrames = 1 .. depth
        /\ \A i \in 1 .. depth - 1 : FrameState(i)' = FrameState(i)
    BY <1>4, ReturnEffect DEF FrameState
  <2>2. spot' = spot /\ low' = LowerParent
    BY <1>4 DEF TagReturn, TagRoot
  <2>3. CASE low'[s] # low[s]
    <3>1. depth > 1 /\ s = FrameState(depth - 1)
      BY <1>0, <2>2, <2>3, LowerFacts DEF FrameState
    <3>2. depth - 1 \in 1 .. depth - 1
      BY <1>0, <3>1
    <3>3. QED
      BY <2>1, <3>1, <3>2
  <2>4. CASE low'[s] = low[s]
    <3>1. stackMem[s] /\ s # Top.state
      <4>1. CASE TagReturn
        BY <2>2, <2>4, <4>1 DEF TagReturn
      <4>2. CASE TagRoot
        BY <4>2, RootEffect
      <4>3. QED
        BY <1>4, <4>1, <4>2
    <3>2. PICK i \in 1 .. depth : FrameState(i) = s
      BY <2>1, <2>2, <2>4, <3>1 DEF NoLateRoot
    <3>3. i \in 1 .. depth - 1
      BY <1>0, <3>1, <3>2
    <3>4. QED
      BY <2>1, <3>2, <3>3
  <2>5. QED
    BY <2>3, <2>4
<1>5. QED
  BY <1>1, <1>2, <1>3, <1>4 DEF TagStep

\* The first search touches neither spot nor low of a numbered state.
LEMMA NumberedKept ==
  ASSUME TypeOK, StackInv, CallStackInv, TagStep, NEW s \in Tagged
  PROVE  spot'[s] = spot[s] /\ low'[s] = low[s] /\ tag'[s] = tag[s]
<1>0. /\ callStack # <<>>
      /\ depth \in Nat /\ depth >= 1
      /\ Top.state \in State
      /\ low \in [State -> Int] /\ spot \in [State -> Int] /\ tag \in [State -> Int]
      /\ s \in State /\ ~stackMem[s] /\ spot[s] # -1
  BY ReadyFacts, TopFacts
     DEF TagStep, TagEnter, TagDescend, TagSeen, TagReturn, TagRoot, InLoop, TypeOK, Tagged, StackInv
<1>1. CASE TagEnter
  <2>1. spot[Top.state] = -1
    BY <1>0, <1>1, TopFacts DEF TagEnter, CallStackInv, Top, FrameState
  <2>2. QED
    BY <1>0, <1>1, <2>1 DEF TagEnter, sccVars
<1>2. ASSUME NEW c \in State, TagDescend(c)
      PROVE  spot'[s] = spot[s] /\ low'[s] = low[s] /\ tag'[s] = tag[s]
  BY <1>2 DEF TagDescend, sccVars
<1>3. ASSUME NEW c \in State, TagSeen(c)
      PROVE  spot'[s] = spot[s] /\ low'[s] = low[s] /\ tag'[s] = tag[s]
  <2>1. s # Top.state
    <3>1. stackMem[FrameState(depth)] /\ Top.state = FrameState(depth)
      <4>1. ReadyFrames = 1 .. depth
        BY <1>3, SeenEffect
      <4>2. depth \in ReadyFrames
        BY <1>0, <4>1
      <4>3. QED
        BY <1>0, <4>2, ReadyFacts
    <3>2. QED
      BY <1>0, <3>1
  <2>2. QED
    BY <1>0, <1>3, <2>1, LinkFacts DEF TagSeen, sccVars
<1>4. ASSUME TagReturn \/ TagRoot
      PROVE  spot'[s] = spot[s] /\ low'[s] = low[s] /\ tag'[s] = tag[s]
  <2>1. \A i \in 1 .. depth : s # FrameState(i)
    BY <1>0, <1>4, ReadyFacts, ReturnEffect
  <2>2. low'[s] = low[s]
    <3>1. low' = LowerParent
      BY <1>4 DEF TagReturn, TagRoot
    <3>2. depth > 1 => depth - 1 \in 1 .. depth
      BY <1>0
    <3>3. QED
      BY <1>0, <2>1, <3>1, <3>2, LowerFacts DEF FrameState
  <2>3. spot'[s] = spot[s] /\ tag'[s] = tag[s]
    <3>1. CASE TagReturn
      BY <3>1 DEF TagReturn, sccVars
    <3>2. CASE TagRoot
      <4> DEFINE popped == {u \in State : stackMem[u] /\ spot[Top.state] <= spot[u]}
      <4>1. tag' = [u \in State |-> IF u \in popped THEN nb_SCCs ELSE tag[u]] /\ spot' = spot
        BY <3>2, RootEffect
      <4>2. QED
        BY <1>0, <4>1
    <3>3. QED
      BY <1>4, <3>1, <3>2
  <2>4. QED
    BY <2>2, <2>3
<1>5. QED
  BY <1>1, <1>2, <1>3, <1>4 DEF TagStep

\* A component that is popped brings one root, the state it is popped with.
LEMMA RootIsFirstStep ==
  ASSUME TypeOK, StackInv, CallStackInv, NumberInv, NoLateRoot, RootIsFirst, TagStep
  PROVE  RootIsFirst'
<1>0. /\ \A s \in Tagged : spot'[s] = spot[s] /\ low'[s] = low[s] /\ tag'[s] = tag[s]
      /\ Tagged \subseteq State
      /\ low \in [State -> Int] /\ spot \in [State -> Int] /\ tag \in [State -> Int]
      /\ nb_SCCs \in Nat
  BY NumberedKept DEF TypeOK, Tagged
<1>1. CASE ~TagRoot
  <2>1. tag' = tag /\ nb_SCCs' = nb_SCCs /\ Tagged' = Tagged
    BY <1>1 DEF TagStep, TagEnter, TagDescend, TagSeen, TagReturn, sccVars, Tagged
  <2>2. QED
    BY <1>0, <2>1 DEF RootIsFirst
<1>2. CASE TagRoot
  <2> DEFINE popped == {u \in State : stackMem[u] /\ spot[Top.state] <= spot[u]}
  <2>1. /\ Top.state \in State
        /\ Top.state \in popped
        /\ tag' = [s \in State |-> IF s \in popped THEN nb_SCCs ELSE tag[s]]
        /\ nb_SCCs' = nb_SCCs + 1
        /\ Tagged' = Tagged \cup popped
        /\ spot' = spot
    BY <1>2, RootEffect
  <2>2. popped \subseteq State /\ \A s \in popped : stackMem[s] /\ spot[Top.state] <= spot[s]
    OBVIOUS
  <2>3. \A s \in Tagged : tag[s] # nb_SCCs /\ s \notin popped
    BY <1>0 DEF NumberInv, StackInv, Tagged
  <2>4. \A s \in popped : low'[s] = low[s]
    <3> SUFFICES ASSUME NEW s \in popped PROVE low'[s] = low[s]
      OBVIOUS
    <3>1. /\ callStack # <<>> /\ depth \in Nat /\ depth >= 1
          /\ Top.state = FrameState(depth)
          /\ ReadyFrames = 1 .. depth
          /\ low' = LowerParent
      BY <1>2, ReadyFacts, TopFacts, ReturnEffect DEF TagRoot, InLoop
    <3>2. CASE depth > 1 /\ s = callStack[depth - 1].state
      <4>1. depth - 1 \in 1 .. depth /\ depth \in 1 .. depth /\ depth - 1 < depth
        BY <3>1, <3>2
      <4>2. spot[FrameState(depth - 1)] < spot[FrameState(depth)]
        BY <3>1, <4>1 DEF CallStackInv
      <4>3. QED
        BY <1>0, <2>1, <2>2, <3>1, <3>2, <4>2 DEF FrameState
    <3>3. CASE ~(depth > 1 /\ s = callStack[depth - 1].state)
      BY <2>2, <3>1, <3>3, LowerFacts
    <3>4. QED
      BY <3>2, <3>3
  <2>5. \A s \in popped : spot[s] = low[s] => s = Top.state
    <3> SUFFICES ASSUME NEW s \in popped, spot[s] = low[s] PROVE s = Top.state
      OBVIOUS
    <3>1. /\ depth \in Nat /\ depth >= 1
          /\ Top.state = FrameState(depth)
          /\ ReadyFrames = 1 .. depth
      BY <1>2, ReadyFacts, TopFacts, ReturnEffect DEF TagRoot, InLoop
    <3>2. PICK i \in 1 .. depth : FrameState(i) = s
      BY <2>2, <3>1 DEF NoLateRoot
    <3>3. i # depth => spot[s] < spot[Top.state]
      BY <3>1, <3>2 DEF CallStackInv
    <3>4. i = depth
      BY <1>0, <2>1, <2>2, <3>3
    <3>5. QED
      BY <3>1, <3>2, <3>4
  <2>6. spot[Top.state] = low[Top.state]
    BY <1>2 DEF TagRoot
  <2> HIDE DEF popped
  <2>7. SUFFICES ASSUME NEW i \in 0 .. nb_SCCs
                 PROVE  \E r \in Tagged' :
                          /\ tag'[r] = i
                          /\ spot'[r] = low'[r]
                          /\ \A s \in Tagged' : tag'[s] = i => /\ spot'[r] <= spot'[s]
                                                               /\ spot'[s] = low'[s] => s = r
    BY <1>0, <2>1 DEF RootIsFirst
  <2>8. CASE i = nb_SCCs
    <3>1. \A s \in Tagged' : tag'[s] = i => s \in popped
      BY <1>0, <2>1, <2>3, <2>8
    <3>2. /\ Top.state \in Tagged'
          /\ tag'[Top.state] = i
          /\ spot'[Top.state] = low'[Top.state]
      BY <2>1, <2>4, <2>6, <2>8
    <3>3. \A s \in popped : /\ spot'[Top.state] <= spot'[s]
                            /\ spot'[s] = low'[s] => s = Top.state
      BY <2>1, <2>2, <2>4, <2>5
    <3>4. QED
      BY <3>1, <3>2, <3>3
  <2>9. CASE i # nb_SCCs
    <3>1. PICK r \in Tagged : /\ tag[r] = i
                              /\ spot[r] = low[r]
                              /\ \A s \in Tagged : tag[s] = i => /\ spot[r] <= spot[s]
                                                                 /\ spot[s] = low[s] => s = r
      BY <1>0, <2>9 DEF RootIsFirst
    <3>2. \A s \in Tagged' : tag'[s] = i => s \in Tagged
      BY <2>1, <2>2, <2>9
    <3>3. r \in Tagged' /\ tag'[r] = i /\ spot'[r] = low'[r]
      BY <1>0, <2>1, <3>1
    <3>4. ASSUME NEW s \in Tagged', tag'[s] = i
          PROVE  spot'[r] <= spot'[s] /\ (spot'[s] = low'[s] => s = r)
      <4>1. s \in Tagged
        BY <3>2, <3>4
      <4>2. tag[s] = i
        BY <1>0, <3>4, <4>1
      <4>3. spot[r] <= spot[s] /\ (spot[s] = low[s] => s = r)
        BY <3>1, <4>1, <4>2
      <4>4. QED
        BY <1>0, <3>1, <4>1, <4>3
    <3>5. QED
      BY <3>3, <3>4
  <2>10. QED
    BY <2>8, <2>9
<1>3. QED
  BY <1>1, <1>2
-----------------------------------------------------------------------------
(* The second search *)

\* Every frame but the last is ready.
LEMMA DagReadyFacts ==
  ASSUME TypeOK, DagFrames, callStack # <<>>
  PROVE  /\ depth \in Nat /\ depth >= 1
         /\ DOMAIN callStack = 1 .. depth
         /\ ReadyFrames = IF Top.ready THEN 1 .. depth ELSE 1 .. depth - 1
         /\ \A i \in 1 .. depth : FrameState(i) \in Tagged /\ FrameState(i) \in State
         /\ Top.state = FrameState(depth)
         /\ Top.state \in Tagged
         /\ Top.state \in State
<1>1. /\ depth \in Nat /\ depth >= 1
      /\ DOMAIN callStack = 1 .. depth
      /\ Top.state = FrameState(depth)
  BY TopFacts DEF Top, FrameState
<1>2. \A i \in 1 .. depth : /\ FrameState(i) \in Tagged
                            /\ ~callStack[i].ready => i = depth
  BY <1>1 DEF DagFrames
<1>3. \A i \in 1 .. depth : FrameState(i) \in State
  BY <1>2 DEF Tagged
<1>4. ReadyFrames = {i \in 1 .. depth : callStack[i].ready}
  BY <1>1 DEF ReadyFrames
<1>5. \A i \in 1 .. depth - 1 : i \in 1 .. depth /\ i # depth
  BY <1>1
<1>6. CASE Top.ready
  <2>1. \A i \in 1 .. depth : callStack[i].ready
    BY <1>2, <1>6 DEF Top
  <2>2. QED
    BY <1>1, <1>2, <1>3, <1>4, <1>6, <2>1
<1>7. CASE ~Top.ready
  <2>1. \A i \in 1 .. depth : callStack[i].ready <=> i \in 1 .. depth - 1
    BY <1>1, <1>2, <1>5, <1>7 DEF Top
  <2>2. ReadyFrames = 1 .. depth - 1
    BY <1>4, <1>5, <2>1
  <2>3. QED
    BY <1>1, <1>2, <1>3, <1>7, <2>2
<1>8. QED
  BY <1>6, <1>7

\* When the first search is over nothing is on its stack, and so no state is
\* taken for visited by the second.
LEMMA DagStarts ==
  ASSUME TypeOK, SearchInv, TagFinished
  PROVE  DagSearchInv'
<1>1. \A s \in State : ~stackMem[s]
  <2>1. ReadyFrames = {}
    BY DEF TagFinished, ReadyFrames
  <2>2. QED
    BY <2>1 DEF TagFinished, SearchInv, ReachInv, ReachFrames
<1>2. initial \in Tagged
  BY DEF TagFinished, SearchInv, CoverInv
<1>3. /\ callStack' = <<NewFrame(initial)>>
      /\ DOMAIN callStack' = {1}
      /\ callStack'[1].state = initial
      /\ ~callStack'[1].ready
      /\ depth' = 1
  BY DEF TagFinished, NewFrame, depth
<1>4. UNCHANGED <<stackMem, tag, succ>> /\ nexts' = {}
  BY DEF TagFinished, sccVars, graphVars
<1>5. DagFrames'
  BY <1>2, <1>3, <1>4 DEF DagFrames, FrameState, Tagged
<1>6. Arrived(initial)'
  BY <1>3 DEF Arrived, Top
<1>7. DagEdges' /\ DagSound' /\ DagOrigins'
  BY <1>1, <1>4 DEF DagEdges, DagSound, DagOrigins
<1>8. QED
  BY <1>5, <1>6, <1>7 DEF DagSearchInv

\* A frame is dropped whose state was visited before, or whose edges were all
\* looked at.
LEMMA DagDropped ==
  ASSUME TypeOK, DagSearchInv, callStack # <<>>, stackMem[Top.state],
         Top.ready => Top.todo = {},
         callStack' = SubSeq(callStack, 1, depth - 1),
         UNCHANGED <<graphVars, spot, low, stackMem, sccVars, origin, nexts>>
  PROVE  DagSearchInv'
<1>1. /\ depth \in Nat /\ depth >= 1
      /\ DOMAIN callStack = 1 .. depth
      /\ ReadyFrames = IF Top.ready THEN 1 .. depth ELSE 1 .. depth - 1
      /\ Top.state = FrameState(depth)
  BY DagReadyFacts DEF DagSearchInv
<1>2. /\ depth' = depth - 1
      /\ DOMAIN callStack' = 1 .. depth - 1
      /\ \A i \in 1 .. depth - 1 : callStack'[i] = callStack[i]
  BY ReturnedFacts, LenProperties DEF depth
<1>3. UNCHANGED <<succ, spot, low, stackMem, tag, nb_SCCs, Tagged, origin, nexts>>
  BY DEF graphVars, sccVars, Tagged
<1>4. \A i \in 1 .. depth - 1 : i \in ReadyFrames /\ i \in DOMAIN callStack /\ callStack[i].ready
  BY <1>1 DEF ReadyFrames
<1>5. DagFrames'
  BY <1>2, <1>3, <1>4 DEF DagSearchInv, DagFrames, FrameState
<1>6. ASSUME NEW t, Arrived(t)
      PROVE  stackMem'[t]
  BY <1>3, <1>6 DEF Arrived
<1>7. ASSUME NEW s, NEW t, ToVisit(s, t)
      PROVE  ToVisit(s, t)'
  <2>1. PICK i \in ReadyFrames : FrameState(i) = s /\ t \in callStack[i].todo
    BY <1>7 DEF ToVisit
  <2>2. i \in 1 .. depth - 1
    <3>1. i \in 1 .. depth
      BY <1>1, <2>1
    <3>2. i # depth
      BY <1>1, <2>1 DEF Top
    <3>3. QED
      BY <1>1, <3>1, <3>2
  <2>3. i \in ReadyFrames'
    BY <1>2, <1>4, <2>2 DEF ReadyFrames
  <2>4. QED
    BY <1>2, <2>1, <2>2, <2>3 DEF ToVisit, FrameState
<1>8. DagEdges'
  BY <1>3, <1>6, <1>7 DEF DagSearchInv, DagEdges, Arrived
<1>9. DagSound' /\ DagOrigins' /\ Arrived(initial)'
  BY <1>3, <1>6 DEF DagSearchInv, DagSound, DagOrigins, Arrived
<1>10. QED
  BY <1>5, <1>8, <1>9 DEF DagSearchInv

\* A state is visited for the first time: all its edges are to be looked at.
LEMMA DagVisits ==
  ASSUME TypeOK, SearchInv, RootIsFirst, DagSearchInv, DagEnter, ~stackMem[Top.state]
  PROVE  DagSearchInv'
<1>0. /\ callStack # <<>> /\ ~Top.ready
      /\ callStack' = Collected
      /\ stackMem' = [stackMem EXCEPT ![Top.state] = TRUE]
      /\ origin' = IF spot[Top.state] = low[Top.state]
                   THEN [origin EXCEPT ![tag[Top.state]] = Top.state] ELSE origin
      /\ UNCHANGED <<succ, spot, low, tag, nb_SCCs, Tagged, nexts>>
  BY DEF DagEnter, InLoop, graphVars, sccVars, Tagged
<1>1. /\ depth \in Nat /\ depth >= 1
      /\ DOMAIN callStack = 1 .. depth
      /\ ReadyFrames = 1 .. depth - 1
      /\ Top.state = FrameState(depth)
      /\ Top.state \in Tagged /\ Top.state \in State
  BY <1>0, DagReadyFacts DEF DagSearchInv
<1>2. /\ depth' = depth
      /\ DOMAIN callStack' = 1 .. depth
      /\ \A i \in 1 .. depth :
           /\ callStack'[i].state = callStack[i].state
           /\ callStack'[i].ready = IF i = depth THEN TRUE ELSE callStack[i].ready
           /\ callStack'[i].todo = IF i = depth THEN succ[Top.state] ELSE callStack[i].todo
  BY <1>0, CollectedFacts, LenProperties DEF depth
<1>3. \A i \in 1 .. depth - 1 : i \in 1 .. depth /\ i # depth /\ callStack[i].ready
  BY <1>1 DEF ReadyFrames
<1>4. /\ \A i \in 1 .. depth : callStack'[i].ready /\ FrameState(i)' = FrameState(i)
      /\ ReadyFrames' = 1 .. depth
  <2>1. \A i \in 1 .. depth : i # depth => i \in 1 .. depth - 1
    BY <1>1
  <2>2. \A i \in 1 .. depth : callStack'[i].ready
    BY <1>2, <1>3, <2>1
  <2>3. QED
    BY <1>2, <2>2 DEF ReadyFrames, FrameState
<1>5. /\ stackMem'[Top.state]
      /\ \A s \in State : s # Top.state => stackMem'[s] = stackMem[s]
      /\ \A s \in State : stackMem[s] => stackMem'[s]
  BY <1>0, <1>1 DEF TypeOK
<1>6. DagFrames'
  <2> SUFFICES ASSUME NEW i \in 1 .. depth
               PROVE  /\ FrameState(i) \in Tagged
                      /\ stackMem'[FrameState(i)]
                      /\ callStack'[i].todo \subseteq succ[FrameState(i)]
    BY <1>0, <1>2, <1>4 DEF DagFrames
  <2>1. CASE i = depth
    BY <1>1, <1>2, <1>5, <2>1
  <2>2. CASE i # depth
    <3>1. i \in 1 .. depth - 1
      BY <1>1, <2>2
    <3>2. callStack[i].ready /\ i \in DOMAIN callStack
      BY <1>1, <1>3, <3>1
    <3>3. /\ FrameState(i) \in Tagged
          /\ stackMem[FrameState(i)]
          /\ callStack[i].todo \subseteq succ[FrameState(i)]
      BY <3>2 DEF DagSearchInv, DagFrames
    <3>4. FrameState(i) \in State
      BY <3>3 DEF Tagged
    <3>5. QED
      BY <1>2, <1>5, <2>2, <3>3, <3>4
  <2>3. QED
    BY <2>1, <2>2
<1>7. ASSUME NEW t \in State, Arrived(t)
      PROVE  stackMem'[t]
  BY <1>5, <1>7 DEF Arrived
<1>8. DagEdges'
  <2> SUFFICES ASSUME NEW s \in State, stackMem'[s]
               PROVE  /\ s \in Tagged
                      /\ \A t \in succ[s] :
                           \/ ToVisit(s, t)'
                           \/ Arrived(t)' /\ (tag[s] # tag[t] => <<tag[s], tag[t]>> \in nexts)
    BY <1>0 DEF DagEdges
  <2>1. CASE s = Top.state
    <3>1. depth \in 1 .. depth
      BY <1>1
    <3>2. depth \in ReadyFrames' /\ callStack'[depth].state = s /\ callStack'[depth].todo = succ[s]
      BY <1>1, <1>2, <1>4, <2>1, <3>1 DEF FrameState
    <3>3. ASSUME NEW t \in succ[s]
          PROVE  ToVisit(s, t)'
      BY <3>2 DEF ToVisit, FrameState
    <3>4. QED
      BY <1>1, <2>1, <3>3
  <2>2. CASE s # Top.state
    <3>1. stackMem[s]
      BY <1>5, <2>2
    <3>2. s \in Tagged
      BY <3>1 DEF DagSearchInv, DagEdges
    <3>3. ASSUME NEW t \in succ[s]
          PROVE  \/ ToVisit(s, t)'
                 \/ Arrived(t)' /\ (tag[s] # tag[t] => <<tag[s], tag[t]>> \in nexts)
      <4>1. CASE ToVisit(s, t)
        <5>1. PICK i \in 1 .. depth - 1 : FrameState(i) = s /\ t \in callStack[i].todo
          BY <1>1, <4>1 DEF ToVisit
        <5>2. i \in ReadyFrames' /\ FrameState(i)' = s /\ t \in callStack'[i].todo
          BY <1>2, <1>3, <1>4, <5>1
        <5>3. QED
          BY <5>2 DEF ToVisit
      <4>2. CASE Arrived(t) /\ (tag[s] # tag[t] => <<tag[s], tag[t]>> \in nexts)
        <5>1. t \in State
          BY DEF TypeOK
        <5>2. stackMem'[t]
          BY <1>7, <4>2, <5>1
        <5>3. QED
          BY <4>2, <5>2 DEF Arrived
      <4>3. QED
        BY <3>1, <4>1, <4>2 DEF DagSearchInv, DagEdges
    <3>4. QED
      BY <3>2, <3>3
  <2>3. QED
    BY <2>1, <2>2
<1>9. DagOrigins'
  <2> SUFFICES ASSUME NEW s \in State, stackMem'[s], spot[s] = low[s]
               PROVE  origin'[tag[s]] = s
    BY <1>0 DEF DagOrigins
  <2>1. s \in Tagged
    BY <1>1, <1>5 DEF DagSearchInv, DagEdges
  <2>2. \A u \in Tagged : tag[u] \in DOMAIN origin
    BY DEF DagEnter, InLoop, SearchInv, NumberInv, Tagged, TypeOK
  <2>3. CASE s = Top.state
    BY <1>0, <2>1, <2>2, <2>3
  <2>4. CASE s # Top.state
    <3>1. origin[tag[s]] = s
      BY <1>5, <2>4 DEF DagSearchInv, DagOrigins
    <3>2. spot[Top.state] = low[Top.state] => tag[Top.state] # tag[s]
      <4>1. tag[s] \in 0 .. nb_SCCs - 1
        BY <2>1 DEF SearchInv, NumberInv, Tagged, TypeOK
      <4>2. PICK r \in Tagged :
              \A u \in Tagged : tag[u] = tag[s] /\ spot[u] = low[u] => u = r
        BY <4>1 DEF RootIsFirst
      <4>3. QED
        BY <1>1, <2>1, <2>4, <4>2
    <3>3. tag[s] \in DOMAIN origin
      BY <2>1, <2>2
    <3>4. QED
      BY <1>0, <3>1, <3>2, <3>3
  <2>5. QED
    BY <2>3, <2>4
<1>10. DagSound'
  BY <1>0 DEF DagSearchInv, DagSound
<1>11. Arrived(initial)'
  BY <1>7, InitialAssumption DEF DagSearchInv, Arrived
<1>12. QED
  BY <1>6, <1>8, <1>9, <1>10, <1>11 DEF DagSearchInv
\* An edge is looked at: it is in the DAG, and its end is visited or comes next.
LEMMA DagLooks ==
  ASSUME TypeOK, SearchInv, DagSearchInv, NEW e \in State, DagEdge(e)
  PROVE  DagSearchInv'
<1>0. /\ callStack # <<>> /\ Top.ready /\ e \in Top.todo
      /\ nexts' = DagWith(e)
      /\ callStack' = AfterEdge(e)
      /\ UNCHANGED <<succ, spot, low, stackMem, tag, nb_SCCs, Tagged, origin>>
  BY DEF DagEdge, InLoop, graphVars, sccVars, Tagged
<1>1. /\ depth \in Nat /\ depth >= 1
      /\ DOMAIN callStack = 1 .. depth
      /\ ReadyFrames = 1 .. depth
      /\ Top.state = FrameState(depth)
      /\ Top.state \in Tagged /\ Top.state \in State
  BY <1>0, DagReadyFacts DEF DagSearchInv
<1>2. /\ depth' = IF stackMem[e] THEN depth ELSE depth + 1
      /\ DOMAIN callStack' = 1 .. depth'
      /\ ~stackMem[e] => callStack'[depth + 1] = NewFrame(e)
      /\ \A i \in 1 .. depth :
           /\ callStack'[i].state = callStack[i].state
           /\ callStack'[i].ready = callStack[i].ready
           /\ callStack'[i].todo = IF i = depth THEN Top.todo \ {e} ELSE callStack[i].todo
  <2>1. CASE stackMem[e]
    BY <1>0, <2>1, AdvancedFacts, LenProperties DEF depth, AfterEdge
  <2>2. CASE ~stackMem[e]
    <3>1. callStack' = Append(Advanced(e), NewFrame(e))
      BY <1>0, <2>2 DEF AfterEdge
    <3>2. /\ callStack' \in Seq(Frame)
          /\ Len(callStack') = depth + 1
          /\ callStack'[depth + 1] = NewFrame(e)
          /\ \A i \in 1 .. depth :
               /\ callStack'[i].state = callStack[i].state
               /\ callStack'[i].ready = callStack[i].ready
               /\ callStack'[i].todo = IF i = depth THEN Top.todo \ {e} ELSE callStack[i].todo
      <4>1. callStack # <<>>
        BY <1>0
      <4>2. QED
        BY <3>1, <4>1, DescendedFacts
    <3>3. depth' = depth + 1
      BY <3>2 DEF depth
    <3>4. DOMAIN callStack' = 1 .. depth + 1
      BY <3>2, LenProperties
    <3>5. QED
      BY <2>2, <3>2, <3>3, <3>4
  <2>3. QED
    BY <2>1, <2>2
<1>3. \A i \in 1 .. depth : callStack'[i].ready /\ FrameState(i)' = FrameState(i)
  BY <1>1, <1>2 DEF ReadyFrames, FrameState
<1>4. \A i \in 1 .. depth : i \in DOMAIN callStack' /\ i \in ReadyFrames'
  BY <1>1, <1>2, <1>3 DEF ReadyFrames
<1>5. ~stackMem[e] => /\ callStack' # <<>>
                      /\ ~Top'.ready
                      /\ Top'.state = e
  <2> SUFFICES ASSUME ~stackMem[e]
               PROVE  /\ callStack' # <<>>
                      /\ ~Top'.ready
                      /\ Top'.state = e
    OBVIOUS
  <2>1. depth' = depth + 1 /\ callStack'[depth + 1] = NewFrame(e)
    BY <1>2
  <2>2. Top' = NewFrame(e)
    BY <2>1 DEF Top
  <2>3. depth + 1 \in DOMAIN callStack'
    BY <1>1, <1>2, <2>1
  <2>4. QED
    BY <2>2, <2>3 DEF NewFrame
<1>6. e \in succ[Top.state]
  BY <1>0, <1>1 DEF DagSearchInv, DagFrames, Top, FrameState
<1>7. /\ nexts \subseteq nexts'
      /\ tag[Top.state] # tag[e] => <<tag[Top.state], tag[e]>> \in nexts'
      /\ nexts' \subseteq nexts \cup {<<tag[Top.state], tag[e]>>}
      /\ tag[Top.state] = tag[e] => nexts' = nexts
  BY <1>0 DEF DagWith
<1>8. Arrived(e)'
  BY <1>0, <1>5 DEF Arrived
<1>9. ASSUME NEW t, Arrived(t)
      PROVE  Arrived(t)'
  BY <1>0, <1>9 DEF Arrived
<1>10. DagFrames'
  <2> SUFFICES ASSUME NEW i \in DOMAIN callStack'
               PROVE  /\ FrameState(i)' \in Tagged
                      /\ IF callStack'[i].ready
                         THEN /\ stackMem[FrameState(i)']
                              /\ callStack'[i].todo \subseteq succ[FrameState(i)']
                         ELSE i = depth'
    BY <1>0 DEF DagFrames
  <2>1. CASE i \in 1 .. depth
    <3>1. /\ FrameState(i) \in Tagged
          /\ stackMem[FrameState(i)]
          /\ callStack[i].todo \subseteq succ[FrameState(i)]
      BY <1>1, <2>1 DEF DagSearchInv, DagFrames, ReadyFrames
    <3>2. callStack'[i].todo \subseteq callStack[i].todo
      BY <1>2, <2>1 DEF Top
    <3>3. QED
      BY <1>3, <2>1, <3>1, <3>2
  <2>2. CASE i \notin 1 .. depth
    <3>1. i = depth + 1 /\ depth' = depth + 1 /\ callStack'[i] = NewFrame(e)
      BY <1>1, <1>2, <2>2
    <3>2. FrameState(i)' = e /\ ~callStack'[i].ready
      BY <3>1 DEF NewFrame, FrameState
    <3>3. QED
      BY <1>1, <1>6, <3>1, <3>2 DEF SearchInv, NumberInv, TagsOrdered
  <2>3. QED
    BY <2>1, <2>2
<1>11. DagEdges'
  <2> SUFFICES ASSUME NEW s \in State, stackMem[s]
               PROVE  /\ s \in Tagged
                      /\ \A t \in succ[s] :
                           \/ ToVisit(s, t)'
                           \/ /\ Arrived(t)'
                              /\ tag[s] # tag[t] => <<tag[s], tag[t]>> \in nexts'
    BY <1>0 DEF DagEdges
  <2>1. s \in Tagged
    BY DEF DagSearchInv, DagEdges
  <2>2. ASSUME NEW t \in succ[s]
        PROVE  \/ ToVisit(s, t)'
               \/ /\ Arrived(t)'
                  /\ tag[s] # tag[t] => <<tag[s], tag[t]>> \in nexts'
    <3>1. CASE ToVisit(s, t)
      <4>1. PICK i \in 1 .. depth : FrameState(i) = s /\ t \in callStack[i].todo
        BY <1>1, <3>1 DEF ToVisit
      <4>2. CASE i = depth /\ t = e
        BY <1>1, <1>7, <1>8, <4>1, <4>2
      <4>3. CASE ~(i = depth /\ t = e)
        <5>1. t \in callStack'[i].todo
          BY <1>2, <4>1, <4>3 DEF Top
        <5>2. QED
          BY <1>3, <1>4, <4>1, <5>1 DEF ToVisit
      <4>4. QED
        BY <4>2, <4>3
    <3>2. CASE Arrived(t) /\ (tag[s] # tag[t] => <<tag[s], tag[t]>> \in nexts)
      BY <1>7, <1>9, <3>2
    <3>3. QED
      BY <3>1, <3>2 DEF DagSearchInv, DagEdges
  <2>3. QED
    BY <2>1, <2>2
<1>12. DagSound'
  <2> SUFFICES ASSUME NEW n \in nexts'
               PROVE  \E s \in Tagged : \E t \in succ[s] :
                        tag[s] # tag[t] /\ n = <<tag[s], tag[t]>>
    BY <1>0 DEF DagSound
  <2>1. CASE n \in nexts
    BY <2>1 DEF DagSearchInv, DagSound
  <2>2. CASE n \notin nexts
    BY <1>1, <1>6, <1>7, <2>2
  <2>3. QED
    BY <2>1, <2>2
<1>13. DagOrigins' /\ Arrived(initial)'
  BY <1>0, <1>9 DEF DagSearchInv, DagOrigins
<1>14. QED
  BY <1>10, <1>11, <1>12, <1>13 DEF DagSearchInv

\* When the second search is over it has visited every numbered state and
\* looked at every edge.
LEMMA DagOver ==
  ASSUME TypeOK, SearchInv, RootIsFirst, DagSearchInv, DagFinished
  PROVE  DagIsQuotient'
<1>1. /\ callStack = <<>>
      /\ UNCHANGED <<spot, tag, succ, Tagged, origin, nexts>>
      /\ DOMAIN origin = 0 .. nb_SCCs - 1
  BY DEF DagFinished, graphVars, searchVars, sccVars, dagVars, Tagged, TypeOK
<1>2. \A s \in State : stackMem[s] =>
        \A t \in succ[s] : stackMem[t] /\ (tag[s] # tag[t] => <<tag[s], tag[t]>> \in nexts)
  BY <1>1 DEF DagSearchInv, DagEdges, ToVisit, ReadyFrames, Arrived
<1>3. \A s \in Tagged : stackMem[s]
  <2> DEFINE C == {s \in State : stackMem[s]}
  <2>1. initial \in C
    BY <1>1, InitialAssumption DEF DagSearchInv, Arrived
  <2>2. Closed(succ, C)
    BY <1>2 DEF Closed, TypeOK
  <2>3. C \in SUBSET (DOMAIN succ)
    BY DEF TypeOK
  <2>4. \A s \in Tagged : Reaches(succ, initial, s)
    BY DEF SearchInv, CoverInv
  <2> HIDE DEF C
  <2>5. \A s \in Tagged : s \in C
    BY <2>1, <2>2, <2>3, <2>4 DEF Reaches
  <2>6. QED
    BY <2>5 DEF C
<1> DEFINE quotient == {<<tag[e[1]], tag[e[2]]>> :
                          e \in {x \in Tagged \X Tagged : x[2] \in succ[x[1]]
                                                         /\ tag[x[1]] # tag[x[2]]}}
<1>4. nexts = quotient
  <2>1. ASSUME NEW n \in nexts PROVE n \in quotient
    <3>1. PICK s \in Tagged : \E t \in succ[s] : tag[s] # tag[t] /\ n = <<tag[s], tag[t]>>
      BY DEF DagSearchInv, DagSound
    <3>2. PICK t \in succ[s] : tag[s] # tag[t] /\ n = <<tag[s], tag[t]>>
      BY <3>1
    <3>3. t \in Tagged
      BY DEF SearchInv, NumberInv, TagsOrdered
    <3> DEFINE e == <<s, t>>
    <3>4. e \in Tagged \X Tagged /\ e[1] = s /\ e[2] = t
      BY <3>3
    <3> HIDE DEF e
    <3>5. QED
      BY <3>2, <3>4
  <2>2. ASSUME NEW n \in quotient PROVE n \in nexts
    <3>1. PICK e \in Tagged \X Tagged : /\ e[2] \in succ[e[1]]
                                        /\ tag[e[1]] # tag[e[2]]
                                        /\ n = <<tag[e[1]], tag[e[2]]>>
      OBVIOUS
    <3>2. e[1] \in State /\ stackMem[e[1]]
      BY <1>3, <3>1 DEF Tagged
    <3>3. QED
      BY <1>2, <3>1, <3>2
  <2>3. QED
    BY <2>1, <2>2
<1>5. ASSUME NEW i \in DOMAIN origin
      PROVE  /\ origin[i] \in Tagged
             /\ tag[origin[i]] = i
             /\ \A s \in Tagged : tag[s] = i => spot[origin[i]] <= spot[s]
  <2>1. PICK r \in Tagged : /\ tag[r] = i
                            /\ spot[r] = low[r]
                            /\ \A s \in Tagged : tag[s] = i => spot[r] <= spot[s]
    BY <1>1 DEF RootIsFirst
  <2>2. r \in State /\ stackMem[r]
    BY <1>3 DEF Tagged
  <2>3. origin[i] = r
    BY <2>1, <2>2 DEF DagSearchInv, DagOrigins
  <2>4. QED
    BY <2>1, <2>3
<1>6. QED
  BY <1>1, <1>4, <1>5 DEF DagIsQuotient

-----------------------------------------------------------------------------
(* The invariant holds *)

\* Only the first search writes spot, low and numbers: the second finds the
\* roots as they were left.
LEMMA RootsKept ==
  ASSUME TypeOK, SearchInv, DagInv, [Next]_vars
  PROVE  RootIsFirst' /\ (pc' = "tag" => NoLateRoot')
<1>1. CASE TagStep
  <2>1. pc = "tag" /\ TypeOK /\ StackInv /\ CallStackInv /\ NumberInv /\ NoLateRoot /\ RootIsFirst
    BY <1>1 DEF TagStep, TagEnter, TagDescend, TagSeen, TagReturn, TagRoot, InLoop, SearchInv, DagInv
  <2>2. QED
    BY <1>1, <2>1, NoLateRootStep, RootIsFirstStep
<1>2. CASE ~TagStep
  <2>1. UNCHANGED <<spot, low, tag, nb_SCCs>>
    BY <1>2 DEF Next, vars, TagStep, TagFinished, DagEnter, DagEdge, DagReturn, DagFinished,
                MarkFinal, Terminated, graphVars, searchVars, sccVars
  <2>2. pc' = "tag" => pc = "tag" /\ UNCHANGED <<stackMem, callStack>>
    BY <1>2 DEF Next, vars, TagStep, TagFinished, DagEnter, DagEdge, DagReturn, DagFinished,
                MarkFinal, Terminated, InLoop, searchVars
  <2>3. RootIsFirst'
    BY <2>1 DEF DagInv, RootIsFirst, Tagged
  <2>4. pc' = "tag" => NoLateRoot'
    BY <2>1, <2>2 DEF DagInv, NoLateRoot, ReadyFrames, FrameState
  <2>5. QED
    BY <2>3, <2>4
<1>3. QED
  BY <1>1, <1>2

\* Every step keeps the invariant.
LEMMA DagInvStep ==
  ASSUME TypeOK, SearchInv, DagInv, [Next]_vars
  PROVE  DagInv'
<1> USE DEF DagInv
<1>1. RootIsFirst' /\ (pc' = "tag" => NoLateRoot')
  BY RootsKept
<1>2. CASE TagStep
  BY <1>1, <1>2 DEF TagStep, TagEnter, TagDescend, TagSeen, TagReturn, TagRoot, InLoop,
                    DagIsQuotient, FinalsExact
<1>3. CASE TagFinished
  <2>1. pc' = "dag" /\ NoFinals'
    BY <1>3 DEF TagFinished, NoFinals
  <2>2. QED
    BY <1>1, <1>3, <2>1, DagStarts DEF DagIsQuotient, FinalsExact
<1>4. CASE DagEnter
  <2>1. /\ pc = "dag" /\ pc' = "dag" /\ callStack # <<>> /\ ~Top.ready
        /\ final_SCCs' = final_SCCs
    BY <1>4 DEF DagEnter, InLoop
  <2>2. DagSearchInv'
    <3>1. CASE stackMem[Top.state]
      BY <1>4, <2>1, <3>1, DagDropped DEF DagEnter
    <3>2. CASE ~stackMem[Top.state]
      BY <1>4, <2>1, <3>2, DagVisits
    <3>3. QED
      BY <3>1, <3>2
  <2>3. QED
    BY <1>1, <2>1, <2>2 DEF NoFinals, DagIsQuotient, FinalsExact
<1>5. ASSUME NEW e \in State, DagEdge(e)
      PROVE  DagInv'
  <2>1. pc = "dag" /\ pc' = "dag" /\ final_SCCs' = final_SCCs
    BY <1>5 DEF DagEdge, InLoop
  <2>2. DagSearchInv'
    BY <1>5, <2>1, DagLooks
  <2>3. QED
    BY <1>1, <2>1, <2>2 DEF NoFinals, DagIsQuotient, FinalsExact
<1>6. CASE DagReturn
  <2>1. /\ pc = "dag" /\ pc' = "dag" /\ callStack # <<>> /\ Top.ready /\ Top.todo = {}
        /\ UNCHANGED <<graphVars, spot, low, stackMem, sccVars, origin, nexts, final_SCCs>>
        /\ callStack' = SubSeq(callStack, 1, depth - 1)
    BY <1>6 DEF DagReturn, InLoop, dagVars
  <2>2. stackMem[Top.state]
    <3>1. depth \in DOMAIN callStack
      BY <2>1, TopFacts
    <3>2. QED
      BY <2>1, <3>1 DEF DagSearchInv, DagFrames, Top, FrameState
  <2>3. DagSearchInv'
    BY <2>1, <2>2, DagDropped
  <2>4. QED
    BY <1>1, <2>1, <2>3 DEF NoFinals, DagIsQuotient, FinalsExact
<1>7. CASE DagFinished
  <2>1. pc = "dag" /\ pc' = "final" /\ final_SCCs' = final_SCCs
    BY <1>7 DEF DagFinished, dagVars
  <2>2. DagIsQuotient'
    BY <1>7, <2>1, DagOver
  <2>3. QED
    BY <1>1, <2>1, <2>2 DEF NoFinals, FinalsExact
<1>8. CASE MarkFinal
  <2>1. /\ pc = "final" /\ pc' = "done"
        /\ UNCHANGED <<spot, tag, succ, final, Tagged, origin, nexts>>
        /\ final_SCCs' = [i \in DOMAIN final_SCCs |-> final_SCCs[i] \/ \E s \in final : tag[s] = i]
    BY <1>8 DEF MarkFinal, FinalsMarked, graphVars, searchVars, sccVars, Tagged
  <2>2. DagIsQuotient'
    BY <2>1 DEF DagIsQuotient
  <2>3. FinalsExact'
    <3> SUFFICES ASSUME NEW i \in DOMAIN final_SCCs
                 PROVE  (\E s \in final : tag[s] = i)
                          <=> \E s \in final : Reaches(succ, initial, s) /\ tag[s] = i
      BY <2>1 DEF FinalsExact, NoFinals
    <3>1. i # -1 /\ final \subseteq State
      BY <2>1 DEF TypeOK
    <3>2. \A s \in final : tag[s] = i => Reaches(succ, initial, s)
      BY <3>1 DEF SearchInv, CoverInv, Tagged
    <3>3. QED
      BY <3>2
  <2>4. QED
    BY <1>1, <2>1, <2>2, <2>3
<1>9. CASE UNCHANGED vars
  <2>1. UNCHANGED <<pc, succ, final, callStack, spot, low, stackMem, tag, nb_SCCs,
                    origin, nexts, final_SCCs>>
    BY <1>9 DEF vars, graphVars, searchVars, sccVars, dagVars
  <2>2. pc' = "dag" => DagSearchInv'
    <3> SUFFICES ASSUME DagSearchInv PROVE DagSearchInv'
      BY <2>1
    <3>1. DagFrames'
      BY <2>1 DEF DagSearchInv, DagFrames, FrameState, Tagged, depth
    <3>2. DagEdges'
      BY <2>1 DEF DagSearchInv, DagEdges, Arrived, ToVisit, ReadyFrames, FrameState, Tagged, depth, Top
    <3>3. DagSound' /\ DagOrigins'
      BY <2>1 DEF DagSearchInv, DagSound, DagOrigins, Tagged
    <3>4. Arrived(initial)'
      BY <2>1 DEF DagSearchInv, Arrived, depth, Top
    <3>5. QED
      BY <3>1, <3>2, <3>3, <3>4 DEF DagSearchInv
  <2>3. pc' \in {"dag", "final"} => NoFinals'
    BY <2>1 DEF NoFinals
  <2>4. DagIsQuotient' /\ FinalsExact'
    BY <2>1 DEF DagIsQuotient, FinalsExact, Tagged
  <2>5. QED
    BY <1>1, <2>2, <2>3, <2>4
<1>10. QED
  BY <1>2, <1>3, <1>4, <1>5, <1>6, <1>7, <1>8, <1>9 DEF Next, TagStep, Terminated

\* The invariant of both searches holds in every state.
LEMMA DagInvHolds == Spec => []DagInv
<1>1. Init => DagInv
  BY DEF Init, InitSearch, DagInv, NoLateRoot, RootIsFirst, DagIsQuotient, FinalsExact
<1>2. TypeOK /\ SearchInv /\ DagInv /\ [Next]_vars => DagInv'
  BY DagInvStep
<1>3. QED
  BY <1>1, <1>2, InvariantHolds, PTL DEF Spec

\* The DAG that compute_SCC leaves is the whole quotient graph, and each
\* component has the origin from which its members were discovered.
THEOREM DagCorrect == Spec => []DagIsQuotient
BY DagInvHolds, PTL DEF DagInv

\* A component is accepting exactly when a reachable final state lies in it.
THEOREM FinalsCorrect == Spec => []FinalsExact
BY DagInvHolds, PTL DEF DagInv
=============================================================================
