--------------------------- MODULE FlattenRegular ---------------------------
(***************************************************************************)
(* NestedAutomaton::flatten_regular: the flattening of a nested automaton  *)
(* whose children take the maximum, the minimum or a bounded sum of their  *)
(* weights.                                                                *)
(*                                                                         *)
(* A call is an edge whose weight guesses the value the child will return. *)
(* The guess becomes an obligation: the child, the guess and the set of    *)
(* configurations (state, accumulated value) its runs may be in.  The      *)
(* obligation is discharged when a run reaches a final state with the      *)
(* guessed value, and the letter is refused when no run can any more.  New *)
(* obligations go to the bag P1; when P2 is empty, P1 takes its place, so  *)
(* that P2 is empty infinitely often only if every obligation is           *)
(* discharged.                                                             *)
(*                                                                         *)
(* The model computes the tables of the flattening (return values, live    *)
(* configurations) and then runs the automaton it builds: a state of the   *)
(* model is a state of that automaton, a step one of its edges, and a      *)
(* behaviour one of its runs.  The code builds these states and edges with *)
(* a worklist, whose order has no influence on them.                       *)
(*                                                                         *)
(* tracked follows one call by the definition of the runs of its child,    *)
(* which knows nothing of guesses, live configurations or bags.            *)
(***************************************************************************)
EXTENDS NestedAutomata

CONSTANTS FinVals,     \* the value functions of the children: Max, Min, SumB
          Bounds,      \* the bounds of SumB
          Infinity,    \* above all weights, -Infinity below
          Lengths      \* how far the reference definitions look: Nat, or a bound for TLC

ASSUME FlattenAssumption ==
  /\ FinVals \subseteq {"Max", "Min", "SumB"}
  /\ Bounds \subseteq Nat
  /\ Infinity \in Nat
  /\ \A w \in Weights : -Infinity < w /\ w < Infinity
  /\ Lengths \subseteq Nat

VARIABLES
  finVal, bound,
  stage,      \* "returns", "live": computing the tables; "flatten"
  reached,    \* the product of the parent and the called children
  returns,    \* child_return_values
  live,       \* TargetAwareLive::live_tab
  parent, lastGuess, P1, P2, phase, epochSeen, P1Seen,   \* BuchiState_obl
  tracked,    \* one call, by the definition of its child's runs
  beat        \* flips at each letter

input == <<nested, finVal, bound>>
tables == <<reached, returns, live>>
buchi == <<parent, lastGuess, P1, P2, phase, epochSeen, P1Seen>>
vars == <<input, stage, tables, buchi, tracked, beat>>

Larger(x, y) == IF x >= y THEN x ELSE y
Smaller(x, y) == IF x <= y THEN x ELSE y

\* acc0_for_finVal
Acc0 == CASE finVal = "Max" -> -Infinity
          [] finVal = "Min" -> Infinity
          [] finVal = "SumB" -> 0

-----------------------------------------------------------------------------
(* Return values: all values a child returns while the parent can still be *)
(* accepting                                                               *)

\* applyBound
ApplyBound(v) == Smaller(Larger(v, -bound), bound)

\* Fault: a sum that comes back from a bound forgets it.
ForgetfulStep(v, w) ==
  CASE finVal = "Max" -> [v EXCEPT !.value = Larger(@, w)]
    [] finVal = "Min" -> [v EXCEPT !.value = Smaller(@, w)]
    [] finVal = "SumB" -> [v EXCEPT !.value = ApplyBound(@ + w)]

\* A step of a value and the bound it first crossed (0: none).
ReturnStep(v, w) ==
  LET raw == v.value + w
  IN  CASE finVal = "Max" -> [v EXCEPT !.value = Larger(@, w)]
        [] finVal = "Min" -> [v EXCEPT !.value = Smaller(@, w)]
        [] finVal = "SumB" /\ v.hit # 0 -> [v EXCEPT !.value = ApplyBound(raw)]
        [] finVal = "SumB" /\ v.hit = 0 /\ raw > bound -> [value |-> bound, hit |-> bound]
        [] finVal = "SumB" /\ v.hit = 0 /\ raw < -bound -> [value |-> -bound, hit |-> -bound]
        [] OTHER -> [v EXCEPT !.value = raw]

ReturnValue(v) == IF v.hit # 0 THEN v.hit ELSE v.value

\* Where a call of child i takes the parent and the child, reading its letter.
Seeds ==
  {[child |-> x[1].call, parent |-> x[1].to, state |-> x[2].to,
    v |-> ReturnStep([value |-> Acc0, hit |-> 0], x[2].weight)] :
     x \in UNION {{e} \X ChildEdges(e.call, InitialChild, e.symbol) :
                    e \in {d \in nested.edges : d.call \in Child /\ d.to \in Good}}}

\* Where one more letter takes the parent and the child.
Onwards(r) ==
  {[child |-> r.child, parent |-> x[1].to, state |-> x[2].to, v |-> ReturnStep(r.v, x[2].weight)] :
     x \in UNION {{e \in ParentEdges(r.parent, a) : e.to \in Good}
                    \X ChildEdges(r.child, r.state, a) : a \in Symbol}}

\* computeMinMaxReturnValuesParentAware, computeSumBReturnValuesParentAware
GrowReturns ==
  /\ stage = "returns"
  /\ LET grown == reached \cup Seeds \cup UNION {Onwards(r) : r \in reached}
     IN  /\ reached' = grown
         /\ stage' = IF grown = reached THEN "live" ELSE "returns"
         /\ returns' = [i \in Child |->
              {ReturnValue(r.v) : r \in {x \in grown : x.child = i /\ x.state \in ChildFinal(i)}}]
  /\ UNCHANGED <<input, live, buchi, tracked, beat>>

-----------------------------------------------------------------------------
(* Configurations                                                          *)

\* Fault: a sum beyond its bound stays at the bound and may come back.
AccumulateClamped(acc, w) ==
  CASE finVal = "Max" -> Larger(acc, w)
    [] finVal = "Min" -> Smaller(acc, w)
    [] finVal = "SumB" -> ApplyBound(acc + w)

\* transitionFunction
Accumulate(acc, w) ==
  CASE finVal = "Max" -> Larger(acc, w)
    [] finVal = "Min" -> Smaller(acc, w)
    [] finVal = "SumB" /\ acc \in {bound + 1, -bound - 1} -> acc
    [] OTHER -> Smaller(Larger(acc + w, -bound - 1), bound + 1)

\* discharge_ok_finite
DischargeOK(acc, guess) ==
  \/ acc = guess
  \/ finVal = "SumB" /\ guess = bound /\ acc = bound + 1
  \/ finVal = "SumB" /\ guess = -bound /\ acc = -bound - 1

\* The accumulated values a configuration can have.
Acc == IF finVal = "SumB" THEN -bound - 1 .. bound + 1 ELSE Weights \cup {Acc0}

\* The edges that end a run of child i with the guessed value.
Ending(i, guess, s, acc, E) ==
  {e \in E : e.from = s /\ e.to \in ChildFinal(i) /\ DischargeOK(Accumulate(acc, e.weight), guess)}

Target == [child : Child, guess : UNION {returns[i] : i \in Child},
           state : ChildState, acc : Acc]

\* Fault: a configuration is live when its state can reach a final state.
LiveSeedAnyValue(t) ==
  /\ t.guess \in returns[t.child]
  /\ \E e \in nested.child[t.child].edges : e.from = t.state /\ e.to \in ChildFinal(t.child)

\* Configurations one edge away from the guessed value.
LiveSeed(t) ==
  /\ t.guess \in returns[t.child]
  /\ Ending(t.child, t.guess, t.state, t.acc, nested.child[t.child].edges) # {}

IsLive(i, guess, c) == [child |-> i, guess |-> guess, state |-> c[1], acc |-> c[2]] \in live

\* Configurations one edge away from a live one.
LiveBefore(t) ==
  \E e \in nested.child[t.child].edges :
     e.from = t.state /\ IsLive(t.child, t.guess, <<e.to, Accumulate(t.acc, e.weight)>>)

\* TargetAwareLive::build: reverse search from the seeds.
GrowLive ==
  /\ stage = "live"
  /\ LET grown == {t \in Target : LiveSeed(t) \/ LiveBefore(t)}
     IN  /\ live' = live \cup grown
         /\ stage' = IF grown \subseteq live THEN "flatten" ELSE "live"
  /\ UNCHANGED <<input, reached, returns, buchi, tracked, beat>>

-----------------------------------------------------------------------------
(* Obligations                                                             *)

\* The obligation x after letter a: its configurations move.
StepConf(i, guess, conf, a) ==
  {c \in UNION {{<<e.to, Accumulate(c[2], e.weight)>> : e \in ChildEdges(i, c[1], a)} :
                  c \in {d \in conf : IsLive(i, guess, d)}} : IsLive(i, guess, c)}

\* Some configuration moves to a final state with the guessed value.
Discharged(x, a) ==
  \E c \in x.conf : /\ IsLive(x.child, x.guess, c)
                    /\ Ending(x.child, x.guess, c[1], c[2], ChildEdges(x.child, c[1], a)) # {}

Stepped(x, a) == [x EXCEPT !.conf = StepConf(x.child, x.guess, x.conf, a)]

\* No configuration can continue to a valid return.
Refused(x, a) == ~Discharged(x, a) /\ Stepped(x, a).conf = {}

\* step_obl_bag_finite
StepFails(bag, a) == \E x \in bag : Refused(x, a)
StepBag(bag, a) == {Stepped(x, a) : x \in {y \in bag : ~Discharged(y, a)}}

\* spawn_obligation_finite
SpawnEmpty(i, guess, a) ==
  Ending(i, guess, InitialChild, Acc0, ChildEdges(i, InitialChild, a)) # {}

SpawnConf(i, guess, a) ==
  {c \in {<<e.to, Accumulate(Acc0, e.weight)>> : e \in ChildEdges(i, InitialChild, a)} :
     IsLive(i, guess, c)}

SpawnRejected(i, guess, a) == ~SpawnEmpty(i, guess, a) /\ SpawnConf(i, guess, a) = {}

Spawned(i, guess, a) ==
  IF SpawnEmpty(i, guess, a) THEN {}
  ELSE {[child |-> i, guess |-> guess, conf |-> SpawnConf(i, guess, a)]}

-----------------------------------------------------------------------------
(* The runs of a child, by definition                                      *)

\* A run is where it is, its value so far, and the first bound it crossed: 1,
\* -1, or 0 for none.
RunStep(r, e) ==
  LET sum == r.value + e.weight
  IN  CASE finVal = "Max" -> [r EXCEPT !.state = e.to, !.value = Larger(@, e.weight)]
        [] finVal = "Min" -> [r EXCEPT !.state = e.to, !.value = Smaller(@, e.weight)]
        [] finVal = "SumB" /\ r.crossed # 0 -> [r EXCEPT !.state = e.to]
        [] finVal = "SumB" /\ r.crossed = 0 /\ sum > bound ->
             [state |-> e.to, value |-> 0, crossed |-> 1]
        [] finVal = "SumB" /\ r.crossed = 0 /\ sum < -bound ->
             [state |-> e.to, value |-> 0, crossed |-> -1]
        [] OTHER -> [r EXCEPT !.state = e.to, !.value = sum]

Result(r) == IF r.crossed # 0 THEN r.crossed * bound ELSE r.value

Start == [state |-> InitialChild, value |-> Acc0, crossed |-> 0]

RunsAfter(i, R, a) == UNION {{RunStep(r, e) : e \in ChildEdges(i, r.state, a)} : r \in R}

\* Some of the runs R of child i returns v.
Returning(i, R, v) == \E r \in R : r.state \in ChildFinal(i) /\ Result(r) = v

Untracked == [status |-> "none", child |-> NoChild, guess |-> 0, runs |-> {}]

\* The call of child i that reads a first, or the tracked one, goes on with
\* the runs R, unless one of them returns what was guessed.
Track(i, guess, R) ==
  [status |-> IF Returning(i, R, guess) THEN "returned" ELSE "pending",
   child |-> i, guess |-> guess, runs |-> R]

TrackedAfter(a) ==
  IF tracked.status = "pending"
    THEN Track(tracked.child, tracked.guess, RunsAfter(tracked.child, tracked.runs, a))
    ELSE tracked

-----------------------------------------------------------------------------
(* The flattened automaton                                                 *)

Checkpoint == phase = "empty" /\ P2 = {}
Accepting == stage = "flatten" /\ phase = "empty" /\ P2 = {} /\ epochSeen

\* Fault: calls count for ever.
EpochBaseNeverReset == epochSeen

\* Whether children were called since the last checkpoint: the obligations
\* that take the place of P2 there count for the new epoch.
EpochBase == IF Checkpoint THEN P1Seen ELSE epochSeen

\* Fault: a call at a boundary overwrites the obligations of P1.
ReadBagsOverwriting(a, spawned) ==
  /\ ~StepFails(P1, a)
  /\ ~StepFails(P2, a)
  /\ P1' = IF P2 = {} THEN spawned ELSE StepBag(P1, a) \cup spawned
  /\ P2' = IF P2 = {} /\ spawned = {} THEN StepBag(P1, a) ELSE StepBag(P2, a)

\* Fault: P1 never takes the place of P2.
ReadBagsApart(a, spawned) ==
  /\ ~StepFails(P1, a)
  /\ ~StepFails(P2, a)
  /\ P1' = StepBag(P1, a) \cup spawned
  /\ P2' = StepBag(P2, a)

\* Both bags read a, P1 taking the place of an empty P2.
ReadBags(a, spawned) ==
  /\ ~StepFails(P1, a)
  /\ ~StepFails(P2, a)
  /\ P1' = IF P2 = {} THEN spawned ELSE StepBag(P1, a) \cup spawned
  /\ P2' = IF P2 = {} THEN StepBag(P1, a) ELSE StepBag(P2, a)

\* A parent edge that calls no child.
SilentEdge(a, e) ==
  /\ stage = "flatten"
  /\ e.call = NoChild
  /\ ReadBags(a, {})
  /\ P1Seen' = (P2 # {} /\ P1Seen)
  /\ epochSeen' = EpochBase
  /\ lastGuess' = SilentWeight
  /\ parent' = e.to
  /\ phase' = AdvancePhase(phase, parent \in nested.final, P2 = {})
  /\ tracked' = TrackedAfter(a)
  /\ beat' = ~beat
  /\ UNCHANGED <<input, stage, tables>>

\* A parent edge that calls child e.call, guessing what it returns.
CallEdge(a, e, guess) ==
  /\ stage = "flatten"
  /\ e.call \in Child
  /\ ~SpawnRejected(e.call, guess, a)
  /\ ReadBags(a, Spawned(e.call, guess, a))
  /\ P1Seen' = TRUE
  /\ epochSeen' = TRUE
  /\ lastGuess' = guess
  /\ parent' = e.to
  /\ phase' = AdvancePhase(phase, parent \in nested.final, P2 = {})
  /\ \/ tracked' = TrackedAfter(a)
     \/ /\ tracked.status = "none"
        /\ tracked' = Track(e.call, guess, RunsAfter(e.call, {Start}, a))
  /\ beat' = ~beat
  /\ UNCHANGED <<input, stage, tables>>

-----------------------------------------------------------------------------
Init ==
  /\ nested \in Nested
  /\ finVal \in FinVals
  /\ bound \in IF finVal = "SumB" THEN Bounds ELSE {0}
  /\ stage = "returns"
  /\ reached = {}
  /\ returns = [i \in Child |-> {}]
  /\ live = {}
  /\ parent = InitialParent
  /\ lastGuess = 0
  /\ P1 = {}
  /\ P2 = {}
  /\ phase = "parent"
  /\ epochSeen = FALSE
  /\ P1Seen = FALSE
  /\ tracked = Untracked
  /\ beat = FALSE

Call == \E a \in Symbol : \E e \in ParentEdges(parent, a) :
          \E guess \in IF e.call \in Child THEN returns[e.call] ELSE {} : CallEdge(a, e, guess)

SilentStep == \E a \in Symbol : \E e \in ParentEdges(parent, a) : SilentEdge(a, e)

Letter == Call \/ SilentStep

Next == GrowReturns \/ GrowLive \/ Letter

\* The tables are computed to their end; letters are read as the word has them.
Spec == Init /\ [][Next]_vars /\ WF_vars(GrowReturns) /\ WF_vars(GrowLive)

-----------------------------------------------------------------------------
(* Properties *)

Config == ChildState \X Acc
Obligation == [child : Child, guess : Int, conf : SUBSET Config]
Run == [state : ChildState, value : Int, crossed : {-1, 0, 1}]
Tracked == [status : {"none", "pending", "returned"}, child : Child \cup {NoChild},
            guess : Int, runs : SUBSET Run]

FlattenTypeOK ==
  /\ nested \in Nested /\ finVal \in FinVals /\ bound \in Nat
  /\ stage \in {"returns", "live", "flatten"}
  /\ reached \subseteq [child : Child, parent : ParentState, state : ChildState,
                        v : [value : Int, hit : Int]]
  /\ returns \in [Child -> SUBSET Int]
  /\ live \subseteq [child : Child, guess : Int, state : ChildState, acc : Acc]
  /\ parent \in ParentState /\ lastGuess \in Int
  /\ P1 \subseteq Obligation /\ P2 \subseteq Obligation
  /\ phase \in Phase /\ epochSeen \in BOOLEAN /\ P1Seen \in BOOLEAN
  /\ tracked \in Tracked
  /\ beat \in BOOLEAN

\* How the flattening writes where a run is.
Encoded(r) == <<r.state, IF r.crossed # 0 THEN r.crossed * (bound + 1) ELSE r.value>>

\* A call that has not returned is in one of the bags, whatever was called,
\* merged, moved or discharged since: with its guess and with just those of
\* its child's runs that can still return it.
PendingCallKept ==
  tracked.status = "pending" =>
    \E x \in P1 \cup P2 :
      /\ x.child = tracked.child
      /\ x.guess = tracked.guess
      /\ x.conf = {c \in {Encoded(r) : r \in tracked.runs} : IsLive(x.child, x.guess, c)}

\* The runs that follow the runs R of child i within n letters, of any word.
RunsWithin(i, R) ==
  LET within[n \in Nat] ==
        IF n = 0 THEN R
        ELSE LET before == within[n - 1]
             IN  before \cup UNION {RunsAfter(i, before, a) : a \in Symbol}
  IN  within

Later(i, R) == UNION {RunsWithin(i, R)[n] : n \in Lengths}

\* A letter is refused on account of a pending call exactly when, having read
\* it, the child can no longer return what was guessed: no call is given up
\* while some word lets it return, and none is kept that cannot.
RefusedExactly ==
  tracked.status = "pending" =>
    \A a \in Symbol :
      LET R == RunsAfter(tracked.child, tracked.runs, a)
      IN  (\E x \in P1 \cup P2 : /\ x.child = tracked.child
                                 /\ x.guess = tracked.guess
                                 /\ x.conf = {c \in {Encoded(r) : r \in tracked.runs} :
                                                IsLive(x.child, x.guess, c)}
                                 /\ Refused(x, a))
          <=> ~Returning(tracked.child, Later(tracked.child, R), tracked.guess)

\* Parents and runs of child i, a letter later, where the parent can still be
\* accepting.
BothAfter(i, S) ==
  UNION {{<<d.to, RunStep(x[2], c)>> : d \in {y \in ParentEdges(x[1], a) : y.to \in Good},
                                       c \in ChildEdges(i, x[2].state, a)} :
           x \in S, a \in Symbol}

\* Those of the child called by edge e, within n letters of any word.
CallsWithin(e) ==
  LET within[n \in Nat] ==
        IF n = 0 THEN {<<e.to, RunStep(Start, c)>> : c \in ChildEdges(e.call, InitialChild, e.symbol)}
        ELSE LET before == within[n - 1] IN before \cup BothAfter(e.call, before)
  IN  within

LaterCalls(e) == IF e.to \in Good THEN UNION {CallsWithin(e)[n] : n \in Lengths} ELSE {}

\* The values that can be guessed for a child are those that its runs return
\* along words on which the parent can still be accepting.
ReturnsExact ==
  stage = "live" =>
    \A i \in Child :
      returns[i] = {Result(x[2]) :
                      x \in {y \in UNION {LaterCalls(e) : e \in {d \in nested.edges : d.call = i}} :
                               y[2].state \in ChildFinal(i)}}

\* A letter is read; it is read on an edge that is not silent.
Reads == beat' # beat
ReadsCall == beat' # beat /\ lastGuess' # SilentWeight

\* On an accepting run of the flattened automaton every call returns what was
\* guessed for it.
CallsReturn ==
  []<><<Reads /\ Accepting>>_vars => (tracked.status = "pending" ~> tracked.status = "returned")

\* An accepting run of the flattened automaton is one on which the parent is
\* accepting and calls children infinitely often.
AcceptedRunsCall ==
  []<><<Reads /\ Accepting>>_vars => []<>(parent \in nested.final) /\ []<><<ReadsCall>>_vars

\* A run on which the parent is accepting, calls children infinitely often and
\* the bag of the older calls empties infinitely often is accepted.
FairRunsAccepted ==
  []<>(parent \in nested.final) /\ []<><<ReadsCall>>_vars /\ []<>(P2 = {}) => []<>Accepting
=============================================================================
