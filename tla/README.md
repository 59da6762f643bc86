# QuAK in TLA+

QuAK is a sequential C++ library and command-line tool that decides questions
about quantitative automata (finite automata whose edges carry weights, read
over infinite words) and nested ones (whose edges call child automata over
finite words). There are no threads, no messages and no persistence: what is
hard here is algorithms that keep several tables in step while they walk a
graph, intermediate results read by another algorithm under an assumption that
nobody checks, and objects changed in place and put back.

Paths below are relative to the repository; `A:` is `src/Automaton.cpp`,
`N:` is `src/NestedAutomaton.cpp`.

## Inventory

| Component | State it keeps | Operations | Hard part | What makes it correct |
|---|---|---|---|---|
| SCC numbering and DAG (A:503-749) | tag of each state, number of components, their origins, DAG, which accept | `compute_SCC`, called by every constructor | two searches share their tables; explicit stack in place of recursion; order of edges | numbers = components, components numbered after those they lead to, all reachable states numbered |
| Top and bottom values (A:2320-3015, 3367-3471) | value per state / per component, edges given up, counters | `getTopValue`, `getBottomValue`, `isConstant`, `isNonEmpty` | edges taken in order of weight ids; recursion over predecessors; weights negated in place | result = supremum or infimum over runs; the automaton is left as it was |
| Removal of silent edges (A:911-1440) | a copy of the automaton | `removeSilentTransitions` | states copied with what they had computed; four variants | values of accepting runs kept, the copy numbered afresh |
| Construction (A:60-500, 799-912) | states, edges, weights, domain | `build`, trimming, completion, `product`, `booleanize` | recursive rebuild when a state is unreachable; weights sorted by value = by id | complete, trimmed, same values |
| Exploration (A:1444-2057) | pairs of state and best weight so far | `toLimSup`, `safetyClosure`, `livenessComponent*`, `determinizeInf` | the initial weight; order of ids taken for order of values | each value function reduced to LimSup |
| Acceptance (A:3851-4283) | values per accepting component | `top_*_with_final`, `isNonEmpty_withFinal` | maximum cycle mean per component, reachability of final states | as for top values, over accepting runs |
| Mean cycles (A:2099-2184, 2725-2803) | distance table per length | Karp's algorithm, `isLimAvgConstant` | lengths, unreachable entries | maximum cycle mean |
| Witnesses (A:2883-3364) | paths and cycles | `constructWitness` | follows the tables of the value algorithms | a word of the value reported |
| FORKLIFT inclusion (`src/FORKLIFT/`) | antichains of (state, set) and (state, context), pending updates | `inclusion`, `membership` | fixpoints that prune while they iterate; global marks of a nested search | answer = language inclusion; terminates |
| Nested flattening (N:287-1954, 3382-7224) | macro states: obligations of running children, phase | `flatten_regular`, threshold flattenings | children spawn, run in step and return in any order; saturation of sums | values of the flat automaton = values of the nested one |
| SumMinus averages (N:143-318, 2046-3378; `src/Symbol.cpp`) | letters that choose edges, states of the synchronized child, multisets of calls | `splitContinuableChildFinals`, `makeCompleteNested`, `determinizeWithMacroAlphabet`, `synchronizeChildren`, `flatten_Avg_SumMinus` | what is read between two calls is emitted late, maybe after its call returned; calls that meet are counted together | each call emits what was read since the last, nothing of what children return is lost |
| Decision pipeline (N:7226-7528) | chain of automata | `isNonEmpty`, `isUniversal` | which backend for which pair of functions | threshold questions answered |
| Parser (`src/Parser.cpp`) | section, alphabet, weights, edges | `@PARENT`, `@CHILD`, `final:` | sections change what a line means; child inherits the alphabet | only well-formed nested automata pass |
| Monitor (`src/Monitor.cpp`) | state, aggregate, length | `next`, `getValue` | running aggregates | value of the prefix |
| Containers, ids, weights | global id counters | `RESET` | every constructor resets global counters | ids dense and ordered |
| CLI, random automata, experiments | none | | I/O | |

Interaction: every automaton is built by a constructor that calls
`compute_SCC`; every value algorithm reads the numbers, the origins and the DAG
it leaves. `compute_Bottom` calls `compute_Top` on weights negated in place.
The nested pipeline flattens to a plain automaton, removes its silent edges
(the copy calls `compute_SCC` again, on copied states) and asks for a top value
under acceptance. Inclusion is called by universality of non-deterministic
automata.

`PROJECT.json` lists the hazards of the code line by line with the properties
that watch them.

## Modules

| Module | Models | Notes |
|---|---|---|
| `SCCGraph` | reachability | by closed sets, so that proofs need no induction on paths |
| `SCCOrder` | what readers of `getTag()` rely on | abstract: number one component at a time, after all it leads to |
| `ComputeSCC` | `compute_SCC`, `compute_SCC_tag`, `compute_SCC_dag` | one action per phase of the loops |
| `ComputeSCC_proofs` | theorems about both searches: numbers and components; the DAG, the origins and the accepting components | |
| `WeightedGraph` | what the value algorithms share | component of a state by mutual reachability, as `ComputeSCC` establishes |
| `TopSafety` | `top_safety_scc`, `top_safety_scc_recursive` | Inf and LimInf |
| `TopReach` | `top_reachably`, `top_reachably_scc`, `top_dag` | Sup and LimSup |
| `LimitAverage` | `top_LimAvg`, the relaxation of `isLimAvgConstant` | averages |
| `TopValue` | `compute_Top`, `compute_Bottom`, `invert_weights`, `isConstant`, `isLimAvgConstant` | composes the three |
| `TopValue_proofs` | theorems about `TopValue`, after lemmas about `TopSafety`, `TopReach` and `LimitAverage`: an invariant for each search and what it finds, and that the rows hold the best mean of a cycle | |
| `RemoveSilent` | `removeSilentTransitions` and the `compute_SCC` of the copy | an INSTANCE of `ComputeSCC` started on stale numbers |
| `NonEmptiness` | `isNonEmpty_withFinal`: `top_*_with_final`, `toLimSup`, `max_mean_cycle_on_scc` | composes `RemoveSilent` with the question the pipeline asks of its result |
| `NestedAutomata` | parents, children, the phases of a flattened automaton | what the flattenings share; component of a parent state by mutual reachability |
| `FlattenRegular` | `flatten_regular` with return values, live configurations, bags of obligations | runs the automaton the code builds |
| `FlattenRegular_proofs` | theorems about `FlattenRegular` | |
| `FlattenThreshold` | the four flattenings for one threshold, with cut-offs and dominance | the same for `thrext_*` |
| `FlattenThreshold_proofs` | theorems about `FlattenThreshold` | |
| `PreSync` | splitting final states, completion, letters that choose | what happens before the children are synchronized |
| `FlattenSumMinus` | `synchronizeChildren`, `flatten_Avg_SumMinus` | extends `PreSync`; runs the automaton the code builds |
| `FlattenSumMinus_proofs` | theorems about `FlattenSumMinus` | |
| `TwoAutomata` | the arguments of FORKLIFT's fixpoints | constants and the two sets of edges |
| `FixpointStem` | `FixpointStem`, `PostTargetVariable`, `TargetOf` | one action per pair of an entry and an edge |
| `FixpointLoop` | `FixpointLoop`, `PostContextVariable`, `ContextOf`, `StateRelation` | the same for contexts and weights |
| `Lasso` | what acceptance of `u v v v ...` with a value means | reference definition |
| `Membership` | `fast_membership`, `membership_query_dfs1`, `_dfs2`, `_final_cycle` | the calls of the recursion are sequences |
| `Membership_proofs` | theorems about `Membership` | |
| `Inclusion` | `inclusion`, `relevance_test` | composes the fixpoints |
| `Inclusion_proofs` | theorems about `FixpointStem`, `FixpointLoop` and `Inclusion` | |
| `DataInduction` | lemmas: induction on numbers, words and finite sets, recursive functions, sums over finite sets, reachability, the profiles of `Lasso` and their acceptance | what the proofs need of data |
| `SmallAutomata`, `MC...` | constants for TLC | |

### How state and actions correspond to the code

**ComputeSCC.** `callStack` is the vector of frames: `ready` is
`Frame::initialized`, `todo` the edges from `succIndex` on. Successors are
collected symbol by symbol and, for a symbol, in the order of a set of
pointers, that is, of addresses: the model takes any successor next, which
covers every order. Parallel edges to the same successor are visited once
(the second visit finds the child discovered and repeats a `min`). `spot`,
`low`, `stackMem`, `tag`, `nb_SCCs` are the arrays and fields of that name;
`low` is not initialised by the code and starts at -1 here, and nothing reads
it before `TagEnter` writes it. `TagEnter` / `TagDescend` / `TagSeen` /
`TagReturn` / `TagRoot` are phases 1, 2 and 3 of one round of the loop,
`TagFinished` what `compute_SCC` does between the two searches, `Dag*` the
phases of `compute_SCC_dag` (its `spot == low` test included), `MarkFinal` the
last loop. Which states are final is part of the input: the code that builds
an automaton sets it before.

**TopSafety.** `lists` is the array of edge lists (`NextList`: the non-empty
list with the least id), `calls` the recursion of `top_safety_scc_recursive`:
for each active call the predecessor edges it still has to give up. `GiveUp` is
its body up to that loop, with the early return. **TopReach** has the frames of
`top_reachably_scc`: the edge is left behind only when its child has been
visited. `top_reachably_scc_new` is the same search on vectors. **TopValue**
keeps `value` (the fields of the `Weight` objects) apart from `weights` (their
order in the array), because `invert_weights` changes the one and reorders the
other while ids stay. For averages `LimitAverage` has the rows of Karp's table
(`KarpRow`), all components at once; a row starts at any state of its component,
as the origin is one the search chose. Weights are given in units in which the averages the
algorithm divides out are integers, so that division is exact (`UnitAssumption`, which
asks nothing when no average is).
An automaton with a choice has no dual: `BottomTry` tries the weights from the
largest down and `isConstant` asks for universality, for averages of the
automaton that has weight 1 on the `Tight` edges. `ConstantRelax` takes these potentials
edge by edge in any order, since the code walks sets of pointers. The universality query itself
is FORKLIFT's, which `Inclusion` shows to be answered by what words say;
`Universal` is that answer, computed from what a word does to all runs
(`Profile`), of which there are finitely many (`Profiles`: those of one symbol, and
with each those a symbol longer). All states are final, as `isUniversal` assumes.

**RemoveSilent.** The edges of the copy are computed in one step
(`RemoveSilentTransitions`): nothing observes the construction. States of the
copy bring their `tag`; the other tables are those of a new object, and the
constructor's `compute_SCC` is then run step by step. The original is any
automaton whose states are reachable, with any valid numbering; a flattening
refuses letters, so it need not be complete. What else is known of it depends on
the flattening, which is the third component of a call (`callsRequired`). In what
`flatten_regular` and the threshold flattenings build, accepted runs call for
ever (`AcceptedRunsCall`), so that no cycle of silent edges goes through a final
state (`SilentCyclesReject`). `flatten_Avg_SumMinus` makes a state final when the
parent's is (N:3220) and every edge that calls no child silent (N:3338): of its
automata nothing is assumed.

**NonEmptiness** extends `RemoveSilent`: when its search is over, the tables of
`compute_SCC` are those the questions under acceptance read. They are functions
of these tables that nothing observes, hence operators. `TopLimSup` takes, as
`top_LimSup_with_final` does, the origin and the edges between states of one
number, not components by definition. For Inf, Sup and LimInf the code builds
another automaton, on pairs of a state and a weight (`toLimSup`), trims and
completes it and asks for its LimSup; `TopExplored` is that question on the
pairs (the completing sink is not final, so it is left out). `WeightIds` is the
array of weights of the copy in the order of ids, since the first bound is
taken by id. For averages `Walks` is the table of `max_mean_cycle_on_scc` and
`MeanAtLeast` its comparison with the threshold, a fraction p / q here; the
search of a component starts from its first state in the order of the array,
which the copy may have in any order: the answer is checked for every start.

**FlattenRegular, FlattenThreshold.** A state of the model is a state of the
flattened automaton (`BuchiState_obl`, `Key`) and a step one of its edges; so a
behaviour is a run of the automaton the code builds. The code finds these states
with a worklist whose order has no influence on them. Before the first letter
the tables are computed: `GrowReturns` and `GrowLive` (`GrowCutoffs`) are rounds
of the searches that fill them, whose order has no influence on their result
either. `Letter` is the body of the loops over edges and guesses, with all that
happens on one letter: both bags step or refuse it, P1 takes the place of an
empty P2, the new obligation enters P1, the phase and the flags advance.
`tracked` is no part of the code: it follows one call, from some letter on, by
the definition of what runs of a child return, without guesses, live tables or
bags, so that the properties can say what must become of it. `beat` tells a
letter that changes nothing else from no letter.

In `FlattenThreshold` one module stands for four functions of the code: the
bags B1, B2 and the slots W1, W2 for the witness that the Sup versions keep
apart are P1 and P2 here, an obligation of B having the guess `AnyReturn` and a
witness `AtLeast`. The best progress for each state is `Best`; for Max and Min
under Sup the code keeps, instead, only which of (Max, 1) and (Min, 0)
dominates: this is the same, as progress of the other value is not live there.

**PreSync, FlattenSumMinus.** `isNonEmpty` prepares the automaton in stages, one
action each: `Split`, then `Complete` or `Determinize`. A letter of `letters` is
a `MacroSymbol` with the edges it chose, as the determinized automaton has them;
a deterministic automaton keeps its symbols, each with all its edges.
`Attributed` is the loop that hands the chosen edges out to the children. The
ids by which that loop finds states are those of the array of each child; here all children
have the same states, so that an edge handed to another child is an edge of its
states. A state of `U_sync` is a `SyncKey`, a bag of them the multiset
of the code, and `Advance` the letter applied to it; edges of
`U_sync` are computed when a letter is read (`SyncSteps`), which the code does
ahead with a worklist. A behaviour is, as above, a run of the automaton built.
`running`, `owed` and `due` are no part of the code: they follow all calls by
the definition of what children do, without synchronization, pending states and
accumulators. `CBound` is the result of `compute_c_bound` (N:2976-3036), `AccBound`
twice the number of configurations times the heaviest weight (N:2534-2627); both
are exponential in the automaton, so small ones are given, and `RefusedExactly` says what
is refused below them.

**FixpointStem, FixpointLoop.** `content`, `updates` and `buffer` are the
fields of that name (`contexts`, `fresh`, `held` for loops), as sets of entries
with their state of A. `apply` is one round: `todo` (`moves`) holds the pairs of
an entry of `updates` and an edge of A that are left, and `StemSwap`
(`LoopSwap`) is its end, where the buffer becomes the updates. Symbols are
taken by id; states, entries and edges are kept in sets of pointers, so any
order is allowed (the model even lets the states of one round take turns).
`addIfMin` and `addIfMax` erase entries while they look for one that rejects the new one:
`StemReject` and `LoopReject` may therefore lose any part of what the new entry
dominates. Word objects are the sequences they hold. The weights of B stand for
their ids, as the automaton sorts its weights. `FixpointLoop` keeps to one
component of A, as the build does (`CMakeLists.txt:28` defines
`INCLUSION_SCC_SEARCH_ACTIVE`). Reference counts decide when an entry is freed
and never what is read, and are left out.

**Membership.** `S` and `C` are the two global sets of marks; `outer` and
`inner` the calls of `membership_query_dfs1` and of
`membership_query_final_cycle`, each with the edges it has left, `root` the
argument of the second. Positions of the period count from 1.

**Inclusion.** `phase` says where `inclusion` is; its two stem fixpoints run
one after the other in the tables of `FixpointStem`, each loop fixpoint in those of
`FixpointLoop`. The membership query is the definition that `Membership` is
shown to compute. When a loop fixpoint is over, `Rejects` are the pairs for which
the two inner loops would return false; the code returns at the first in the order of
addresses, `Refuted` at any. A word
that A rejects is never looked at; one that B rejects counts as worth less than
any value. `relevance_test` keeps loops that lead W out of itself from being
tried; `InclusionExact` shows that this loses no counterexample.

## Runs

| Run | Question | Bounds | Result |
|---|---|---|---|
| `scc` | Is `compute_SCC` right, does it implement `SCCOrder`, does it return? | every graph on three states, every set of final states, every order | 227,984 states, holds |
| `top` | Are top and bottom values and constancy right, for all six value functions, deterministic or not; is the automaton put back; does the call return? | complete automata with two states, two symbols, weights 2 and 6, at most five edges; for averages, words with periods up to length 4 | 712,370 states, holds |
| `constant_sup` | `Automaton.h:215`: `isConstant` "checks if Universal(A, Top_A)" | as `top`, deterministic, Sup and LimSup | violated: finding 1 |
| `non_empty` | Is the question of the pipeline answered as the original's accepting runs demand, through silent removal and the new numbers, for all its calls and every threshold? | automata with three states, one symbol, two weights and SILENT, up to three edges, or four of which one leaves each state; up to two final states. SumMinus averages: those of which the compression loses no state | 4,467,317 states, holds |
| `stale_number` | `README.md:421`: the flattening "encodes both conditions (parent final states and infinitely many non-silent invocations) into the accepting-state set" | SumMinus averages; four states, a calling loop at the first and the last, four silent edges between, one final state | violated: finding 3 |
| `fixpoints` | Is the stem antichain exactly the set of extreme pairs that words lead to, with the right words; does every loop of A have a context that stands for it; is what a rejected entry erased accounted for; is `apply` called finitely often? | stems: every complete A of four or five edges and every B of five, two states and two symbols, minimal and maximal sets; loops: four As of two states (`SmallAutomata`), every complete B with two states, five edges, a choice at the initial state, two heavy edges, some final state; loops up to length 4 | 285,556 states, holds |
| `membership` | Is the answer of the nested search acceptance, in whatever order, and does it come? | B with three states and one symbol or two states and two, one choice, one heavy edge; periods up to length 2, one or two starts | 2,054,612 states, holds |
| `inclusion` | Is the answer language inclusion, and the witness a counterexample? | As and Bs of the loops in `fixpoints`, any final states, least value of B 0 or 1; the settings of `NothingSkipped` | 291,721 states, holds |
| `skipped_state` | `Automaton.h:209`: `isIncludedIn` "Checks if A(w) <= B(w) for all w" | as `inclusion`, with a state of A that is not final and weights as low as B's least value | violated: finding 2 |
| `regular` | Are pending calls kept, letters refused and runs accepted as the nested automaton demands, for Max, Min and bounded sums? | two parents with every child of two edges that may return, or of three that goes on (two states, two symbols, weights -1 and 2), a second child; a third parent that calls either; bounds 0 and 1 | 106,106 states, holds |
| `threshold` | The same for the threshold flattenings, and is there one witness? | two parents, six children with a purpose and every child of one shape (`Looping`), weights 0, 1, 2 (negated for SumMinus); thresholds -2, 0, 1, 3 | 127,642 states, holds |
| `sum_minus` | Does the flattening for averages of SumMinus emit at a call what was read since the last, refuse what cannot be read, and keep what children return? | three parents (deterministic, incomplete, with a choice), seven children for the first call and three for the second, weights 0, -1, -2; bounds 3 calls in a state, sums to -6; returns on words up to length 4 | 12,613 states, holds |

Why the bounds are enough for what is asked. Three states give every shape that
Tarjan's search distinguishes: tree, back, cross and forward edges, nested and
sibling components, a component whose root is not the first state, unreachable
states. For `top`, two states and two symbols give a state whose symbols close
at different times, self-loops, one or two components, and the fifth edge gives
one non-deterministic choice; two weights already give a weight below and one
above each threshold, and the domain is wider than the weights on both sides so
that a neutral value cannot pass for a weight. A period of length 4 meets both
symbols at both states of a cycle of length 2, which is where a constant
average and a choice that loses some of it differ. `isConstant` asks for the top
first, so that the top of an automaton with a choice is checked there. For `non_empty`, four edges
on three states give a silent chain before or after a step, inside, into and
out of a component, parallel edges of different weight, and two cycles to
choose from; two final states give a component that accepts by a state the
compression passes over. Dead ends and letters that are refused occur with two
and three edges. In the SumMinus calls of this run silent cycles through final states
occur, also where such a cycle shares its component with a calling edge; only the
copies with a lost state are left to `stale_number`.

For `regular`, a child of two states can wait, return, and go on after a return;
weights -1 and 2 with bounds 0 and 1 cross both bounds, at once or step by step,
and would come back. The parents alternate between calling and not, call or not
on the same letter, leave for a part without a final state while a child runs,
or choose among children, so that obligations enter on the letter on which the
bags change places, meet equal ones and are discharged in either bag. `RefusedExactly`
and `ReturnsExact` look at words of up to 7 letters (8 in `threshold`; `Lengths` has this number only, as
`RunsWithin` gathers the runs on shorter words too), which is enough: a return that lies further ahead is known to the live table,
so that `RefusedExactly` would fail if the bound missed one. For
`threshold` the children are chosen for what the tables must get right: gains
before an exit that costs nothing, runs of different progress that meet in one
state, returns after every letter, a cost paid late; and `Looping` gives every
child of one shape. Sums up to `MaxSum` lie beyond every threshold.

For `sum_minus`, one child returns on the second letter, others wait for the letter
on which the parent calls or for the one on which it does not, one may return and go on
after every letter, one chooses between waiting and returning, one cannot read a
letter in one state, one cannot read the letter it is called on. With the parents this gives calls that return while
the parent is silent, several of them, and again before they have emitted; calls of different age in one state;
calls that wait in the sink for ever; and both bounds are reached and refuse letters.

For the fixpoints, two states of B give sets that grow, shrink and are
incomparable, and five edges give A or B its choice, so that entries are driven
out while they wait, and contexts of one state compete on weight, on acceptance
and on the relation. The As of the loops and of `inclusion` have two components, one,
a choice, and parallel edges of different weight (which give the comparable
first entries of the loop fixpoint). For `membership` a choice and one heavy
edge make the threshold, the final state and the way back lie on different
parts of a cycle, which a search with wrong marks misses. In `inclusion` the
settings exclude finding 2: they are those for which `NothingSkipped` holds of every
pair of automata, that is, each final state of A has an edge above B's least value, or
all states are final and B has a value for every word. The same definition is the
hypothesis of `InclusionCorrect`.

Symmetry is used in `non_empty` only, over the states other than the
initial one, and that run checks no liveness property.

**Fairness.** The program is one thread; a call goes on until it returns. So
`WF_vars(Next)` is assumed and nothing else, and termination is proved against
an adversary who picks the order of edges. The fixpoints are checked to end
in `fixpoints`, the query in `membership`; `inclusion` itself, which only
iterates over what they leave, has no liveness property (evaluating whether its
steps are enabled repeats the membership queries in every state), but it is
checked for deadlock: every state that has not returned has a step.

The flattenings are different: their runs are the runs of an automaton, and a
letter comes or does not. There `WF` is assumed of the rounds that compute the
tables, and of nothing else; `CallsReturn` and its companions assume in
their statement that the run is an accepting one. A run may stop where every
letter is refused, so `regular`, `threshold` and `sum_minus` turn the
deadlock check off, as do `fixpoints` and `membership`, whose call returns.

## Findings

1. `constant_sup`. `top_safety_scc` empties its lists of edges in the order of
   weight ids, which is the order of values as long as nobody changes values.
   `invert_weights` negates the values, reverses the array, and leaves the ids.
   `getBottomValue(Sup)` of the deterministic cycle `q0 -1-> q1 -5-> q0` then
   returns 1 instead of 5 and `isConstant(Sup)` is false, though every word has
   the value 5. (Inf and LimInf go through `top_reachably`, which does not look
   at ids.)
2. `skipped_state`. `inclusion` leaves a final state of A out when no edge OUT
   OF it is heavier than B's least value; the heavy edge of a loop may leave
   another state. With A the cycle `q0 -1-> q1 -5-> q0` and only `q0` final,
   and B a loop of weight 1, `isIncludedIn` for LimSup returns true although
   the word has the value 5 in A. With all states final the answer is right:
   `q1` is looked at. All value functions of `isIncludedIn` end in this code.

3. `stale_number`. `flatten_Avg_SumMinus` does not ask an accepted run to call
   (N:3220, N:3338), so a component may be accepting though all its edges are silent. For
   LimInfAvg and LimSupAvg `isNonEmpty` removes silent edges from it with shortcuts
   (N:7436-7438): those within accepting components are dropped (A:1253-1256), and steps
   are compressed around calling edges only. A component without any falls
   apart; its states, and those behind it, are no longer reached. They keep the
   number that `State(State*)` copied (`State.cpp:56`), because `compute_SCC`
   numbers only what it reaches; A:740-742 then counts a final one of them for
   whatever component has that number now, and A:4246-4250 puts it among that
   component's states. In the run `0 -1-> 0 -S-> 1 -S-> 2 -S-> 1` and
   `2 -S-> 3 -1-> 3`, only 2 final: the number of 2 is now that of 0, whose loop
   counts as accepting. The program, given such parents (children that return on
   the first letter), answers wrongly with yes; wrongly with no when the lost component was the
   only accepting one of that value; and writes outside its tables when
   a number is too large for the new ones (malloc reports a corrupted list). For
   `Max_f`, through `flatten_regular`, it answers all three correctly. A trim of
   the copy, or -1 as the number of a copied state, would mend the wrong yes and the
   write; the wrong no needs what is behind a silent component to stay reachable.

Smaller disagreements, not runs. The README's "Lower SCC IDs are reachable
from higher SCC IDs" is not true of sibling components; what holds, and what
the code uses, is `TagsOrdered`: no edge leads to a higher id. And with
`withShortcuts = false` for an average, the default of `removeSilentTransitions`,
all silent edges are compressed away, and a state that only they lead to is lost
with its old number as in finding 3, whatever the flattening; the pipeline does not
make this call.

`flatten_regular` takes a parent transition for silent only when its weight is 0
(N:1847). A transition of weight `SILENT`, which `README.md:179-181` and
`docs/assumptions.md:80` allow, falls through to the calls, where the largest float
is no number of a child, and is dropped (N:1878-1881): the flattened automaton
cannot read the letter. `FlattenRegular` does the same (`SilentEdge` needs
`NoChild`, `CallEdge` a child); the parents of `regular` have no such transition. The
threshold flattenings map the same weight to the dummy child.

Three more concern the averages of SumMinus. `determinizeWithMacroAlphabet` passes over an empty set of chosen
edges without passing over the child it belongs to (N:2398), so that the edges of
the next child go to it. The comment at N:2493 says that completeness "is not
necessary for the (limavg,summinus)-emptiness pipeline", but where a child has no edge on a symbol
`ReturnsKept` fails of the model, and the program answers the question of
non-emptiness for a small automaton of this kind with no where it answers yes
for the same one completed; the children of `sum_minus` that meet letters of
choice have an edge on each symbol. `flatten_Avg_SumMinus` makes a state final
when the parent's is (N:3220) and never asks that calls return; `README.md:420`
says that children accept finite words, and `CallsReturn` shows that the other
flattenings heed it. And `compute_c_bound` ends the program when its bound, which
is exponential in the states of the children, exceeds 64 bits.

## Proofs

`ComputeSCC_proofs` proves, for every finite or infinite set of states, every
graph and every order of edges:

- `TypeCorrect`, `SearchInvHolds`: the type invariant and the invariant of the
  first search;
- `NumbersOrdered`, `ComponentsCorrect`, `ReachableNumbered`: `TagsOrdered`,
  `TagsAreComponents`, `TagsReachable`;
- `ImplementsOrderSafety`: `Spec => Order!Safety`;
- `DagCorrect` and `FinalsCorrect`: `DagIsQuotient`
  and `FinalsExact`.

From: `initial \in State`, `MaxOut \in Nat`, `None \notin State`.

The argument. `TypeOK` and the three properties are not inductive: that the
states popped with a root form a component depends on which edges have been
visited and on what the low links account for. The invariant `SearchInv` adds:

- `StackInv`: Tarjan's stack lists exactly the discovered states without a
  number, by discovery time;
- `CallStackInv`: the frames form a path of states on that stack, by discovery
  time;
- `VisitedInv`: an edge out of a state on the stack is still to be visited, or
  leads to a numbered state, or is accounted for by the low link of a frame
  below which the state lies. When a root is popped its low link is its own
  discovery time, so every visited edge out of the popped part stays in it or
  leads to numbered states: the popped set together with the numbered states
  is closed. That gives `TagsOrdered`, and, as reachability is defined by
  closed sets, "same number only if mutually reachable" in one direction
  without induction on paths;
- `ReachInv`: frames reach what lies above them, states on the stack reach
  their frame, low links are discovery times of states reached. That gives the
  other direction: the popped states reach each other;
- `CoverInv`: numbered states are reachable from the initial one and every
  number up to `nb_SCCs` is used.

Each action of `Next` has its step; what several actions share are lemmas on
top of the file.

The second search reuses what the first left, and so does its proof. `DagInv`
adds to `SearchInv`: that a state which has left the call stack but not Tarjan's
stack has a low link below its spot (`NoLateRoot`), hence each component that is
popped brings exactly one state whose spot and low agree, the one discovered
first (`RootIsFirst`), and nothing writes them later; that nothing is marked
"on the stack" when the marks are taken over as "visited" (from `ReachFrames`:
there are no frames left to reach); and, while the second search runs, that an
edge out of a visited state is still to be looked at or is in the DAG with its
end visited or next (`DagEdges`). When the call stack is empty the visited
states are closed under edges and hold the initial one, so they are all
numbered states.

`Inclusion_proofs` proves of the stem fixpoint, for all automata A and B, both
directions of the inclusion and every order of steps, from `AutomataAssumption`:

- `StemTypeCorrect`, `AntichainHolds`, `NothingForgotten`: `StemTypeOK`,
  `Antichain`, `Pending`;
- `StemCorrect`: `StemExact`, that the fixpoint ends with exactly the extreme
  pairs.

`StemExact` speaks of the end only. The invariant `StemInv` says what holds on
the way: what a kept entry leads to is in the buffer, in the round, or dominated
by a kept entry (`Pending`); entries are pairs that words reach (`Sound`); the
initial pair is dominated by a kept one (`Started`); a round that fills the
buffer has updates (`Rounds`), so that when updates are empty the buffer is.
When an entry is driven out, what dominated it still does by transitivity, and
since `TargetOf` is monotonic, what the new entry leads to dominates what the
old one would have led to. At the end `Pending` says that the pairs dominated by
kept ones are closed under the edges of A. `Pairs` is the least closed set, so
every pair is dominated, without induction on words; the converse is `Sound`,
and `Antichain` makes the extreme pairs exactly those kept. `WordsCorrect` proves
`WordsLead`: an entry moves along an edge as its word does, and an entry given up
takes its word with it.

Of the loop fixpoint it proves from `AutomataAssumption` and `LoopAssumption`:

- `LoopTypeCorrect`, `NoContextForgotten`: `LoopTypeOK`, `LoopPending`;
- `LoopCorrect`: `LoopExact`, for loops of every length.

Here the content is no antichain: the constructor adds comparable entries, and
`addIfMin` may erase some and then reject the new one. The argument is that
standing for an entry is transitive: what rejects the new entry stands for it,
and so for all that was erased on its account. For `LoopExact`: a step preserves
standing for (`MovedStandsFor`: contexts are monotonic in the order that compares
them), so by induction on the length the entry of a word is accounted for when
that of the word without its last symbol is; and the word of an entry has been
read by the unpruned fixpoint in as many rounds (`LoopWords`).

Of `inclusion` as a whole it proves, from these and `InclusionAssumption` (finitely
many states, symbols and weights, some symbol, settings of the right type):

- `InclusionTypes`: `TypeOK`;
- `WitnessCorrect`: `WitnessRefutes`, and `NoFalseAlarm`: `FALSE` is returned only
  when inclusion does not hold;
- `TriedCorrect`: when `TRUE` is returned, B has at least the value of every lasso
  of A through a final state that the loop over the states goes on with;
- `AnswerCorrect`, `InclusionCorrect`: `InclusionExact`, for automata and
  settings with `NothingSkipped`.

The first three ask nothing of weights and final states. The last has a hypothesis
because without it the statement is false, which `skipped_state` shows (finding 2).
`AnswerCorrect` asks it of the automata given, `InclusionCorrect` of all.

The invariant `InclusionInv` follows the call. While a stem fixpoint runs its own
invariant holds (`Stems`); what it leaves is, for each pair a word leads to, an entry
with a larger set in the first and with a smaller one in the second (`Antichains`).
While a loop fixpoint runs its entries are moved by words and account for all words
read so far (`Trying`). Of the jobs, those done have been passed for all symbols,
that under way for the symbols it no longer has (`Jobs`).

A pass through a symbol without a rejection means: every word on a loop of the state that
begins with the symbol and leads W into W is accepted from each minimal set within W, with the
weight of the loop (`PassedSymbol`). The context kept may be another word's, but it
stands for that word, and standing for carries over to acceptance
(`AcceptsDominated`). A rejection is a counterexample at once (`RejectedRefutes`),
since U is the set of its own stem and V the context of its own word.

That `relevance_test` may put the loops aside that lead W out of itself is the part that no
single pass shows. Take a maximal W and a word on a loop of A. The set W leads to under the
word lies within a maximal set, this one leads to a set within a maximal one, and so
on; there are finitely many, so repetitions of the word lead from W into
a maximal set that some power of the word leads into itself (`Recurrence`,
`MaximalRecurs`). There the power has been tried, with a minimal set below the one
the stem and the repetitions lead to. It is accepted, and acceptance of a power
after some repetitions is acceptance of the word (`LoopAccepted`, `AcceptsLater`).

`LanguageIncluded` speaks of a saturated set of paths; `LoopsAre` shows that it
holds the loops of words of every length. `NothingSkipped` is used in `NothingMissed`
only. When each final state has an edge above B's least value, each is tried. In the other
case all states are final: a loop of a state left out is turned round to start
where its heaviest edge leaves (`HeaviestSplit`, `AcceptsRotated`), at a state that is
tried, unless it weighs at most B's least value, which every word has in B (`LeastAccepted`).

`Membership_proofs` proves from `MembershipAssumption` (finitely many edges, integer
weights, non-empty periods):

- `MembershipTypes`: `TypeOK`;
- `MembershipCorrect`: `MembershipExact`, for every automaton, period, set of starts and
  threshold.

The proof has two halves. The first is about no search at all: acceptance, defined in
`Lasso` by the profiles of the period and of its repetitions, is the same as a
walk of the product of B with the positions of the period, from a start to a final
state and from there back to itself along a heavy edge (`LassoIs`). A profile
becomes a walk symbol by symbol (`RealizedPrefix`, `RealizedLoops`). A walk becomes a
profile by following its keys (`WalkDescribed`); that the cycle may lie at any
position of the period, and that a repetition is a whole number of periods, is
`PassesFirst`: a cycle passes the first position, and there it is cut. Walks are
reachability of keys, a state of the product and whether the threshold has been
seen, so induction on their length is not needed.

The second half is the invariant `Inv`. `Searching`: each edge of a marked state
leads to a marked state or waits in a call of dfs1, and a final state that is marked
has no heavy cycle or is still on a call. `Cycling`: the marks of the running dfs2
are reached from its root without having come back to it, and each edge of a mark leads to a
mark or waits. When the last call of dfs2 returns its marks are closed, so the
root has no heavy cycle (`CyclingDone`); when that of dfs1 does and no start is left,
the marks hold all that is reached (`SearchingDone`). It is here that the marks of dfs2 must be
cleared for each root: `Cycling` holds of no set kept from an earlier one.

`TopValue_proofs` proves for every complete
automaton (any number of states, symbols, weights and edges, with and without choice):

- `WeightsAlwaysRestored`: `WeightsRestored`;
- `TopCorrect`: `TopExact`, for all six value functions;
- `BottomCorrect`: `BottomExact` for every automaton with a choice, and for
  deterministic ones under Inf, LimInf and the averages;
- `ConstantCorrect`: `ConstantIsUniversal` for the same calls, averages left out
  where there is a choice.

From `StateAssumption`, `SymbolAssumption`, `InitialAssumption`,
`WeightsAssumption` (weights ascend and lie in the domain), `UnitAssumption` (all
averages are integers), `BoundsAssumption` and `CallsAssumption`. The last two
assume `Settled`. It leaves out deterministic automata under Sup and LimSup, of which
they are false: the dual game is played on negated weights in the wrong order
(finding 1). Where there is a choice, constancy under averages is left to TLC, for its
reference is over words with periods of bounded length.

`CallHolds` is the inductive invariant. Its parts follow the call: where it is
(`Control`), that the array is negated just between the two calls of
`invert_weights` and restored outside (`Phase`), what the running search has
established (`Running`), what has been returned (`TopReturned`,
`BottomReturned`), and that the weights already tried are not reached by every word
(`Tried`). The searches bring invariants of their own.

`SafetyInv`, for `top_safety_scc`. The recursion makes one removal run ahead of
the main loop, so "the weights below the threshold have been given up" is never
quite true. `UpTo` says what is, with the calls on the stack: an edge that is not given
up and not waiting in a call is in a list and not below the threshold; what has been
decided got its value from an edge or at a threshold passed; edges into a decided
state are given up or on the stack. `Counted` ties the counters to the edges they count.
The other direction is `Kept`: where a run can stay for ever on edges of weight
x, no state is decided below x. When the lists are empty, a state's value is
both attained by a set in which runs can stay and not exceeded by any.

`ReachInv`, for `top_reachably`. A state's value is written when its frame looks
at an edge again after its child has returned, so a value may be on its way.
`Handed` says where: each visited value of the component is below the value of some
frame or will be read by it (`Reached`). With `LookedAt` (an edge of a visited state
that no frame holds has been followed and counted) the origin ends with the largest
weight of the component's edges, whatever state the search starts from.

`Table`, for `top_LimAvg`. Each row of `distance` follows from the row before by the edges
within components, and what stands for no walk is out of reach of the weights of
any (`InfinityAbove`). The rest is Karp's theorem, for the graph that `Within` makes:
`KarpTopIs` and `KarpBottomIs`. That no mean exceeds the answer: where the last row has a
walk, the walk passes a state twice, and leaving out the cycle between leaves a walk in an
earlier row (`CycleLeftOut`); the quotient for that row is at most the cycle's mean, and the
code takes the least quotient. That the answer is not below the best mean L:
when every edge costs L more, no cycle gains, so each state has a least cost among
walks of less than `size` edges (`PotentialsExist`), which no edge improves
(`PotentialRelaxed`). On a cycle of mean L all edges are tight (`CycleTight`), so the walk to one of its
states that has the least cost, continued along the cycle up to `size` edges, is a
best one for the last row (`CycleEnd`); there every quotient is at least L
(`BestAtLeast`). Division is that of integers: by `UnitAssumption` the best mean is itself
one (`BestMeanExists`).

For automata with a choice the bottom is what `Universal` says, and it must be
shown that the weights may be tried from the top down (`UniversalMonotone`: more
edges lose no word its run), that the least weight is reached by all
(`UniversalAll`), and that asking about the top is asking whether the bottom is as large
(`ChoiceReachesTop`). A word is there a pair of profiles, a prefix and a repeated
one that is idempotent; taking the same word's profiles for two sets of edges
together (`Together`) may lose the second one's idempotence, and `Idempotent` finds a
power that has it back: a finite set of profiles closed under composition has an
idempotent. `ProfilesAre` shows that the closure in `Profiles` ends and is the least set with
its seeds.

`FlattenRegular_proofs` proves from `NestedAssumption` and `FlattenAssumption`,
for every nested automaton, bound and value function and every word:

- `FlattenTypes`: `FlattenTypeOK`; `GuessesBounded`: guesses for bounded sums
  are within the bound;
- `PendingCallsKept`: `PendingCallKept`;
- `RefusedCorrect`: `RefusedExactly`, and `ReturnsCorrect`: `ReturnsExact`, both
  for `Lengths = Nat`.

`PendingCallKept` speaks of bags while letters are read; it holds of a letter
only if the live table is complete when the first is read, if the configuration
of a run is where the run is (`Encoded` of a step is the step of the encoding,
also for sums beyond their bound), and if a run that is not live stays so. `Inv`
adds the first: with `stage = "flatten"` everything one edge away from a live
configuration is live; and the types, which for sums say that values are within
the bounds as long as none was crossed. The step of a bag is then the same as
the step of all runs, for the bag that moves and for the one that stays, and a
call not discharged is one whose runs did not return.

`RefusedExactly` and `ReturnsExact` compare the tables with what words make of a child. TLC
must bound these words; in the theorems `Lengths` is the set of all numbers, which
is what the properties mean. One direction is that a set of runs closed under
letters holds all later runs (`LaterClosed`), and that none of the later runs of a
run that is not live returns (`Hopeless`, kept by every letter since the table is
complete). The other is that the tables are sound: a configuration enters `live` one edge
before one that returns or is live, so from each some word returns (`LiveSound`);
a run of `reached` is what a word makes of the child (`ReachedSound`). Both are
invariants of the rounds that fill the tables. For `ReturnsExact` the run that the
code follows (a value and the bound it crossed) and the run of the definition (a
sum without a bound) are related step by step (`Same`).

`FlattenThreshold_proofs` proves from `NestedAssumption` and
`ThresholdAssumption`:

- `ThresholdTypes`: `ThresholdTypeOK`;
- `PendingBest`: `PendingBestKept`; `WitnessIsOne`: `OneWitness`;
- `RefusedCorrect`: `RefusedExactly`, for `Lengths = Nat`.

Here an obligation forgets runs: those of less progress than another in the
same state, and those not live. What must be shown is that the best of the best
is the best of all. `MoveBetter`: the better of two runs stays so over an edge;
`DischargeBetter`: it returns the guess when the other does; `LiveBetter`: it is
live when the other is. `LiveBackward`: what leads to a live configuration is
live, which holds of the tables once they no longer change (`CutoffsInv`,
`LiveInv`: the least costs are at most one edge plus those behind it, the
largest at least, up to the cap). From these `FrontierSame`: stepping the
obligation gives the best of the step of all runs. `WitnessAlone` says which
obligations are witnesses and that the tracked call is one of them. For
`RefusedExactly` the tables must be sound too (`TablesSound`): a cut-off is the gain
or cost of some word on which the child returns, so progress that meets
it returns on that word. A letter that is refused leaves no live progress at all, and
`PendingBest` says that the best of all runs was among what was judged.

`FlattenSumMinus_proofs` proves from `NestedAssumption`, `PreSyncAssumption` and `SumMinusAssumption`:

- `CallsInStep`: `InStep`, that the states of `U_sync` kept carry the parent's own
  state, have not ended and owe no more than the bound;
- `SilentEdgesQuiet`: `Quiet`, that nothing is emitted on an edge that calls no
  child, so that the `QUAK_FAIL` for it (N:3329) is never reached;
- `EmittedCorrect`, `RefusedCorrect`: `EmittedExact`, `RefusedExactly`;
- `ReturnsCorrect`: `ReturnsKept` for words of every length, when no child is passed
  over (`NoneSkipped`: the automaton is deterministic, or each child has an edge on
  each symbol). Without this it is false, see Findings.

`U_sync` steps by its own copy of the parent's state, so `Quiet` holds because the
copies agree with the parent and because a letter leaves the parent one edge
from a state: by the choice it makes, or since `isDeterministicNested` said so
and the sink's edges are added only where there was none. `Inv` says that of every
letter (`LetterOK`), and that the weights the preparation leaves are not positive, so
that what is accumulated stays between the bound and 0.

`EmittedExact` compares two bags that are advanced separately: that of the code, of states of
`U_sync` with what they owe, and that of the calls. `Represents` relates them: a
call in some state is there as often as all keys together that stand for it, keys
that wait stand for calls that have returned, and the sum of what the keys owe,
each as often as it is there, is what the calls have read since the last call. A
letter maps both bags by functions on their keys; that sums over the fibres of such a map
add up to the sum over all (`SumFibres` in `DataInduction`) carries the
relation over it. For `RefusedExactly` in the direction of the bounds: terms are not
positive, so each is at least the sum.

`ReturnsCorrect` follows a word along the child as given and along the letters.
After each letter the states reached by the letters are, but for the sink, those that the
split makes of the states reached in the child, with the same sums (`Meets`), and
each of the two parts of a state that is split is reached (`Covers`), so that one of
them is final when the state was. What the letters offer a child is all its edges:
those to the sink are added when completing; when determinizing every edge
is in some choice, and the count that hands out the edges gives each child its
own when none is passed over (`AttributedOwn`).

Induction. The induction theorems of the library take the property as an operator, which no
prover here instantiates. `DataInduction` states what is needed with sets in
their place: a set of numbers that has 0 and with each number the next is all of `Nat`,
proved by the least element of its complement; a function defined by recursion exists
and has the values its definition says (`Recursion`); the same for finite sets and
sums over them.

Only model-checked: averages in `ConstantIsUniversal` where there is a choice
(`isLimAvgConstant`; the reference is over words of bounded periods); `AnswerExact` and
`TagsRefreshed` (the first since its reference is over the cycles of small automata, the
second since it needs the theorems on
`compute_SCC` for a start from stale numbers; both with the condition that
finding 3 makes necessary); and everything under
fairness, termination as well as `CallsReturn`, `AcceptedRunsCall` and
`FairRunsAccepted`.

## Plan

1. SCC numbering and the DAG of components, proved. *Done.*
2. Top and bottom values and constancy for all value functions. *Done,* proved
   but for `isLimAvgConstant`; to prove next: that the relaxation ends with
   distances that leave just the edges of best cycles tight.
3. Silent removal on top of 1, and the question of non-emptiness under
   acceptance on top of that. *Done;* to prove next: `TagsRefreshed`, with the
   invariant of 1 for the start from the copied numbers.
4. FORKLIFT: stem and loop fixpoints, membership, inclusion. *Done,*
   proved.
5. `flatten_regular` and the threshold flattenings, against the runs of
   children. *Done,* their safety proved.
6. Averages of SumMinus. *Done,* what is emitted, refused and returned proved.
7. `Build` (trim and complete), `ParserSections`, `Monitor`.

## Not modelled

- Float weights: the models use integers; the flattenings' scaling of float
  weights to integers, the epsilon of comparisons and the sentinels at the
  ends of the float range are left out (hazards without a property).
- In the flattenings: the numbering of obligations and bags and the caches over
  these numbers, children of a single state (a shortcut), the fast path for
  SumPlus under LimSupAvg and `hasAcceptingNonSilentNestedRun`, and
  `flatten_MinMax_Sup_cached`, which nothing calls.
- In the averages of SumMinus: children of a single state, weights of either
  sign, parent edges of weight `SILENT`, the computation of the two bounds.
  `makeCompleteNested` makes room for the sink's weight when an unsigned number is
  greater than -1 (N:2073), which is never the case, so that a weight the parent
  does not have yet goes beyond its array; the model leaves that out.
- Universality under acceptance, which is inclusion (`Inclusion`) of a constant
  automaton; `top_LimAvg_with_final`, which no decision calls; witnesses.
- Containers, the command line, random generation, experiments: no state of
  their own, or pure input and output.
- The repository also keeps archived copies of earlier versions of
  `NestedAutomaton.cpp` (`src/archived/`), several times the size of the program;
  they are not built into it and not modelled.
