----------------------------- MODULE ComputeSCC -----------------------------
(***************************************************************************)
(* Automaton::compute_SCC: Tarjan's search with an explicit call stack,    *)
(* then the DAG of components, then the table of accepting components.     *)
(*                                                                         *)
(* The edges of a state are visited symbol by symbol and, for one symbol,  *)
(* in the order of their addresses: a frame holds the SET of successors    *)
(* still to be visited and each step takes any of them.  Parallel edges    *)
(* to one successor are visited once: a second visit changes nothing.      *)
(***************************************************************************)
EXTENDS Integers, Sequences, FiniteSets, SCCGraph

CONSTANTS State,      \* the states of the automaton
          initial,    \* its initial state
          MaxOut,     \* bound on the successors of a state, for TLC
          None        \* no state: the origin of a component not yet set

ASSUME InitialAssumption == initial \in State
ASSUME MaxOutAssumption  == MaxOut \in Nat
ASSUME NoneAssumption    == None \notin State

VARIABLES
  succ,        \* the successors of each state, never changed
  final,       \* the final states, never changed
  pc,          \* which loop of compute_SCC runs: "tag", "dag", "final", "done"
  callStack,   \* the frames of the depth-first search, the current one last
  spot,        \* discovery time, -1 for a state not discovered
  low,         \* Tarjan's low link; written before it is read
  time,        \* the next discovery time
  stack,       \* Tarjan's stack, its head last
  stackMem,    \* "on the stack", then reused as "visited" by the DAG search
  tag,         \* the component of a state, -1 for none
  nb_SCCs,     \* the components numbered so far
  origin,      \* the origin of each component
  nexts,       \* the edges of the DAG of components
  final_SCCs   \* which components hold a final state

graphVars  == <<succ, final>>
searchVars == <<callStack, spot, low, time, stack, stackMem>>
sccVars    == <<tag, nb_SCCs>>
dagVars    == <<origin, nexts, final_SCCs>>
vars       == <<graphVars, pc, searchVars, sccVars, dagVars>>

Least(a, b) == IF a < b THEN a ELSE b

NewFrame(s) == [state |-> s, ready |-> FALSE, todo |-> {}]
depth == Len(callStack)
Top   == callStack[depth]

\* The frame of the current state once its list of edges is collected.
Collected == [callStack EXCEPT ![depth].ready = TRUE,
                               ![depth].todo  = succ[Top.state]]

\* The call stack once the current frame has moved past the edge to c.
Advanced(c) == [callStack EXCEPT ![depth].todo = @ \ {c}]

InLoop(p) == pc = p /\ callStack # <<>>

-----------------------------------------------------------------------------
(* compute_SCC_tag *)

\* Phase 1 of the current frame: discover its state.
TagEnter ==
  /\ InLoop("tag")
  /\ ~Top.ready
  /\ spot' = [spot EXCEPT ![Top.state] = time]
  /\ low' = [low EXCEPT ![Top.state] = time]
  /\ time' = time + 1
  /\ stack' = Append(stack, Top.state)
  /\ stackMem' = [stackMem EXCEPT ![Top.state] = TRUE]
  /\ callStack' = Collected
  /\ UNCHANGED <<graphVars, pc, sccVars, dagVars>>

\* Phase 2, an edge to an undiscovered state: search it first.
TagDescend(c) ==
  /\ InLoop("tag")
  /\ Top.ready
  /\ c \in Top.todo
  /\ spot[c] = -1
  /\ callStack' = Append(Advanced(c), NewFrame(c))
  /\ UNCHANGED <<graphVars, pc, spot, low, time, stack, stackMem, sccVars, dagVars>>

\* Fault: a cross edge into a component already numbered lowers the link too.
LinkToAny(c) == [low EXCEPT ![Top.state] = Least(@, spot[c])]

\* Fault: a back edge is skipped.
LinkToNone(c) == low

\* The low link once the edge to c is seen: c counts if it is on the stack.
LinkTo(c) ==
  IF stackMem[c] THEN [low EXCEPT ![Top.state] = Least(@, spot[c])] ELSE low

\* Phase 2, an edge to a discovered state.
TagSeen(c) ==
  /\ InLoop("tag")
  /\ Top.ready
  /\ c \in Top.todo
  /\ spot[c] # -1
  /\ low' = LinkTo(c)
  /\ callStack' = Advanced(c)
  /\ UNCHANGED <<graphVars, pc, spot, time, stack, stackMem, sccVars, dagVars>>

\* The parent of the current frame takes over its low link.
LowerParent ==
  IF depth > 1
  THEN LET p == callStack[depth - 1].state
       IN  [low EXCEPT ![p] = Least(@, low[Top.state])]
  ELSE low

\* Fault: the root itself is not numbered with the states above it.
HeadAbove(s) ==
  LET k == CHOOSE k \in DOMAIN stack : stack[k] = s
  IN  {stack[i] : i \in k + 1 .. Len(stack)}

\* The part of the stack from state s to its head.
HeadDownTo(s) ==
  LET k == CHOOSE k \in DOMAIN stack : stack[k] = s
  IN  {stack[i] : i \in k .. Len(stack)}

\* What is left on the stack below s.
BelowOnStack(s) ==
  LET k == CHOOSE k \in DOMAIN stack : stack[k] = s
  IN  SubSeq(stack, 1, k - 1)

\* Fault: popped states stay marked.
MarksKept(popped) == stackMem

\* The marks "on the stack" once the popped states have lost theirs.
MarksWithout(popped) == [s \in State |-> s \notin popped /\ stackMem[s]]

\* Phase 3, the current state is not the root of its component.
TagReturn ==
  /\ InLoop("tag")
  /\ Top.ready
  /\ Top.todo = {}
  /\ spot[Top.state] # low[Top.state]
  /\ low' = LowerParent
  /\ callStack' = SubSeq(callStack, 1, depth - 1)
  /\ UNCHANGED <<graphVars, pc, spot, time, stack, stackMem, sccVars, dagVars>>

\* Phase 3, the current state is a root: pop its component and number it.
TagRoot ==
  /\ InLoop("tag")
  /\ Top.ready
  /\ Top.todo = {}
  /\ spot[Top.state] = low[Top.state]
  /\ LET popped == HeadDownTo(Top.state)
     IN  /\ tag' = [s \in State |-> IF s \in popped THEN nb_SCCs ELSE tag[s]]
         /\ stackMem' = MarksWithout(popped)
  /\ nb_SCCs' = nb_SCCs + 1
  /\ stack' = BelowOnStack(Top.state)
  /\ low' = LowerParent
  /\ callStack' = SubSeq(callStack, 1, depth - 1)
  /\ UNCHANGED <<graphVars, pc, spot, time, dagVars>>

\* The indices of the arrays SCCs and final_SCCs.
ComponentIds == 0 .. nb_SCCs - 1

\* Back in compute_SCC: allocate the components and search for their DAG.
TagFinished ==
  /\ pc = "tag"
  /\ callStack = <<>>
  /\ pc' = "dag"
  /\ callStack' = <<NewFrame(initial)>>
  /\ origin' = [i \in ComponentIds |-> None]
  /\ nexts' = {}
  /\ final_SCCs' = [i \in ComponentIds |-> FALSE]
  /\ UNCHANGED <<graphVars, spot, low, time, stack, stackMem, sccVars>>

-----------------------------------------------------------------------------
(* compute_SCC_dag *)

\* Phase 1: a state already visited is dropped; the root of a component is
\* recognised by the spot and low that the first search left behind.
DagEnter ==
  /\ InLoop("dag")
  /\ ~Top.ready
  /\ LET s == Top.state
     IN  IF stackMem[s]
         THEN /\ callStack' = SubSeq(callStack, 1, depth - 1)
              /\ UNCHANGED <<stackMem, origin>>
         ELSE /\ callStack' = Collected
              /\ stackMem' = [stackMem EXCEPT ![s] = TRUE]
              /\ origin' = IF spot[s] = low[s]
                           THEN [origin EXCEPT ![tag[s]] = s]
                           ELSE origin
  /\ UNCHANGED <<graphVars, pc, spot, low, time, stack, sccVars, nexts, final_SCCs>>

\* Fault: an edge to a visited state is taken for one already in the DAG.
DagWithTree(c) ==
  IF tag[Top.state] # tag[c] /\ ~stackMem[c]
  THEN nexts \cup {<<tag[Top.state], tag[c]>>}
  ELSE nexts

\* The DAG once the edge to c is seen: one between components counts.
DagWith(c) ==
  IF tag[Top.state] # tag[c] THEN nexts \cup {<<tag[Top.state], tag[c]>>} ELSE nexts

\* Fault: the edge index is not advanced past a visited state.
AfterEdgeStuck(c) ==
  IF stackMem[c] THEN callStack ELSE Append(Advanced(c), NewFrame(c))

\* A successor not visited yet is searched next.
AfterEdge(c) ==
  IF stackMem[c] THEN Advanced(c) ELSE Append(Advanced(c), NewFrame(c))

\* Phase 2
DagEdge(c) ==
  /\ InLoop("dag")
  /\ Top.ready
  /\ c \in Top.todo
  /\ nexts' = DagWith(c)
  /\ callStack' = AfterEdge(c)
  /\ UNCHANGED <<graphVars, pc, spot, low, time, stack, stackMem, sccVars,
                 origin, final_SCCs>>

DagReturn ==
  /\ InLoop("dag")
  /\ Top.ready
  /\ Top.todo = {}
  /\ callStack' = SubSeq(callStack, 1, depth - 1)
  /\ UNCHANGED <<graphVars, pc, spot, low, time, stack, stackMem, sccVars, dagVars>>

DagFinished ==
  /\ pc = "dag"
  /\ callStack = <<>>
  /\ pc' = "final"
  /\ UNCHANGED <<graphVars, searchVars, sccVars, dagVars>>

-----------------------------------------------------------------------------
\* Fault: assigning instead of or-ing, a non-final state clears its component.
FinalsOverwritten == [i \in DOMAIN final_SCCs |-> \A s \in State : tag[s] = i => s \in final]

\* Every state is looked at; one that has a tag counts for that component.
FinalsMarked ==
  [i \in DOMAIN final_SCCs |-> final_SCCs[i] \/ \E s \in final : tag[s] = i]

\* The last loop of compute_SCC: a component with a final state is accepting.
MarkFinal ==
  /\ pc = "final"
  /\ pc' = "done"
  /\ final_SCCs' = FinalsMarked
  /\ UNCHANGED <<graphVars, searchVars, sccVars, origin, nexts>>

Terminated == pc = "done" /\ UNCHANGED vars

-----------------------------------------------------------------------------
\* The graphs TLC starts from: every graph whose states have at most MaxOut
\* successors, with every set of final states.
InitGraph ==
  /\ succ \in [State -> {C \in SUBSET State : Cardinality(C) <= MaxOut}]
  /\ final \in SUBSET State

InitSearch ==
  /\ pc = "tag"
  /\ callStack = <<NewFrame(initial)>>
  /\ spot = [s \in State |-> -1]
  /\ low = [s \in State |-> -1]
  /\ time = 0
  /\ stack = <<>>
  /\ stackMem = [s \in State |-> FALSE]
  /\ nb_SCCs = 0
  /\ origin = <<>>
  /\ nexts = {}
  /\ final_SCCs = <<>>

\* State(name, ...) sets the tag of a new state to -1.
Init == InitGraph /\ InitSearch /\ tag = [s \in State |-> -1]

Next ==
  \/ TagEnter
  \/ \E c \in State : TagDescend(c)
  \/ \E c \in State : TagSeen(c)
  \/ TagReturn
  \/ TagRoot
  \/ TagFinished
  \/ DagEnter
  \/ \E c \in State : DagEdge(c)
  \/ DagReturn
  \/ DagFinished
  \/ MarkFinal
  \/ Terminated

\* compute_SCC is one sequential call: it goes on as long as it can.
Spec == Init /\ [][Next]_vars /\ WF_vars(Next)

-----------------------------------------------------------------------------
(* Properties *)

Frame == [state : State, ready : BOOLEAN, todo : SUBSET State]

TypeOK ==
  /\ succ \in [State -> SUBSET State]
  /\ final \in SUBSET State
  /\ pc \in {"tag", "dag", "final", "done"}
  /\ callStack \in Seq(Frame)
  /\ spot \in [State -> Int]
  /\ low \in [State -> Int]
  /\ time \in Nat
  /\ stack \in Seq(State)
  /\ stackMem \in [State -> BOOLEAN]
  /\ tag \in [State -> Int]
  /\ nb_SCCs \in Nat
  /\ DOMAIN origin = IF pc = "tag" THEN {} ELSE 0 .. nb_SCCs - 1
  /\ \A i \in DOMAIN origin : origin[i] \in State \cup {None}
  /\ nexts \subseteq Int \X Int
  /\ DOMAIN final_SCCs = DOMAIN origin
  /\ \A i \in DOMAIN final_SCCs : final_SCCs[i] \in BOOLEAN

Tagged == {s \in State : tag[s] # -1}

\* At every moment of the search two numbered states carry the same number
\* exactly when each reaches the other: a component is never split over two
\* pops of the stack and two components are never popped together.
TagsAreComponents ==
  \A s, t \in Tagged : tag[s] = tag[t] <=> Mutual(succ, s, t)

\* An edge out of a numbered state leads to a numbered state whose number is
\* not larger.  top_reachably, top_dag and the desilencing passes process
\* components in the order of their numbers and read those below.
TagsOrdered ==
  \A s \in Tagged : \A t \in succ[s] : t \in Tagged /\ tag[t] <= tag[s]

\* Once the search is over the numbered states are the reachable ones and
\* the numbers are 0 .. nb_SCCs - 1 without a gap (README.md: "tag == -1 =
\* unreachable"); SCCs and final_SCCs are arrays of nb_SCCs entries.
TagsReachable ==
  pc # "tag" =>
    /\ Tagged = {s \in State : Reaches(succ, initial, s)}
    /\ {tag[s] : s \in Tagged} = 0 .. nb_SCCs - 1

\* compute_SCC_dag finds the origin of a component by comparing the spot and
\* low that the search before it left in the arrays, and marks visited states
\* in the array that served as "on the stack": the DAG it leaves is the whole
\* quotient graph and each component has the origin from which its members
\* were discovered.
DagIsQuotient ==
  pc \in {"final", "done"} =>
    /\ nexts = {<<tag[e[1]], tag[e[2]]>> :
                  e \in {x \in Tagged \X Tagged : x[2] \in succ[x[1]]
                                                 /\ tag[x[1]] # tag[x[2]]}}
    /\ \A i \in DOMAIN origin :
         /\ origin[i] \in Tagged
         /\ tag[origin[i]] = i
         /\ \A s \in Tagged : tag[s] = i => spot[origin[i]] <= spot[s]

\* A component is accepting exactly when a reachable final state lies in it.
FinalsExact ==
  pc = "done" =>
    \A i \in DOMAIN final_SCCs :
      final_SCCs[i] <=> \E s \in final : Reaches(succ, initial, s) /\ tag[s] = i

\* The search hands out numbers as SCCOrder demands, and hands them all out.
Order == INSTANCE SCCOrder
ImplementsOrder == Order!Spec

\* compute_SCC returns.
Terminates == <>(pc = "done")

-----------------------------------------------------------------------------
(* The inductive invariant of the first search *)

\* Frames whose state has been discovered, oldest first.
ReadyFrames == {i \in DOMAIN callStack : callStack[i].ready}
FrameState(i) == callStack[i].state

\* Tarjan's stack lists the discovered states that have no number yet, in the
\* order of their discovery.
StackInv ==
  /\ \A s \in State : stackMem[s] <=> \E i \in DOMAIN stack : stack[i] = s
  /\ \A i, j \in DOMAIN stack : i < j => spot[stack[i]] < spot[stack[j]]
  /\ \A s \in State : spot[s] # -1 <=> stackMem[s] \/ s \in Tagged
  /\ \A s \in State : stackMem[s] => s \notin Tagged
  /\ \A s \in State : -1 <= spot[s] /\ spot[s] < time
  /\ \A s, t \in State : spot[s] = spot[t] /\ spot[s] # -1 => s = t

\* The call stack is a path of discovered states on Tarjan's stack; only its
\* last state may be waiting to be discovered.
CallStackInv ==
  /\ \A i \in DOMAIN callStack :
       IF callStack[i].ready
       THEN stackMem[FrameState(i)] /\ callStack[i].todo \subseteq succ[FrameState(i)]
       ELSE i = depth /\ spot[FrameState(i)] = -1
  /\ \A i \in DOMAIN callStack : i > 1 =>
       FrameState(i) \in succ[FrameState(i - 1)]
  /\ \A i, j \in ReadyFrames : i < j => spot[FrameState(i)] < spot[FrameState(j)]
  /\ \A i \in ReadyFrames : low[FrameState(i)] <= spot[FrameState(i)]

\* The edge from s to c is still to be visited, or is the one being followed.
Unvisited(s, c) ==
  \/ \E i \in ReadyFrames : FrameState(i) = s /\ c \in callStack[i].todo
  \/ /\ depth > 1
     /\ ~Top.ready
     /\ c = Top.state
     /\ s = FrameState(depth - 1)

\* The edge from s to c was visited and leads to Tarjan's stack: below each
\* frame that s lies above, some frame at or above it has a low link that
\* accounts for c, and is itself no younger than s.
Accounted(s, c) ==
  /\ stackMem[c]
  /\ \A i \in ReadyFrames : spot[FrameState(i)] <= spot[s] =>
       \E k \in ReadyFrames : /\ i <= k
                              /\ spot[FrameState(k)] <= spot[s]
                              /\ low[FrameState(k)] <= spot[c]

VisitedInv ==
  \A s \in State : stackMem[s] =>
    \A c \in succ[s] : Unvisited(s, c) \/ c \in Tagged \/ Accounted(s, c)

\* Numbers given out so far.
NumberInv ==
  /\ \A s \in State : -1 <= tag[s] /\ tag[s] < nb_SCCs
  /\ TagsOrdered

\* A frame reaches the states that lie above it on Tarjan's stack ...
FramesReach ==
  \A i \in ReadyFrames : \A s \in State :
    stackMem[s] /\ spot[FrameState(i)] <= spot[s] => Reaches(succ, FrameState(i), s)

\* ... every state of Tarjan's stack reaches the last frame that it lies above ...
ReachFrames ==
  \A s \in State : stackMem[s] =>
    \E k \in ReadyFrames : /\ spot[FrameState(k)] <= spot[s]
                           /\ Reaches(succ, s, FrameState(k))
                           /\ \A j \in ReadyFrames : j > k => spot[FrameState(j)] > spot[s]

\* ... and a low link is the discovery time of a state that is reached.
LowReached ==
  \A i \in ReadyFrames : \E s \in State :
    /\ stackMem[s]
    /\ spot[s] = low[FrameState(i)]
    /\ Reaches(succ, FrameState(i), s)

ReachInv == FramesReach /\ ReachFrames /\ LowReached

\* The search covers what the initial state reaches and wastes no number.
CoverInv ==
  /\ \A s \in Tagged : Reaches(succ, initial, s)
  /\ \A i \in 0 .. nb_SCCs - 1 : \E s \in Tagged : tag[s] = i
  /\ IF pc = "tag" /\ callStack # <<>>
     THEN FrameState(1) = initial
     ELSE initial \in Tagged

\* The first search keeps what makes its pops right; later only the numbers
\* it gave matter.
SearchInv ==
  /\ NumberInv
  /\ CoverInv
  /\ pc = "tag" => StackInv /\ CallStackInv /\ VisitedInv /\ ReachInv
=============================================================================
