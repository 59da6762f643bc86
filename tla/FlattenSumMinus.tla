-------------------------- MODULE FlattenSumMinus --------------------------
(***************************************************************************)
(* NestedAutomaton::synchronizeChildren and flatten_Avg_SumMinus: the      *)
(* flattening for averages of sums of negative weights.                    *)
(*                                                                         *)
(* The children become one, whose states also know where the parent is.    *)
(* It emits nothing while the parent calls no child: weights read then are *)
(* accumulated and emitted at the next call, and a child that returns then *)
(* waits for that.  The flattened automaton keeps how many calls are in    *)
(* which state of that child, and emits the sum over all of them.          *)
(*                                                                         *)
(* As in FlattenRegular, a behaviour is a run of the automaton that the    *)
(* code builds with worklists.  running, owed and due follow the calls by  *)
(* the definition of the children's runs, along the letters.               *)
(***************************************************************************)
EXTENDS PreSync, Functions

Bags == INSTANCE BagsExt

CONSTANTS CBound,   \* compute_c_bound: calls in one state
          AccBound  \* cap: the largest sum accumulated, negated

ASSUME SumMinusAssumption ==
  /\ \A w \in Weights : w <= 0
  /\ \A n \in Nested : \A e \in n.edges : e.call # SilentWeight
  /\ CBound \in Nat \ {0}
  /\ AccBound \in Nat

VARIABLES
  parent, bag,   \* the state of the flattened automaton: a bag of SyncKeys
  emitted,       \* the weight of the last edge
  running,       \* the bag of calls that have not returned: child, state
  owed,          \* the sum of all weights read since the last call
  due            \* what the last edge must emit

flat == <<parent, bag, emitted>>
calls == <<running, owed, due>>
vars == <<nested, preSync, flat, calls>>

Silent(e) == e.call = NoChild

-----------------------------------------------------------------------------
(* synchronizeChildren *)

\* The final states of U_sync.
Ended(k) == k.state \in child[k.child].final /\ ~k.pending

\* A child that waits to emit stays where it is.
ChildSteps(k, m) ==
  IF k.pending THEN {[weight |-> 0, to |-> k.state]}
  ELSE {[weight |-> e.weight, to |-> e.to] : e \in In(m.child[k.child], k.state)}

\* Fault: what was accumulated is not cleared when it is emitted.
CallingStepKeeps(k, e, s) ==
  [emit |-> k.acc + s.weight,
   to |-> [k EXCEPT !.parent = e.to, !.state = s.to, !.acc = @ + s.weight, !.pending = FALSE]]

SilentStep(k, e, s) ==
  [emit |-> 0,
   to |-> [k EXCEPT !.parent = e.to, !.state = s.to, !.acc = @ + s.weight,
                    !.pending = k.pending \/ s.to \in child[k.child].final]]

CallingStep(k, e, s) ==
  [emit |-> k.acc + s.weight,
   to |-> [k EXCEPT !.parent = e.to, !.state = s.to, !.acc = 0, !.pending = FALSE]]

\* The edges of U_sync from a state on a letter, at most one.
SyncSteps(k, m) ==
  IF Ended(k) THEN {}
  ELSE UNION {{IF Silent(e) THEN SilentStep(k, e, s) ELSE CallingStep(k, e, s) :
                 s \in {x \in ChildSteps(k, m) : Silent(e) => -AccBound <= k.acc + x.weight}} :
                e \in In(m.parent, k.parent)}

\* The state a call starts from.
Seed(e) ==
  [parent |-> e.from, child |-> e.call, state |-> child[e.call].initial,
   acc |-> 0, pending |-> FALSE]

-----------------------------------------------------------------------------
(* flatten_Avg_SumMinus *)

Active(e) == IF Silent(e) THEN bag ELSE Bags!BagAdd(bag, Seed(e))

SumOver(B, m) ==
  SumFunction([k \in DOMAIN B |-> B[k] * SumFunction([s \in SyncSteps(k, m) |-> s.emit])])

\* The states the calls of B go to, as far as they do not end there.
Onwards(B, m) ==
  {t \in UNION {{s.to : s \in SyncSteps(k, m)} : k \in DOMAIN B} : ~Ended(t)}

Advance(B, m) ==
  [t \in Onwards(B, m) |->
     SumFunctionOnSet(B, {k \in DOMAIN B : \E s \in SyncSteps(k, m) : s.to = t})]

\* Fault: a call without an edge is dropped.
CanStepSome(B, m) == \A t \in Onwards(B, m) : Advance(B, m)[t] <= CBound

\* step_multiset does not reject the letter.
CanStep(B, m) ==
  /\ \A k \in DOMAIN B : SyncSteps(k, m) # {}
  /\ \A t \in Onwards(B, m) : Advance(B, m)[t] <= CBound

-----------------------------------------------------------------------------
(* The calls, by definition *)

Start(i) == <<i, child[i].initial>>
RunSteps(r, m) == In(m.child[r[1]], r[2])

\* The calls that read the letter, the one made by edge e included.
Reading(e) == IF Silent(e) THEN running ELSE Bags!BagAdd(running, Start(e.call))

WeightsRead(R, m) ==
  SumFunction([r \in DOMAIN R |-> R[r] * SumFunction([d \in RunSteps(r, m) |-> d.weight])])

StillRunning(R, m) ==
  LET to(r) == {<<r[1], d.to>> : d \in RunSteps(r, m)}
      on == {x \in UNION {to(r) : r \in DOMAIN R} : x[2] \notin child[x[1]].final}
  IN  [x \in on |-> SumFunctionOnSet(R, {r \in DOMAIN R : x \in to(r)})]

-----------------------------------------------------------------------------
\* An edge of the flattened automaton.
Letter(m, e) ==
  /\ stage = "flatten"
  /\ CanStep(Active(e), m)
  /\ parent' = e.to
  /\ bag' = Advance(Active(e), m)
  /\ emitted' = SumOver(Active(e), m)
  /\ running' = StillRunning(Reading(e), m)
  /\ owed' = IF Silent(e) THEN owed + WeightsRead(Reading(e), m) ELSE 0
  /\ due' = IF Silent(e) THEN 0 ELSE owed + WeightsRead(Reading(e), m)
  /\ UNCHANGED <<nested, preSync>>

Init ==
  /\ PreSyncInit
  /\ parent = InitialParent
  /\ bag = << >>
  /\ emitted = 0
  /\ running = << >>
  /\ owed = 0
  /\ due = 0

Prepare == PreSyncNext /\ UNCHANGED <<flat, calls>>

Next == Prepare \/ \E m \in letters : \E e \in In(m.parent, parent) : Letter(m, e)

Spec == Init /\ [][Next]_vars

-----------------------------------------------------------------------------
(* Properties *)

\* What is emitted at a call is all that the children read since the call
\* before, those included that returned meanwhile; and nothing is emitted on
\* other edges (the code gives up if something is).
EmittedExact == emitted = due

\* The copies of the parent's state that the calls carry agree with it, no call
\* that has returned and emitted is kept, and what is accumulated is bounded.
InStep ==
  \A k \in DOMAIN bag :
    /\ k.parent = parent
    /\ ~Ended(k)
    /\ k.acc \in -AccBound .. 0

\* On an edge that calls no child no call emits anything: the code gives up if
\* one does, since U_sync has its own idea of what the parent does.
Quiet ==
  \A m \in letters : \A e \in In(m.parent, parent) :
    Silent(e) => \A k \in DOMAIN bag : \A s \in SyncSteps(k, m) : s.emit = 0

\* A letter is refused exactly when some child cannot read it or has returned
\* before it reads anything, as long as the bounds are not reached.
RefusedExactly ==
  stage = "flatten" =>
    \A m \in letters : \A e \in In(m.parent, parent) :
      LET readable == \A r \in DOMAIN Reading(e) :
                        r[2] \notin child[r[1]].final /\ RunSteps(r, m) # {}
          bounded == /\ SumFunction(Active(e)) <= CBound
                     /\ -AccBound <= owed + WeightsRead(Reading(e), m)
      IN  /\ CanStep(Active(e), m) => readable
          /\ readable /\ bounded => CanStep(Active(e), m)
=============================================================================
