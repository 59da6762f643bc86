----------------------------- MODULE Inclusion -----------------------------
(***************************************************************************)
(* FORKLIFT's inclusion(A, B, witness): is the LimSup value of every word  *)
(* in A at most its value in B?                                            *)
(*                                                                         *)
(* Two stem fixpoints, first with maximal, then with minimal sets.  Then,  *)
(* for every final state of A, every maximal set W kept there and every    *)
(* first symbol, a loop fixpoint; every loop context V that leads W into   *)
(* itself is tried with every minimal set U within W.  The stem fixpoints  *)
(* are those of FixpointStem, the loop fixpoint that of FixpointLoop; the  *)
(* membership query is what Membership shows it to compute.                *)
(***************************************************************************)
EXTENDS FixpointStem, FixpointLoop, Lasso

CONSTANTS
  Settings,  \* the final states and least values to take: finalA, finalB, minDomain
  None

ASSUME InclusionAssumption ==
  /\ \A S \in {StateA, StateB, Symbol, Weight} : IsFiniteSet(S)
  /\ Symbol # {}
  /\ Settings \subseteq [finalA : SUBSET StateA, finalB : SUBSET StateB, minDomain : Int]
  /\ None \notin BOOLEAN \cup Entry \cup (Seq(Symbol) \X Seq(Symbol))

VARIABLES
  finalA,     \* the final states of A
  minDomain,  \* B->getMinDomain()
  postIrev,   \* the entries of the first stem fixpoint, once reached
  postI,      \* those of the second
  jobs,       \* the states of A with the entries W that have not been tried
  job,        \* the one being tried
  symbols,    \* the first symbols it has left, the current one included
  phase,      \* what inclusion is doing
  result,     \* what it returned
  witness     \* the stem and the period of *witness

automata == <<edgesA, edgesB, finalA, finalB, minDomain>>
loopControl == <<postIrev, postI, jobs, job, symbols>>
vars == <<automata, reversed, stemTables, loopTables, loopControl, phase, result, witness>>

Init ==
  /\ StemInit
  /\ reversed = TRUE
  /\ \E x \in Settings :
       finalA = x.finalA /\ finalB = x.finalB /\ minDomain = x.minDomain
  /\ contexts = {} /\ fresh = {} /\ held = {} /\ moves = {} /\ from = None
  /\ postIrev = {} /\ postI = {}
  /\ jobs = {} /\ job = None /\ symbols = {}
  /\ phase = "postIrev"
  /\ result = None
  /\ witness = None

Stem ==
  /\ phase \in {"postIrev", "postI"}
  /\ StemStep
  /\ UNCHANGED <<finalA, finalB, minDomain, loopTables, loopControl, phase, result, witness>>

\* The second FixpointStem is made when the first has come to an end.
SecondStem ==
  /\ phase = "postIrev"
  /\ StemOver
  /\ postIrev' = content
  /\ reversed' = FALSE
  /\ content' = {FirstEntry}
  /\ updates' = {FirstEntry}
  /\ buffer' = {}
  /\ todo' = Round({FirstEntry})
  /\ phase' = "postI"
  /\ UNCHANGED <<automata, loopTables, postI, jobs, job, symbols, result, witness>>

MaxWeightValue(s) ==
  LET out == {e.weight : e \in {d \in edgesA : d.from = s}}
  IN CHOOSE v \in out : \A w \in out : w <= v

\* Fault: acceptance is not looked at.
TriedAny(s) == minDomain < MaxWeightValue(s)

\* The states the loop over stateA_id goes on with.
Tried(s) == s \in finalA /\ minDomain < MaxWeightValue(s)

Combine ==
  /\ phase = "postI"
  /\ StemOver
  /\ postI' = content
  /\ content' = {}
  /\ jobs' = {x \in postIrev : Tried(x.state)}
  /\ phase' = "loops"
  /\ UNCHANGED <<automata, reversed, updates, buffer, todo, loopTables, postIrev, job,
                 symbols, result, witness>>

Least(S) == CHOOSE a \in S : \A b \in S : a <= b

\* States of A by their ids, the entries of a state in any order.
NextJob(w) ==
  /\ phase = "loops"
  /\ job = None
  /\ w \in jobs
  /\ w.state = Least({x.state : x \in jobs})
  /\ jobs' = jobs \ {w}
  /\ job' = w
  /\ symbols' = Symbol
  /\ LoopStart(w.state, w.set, Least(Symbol))
  /\ UNCHANGED <<automata, reversed, stemTables, postIrev, postI, phase, result, witness>>

Loop ==
  /\ phase = "loops"
  /\ LoopStep
  /\ UNCHANGED <<finalA, minDomain, reversed, stemTables, loopControl, phase, result, witness>>

\* V leads W into itself.
relevance_test(W, c) == \A t \in c.first : t[2] \in W

fast_membership(U, v, threshold) ==
  Accepts(WordProfile(edgesB, finalB, v), U, threshold)

\* The pairs of a set U and a loop V that the two innermost loops reject.
Rejects ==
  {c \in postI \X contexts :
     /\ c[1].state = job.state
     /\ c[2].state = job.state
     /\ relevance_test(job.set, c[2].context)
     /\ c[1].set \subseteq job.set
     /\ ~fast_membership(c[1].set, c[2].word, c[2].value)}

NoTables == contexts' = {} /\ fresh' = {} /\ held' = {} /\ moves' = {} /\ from' = None

\* All sets and loops pass: on to the next symbol, or to the next job.
Passed ==
  /\ phase = "loops"
  /\ job # None
  /\ LoopOver
  /\ Rejects = {}
  /\ symbols' = symbols \ {Least(symbols)}
  /\ IF symbols' = {}
     THEN job' = None /\ NoTables
     ELSE LoopStart(job.state, job.set, Least(symbols')) /\ UNCHANGED job
  /\ UNCHANGED <<automata, reversed, stemTables, postIrev, postI, jobs, phase, result, witness>>

Return(answer, lasso) ==
  /\ phase' = "returned"
  /\ result' = answer
  /\ witness' = lasso
  /\ postIrev' = {} /\ postI' = {} /\ jobs' = {} /\ job' = None /\ symbols' = {}
  /\ NoTables
  /\ UNCHANGED <<automata, reversed, stemTables>>

\* return false, with the stem of U and the period of V.
Refuted ==
  /\ phase = "loops"
  /\ job # None
  /\ LoopOver
  /\ \E c \in Rejects : Return(FALSE, <<c[1].word, c[2].word>>)

Included ==
  /\ phase = "loops"
  /\ job = None
  /\ jobs = {}
  /\ Return(TRUE, None)

Next ==
  \/ Stem
  \/ SecondStem
  \/ Combine
  \/ \E w \in jobs : NextJob(w)
  \/ Loop
  \/ Passed
  \/ Refuted
  \/ Included

\* After its return nothing is left to do.
Returned == phase = "returned" /\ UNCHANGED vars

Spec == Init /\ [][Next \/ Returned]_vars
-----------------------------------------------------------------------------
(***************************************************************************)
(* Properties                                                              *)
(***************************************************************************)

\* The tables of one part are empty while another runs, and an answer comes
\* with a witness exactly when it is FALSE.
TypeOK ==
  /\ StemTypeOK
  /\ phase \in {"postIrev", "postI", "loops", "returned"}
  /\ \A x \in contexts \cup fresh \cup held : x.state \in StateA /\ x.word \in Seq(Symbol)
  /\ phase \in {"postIrev", "postI"} => contexts = {} /\ job = None
  /\ (result # None) = (phase = "returned")
  /\ (result = FALSE) = (witness # None)

\* Every path of A from a state, with its largest weight and the profile in B
\* of its word: by adding a letter to each until nothing is new.
Steps(s) ==
  {[to |-> e.to, value |-> e.weight, profile |-> LetterProfile(edgesB, finalB, e.symbol)] :
     e \in {d \in edgesA : d.from = s}}

Continued(p, q) ==
  [to |-> q.to, value |-> Larger(p.value, q.value), profile |-> Compose(p.profile, q.profile)]

Path == [to : StateA, value : Weight, profile : SUBSET (StateB \X StateB \X Weight \X BOOLEAN)]

LoopsFrom(s) ==
  LET grown[all \in SUBSET Path] ==
        LET next == all \cup UNION {{Continued(p, q) : q \in Steps(p.to)} : p \in all}
        IN IF next = all THEN all ELSE grown[next]
  IN {p \in grown[Steps(s)] : p.to = s}

\* Language inclusion, a word that B rejects being worth less than any value:
\* no lasso of A through a final state has a value that B
\* does not reach on its word.
LanguageIncluded ==
  \A s \in finalA :
    \A p \in {q \in Pairs : q[1] = s}, l \in LoopsFrom(s) :
      Accepts(l.profile, p[2], l.value)

\* When the loop over stateA_id leaves out nothing that matters: every final
\* state has an edge above the least value of B, or nothing is rejected and B
\* has a value of at least its least for every word.
NothingSkipped(GA, GB, x) ==
  \/ \A e \in GA : e.from \in x.finalA => \E d \in GA : d.from = e.from /\ x.minDomain < d.weight
  \/ /\ x.finalA = StateA /\ x.finalB = StateB
     /\ \A s \in StateB, a \in Symbol : \E e \in GB : e.from = s /\ e.symbol = a
     /\ \A e \in GB : x.minDomain <= e.weight

\* Automaton.h:209, "Checks if A(w) <= B(w) for all w": the antichains, their
\* pruning and the states left out never change the answer.
InclusionExact == result # None => result = LanguageIncluded

AfterStem(edges, start, u) ==
  LET after[k \in 0..Len(u)] ==
        IF k = 0 THEN {start}
        ELSE {e.to : e \in {d \in edges : d.from \in after[k - 1] /\ d.symbol = u[k]}}
  IN after[Len(u)]

\* The word reported really has a higher value in A than in B, whichever of
\* the entries of the antichains it was put together from.
WitnessRefutes ==
  result = FALSE =>
    \E t \in Weight :
      /\ Accepts(WordProfile(edgesA, finalA, witness[2]), AfterStem(edgesA, InitA, witness[1]), t)
      /\ ~Accepts(WordProfile(edgesB, finalB, witness[2]), AfterStem(edgesB, InitB, witness[1]), t)
=============================================================================
