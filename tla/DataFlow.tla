------------------------------ MODULE DataFlow ------------------------------
(***************************************************************************)
(* The worklist solver DataFlowPass<Function, Transfer, Pass> of           *)
(* src/pass/DataFlow.h, as BroadwayPass::runOnFunction drives it for one   *)
(* analyzer: the functions of a module are initialised, solved and left    *)
(* one after the other, and the object keeps its states and its initial    *)
(* lattice from one function to the next.                                  *)
(*                                                                         *)
(* The parameter Meet is MeetIntersect, the only one the pass passes.  The *)
(* orders that LLVM fixes (layout of the blocks, successor and predecessor *)
(* lists) are chosen at every insertion, so that what holds here holds for *)
(* each of them.                                                           *)
(***************************************************************************)
EXTENDS FlowGraph, Naturals, Sequences

VARIABLES
  remaining,     \* functions the pass manager has still to hand over
  fn,            \* the function in hand or, when idle, the last one
  pc,            \* "idle" between functions, "initialized", "solving"
  initial,       \* the lattice every state starts from
  inStates,      \* the map; a block that is no key has the value Empty
  outStates,
  worklist,      \* SetVector: the last element is visited first
  seen,          \* local of run
  superChanged   \* local of run, its result

vars == <<remaining, fn, pc, initial, inStates, outStates, worklist, seen,
          superChanged>>

\* startStates and endStates of run, references to the two maps.
startStates == IF Forward THEN inStates ELSE outStates
endStates   == IF Forward THEN outStates ELSE inStates

SetStates(start, end) ==
  /\ inStates' = IF Forward THEN start ELSE end
  /\ outStates' = IF Forward THEN end ELSE start

Elements(list) == {list[i] : i \in DOMAIN list}

\* The sequences that list a finite set without repetition.
Orderings(S) ==
  {s \in [1..Cardinality(S) -> S] : \A x \in S : \E i \in DOMAIN s : s[i] = x}

\* as Inserted, but for a vector, which takes an element twice
InsertedTwice(list, S) == {list \o s : s \in Orderings(S)}

\* worklist.insert for every member of S: an element present keeps its place.
Inserted(list, S) == {list \o s : s \in Orderings(S \ Elements(list))}

Init ==
  /\ remaining \in Modules
  /\ fn = None
  /\ pc = "idle"
  /\ initial = Empty
  /\ inStates = [b \in Block |-> Empty]
  /\ outStates = [b \in Block |-> Empty]
  /\ worklist = <<>>
  /\ seen = {}
  /\ superChanged = FALSE

-----------------------------------------------------------------------------
initializeState(f) ==
  /\ initial' = WithValues(initial, f)
  /\ worklist' \in Inserted(worklist, f.blocks)
  /\ inStates' = [b \in Block |-> IF b \in f.blocks THEN initial' ELSE inStates[b]]
  /\ outStates' = [b \in Block |-> IF b \in f.blocks THEN initial' ELSE outStates[b]]

\* The loop of runOnFunction that initialises the analyzers.
runOnFunction(f) ==
  /\ pc = "idle"
  /\ initializeState(f)
  /\ fn' = f
  /\ remaining' = remaining \ {f}
  /\ pc' = "initialized"
  /\ UNCHANGED <<seen, superChanged>>

\* The head of run, which initialises once more.
run ==
  /\ pc = "initialized"
  /\ initializeState(fn)
  /\ seen' = {}
  /\ superChanged' = FALSE
  /\ pc' = "solving"
  /\ UNCHANGED <<remaining, fn>>

\* as MetStart, but the start state is made from the neighbours alone
MetStartAfresh(b) ==
  [q \in Property |->
     {v \in Value : \A p \in FlowPred(fn, b) : v \in endStates[p][q]}]

\* as MetStart, but with the neighbours on the other side
MetStartBackwards(b) ==
  [q \in Property |->
     {v \in startStates[b][q] : \A p \in FlowSucc(fn, b) : v \in endStates[p][q]}]

\* The start state of b after applyMeet with the end state of every neighbour:
\* MeetIntersect folded over them.
MetStart(b) ==
  [q \in Property |->
     {v \in startStates[b][q] : \A p \in FlowPred(fn, b) : v \in endStates[p][q]}]

\* as FirstVisit, but nothing counts as new
FirstVisitNever(b) == FALSE

\* as FirstVisit, but nothing is ever remembered
FirstVisitAlways(b) == TRUE

FirstVisit(b) == b \notin seen

\* One turn of the loop on a block seen before whose start state stays.
visitUnchanged ==
  /\ pc = "solving"
  /\ worklist # <<>>
  /\ LET node == worklist[Len(worklist)]
     IN  ~FirstVisit(node) /\ MetStart(node) = startStates[node]
  /\ worklist' = SubSeq(worklist, 1, Len(worklist) - 1)
  /\ UNCHANGED <<remaining, fn, pc, initial, inStates, outStates, seen,
                 superChanged>>

\* as Requeued, but along the edges the wrong way round
RequeuedBackwards(b) == FlowPred(fn, b)

\* The blocks queued after the end state of b was written.
Requeued(b) == FlowSucc(fn, b)

\* as Reported, but a first visit counts as a change too
ReportedVisit(node, start) == TRUE

\* What superChanged is set for: a change of the start state.
Reported(node, start) == start # startStates[node]

\* One turn of the loop that runs the transfer visitor.
visitChanged ==
  /\ pc = "solving"
  /\ worklist # <<>>
  /\ LET node  == worklist[Len(worklist)]
         rest  == SubSeq(worklist, 1, Len(worklist) - 1)
         start == MetStart(node)
     IN  /\ FirstVisit(node) \/ start # startStates[node]
         /\ seen' = seen \cup {node}
         /\ superChanged' = (superChanged \/ Reported(node, start))
         /\ SetStates([startStates EXCEPT ![node] = start],
                      [endStates EXCEPT ![node] = Transfer(fn.code[node], start)])
         /\ worklist' \in Inserted(rest, Requeued(node))
  /\ UNCHANGED <<remaining, fn, pc, initial>>

\* run returns superChanged and runOnFunction goes on to the next analyzer.
return ==
  /\ pc = "solving"
  /\ worklist = <<>>
  /\ pc' = "idle"
  /\ UNCHANGED <<remaining, fn, initial, inStates, outStates, worklist, seen,
                 superChanged>>

Next ==
  \/ \E f \in remaining : runOnFunction(f)
  \/ run
  \/ visitUnchanged
  \/ visitChanged
  \/ return

\* The pass is a sequential program that the pass manager runs to its end.
Spec == Init /\ [][Next]_vars /\ WF_vars(Next)

-----------------------------------------------------------------------------
(* Properties.                                                             *)

TypeOK ==
  /\ remaining \in SUBSET Functions
  /\ fn \in Functions \cup {None}
  /\ pc \in {"idle", "initialized", "solving"}
  /\ pc # "idle" => fn # None
  /\ initial \in Lattices
  /\ inStates \in [Block -> Lattices]
  /\ outStates \in [Block -> Lattices]
  /\ worklist \in Seq(Block)
  /\ seen \in SUBSET Block
  /\ superChanged \in BOOLEAN

\* What the loop keeps besides EdgesRespected and ResultTellsChange: which end
\* states are up to date, and that nothing but blocks of the function is
\* queued.  With the two it is inductive (DataFlow.h:57-63, 86-151).
LoopInvariant ==
  /\ pc = "idle" => worklist = <<>>
  /\ pc # "idle" => Elements(worklist) \subseteq fn.blocks
  /\ pc = "initialized" =>
       /\ initial = WithValues(initial, fn)
       /\ fn.blocks \subseteq Elements(worklist)
       /\ \A b \in fn.blocks : inStates[b] = initial /\ outStates[b] = initial
  /\ pc = "solving" =>
       \A b \in fn.blocks :
         /\ Leq(startStates[b], initial)
         /\ b \in seen => endStates[b] = Transfer(fn.code[b], startStates[b])
         /\ b \notin seen => b \in Elements(worklist) /\ endStates[b] = initial

\* A block that is not queued has taken the latest end state of each of its
\* neighbours: no change is lost between writing an end state and queueing the
\* blocks that depend on it (DataFlow.h:86-87, 104-116, 142-149).
EdgesRespected ==
  pc = "solving" =>
    \A b \in fn.blocks \ Elements(worklist) : \A p \in FlowPred(fn, b) :
      Leq(startStates[b], endStates[p])

\* When run returns, every block was transferred and the start states respect
\* the equations of the function (DataFlow.h:86-154).
SolvedAtReturn ==
  (pc = "solving" /\ worklist = <<>>) =>
    /\ \A b \in fn.blocks : endStates[b] = Transfer(fn.code[b], startStates[b])
    /\ IsSolution(fn, initial, startStates)

\* No start state is ever less precise than a solution: the blocks are visited
\* in any order, against neighbours that still have the initial state, and yet
\* nothing that holds on all paths is lost (DataFlow.h:99-122).
NothingLost ==
  pc = "solving" =>
    \A X \in Solutions(fn, initial) : \A b \in fn.blocks :
      Leq(X[b], startStates[b])

\* The result of run says whether the start state of some block differs from
\* the initial lattice (DataFlow.h:119-122, 153).
ResultTellsChange ==
  pc = "solving" =>
    (superChanged <=> \E b \in fn.blocks : startStates[b] # initial)

\* Solving only removes facts: from every start state, and from the end state
\* of a block visited before, although each visit writes it anew.  The first
\* visit may replace facts by others.  This is what bounds the number of turns
\* (DataFlow.h:104-144).
StatesShrink ==
  [][pc = "solving" =>
       /\ \A b \in Block : Leq(startStates'[b], startStates[b])
       /\ \A b \in seen : Leq(endStates'[b], endStates[b])]_vars

\* run initialises a second time what runOnFunction initialised, and that
\* changes nothing: no block is queued twice, no state is lost
\* (BroadwayPass.cpp:117-122, DataFlow.h:79).
SecondInitializationIdle ==
  [][run => UNCHANGED <<initial, inStates, outStates, worklist>>]_vars

\* Every function handed over is solved: the worklist runs empty however the
\* blocks are ordered and whatever cycles they form (DataFlow.h:86-151).
EveryFunctionSolved == <>(remaining = {} /\ pc = "idle")
=============================================================================
