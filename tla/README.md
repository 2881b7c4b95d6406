# Verification of the Broadway data-flow pass

The repository is an LLVM 3.x pass that runs data-flow analyses described by
Broadway annotations: a `.pal` file declares properties (small trees of property
values) and the effect of library procedures on them, a Python parser turns it
into JSON, and the pass solves one data-flow problem per property and function.
This directory holds TLA+ models of that program, what TLC checks about them and
what TLAPS proves. Paths below are relative to the repository.

## 1. Inventory

| Component | Where | State | Operations | Interacts with |
|---|---|---|---|---|
| Lattice object | `pass/Utils.h` | `parents`, `sets`, `properties`, default name | add, remove, copy, clone, compare; `MeetIntersect`, `MeetUnion` | owned by value by solver and visitor |
| Flow set | `pass/Utils.h:21-27` | elements, phi sets per edge, universal flag | meet | inside a lattice object |
| Worklist solver | `pass/DataFlow.h` | `inStates`, `outStates`, `worklist`, `initial`, `direction`, `meet` | `initializeState`, `run`, `getInState`, `getOutState` | called by the pass, calls the visitor per block |
| Call visitor | `pass/BroadwayPass.cpp:13-68` | a lattice, the local `arg` | `visitCallInst` | reads annotations, writes the end state of a block |
| Annotation trees | `pass/BroadwayAST.*` | pointers, rules, operations | constructors from JSON, `findDefinition` | read by the visitor |
| Property reader | `pass/BroadwayPass.cpp:132-168` | `analyzers` | `processPropertyAnnotations` | makes one solver per property |
| Pass driver | `pass/BroadwayPass.cpp:72-130` | `analyzers`, `procedures`, `instructions` | `doInitialization`, `runOnFunction` | LLVM's pass manager |
| Alias override | `pass/BroadwayPass.cpp:183-229` | `AliasSetTracker` | `alias`, `processCallInstPointers` | LLVM's alias analyses |
| Annotation parser | `python-parser/` | the stack of a grako parser | semantic actions | writes the JSON |
| Pointer analysis | `reference/ClientDriven/Main_DFA_Algo.cpp`, `model/` | locations, ordered definitions and uses, points-to sets, a `ProcedureInfo` with worklist, callsite, external inputs and outputs per procedure, `needs_reanalysis` | interprocedural, sparse pointer analysis, flow- and context-sensitive or not | a separate, earlier project, with its own LLVM pass; calls its client at assignments, calls and library calls |
| Annotation client | `reference/ClientDriven/AnnotationPass/` | `propMap`, from memory blocks to property values; errors and warnings | `at_lib_call`, `evalCondition`, `handleReports` | called by the pointer analysis at every library call; reads annotations |
| Upstream compiler | `reference/bdwy`, and its copy in `reference/ClientDriven/AnnotationPass/{cbz,bdwy}` | | | third-party snapshot; only `enum_property.cc`, which the annotation client calls, is modelled |
| Inputs | `broadway-c/*.pal`, `pass/*.json`, `pass/samples`, `papers`, `grammar` | | | assets |

The pass does not build at this commit (`BroadwayPass.cpp:208` uses an undeclared
`effect`). Everything modelled is read from the source as if that line, whose
result is unused, were absent.

### What is hard here

Nothing runs concurrently. The difficulty is in orders and in long sequences of
calls:

* the solver visits blocks from the back of a `SetVector`, in an order that depends
  on block layout and on LLVM's use lists, against neighbours it has not visited;
  a missed requeue or a wrong first visit shows only on particular graphs;
* the solver object lives as long as the module: `initial`, `inStates` and
  `outStates` are carried from function to function, every function is initialised
  twice;
* a lattice object must stay a tree of sets under any mix of additions, removals
  and meets;
* states are rebuilt, when handed out, in an order that is not that of the tree;
* the visitor has a local variable that is read before it is assigned, and names
  are looked up in structures where they may repeat;
* the tree of a property is assembled bottom-up out of flattened lists;
* the client-driven analysis keeps values only where they change: what a pointer
  points to is found by searching a list whose order depends on the order in which
  definitions were made, and merge points appear while the worklist runs;
* a procedure has one worklist, one callsite and one mark for reanalysis, whatever
  calls it has; its inputs are discovered after they were to be passed;
* the annotation client has one value per memory block and no say in which blocks
  are visited again.

`PROJECT.json` lists these under `hazards`, each at its line.

## 2. Modules

| Module | Models | Correspondence |
|---|---|---|
| `BroadwayLattice` | the methods of `BroadwayLattice<T>` as operators | a lattice is the map `sets`, `[Property -> SUBSET Value]`; recursion over `parents` is the set `Above[q]` of a name and its ancestors, the stack loop of `removeFromProperty` is `Below(q)`; beside them the recursion and the loop as the code writes them, which are proved to come to the same |
| `LatticeObject` | two objects, one action per method | `meet` is the solver's member that decides which meet `applyMeet` uses |
| `MCLatticeObject` | instance for TLC | |
| `FlowSets` | `flow_set` with phi sets and universal flag, the whole of `MeetIntersect` for one name | operators on top of `BroadwayLattice`: a set is a record of the three fields |
| `FlowGraph` | functions, direction, transfer function, and what a solution is | constants with assumptions |
| `DataFlow` | `DataFlowPass` as `runOnFunction` drives it | one action per call and per turn of the worklist loop (a turn that transfers, a turn that does not) |
| `DataFlowReport` | `getInState`, `getOutState` | operators on the states of `DataFlow`; `RebuiltTo(L)[i]` is the local `values` after `i` names |
| `AnalysisAnswers` | abstract: a function is begun and, later, finished with the greatest solution | no worklist, no order |
| `DataFlowRefinement` | the mapping from `DataFlow` to `AnalysisAnswers` | an answer appears when `run` returns |
| `MCDataFlow` | instances for TLC: loops over three blocks, all graphs over two, one or two functions, the trees of `memory.pal` | |
| `BroadwayVisitor` | `visitCallInst`, `findDefinition`, `getArgumentForPointer` | an entry pointer is its definitions in the order `findDefinition` tries them, with the parents its constructor gives them (`IsPointer`); uninitialised `arg` is any of `Leftovers` |
| `MCBroadwayVisitor` | small annotations for TLC | |
| `PropertyAnnotations` | `property_value` and `property` of the parser, `processPropertyAnnotations`, the first climb of `addToParents` | one action per grammar action, list element and step of the climb |
| `OrderedDefs` | the list of definitions of a memory block, `model/Defs.cpp` | pure operators; the dominance relation is a parameter, as the set of locations that dominate the one in hand |
| `ProcedureDB` | who calls whom, ancestors, scope, which calls count as recursive: `model/ProcedureDB.cpp` | operators on a program |
| `Locations` | the tree of locations, `find_common_ancestor`, `strictly_dominates`, reverse post-orders: `model/Location.cpp` | a location is the calls that lead to it, a block and a position in it |
| `SparsePointers` | the context-sensitive pointer analysis: `analyze_proc`, `eval_phi`, `handle_store`, `handle_call`, `place_phis`, `place_callsite_phis`, `record_extern_io` | one action per block taken, store visited, call entered, passed over or left, and block ended; and, to compare with, the executions of the program analysed |
| `MCSparsePointers` | all programs of three blocks with few stores to two pointers, and programs that call a procedure with a branch | |
| `ProcedureCalls` | calls and what is kept of them in both modes: `setup_call`, `pass_external_inputs`, skipping, `record_extern_io`, `pass_external_outputs`, `mark_for_reanalysis`, the loop of `runOnModule` | one action per statement, kind of call, and return; `stack` is the C++ stack of `analyze_proc` |
| `MCProcedureCalls` | programs of main, two procedures and a declaration | |
| `EnumProperty` | `number_values`, `meet`, `at_least`, `at_most`, `merge_enumvalue_set` of a declared property | operators on the tree of values (`IsTree`), which are recursive functions |
| `AnnotationAnalysis` | `at_lib_call` with rules, conditions, effects and reports, inside the worklist loop of the pointer analysis | one action per call visited, block taken and ended; and, to compare with, the executions of the program |
| `MCAnnotationAnalysis` | the test programs of `AnnotationPass/test` with their annotations, and small programs | |
| `TreeProofs`, `LatticeProofs`, `DataFlowProofs`, `BroadwayVisitorProofs`, `PropertyAnnotationsProofs`, `SparsePointersProofs`, `ProcedureCallsProofs`, `AnnotationAnalysisProofs` | theorems and proofs | `TreeProofs` is about `BroadwayLattice` and is used by `LatticeProofs` and `DataFlowProofs` |

`DataFlow` composes `FlowGraph` and, through it, `BroadwayLattice`. `FlowSets`
justifies that composition: nothing in the pass fills phi sets or sets the
universal flag, and on such sets the meet is the intersection `BroadwayLattice`
defines (`MeetMatchesFlowSets`, proved for every tree and set of values).
`SparsePointers` composes `OrderedDefs` and `Locations`, which rests on
`ProcedureDB`, as `ProcedureCalls` does. `BroadwayVisitor` is the one transfer function of the pass; `DataFlow`
takes any transfer function (`Transfer`), and TLC's instances use assignments of
property values, which is what an effect does when it is recorded.

Abstractions, in one place: names and values are model values or strings; the
analyzers of a pass share no state and are solved one after the other, so one
analyzer is modelled; the layout and use lists of LLVM are any order, chosen at
each insertion; states of a block that is no key of the maps are the empty
lattice (`operator[]` would make an object without properties; every block of a
function is a key once `initializeState` ran); printing is left out;
`deleteValue` and the alias tracker do not touch the solver's state.

The programs of `SparsePointers` store addresses, copies and through pointers, and
call procedures without arguments; a load is part of the store that uses it
(`eval_expr` evaluates loads there). A call ends its block but for a branch, which
is what `SplitPass` prepares. Uses are not kept: `generate_uses` recomputes the
reaching definition before it is read, with `ci_nearest_def_at`, whose climb to the
callsites is modelled too: it matters for a local of `main` that a procedure called
reads where nothing dominates. The flow-insensitive mode, in which a block
has one definition wherever one looks, is the same analysis with a single location.
What LLVM computes (dominators, frontiers, reverse post-orders) is defined from the
graph; blocks that cannot be reached are left out, for which `ProcedureInfo` has no
place in its order.

`ProcedureCalls` looks at the same calls from the other side. It has what
`SparsePointers` leaves out, the context-insensitive mode with external inputs and
outputs, and leaves out what the pointers point to: whether an input changed since
it was passed last is nondeterministic, except that the first time is a change. For
parameters that is the first call from anywhere: context-insensitively they are
defined in one place for all callsites, and a first call from a second callsite may
be skipped. A procedure is a run of statements without branches; its definitions are strong and
flow-sensitive (`add_extern_output` makes an input only of a weak one).

`AnnotationAnalysis` takes the points-to sets of arguments to be final and lets the
pointer analysis go back to the blocks after any block, up to `MaxRevisits` times:
the visits a client sees depend on pointers it does not look at. The order of
`std::set<Mem_Block*>` is any order of addresses. Names that an annotation does not
declare become the first argument, as `operator[]` of the two maps makes them.

## 3. Runs

All runs finish in about a minute or less. `CHECK_DEADLOCK FALSE` stands where
the program really stops: all functions analysed, a crash, an initialised or
aborted pass, the end of an analysis.

| Run | Question | Bounds, and why they are enough |
|---|---|---|
| `lattice_calls` | Do mixed method calls keep the tree shape, with either meet? | the MemoryLeak tree (a fork under a chain) and two program values: values do not interact, the fork gives unrelated names, two objects are what a meet needs |
| `solver_module` | Does the loop lose no change, return the right result, end, and implement the abstract specification, also over two functions? | one function of three blocks with a cycle of two, without or with a self-loop, code in the second; and two functions, all graphs over the two blocks of the first (self-loops, unreachable blocks), each with code that assigns values of the other, so that what is carried over is exercised. The proofs are about every graph |
| `solver_backward` | The same in the other direction, and what do clients see? | all graphs over two blocks, the forked tree, blocks with two assignments |
| `report_memory_leak` | Are states handed out as computed? **Violated** | as above |
| `call_visitor` | Does the climb end at the entry pointer, whatever is named twice? | all structures of up to three definitions over three names, with and without another entry pointer before |
| `call_visitor_effect` | Is an effect recorded? **Violated** | the annotation of `free` |
| `property_trees` | Does the lattice object have the tree of the text, and does the first climb end? | every text of up to four values over four names, "bottom" for one, repetitions included, with each of the names or none as the default: also one that is no value of the text |
| `sparse_pointers` | Does the sparse analysis agree with the executions of the program, does it end, and when are definitions out of order? | every graph over three blocks (two loops, joins, self-loops), two pointers, of which the first block sets one, up to two stores in one block and one in another; and two blocks that may loop and call a procedure with a branch, or one that calls itself; every admissible worklist order, both modes: enough for a merge to be placed after a store of its block, for a value to travel around a loop, and for a call to be made from two places. Flow-insensitively with loops, which the property leaves out, three blocks would be too few: what is missed there takes four (below) |
| `sparse_calls` | Is the value found at any location? **Violated** | the programs with calls |
| `annotation_analysis` | Does the client find what the annotations say, and no more? | the tests with their four blocks; all programs of two blocks, one of them a loop, with up to two calls of three procedures of `taintedness.pal` on two memory blocks; two revisits. A copy chain needs two calls, a missed value a revisit |
| `procedure_calls` | Does one `ProcedureInfo` per procedure suffice, and is everything analysed that must be? | main with up to three statements, two procedures that call each other, themselves and a declaration, one global: recursion through both, two callsites in one caller and in two, inputs two calls deep |
| `procedure_calls_end` | Does the loop over main end? **Violated** | as above |

### Findings

1. `getInState` and `getOutState` rebuild a state with `addToProperty`, name by
   name in alphabetical order. Each call removes the value from the sets filled
   before, so the last name wins, not the most precise one. In `MemoryLeak`,
   `Deallocated` sorts before `Error` and `MaybeDeallocated`: a value known to be
   deallocated is handed out as `MaybeDeallocated` (`DataFlow.h:161`, against
   `DataFlowAnnotator.h:12-16`). `ReportIsSafe` and `ReportIsExactInOrder` bound
   the damage: nothing wrong is claimed, and names that follow their ancestors in
   the alphabet are exact (all of `HeapCount`).
2. `visitCallInst` breaks out of the loop as soon as it has found the argument,
   before the `addToProperty` that follows in the loop body; no effect is recorded
   for an operand. The statement is reached only for entry pointers that do not
   start at an argument, with an `arg` that was not assigned
   (`BroadwayPass.cpp:29-45`, against `memory.pal:172-174`).
3. Locations are compared by the children of their common ancestor, so what is in a
   branch of a procedure called dominates all that follows the call
   (`Location.cpp:59-66`, against `report/report.tex:120`). In the counterexample a
   store in that branch is found behind the call, also on the path around it, and
   the value from before the call is lost. `SoundWhereOrdered` shows that nothing is
   lost where each exit of the procedure has the definition the search finds.
4. Context-insensitively, a use of a global in `main` is a new external input and
   marks `main` (`Main_DFA_Algo.cpp:1341`); nothing ever clears `needs_reanalysis`, so
   the loop of `runOnModule` (`Main_DFA_Algo.cpp:140-145`) does not end. Upstream the
   query erases the mark and the loop is limited.

Six more were met while modelling and proving. They have no run of their own, because
a passing run with its precondition says more:

* the grammar makes `default` optional (`broadway.ebnf:42`, so used in
  `plapack.pal:22`) and takes any name after it (line 48), a misspelt one, too. The
  pass copies it unchecked (`BroadwayPass.cpp:162`) and looks up the empty name, or
  one that the lattice does not have, and `sets.at` throws (`DataFlow.h:69`,
  `Utils.h:69`). `AbortsOnlyIfUndeclared` shows that a property with one outermost
  value throws for no other reason, and `InitializationEnds` that it does throw then;
* a text that puts a name below itself, such as `{ A { B { A }}}`, makes a cycle of
  parents, because `emplace` keeps the first, and the climb from its default recurs
  for ever (`Utils.h:70`). `InitializationEnds` shows that a name used for several
  values does no harm otherwise;
* `Loc::strictly_dominates` uses LLVM's reflexive dominance of blocks
  (`Location.cpp:61`): a statement and the start of its block dominate each other, and
  a loop block with a store that becomes a merge point gets its definitions in the
  wrong order (`Defs.cpp:87`, against `Blocks.h:55`). `DisorderOnlyByMerge` bounds the
  damage to such blocks;
* context-insensitively, a call of a procedure without parameters is skipped before
  anything is known of it (`Main_DFA_Algo.cpp:1056`; the TODO at line 126 would help):
  `CalledAnalysed` is about the context-sensitive mode. In both modes, procedures
  called only from within a cycle of calls are never analysed (`Main_DFA_Algo.cpp:1018`);
* a value of the annotation client that changes makes no block be visited again
  (`Main_DFA_Algo.cpp:275`), so a copy that a loop runs before its source is set is
  missed unless the pointers happen to demand it; `FoundWithoutLoops` excludes loops;
* flow-insensitively a loop can hide a value. A changed set queues the blocks reachable
  from the block that changed it (`Main_DFA_Algo.cpp:286`), but the one set of a pointer
  is read everywhere. Let `b1` lead to `b2`, `b2` to `b3` and `b4`, and `b3` back to
  `b2`, with `q := p` in `b2` and `p := &p` in both `b3` and `b4`. In the reverse
  post-order `b1 b2 b4 b3`, `b4` adds the value first and does not reach `b2`; the
  store in `b3` then changes nothing, `b2` is not queued again, and `q` misses the
  value that it has after one turn of the loop, against
  `report/report.tex:220-222` ("contains the information of all the defs it would have
  had in a flow-sensitive solution"; lines 460-461 say that this mode has no tests with
  loops). This came out of the attempt to prove the property without a precondition;
  `SoundWhereOrdered` is about programs without loops in that mode, and there it is
  proved.

### Fairness

`DataFlow` assumes weak fairness of the whole next-state relation: the pass is a
sequential program, and a program that can take a step takes one; nothing is
assumed of which block is visited. `BroadwayVisitor` assumes it for the steps
inside a call only; whether another call follows depends on the block.
`SparsePointers` and `ProcedureCalls` are sequential programs, too, with weak fairness
of their next step; so `AnalysisEnds` is violated by a run that never stops taking
steps. `AnnotationAnalysis` has safety properties only and assumes no fairness.
`PropertyAnnotations` assumes it once the text has ended, not while it is written.

## 4. Proofs

Every theorem holds for all values of the constants under the named assumptions of
the modules. TLC evaluates the assumptions on each run.

| Assumption | What it says | Why the code justifies it |
|---|---|---|
| `ParentAssumption`, `TreeAssumption` (`BroadwayLattice`) | every name has a parent, a name or "bottom"; none is above its own parent | `addToParents` would recur for ever on anything else; `InitializationEnds` and `DeclaredTreeRead` say of which texts the parser makes a tree |
| `BlockAssumption`, `ModulesAssumption`, `TransferAssumption` (`FlowGraph`) | finitely many blocks, functions that share none, transfer functions that map lattices to lattices | LLVM's modules |
| `OrderAssumption`, `TransferUpwardAssumption` (`DataFlowReport`) | the alphabetical order lists every name once; transfer functions keep a value under the ancestors of its names | `properties` is a `std::set`; the visitor changes lattices by `addToProperty` only |
| `CallsAssumption` (`BroadwayVisitor`) | each entry pointer is a list of definitions, the first its own parent, every other with the name of an earlier one (`IsPointer`) | the constructor, `BroadwayAST.cpp:69-86` |
| `NamesAssumption` (`PropertyAnnotations`) | the markers for no parent and for a nested list are no names and no values | they are of other Python types |
| `ProgramsAssumption`, `BlocksAssumption` (`AnnotationAnalysis`) | finitely many memory blocks; a property is a finite tree (`IsTree`); an edge that does not lead forward in the order of the blocks closes a cycle; rules, effects and reports are sequences; a call of a procedure has one argument for each parameter, and one at least if there is a rule | `enum_property.cc:13-31`; the order is a reverse post-order, `ProcedureDB.cpp:184-199`; `at_lib_call` reads `args[0]` of such calls |
| `ProgramsAssumption`, `MemBlockAssumption` (`SparsePointers`) | finitely many blocks and pointers; an entry lies in its procedure and reaches every block of it, an edge stays in its procedure; a statement stores to a pointer or calls a procedure of the program, and a call is the last of its block, which leads on; no location is NULL | a procedure is an LLVM function, and blocks that cannot be reached have no place in the order (`ProcedureDB.cpp:184-199`); `SplitPass` ends blocks at calls |
| `ProgramsAssumption` (`ProcedureCalls`) | the statements of a procedure and its entry belong to the program | the modules of the pass |

`TreeProofs` also takes the names to be finitely many where it says that a recursion
ends, as a hypothesis (`IsFiniteSet(Property)`) of those theorems alone.

**Recursive definitions.** What a recursive function computes is proved in three
steps: a solution of its equation is given without recursion (a least closed set, an
assignment over `Above`, or one built up to `n`, `IterationExists`), so that the
`CHOOSE` behind the definition has something to choose; the function then satisfies
the equation; and a least counterexample, of a well-founded order on naturals or
finite sets (`WFMin`), contradicts it.

* `TreeProofs`: ancestors are closed and transitive, two names that share a
  descendant are comparable or lie on one climb, the intersection of two climbs is a
  climb (`CommonAncestors`), and what a removal leaves of a climb is a climb
  (`RemovalKeepsAncestors`). `AddIsRecursion` and `RemoveIsLoop` say that the two set
  definitions the other modules use, `AddToParents` and `RemoveFromProperty`, are the
  recursion and the stack loop of `Utils.h`. The loop is the harder one: its
  invariant is that what remains to be erased lies below a child of a name on the
  stack (`RemovalTurn`), and it ends because the names on the stack lie apart from
  one another, so that a name taken off never comes back (`TurnShrinks`).
* `LatticeProofs`: type correctness, `UpwardClosed`, `SingleName`,
  `MeetIsCommonAncestor` and `RemovalFallsBack`; that the two definitions match the
  code on what the calls produce; and that on sets without phi values and flag the
  meet is the intersection over any edge (`AlwaysMatchesFlowSets`, from
  `MeetIsIntersection`), with the neighbours of a block in any order, the universal
  set among them (`OrderIndependent`).
* `DataFlowProofs`: `EdgesRespected` and `ResultTellsChange` are not inductive by
  themselves. The inductive invariant is `TypeOK /\ LoopInvariant /\
  EdgesRespected /\ ResultTellsChange`; `LoopInvariant` says which end states are
  current (those of visited blocks are the transfer of the start state, those of
  others are still the initial lattice, and unvisited blocks are queued), which is
  what makes a visit that changes nothing harmless. `SolvedAtReturn` follows with
  an empty worklist, `SecondInitializationIdle` from the same invariant.
  `NothingLost` and `StatesShrink` need a monotone transfer function (`Monotone`):
  the first keeps every solution below the start states, the second compares two
  visits of a block, whose end state `LoopInvariant` knows. With both, each step of
  the solver is a step of `AnalysisAnswers` or leaves it alone
  (`SolverGivesAnswers`). `MCDataFlow` assumes `Monotone` of its transfer function by
  name, and TLC evaluates that.
  What is handed out: after `i` names a value stands under the ancestors of the last
  of them that it has (`RebuiltNames`). The states are upward closed
  (`AlwaysStatesUpward`), so that name's ancestors are names the value has
  (`ReportIsSafe`), and a name that follows its ancestors is the last
  (`ReportIsExactInOrder`).
* `BroadwayVisitorProofs`: `findDefinition` returns the first definition of its name,
  so the name of a parent leads to an earlier position, also where names repeat
  (`AlwaysClimbDescends`), and only the first definition is its own parent
  (`ClimbEndsAtEntryPointer`).
* `PropertyAnnotationsProofs`: the invariant has four parts. Each result of the parser
  is a non-empty list that ends with its root and has the parent of every other
  member as a name (`ResultsOK`); the tree written so far is that of the lists
  (`DeclaredOK`); what the pass has read is values of the lists, and what it has not
  is still to be read (`ReadOK`); the first climb is at a name that was read,
  if its default is a value (`ClimbOK`). The one hard step is the parser's: flattening loses no value and adds
  none (`FlattenHolds`), and the root becomes the parent of the last value of each
  nested list and of no other.
* `SparsePointersProofs`, the lists: for every list and every partial order of
  locations, `make_def_at` keeps the list ordered (`DefinitionsStayOrdered`), because
  whatever dominates the new location stands behind the first that does; and in an
  ordered list the search finds the nearest dominating definition (`FirstIsNearest`).
  The relation of the code is not a partial order (`Location.cpp:61`, above); with one
  that is, the list would keep its promise. Dominance of blocks is one
  (`DominanceIsOrder`): what the entry reaches without a block is a least closed set,
  and two dominators of a block are compared by a walk that avoids one of them.
* `SparsePointersProofs`, `DisorderOnlyByMerge`: it is not inductive, because
  `ComesBefore`, which it speaks of, is not the relation that the code compares with,
  and because a new definition moves between others that were put in an order
  before. The invariant is `TypeInv /\ OneDefinition /\ Excused`. `Excused` says
  that a definition stands before another that it dominates in the sense of the
  code only if a merge of a block that both are in stands in the list, too, no later
  than the latter.
  Dominance in that sense is transitive except through a merge
  (`DominanceAlmostTransitive`), and the exception is just the excuse that an
  insertion needs (`InsertExcused`). Types need that a call is entered in a context
  of the program; contexts are computed as chains as long as there are
  procedures, and `ContextsAreClosed` shows that these are all: a chain without
  recursive calls repeats no procedure.
* `SparsePointersProofs`, `SoundWhereOrdered` flow-insensitively: executions are the
  least set that has the start and is closed under the steps of the program, so what is
  to be shown of them goes by one step (`ExecutionsFollow`), without an induction over
  paths. The invariant (`CoveredSoFar`) says that each frame on the stack is a call
  made where the frame below stands, and that every execution at a location
  the analysis has arrived at is covered: for each frame that leads there, the
  analysis stands at or behind the statement in hand, or the block is not queued. A
  step arrives nowhere new, or at one place, whose executions come from places that
  were covered. Without loops all predecessors of a block come before it in reverse
  post-order (`PredecessorsPassed`), and sets only grow; so one pass is enough, and
  which blocks are queued again does not matter. With loops it does, and the
  counterexample above is where this proof stops.
* `ProcedureCallsProofs`: `NeverReentered` and `CallersFound`, for every program, call
  graph and depth of calls, in both modes. Neither is inductive: that a procedure is
  not entered twice is known of the caller only from its ancestors. The invariant is
  `TypeOK /\ Chain /\ NeverReentered /\ CallersFound`, where `Chain` says that whatever is in
  progress is an ancestor of what it called. A call adds a procedure that is not the
  caller and not an ancestor of it, so it is not in progress (`NotInProgress`) and its
  one `current_callsite` is free; the callers in progress are its ancestors, because
  ancestors are closed under callers (`CallersAreAncestors`).
* `AnnotationAnalysisProofs`: first the tree of one property. The way down from a
  value is the least set closed under `more_general`; lower values have smaller
  heights (`HeightsFall`), so of two different values the higher one can be lowered
  without losing a common lower value (`GreatestMoves`), and `meet` ends at the
  greatest value below both (`MeetGreatestBelow`). The meet of a set does not depend
  on the order in which it is taken (`MergeIsGreatest`). Then a call: an effect
  lowers values only, and not below values that no call can lower (`EffectFacts`); the
  effects of all rules that apply do the same (`RulesFacts`). The invariant is that
  the solver stands at a block and call of the program and the map gives values to
  memory blocks (`TypeInv`), and that every value lies above every flow-insensitive
  assignment (`KeptAbove`), which is `NothingInvented` before the analysis is done.
  `ValuesOnlyFall` is an action property and follows from `TypeInv`: since whatever
  was could-be stays could-be, a report is never taken back. `FoundWithoutLoops` is
  about a finished analysis and not inductive; `FoundSoFar` is: what executions found
  before the call in hand has been found by the client, and with a block in the
  worklist all the blocks after it are there, too. The executions are a least closed
  set here, too, and a block without loops is taken after all those that lead to it.

Only model-checked: termination and what must eventually happen (`EveryFunctionSolved`,
`EveryCallEnds`, `InitializationEnds`, `WorklistRunsEmpty`, `CalledAnalysed`,
`MarkedReached`, `InputsPassed`) and the fairness part of `ImplementsAnswers`, because the
prover has no rule for liveness under fairness (`AlwaysClimbDescends` and the
theorems about recursions are the safety part of some of them); `ExactWhereOrdered`; the
flow-sensitive half of `SoundWhereOrdered`; and `TestsAnswered`, which is about three
given programs. The two comparisons of the flow-sensitive analysis with executions
need more than one pass over the blocks: a strong update forgets values that a later
pass brings back, so an invariant would have to say, for each path from a definition
to its use, which block of it is still queued, and what a merge that is yet to be
placed will change.

## 5. Not modelled, and plan

Not modelled, and why:

* JSON reading and printing, the result annotator (pure I/O); the constructors of
  annotation trees other than pointers (they copy JSON); parser rules without state;
* the variant of the solver for loops (nothing instantiates it);
* `alias` and `processCallInstPointers`: they feed LLVM's `AliasSetTracker`, which is
  not in the repository, line 208 of the latter does not compile, and nothing reads
  its result;
* of the pointer analysis: struct fields, arrays and heap objects, parameters and
  return values, loads apart from their use, and points-to sets in the
  context-insensitive mode, whose calls are in `ProcedureCalls`;
* of the annotation client: must properties, which are a TODO in the code
  (`AnnotationAnalysis.cpp:130`), and exit pointers, which it comments out;
* the example client `ConstantAnalysis.cpp`, `SplitPass.cpp` and the graph printers;
* the compilers in `reference/bdwy` and `reference/ClientDriven/AnnotationPass`
  (C-Breeze, Broadway, their generated parsers and lexers), except
  `enum_property.cc`, which the client calls. They are a third party's snapshot and
  nearly all of the repository's lines, which is why the models stand for a small
  share of them: they cover most of what this project's authors wrote.

Plan, in order:

1. Parameters and return values in `SparsePointers`, then heap objects, which are
   never strongly updated.
2. Points-to sets in the context-insensitive mode: the composition of `SparsePointers`
   and `ProcedureCalls`, and whether `pass_external_outputs` finds the last definition.
3. Composition of `BroadwayVisitor` and `DataFlow`: the transfer function as the
   visitor's loop over the calls of a block, to see which annotations make it
   monotone.
4. Proof of the flow-sensitive half of `SoundWhereOrdered`, from `Excused` and an
   invariant about the paths along which a value still has to travel.
