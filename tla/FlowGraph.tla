----------------------------- MODULE FlowGraph -----------------------------
(***************************************************************************)
(* The inputs of a data-flow analysis and the equations it has to solve:   *)
(* the LLVM functions as src/pass/DataFlow.h walks them, the template      *)
(* parameter Transfer, the direction, and what a solution is.              *)
(*                                                                         *)
(* A function has basic blocks, the successors of each, the code of each   *)
(* and the values its instructions are, casts stripped.                    *)
(***************************************************************************)
EXTENDS BroadwayLattice, FiniteSets

CONSTANTS
  Block,            \* basic blocks
  Code,             \* what the transfer visitor can meet in a block
  Transfer(_, _),   \* Transfer(c, L): state after visiting code c from state L
  Forward,          \* direction == forward
  InitialName,      \* initial.initial, the property's default value
  Modules,          \* the sets of functions that make up an LLVM module
  None              \* no function

Functions == UNION Modules

ASSUME BlockAssumption == IsFiniteSet(Block)

ASSUME ModulesAssumption ==
  /\ None \notin Functions
  /\ \A f \in Functions :
       /\ f \in [blocks : SUBSET Block, succ : [Block -> SUBSET Block],
                 code : [Block -> Code], values : SUBSET Value]
       /\ \A b \in Block : f.succ[b] \subseteq f.blocks
  /\ \A M \in Modules : \A f, g \in M :
       f # g => f.blocks \cap g.blocks = {}

ASSUME TransferAssumption ==
  /\ InitialName \in Property
  /\ Forward \in BOOLEAN
  /\ \A c \in Code, L \in Lattices : Transfer(c, L) \in Lattices

-----------------------------------------------------------------------------
\* The blocks whose end states are met into the start state of b: pred_begin
\* to pred_end of a forward analysis, succ_begin to succ_end of a backward one.
FlowPred(f, b) == IF Forward THEN {p \in f.blocks : b \in f.succ[p]}
                             ELSE f.succ[b]

\* The blocks whose start states depend on the end state of b.
FlowSucc(f, b) == IF Forward THEN f.succ[b]
                             ELSE {s \in f.blocks : b \in f.succ[s]}

-----------------------------------------------------------------------------
\* The start states X respect the equations of f: no start state is more
\* precise than the base it was initialised with, nor than what the transfer
\* function makes of the start state of a neighbour.
IsSolution(f, base, X) ==
  \A n \in f.blocks :
    /\ Leq(X[n], base)
    /\ \A p \in FlowPred(f, n) : Leq(X[n], Transfer(f.code[p], X[p]))

Solutions(f, base) == {X \in [f.blocks -> Lattices] : IsSolution(f, base, X)}

\* The most precise start states that respect the equations.
Greatest(f, base) ==
  [b \in f.blocks |-> [q \in Property |->
     {v \in Value : \E X \in Solutions(f, base) : v \in X[b][q]}]]

\* A more precise start state has a more precise end state.
Monotone ==
  \A c \in Code, L, M \in Lattices :
    Leq(L, M) => Leq(Transfer(c, L), Transfer(c, M))

\* as WithValues, but "bottom" is taken for a name like the others
WithValuesPastRoot(L, f) ==
  [q \in Property \cup {Bottom} |->
     IF q = Bottom THEN f.values
     ELSE IF q \in Above[InitialName] THEN L[q] \cup f.values
     ELSE L[q] \ f.values]

\* initial.addToProperty(initial.initial, v) for every value of f.
WithValues(L, f) ==
  [q \in Property |-> IF q \in Above[InitialName] THEN L[q] \cup f.values
                                                  ELSE L[q] \ f.values]
=============================================================================
