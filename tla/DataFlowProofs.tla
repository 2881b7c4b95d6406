--------------------------- MODULE DataFlowProofs ---------------------------
(***************************************************************************)
(* Theorems about the worklist solver for every lattice, every transfer    *)
(* function, both directions, all functions and all orders of insertion:   *)
(* its invariants, that it implements AnalysisAnswers, and what a client   *)
(* gets to see of its states.                                              *)
(***************************************************************************)
EXTENDS DataFlowRefinement, DataFlowReport, TreeProofs, SequenceTheorems

-----------------------------------------------------------------------------
(* The worklist.                                                           *)

\* An interval that starts with 1 tells its length.
LEMMA IntervalLength ==
  ASSUME NEW m \in Nat, NEW n \in Nat, 1..m = 1..n
  PROVE  m = n
<1>1. CASE m < n
  <2>1. n \in 1..n /\ n \notin 1..m
    BY <1>1
  <2> QED
    BY <2>1
<1>2. CASE n < m
  <2>1. m \in 1..m /\ m \notin 1..n
    BY <1>2
  <2> QED
    BY <2>1
<1> QED
  BY <1>1, <1>2

\* A function on an interval from 1 is a sequence.
LEMMA ListIsSeq ==
  ASSUME NEW T, NEW k \in Nat, NEW s \in [1..k -> T]
  PROVE  s \in Seq(T) /\ Len(s) = k
<1>1. s \in Seq(T)
  BY SeqDef
<1>2. Len(s) \in Nat /\ DOMAIN s = 1..Len(s)
  BY <1>1, LenProperties
<1>3. 1..Len(s) = 1..k
  BY <1>2
<1> QED
  BY <1>1, <1>2, <1>3, IntervalLength

\* Inserting into a worklist adds the blocks and keeps the others.
LEMMA InsertedElements ==
  ASSUME NEW list \in Seq(Block), NEW S \in SUBSET Block,
         NEW w \in Inserted(list, S)
  PROVE  w \in Seq(Block) /\ Elements(w) = Elements(list) \cup S
<1> DEFINE N == S \ Elements(list)
<1>1. PICK s \in Orderings(N) : w = list \o s
  BY DEF Inserted
<1>2. Cardinality(N) \in Nat
  <2>1. IsFiniteSet(N)
    BY BlockAssumption, FS_Subset
  <2> QED
    BY <2>1, FS_CardinalityType
<1>3. s \in [1..Cardinality(N) -> N] /\ \A x \in N : \E i \in DOMAIN s : s[i] = x
  BY <1>1 DEF Orderings
<1>4. s \in Seq(Block) /\ Len(s) = Cardinality(N)
  <2>1. s \in [1..Cardinality(N) -> Block]
    BY <1>3
  <2> HIDE DEF N
  <2> QED
    BY <1>2, <2>1, ListIsSeq
<1>5. Elements(s) = N
  BY <1>3 DEF Elements
<1>6. Elements(list \o s) = Elements(list) \cup Elements(s)
  <2>1. ASSUME NEW x \in Elements(list \o s)
        PROVE  x \in Elements(list) \cup Elements(s)
    <3>0. DOMAIN (list \o s) = 1 .. Len(list) + Len(s)
      BY <1>4
    <3>1. PICK i \in 1 .. Len(list) + Len(s) : x = (list \o s)[i]
      BY <2>1, <3>0 DEF Elements
    <3>2. CASE i <= Len(list)
      <4>1. x = list[i] /\ i \in DOMAIN list
        BY <1>4, <3>1, <3>2, ConcatProperties, LenProperties
      <4> QED
        BY <4>1 DEF Elements
    <3>3. CASE ~(i <= Len(list))
      <4>1. x = s[i - Len(list)] /\ i - Len(list) \in DOMAIN s
        BY <1>4, <3>1, <3>3, ConcatProperties, LenProperties
      <4> QED
        BY <4>1 DEF Elements
    <3> QED
      BY <3>2, <3>3
  <2>2. ASSUME NEW i \in DOMAIN list PROVE list[i] \in Elements(list \o s)
    <3>1. i \in DOMAIN (list \o s) /\ (list \o s)[i] = list[i]
      BY <1>4
    <3> QED
      BY <3>1 DEF Elements
  <2>3. ASSUME NEW i \in DOMAIN s PROVE s[i] \in Elements(list \o s)
    <3>1. Len(list) + i \in DOMAIN (list \o s) /\ (list \o s)[Len(list) + i] = s[i]
      BY <1>4
    <3> QED
      BY <3>1 DEF Elements
  <2> QED
    BY <2>1, <2>2, <2>3 DEF Elements
<1> QED
  BY <1>1, <1>4, <1>5, <1>6

\* Nothing is appended for blocks that are present.
LEMMA InsertedPresent ==
  ASSUME NEW list \in Seq(Block), NEW S \in SUBSET Elements(list),
         NEW w \in Inserted(list, S)
  PROVE  w = list
<1>1. S \ Elements(list) = {}
  OBVIOUS
<1>2. PICK s \in Orderings({}) : w = list \o s
  BY <1>1 DEF Inserted
<1>3. Cardinality({}) = 0
  BY FS_EmptySet
<1>4. s \in [1..0 -> {}]
  BY <1>2, <1>3 DEF Orderings
<1>5. s = <<>>
  BY <1>4
<1> QED
  BY <1>2, <1>5

\* Taking the last element off a worklist.
LEMMA PopElements ==
  ASSUME NEW list \in Seq(Block), list # <<>>
  PROVE  /\ list[Len(list)] \in Block
         /\ list[Len(list)] \in Elements(list)
         /\ SubSeq(list, 1, Len(list) - 1) \in Seq(Block)
         /\ Elements(list) =
              Elements(SubSeq(list, 1, Len(list) - 1)) \cup {list[Len(list)]}
<1> DEFINE rest == SubSeq(list, 1, Len(list) - 1)
<1>1. Len(list) \in Nat /\ Len(list) > 0
  OBVIOUS
<1>2. rest \in Seq(Block) /\ Len(rest) = Len(list) - 1
  BY <1>1
<1>3. \A i \in 1..(Len(list) - 1) : rest[i] = list[i]
  BY <1>1
<1>4. DOMAIN list = 1..Len(list) /\ DOMAIN rest = 1..(Len(list) - 1)
  BY <1>2, LenProperties
<1>5. ASSUME NEW x \in Elements(list)
      PROVE  x \in Elements(rest) \cup {list[Len(list)]}
  <2>1. PICK i \in 1..Len(list) : x = list[i]
    BY <1>4, <1>5 DEF Elements
  <2>2. CASE i = Len(list)
    BY <2>1, <2>2
  <2>3. CASE i # Len(list)
    <3>1. i \in 1..(Len(list) - 1)
      BY <1>1, <2>1, <2>3
    <3>2. x = rest[i]
      BY <1>3, <2>1, <3>1
    <3> QED
      BY <1>4, <3>1, <3>2 DEF Elements
  <2> QED
    BY <2>2, <2>3
<1>6. Len(list) \in DOMAIN list /\ \A i \in DOMAIN rest : i \in DOMAIN list
  BY <1>1, <1>4
<1>7. Elements(rest) \cup {list[Len(list)]} \subseteq Elements(list)
  BY <1>3, <1>4, <1>6 DEF Elements
<1>8. list[Len(list)] \in Block
  BY <1>4, <1>6
<1> QED
  BY <1>2, <1>5, <1>7, <1>8

\* The references startStates and endStates of run.
LEMMA SetStatesEffect ==
  ASSUME NEW s, NEW e, SetStates(s, e)
  PROVE  startStates' = s /\ endStates' = e
  BY DEF SetStates, startStates, endStates

-----------------------------------------------------------------------------
(* Typing.                                                                 *)

\* Two lattices that are each less precise than the other are one.
LEMMA LeqAntisymmetric ==
  ASSUME NEW L \in Lattices, NEW M \in Lattices, Leq(L, M), Leq(M, L)
  PROVE  L = M
<1>1. \A q \in Property : L[q] = M[q]
  BY DEF Leq
<1>2. L \in [Property -> SUBSET Value] /\ M \in [Property -> SUBSET Value]
  BY DEF Lattices
<1> QED
  BY <1>1, <1>2

\* The neighbours of a block of a function are blocks of the function.
LEMMA Neighbours ==
  ASSUME NEW f \in Functions, NEW b \in Block
  PROVE  /\ FlowPred(f, b) \subseteq f.blocks
         /\ FlowSucc(f, b) \subseteq f.blocks
         /\ f.blocks \subseteq Block
         /\ f.code[b] \in Code
         /\ f.values \subseteq Value
<1>1. f \in [blocks : SUBSET Block, succ : [Block -> SUBSET Block],
             code : [Block -> Code], values : SUBSET Value]
      /\ \A c \in Block : f.succ[c] \subseteq f.blocks
  BY ModulesAssumption
<1> QED
  BY <1>1 DEF FlowPred, FlowSucc

\* b depends on p just when p reports to b.
LEMMA SuccPred ==
  ASSUME NEW f \in Functions, NEW b \in f.blocks, NEW p \in FlowPred(f, b)
  PROVE  b \in FlowSucc(f, p)
  BY Neighbours DEF FlowPred, FlowSucc

\* The initial lattice with the values of a function is a lattice, and adding
\* them again changes nothing.
LEMMA WithValuesType ==
  ASSUME NEW L \in Lattices, NEW f \in Functions
  PROVE  /\ WithValues(L, f) \in Lattices
         /\ WithValues(WithValues(L, f), f) = WithValues(L, f)
<1>1. f.values \subseteq Value
  BY ModulesAssumption
<1> QED
  BY <1>1 DEF WithValues, Lattices

\* The start states and end states are the two maps.
LEMMA StatesType ==
  ASSUME TypeOK
  PROVE  startStates \in [Block -> Lattices] /\ endStates \in [Block -> Lattices]
  BY DEF TypeOK, startStates, endStates

\* A met start state is a lattice below the start state and the end states.
LEMMA MetStartType ==
  ASSUME TypeOK, NEW b \in Block
  PROVE  /\ MetStart(b) \in Lattices
         /\ Leq(MetStart(b), startStates[b])
         /\ \A p \in FlowPred(fn, b) : Leq(MetStart(b), endStates[p])
  BY StatesType DEF MetStart, Lattices, Leq

\* Initialising keeps the types.
LEMMA InitializeType ==
  ASSUME TypeOK, NEW f \in Functions, initializeState(f)
  PROVE  /\ initial' \in Lattices
         /\ inStates' \in [Block -> Lattices]
         /\ outStates' \in [Block -> Lattices]
         /\ worklist' \in Seq(Block)
         /\ Elements(worklist') = Elements(worklist) \cup f.blocks
<1>1. initial' \in Lattices
  BY WithValuesType DEF TypeOK, initializeState
<1>2. f.blocks \subseteq Block
  BY ModulesAssumption
<1>3. worklist' \in Seq(Block) /\ Elements(worklist') = Elements(worklist) \cup f.blocks
  BY <1>2, InsertedElements DEF TypeOK, initializeState
<1> QED
  BY <1>1, <1>3 DEF TypeOK, initializeState

\* What a turn of the loop that transfers does to the state.
LEMMA VisitEffect ==
  ASSUME TypeOK, visitChanged
  PROVE  \E node \in Elements(worklist) :
           /\ startStates' = [startStates EXCEPT ![node] = MetStart(node)]
           /\ endStates' = [endStates EXCEPT ![node] =
                              Transfer(fn.code[node], MetStart(node))]
           /\ seen' = seen \cup {node}
           /\ superChanged' = (superChanged \/ MetStart(node) # startStates[node])
           /\ worklist' \in Seq(Block)
           /\ Elements(worklist) \ {node} \subseteq Elements(worklist')
           /\ FlowSucc(fn, node) \subseteq Elements(worklist')
           /\ Elements(worklist') \subseteq Elements(worklist) \cup FlowSucc(fn, node)
           /\ startStates' \in [Block -> Lattices]
           /\ endStates' \in [Block -> Lattices]
           /\ node \in Block
<1> DEFINE node == worklist[Len(worklist)]
           rest == SubSeq(worklist, 1, Len(worklist) - 1)
<1>1. /\ node \in Block /\ node \in Elements(worklist)
      /\ rest \in Seq(Block)
      /\ Elements(worklist) = Elements(rest) \cup {node}
  BY PopElements DEF TypeOK, visitChanged
<1>2. fn \in Functions
  BY DEF TypeOK, visitChanged
<1>3. FlowSucc(fn, node) \subseteq Block
  BY <1>1, <1>2, Neighbours
<1>4. worklist' \in Inserted(rest, FlowSucc(fn, node))
  BY DEF visitChanged, Requeued
<1>5. worklist' \in Seq(Block)
      /\ Elements(worklist') = Elements(rest) \cup FlowSucc(fn, node)
  BY <1>1, <1>3, <1>4, InsertedElements
<1>6. /\ startStates' = [startStates EXCEPT ![node] = MetStart(node)]
      /\ endStates' = [endStates EXCEPT ![node] =
                         Transfer(fn.code[node], MetStart(node))]
  BY SetStatesEffect DEF visitChanged
<1>7. MetStart(node) \in Lattices /\ Transfer(fn.code[node], MetStart(node)) \in Lattices
  BY <1>1, <1>2, MetStartType, Neighbours, TransferAssumption
<1>8. startStates' \in [Block -> Lattices] /\ endStates' \in [Block -> Lattices]
  BY <1>6, <1>7, StatesType
<1>9. seen' = seen \cup {node}
      /\ superChanged' = (superChanged \/ MetStart(node) # startStates[node])
  BY DEF visitChanged, Reported
<1> QED
  BY <1>1, <1>5, <1>6, <1>8, <1>9

-----------------------------------------------------------------------------
(* The inductive invariant.                                                *)

\* What a turn of the loop that transfers nothing does to the state.
LEMMA SkipEffect ==
  ASSUME TypeOK, visitUnchanged
  PROVE  \E node \in seen :
           /\ MetStart(node) = startStates[node]
           /\ node \in Block
           /\ worklist' \in Seq(Block)
           /\ Elements(worklist) = Elements(worklist') \cup {node}
           /\ startStates' = startStates /\ endStates' = endStates
<1> DEFINE node == worklist[Len(worklist)]
<1>1. /\ node \in Block
      /\ SubSeq(worklist, 1, Len(worklist) - 1) \in Seq(Block)
      /\ Elements(worklist) =
           Elements(SubSeq(worklist, 1, Len(worklist) - 1)) \cup {node}
  BY PopElements DEF TypeOK, visitUnchanged
<1>2. node \in seen /\ MetStart(node) = startStates[node]
  BY DEF visitUnchanged, FirstVisit
<1>3. startStates' = startStates /\ endStates' = endStates
  BY DEF visitUnchanged, startStates, endStates
<1>4. worklist' = SubSeq(worklist, 1, Len(worklist) - 1)
  BY DEF visitUnchanged
<1> QED
  BY <1>1, <1>2, <1>3, <1>4

\* What initialising does to the states of the function.
LEMMA InitializeEffect ==
  ASSUME TypeOK, NEW f \in Functions, initializeState(f)
  PROVE  \A b \in f.blocks : startStates'[b] = initial' /\ endStates'[b] = initial'
<1>1. f.blocks \subseteq Block
  BY ModulesAssumption
<1> QED
  BY <1>1 DEF initializeState, startStates, endStates

\* Every variable keeps its type.
LEMMA TypeStep == TypeOK /\ [Next]_vars => TypeOK'
<1> SUFFICES ASSUME TypeOK, [Next]_vars PROVE TypeOK'
  OBVIOUS
<1>1. ASSUME NEW f \in remaining, runOnFunction(f) PROVE TypeOK'
  <2>1. f \in Functions /\ f # None
    BY ModulesAssumption DEF TypeOK
  <2> QED
    BY <1>1, <2>1, InitializeType DEF TypeOK, runOnFunction
<1>2. CASE run
  <2>1. fn \in Functions
    BY <1>2 DEF TypeOK, run
  <2> QED
    BY <1>2, <2>1, InitializeType DEF TypeOK, run
<1>3. CASE visitUnchanged
  <2>1. worklist' \in Seq(Block)
    BY <1>3, SkipEffect
  <2> QED
    BY <1>3, <2>1 DEF TypeOK, visitUnchanged
<1>4. CASE visitChanged
  <2>1. PICK node \in Elements(worklist) :
          /\ seen' = seen \cup {node}
          /\ superChanged' = (superChanged \/ MetStart(node) # startStates[node])
          /\ worklist' \in Seq(Block)
          /\ startStates' \in [Block -> Lattices]
          /\ endStates' \in [Block -> Lattices]
          /\ node \in Block
    BY <1>4, VisitEffect
  <2>2. inStates' \in [Block -> Lattices] /\ outStates' \in [Block -> Lattices]
    BY <2>1, TransferAssumption DEF startStates, endStates
  <2>3. UNCHANGED <<remaining, fn, pc, initial>>
    BY <1>4 DEF visitChanged
  <2> QED
    BY <2>1, <2>2, <2>3 DEF TypeOK
<1>5. CASE return
  BY <1>5 DEF TypeOK, return
<1>6. CASE UNCHANGED vars
  BY <1>6 DEF TypeOK, vars
<1> QED
  BY <1>1, <1>2, <1>3, <1>4, <1>5, <1>6 DEF Next

\* The variables have their types from the start.
LEMMA TypeInit == Init => TypeOK
<1> SUFFICES ASSUME Init PROVE TypeOK
  OBVIOUS
<1>1. Empty \in Lattices
  BY DEF Empty, Lattices
<1>2. remaining \in SUBSET Functions
  BY DEF Init, Functions
<1>3. worklist \in Seq(Block)
  BY EmptySeq DEF Init
<1> QED
  BY <1>1, <1>2, <1>3 DEF Init, TypeOK

\* Every state of the solver is well typed, whatever the transfer function.
THEOREM TypeCorrect == Spec => []TypeOK
  BY TypeInit, TypeStep, PTL DEF Spec

\* The invariant of the loop: what EdgesRespected needs to be inductive.
IInv == TypeOK /\ LoopInvariant /\ EdgesRespected /\ ResultTellsChange

\* It holds before any function is initialised.
LEMMA InvInit == Init => IInv
<1> SUFFICES ASSUME Init PROVE IInv
  OBVIOUS
<1>1. TypeOK
  BY TypeInit
<1>2. pc = "idle" /\ worklist = <<>>
  BY DEF Init
<1> QED
  BY <1>1, <1>2 DEF IInv, LoopInvariant, EdgesRespected, ResultTellsChange

\* A step of the solver that transfers the block node.
LEMMA InvVisit ==
  ASSUME IInv, visitChanged, TypeOK'
  PROVE  IInv'
<1> USE DEF IInv
<1>1. PICK node \in Elements(worklist) :
        /\ startStates' = [startStates EXCEPT ![node] = MetStart(node)]
        /\ endStates' = [endStates EXCEPT ![node] =
                           Transfer(fn.code[node], MetStart(node))]
        /\ seen' = seen \cup {node}
        /\ superChanged' = (superChanged \/ MetStart(node) # startStates[node])
        /\ Elements(worklist) \ {node} \subseteq Elements(worklist')
        /\ FlowSucc(fn, node) \subseteq Elements(worklist')
        /\ Elements(worklist') \subseteq Elements(worklist) \cup FlowSucc(fn, node)
        /\ node \in Block
  BY VisitEffect
<1>2. pc = "solving" /\ pc' = "solving" /\ fn' = fn /\ initial' = initial
  BY DEF visitChanged
<1>3. fn \in Functions
  BY <1>2 DEF TypeOK
<1>4. node \in fn.blocks /\ fn.blocks \subseteq Block
  BY <1>1, <1>2, <1>3, Neighbours DEF LoopInvariant
<1>5. startStates \in [Block -> Lattices] /\ endStates \in [Block -> Lattices]
  BY StatesType
<1>6. /\ MetStart(node) \in Lattices
      /\ Leq(MetStart(node), startStates[node])
      /\ \A p \in FlowPred(fn, node) : Leq(MetStart(node), endStates[p])
  BY <1>1, MetStartType
<1>7. Leq(MetStart(node), initial)
  BY <1>2, <1>4, <1>6 DEF LoopInvariant, Leq
<1>8. LoopInvariant'
  <2>1. Elements(worklist') \subseteq fn.blocks
    BY <1>1, <1>2, <1>3, Neighbours DEF LoopInvariant
  <2>2. ASSUME NEW b \in fn.blocks
        PROVE  /\ Leq(startStates'[b], initial)
               /\ b \in seen' => endStates'[b] = Transfer(fn.code[b], startStates'[b])
               /\ b \notin seen' => b \in Elements(worklist') /\ endStates'[b] = initial
    <3>1. CASE b = node
      BY <1>1, <1>4, <1>5, <1>7, <3>1
    <3>2. CASE b # node
      <4>1. startStates'[b] = startStates[b] /\ endStates'[b] = endStates[b]
        BY <1>1, <1>5, <3>2
      <4>2. b \in seen' <=> b \in seen
        BY <1>1, <3>2
      <4>3. b \in Elements(worklist) => b \in Elements(worklist')
        BY <1>1, <3>2
      <4>4. /\ Leq(startStates[b], initial)
            /\ b \in seen => endStates[b] = Transfer(fn.code[b], startStates[b])
            /\ b \notin seen => b \in Elements(worklist) /\ endStates[b] = initial
        BY <1>2 DEF LoopInvariant
      <4>5. Leq(startStates'[b], initial)
        BY <4>1, <4>4
      <4>6. b \in seen' => endStates'[b] = Transfer(fn.code[b], startStates'[b])
        BY <4>1, <4>2, <4>4
      <4>7. b \notin seen' => b \in Elements(worklist') /\ endStates'[b] = initial
        BY <4>1, <4>2, <4>3, <4>4
      <4> QED
        BY <4>5, <4>6, <4>7
    <3> QED
      BY <3>1, <3>2
  <2> QED
    BY <1>2, <2>1, <2>2 DEF LoopInvariant
<1>9. EdgesRespected'
  <2> SUFFICES ASSUME NEW b \in fn.blocks, b \notin Elements(worklist'),
                      NEW p \in FlowPred(fn, b)
               PROVE  Leq(startStates'[b], endStates'[p])
    BY <1>2 DEF EdgesRespected, FlowPred
  <2>1. p \in fn.blocks /\ b \in FlowSucc(fn, p)
    BY <1>3, <1>4, Neighbours, SuccPred
  <2>2. p # node
    BY <1>1, <2>1
  <2>3. endStates'[p] = endStates[p]
    BY <1>1, <1>4, <1>5, <2>1, <2>2
  <2>4. CASE b = node
    <3>1. startStates'[b] = MetStart(node)
      BY <1>1, <1>5, <2>4
    <3> QED
      BY <1>6, <2>3, <2>4, <3>1
  <2>5. CASE b # node
    <3>1. b \notin Elements(worklist)
      BY <1>1, <2>5
    <3>2. startStates'[b] = startStates[b]
      BY <1>1, <1>4, <1>5, <2>5
    <3> QED
      BY <1>2, <2>3, <3>1, <3>2 DEF EdgesRespected
  <2> QED
    BY <2>4, <2>5
<1>10. ResultTellsChange'
  <2>1. superChanged' <=> \E b \in fn.blocks : startStates'[b] # initial
    <3>1. ASSUME NEW b \in fn.blocks, startStates[b] # initial
          PROVE  startStates'[b] # initial
      <4>1. Leq(startStates'[b], startStates[b]) /\ startStates'[b] \in Lattices
        BY <1>1, <1>4, <1>5, <1>6 DEF Leq
      <4>2. Leq(startStates[b], initial) /\ startStates[b] \in Lattices /\ initial \in Lattices
        BY <1>2, <1>4, <1>5 DEF LoopInvariant, TypeOK
      <4>3. ASSUME startStates'[b] = initial PROVE startStates[b] = initial
        <5>1. Leq(initial, startStates[b])
          BY <4>1, <4>3
        <5> QED
          BY <4>2, <5>1, LeqAntisymmetric
      <4> QED
        BY <3>1, <4>3
    <3>2. startStates'[node] = MetStart(node)
      BY <1>1, <1>5
    <3>3. \A b \in fn.blocks : b # node => startStates'[b] = startStates[b]
      BY <1>1, <1>4, <1>5
    <3>4. superChanged <=> \E b \in fn.blocks : startStates[b] # initial
      BY <1>2 DEF ResultTellsChange
    <3>5. MetStart(node) # startStates[node] => startStates'[node] # initial
      <4>1. /\ startStates[node] \in Lattices /\ initial \in Lattices
            /\ Leq(startStates[node], initial)
        BY <1>2, <1>4, <1>5 DEF LoopInvariant, TypeOK
      <4>2. MetStart(node) = initial => MetStart(node) = startStates[node]
        BY <1>6, <4>1, LeqAntisymmetric
      <4> QED
        BY <3>2, <4>2
    <3> QED
      BY <1>1, <1>4, <3>1, <3>2, <3>3, <3>4, <3>5
  <2> QED
    BY <1>2, <2>1 DEF ResultTellsChange
<1> QED
  BY <1>8, <1>9, <1>10

\* A step of the solver that leaves the block node as it is.
LEMMA InvSkip ==
  ASSUME IInv, visitUnchanged, TypeOK'
  PROVE  IInv'
<1> USE DEF IInv
<1>1. PICK node \in seen :
        /\ MetStart(node) = startStates[node]
        /\ node \in Block
        /\ Elements(worklist) = Elements(worklist') \cup {node}
        /\ startStates' = startStates /\ endStates' = endStates
  BY SkipEffect
<1>2. /\ pc = "solving" /\ pc' = "solving" /\ fn' = fn /\ initial' = initial
      /\ seen' = seen /\ superChanged' = superChanged
  BY DEF visitUnchanged
<1>3. \A p \in FlowPred(fn, node) : Leq(startStates[node], endStates[p])
  BY <1>1, MetStartType
<1>4. LoopInvariant'
  BY <1>1, <1>2 DEF LoopInvariant
<1>5. EdgesRespected'
  BY <1>1, <1>2, <1>3 DEF EdgesRespected, FlowPred
<1>6. ResultTellsChange'
  BY <1>1, <1>2 DEF ResultTellsChange
<1> QED
  BY <1>4, <1>5, <1>6

\* An initialisation, the first or the second.
LEMMA InvInitialize ==
  ASSUME IInv, NEW f \in Functions, initializeState(f), fn' = f, TypeOK',
         Elements(worklist) \subseteq f.blocks,
         \/ pc' = "initialized"
         \/ pc' = "solving" /\ seen' = {} /\ superChanged' = FALSE
  PROVE  IInv'
<1> USE DEF IInv
<1>1. Elements(worklist') = f.blocks
  BY InitializeType
<1>2. \A b \in f.blocks : startStates'[b] = initial' /\ endStates'[b] = initial'
  BY InitializeEffect
<1>3. initial' = WithValues(initial, f) /\ WithValues(initial', f) = initial'
  BY WithValuesType DEF initializeState, TypeOK
<1>4. \A b \in f.blocks : inStates'[b] = initial' /\ outStates'[b] = initial'
  BY <1>2 DEF startStates, endStates
<1>5. LoopInvariant'
  BY <1>1, <1>2, <1>3, <1>4 DEF LoopInvariant, Leq
<1>6. EdgesRespected' /\ ResultTellsChange'
  BY <1>1, <1>2 DEF EdgesRespected, ResultTellsChange
<1> QED
  BY <1>5, <1>6

\* Every step keeps the invariant.
LEMMA InvStep == IInv /\ [Next]_vars => IInv'
<1> SUFFICES ASSUME IInv, [Next]_vars PROVE IInv'
  OBVIOUS
<1>0. TypeOK'
  BY TypeStep DEF IInv
<1>1. ASSUME NEW f \in remaining, runOnFunction(f) PROVE IInv'
  <2>1. f \in Functions
    BY DEF IInv, TypeOK
  <2>2. Elements(worklist) = {}
    <3>1. worklist = <<>>
      BY <1>1 DEF IInv, LoopInvariant, runOnFunction
    <3> QED
      BY <3>1 DEF Elements
  <2> QED
    BY <1>0, <1>1, <2>1, <2>2, InvInitialize DEF runOnFunction
<1>2. CASE run
  <2>1. fn \in Functions /\ Elements(worklist) \subseteq fn.blocks
    BY <1>2 DEF IInv, TypeOK, LoopInvariant, run
  <2> QED
    BY <1>0, <1>2, <2>1, InvInitialize DEF run
<1>3. CASE visitUnchanged
  BY <1>0, <1>3, InvSkip
<1>4. CASE visitChanged
  BY <1>0, <1>4, InvVisit
<1>5. CASE return
  BY <1>0, <1>5 DEF IInv, return, LoopInvariant, EdgesRespected, ResultTellsChange
<1>6. CASE UNCHANGED vars
  <2>1. startStates' = startStates /\ endStates' = endStates
    BY <1>6 DEF vars, startStates, endStates
  <2>2. LoopInvariant'
    BY <1>6, <2>1 DEF IInv, vars, LoopInvariant
  <2>3. EdgesRespected'
    BY <1>6, <2>1 DEF IInv, vars, EdgesRespected, FlowPred
  <2>4. ResultTellsChange'
    BY <1>6, <2>1 DEF IInv, vars, ResultTellsChange
  <2> QED
    BY <1>0, <2>2, <2>3, <2>4 DEF IInv
<1> QED
  BY <1>1, <1>2, <1>3, <1>4, <1>5, <1>6 DEF Next

\* The invariant of the loop holds in every state.
THEOREM AlwaysInvariant == Spec => []IInv
  BY InvInit, InvStep, PTL DEF Spec

-----------------------------------------------------------------------------
(* What follows from it.                                                   *)

\* Which end states are up to date at a turn of the loop, and that nothing but
\* blocks of the function is queued.
THEOREM AlwaysLoopInvariant == Spec => []LoopInvariant
<1>1. IInv => LoopInvariant
  BY DEF IInv
<1> QED
  BY <1>1, AlwaysInvariant, PTL

\* No change of an end state is lost before the blocks that depend on it are
\* queued, for any control-flow graph and any order of visits.
THEOREM AlwaysEdgesRespected == Spec => []EdgesRespected
<1>1. IInv => EdgesRespected
  BY DEF IInv
<1> QED
  BY <1>1, AlwaysInvariant, PTL

\* run reports a change exactly when a start state left the initial lattice.
THEOREM AlwaysResultTellsChange == Spec => []ResultTellsChange
<1>1. IInv => ResultTellsChange
  BY DEF IInv
<1> QED
  BY <1>1, AlwaysInvariant, PTL

\* When run returns the equations of the function hold.
THEOREM AlwaysSolvedAtReturn == Spec => []SolvedAtReturn
<1>1. IInv => SolvedAtReturn
  <2> SUFFICES ASSUME IInv, pc = "solving", worklist = <<>>
               PROVE  /\ \A b \in fn.blocks :
                           endStates[b] = Transfer(fn.code[b], startStates[b])
                      /\ IsSolution(fn, initial, startStates)
    BY DEF SolvedAtReturn
  <2>1. Elements(worklist) = {}
    BY DEF Elements
  <2>2. \A b \in fn.blocks :
          /\ Leq(startStates[b], initial)
          /\ endStates[b] = Transfer(fn.code[b], startStates[b])
    BY <2>1 DEF IInv, LoopInvariant
  <2>3. \A b \in fn.blocks : FlowPred(fn, b) \subseteq fn.blocks
    <3>1. fn \in Functions
      BY DEF IInv, TypeOK
    <3>2. fn.blocks \subseteq Block
      BY <3>1, ModulesAssumption
    <3> QED
      BY <3>1, <3>2, Neighbours
  <2>4. \A b \in fn.blocks : \A p \in FlowPred(fn, b) :
          Leq(startStates[b], endStates[p])
    BY <2>1 DEF IInv, EdgesRespected
  <2> QED
    BY <2>2, <2>3, <2>4 DEF IsSolution
<1> QED
  BY <1>1, AlwaysInvariant, PTL

\* The initialisation that run repeats changes neither states nor worklist.
LEMMA SecondInitialization ==
  ASSUME IInv, run
  PROVE  UNCHANGED <<initial, inStates, outStates, worklist>>
<1> USE DEF IInv
<1>1. fn \in Functions /\ pc = "initialized"
  BY DEF TypeOK, run
<1>2. initializeState(fn)
  BY DEF run
<1>3. initial' = initial
  BY <1>1, <1>2 DEF initializeState, LoopInvariant
<1>4. worklist' = worklist
  <2>1. fn.blocks \in SUBSET Elements(worklist)
    BY <1>1 DEF LoopInvariant
  <2> QED
    BY <1>2, <2>1, InsertedPresent DEF initializeState, TypeOK
<1>5. \A b \in fn.blocks : inStates[b] = initial /\ outStates[b] = initial
  BY <1>1 DEF LoopInvariant
<1>6. inStates' = inStates /\ outStates' = outStates
  BY <1>2, <1>3, <1>5 DEF initializeState, TypeOK
<1> QED
  BY <1>3, <1>4, <1>6

\* runOnFunction and run may both initialise.
THEOREM AlwaysSecondInitializationIdle == Spec => SecondInitializationIdle
<1>1. IInv => (run => UNCHANGED <<initial, inStates, outStates, worklist>>)
  BY SecondInitialization
<1> QED
  BY <1>1, AlwaysInvariant, PTL DEF SecondInitializationIdle

-----------------------------------------------------------------------------
(* The greatest solution.                                                  *)

\* Meeting the neighbours keeps what a solution claims.
LEMMA MetStartAboveSolutions ==
  ASSUME Monotone, IInv, NothingLost, pc = "solving",
         NEW X \in Solutions(fn, initial), NEW b \in fn.blocks
  PROVE  Leq(X[b], MetStart(b))
<1> USE DEF IInv
<1>1. fn \in Functions
  BY DEF TypeOK
<1>2. fn.blocks \subseteq Block
  BY <1>1, ModulesAssumption
<1>3. X \in [fn.blocks -> Lattices] /\ IsSolution(fn, initial, X)
  BY DEF Solutions
<1>4. ASSUME NEW p \in FlowPred(fn, b) PROVE Leq(X[b], endStates[p])
  <2>1. p \in fn.blocks
    BY <1>1, <1>2, Neighbours
  <2>2. CASE p \in seen
    <3>1. endStates[p] = Transfer(fn.code[p], startStates[p])
      BY <2>1, <2>2 DEF LoopInvariant
    <3>2. Leq(X[p], startStates[p])
      BY <2>1 DEF NothingLost
    <3>3. X[p] \in Lattices /\ startStates[p] \in Lattices /\ fn.code[p] \in Code
      BY <1>1, <1>2, <1>3, <2>1, StatesType, Neighbours
    <3>4. Leq(Transfer(fn.code[p], X[p]), Transfer(fn.code[p], startStates[p]))
      BY <3>2, <3>3 DEF Monotone
    <3>5. Leq(X[b], Transfer(fn.code[p], X[p]))
      BY <1>3 DEF IsSolution
    <3> QED
      BY <3>1, <3>4, <3>5 DEF Leq
  <2>3. CASE p \notin seen
    <3>1. endStates[p] = initial
      BY <2>1, <2>3 DEF LoopInvariant
    <3> QED
      BY <1>3, <3>1 DEF IsSolution
  <2> QED
    BY <2>2, <2>3
<1>5. Leq(X[b], startStates[b])
  BY DEF NothingLost
<1> QED
  BY <1>4, <1>5 DEF Leq, MetStart

\* With monotone transfer functions, whatever the order of visits, the start
\* states never fall below a solution of the equations.
THEOREM AlwaysNothingLost == Monotone => (Spec => []NothingLost)
<1> SUFFICES ASSUME Monotone PROVE Spec => []NothingLost
  OBVIOUS
<1>1. Init => NothingLost
  BY DEF Init, NothingLost
<1>2. IInv /\ NothingLost /\ [Next]_vars => NothingLost'
  <2> SUFFICES ASSUME IInv, NothingLost, [Next]_vars PROVE NothingLost'
    OBVIOUS
  <2>0. TypeOK
    BY DEF IInv
  <2>1. CASE visitChanged
    <3>1. PICK node \in Elements(worklist) :
            /\ startStates' = [startStates EXCEPT ![node] = MetStart(node)]
            /\ node \in Block
      BY <2>0, <2>1, VisitEffect
    <3>2. pc = "solving" /\ fn' = fn /\ initial' = initial
      BY <2>1 DEF visitChanged
    <3>3. fn.blocks \subseteq Block
      BY <2>0, <3>2, ModulesAssumption DEF TypeOK
    <3>4. ASSUME NEW X \in Solutions(fn, initial), NEW b \in fn.blocks
          PROVE  Leq(X[b], startStates'[b])
      <4>1. CASE b = node
        <5>1. startStates'[b] = MetStart(b)
          BY <2>0, <3>1, <4>1, StatesType
        <5> QED
          BY <3>2, <5>1, MetStartAboveSolutions
      <4>2. CASE b # node
        <5>1. startStates'[b] = startStates[b]
          BY <2>0, <3>1, <3>3, <4>2, StatesType
        <5> QED
          BY <3>2, <5>1 DEF NothingLost
      <4> QED
        BY <4>1, <4>2
    <3> QED
      BY <3>2, <3>4 DEF NothingLost, Solutions, IsSolution, FlowPred
  <2>2. CASE run
    <3>1. fn \in Functions /\ fn' = fn /\ initializeState(fn)
      BY <2>0, <2>2 DEF TypeOK, run
    <3>2. \A b \in fn.blocks : startStates'[b] = initial'
      BY <2>0, <3>1, InitializeEffect
    <3>3. \A X \in Solutions(fn', initial') : \A b \in fn.blocks : Leq(X[b], initial')
      BY <3>1 DEF Solutions, IsSolution
    <3> QED
      BY <3>1, <3>2, <3>3 DEF NothingLost
  <2>3. CASE visitUnchanged \/ return \/ UNCHANGED vars
    <3>1. /\ startStates' = startStates /\ fn' = fn /\ initial' = initial
          /\ pc' = "solving" => pc = "solving"
      BY <2>3 DEF visitUnchanged, return, vars, startStates
    <3> QED
      BY <3>1 DEF NothingLost, Solutions, IsSolution, FlowPred
  <2>4. ASSUME NEW f \in remaining, runOnFunction(f) PROVE NothingLost'
    BY <2>4 DEF runOnFunction, NothingLost
  <2> QED
    BY <2>1, <2>2, <2>3, <2>4 DEF Next
<1> QED
  BY <1>1, <1>2, AlwaysInvariant, PTL DEF Spec

\* A visit writes no facts into the start state, nor into the end state of a
\* block visited before.
LEMMA VisitShrinks ==
  ASSUME Monotone, IInv, visitChanged
  PROVE  /\ \A b \in Block : Leq(startStates'[b], startStates[b])
         /\ \A b \in seen : Leq(endStates'[b], endStates[b])
<1>0. TypeOK /\ LoopInvariant
  BY DEF IInv
<1>1. PICK node \in Elements(worklist) :
        /\ startStates' = [startStates EXCEPT ![node] = MetStart(node)]
        /\ endStates' = [endStates EXCEPT ![node] =
                           Transfer(fn.code[node], MetStart(node))]
        /\ node \in Block
  BY <1>0, VisitEffect
<1>2. MetStart(node) \in Lattices /\ Leq(MetStart(node), startStates[node])
  BY <1>0, <1>1, MetStartType
<1>3. \A b \in Block : Leq(startStates'[b], startStates[b])
  <2>1. \A b \in Block \ {node} : startStates'[b] = startStates[b]
    BY <1>0, <1>1, StatesType
  <2>2. startStates'[node] = MetStart(node)
    BY <1>0, <1>1, StatesType
  <2> QED
    BY <1>2, <2>1, <2>2 DEF Leq
<1>4. ASSUME NEW b \in seen PROVE Leq(endStates'[b], endStates[b])
  <2>1. b \in Block
    BY <1>0 DEF TypeOK
  <2>2. CASE b # node
    <3>1. endStates'[b] = endStates[b]
      BY <1>0, <1>1, <2>1, <2>2, StatesType
    <3> QED
      BY <3>1 DEF Leq
  <2>3. CASE b = node
    <3>1. pc = "solving" /\ fn \in Functions
      BY <1>0 DEF visitChanged, TypeOK
    <3>2. node \in fn.blocks
      BY <1>0, <1>1, <3>1 DEF LoopInvariant
    <3>3. endStates[b] = Transfer(fn.code[b], startStates[b])
      BY <1>0, <2>3, <3>1, <3>2 DEF LoopInvariant
    <3>4. fn.code[b] \in Code /\ startStates[b] \in Lattices
      BY <1>0, <2>1, <3>1, ModulesAssumption, StatesType
    <3>5. Leq(Transfer(fn.code[b], MetStart(b)), Transfer(fn.code[b], startStates[b]))
      BY <1>2, <2>3, <3>4 DEF Monotone
    <3>6. endStates'[b] = Transfer(fn.code[b], MetStart(b))
      BY <1>0, <1>1, <2>1, <2>3, StatesType
    <3> QED
      BY <3>3, <3>5, <3>6
  <2> QED
    BY <2>2, <2>3
<1> QED
  BY <1>3, <1>4

\* With monotone transfer functions, solving only removes facts.
THEOREM AlwaysShrinking == Monotone => (Spec => StatesShrink)
<1> SUFFICES ASSUME Monotone PROVE Spec => StatesShrink
  OBVIOUS
<1>1. IInv /\ [Next]_vars =>
        (pc = "solving" =>
           /\ \A b \in Block : Leq(startStates'[b], startStates[b])
           /\ \A b \in seen : Leq(endStates'[b], endStates[b]))
  <2> SUFFICES ASSUME IInv, [Next]_vars, pc = "solving"
               PROVE  /\ \A b \in Block : Leq(startStates'[b], startStates[b])
                      /\ \A b \in seen : Leq(endStates'[b], endStates[b])
    OBVIOUS
  <2>1. CASE visitChanged
    BY <2>1, VisitShrinks
  <2>2. CASE visitUnchanged \/ return \/ UNCHANGED vars
    <3>1. startStates' = startStates /\ endStates' = endStates
      BY <2>2 DEF visitUnchanged, return, vars, startStates, endStates
    <3> QED
      BY <3>1 DEF Leq
  <2> QED
    BY <2>1, <2>2 DEF Next, runOnFunction, run
<1> QED
  BY <1>1, AlwaysInvariant, PTL DEF Spec, StatesShrink

-----------------------------------------------------------------------------
(* The refinement: the solver delivers the greatest solution of the         *)
(* equations of every function, for monotone transfers.                    *)

\* AnalysisAnswers speaks of the same lattices, functions and equations.
LEMMA SameVocabulary ==
  /\ Answers!Empty = Empty
  /\ \A L, f : Answers!WithValues(L, f) = WithValues(L, f)
  /\ \A f, L : Answers!Greatest(f, L) = Greatest(f, L)
<1>1. Answers!Empty = Empty /\ Answers!Lattices = Lattices
  BY DEF Answers!Empty, Empty, Answers!Lattices, Lattices
<1>2. Answers!Above = Above
  BY DEF Answers!Above, Above, Answers!ParentClosed, ParentClosed
<1>3. \A L, f : Answers!WithValues(L, f) = WithValues(L, f)
  BY <1>2 DEF Answers!WithValues, WithValues
<1>4. \A f, L, X : Answers!IsSolution(f, L, X) <=> IsSolution(f, L, X)
  BY DEF Answers!IsSolution, IsSolution, Answers!Leq, Leq,
         Answers!FlowPred, FlowPred
<1>5. \A f, L : Answers!Solutions(f, L) = Solutions(f, L)
  BY <1>1, <1>4 DEF Answers!Solutions, Solutions
<1>6. \A f, L : Answers!Greatest(f, L) = Greatest(f, L)
  BY <1>5 DEF Answers!Greatest, Greatest
<1> QED
  BY <1>1, <1>3, <1>6

\* Before any function the solver has the initial states of AnalysisAnswers.
LEMMA InitRefines == Init => Answers!Init
  BY SameVocabulary DEF Init, Answers!Init, busy, answers, startStates

\* At return the start states are the greatest solution.
LEMMA GreatestAtReturn ==
  ASSUME IInv, NothingLost, SolvedAtReturn, pc = "solving", worklist = <<>>,
         NEW b \in fn.blocks
  PROVE  startStates[b] = Greatest(fn, initial)[b]
<1> DEFINE S == [c \in fn.blocks |-> startStates[c]]
<1>1. fn \in Functions
  BY DEF IInv, TypeOK
<1>2. fn.blocks \subseteq Block
  BY <1>1, ModulesAssumption
<1>3. startStates \in [Block -> Lattices]
  BY StatesType DEF IInv
<1>4. S \in [fn.blocks -> Lattices]
  BY <1>2, <1>3
<1>5. IsSolution(fn, initial, S)
  <2>1. IsSolution(fn, initial, startStates)
    BY DEF SolvedAtReturn
  <2>2. ASSUME NEW n \in fn.blocks
        PROVE  /\ Leq(S[n], initial)
               /\ \A p \in FlowPred(fn, n) : Leq(S[n], Transfer(fn.code[p], S[p]))
    <3>1. FlowPred(fn, n) \subseteq fn.blocks
      BY <1>1, <1>2, Neighbours
    <3> QED
      BY <2>1, <3>1 DEF IsSolution
  <2> QED
    BY <2>2 DEF IsSolution
<1>6. S \in Solutions(fn, initial)
  BY <1>4, <1>5 DEF Solutions
<1>7. \A X \in Solutions(fn, initial) : Leq(X[b], startStates[b])
  BY DEF NothingLost
<1>8. startStates[b] \in [Property -> SUBSET Value]
  BY <1>2, <1>3 DEF Lattices
<1>9. ASSUME NEW q \in Property
      PROVE  startStates[b][q]
               = {v \in Value : \E X \in Solutions(fn, initial) : v \in X[b][q]}
  <2>1. ASSUME NEW v \in startStates[b][q]
        PROVE  v \in Value /\ \E X \in Solutions(fn, initial) : v \in X[b][q]
    <3>1. S[b][q] = startStates[b][q]
      OBVIOUS
    <3> HIDE DEF S
    <3> QED
      BY <1>6, <1>8, <3>1
  <2>2. ASSUME NEW X \in Solutions(fn, initial), NEW v \in X[b][q]
        PROVE  v \in startStates[b][q]
    BY <1>7 DEF Leq
  <2> QED
    BY <2>1, <2>2
<1>10. startStates[b]
         = [q \in Property |->
              {v \in Value : \E X \in Solutions(fn, initial) : v \in X[b][q]}]
  BY <1>8, <1>9
<1> QED
  BY <1>10 DEF Greatest

\* Every step of the solver is a step of AnalysisAnswers or changes nothing
\* that a client sees.
LEMMA StepRefines ==
  ASSUME IInv, NothingLost, SolvedAtReturn, [Next]_vars
  PROVE  [Answers!Next]_(Answers!vars)
<1>0. TypeOK
  BY DEF IInv
<1>1. ASSUME NEW f \in remaining, runOnFunction(f) PROVE Answers!Next
  <2>1. f \in Functions /\ f # None /\ f.blocks \subseteq Block
    BY <1>0, ModulesAssumption DEF TypeOK
  <2>2. busy = None /\ busy' = f
    BY <1>1 DEF runOnFunction, busy
  <2>3. initial' = WithValues(initial, f) /\ remaining' = remaining \ {f}
    BY <1>1 DEF runOnFunction, initializeState
  <2>4. answers' = [b \in Block |-> IF b \in f.blocks THEN Empty ELSE answers[b]]
    <3>1. pc = "idle" /\ pc' = "initialized" /\ fn' = f
      BY <1>1 DEF runOnFunction
    <3>2. \A b \in Block : b \notin f.blocks => startStates'[b] = startStates[b]
      BY <1>1 DEF runOnFunction, initializeState, startStates
    <3>3. \A b \in Block : answers[b] = startStates[b]
      BY <3>1 DEF answers
    <3>4. answers' = [b \in Block |-> IF b \in f.blocks THEN Empty ELSE startStates'[b]]
      BY <3>1 DEF answers
    <3> QED
      BY <3>2, <3>3, <3>4
  <2>5. Answers!Begin(f)
    BY <2>2, <2>3, <2>4, SameVocabulary DEF Answers!Begin
  <2> QED
    BY <2>5 DEF Answers!Next
<1>2. CASE run
  <2>1. UNCHANGED <<initial, inStates, outStates, worklist>>
    BY <1>2, SecondInitialization
  <2>2. UNCHANGED <<remaining, fn>> /\ pc = "initialized" /\ pc' = "solving"
    BY <1>2 DEF run
  <2> QED
    BY <2>1, <2>2 DEF Answers!vars, busy, answers, startStates
<1>3. CASE visitUnchanged
  BY <1>3 DEF visitUnchanged, Answers!vars, busy, answers, startStates
<1>4. CASE visitChanged
  <2>1. PICK node \in Elements(worklist) :
          /\ startStates' = [startStates EXCEPT ![node] = MetStart(node)]
          /\ node \in Block
    BY <1>0, <1>4, VisitEffect
  <2>2. UNCHANGED <<remaining, fn, pc, initial>> /\ pc = "solving"
    BY <1>4 DEF visitChanged
  <2>3. node \in fn.blocks
    BY <2>1, <2>2 DEF IInv, LoopInvariant
  <2>4. \A b \in Block \ fn.blocks : startStates'[b] = startStates[b]
    BY <1>0, <2>1, <2>3, StatesType
  <2>5. answers' = answers
    BY <2>2, <2>4 DEF answers
  <2>6. busy' = busy
    BY <2>2 DEF busy
  <2> QED
    BY <2>2, <2>5, <2>6 DEF Answers!vars
<1>5. CASE return
  <2>1. /\ pc = "solving" /\ pc' = "idle" /\ worklist = <<>> /\ fn' = fn
        /\ startStates' = startStates /\ UNCHANGED <<remaining, initial>>
    BY <1>5 DEF return, startStates
  <2>2. busy = fn /\ busy' = None /\ fn # None
    BY <1>0, <2>1 DEF busy, TypeOK
  <2>3. \A b \in fn.blocks : startStates[b] = Greatest(fn, initial)[b]
    BY <2>1, GreatestAtReturn
  <2>4. answers' = [b \in Block |-> startStates[b]]
    BY <2>1 DEF answers
  <2>5. \A b \in Block : b \notin fn.blocks => answers[b] = startStates[b]
    BY DEF answers
  <2>6. answers' = [b \in Block |-> IF b \in fn.blocks THEN Greatest(fn, initial)[b]
                                                        ELSE answers[b]]
    BY <2>3, <2>4, <2>5
  <2>7. Answers!Finish
    BY <2>1, <2>2, <2>6, SameVocabulary DEF Answers!Finish
  <2> QED
    BY <2>7 DEF Answers!Next
<1>6. CASE UNCHANGED vars
  BY <1>6 DEF vars, Answers!vars, busy, answers, startStates
<1> QED
  BY <1>1, <1>2, <1>3, <1>4, <1>5, <1>6 DEF Next

\* With monotone transfer functions the worklist solver answers with the
\* greatest solution for every function, whatever the lattice, the direction,
\* the control-flow graphs and the orders of insertion.
THEOREM SolverGivesAnswers == Monotone => (Spec => StepsAreAnswers)
<1> SUFFICES ASSUME Monotone PROVE Spec => StepsAreAnswers
  OBVIOUS
<1>1. Spec => []NothingLost
  BY AlwaysNothingLost
<1>2. IInv /\ NothingLost /\ SolvedAtReturn /\ [Next]_vars
        => [Answers!Next]_(Answers!vars)
  BY StepRefines
<1> QED
  BY <1>1, <1>2, InitRefines, AlwaysInvariant, AlwaysSolvedAtReturn, PTL
     DEF Spec, StepsAreAnswers

-----------------------------------------------------------------------------
(* What a client gets to see.                                              *)

\* What the values handed out are after i turns, without the loop: a value has
\* the names of the last property value in which the loop has met it.
LastMet(L, i) ==
  [r \in Property |->
     {v \in Value : \E k \in 1..i :
        /\ v \in L[PropertyOrder[k]]
        /\ r \in Above[PropertyOrder[k]]
        /\ \A j \in (k + 1)..i : v \notin L[PropertyOrder[j]]}]

\* One turn meets the values of one more property value.
LEMMA LastMetStep ==
  ASSUME NEW L \in Lattices, NEW i \in 1..Len(PropertyOrder)
  PROVE  LastMet(L, i)
           = AddAllToProperty(LastMet(L, i - 1), PropertyOrder[i], L[PropertyOrder[i]])
<1> DEFINE q == PropertyOrder[i]
<1>1. q \in Property /\ L[q] \in SUBSET Value
  BY OrderAssumption DEF Lattices
<1>2. ASSUME NEW r \in Property, NEW v \in L[q]
      PROVE  v \in LastMet(L, i)[r] <=> r \in Above[q]
  <2>1. ASSUME NEW k \in 1..i, \A j \in (k + 1)..i : v \notin L[PropertyOrder[j]]
        PROVE  k = i
    BY <2>1
  <2> QED
    BY <1>1, <2>1 DEF LastMet
<1>3. ASSUME NEW r \in Property, NEW v \in Value \ L[q]
      PROVE  v \in LastMet(L, i)[r] <=> v \in LastMet(L, i - 1)[r]
  <2>1. ASSUME NEW k \in 1..i, v \in L[PropertyOrder[k]] PROVE k \in 1..(i - 1)
    BY <2>1
  <2>2. ASSUME NEW k \in 1..i
        PROVE  (\A j \in (k + 1)..i : v \notin L[PropertyOrder[j]])
                 <=> (\A j \in (k + 1)..(i - 1) : v \notin L[PropertyOrder[j]])
    <3>1. \A j \in (k + 1)..i : j = i \/ j \in (k + 1)..(i - 1)
      OBVIOUS
    <3> QED
      BY <3>1
  <2> QED
    BY <2>1, <2>2 DEF LastMet
<1>4. ASSUME NEW r \in Property
      PROVE  LastMet(L, i)[r] =
               IF r \in Above[q] THEN LastMet(L, i - 1)[r] \cup L[q]
                                 ELSE LastMet(L, i - 1)[r] \ L[q]
  <2>1. LastMet(L, i)[r] \subseteq Value /\ LastMet(L, i - 1)[r] \subseteq Value
    BY DEF LastMet
  <2> QED
    BY <1>1, <1>2, <1>3, <2>1
<1> QED
  BY <1>4 DEF AddAllToProperty, LastMet

\* The loop computes that: its recursive definition has a solution, and by
\* induction on the number of turns only this one.
LEMMA RebuiltIsLastMet ==
  ASSUME NEW L \in Lattices
  PROVE  Rebuilt(L) = LastMet(L, Len(PropertyOrder))
<1> DEFINE n == Len(PropertyOrder)
           Turn(f, i) == IF i = 0 THEN Empty
                         ELSE AddAllToProperty(f[i - 1], PropertyOrder[i],
                                               L[PropertyOrder[i]])
           G == [i \in 0..n |-> LastMet(L, i)]
           R == RebuiltTo(L)
<1>0. n \in Nat
  BY OrderAssumption
<1>1. LastMet(L, 0) = Empty
  BY DEF LastMet, Empty
<1>2. G = [i \in 0..n |-> Turn(G, i)]
  <2>1. ASSUME NEW i \in 0..n PROVE LastMet(L, i) = Turn(G, i)
    <3>1. CASE i = 0
      BY <3>1, <1>1
    <3>2. CASE i # 0
      <4>1. i \in 1..n /\ i - 1 \in 0..n
        BY <1>0, <3>2
      <4>2. G[i - 1] = LastMet(L, i - 1)
        BY <4>1
      <4> QED
        BY <3>2, <4>1, <4>2, LastMetStep
    <3> QED
      BY <3>1, <3>2
  <2> QED
    BY <2>1
<1>3. R = [i \in 0..n |-> Turn(R, i)]
  <2>1. R = CHOOSE f : f = [i \in 0..n |-> Turn(f, i)]
    BY DEF RebuiltTo
  <2> HIDE DEF R, G, Turn
  <2> QED
    BY <1>2, <2>1
<1> DEFINE T == {i \in 0..n : R[i] # LastMet(L, i)}
<1>4. T = {}
  <2> SUFFICES ASSUME T # {} PROVE FALSE
    OBVIOUS
  <2>1. T \subseteq Nat
    BY <1>0
  <2>2. PICK k \in T : \A j \in T : ~(<<j, k>> \in OpToRel(<, Nat))
    <3> HIDE DEF T
    <3> QED
      BY <2>1, NatLessThanWellFounded, WFMin
  <2>3. k \in 0..n /\ R[k] = Turn(R, k)
    <3> HIDE DEF R, Turn
    <3> QED
      BY <1>3
  <2>4. k # 0
    BY <1>1, <2>2, <2>3
  <2>5. k \in 1..n /\ k - 1 \in 0..n /\ k - 1 \in Nat /\ k \in Nat /\ k - 1 < k
    BY <1>0, <2>3, <2>4
  <2>6. k - 1 \notin T
    BY <2>2, <2>5 DEF OpToRel
  <2>7. R[k - 1] = LastMet(L, k - 1)
    BY <2>5, <2>6
  <2>8. R[k] = LastMet(L, k)
    BY <2>3, <2>4, <2>5, <2>7, LastMetStep
  <2> QED
    BY <2>2, <2>8
<1>5. n \in 0..n
  BY <1>0
<1> QED
  BY <1>4, <1>5 DEF Rebuilt

\* A value is in the rebuilt lattice with the names of one of its own names.
LEMMA RebuiltNames ==
  ASSUME NEW L \in Lattices, NEW v \in Value
  PROVE  /\ Names(L, v) = {} => Names(Rebuilt(L), v) = {}
         /\ Names(L, v) # {} =>
              \E k \in 1..Len(PropertyOrder) :
                /\ PropertyOrder[k] \in Names(L, v)
                /\ \A j \in (k + 1)..Len(PropertyOrder) :
                     PropertyOrder[j] \notin Names(L, v)
                /\ Names(Rebuilt(L), v) = Above[PropertyOrder[k]]
<1> DEFINE n == Len(PropertyOrder)
           Met(k) == /\ PropertyOrder[k] \in Names(L, v)
                     /\ \A j \in (k + 1)..n : PropertyOrder[j] \notin Names(L, v)
<1>0. n \in Nat /\ \A k \in 1..n : PropertyOrder[k] \in Property
  BY OrderAssumption
<1>1. \A k \in 1..n : v \in L[PropertyOrder[k]] <=> PropertyOrder[k] \in Names(L, v)
  BY <1>0 DEF Names
<1>2. Names(Rebuilt(L), v) =
        {r \in Property : \E k \in 1..n : Met(k) /\ r \in Above[PropertyOrder[k]]}
  <2>1. ASSUME NEW r \in Property
        PROVE  v \in LastMet(L, n)[r]
                 <=> \E k \in 1..n : Met(k) /\ r \in Above[PropertyOrder[k]]
    <3>1. \A k \in 1..n : \A j \in (k + 1)..n : j \in 1..n
      BY <1>0
    <3> QED
      BY <1>1, <3>1 DEF LastMet
  <2> QED
    BY <2>1, RebuiltIsLastMet DEF Names
<1>3. CASE Names(L, v) = {}
  BY <1>2, <1>3
<1>4. CASE Names(L, v) # {}
  <2> DEFINE T == {n - k : k \in {i \in 1..n : PropertyOrder[i] \in Names(L, v)}}
  <2>1. PICK q \in Property : q \in Names(L, v)
    BY <1>4 DEF Names
  <2>2. PICK i \in 1..n : PropertyOrder[i] = q
    BY OrderAssumption DEF Elements
  <2>3. T \subseteq Nat /\ n - i \in T
    BY <1>0, <2>1, <2>2
  <2>4. PICK t \in T : \A u \in T : ~(<<u, t>> \in OpToRel(<, Nat))
    <3> HIDE DEF T
    <3> QED
      BY <2>3, NatLessThanWellFounded, WFMin
  <2>5. PICK k \in 1..n : PropertyOrder[k] \in Names(L, v) /\ t = n - k
    OBVIOUS
  <2>6. ASSUME NEW j \in (k + 1)..n, PropertyOrder[j] \in Names(L, v) PROVE FALSE
    <3>1. j \in 1..n /\ n - j \in Nat /\ n - k \in Nat /\ n - j < n - k
      BY <1>0
    <3>2. n - j \in T
      BY <2>6, <3>1
    <3> QED
      BY <2>4, <2>5, <3>1, <3>2 DEF OpToRel
  <2>7. Met(k)
    BY <2>5, <2>6
  <2>8. ASSUME NEW l \in 1..n, Met(l) PROVE l = k
    <3>1. l \in Int /\ k \in Int /\ n \in Int
      BY <1>0
    <3>2. ~(l < k)
      <4>1. l < k => k \in (l + 1)..n
        BY <3>1
      <4> QED
        BY <2>7, <2>8, <4>1
    <3>3. ~(k < l)
      <4>1. k < l => l \in (k + 1)..n
        BY <3>1
      <4> QED
        BY <2>7, <2>8, <4>1
    <3> QED
      BY <3>1, <3>2, <3>3
  <2>9. Names(Rebuilt(L), v) = {r \in Property : r \in Above[PropertyOrder[k]]}
    <3> HIDE DEF Met
    <3> QED
      BY <1>2, <2>7, <2>8
  <2>10. Names(Rebuilt(L), v) = Above[PropertyOrder[k]]
    BY <1>0, <2>9, AboveNames
  <2> QED
    BY <1>4, <2>7, <2>10
<1> QED
  BY <1>3, <1>4

\* The rebuilt lattice claims nothing that a closed lattice does not.
LEMMA RebuiltSafe ==
  ASSUME NEW L \in Lattices, Upward(L), NEW v \in Value
  PROVE  /\ Names(Rebuilt(L), v) \subseteq Names(L, v)
         /\ Names(L, v) # {} => Names(Rebuilt(L), v) # {}
<1>1. CASE Names(L, v) = {}
  BY <1>1, RebuiltNames
<1>2. CASE Names(L, v) # {}
  <2>1. PICK k \in 1..Len(PropertyOrder) :
          /\ PropertyOrder[k] \in Names(L, v)
          /\ Names(Rebuilt(L), v) = Above[PropertyOrder[k]]
    BY <1>2, RebuiltNames
  <2>2. PropertyOrder[k] \in Property /\ Names(L, v) \in SUBSET Property
    BY <2>1 DEF Names
  <2>3. Above[PropertyOrder[k]] \subseteq Names(L, v)
    BY <2>1, <2>2, AboveLeast DEF Upward
  <2>4. PropertyOrder[k] \in Above[PropertyOrder[k]]
    BY <2>2, AboveSelf
  <2> QED
    BY <2>1, <2>3, <2>4
<1> QED
  BY <1>1, <1>2

\* It is exact for a name whose ancestors come before it.
LEMMA RebuiltExactInOrder ==
  ASSUME NEW L \in Lattices, NEW v \in Value, NEW q \in InOrder,
         Names(L, v) = Above[q]
  PROVE  Names(Rebuilt(L), v) = Above[q]
<1> DEFINE n == Len(PropertyOrder)
<1>1. PICK i \in 1..n : /\ PropertyOrder[i] = q
                        /\ Above[q] \subseteq {PropertyOrder[j] : j \in 1..i}
  BY OrderAssumption DEF InOrder
<1>2. q \in Property /\ q \in Names(L, v) /\ n \in Nat
  BY <1>1, OrderAssumption, AboveSelf
<1>3. PICK k \in 1..n : /\ PropertyOrder[k] \in Names(L, v)
                        /\ \A j \in (k + 1)..n : PropertyOrder[j] \notin Names(L, v)
                        /\ Names(Rebuilt(L), v) = Above[PropertyOrder[k]]
  BY <1>2, RebuiltNames
<1>4. ~(k < i)
  BY <1>1, <1>2, <1>3
<1>5. PICK j \in 1..i : PropertyOrder[k] = PropertyOrder[j]
  BY <1>1, <1>3
<1>6. k = j
  <2>1. j \in 1..n /\ DOMAIN PropertyOrder = 1..n
    BY <1>2, OrderAssumption
  <2> QED
    BY <1>5, <2>1, OrderAssumption DEF IsInjective
<1>7. k = i
  BY <1>2, <1>4, <1>6
<1> QED
  BY <1>1, <1>3, <1>7

\* Every state the solver keeps records a value under the ancestors of its
\* names too.
StatesUpward ==
  /\ Upward(initial)
  /\ \A b \in Block : Upward(inStates[b]) /\ Upward(outStates[b])

\* Assigning the default name to the values of a function keeps that.
LEMMA WithValuesUpward ==
  ASSUME NEW L \in Lattices, Upward(L), NEW f \in Functions
  PROVE  Upward(WithValues(L, f))
<1> SUFFICES ASSUME NEW v \in Value PROVE ParentClosed(Names(WithValues(L, f), v))
  BY DEF Upward
<1>1. InitialName \in Property
  BY TransferAssumption
<1>2. Names(WithValues(L, f), v) = IF v \in f.values THEN Above[InitialName]
                                                     ELSE Names(L, v)
  BY <1>1, AboveNames DEF Names, WithValues, Lattices
<1> QED
  BY <1>1, <1>2, AboveClosed DEF Upward

\* A meet keeps that too.
LEMMA MetStartUpward ==
  ASSUME TypeOK, StatesUpward, NEW b \in Block, fn \in Functions
  PROVE  Upward(MetStart(b))
<1> SUFFICES ASSUME NEW v \in Value PROVE ParentClosed(Names(MetStart(b), v))
  BY DEF Upward
<1>1. FlowPred(fn, b) \subseteq Block
  BY ModulesAssumption DEF FlowPred
<1>2. \A c \in Block : /\ ParentClosed(Names(startStates[c], v))
                       /\ ParentClosed(Names(endStates[c], v))
  BY DEF StatesUpward, Upward, startStates, endStates
<1>3. Names(MetStart(b), v) =
        {q \in Names(startStates[b], v) :
           \A p \in FlowPred(fn, b) : q \in Names(endStates[p], v)}
  BY DEF Names, MetStart
<1> QED
  BY <1>1, <1>2, <1>3 DEF ParentClosed

\* Every step keeps it.
LEMMA UpwardStep == TypeOK /\ StatesUpward /\ [Next]_vars => StatesUpward'
<1> SUFFICES ASSUME TypeOK, StatesUpward, [Next]_vars PROVE StatesUpward'
  OBVIOUS
<1>1. ASSUME NEW f \in Functions, initializeState(f) PROVE StatesUpward'
  <2>1. Upward(initial')
    BY <1>1, WithValuesUpward DEF initializeState, TypeOK, StatesUpward
  <2> QED
    BY <1>1, <2>1 DEF initializeState, StatesUpward
<1>2. ASSUME NEW f \in remaining, runOnFunction(f) PROVE StatesUpward'
  BY <1>1, <1>2 DEF runOnFunction, TypeOK
<1>3. CASE run
  <2>1. fn \in Functions
    BY <1>3 DEF run, TypeOK
  <2> QED
    BY <1>1, <1>3, <2>1 DEF run
<1>4. CASE visitUnchanged
  BY <1>4 DEF visitUnchanged, StatesUpward
<1>5. CASE visitChanged
  <2>1. PICK node \in Block :
          /\ startStates' = [startStates EXCEPT ![node] = MetStart(node)]
          /\ endStates' = [endStates EXCEPT ![node] =
                             Transfer(fn.code[node], MetStart(node))]
    BY <1>5, VisitEffect
  <2>2. fn \in Functions
    BY <1>5 DEF visitChanged, TypeOK
  <2>3. MetStart(node) \in Lattices /\ Upward(MetStart(node))
    BY <2>2, MetStartType, MetStartUpward
  <2>4. Upward(Transfer(fn.code[node], MetStart(node)))
    BY <2>2, <2>3, Neighbours, ModulesAssumption, TransferUpwardAssumption
  <2>5. \A b \in Block : Upward(startStates'[b]) /\ Upward(endStates'[b])
    BY <2>1, <2>3, <2>4, StatesType DEF StatesUpward, startStates, endStates
  <2>6. initial' = initial
    BY <1>5 DEF visitChanged
  <2> QED
    BY <2>5, <2>6 DEF StatesUpward, startStates, endStates
<1>6. CASE return
  BY <1>6 DEF return, StatesUpward
<1>7. CASE UNCHANGED vars
  BY <1>7 DEF vars, StatesUpward
<1> QED
  BY <1>2, <1>3, <1>4, <1>5, <1>6, <1>7 DEF Next

\* In every state of the solver every lattice is closed upwards.
THEOREM AlwaysStatesUpward == Spec => []StatesUpward
<1>1. Init => StatesUpward
  BY DEF Init, StatesUpward, Upward, ParentClosed, Names, Empty
<1> QED
  BY <1>1, UpwardStep, TypeCorrect, PTL DEF Spec

\* The states handed out claim nothing that was not computed and lose no value.
THEOREM AlwaysReportIsSafe == Spec => []ReportIsSafe
<1>1. TypeOK /\ StatesUpward => ReportIsSafe
  BY RebuiltSafe DEF TypeOK, StatesUpward, ReportIsSafe, getInState, getOutState
<1> QED
  BY <1>1, TypeCorrect, AlwaysStatesUpward, PTL

\* A value is handed out with the name computed for it, if the ancestors of the
\* name come before it in alphabetical order.
THEOREM AlwaysReportIsExactInOrder == Spec => []ReportIsExactInOrder
<1>1. TypeOK => ReportIsExactInOrder
  BY RebuiltExactInOrder DEF TypeOK, ReportIsExactInOrder, getInState, getOutState
<1> QED
  BY <1>1, TypeCorrect, PTL
=============================================================================
