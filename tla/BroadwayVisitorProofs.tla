----------------------- MODULE BroadwayVisitorProofs -----------------------
(***************************************************************************)
(* Theorems about the call visitor for every annotation: any number of     *)
(* entry pointers with any number of definitions, names declared twice     *)
(* included.                                                               *)
(***************************************************************************)
EXTENDS BroadwayVisitor, WellFoundedInduction, TLAPS

-----------------------------------------------------------------------------
(* The look-up of a definition.                                            *)

\* A set of positions has a least one.
LEMMA LeastPosition ==
  ASSUME NEW I \in SUBSET Nat, I # {}
  PROVE  Min(I) \in I /\ \A i \in I : Min(I) <= i
<1>1. PICK k \in I : \A i \in I : ~(<<i, k>> \in OpToRel(<, Nat))
  BY NatLessThanWellFounded, WFMin
<1>2. \A i \in I : k <= i
  <2> SUFFICES ASSUME NEW i \in I PROVE k <= i
    OBVIOUS
  <2>1. ~(i < k)
    BY <1>1 DEF OpToRel
  <2> QED
    BY <2>1
<1> QED
  BY <1>2 DEF Min

\* findDefinition gives the first definition of a name, or none.
LEMMA FindsFirst ==
  ASSUME NEW definitions, Len(definitions) \in Nat, NEW thing
  PROVE  LET d == findDefinition(definitions, thing)
         IN  \/ d = 0 /\ \A i \in 1..Len(definitions) : definitions[i].name # thing
             \/ /\ d \in 1..Len(definitions)
                /\ definitions[d].name = thing
                /\ \A i \in 1..(d - 1) : definitions[i].name # thing
<1> DEFINE I == {i \in 1..Len(definitions) : definitions[i].name = thing}
<1>1. findDefinition(definitions, thing) = IF I # {} THEN Min(I) ELSE 0
  BY DEF findDefinition, SelectInSeq
<1>2. I \in SUBSET Nat
  OBVIOUS
<1>3. CASE I = {}
  BY <1>1, <1>3
<1>4. CASE I # {}
  <2>1. Min(I) \in I /\ \A i \in I : Min(I) <= i
    <3> HIDE DEF I
    <3> QED
      BY <1>2, <1>4, LeastPosition
  <2>2. ASSUME NEW i \in 1..(Min(I) - 1) PROVE definitions[i].name # thing
    <3>1. Min(I) \in 1..Len(definitions)
      BY <2>1
    <3>2. i \in 1..Len(definitions) /\ ~(Min(I) <= i)
      BY <3>1
    <3> QED
      BY <2>1, <3>2
  <2> QED
    BY <1>1, <1>4, <2>1, <2>2
<1> QED
  BY <1>3, <1>4

\* A position that a look-up can give: the first definition of its name.
IsFound(definitions, d) ==
  /\ d \in 1..Len(definitions)
  /\ \A i \in 1..(d - 1) : definitions[i].name # definitions[d].name

\* The parent of a definition that was found can be found too.  It comes before
\* the definition, unless the definition is the first one.
LEMMA ParentFound ==
  ASSUME NEW definitions, IsPointer(definitions),
         NEW d, IsFound(definitions, d)
  PROVE  LET up == findDefinition(definitions, definitions[d].parent)
         IN  /\ IsFound(definitions, up)
             /\ d = 1 => up = 1
             /\ d # 1 => up < d
             /\ definitions[d].parent = definitions[d].name <=> d = 1
<1> DEFINE up == findDefinition(definitions, definitions[d].parent)
           n == Len(definitions)
<1>1. n \in Nat /\ n # 0 /\ d \in 1..n
  BY DEF IsPointer, IsFound
<1>2. PICK j \in 1..d : /\ definitions[j].name = definitions[d].parent
                        /\ d = 1 \/ j < d
  <2>1. CASE d = 1
    BY <2>1 DEF IsPointer
  <2>2. CASE d # 1
    <3>1. d \in 2..n
      BY <1>1, <2>2
    <3>2. PICK j \in 1..(d - 1) : definitions[d].parent = definitions[j].name
      BY <3>1 DEF IsPointer
    <3> QED
      BY <1>1, <3>2
  <2> QED
    BY <2>1, <2>2
<1>3. j \in 1..n
  BY <1>1
<1>4. /\ up \in 1..n
      /\ definitions[up].name = definitions[d].parent
      /\ \A i \in 1..(up - 1) : definitions[i].name # definitions[d].parent
  BY <1>1, <1>2, <1>3, FindsFirst
<1>5. up <= j
  BY <1>1, <1>2, <1>3, <1>4
<1>6. IsFound(definitions, up)
  BY <1>4 DEF IsFound
<1>7. d # 1 => up < d
  BY <1>1, <1>2, <1>4, <1>5
<1>8. d = 1 => up = 1
  BY <1>1, <1>2, <1>4, <1>5
<1>9. d # 1 => definitions[d].parent # definitions[d].name
  BY <1>1, <1>4, <1>7 DEF IsFound
<1>10. d = 1 => definitions[d].parent = definitions[d].name
  BY DEF IsPointer
<1> QED
  BY <1>6, <1>7, <1>8, <1>9, <1>10

-----------------------------------------------------------------------------
(* The state machine.                                                      *)

\* What the visitor keeps: it works on an entry pointer of the call, and both
\* definitions in hand are ones that a look-up gives, never nullptr.
IInv ==
  /\ call \in Calls
  /\ pc \in {"idle", "effect", "entry", "climb", "crashed"}
  /\ pc \in {"entry", "climb"} => entryNo \in Nat \ {0}
  /\ pc = "climb" =>
       /\ entryNo \in DOMAIN call.entryPointers
       /\ IsFound(entry, pointerDef)
       /\ IsFound(entry, topDef)

\* An entry pointer in hand is a pointer of the annotation.
LEMMA EntryIsPointer ==
  ASSUME call \in Calls, entryNo \in Nat \ {0}, entryNo <= Len(call.entryPointers)
  PROVE  entryNo \in DOMAIN call.entryPointers /\ IsPointer(entry)
<1>1. call.entryPointers \in Seq(Range(call.entryPointers))
  BY CallsAssumption
<1>2. entryNo \in DOMAIN call.entryPointers
  BY <1>1
<1> QED
  BY <1>2, CallsAssumption DEF entry

\* The look-up of a left-hand side keeps the invariant.
LEMMA InvFindPointer == ASSUME IInv, findPointer PROVE IInv'
<1>1. entryNo \in DOMAIN call.entryPointers /\ IsPointer(entry)
  BY EntryIsPointer DEF IInv, findPointer
<1>2. call' = call /\ entryNo' = entryNo /\ entry' = entry
  BY DEF findPointer, entry
<1>3. Len(entry) \in Nat
  BY <1>1 DEF IsPointer
<1>4. CASE pointerDef' = 0
  BY <1>2, <1>4 DEF IInv, findPointer
<1>5. CASE pointerDef' # 0
  <2>1. /\ pc' = "climb"
        /\ pointerDef' = findDefinition(entry, Head(effects).lhs)
        /\ topDef' = findDefinition(entry, entry[pointerDef'].parent)
    BY <1>5 DEF findPointer
  <2>2. IsFound(entry, pointerDef')
    BY <1>3, <1>5, <2>1, FindsFirst DEF IsFound
  <2>3. IsFound(entry, topDef')
    BY <1>1, <2>1, <2>2, ParentFound
  <2> QED
    BY <1>1, <1>2, <2>1, <2>2, <2>3 DEF IInv, findPointer
<1> QED
  BY <1>4, <1>5

\* A turn of the while loop keeps the invariant and comes nearer to the top.
LEMMA InvClimb ==
  ASSUME IInv, climb
  PROVE  IInv' /\ pointerDef' < pointerDef
<1>1. IsPointer(entry) /\ IsFound(entry, pointerDef)
  BY CallsAssumption DEF IInv, climb, entry
<1>2. call' = call /\ entryNo' = entryNo /\ entry' = entry /\ topDef' = topDef
      /\ pc' = pc
  BY DEF climb, entry
<1>3. pointerDef' = findDefinition(entry, entry[pointerDef].parent)
  BY DEF climb
<1>4. pointerDef # 1
  BY <1>1, ParentFound DEF climb, AtTop
<1>5. IsFound(entry, pointerDef') /\ pointerDef' < pointerDef
  BY <1>1, <1>3, <1>4, ParentFound
<1> QED
  BY <1>2, <1>5 DEF IInv

\* Every step keeps the invariant.
LEMMA InvStep == IInv /\ [Next]_vars => IInv'
<1> SUFFICES ASSUME IInv, [Next]_vars PROVE IInv'
  OBVIOUS
<1>1. ASSUME NEW c \in Calls, visitCallInst(c) PROVE IInv'
  BY <1>1 DEF IInv, visitCallInst
<1>2. CASE startEffect
  BY <1>2 DEF IInv, startEffect
<1>3. CASE findPointer
  BY <1>3, InvFindPointer
<1>4. CASE climb
  BY <1>4, InvClimb
<1>5. CASE matchArgument
  BY <1>5 DEF IInv, matchArgument
<1>6. CASE recordArg
  BY <1>6 DEF IInv, recordArg
<1>7. CASE endEntries
  BY <1>7 DEF IInv, endEntries
<1>8. CASE return
  BY <1>8 DEF IInv, return
<1>9. CASE UNCHANGED vars
  BY <1>9 DEF IInv, vars, entry
<1> QED
  BY <1>1, <1>2, <1>3, <1>4, <1>5, <1>6, <1>7, <1>8, <1>9 DEF Next, Proceed

\* Whatever calls are visited, no look-up but the first one of an effect gives
\* nullptr: neither topDef nor a definition the climb comes to is missing.
THEOREM AlwaysInvariant == Spec => []IInv
<1>1. Init => IInv
  BY DEF Init, IInv
<1> QED
  BY <1>1, InvStep, PTL DEF Spec

\* The climb ends at the entry pointer itself, for every annotation.
THEOREM AlwaysClimbEndsAtEntryPointer == Spec => []ClimbEndsAtEntryPointer
<1>1. IInv => ClimbEndsAtEntryPointer
  <2> SUFFICES ASSUME IInv, pc = "climb", AtTop PROVE pointerDef = 1
    BY DEF ClimbEndsAtEntryPointer
  <2>1. IsPointer(entry) /\ IsFound(entry, pointerDef)
    BY CallsAssumption DEF IInv, entry
  <2> QED
    BY <2>1, ParentFound DEF AtTop
<1> QED
  BY <1>1, AlwaysInvariant, PTL

\* Every turn of the climb goes to an earlier definition, which bounds the
\* number of turns: it cannot go round in circles.
THEOREM AlwaysClimbDescends == Spec => [][climb => pointerDef' < pointerDef]_vars
<1>1. IInv => [climb => pointerDef' < pointerDef]_vars
  BY InvClimb
<1> QED
  BY <1>1, AlwaysInvariant, PTL
=============================================================================
