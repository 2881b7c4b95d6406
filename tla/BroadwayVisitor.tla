-------------------------- MODULE BroadwayVisitor --------------------------
(***************************************************************************)
(* The transfer function of the pass: BroadwayVisitor::visitCallInst       *)
(* (src/pass/BroadwayPass.cpp), which performs the annotated effects of a  *)
(* call on the lattice of a block, and the look-up of pointers in an       *)
(* annotation (src/pass/BroadwayAST.cpp).                                  *)
(*                                                                         *)
(* An entry pointer declares a structure of names, for example             *)
(* "ptr --> memory_chunk".  It is the sequence of its definitions in the   *)
(* order findDefinition visits them: the pointer, its target, its members. *)
(* A call of a function without annotation, or of none that is known,      *)
(* changes nothing and is left out.                                        *)
(***************************************************************************)
EXTENDS BroadwayLattice, Naturals, SequencesExt

CONSTANTS
  Calls,          \* the annotated calls in a block: see CallsAssumption
  PropertyName,   \* state.name
  Null,           \* nullptr
  Leftovers       \* what the local variable arg may hold before it is assigned

\* The definitions of an entry pointer, as its constructor makes them: the first
\* is its own parent, every other has the name of one before it as parent.
IsPointer(definitions) ==
  /\ definitions \in Seq(Range(definitions)) \ {<<>>}
  /\ definitions[1].parent = definitions[1].name
  /\ \A i \in 2..Len(definitions) : \E j \in 1..(i - 1) :
       definitions[i].parent = definitions[j].name

ASSUME CallsAssumption ==
  /\ Null \notin Value
  /\ Leftovers \subseteq Value \cup {Null}
  /\ \A c \in Calls :
       /\ Len(c.operands) = Len(c.arguments)
       /\ c.entryPointers \in Seq(Range(c.entryPointers))
       /\ \A i \in DOMAIN c.entryPointers : IsPointer(c.entryPointers[i])

VARIABLES
  state,     \* the lattice of the visitor
  call,      \* the call in hand, or the last one
  effects,   \* its effects that are still to be performed
  entryNo,   \* the entry pointer in hand
  pointerDef, topDef,   \* definitions in it, by position
  arg,
  pc         \* "idle", "effect", "entry", "climb" or, for good, "crashed"

vars == <<state, call, effects, entryNo, pointerDef, topDef, arg, pc>>

\* as findDefinition, but the last definition is taken
findDefinitionLast(entry, thing) ==
  SelectLastInSeq(entry, LAMBDA d : d.name = thing)

\* The first definition of a name; 0 stands for nullptr.
findDefinition(entry, thing) == SelectInSeq(entry, LAMBDA d : d.name = thing)

\* The position of a name among the arguments; 0 stands for -1.
getArgumentForPointer(variable, c) ==
  SelectInSeq(c.arguments, LAMBDA a : a = variable)

\* The effects visitCallInst performs: those of rules without a condition in
\* the analyses of this property, if they are assignments.
Performed(c) ==
  SelectSeq(c.effects, LAMBDA e : /\ e.property = PropertyName
                                  /\ ~e.conditional
                                  /\ e.operator \in {"<-", "<-+"})

entry == call.entryPointers[entryNo]

Init ==
  /\ state = Empty
  /\ call \in Calls
  /\ effects = <<>>
  /\ entryNo = 0 /\ pointerDef = 0 /\ topDef = 0
  /\ arg = Null
  /\ pc = "idle"

visitCallInst(c) ==
  /\ pc = "idle"
  /\ call' = c
  /\ effects' = Performed(c)
  /\ pc' = "effect"
  /\ UNCHANGED <<state, entryNo, pointerDef, topDef, arg>>

\* The declaration of arg without an initial value.
startEffect ==
  /\ pc = "effect"
  /\ effects # <<>>
  /\ arg' \in Leftovers
  /\ entryNo' = 1
  /\ pc' = "entry"
  /\ UNCHANGED <<state, call, effects, pointerDef, topDef>>

\* The look-up of the effect's left-hand side.  A name that the entry pointer
\* does not define gives nullptr, which the code dereferences.
findPointer ==
  /\ pc = "entry"
  /\ entryNo <= Len(call.entryPointers)
  /\ pointerDef' = findDefinition(entry, Head(effects).lhs)
  /\ IF pointerDef' = 0
       THEN pc' = "crashed" /\ UNCHANGED topDef
       ELSE pc' = "climb" /\ topDef' = findDefinition(entry, entry[pointerDef'].parent)
  /\ UNCHANGED <<state, call, effects, entryNo, arg>>

AtTop == entry[pointerDef].parent = entry[pointerDef].name

\* One turn of the while loop.
climb ==
  /\ pc = "climb"
  /\ ~AtTop
  /\ pointerDef' = findDefinition(entry, entry[pointerDef].parent)
  /\ UNCHANGED <<state, call, effects, entryNo, topDef, arg, pc>>

argNum == getArgumentForPointer(entry[topDef].name, call)

\* The pointer is reached from an argument: break leaves the loop over the
\* entry pointers, and with it the effect.
matchArgument ==
  /\ pc = "climb"
  /\ AtTop
  /\ argNum # 0
  /\ arg' = call.operands[argNum]
  /\ effects' = Tail(effects)
  /\ pc' = "effect"
  /\ UNCHANGED <<state, call, entryNo, pointerDef, topDef>>

recordArg ==
  /\ pc = "climb"
  /\ AtTop
  /\ argNum = 0
  /\ state' = IF arg # Null THEN AddToProperty(state, Head(effects).rhs, arg)
                            ELSE state
  /\ entryNo' = entryNo + 1
  /\ pc' = "entry"
  /\ UNCHANGED <<call, effects, pointerDef, topDef, arg>>

\* The end of the loop over the entry pointers.
endEntries ==
  /\ pc = "entry"
  /\ entryNo > Len(call.entryPointers)
  /\ effects' = Tail(effects)
  /\ pc' = "effect"
  /\ UNCHANGED <<state, call, entryNo, pointerDef, topDef, arg>>

return ==
  /\ pc = "effect"
  /\ effects = <<>>
  /\ pc' = "idle"
  /\ UNCHANGED <<state, call, effects, entryNo, pointerDef, topDef, arg>>

\* What a call in hand does; a visited block need not hold another call.
Proceed ==
  \/ startEffect \/ findPointer \/ climb \/ matchArgument \/ recordArg
  \/ endEntries \/ return

Next == (\E c \in Calls : visitCallInst(c)) \/ Proceed

Spec == Init /\ [][Next]_vars /\ WF_vars(Proceed)

-----------------------------------------------------------------------------
\* Wherever the climb starts, and even if names are declared twice, it can only
\* end at the entry pointer itself (BroadwayPass.cpp:31-35, BroadwayAST.cpp:88).
ClimbEndsAtEntryPointer == (pc = "climb" /\ AtTop) => pointerDef = 1

\* The visitor comes back from every call: the climb cannot go round in circles
\* among definitions that share a name (BroadwayPass.cpp:33-35).
EveryCallEnds == (pc = "effect") ~> (pc \in {"idle", "crashed"})

\* The operand through which the left-hand side of an effect is reached.
Reached(c, lhs) ==
  {c.operands[k] : k \in {n \in DOMAIN c.operands :
     \E i \in DOMAIN c.entryPointers :
       /\ c.entryPointers[i][1].name = c.arguments[n]
       /\ findDefinition(c.entryPointers[i], lhs) # 0}}

\* An unconditional "<-" gives the pointer it names, as reached from an
\* argument of the call, the property value on its right: that is what an
\* annotation such as "default { memory_chunk <- Error }" of free says.
EffectRecorded ==
  [][(effects # <<>> /\ effects' # effects) =>
       \A v \in Reached(call, Head(effects).lhs) :
         IsInProperty(state', Head(effects).rhs, v)]_vars
=============================================================================
