------------------------ MODULE PropertyAnnotations ------------------------
(***************************************************************************)
(* How the tree of a property comes to be: the semantic actions of the     *)
(* annotation parser (src/python-parser/broadway_semantics.py) turn the    *)
(* nested text                                                             *)
(*    property MemoryLeak : { Error { MaybeDeallocated { Deallocated,      *)
(*                              NotDeallocated }}} default NotDeallocated  *)
(* into a list of values with their parents, processPropertyAnnotations    *)
(* (src/pass/BroadwayPass.cpp) reads the list into the lattice object, and *)
(* the first initializeState climbs from the default value to "bottom".    *)
(*                                                                         *)
(* The parser works bottom-up: a stack keeps the results of the values     *)
(* whose enclosing value has not been closed yet.                          *)
(***************************************************************************)
EXTENDS Naturals, SequencesExt

CONSTANTS
  Name,        \* names an annotation may use, "bottom" perhaps among them
  Bottom,      \* "bottom"
  None,        \* Python's None, null in the file
  Nested,      \* an element of the list that is a list itself
  MaxValues    \* bound: the values of a property

\* What the parser makes of a value.
LatticeValue == [name : Name, parent : Name \cup {None}]

ASSUME NamesAssumption ==
  /\ {None, Nested} \cap Name = {}
  /\ Nested \notin LatticeValue
  /\ MaxValues \in Nat

VARIABLES
  results,      \* what property_value returned, innermost values first
  declared,     \* the tree as it is written: pairs of a name and its parent
  lattice,      \* elements of property["lattice"] still to be read
  properties,   \* names of the lattice object
  parents,      \* its map
  initial,      \* its default; None is the empty string
  climbing,     \* the argument of addToParents
  pc   \* "parsing", "reading", "read", "climbing", "initialized" or "thrown"

vars == <<results, declared, lattice, properties, parents, initial, climbing, pc>>

Init ==
  /\ results = <<>>
  /\ declared = {}
  /\ lattice = <<>>
  /\ properties = {}
  /\ parents = [q \in {} |-> Bottom]
  /\ initial = None
  /\ climbing = None
  /\ pc = "parsing"

-----------------------------------------------------------------------------
(* The parser.                                                             *)

\* as WithParent, but a parent that is known already is replaced
WithParentAnew(children, name) ==
  [i \in DOMAIN children |-> [children[i] EXCEPT !.parent = name]]

\* The values in a list that have no parent yet get one.
WithParent(children, name) ==
  [i \in DOMAIN children |->
     IF children[i].parent = None THEN [children[i] EXCEPT !.parent = name]
                                  ELSE children[i]]

\* The end of a value with k sub-values, whose lists are the last k results:
\* they are flattened and completed, and the value itself comes last.
property_value(name, k) ==
  LET n        == Len(results) - k
      children == FlattenSeq(SubSeq(results, n + 1, n + k))
      root     == [name |-> name, parent |-> None]
  IN  /\ pc = "parsing"
      /\ Len(FlattenSeq(results)) < MaxValues
      /\ results' = Append(SubSeq(results, 1, n),
                           Append(WithParent(children, name), root))
      /\ declared' = declared \cup
           {<<Last(results[i]).name, name>> : i \in (n + 1)..(n + k)}
      /\ UNCHANGED <<lattice, properties, parents, initial, climbing, pc>>

\* The outermost list, which nobody flattens: grako appends the further
\* results to the first one, each as one element.
property_values(lists) == Head(lists) \o [i \in 1..(Len(lists) - 1) |-> Nested]

\* The names of the values, in the order of their ends.
Values == [i \in DOMAIN FlattenSeq(results) |-> FlattenSeq(results)[i].name]

\* The end of the property.  Its default is any name, or left out.
property(default) ==
  /\ pc = "parsing"
  /\ results # <<>>
  /\ declared' = declared \cup
       {<<Last(results[i]).name, Bottom>> : i \in DOMAIN results}
  /\ lattice' = property_values(results)
  /\ initial' = default
  /\ pc' = "reading"
  /\ UNCHANGED <<results, properties, parents, climbing>>

-----------------------------------------------------------------------------
(* The pass.                                                               *)

\* as ParentRead, but a value without a parent is its own
ParentReadItself(v) == IF v.parent = None THEN v.name ELSE v.parent

\* as ParentRead, but null is read as the empty string
ParentReadRaw(v) == v.parent

\* valueParent in processPropertyAnnotations
ParentRead(v) == IF v.parent = None THEN Bottom ELSE v.parent

\* One turn of its inner loop: addProperty, whose emplace keeps the parent of
\* a name that is there already.  Elements that are no objects are passed over.
processLatticeValue ==
  /\ pc = "reading"
  /\ lattice # <<>>
  /\ lattice' = Tail(lattice)
  /\ LET v == Head(lattice)
     IN  IF v = Nested THEN UNCHANGED <<properties, parents>>
         ELSE /\ properties' = properties \cup {v.name}
              /\ parents' = [q \in properties' |->
                   IF q \in properties THEN parents[q] ELSE ParentRead(v)]
  /\ UNCHANGED <<results, declared, initial, climbing, pc>>

\* The new analyzer takes the lattice.
newDataFlow ==
  /\ pc = "reading"
  /\ lattice = <<>>
  /\ pc' = "read"
  /\ UNCHANGED <<results, declared, lattice, properties, parents, initial, climbing>>

\* The first instruction of the first function gets the default value.
initializeState ==
  /\ pc = "read"
  /\ climbing' = initial
  /\ pc' = "climbing"
  /\ UNCHANGED <<results, declared, lattice, properties, parents, initial>>

\* sets.at throws for a name the lattice object does not have.
addToParents ==
  /\ pc = "climbing"
  /\ IF climbing \notin properties THEN pc' = "thrown" /\ UNCHANGED climbing
     ELSE IF parents[climbing] = Bottom THEN pc' = "initialized" /\ UNCHANGED climbing
     ELSE climbing' = parents[climbing] /\ UNCHANGED pc
  /\ UNCHANGED <<results, declared, lattice, properties, parents, initial>>

Next ==
  \/ \E name \in Name, k \in 0..Len(results) : property_value(name, k)
  \/ \E default \in Name \cup {None} : property(default)
  \/ processLatticeValue
  \/ newDataFlow
  \/ initializeState
  \/ addToParents

\* Parser and pass are sequential programs that run on; the text ends.
Spec == Init /\ [][Next]_vars /\ WF_vars(pc # "parsing" /\ Next)

-----------------------------------------------------------------------------
(* Properties.                                                             *)

\* No name is used for two values of the property.
Distinct == IsInjective(Values)

OneRoot == Len(results) = 1

\* By the pairs of names that are written, no name lies below itself.
NoNameBelowItself ==
  \A S \in SUBSET ToSet(Values) : S # {} =>
    \E q \in S : \A e \in declared : e[1] = q => e[2] \notin S

\* The default is one of the values.
DefaultDeclared == initial \in ToSet(Values)

\* The parents in the lattice object are those of the annotation's text: the
\* levels neither shift nor merge when the lists of nested values are flattened
\* one after the other (broadway_semantics.py:67-79, BroadwayPass.cpp:147-160).
DeclaredTreeRead ==
  (pc = "read" /\ Distinct /\ OneRoot) =>
    {<<q, parents[q]>> : q \in properties} = declared

\* The first climb comes to an end, also where a name is used for several
\* values, as long as none lies below itself: it gets to "bottom" from a default
\* that is declared, and throws from any other (Utils.h:68-74).
InitializationEnds ==
  /\ (pc = "reading" /\ OneRoot /\ NoNameBelowItself /\ DefaultDeclared) ~> (pc = "initialized")
  /\ (pc = "reading" /\ ~DefaultDeclared) ~> (pc = "thrown")

\* The first climb throws only from a default that is missing or none of the
\* values, which neither the grammar nor the pass rules out (broadway.ebnf:42,48,
\* BroadwayPass.cpp:162): with one root every parent that was read has been read
\* as a name too, also where names are used twice (Utils.h:69).
AbortsOnlyIfUndeclared == (pc = "thrown" /\ OneRoot) => ~DefaultDeclared
=============================================================================
