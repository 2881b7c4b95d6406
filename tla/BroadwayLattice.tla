-------------------------- MODULE BroadwayLattice --------------------------
(***************************************************************************)
(* The lattice object of the data-flow analyses (src/pass/Utils.h).        *)
(*                                                                         *)
(* A Broadway property such as MemoryLeak is a tree of named property      *)
(* values: every name has a parent, and the roots have the parent          *)
(* "bottom".  A BroadwayLattice<T> keeps, for every name, the set of       *)
(* program values that have the property value; a program value is kept in *)
(* the set of its own name and in those of all the ancestors, so that the  *)
(* set intersection at a control-flow join yields the common ancestors.    *)
(*                                                                         *)
(* Here a lattice object is the function [Property -> SUBSET Value] that   *)
(* the member "sets" holds.  The two other fields of a flow_set, phiSets   *)
(* and universal, are the subject of module FlowSets: nothing in the pass  *)
(* ever fills them, and FlowSets shows that on such sets the meet is the   *)
(* one defined here.                                                       *)
(***************************************************************************)

CONSTANTS
  Property,   \* the names of a property's values (member "properties")
  Value,      \* the program values, llvm::Value * after stripPointerCasts
  Bottom,     \* the name "bottom", parent of the roots
  Parent      \* the map "parents"

ASSUME ParentAssumption ==
  /\ Bottom \notin Property
  /\ Parent \in [Property -> Property \cup {Bottom}]

Lattices == [Property -> SUBSET Value]

Empty == [q \in Property |-> {}]

-----------------------------------------------------------------------------
(* The tree.                                                               *)

\* Sets of names that contain the parent of each of their members.
ParentClosed(S) == \A r \in S : Parent[r] # Bottom => Parent[r] \in S

\* Above[q]: q and its ancestors, the names addToParents visits from q.
Above ==
  [q \in Property |->
     {r \in Property : \A S \in SUBSET Property :
                          (q \in S /\ ParentClosed(S)) => r \in S}]

\* The tree is one: no name is above its own parent.  addToParents would climb
\* for ever in any other.
ASSUME TreeAssumption ==
  \A q \in Property : Parent[q] # Bottom => q \notin Above[Parent[q]]

\* Below(q): the names removeFromProperty erases from, q and its descendants;
\* every name is below "bottom".
Below(q) ==
  IF q = Bottom THEN Property ELSE {r \in Property : q \in Above[r]}

-----------------------------------------------------------------------------
(* The methods.                                                            *)

RemoveFromAll(L, v) == [q \in Property |-> L[q] \ {v}]

\* as AddToParents, but the recursion stops before the last ancestor
AddToParentsShort(L, p, v) ==
  [q \in Property |->
     IF q \in Above[p] /\ (q = p \/ Parent[q] # Bottom)
       THEN L[q] \cup {v} ELSE L[q]]

\* as AddToParents, but only the named set is filled
AddToParentsFlat(L, p, v) ==
  [q \in Property |-> IF q = p THEN L[q] \cup {v} ELSE L[q]]

\* as AddToParents, but "bottom" is taken for a name like the others
AddToParentsPastRoot(L, p, v) ==
  [q \in Property \cup {Bottom} |->
     IF q = Bottom THEN {v}
     ELSE IF q \in Above[p] THEN L[q] \cup {v} ELSE L[q]]

AddToParents(L, p, v) ==
  [q \in Property |-> IF q \in Above[p] THEN L[q] \cup {v} ELSE L[q]]

\* addToParents as it is written: insert, then recur on the parent.
AddToParentsLoop(L, p, v) ==
  LET insert[a \in Lattices \X Property] ==
        LET inserted == [a[1] EXCEPT ![a[2]] = @ \cup {v}]
        IN  IF Parent[a[2]] = Bottom THEN inserted
                                     ELSE insert[<<inserted, Parent[a[2]]>>]
  IN  insert[<<L, p>>]

\* as AddToProperty, but the value keeps its former names
AddToPropertyKeeping(L, p, v) == AddToParents(L, p, v)

AddToProperty(L, p, v) == AddToParents(RemoveFromAll(L, v), p, v)

IsInProperty(L, p, v) == v \in L[p]

\* as RemoveFromProperty, but the children are left alone
RemoveFromPropertyShallow(L, p, v) ==
  [q \in Property |-> IF q = p THEN L[q] \ {v} ELSE L[q]]

\* as RemoveFromProperty, but climbing instead of descending
RemoveFromPropertyUpwards(L, p, v) ==
  [q \in Property |->
     IF p = Bottom \/ q \in Above[p] THEN L[q] \ {v} ELSE L[q]]

RemoveFromProperty(L, p, v) ==
  [q \in Property |-> IF q \in Below(p) THEN L[q] \ {v} ELSE L[q]]

Children(p) == {q \in Property : Parent[q] = p}

\* L without v in the sets of the names S.
Erase(L, S, v) == [q \in Property |-> IF q \in S THEN L[q] \ {v} ELSE L[q]]

\* The loop of removeFromProperty as it is written: a stack of parents, whose
\* children are erased from and pushed.  The order of the children does not
\* matter.
RemoveChildren(L, stack, v) ==
  LET erase[a \in Lattices \X SUBSET (Property \cup {Bottom})] ==
        IF a[2] = {} THEN a[1]
        ELSE LET parent == CHOOSE p \in a[2] : TRUE
             IN  erase[<<Erase(a[1], Children(parent), v),
                         (a[2] \ {parent}) \cup Children(parent)>>]
  IN  erase[<<L, stack>>]

RemoveFromPropertyLoop(L, p, v) ==
  RemoveChildren(IF p = Bottom THEN L ELSE [L EXCEPT ![p] = @ \ {v}], {p}, v)

\* the first lattice's own members survive a meet with a lattice that has none
MeetIntersectLenient(first, second) ==
  [q \in Property |->
     IF second[q] = {} THEN first[q] ELSE first[q] \cap second[q]]

MeetIntersect(first, second) ==
  [q \in Property |-> first[q] \cap second[q]]

MeetUnion(first, second) ==
  [q \in Property |-> first[q] \cup second[q]]

-----------------------------------------------------------------------------
(* What a lattice object is meant to represent.                            *)

\* The names a value has in a lattice.
Names(L, v) == {q \in Property : v \in L[q]}

\* A value that has a name has the names of all its ancestors.
Upward(L) == \A v \in Value : ParentClosed(Names(L, v))

\* A value has one most precise name, and the ancestors of that name.
Single(L) ==
  \A v \in Value :
    Names(L, v) # {} => \E q \in Property : Names(L, v) = Above[q]

\* The order of the data-flow problem: less is less precise.
Leq(L, M) == \A q \in Property : L[q] \subseteq M[q]
=============================================================================
