--------------------------- MODULE LatticeObject ---------------------------
(***************************************************************************)
(* Two BroadwayLattice objects under any sequence of calls of their        *)
(* methods: addToProperty, removeFromProperty, removeFromAll, the copy     *)
(* constructor and clone, and applyMeet of src/pass/DataFlow.h, which      *)
(* replaces the first operand by the result of the meet the analysis was   *)
(* constructed with.                                                       *)
(***************************************************************************)
EXTENDS FlowSets

VARIABLES
  first,    \* a lattice object
  second,   \* another one with the same tree
  meet      \* the meet of the analysis, a member of DataFlowPass

vars == <<first, second, meet>>

TypeOK ==
  /\ first \in Lattices
  /\ second \in Lattices
  /\ meet \in {"MeetIntersect", "MeetUnion"}

\* addProperty has made every set, all of them empty.
Init ==
  /\ first = Empty
  /\ second = Empty
  /\ meet \in {"MeetIntersect", "MeetUnion"}

addToProperty(p, v) ==
  /\ first' = AddToProperty(first, p, v)
  /\ UNCHANGED <<second, meet>>

removeFromProperty(p, v) ==
  /\ first' = RemoveFromProperty(first, p, v)
  /\ UNCHANGED <<second, meet>>

removeFromAll(v) ==
  /\ first' = RemoveFromAll(first, v)
  /\ UNCHANGED <<second, meet>>

copy ==
  /\ second' = first
  /\ UNCHANGED <<first, meet>>

clone ==
  /\ first' = Empty
  /\ UNCHANGED <<second, meet>>

meetIntersect ==
  /\ meet = "MeetIntersect"
  /\ first' = MeetIntersect(first, second)
  /\ UNCHANGED <<second, meet>>

meetUnion ==
  /\ meet = "MeetUnion"
  /\ first' = MeetUnion(first, second)
  /\ UNCHANGED <<second, meet>>

Next ==
  \/ \E p \in Property, v \in Value : addToProperty(p, v)
  \/ \E p \in Property \cup {Bottom}, v \in Value : removeFromProperty(p, v)
  \/ \E v \in Value : removeFromAll(v)
  \/ copy
  \/ clone
  \/ meetIntersect
  \/ meetUnion

Spec == Init /\ [][Next]_vars

-----------------------------------------------------------------------------
(* Properties.                                                             *)

\* However the calls are mixed, and with either meet, a value recorded under a
\* name is recorded under every ancestor of the name (addToParents, Utils.h:68).
UpwardClosed == Upward(first) /\ Upward(second)

\* With intersection as the meet, a value never ends up under two unrelated
\* names: its names are one name and the ancestors of it, whatever was added,
\* removed and met before (Utils.h:62, 81 and 172).
SingleName == meet = "MeetIntersect" => Single(first) /\ Single(second)

\* A meet never invents precision: it leaves a value at the most precise
\* name that is an ancestor of the value's name on both sides, or at none
\* (Utils.h:196-198).
MeetIsCommonAncestor ==
  [][meetIntersect =>
       \A v \in Value, p, q \in Property :
         (Names(first, v) = Above[p] /\ Names(second, v) = Above[q]) =>
           \/ Names(first', v) = {} /\ Above[p] \cap Above[q] = {}
           \/ \E r \in Above[p] \cap Above[q] :
                /\ Names(first', v) = Above[r]
                /\ \A s \in Above[p] \cap Above[q] : s \in Above[r]]_vars

\* Removing a property value takes its descendants with it and makes the
\* program value fall back to the nearest ancestor it had (Utils.h:81-98).
RemovalFallsBack ==
  [][\A p \in Property, v \in Value :
       (removeFromProperty(p, v) /\ v \in first[p] /\ UpwardClosed) =>
         /\ \A q \in Property : p \in Above[q] => ~IsInProperty(first', q, v)
         /\ Parent[p] # Bottom =>
              Above[Parent[p]] \subseteq Names(first', v)]_vars

\* The meet of flow_sets with all their fields is the intersection of the sets
\* the calls can produce, whatever the edge, and the universal set is neutral
\* on either side: results have no phi values and are not universal, and the
\* two other fields can be left out of a lattice object (Utils.h:177-210).
MeetMatchesFlowSets ==
  \A p \in Property, node \in Block :
    LET a == PlainSet(first[p])
        b == PlainSet(second[p])
    IN  /\ MeetFlowSet(a, b, node) = PlainSet(MeetIntersect(first, second)[p])
        /\ MeetFlowSet(a, UniversalSet, node) = a
        /\ MeetFlowSet(UniversalSet, a, node) = a

\* addToParents, written as the recursion of Utils.h:68-74, fills the sets of
\* Above[p] and no others, on every lattice the calls can produce.
AddMatchesRecursion ==
  \A p \in Property, v \in Value :
    AddToParents(first, p, v) = AddToParentsLoop(first, p, v)

\* removeFromProperty, written as the stack loop of Utils.h:81-98, erases from
\* Below(p) and nowhere else, on every lattice the calls can produce.
RemoveMatchesLoop ==
  \A p \in Property \cup {Bottom}, v \in Value :
    RemoveFromProperty(first, p, v) = RemoveFromPropertyLoop(first, p, v)
=============================================================================
