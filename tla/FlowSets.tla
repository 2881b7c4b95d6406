------------------------------ MODULE FlowSets ------------------------------
(***************************************************************************)
(* The flow_set of src/pass/Utils.h with all its fields: the elements, one *)
(* more set for every basic block an edge of which may carry phi values,   *)
(* and the flag that stands for the set of all values.  MeetFlowSet is     *)
(* what MeetIntersect does for one name of a lattice object.               *)
(***************************************************************************)
EXTENDS BroadwayLattice

CONSTANT Block    \* basic blocks

FlowSet ==
  [elements  : SUBSET Value,
   phiSets   : [Block -> SUBSET Value],   \* a missing key is the empty set
   universal : BOOLEAN]

NoPhi == [b \in Block |-> {}]

PlainSet(S) == [elements |-> S, phiSets |-> NoPhi, universal |-> FALSE]

UniversalSet == [elements |-> {}, phiSets |-> NoPhi, universal |-> TRUE]

\* The sets the analyses of the pass work with: the default constructor leaves
\* universal false and nothing ever writes phiSets.
Plain == {PlainSet(S) : S \in SUBSET Value}

\* The plain sets and the set of all values, as flow_set(true) makes it.
Ordinary == Plain \cup {UniversalSet}

-----------------------------------------------------------------------------
\* as MeetFlowSet, but the result starts as a copy that is never cleared
MeetFlowSetUncleared(a, b, from) ==
  [elements  |-> a.elements \cup b.elements,
   phiSets   |-> a.phiSets,
   universal |-> a.universal /\ b.universal]

MeetFlowSet(a, b, from) ==
  [elements  |-> IF a.universal THEN b.elements
                 ELSE IF b.universal THEN a.elements
                 ELSE (a.elements \cap b.elements)
                        \cup (a.phiSets[from] \cap b.phiSets[from]),
   phiSets   |-> [a.phiSets EXCEPT ![from] =
                    IF a.universal THEN b.phiSets[from]
                    ELSE IF b.universal THEN @ ELSE {}],
   universal |-> a.universal /\ b.universal]

=============================================================================
