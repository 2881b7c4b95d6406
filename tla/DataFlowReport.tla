--------------------------- MODULE DataFlowReport ---------------------------
(***************************************************************************)
(* getInState and getOutState of src/pass/DataFlow.h: the states a client  *)
(* such as the DataFlowAnnotator gets to see.  The answer is built anew in *)
(* an empty clone of the initial lattice, property value by property value *)
(* in the order of the std::set "properties".                              *)
(***************************************************************************)
EXTENDS DataFlow, SequencesExt

CONSTANT PropertyOrder    \* the property values in alphabetical order

ASSUME OrderAssumption ==
  /\ PropertyOrder \in Seq(Property)
  /\ IsInjective(PropertyOrder)
  /\ Elements(PropertyOrder) = Property

\* The transfer visitor changes lattices by addToProperty alone.
ASSUME TransferUpwardAssumption ==
  \A c \in Code, L \in Lattices : Upward(L) => Upward(Transfer(c, L))

\* values.addToProperty(q, inst) for every inst in S.
AddAllToProperty(L, q, S) ==
  [r \in Property |-> IF r \in Above[q] THEN L[r] \cup S ELSE L[r] \ S]

\* as RebuiltTo, but the property values are visited from the last to the first
RebuiltToReversed(L) ==
  LET n == Len(PropertyOrder)
      values[i \in 0..n] ==
        IF i = 0 THEN Empty
        ELSE LET q == PropertyOrder[n + 1 - i]
             IN  AddAllToProperty(values[i - 1], q, L[q])
  IN  values

\* as RebuiltTo, but a value is also recorded under what lies below its name
RebuiltToDownwards(L) ==
  LET values[i \in 0..Len(PropertyOrder)] ==
        IF i = 0 THEN Empty
        ELSE LET q == PropertyOrder[i]
             IN  [r \in Property |-> IF r \in Below(q) THEN values[i - 1][r] \cup L[q]
                                                       ELSE values[i - 1][r]]
  IN  values

\* The local "values" after i turns of the loop over the property values.
RebuiltTo(L) ==
  LET values[i \in 0..Len(PropertyOrder)] ==
        IF i = 0 THEN Empty
        ELSE LET q == PropertyOrder[i]
             IN  AddAllToProperty(values[i - 1], q, L[q])
  IN  values

Rebuilt(L) == RebuiltTo(L)[Len(PropertyOrder)]

\* The phi sets that getInState adds are empty in this pass.  A block without
\* an entry has the empty clone.
getInState(b) == Rebuilt(inStates[b])

getOutState(b) == Rebuilt(outStates[b])

\* The states handed out are those the analysis computed, in every block and
\* at any time (DataFlow.h:156-182, DataFlowAnnotator.h:12-16).
ReportIsExact ==
  \A b \in Block : getInState(b) = inStates[b] /\ getOutState(b) = outStates[b]

\* The names whose ancestors all come before them in alphabetical order, which
\* in HeapCount are all names and in MemoryLeak all but Deallocated.
InOrder ==
  {PropertyOrder[i] : i \in {k \in DOMAIN PropertyOrder :
     Above[PropertyOrder[k]] \subseteq {PropertyOrder[j] : j \in 1..k}}}

\* A value whose most precise name is one of those is handed out exactly as it
\* was computed (DataFlow.h:161-163, 177-179).
ReportIsExactInOrder ==
  \A b \in Block, v \in Value, q \in InOrder :
    /\ Names(inStates[b], v) = Above[q] => Names(getInState(b), v) = Above[q]
    /\ Names(outStates[b], v) = Above[q] => Names(getOutState(b), v) = Above[q]

\* The states handed out claim nothing that was not computed: a value shows up
\* under names it has, though perhaps not under the most precise one, and never
\* disappears (DataFlow.h:161-163, 177-179).
ReportIsSafe ==
  \A b \in Block, v \in Value :
    /\ Names(getInState(b), v) \subseteq Names(inStates[b], v)
    /\ Names(inStates[b], v) # {} => Names(getInState(b), v) # {}
    /\ Names(getOutState(b), v) \subseteq Names(outStates[b], v)
=============================================================================
