--------------------------- MODULE LatticeProofs ---------------------------
(***************************************************************************)
(* Theorems about the lattice object for every tree of property values and *)
(* every set of program values, and about the meet of two flow sets for    *)
(* all values and blocks.                                                  *)
(***************************************************************************)
EXTENDS LatticeObject, TreeProofs

-----------------------------------------------------------------------------
(* Flow sets with all their fields.                                        *)

\* In a model of the pass a flow set is its elements and a meet is their
\* intersection, over any edge (Utils.h:195-206).
THEOREM MeetIsIntersection ==
  ASSUME NEW S \in SUBSET Value, NEW T \in SUBSET Value, NEW node \in Block
  PROVE  MeetFlowSet(PlainSet(S), PlainSet(T), node) = PlainSet(S \cap T)
<1>1. [NoPhi EXCEPT ![node] = {}] = NoPhi
  BY DEF NoPhi
<1>2. NoPhi[node] = {}
  BY DEF NoPhi
<1> QED
  BY <1>1, <1>2 DEF MeetFlowSet, PlainSet

\* The set of all values is neutral on both sides.
LEMMA UniversalNeutral ==
  ASSUME NEW a \in Ordinary, NEW node \in Block
  PROVE  /\ MeetFlowSet(a, UniversalSet, node) = a
         /\ MeetFlowSet(UniversalSet, a, node) = a
<1>1. [NoPhi EXCEPT ![node] = {}] = NoPhi
  BY DEF NoPhi
<1>2. NoPhi[node] = {}
  BY DEF NoPhi
<1>3. ASSUME NEW S \in SUBSET Value
      PROVE  /\ MeetFlowSet(PlainSet(S), UniversalSet, node) = PlainSet(S)
             /\ MeetFlowSet(UniversalSet, PlainSet(S), node) = PlainSet(S)
  BY <1>1, <1>2 DEF MeetFlowSet, PlainSet, UniversalSet
<1>4. MeetFlowSet(UniversalSet, UniversalSet, node) = UniversalSet
  BY <1>1, <1>2 DEF MeetFlowSet, UniversalSet
<1> QED
  BY <1>3, <1>4 DEF Ordinary, Plain

\* The neighbours of a block may be met in any order: the order in which
\* pred_iterator and succ_iterator deliver them does not matter
\* (DataFlow.h:104-115).
THEOREM OrderIndependent ==
  \A start, a, b \in Ordinary, node \in Block :
    MeetFlowSet(MeetFlowSet(start, a, node), b, node)
      = MeetFlowSet(MeetFlowSet(start, b, node), a, node)
<1> SUFFICES ASSUME NEW start \in Ordinary, NEW a \in Ordinary, NEW b \in Ordinary,
                    NEW node \in Block
             PROVE  MeetFlowSet(MeetFlowSet(start, a, node), b, node)
                      = MeetFlowSet(MeetFlowSet(start, b, node), a, node)
  OBVIOUS
<1>1. CASE \/ start = UniversalSet \/ a = UniversalSet \/ b = UniversalSet
  <2>1. ASSUME NEW x \in Ordinary, NEW y \in Ordinary
        PROVE  MeetFlowSet(x, y, node) \in Ordinary
               /\ MeetFlowSet(x, y, node) = MeetFlowSet(y, x, node)
    <3>1. CASE x = UniversalSet \/ y = UniversalSet
      BY <3>1, UniversalNeutral
    <3>2. CASE x # UniversalSet /\ y # UniversalSet
      <4>1. PICK S \in SUBSET Value : x = PlainSet(S)
        BY <3>2 DEF Ordinary, Plain
      <4>2. PICK T \in SUBSET Value : y = PlainSet(T)
        BY <3>2 DEF Ordinary, Plain
      <4>3. S \cap T = T \cap S /\ S \cap T \in SUBSET Value
        OBVIOUS
      <4>4. MeetFlowSet(x, y, node) = PlainSet(S \cap T)
        BY <4>1, <4>2, MeetIsIntersection
      <4>5. MeetFlowSet(y, x, node) = PlainSet(T \cap S)
        BY <4>1, <4>2, MeetIsIntersection
      <4>6. PlainSet(S \cap T) \in Ordinary
        BY <4>3 DEF Ordinary, Plain
      <4> QED
        BY <4>3, <4>4, <4>5, <4>6
    <3> QED
      BY <3>1, <3>2
  <2>2. ASSUME NEW x \in Ordinary, NEW y \in Ordinary
        PROVE  /\ MeetFlowSet(MeetFlowSet(x, UniversalSet, node), y, node)
                    = MeetFlowSet(x, y, node)
               /\ MeetFlowSet(MeetFlowSet(x, y, node), UniversalSet, node)
                    = MeetFlowSet(x, y, node)
    BY <2>1, UniversalNeutral
  <2>3. CASE start = UniversalSet
    <3>1. MeetFlowSet(start, a, node) = a /\ MeetFlowSet(start, b, node) = b
      BY <2>3, UniversalNeutral
    <3> QED
      BY <3>1, <2>1
  <2>4. CASE a = UniversalSet
    BY <2>4, <2>2
  <2>5. CASE b = UniversalSet
    BY <2>5, <2>2
  <2> QED
    BY <1>1, <2>3, <2>4, <2>5
<1>2. CASE start # UniversalSet /\ a # UniversalSet /\ b # UniversalSet
  <2>1. PICK S \in SUBSET Value : start = PlainSet(S)
    BY <1>2 DEF Ordinary, Plain
  <2>2. PICK A \in SUBSET Value : a = PlainSet(A)
    BY <1>2 DEF Ordinary, Plain
  <2>3. PICK B \in SUBSET Value : b = PlainSet(B)
    BY <1>2 DEF Ordinary, Plain
  <2>4. MeetFlowSet(MeetFlowSet(start, a, node), b, node)
          = PlainSet((S \cap A) \cap B)
    BY <2>1, <2>2, <2>3, MeetIsIntersection, ZenonT(30)
  <2>5. MeetFlowSet(MeetFlowSet(start, b, node), a, node)
          = PlainSet((S \cap B) \cap A)
    BY <2>1, <2>2, <2>3, MeetIsIntersection, ZenonT(30)
  <2>6. (S \cap A) \cap B = (S \cap B) \cap A
    OBVIOUS
  <2> QED
    BY <2>4, <2>5, <2>6
<1> QED
  BY <1>1, <1>2

-----------------------------------------------------------------------------
(* The state machine.                                                      *)

\* Whatever is called, both objects stay lattices over Property and Value.
THEOREM TypeCorrect == Spec => []TypeOK
<1>1. Init => TypeOK
  BY DEF Init, TypeOK, Empty, Lattices
<1>2. TypeOK /\ [Next]_vars => TypeOK'
  <2> SUFFICES ASSUME TypeOK, [Next]_vars PROVE TypeOK'
    OBVIOUS
  <2> USE DEF TypeOK
  <2>1. ASSUME NEW p \in Property, NEW v \in Value, addToProperty(p, v) PROVE TypeOK'
    BY <2>1, LatticesClosed DEF addToProperty
  <2>2. ASSUME NEW p \in Property \cup {Bottom}, NEW v \in Value,
               removeFromProperty(p, v)
        PROVE  TypeOK'
    BY <2>2, LatticesClosed DEF removeFromProperty
  <2>3. ASSUME NEW v \in Value, removeFromAll(v) PROVE TypeOK'
    BY <2>3, LatticesClosed DEF removeFromAll
  <2>4. CASE copy
    BY <2>4 DEF copy
  <2>5. CASE clone
    BY <2>5 DEF clone, Empty, Lattices
  <2>6. CASE meetIntersect
    BY <2>6 DEF meetIntersect, MeetIntersect, Lattices
  <2>7. CASE meetUnion
    BY <2>7 DEF meetUnion, MeetUnion, Lattices
  <2>8. CASE UNCHANGED vars
    BY <2>8 DEF vars
  <2> QED
    BY <2>1, <2>2, <2>3, <2>4, <2>5, <2>6, <2>7, <2>8 DEF Next
<1> QED
  BY <1>1, <1>2, PTL DEF Spec

\* In every tree a value recorded under a name is recorded under the ancestors
\* of the name, after any sequence of calls.
THEOREM AlwaysUpwardClosed == Spec => []UpwardClosed
<1>1. Init => UpwardClosed
  BY DEF Init, UpwardClosed, Upward, ParentClosed, Names, Empty
<1>2. TypeOK /\ UpwardClosed /\ [Next]_vars => UpwardClosed'
  <2> SUFFICES ASSUME TypeOK, UpwardClosed, [Next]_vars
               PROVE  Upward(first') /\ Upward(second')
    BY DEF UpwardClosed
  <2> USE DEF TypeOK, UpwardClosed, Upward
  <2>1. ASSUME NEW p \in Property, NEW v \in Value, addToProperty(p, v)
        PROVE  Upward(first') /\ Upward(second')
    BY <2>1, NamesAfterAdd, AboveClosed DEF addToProperty
  <2>2. ASSUME NEW p \in Property \cup {Bottom}, NEW v \in Value,
               removeFromProperty(p, v)
        PROVE  Upward(first') /\ Upward(second')
    <3>1. \A w \in Value : Names(first, w) \in SUBSET Property
      BY DEF Names
    <3> QED
      BY <2>2, <3>1, NamesAfterRemoval, RemovalClosed DEF removeFromProperty
  <2>3. ASSUME NEW v \in Value, removeFromAll(v)
        PROVE  Upward(first') /\ Upward(second')
    BY <2>3, NamesEmpty DEF removeFromAll, ParentClosed
  <2>4. CASE copy
    BY <2>4 DEF copy
  <2>5. CASE clone
    BY <2>5, NamesEmpty DEF clone, ParentClosed
  <2>6. CASE meetIntersect
    BY <2>6, NamesAfterMeet DEF meetIntersect, ParentClosed
  <2>7. CASE meetUnion
    BY <2>7, NamesAfterMeet DEF meetUnion, ParentClosed
  <2>8. CASE UNCHANGED vars
    BY <2>8 DEF vars
  <2> QED
    BY <2>1, <2>2, <2>3, <2>4, <2>5, <2>6, <2>7, <2>8 DEF Next
<1> QED
  BY <1>1, <1>2, TypeCorrect, PTL DEF Spec

\* In every tree, and with intersection as the meet, a value has one most
\* precise name at any time and is recorded under that one and its ancestors.
THEOREM AlwaysSingleName == Spec => []SingleName
<1>1. Init => SingleName
  BY DEF Init, SingleName, Single, Names, Empty
<1>2. TypeOK /\ SingleName /\ [Next]_vars => SingleName'
  <2> SUFFICES ASSUME TypeOK, SingleName, [Next]_vars, meet' = "MeetIntersect"
               PROVE  Single(first') /\ Single(second')
    BY DEF SingleName
  <2>0. meet = "MeetIntersect" /\ Single(first) /\ Single(second)
    BY DEF SingleName, Next, vars, addToProperty, removeFromProperty,
           removeFromAll, copy, clone, meetIntersect, meetUnion
  <2> USE <2>0 DEF TypeOK, Single
  <2>1. ASSUME NEW p \in Property, NEW v \in Value, addToProperty(p, v)
        PROVE  Single(first') /\ Single(second')
    BY <2>1, NamesAfterAdd DEF addToProperty
  <2>2. ASSUME NEW p \in Property \cup {Bottom}, NEW v \in Value,
               removeFromProperty(p, v)
        PROVE  Single(first') /\ Single(second')
    <3>1. ASSUME NEW w \in Value, Names(first', w) # {}
          PROVE  \E q \in Property : Names(first', w) = Above[q]
      <4>1. Names(first', w) = IF w = v THEN Names(first, w) \ Below(p)
                                        ELSE Names(first, w)
        BY <2>2, NamesAfterRemoval DEF removeFromProperty
      <4>2. Names(first, w) # {}
        BY <3>1, <4>1
      <4>3. PICK q \in Property : Names(first, w) = Above[q]
        BY <4>2
      <4>4. CASE p = Bottom
        <5>1. Below(p) = Property
          BY <4>4 DEF Below
        <5> QED
          BY <3>1, <4>1, <4>3, <5>1, AboveNames
      <4>5. CASE p \in Property
        <5>1. \/ Above[q] \ Below(p) = {}
              \/ \E r \in Property : Above[q] \ Below(p) = Above[r]
          BY <4>5, RemovalKeepsAncestors
        <5> QED
          BY <3>1, <4>1, <4>3, <5>1
      <4> QED
        BY <4>4, <4>5
    <3> QED
      BY <2>2, <3>1 DEF removeFromProperty
  <2>3. ASSUME NEW v \in Value, removeFromAll(v)
        PROVE  Single(first') /\ Single(second')
    BY <2>3, NamesEmpty DEF removeFromAll
  <2>4. CASE copy
    BY <2>4 DEF copy
  <2>5. CASE clone
    BY <2>5, NamesEmpty DEF clone
  <2>6. CASE meetIntersect
    <3>1. ASSUME NEW w \in Value, Names(first', w) # {}
          PROVE  \E q \in Property : Names(first', w) = Above[q]
      <4>1. Names(first', w) = Names(first, w) \cap Names(second, w)
        BY <2>6, NamesAfterMeet DEF meetIntersect
      <4>2. Names(first, w) # {} /\ Names(second, w) # {}
        BY <3>1, <4>1
      <4>3. PICK p \in Property : Names(first, w) = Above[p]
        BY <4>2
      <4>4. PICK q \in Property : Names(second, w) = Above[q]
        BY <4>2
      <4>5. Above[p] \cap Above[q] # {}
        BY <3>1, <4>1, <4>3, <4>4
      <4>6. PICK r \in Above[p] \cap Above[q] : Above[p] \cap Above[q] = Above[r]
        BY <4>5, CommonAncestors
      <4> QED
        BY <4>1, <4>3, <4>4, <4>6, AboveNames
    <3> QED
      BY <2>6, <3>1 DEF meetIntersect
  <2>7. CASE meetUnion
    BY <2>7 DEF meetUnion
  <2>8. CASE UNCHANGED vars
    BY <2>8 DEF vars
  <2> QED
    BY <2>1, <2>2, <2>3, <2>4, <2>5, <2>6, <2>7, <2>8 DEF Next
<1> QED
  BY <1>1, <1>2, TypeCorrect, PTL DEF Spec

\* In every tree a meet leaves a value at the nearest common ancestor.
THEOREM AlwaysCommonAncestor == Spec => MeetIsCommonAncestor
<1> DEFINE Met ==
      meetIntersect =>
        \A v \in Value, p, q \in Property :
          (Names(first, v) = Above[p] /\ Names(second, v) = Above[q]) =>
            \/ Names(first', v) = {} /\ Above[p] \cap Above[q] = {}
            \/ \E r \in Above[p] \cap Above[q] :
                 /\ Names(first', v) = Above[r]
                 /\ \A s \in Above[p] \cap Above[q] : s \in Above[r]
<1>1. TypeOK => Met
  <2> SUFFICES ASSUME TypeOK, meetIntersect,
                      NEW v \in Value, NEW p \in Property, NEW q \in Property,
                      Names(first, v) = Above[p], Names(second, v) = Above[q]
               PROVE  \/ Names(first', v) = {} /\ Above[p] \cap Above[q] = {}
                      \/ \E r \in Above[p] \cap Above[q] :
                           /\ Names(first', v) = Above[r]
                           /\ \A s \in Above[p] \cap Above[q] : s \in Above[r]
    OBVIOUS
  <2>1. Names(first', v) = Above[p] \cap Above[q]
    BY NamesAfterMeet DEF TypeOK, meetIntersect
  <2> QED
    BY <2>1, CommonAncestors
<1> QED
  BY <1>1, TypeCorrect, PTL DEF Spec, MeetIsCommonAncestor

\* In every tree the removal of a property value takes the descendants along
\* and leaves the value under the nearest ancestor (Utils.h:81-98).
THEOREM AlwaysFallsBack == Spec => RemovalFallsBack
<1> DEFINE FallsBack ==
      \A p \in Property, v \in Value :
        (removeFromProperty(p, v) /\ v \in first[p] /\ UpwardClosed) =>
          /\ \A q \in Property : p \in Above[q] => ~IsInProperty(first', q, v)
          /\ Parent[p] # Bottom =>
               Above[Parent[p]] \subseteq Names(first', v)
<1>1. TypeOK => FallsBack
  <2> SUFFICES ASSUME TypeOK, NEW p \in Property, NEW v \in Value,
                      removeFromProperty(p, v), v \in first[p], UpwardClosed
               PROVE  /\ \A q \in Property :
                           p \in Above[q] => ~IsInProperty(first', q, v)
                      /\ Parent[p] # Bottom =>
                           Above[Parent[p]] \subseteq Names(first', v)
    OBVIOUS
  <2>1. first \in Lattices /\ first' = RemoveFromProperty(first, p, v)
    BY DEF TypeOK, removeFromProperty
  <2>2. p # Bottom /\ Below(p) = {q \in Property : p \in Above[q]}
    BY ParentAssumption DEF Below
  <2>3. Names(first', v) = Names(first, v) \ Below(p)
    BY <2>1, NamesAfterRemoval
  <2>4. ASSUME NEW q \in Property, p \in Above[q] PROVE ~IsInProperty(first', q, v)
    BY <2>2, <2>3, <2>4 DEF IsInProperty, Names
  <2>5. ASSUME Parent[p] # Bottom PROVE Above[Parent[p]] \subseteq Names(first', v)
    <3>1. Parent[p] \in Property
      BY <2>5, ParentAssumption
    <3>2. /\ Names(first, v) \in SUBSET Property
          /\ p \in Names(first, v)
          /\ ParentClosed(Names(first, v))
      BY DEF Names, UpwardClosed, Upward
    <3>3. Parent[p] \in Names(first, v)
      BY <2>5, <3>2 DEF ParentClosed
    <3>4. Above[Parent[p]] \subseteq Names(first, v)
      BY <3>1, <3>2, <3>3, AboveLeast
    <3>5. ASSUME NEW r \in Above[Parent[p]], p \in Above[r] PROVE FALSE
      BY <2>5, <3>1, <3>5, AboveTransitive, TreeAssumption
    <3> QED
      BY <2>2, <2>3, <3>4, <3>5
  <2> QED
    BY <2>4, <2>5
<1> QED
  BY <1>1, TypeCorrect, PTL DEF Spec, RemovalFallsBack

\* On the lattice objects the calls can produce the meet of flow_sets with all
\* their fields is the intersection (Utils.h:177-210).
THEOREM AlwaysMatchesFlowSets == Spec => []MeetMatchesFlowSets
<1>1. TypeOK => MeetMatchesFlowSets
  <2> SUFFICES ASSUME TypeOK, NEW p \in Property, NEW node \in Block
               PROVE  LET a == PlainSet(first[p])
                          b == PlainSet(second[p])
                      IN  /\ MeetFlowSet(a, b, node)
                               = PlainSet(MeetIntersect(first, second)[p])
                          /\ MeetFlowSet(a, UniversalSet, node) = a
                          /\ MeetFlowSet(UniversalSet, a, node) = a
    BY DEF MeetMatchesFlowSets
  <2>1. MeetIntersect(first, second)[p] = first[p] \cap second[p]
    BY DEF MeetIntersect
  <2>2. first[p] \in SUBSET Value /\ second[p] \in SUBSET Value
    BY DEF TypeOK, Lattices
  <2>3. PlainSet(first[p]) \in Ordinary
    BY <2>2 DEF Ordinary, Plain
  <2> QED
    BY <2>1, <2>2, <2>3, MeetIsIntersection, UniversalNeutral
<1> QED
  BY <1>1, TypeCorrect, PTL

\* On the lattice objects the calls can produce, addToParents as one assignment
\* is the recursion of the code, for every finite tree (Utils.h:68-74).
THEOREM AlwaysMatchesRecursion == IsFiniteSet(Property) => (Spec => []AddMatchesRecursion)
<1> SUFFICES ASSUME IsFiniteSet(Property) PROVE Spec => []AddMatchesRecursion
  OBVIOUS
<1>1. TypeOK => AddMatchesRecursion
  BY AddIsRecursion DEF TypeOK, AddMatchesRecursion
<1> QED
  BY <1>1, TypeCorrect, PTL

\* And removeFromProperty is its stack loop (Utils.h:81-98).
THEOREM AlwaysMatchesLoop == IsFiniteSet(Property) => (Spec => []RemoveMatchesLoop)
<1> SUFFICES ASSUME IsFiniteSet(Property) PROVE Spec => []RemoveMatchesLoop
  OBVIOUS
<1>1. TypeOK => RemoveMatchesLoop
  BY RemoveIsLoop DEF TypeOK, RemoveMatchesLoop
<1> QED
  BY <1>1, TypeCorrect, PTL
=============================================================================
