----------------------------- MODULE TreeProofs -----------------------------
(***************************************************************************)
(* Facts about the tree of property values, for every such tree: its       *)
(* ancestor sets, and the recursion and the loop of src/pass/Utils.h that  *)
(* the model writes as one assignment over them.                           *)
(***************************************************************************)
EXTENDS BroadwayLattice, FiniteSetTheorems, WellFoundedInduction, TLAPS

-----------------------------------------------------------------------------
(* Facts about the tree.  Above[q] is the least parent-closed set with q,  *)
(* so that a fact about all ancestors is shown with a set that is closed.  *)

\* q is among its own names.
LEMMA AboveSelf == ASSUME NEW q \in Property PROVE q \in Above[q]
  BY DEF Above

\* Above[q] holds names only.
LEMMA AboveNames == ASSUME NEW q \in Property PROVE Above[q] \subseteq Property
  BY DEF Above

\* With a name Above[q] holds the parent of the name.
LEMMA AboveClosed == ASSUME NEW q \in Property PROVE ParentClosed(Above[q])
<1> SUFFICES ASSUME NEW r \in Above[q], Parent[r] # Bottom
             PROVE  Parent[r] \in Above[q]
  BY DEF ParentClosed
<1>1. Parent[r] \in Property
  BY AboveNames, ParentAssumption
<1>2. ASSUME NEW S \in SUBSET Property, q \in S, ParentClosed(S)
      PROVE  Parent[r] \in S
  BY <1>2 DEF Above, ParentClosed
<1> QED
  BY <1>1, <1>2 DEF Above

\* Above[q] is within every closed set of names that has q.
LEMMA AboveLeast ==
  ASSUME NEW q \in Property, NEW S \in SUBSET Property, q \in S, ParentClosed(S)
  PROVE  Above[q] \subseteq S
  BY DEF Above

\* An ancestor's ancestors are ancestors.
LEMMA AboveTransitive ==
  ASSUME NEW q \in Property, NEW r \in Above[q]
  PROVE  Above[r] \subseteq Above[q]
  BY AboveNames, AboveClosed, AboveLeast

\* An ancestor of q is q itself or an ancestor of q's parent.
LEMMA AboveStep ==
  ASSUME NEW q \in Property, NEW r \in Above[q], r # q
  PROVE  /\ Parent[q] # Bottom
         /\ Parent[q] \in Property
         /\ r \in Above[Parent[q]]
<1> DEFINE S == {q} \cup (IF Parent[q] = Bottom THEN {} ELSE Above[Parent[q]])
<1>1. Parent[q] # Bottom => Parent[q] \in Property
  BY ParentAssumption
<1>2. S \in SUBSET Property
  BY <1>1, AboveNames
<1>3. ParentClosed(S)
  <2> SUFFICES ASSUME NEW x \in S, Parent[x] # Bottom PROVE Parent[x] \in S
    BY DEF ParentClosed
  <2>1. CASE x = q
    BY <2>1, <1>1, AboveSelf
  <2>2. CASE x # q
    BY <2>2, <1>1, AboveClosed DEF ParentClosed
  <2> QED
    BY <2>1, <2>2
<1>4. r \in S
  BY <1>2, <1>3, AboveLeast
<1> QED
  BY <1>1, <1>4

\* The common ancestors of two names are those of the nearest one, or none.
LEMMA CommonAncestors ==
  ASSUME NEW p \in Property, NEW q \in Property, Above[p] \cap Above[q] # {}
  PROVE  \E r \in Above[p] \cap Above[q] : Above[p] \cap Above[q] = Above[r]
<1> DEFINE C == Above[p] \cap Above[q]
           W == {x \in Above[p] : C \subseteq Above[x]}
<1>1. ASSUME NEW r \in C PROVE Above[r] \subseteq C
  BY AboveTransitive
<1> SUFFICES ASSUME \A r \in C : ~(C \subseteq Above[r]) PROVE FALSE
  BY <1>1
<1>2. W \in SUBSET Property /\ p \in W
  BY AboveNames, AboveSelf
<1>3. ParentClosed(W)
  <2> SUFFICES ASSUME NEW x \in W, Parent[x] # Bottom PROVE Parent[x] \in W
    BY DEF ParentClosed
  <2>1. x \in Property /\ x \notin C /\ C \subseteq Above[x]
    BY <1>2
  <2>2. ASSUME NEW r \in C PROVE r \in Above[Parent[x]]
    BY <2>1, AboveStep
  <2>3. Parent[x] \in Above[p]
    BY AboveClosed DEF ParentClosed
  <2> QED
    BY <2>2, <2>3
<1>4. Above[p] \subseteq W
  BY <1>2, <1>3, AboveLeast
<1> QED
  BY <1>4

\* What is left of a name and its ancestors after a name and its descendants
\* are taken away: nothing, or the ancestors of one name.
LEMMA RemovalKeepsAncestors ==
  ASSUME NEW q \in Property, NEW p \in Property
  PROVE  \/ Above[q] \ Below(p) = {}
         \/ \E r \in Property : Above[q] \ Below(p) = Above[r]
<1> DEFINE R == {x \in Above[q] : p \notin Above[x]}
<1>0. p # Bottom /\ Above[q] \ Below(p) = R
  BY ParentAssumption, AboveNames DEF Below
<1>1. CASE p \notin Above[q]
  BY <1>0, <1>1, AboveTransitive
<1>2. CASE p \in Above[q] /\ R # {}
  <2>1. PICK x \in R : TRUE
    BY <1>2
  <2> DEFINE U == IF Parent[p] = Bottom THEN {} ELSE Above[Parent[p]]
             W == {y \in Above[q] : p \in Above[y]} \cup U
  <2>2. Parent[p] # Bottom => Parent[p] \in Property
    BY ParentAssumption
  <2>3. ParentClosed(W)
    <3> SUFFICES ASSUME NEW y \in W, Parent[y] # Bottom PROVE Parent[y] \in W
      BY DEF ParentClosed
    <3>1. CASE y \in U
      BY <3>1, <2>2, AboveClosed DEF ParentClosed
    <3>2. CASE y = p
      BY <3>2, <2>2, AboveSelf
    <3>3. CASE y \notin U /\ y # p
      <4>1. y \in Above[q] /\ p \in Above[y] /\ y \in Property
        BY <3>3, AboveNames
      <4>2. p \in Above[Parent[y]]
        BY <4>1, <3>3, AboveStep
      <4> QED
        BY <4>1, <4>2, AboveClosed DEF ParentClosed
    <3> QED
      BY <3>1, <3>2, <3>3
  <2>4. W \in SUBSET Property /\ q \in W
    BY <1>2, <2>2, AboveNames, AboveSelf
  <2>5. Above[q] \subseteq W
    BY <2>3, <2>4, AboveLeast
  <2>6. R \subseteq U
    BY <2>5
  <2>7. Parent[p] # Bottom /\ Parent[p] \in Property /\ x \in Above[Parent[p]]
    BY <2>1, <2>2, <2>6
  <2>8. ASSUME NEW y \in Above[Parent[p]], p \in Above[y] PROVE FALSE
    <3> DEFINE Z == {z \in Above[p] : p \in Above[z]}
    <3>1. p \in Above[Parent[p]]
      BY <2>7, <2>8, AboveTransitive
    <3>2. Z \in SUBSET Property /\ p \in Z
      BY AboveNames, AboveSelf
    <3>3. ParentClosed(Z)
      <4> SUFFICES ASSUME NEW z \in Z, Parent[z] # Bottom PROVE Parent[z] \in Z
        BY DEF ParentClosed
      <4>1. Parent[z] \in Above[p]
        BY AboveClosed DEF ParentClosed
      <4>2. z \in Property
        BY <3>2
      <4>3. p \in Above[Parent[z]]
        BY <3>1, <4>2, AboveStep
      <4> QED
        BY <4>1, <4>3
    <3>4. Above[p] \subseteq Z
      BY <3>2, <3>3, AboveLeast
    <3>5. Parent[p] \in Above[p]
      BY <2>7, AboveSelf, AboveClosed DEF ParentClosed
    <3>6. x \in Above[p]
      BY <2>7, <3>5, AboveTransitive
    <3> QED
      BY <2>1, <3>4, <3>6
  <2>9. Above[Parent[p]] \subseteq Above[q]
    <3>1. Parent[p] \in Above[q]
      BY <1>2, <2>7, AboveClosed DEF ParentClosed
    <3> QED
      BY <3>1, AboveTransitive
  <2>10. R = Above[Parent[p]]
    BY <2>6, <2>7, <2>8, <2>9
  <2> QED
    BY <1>0, <2>7, <2>10
<1> QED
  BY <1>0, <1>1, <1>2

-----------------------------------------------------------------------------
(* Each method keeps the shape of a lattice object.                        *)

\* The names of a value after an assignment are those of the assignment.
LEMMA NamesAfterAdd ==
  ASSUME NEW L \in Lattices, NEW p \in Property, NEW v \in Value, NEW w \in Value
  PROVE  Names(AddToProperty(L, p, v), w)
           = IF w = v THEN Above[p] ELSE Names(L, w)
  BY AboveNames DEF Names, AddToProperty, AddToParents, RemoveFromAll, Lattices

\* The names of a value after the removal of a property value.
LEMMA NamesAfterRemoval ==
  ASSUME NEW L \in Lattices, NEW p \in Property \cup {Bottom},
         NEW v \in Value, NEW w \in Value
  PROVE  Names(RemoveFromProperty(L, p, v), w)
           = IF w = v THEN Names(L, w) \ Below(p) ELSE Names(L, w)
  BY DEF Names, RemoveFromProperty, Lattices

\* The names of a value after a meet.
LEMMA NamesAfterMeet ==
  ASSUME NEW L \in Lattices, NEW M \in Lattices, NEW v \in Value
  PROVE  /\ Names(MeetIntersect(L, M), v) = Names(L, v) \cap Names(M, v)
         /\ Names(MeetUnion(L, M), v) = Names(L, v) \cup Names(M, v)
  BY DEF Names, MeetIntersect, MeetUnion, Lattices

\* No name in an empty lattice, nor of a value that was removed from all.
LEMMA NamesEmpty ==
  ASSUME NEW L \in Lattices, NEW v \in Value, NEW w \in Value
  PROVE  /\ Names(Empty, w) = {}
         /\ Names(RemoveFromAll(L, v), w) = IF w = v THEN {} ELSE Names(L, w)
  BY DEF Names, Empty, RemoveFromAll, Lattices

\* A removal takes the descendants along, so the rest is closed.
LEMMA RemovalClosed ==
  ASSUME NEW S \in SUBSET Property, ParentClosed(S),
         NEW p \in Property \cup {Bottom}
  PROVE  ParentClosed(S \ Below(p))
<1> SUFFICES ASSUME NEW r \in S \ Below(p), Parent[r] # Bottom
             PROVE  Parent[r] \in S \ Below(p)
  BY DEF ParentClosed
<1>1. Parent[r] \in S /\ r \in Property /\ Parent[r] \in Property
  BY DEF ParentClosed
<1>2. Above[Parent[r]] \subseteq Above[r]
  BY <1>1, AboveSelf, AboveClosed, AboveTransitive DEF ParentClosed
<1> QED
  BY <1>1, <1>2 DEF Below

\* What every method keeps is a lattice.
LEMMA LatticesClosed ==
  ASSUME NEW L \in Lattices, NEW M \in Lattices, NEW v \in Value,
         NEW p \in Property \cup {Bottom}
  PROVE  /\ Empty \in Lattices
         /\ p \in Property => AddToProperty(L, p, v) \in Lattices
         /\ RemoveFromProperty(L, p, v) \in Lattices
         /\ RemoveFromAll(L, v) \in Lattices
         /\ MeetIntersect(L, M) \in Lattices
         /\ MeetUnion(L, M) \in Lattices
  BY DEF Lattices, Empty, AddToProperty, AddToParents, RemoveFromAll,
         RemoveFromProperty, MeetIntersect, MeetUnion

-----------------------------------------------------------------------------
(* The loops of Utils.h.  The model writes addToParents as one assignment   *)
(* over Above[p], and removeFromProperty as one over Below(p).  Both satisfy *)
(* the equations of the code: what is still to be done before a turn is what *)
(* the turn does and what is to be done after it.                           *)

\* The names of a name: itself and those of its parent.
LEMMA AboveUnfolds ==
  ASSUME NEW q \in Property
  PROVE  Above[q] = {q} \cup (IF Parent[q] = Bottom THEN {} ELSE Above[Parent[q]])
<1>1. Parent[q] # Bottom => Parent[q] \in Above[q]
  BY AboveSelf, AboveClosed DEF ParentClosed
<1>2. Parent[q] # Bottom => Above[Parent[q]] \subseteq Above[q]
  BY <1>1, AboveTransitive
<1> QED
  BY <1>2, AboveSelf, AboveStep

\* addToParents (Utils.h:68-74): insert, then, unless the parent is "bottom",
\* the same for the parent.
THEOREM AddToParentsUnfolds ==
  ASSUME NEW L \in Lattices, NEW p \in Property, NEW v \in Value
  PROVE  LET inserted == [L EXCEPT ![p] = @ \cup {v}]
         IN  AddToParents(L, p, v) =
               IF Parent[p] = Bottom THEN inserted
                                     ELSE AddToParents(inserted, Parent[p], v)
<1> DEFINE inserted == [L EXCEPT ![p] = @ \cup {v}]
<1>1. inserted = [q \in Property |-> IF q = p THEN L[q] \cup {v} ELSE L[q]]
  BY DEF Lattices
<1>2. CASE Parent[p] = Bottom
  BY <1>1, <1>2, AboveUnfolds DEF AddToParents
<1>3. CASE Parent[p] # Bottom
  <2>1. \A q \in Property : q \in Above[p] <=> q = p \/ q \in Above[Parent[p]]
    BY <1>3, AboveUnfolds
  <2> QED
    BY <1>1, <1>3, <2>1 DEF AddToParents
<1> QED
  BY <1>2, <1>3

\* What the loop makes of a lattice with a stack of names: it erases from all
\* that is below a child of one of them.
Rest(L, stack, v) ==
  [q \in Property |->
     IF \E s \in stack : \E c \in Children(s) : q \in Below(c)
       THEN L[q] \ {v} ELSE L[q]]

\* In a finite tree every name is below a root.
LEMMA SomeRoot ==
  ASSUME IsFiniteSet(Property), NEW q \in Property
  PROVE  \E c \in Children(Bottom) : c \in Above[q]
<1> DEFINE T == {Above[r] : r \in Above[q]}
<1>1. T # {} /\ T \subseteq FiniteSubsetsOf(Property)
  BY AboveSelf, AboveNames, FS_Subset DEF FiniteSubsetsOf
<1>2. PICK m \in T : \A t \in T : <<t, m>> \notin StrictSubsetOrdering(Property)
  <2> HIDE DEF T
  <2> QED
    BY <1>1, FS_StrictSubsetOrderingWellFounded, WFMin
<1>3. PICK r \in Above[q] : m = Above[r]
  OBVIOUS
<1>4. r \in Property /\ r \in Above[r]
  BY AboveNames, AboveSelf
<1>5. CASE Parent[r] # Bottom
  <2>1. Parent[r] \in Above[q] /\ Parent[r] \in Property
    BY <1>4, <1>5, AboveClosed, ParentAssumption DEF ParentClosed
  <2>2. Above[Parent[r]] \subseteq Above[r]
    BY <1>4, <1>5, AboveUnfolds
  <2>3. r \notin Above[Parent[r]]
    BY <1>4, <1>5, TreeAssumption
  <2>4. <<Above[Parent[r]], Above[r]>> \in StrictSubsetOrdering(Property)
    BY <1>4, <2>1, <2>2, <2>3, AboveNames DEF StrictSubsetOrdering
  <2> QED
    BY <1>2, <1>3, <2>1, <2>4
<1> QED
  BY <1>4, <1>5 DEF Children

\* What is below a name: the name itself and what is below its children.
LEMMA BelowUnfolds ==
  ASSUME NEW p \in Property, NEW q \in Property
  PROVE  q \in Below(p) <=> (q = p \/ \E c \in Children(p) : q \in Below(c))
<1>0. \A c \in Property : q \in Below(c) <=> c \in Above[q]
  BY ParentAssumption DEF Below
<1>1. ASSUME p \in Above[q], q # p, \A c \in Children(p) : c \notin Above[q]
      PROVE  FALSE
  <2>1. ParentClosed(Above[q] \ {p})
    <3> SUFFICES ASSUME NEW r \in Above[q] \ {p}, Parent[r] # Bottom
                 PROVE  Parent[r] \in Above[q] \ {p}
      BY DEF ParentClosed
    <3>1. r \in Property /\ Parent[r] \in Above[q]
      BY AboveNames, AboveClosed DEF ParentClosed
    <3> QED
      BY <1>1, <3>1 DEF Children
  <2> QED
    BY <1>1, <2>1, AboveNames, AboveSelf, AboveLeast
<1>2. ASSUME NEW c \in Children(p), c \in Above[q] PROVE p \in Above[q]
  BY <1>2, ParentAssumption, AboveClosed DEF Children, ParentClosed
<1> QED
  BY <1>0, <1>1, <1>2, AboveSelf DEF Children

\* removeFromProperty (Utils.h:81-98) before its loop: it erases from the name
\* itself, unless that is "bottom", and pushes the name.
THEOREM RemovalStarts ==
  ASSUME IsFiniteSet(Property),
         NEW L \in Lattices, NEW p \in Property \cup {Bottom}, NEW v \in Value
  PROVE  RemoveFromProperty(L, p, v) =
           Rest(IF p = Bottom THEN L ELSE [L EXCEPT ![p] = @ \ {v}], {p}, v)
<1>1. CASE p = Bottom
  <2>1. \A q \in Property : q \in Below(p)
    BY <1>1 DEF Below
  <2>2. \A q \in Property : \E c \in Children(p) : q \in Below(c)
    <3>1. \A q, c \in Property : q \in Below(c) <=> c \in Above[q]
      BY ParentAssumption DEF Below
    <3> QED
      BY <1>1, <3>1, SomeRoot DEF Children
  <2> QED
    BY <1>1, <2>1, <2>2 DEF RemoveFromProperty, Rest
<1>2. CASE p \in Property
  <2> DEFINE M == [L EXCEPT ![p] = @ \ {v}]
  <2>1. M = [q \in Property |-> IF q = p THEN L[q] \ {v} ELSE L[q]]
    BY DEF Lattices
  <2>2. p # Bottom
    BY <1>2, ParentAssumption
  <2>3. ASSUME NEW q \in Property
        PROVE  RemoveFromProperty(L, p, v)[q] = Rest(M, {p}, v)[q]
    BY <1>2, <2>1, BelowUnfolds DEF RemoveFromProperty, Rest
  <2> QED
    BY <2>2, <2>3 DEF RemoveFromProperty, Rest
<1> QED
  BY <1>1, <1>2

\* One turn of the loop: the children of a name on the stack are erased from
\* and take its place.
THEOREM RemovalTurn ==
  ASSUME NEW L \in Lattices, NEW stack \in SUBSET (Property \cup {Bottom}),
         NEW s \in stack, NEW v \in Value
  PROVE  Rest(L, stack, v)
           = Rest(Erase(L, Children(s), v), (stack \ {s}) \cup Children(s), v)
<1> DEFINE next == (stack \ {s}) \cup Children(s)
<1>1. ASSUME NEW q \in Property
      PROVE  (\E t \in stack : \E c \in Children(t) : q \in Below(c))
               <=> \/ q \in Children(s)
                   \/ \E t \in next : \E c \in Children(t) : q \in Below(c)
  <2>1. \A c \in Children(s) :
          q \in Below(c) <=> (q = c \/ \E d \in Children(c) : q \in Below(d))
    BY BelowUnfolds DEF Children
  <2> QED
    BY <2>1
<1> QED
  BY <1>1 DEF Rest, Erase

\* The end of the loop: nothing is left to be done.
LEMMA RemovalEnds == ASSUME NEW L \in Lattices, NEW v \in Value PROVE Rest(L, {}, v) = L
  BY DEF Rest, Lattices

\* The recursion of addToParents ends, at a root, with every set of Above[p]
\* filled: by induction along the climb, on which the ancestor sets get smaller.
THEOREM AddIsRecursion ==
  ASSUME IsFiniteSet(Property),
         NEW L \in Lattices, NEW p \in Property, NEW v \in Value
  PROVE  AddToParents(L, p, v) = AddToParentsLoop(L, p, v)
<1> DEFINE A == Lattices \X Property
           put(a) == [a[1] EXCEPT ![a[2]] = @ \cup {v}]
           Turn(g, a) == IF Parent[a[2]] = Bottom THEN put(a) ELSE g[<<put(a), Parent[a[2]]>>]
           Is(g) == g = [a \in A |-> Turn(g, a)]
           f == CHOOSE g : Is(g)
           h == [a \in A |-> AddToParents(a[1], a[2], v)]
<1>1. ASSUME NEW a \in A
      PROVE  /\ put(a) \in Lattices
             /\ Parent[a[2]] # Bottom => <<put(a), Parent[a[2]]>> \in A
  BY ParentAssumption DEF Lattices
<1>2. Is(h)
  <2>1. ASSUME NEW a \in A PROVE AddToParents(a[1], a[2], v) = Turn(h, a)
    <3>1. a[1] \in Lattices /\ a[2] \in Property
      OBVIOUS
    <3>2. AddToParents(a[1], a[2], v)
            = IF Parent[a[2]] = Bottom THEN put(a) ELSE AddToParents(put(a), Parent[a[2]], v)
      BY <3>1, AddToParentsUnfolds
    <3> HIDE DEF put
    <3> QED
      BY <1>1, <3>2
  <2> HIDE DEF Turn
  <2> QED
    BY <2>1
<1>3. Is(f)
  <2> HIDE DEF Is, h
  <2> QED
    BY <1>2
<1>4. AddToParentsLoop(L, p, v) = f[<<L, p>>]
  BY DEF AddToParentsLoop
<1> HIDE DEF f
<1> DEFINE Good(q) == \A M \in Lattices : f[<<M, q>>] = AddToParents(M, q, v)
           Bad == {q \in Property : ~Good(q)}
           T == {Above[q] : q \in Bad}
<1>5. Bad = {}
  <2> SUFFICES ASSUME Bad # {} PROVE FALSE
    OBVIOUS
  <2>1. T # {} /\ T \subseteq FiniteSubsetsOf(Property)
    <3>1. \A q \in Property : Above[q] \in FiniteSubsetsOf(Property)
      BY AboveNames, FS_Subset DEF FiniteSubsetsOf
    <3> HIDE DEF Good
    <3> QED
      BY <3>1
  <2>2. PICK m \in T : \A t \in T : <<t, m>> \notin StrictSubsetOrdering(Property)
    <3> HIDE DEF T
    <3> QED
      BY <2>1, FS_StrictSubsetOrderingWellFounded, WFMin
  <2>3. PICK q \in Bad : m = Above[q]
    OBVIOUS
  <2>4. q \in Property /\ ~Good(q)
    OBVIOUS
  <2>5. Parent[q] # Bottom => Parent[q] \in Property /\ Good(Parent[q])
    <3> HAVE Parent[q] # Bottom
    <3>1. Parent[q] \in Property /\ q \in Above[q] /\ q \notin Above[Parent[q]]
      BY <2>4, ParentAssumption, TreeAssumption, AboveSelf
    <3>2. Above[Parent[q]] \subseteq Above[q]
      BY <2>4, AboveUnfolds
    <3>3. <<Above[Parent[q]], Above[q]>> \in StrictSubsetOrdering(Property)
      BY <2>4, <3>1, <3>2, AboveNames DEF StrictSubsetOrdering
    <3>4. Above[Parent[q]] \notin T
      BY <2>2, <2>3, <3>3
    <3> HIDE DEF Good
    <3> QED
      BY <3>1, <3>4
  <2>6. ASSUME NEW M \in Lattices PROVE f[<<M, q>>] = AddToParents(M, q, v)
    <3> DEFINE a == <<M, q>>
    <3>1. a \in A /\ a[1] = M /\ a[2] = q
      BY <2>4
    <3>2. f[a] = Turn(f, a)
      <4> HIDE DEF Turn, a
      <4> QED
        BY <1>3, <3>1
    <3>3. AddToParents(M, q, v)
            = IF Parent[q] = Bottom THEN put(a) ELSE AddToParents(put(a), Parent[q], v)
      BY <2>4, AddToParentsUnfolds
    <3>4. put(a) \in Lattices
      BY <1>1, <3>1
    <3> HIDE DEF put, a
    <3> QED
      BY <2>5, <3>1, <3>2, <3>3, <3>4
  <2> QED
    BY <2>4, <2>6
<1> QED
  BY <1>4, <1>5

-----------------------------------------------------------------------------
(* The loop of removeFromProperty ends.  None of the names on its stack is *)
(* below another, so that a name taken off the stack never comes back.     *)

Antichain(stack) == \A s, t \in stack : s \in Below(t) => s = t

\* The names on a stack and those below them.
Covered(stack) == stack \cup UNION {Below(s) : s \in stack}

\* A turn keeps the names on the stack apart, and leaves fewer to be looked at.
LEMMA TurnShrinks ==
  ASSUME NEW stack \in SUBSET (Property \cup {Bottom}), Antichain(stack), NEW s \in stack
  PROVE  LET new == (stack \ {s}) \cup Children(s)
         IN  /\ new \in SUBSET (Property \cup {Bottom})
             /\ Antichain(new)
             /\ Covered(new) \subseteq Covered(stack)
             /\ s \in Covered(stack) /\ s \notin Covered(new)
<1> DEFINE new == (stack \ {s}) \cup Children(s)
<1>0. Bottom \notin Property
  BY ParentAssumption
<1>1. ASSUME NEW q \in Property \cup {Bottom}, NEW r \in Property \cup {Bottom}
      PROVE  q \in Below(r) <=> q \in Property /\ (r = Bottom \/ (r # Bottom /\ r \in Above[q]))
  BY <1>1 DEF Below
<1>2. ASSUME NEW c \in Children(s)
      PROVE  /\ c \in Property /\ Parent[c] = s /\ c \in Below(c) /\ c \in Below(s)
             /\ s = Bottom => Above[c] = {c}
             /\ s # Bottom => s \in Property /\ Above[c] = {c} \cup Above[s] /\ c \notin Above[s]
  <2>1. c \in Property /\ Parent[c] = s
    BY DEF Children
  <2>2. Above[c] = {c} \cup (IF s = Bottom THEN {} ELSE Above[s])
    BY <2>1, AboveUnfolds
  <2>3. s # Bottom => s \in Property /\ c \notin Above[s] /\ s \in Above[s]
    BY <2>1, TreeAssumption, AboveSelf
  <2> QED
    BY <1>0, <1>1, <2>1, <2>2, <2>3
<1>3. ASSUME NEW t \in stack, t # s, NEW c \in Children(s)
      PROVE  c \notin Below(t) \/ c = t
  <2> SUFFICES ASSUME c \in Below(t), c # t PROVE FALSE
    OBVIOUS
  <2>1. CASE s = Bottom
    <3>1. t \in Property
      BY <1>3, <2>1
    <3>2. t \in Below(s)
      BY <1>1, <2>1, <3>1
    <3> QED
      BY <1>3, <3>2 DEF Antichain
  <2>2. CASE s # Bottom
    <3>1. t # Bottom
      <4>1. s \in Below(t) \/ t # Bottom
        BY <1>1, <1>2, <2>2
      <4> QED
        BY <1>3, <4>1 DEF Antichain
    <3>2. t \in Above[c] /\ t \in Property
      BY <1>1, <1>2, <3>1
    <3>3. t \in Above[s]
      BY <1>2, <2>2, <3>2
    <3>4. s \in Below(t)
      BY <1>1, <1>2, <2>2, <3>1, <3>2, <3>3
    <3> QED
      BY <1>3, <3>4 DEF Antichain
  <2> QED
    BY <2>1, <2>2
<1>4. ASSUME NEW t \in Property \cup {Bottom}, NEW c \in Children(s), t \in Below(c)
      PROVE  t \in Below(s)
  <2>1. t \in Property /\ c \in Above[t]
    BY <1>0, <1>1, <1>2, <1>4
  <2>2. s # Bottom => s \in Above[t]
    <3> HAVE s # Bottom
    <3>1. s \in Above[c]
      BY <1>2, AboveSelf
    <3> QED
      BY <2>1, <3>1, AboveTransitive
  <2> QED
    BY <1>1, <2>1, <2>2
<1>5. ASSUME NEW c \in Children(s), NEW d \in Children(s), c \in Below(d)
      PROVE  c = d
  BY <1>0, <1>1, <1>2, <1>5
<1>6. Antichain(new)
  <2> SUFFICES ASSUME NEW t \in new, NEW u \in new, t \in Below(u) PROVE t = u
    BY DEF Antichain
  <2>1. CASE t \in stack \ {s} /\ u \in stack \ {s}
    BY <2>1 DEF Antichain
  <2>2. CASE t \in Children(s) /\ u \in stack \ {s}
    BY <1>3, <2>2
  <2>3. CASE t \in stack \ {s} /\ u \in Children(s)
    <3>1. t \in Below(s)
      BY <1>4, <2>3
    <3> QED
      BY <2>3, <3>1 DEF Antichain
  <2>4. CASE t \in Children(s) /\ u \in Children(s)
    BY <1>5, <2>4
  <2> QED
    BY <2>1, <2>2, <2>3, <2>4
<1>7. Covered(new) \subseteq Covered(stack)
  <2> SUFFICES ASSUME NEW q \in Covered(new) PROVE q \in Covered(stack)
    OBVIOUS
  <2>1. CASE q \in new
    BY <1>2, <2>1 DEF Covered
  <2>2. CASE q \notin new
    <3>1. PICK t \in new : q \in Below(t)
      BY <2>2 DEF Covered
    <3>2. q \in Property
      BY <3>1, AboveNames DEF Below
    <3>3. CASE t \in stack
      BY <3>1, <3>3 DEF Covered
    <3>4. CASE t \in Children(s)
      BY <1>4, <3>1, <3>2, <3>4 DEF Covered
    <3> QED
      BY <3>3, <3>4
  <2> QED
    BY <2>1, <2>2
<1>8. s \notin Covered(new)
  <2>1. s \notin Children(s)
    <3>1. s \in Property => s \in Above[s]
      BY AboveSelf
    <3> QED
      BY <1>0, <1>2, <3>1
  <2>2. ASSUME NEW t \in stack, t # s, s \in Below(t) PROVE FALSE
    BY <2>2 DEF Antichain
  <2>3. ASSUME NEW c \in Children(s), s \in Below(c) PROVE FALSE
    BY <1>0, <1>1, <1>2, <2>3
  <2> QED
    BY <2>1, <2>2, <2>3 DEF Covered
<1>9. new \in SUBSET (Property \cup {Bottom}) /\ s \in Covered(stack)
  BY DEF Covered, Children
<1> QED
  BY <1>6, <1>7, <1>8, <1>9

\* The loop, from any stack of names that lie apart, erases from all that is
\* below one of them: by induction on what is left to be looked at.
LEMMA LoopErases ==
  ASSUME IsFiniteSet(Property), NEW v \in Value,
         NEW L \in Lattices, NEW stack \in SUBSET (Property \cup {Bottom}), Antichain(stack)
  PROVE  RemoveChildren(L, stack, v) = Rest(L, stack, v)
<1> DEFINE Stacks == SUBSET (Property \cup {Bottom})
           A == Lattices \X Stacks
           Top(S) == CHOOSE p \in S : TRUE
           After(a) == <<Erase(a[1], Children(Top(a[2])), v),
                         (a[2] \ {Top(a[2])}) \cup Children(Top(a[2]))>>
           Turn(g, a) == IF a[2] = {} THEN a[1] ELSE g[After(a)]
           Is(g) == g = [a \in A |-> Turn(g, a)]
           f == CHOOSE g : Is(g)
           h == [a \in A |-> Rest(a[1], a[2], v)]
<1>1. ASSUME NEW a \in A, a[2] # {}
      PROVE  /\ Top(a[2]) \in a[2]
             /\ After(a) \in A
             /\ Rest(a[1], a[2], v) = Rest(After(a)[1], After(a)[2], v)
  <2>1. Top(a[2]) \in a[2] /\ a[1] \in Lattices /\ a[2] \in Stacks
    BY <1>1
  <2> HIDE DEF Top
  <2>2. Erase(a[1], Children(Top(a[2])), v) \in Lattices
    BY <2>1 DEF Erase, Lattices
  <2>3. (a[2] \ {Top(a[2])}) \cup Children(Top(a[2])) \in Stacks
    BY <2>1 DEF Children
  <2> QED
    BY <2>1, <2>2, <2>3, RemovalTurn
<1>2. Is(h)
  <2>1. ASSUME NEW a \in A PROVE Rest(a[1], a[2], v) = Turn(h, a)
    <3>1. CASE a[2] = {}
      BY <3>1, RemovalEnds
    <3>2. CASE a[2] # {}
      <4> HIDE DEF After, A
      <4> QED
        BY <1>1, <3>2
    <3> QED
      BY <3>1, <3>2
  <2> HIDE DEF Turn
  <2> QED
    BY <2>1
<1>3. Is(f)
  <2> HIDE DEF Is, h
  <2> QED
    BY <1>2
<1>4. RemoveChildren(L, stack, v) = f[<<L, stack>>]
  BY DEF RemoveChildren
<1> HIDE DEF f
<1> DEFINE Good(S) == \A M \in Lattices : f[<<M, S>>] = Rest(M, S, v)
           Bad == {S \in Stacks : Antichain(S) /\ ~Good(S)}
           T == {Covered(S) : S \in Bad}
           Names1 == Property \cup {Bottom}
<1>5. IsFiniteSet(Names1)
  BY FS_AddElement
<1>6. \A S \in Stacks : Covered(S) \in FiniteSubsetsOf(Names1)
  <2>1. \A S \in Stacks : Covered(S) \subseteq Names1
    BY AboveNames DEF Covered, Below
  <2> HIDE DEF Names1
  <2> QED
    BY <1>5, <2>1, FS_Subset DEF FiniteSubsetsOf
<1> HIDE DEF Names1
<1>7. Bad = {}
  <2> SUFFICES ASSUME Bad # {} PROVE FALSE
    OBVIOUS
  <2>1. T # {} /\ T \subseteq FiniteSubsetsOf(Names1)
    <3> HIDE DEF Good, Stacks
    <3> QED
      BY <1>6
  <2>2. PICK m \in T : \A t \in T : <<t, m>> \notin StrictSubsetOrdering(Names1)
    <3> HIDE DEF T
    <3> QED
      BY <2>1, FS_StrictSubsetOrderingWellFounded, WFMin
  <2>3. PICK S \in Bad : m = Covered(S)
    OBVIOUS
  <2>4. S \in Stacks /\ Antichain(S) /\ ~Good(S)
    OBVIOUS
  <2> DEFINE s == Top(S)
             new == (S \ {s}) \cup Children(s)
  <2>5. S # {} => new \in Stacks /\ Good(new)
    <3> HAVE S # {}
    <3>1. s \in S
      OBVIOUS
    <3> HIDE DEF s
    <3>2. /\ new \in Stacks /\ Antichain(new) /\ Covered(new) \subseteq Covered(S)
          /\ s \in Covered(S) /\ s \notin Covered(new)
      BY <2>4, <3>1, TurnShrinks
    <3> HIDE DEF new
    <3>3. <<Covered(new), Covered(S)>> \in StrictSubsetOrdering(Names1)
      <4>1. Covered(new) \in FiniteSubsetsOf(Names1) /\ Covered(S) \in FiniteSubsetsOf(Names1)
        BY <1>6, <2>4, <3>2
      <4> QED
        BY <3>2, <4>1 DEF StrictSubsetOrdering, FiniteSubsetsOf
    <3>4. Covered(new) \notin T
      BY <2>2, <2>3, <3>3
    <3> HIDE DEF Good, Stacks
    <3> QED
      BY <3>2, <3>4
  <2>6. ASSUME NEW M \in Lattices PROVE f[<<M, S>>] = Rest(M, S, v)
    <3> DEFINE a == <<M, S>>
    <3>1. a \in A /\ a[1] = M /\ a[2] = S
      BY <2>4
    <3>2. f[a] = Turn(f, a)
      <4> HIDE DEF Turn, a, A
      <4> QED
        BY <1>3, <3>1
    <3>3. CASE S = {}
      BY <3>2, <3>3, RemovalEnds
    <3>4. CASE S # {}
      <4>1. /\ After(a) \in A
            /\ Rest(M, S, v) = Rest(After(a)[1], After(a)[2], v)
            /\ After(a)[2] = new /\ After(a)[1] \in Lattices
            /\ After(a) = <<After(a)[1], new>>
        <5>1. After(a) \in A /\ Rest(a[1], a[2], v) = Rest(After(a)[1], After(a)[2], v)
          <6> HIDE DEF A, After, a
          <6> QED
            BY <1>1, <3>1, <3>4
        <5>2. After(a)[2] = new
          BY <3>1
        <5>3. After(a) = <<After(a)[1], new>>
          BY <3>1
        <5> HIDE DEF After, a, new
        <5> QED
          BY <3>1, <5>1, <5>2, <5>3
      <4> HIDE DEF After, a, new, A
      <4>2. f[<<After(a)[1], new>>] = Rest(After(a)[1], new, v)
        BY <2>5, <3>4, <4>1
      <4>3. f[a] = f[After(a)]
        BY <3>1, <3>2, <3>4
      <4>4. f[a] = Rest(After(a)[1], new, v)
        BY <4>1, <4>2, <4>3, Zenon
      <4>5. Rest(M, S, v) = f[a]
        BY <4>1, <4>4, Zenon
      <4> QED
        BY <4>5 DEF a
    <3> QED
      BY <3>3, <3>4
  <2> QED
    BY <2>4, <2>6
<1> QED
  BY <1>4, <1>7

\* The stack loop of removeFromProperty ends, with Below(p) erased from and
\* nothing else.
THEOREM RemoveIsLoop ==
  ASSUME IsFiniteSet(Property),
         NEW L \in Lattices, NEW p \in Property \cup {Bottom}, NEW v \in Value
  PROVE  RemoveFromProperty(L, p, v) = RemoveFromPropertyLoop(L, p, v)
<1> DEFINE M == IF p = Bottom THEN L ELSE [L EXCEPT ![p] = @ \ {v}]
<1>1. M \in Lattices
  BY DEF Lattices
<1>2. Antichain({p}) /\ {p} \in SUBSET (Property \cup {Bottom})
  BY DEF Antichain
<1>3. RemoveFromPropertyLoop(L, p, v) = RemoveChildren(M, {p}, v)
  BY DEF RemoveFromPropertyLoop
<1>4. RemoveFromProperty(L, p, v) = Rest(M, {p}, v)
  BY RemovalStarts
<1> HIDE DEF M
<1> QED
  BY <1>1, <1>2, <1>3, <1>4, LoopErases
=============================================================================
