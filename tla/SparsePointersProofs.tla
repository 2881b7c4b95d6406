------------------------ MODULE SparsePointersProofs ------------------------
(***************************************************************************)
(* With a relation that orders the locations, the list of definitions does *)
(* what the comment at model/Blocks.h:55-58 promises: it stays ordered,    *)
(* and the search from the front finds the nearest reaching definition.    *)
(*                                                                         *)
(* The locations of a program have no such relation, because a merge and   *)
(* what is in its block come each before the other.  For every program:    *)
(* blocks are ordered by dominance, the chains of calls have a bound, and  *)
(* the lists of the analysis are out of order at merges only.              *)
(*                                                                         *)
(* And flow-insensitively, in a program without loops, the analysis misses *)
(* no value that a pointer has in an execution.                            *)
(***************************************************************************)
EXTENDS SparsePointers, FiniteSetTheorems, WellFoundedInduction, TLAPS

\* The search from the front stops somewhere.
LEMMA SomeFirst ==
  ASSUME NEW list, Len(list) \in Nat, NEW S
  PROVE  IsFirst(list, S, First(list, S))
<1> DEFINE T == {i \in 1..Len(list) + 1 : i <= Len(list) => list[i] \in S}
<1>1. T \subseteq Nat /\ Len(list) + 1 \in T
  OBVIOUS
<1>2. PICK k \in T : \A j \in T : ~(<<j, k>> \in OpToRel(<, Nat))
  <2> HIDE DEF T
  <2> QED
    BY <1>1, NatLessThanWellFounded, WFMin
<1>3. ASSUME NEW i \in Nat, NEW j \in Nat, i < j
      PROVE  <<i, j>> \in OpToRel(<, Nat)
  BY <1>3 DEF OpToRel
<1>4. ASSUME NEW j \in 1..k - 1 PROVE list[j] \notin S
  <2>1. j \in 1..Len(list) + 1 /\ j \in Nat /\ k \in Nat /\ j < k
    OBVIOUS
  <2>2. j \notin T
    BY <1>2, <1>3, <2>1
  <2> QED
    BY <2>1, <2>2
<1>5. IsFirst(list, S, k)
  BY <1>4 DEF IsFirst
<1> QED
  BY <1>5 DEF First

\* A new definition goes before the first that dominates it.  That keeps the
\* list ordered, whatever partial order the locations have (Defs.cpp:84-93).
THEOREM DefinitionsStayOrdered ==
  ASSUME NEW Loc, NEW list \in Seq(Loc), NEW r, NEW loc \in Loc, NEW S,
         PartialOrder(r), Before(r, loc, S), Ordered(list, r), NoDef \notin Loc
  PROVE  Ordered(make_def_at(list, loc, S), r)
<1> DEFINE k    == First(list, S \cup {loc})
           made == Insert(list, k, loc)
<1>1. CASE find_def(list, loc) # NoDef
  BY <1>1 DEF make_def_at
<1>2. CASE find_def(list, loc) = NoDef
  <2>1. IsFirst(list, S \cup {loc}, k)
    BY SomeFirst
  <2>2. k \in 1..Len(list) + 1
    BY <2>1 DEF IsFirst
  <2>3. Len(made) = Len(list) + 1
    BY DEF Insert
  <2>4. \A i \in 1..Len(list) : list[i] # loc
    <3>1. IsFirst(list, {loc}, First(list, {loc}))
      BY SomeFirst
    <3>2. ~(First(list, {loc}) <= Len(list))
      BY <1>2, <3>1 DEF find_def, FirstDef, IsFirst
    <3>3. First(list, {loc}) = Len(list) + 1
      BY <3>1, <3>2 DEF IsFirst
    <3>4. IsFirst(list, {loc}, Len(list) + 1)
      BY <3>1, <3>3
    <3>5. \A i \in 1..Len(list) : list[i] \notin {loc}
      <4> HIDE <3>1, <3>2, <3>3
      <4>1. ASSUME NEW i \in 1..Len(list) PROVE i \in 1..(Len(list) + 1) - 1
        OBVIOUS
      <4> QED
        BY <3>4, <4>1 DEF IsFirst
    <3> QED
      BY <3>5
  <2>5. \A i \in 1..k - 1 : <<list[i], loc>> \notin r
    BY <2>1 DEF IsFirst, Before
  <2>6. ASSUME NEW j \in k..Len(list) PROVE <<loc, list[j]>> \notin r
    <3>1. <<list[k], loc>> \in r
      BY <2>1, <2>2, <2>4 DEF IsFirst, Before
    <3>2. <<list[k], list[j]>> \notin r
      BY <2>2 DEF Ordered, PartialOrder
    <3> QED
      BY <3>1, <3>2 DEF PartialOrder
  <2>7. ASSUME NEW i \in 1..Len(made), NEW j \in 1..Len(made), i < j
        PROVE  <<made[i], made[j]>> \notin r
    <3> USE <2>2, <2>3, <2>7 DEF Insert
    <3>1. CASE i = k
      <4>1. made[i] = loc /\ made[j] = list[j - 1] /\ j - 1 \in k..Len(list)
        BY <3>1
      <4> QED
        BY <2>6, <4>1
    <3>2. CASE j = k
      <4>1. made[j] = loc /\ made[i] = list[i] /\ i \in 1..k - 1
        BY <3>2
      <4> QED
        BY <2>5, <4>1
    <3>3. CASE i # k /\ j # k
      <4>1. PICK a \in 1..Len(list), b \in 1..Len(list) :
              a < b /\ made[i] = list[a] /\ made[j] = list[b]
        <5>1. CASE j < k
          <6>1. i \in 1..Len(list) /\ j \in 1..Len(list)
            BY <5>1
          <6>2. made[i] = list[i] /\ made[j] = list[j]
            BY <5>1
          <6> QED
            BY <6>1, <6>2
        <5>2. CASE i < k /\ k < j
          <6>1. i \in 1..Len(list) /\ j - 1 \in 1..Len(list) /\ i < j - 1
            BY <5>2
          <6>2. made[i] = list[i] /\ made[j] = list[j - 1]
            BY <5>2
          <6> QED
            BY <6>1, <6>2
        <5>3. CASE k < i
          <6>1. /\ i - 1 \in 1..Len(list) /\ j - 1 \in 1..Len(list)
                /\ i - 1 < j - 1
            BY <5>3
          <6>2. made[i] = list[i - 1] /\ made[j] = list[j - 1]
            BY <5>3
          <6> QED
            BY <6>1, <6>2
        <5>4. j < k \/ (i < k /\ k < j) \/ k < i
          <6> HIDE DEF made
          <6> QED
            BY <3>3
        <5> HIDE DEF made
        <5> QED
          BY <5>1, <5>2, <5>3, <5>4
      <4> QED
        BY <4>1 DEF Ordered
    <3> QED
      BY <3>1, <3>2, <3>3
  <2>8. make_def_at(list, loc, S) = made
    BY <1>2 DEF make_def_at
  <2> HIDE DEF made
  <2> QED
    BY <2>7, <2>8 DEF Ordered
<1> QED
  BY <1>1, <1>2

\* The first definition that dominates a location is the nearest: all others
\* that dominate the location dominate that definition (Defs.cpp:56-65).
THEOREM FirstIsNearest ==
  ASSUME NEW Loc, NEW list \in Seq(Loc), NEW r, NEW loc, NEW S,
         TreeOrder(r), Before(r, loc, S), Ordered(list, r), NoDef \notin Loc,
         NEW i \in 1..Len(list), <<list[i], loc>> \in r
  PROVE  LET d == find_strictly_dominating_def(list, S)
         IN  d \in S /\ (d = list[i] \/ <<list[i], d>> \in r)
<1> DEFINE k == First(list, S)
<1>1. IsFirst(list, S, k)
  BY SomeFirst
<1>2. k \in 1..Len(list) /\ k <= i
  BY <1>1 DEF IsFirst, Before
<1>3. find_strictly_dominating_def(list, S) = list[k] /\ list[k] \in S
  BY <1>1, <1>2 DEF find_strictly_dominating_def, FirstDef, IsFirst
<1>4. list[k] = list[i] \/ <<list[i], list[k]>> \in r
  <2>1. <<list[k], loc>> \in r
    BY <1>3 DEF Before
  <2>2. k # i => <<list[k], list[i]>> \notin r
    BY <1>2 DEF Ordered
  <2> QED
    BY <2>1, <2>2 DEF TreeOrder
<1> QED
  BY <1>3, <1>4

-----------------------------------------------------------------------------
(* The invariant.                                                          *)

\* Where there are definitions: at merges and stores, never at calls.
DefLocations(f) ==
  {l \in ProgramLocations(f) :
     l = Global \/ l[3] = 0 \/
       (l[3] \in DOMAIN f.code[l[2]] /\ f.code[l[2]][l[3]].kind # "call")}

\* The calls of analyze_proc that may be in progress.
Frames(f) ==
  {fr \in [ctx : Contexts(f), bb : DOMAIN f.proc \cup {Null}, next : Nat,
           changes : SUBSET MemBlock, defined : SUBSET MemBlock] :
     fr.bb # Null => f.proc[fr.bb] = ProcOf(f, fr.ctx) /\ fr.next # 0}

InfoInv ==
  /\ \A p \in DOMAIN fn.entry : info.order[p] \in WorklistOrders(fn, p)
  /\ info.dom_tree = DomTree(fn)
  /\ info.dominators =
       [m \in ProgramLocations(fn) |->
          {l \in ProgramLocations(fn) : StrictlyDominates(l, m, DomTree(fn))}]

TypeInv ==
  /\ fn \in Programs
  /\ InfoInv
  /\ flowSensitive \in BOOLEAN
  /\ worklist \subseteq DOMAIN fn.proc
  /\ stack \in Seq(Frames(fn)) /\ stack # <<>>
  /\ phis \in [{<<l[1], l[2]>> : l \in ProgramLocations(fn)} -> SUBSET MemBlock]
  /\ defs \in [MemBlock -> Seq(DefLocations(fn))]
  /\ points_to \in [MemBlock -> [ProgramLocations(fn) -> SUBSET MemBlock]]
  /\ current \subseteq MemBlock

\* Flow-insensitive, there is one definition, found anywhere.
OneDefinition ==
  ~flowSensitive => \A m \in MemBlock : \A i \in DOMAIN defs[m] : defs[m][i] = Anywhere

\* Of a list of locations: one before another that it dominates shares with it
\* the block of a merge, which is in the list no later than the latter.
Excused(list, dom_tree) ==
  \A i, j \in DOMAIN list :
    (i < j /\ StrictlyDominates(list[i], list[j], dom_tree)) =>
      \E k \in 1..j :
        /\ list[k] # Global /\ list[k][3] = 0
        /\ Inside(list[i], list[k][1], list[k][2])
        /\ Inside(list[j], list[k][1], list[k][2])

IInv ==
  /\ TypeInv
  /\ OneDefinition
  /\ \A m \in MemBlock : Excused(defs[m], DomTree(fn))

-----------------------------------------------------------------------------
(* What a set of blocks leads to, and dominance.                           *)

\* g are the sets that a step makes one from another, N times from base.
IsGrowth(g, N, base, step) ==
  g = [n \in 0..N |-> IF n = 0 THEN base ELSE step[g[n - 1]]]

\* A step can be repeated any number of times.
LEMMA GrowthExists ==
  ASSUME NEW X, NEW N \in Nat, NEW base \in X, NEW step \in [X -> X]
  PROVE  \E g \in [0..N -> X] : IsGrowth(g, N, base, step)
<1> DEFINE Is(k, g) == g = [n \in 0..k |-> IF n = 0 THEN base ELSE step[g[n - 1]]]
           Bad == {k \in 0..N : ~\E g \in [0..k -> X] : Is(k, g)}
<1> SUFFICES ASSUME Bad # {} PROVE FALSE
  BY DEF IsGrowth
<1>1. PICK k \in Bad : \A j \in Bad : ~(<<j, k>> \in OpToRel(<, Nat))
  <2>1. Bad \subseteq Nat
    OBVIOUS
  <2> HIDE DEF Bad
  <2> QED
    BY <2>1, NatLessThanWellFounded, WFMin
<1>2. CASE k = 0
  <2> DEFINE g == [n \in 0..0 |-> base]
  <2>1. g \in [0..0 -> X] /\ g = [n \in 0..0 |-> IF n = 0 THEN base ELSE step[g[n - 1]]]
    OBVIOUS
  <2> QED
    BY <1>1, <1>2, <2>1
<1>3. CASE k # 0
  <2>1. k \in 0..N /\ k \in Nat /\ k - 1 \in 0..N /\ k - 1 < k /\ k - 1 \in Nat
    BY <1>3
  <2>2. k - 1 \notin Bad
    <3> HIDE DEF Bad
    <3> QED
      BY <1>1, <2>1 DEF OpToRel
  <2>3. PICK g \in [0..(k - 1) -> X] : Is(k - 1, g)
    BY <2>1, <2>2
  <2> DEFINE last == step[g[k - 1]]
             h == [n \in 0..k |-> IF n = k THEN last ELSE g[n]]
  <2>4. g[k - 1] \in X /\ last \in X
    BY <2>1
  <2> HIDE DEF last
  <2>5. h \in [0..k -> X]
    BY <2>1, <2>4
  <2>6. ASSUME NEW n \in 0..k
        PROVE  h[n] = IF n = 0 THEN base ELSE step[h[n - 1]]
    <3>1. CASE n = k
      <4>1. h[n] = last /\ n - 1 \in 0..k /\ n - 1 # k
        BY <2>1, <3>1
      <4>2. h[n - 1] = g[k - 1]
        BY <3>1, <4>1
      <4> QED
        BY <2>1, <3>1, <4>1, <4>2, <1>3 DEF last
    <3>2. CASE n # k
      <4>1. n \in 0..(k - 1) /\ (n # 0 => n - 1 \in 0..k /\ n - 1 # k)
        BY <2>1, <3>2
      <4>2. g[n] = IF n = 0 THEN base ELSE step[g[n - 1]]
        BY <2>3, <4>1
      <4> QED
        BY <3>2, <4>1, <4>2
    <3> QED
      BY <3>1, <3>2
  <2>7. Is(k, h)
    <3> HIDE DEF h
    <3>1. h = [n \in 0..k |-> h[n]]
      BY <2>5
    <3>2. [n \in 0..k |-> h[n]] = [n \in 0..k |-> IF n = 0 THEN base ELSE step[h[n - 1]]]
      BY <2>6
    <3> QED
      BY <3>1, <3>2
  <2> HIDE DEF h
  <2> QED
    BY <1>1, <2>5, <2>7
<1> QED
  BY <1>2, <1>3

\* A property of the first set that every step keeps is one of the last.
LEMMA GrowthKeeps ==
  ASSUME NEW N \in Nat, NEW base, NEW step, NEW g, NEW Kept,
         IsGrowth(g, N, base, step), base \in Kept,
         \A n \in 0..N : g[n] \in Kept /\ n # N => step[g[n]] \in Kept
  PROVE  \A n \in 0..N : g[n] \in Kept
<1> DEFINE Bad == {n \in 0..N : g[n] \notin Kept}
<1> SUFFICES ASSUME Bad # {} PROVE FALSE
  OBVIOUS
<1>1. PICK n \in Bad : \A j \in Bad : ~(<<j, n>> \in OpToRel(<, Nat))
  <2>1. Bad \subseteq Nat
    OBVIOUS
  <2> HIDE DEF Bad
  <2> QED
    BY <2>1, NatLessThanWellFounded, WFMin
<1>2. n \in 0..N /\ g[n] = IF n = 0 THEN base ELSE step[g[n - 1]]
  BY DEF IsGrowth
<1>3. n # 0
  BY <1>2
<1>4. n - 1 \in 0..N /\ n - 1 \in Nat /\ n \in Nat /\ n - 1 < n /\ n - 1 # N
  BY <1>2, <1>3
<1>5. g[n - 1] \in Kept
  BY <1>1, <1>4 DEF OpToRel
<1> QED
  BY <1>2, <1>3, <1>4, <1>5

\* In a finite set, a step that only adds has nothing more to add when it is
\* repeated as often as the set has members.
LEMMA GrowthEnds ==
  ASSUME NEW D, IsFiniteSet(D), NEW step \in [SUBSET D -> SUBSET D],
         \A T \in SUBSET D : T \subseteq step[T], NEW base \in SUBSET D,
         NEW g \in [0..Cardinality(D) -> SUBSET D],
         IsGrowth(g, Cardinality(D), base, step)
  PROVE  /\ base \subseteq g[Cardinality(D)]
         /\ step[g[Cardinality(D)]] = g[Cardinality(D)]
<1> DEFINE N == Cardinality(D)
           Ends(T) == step[T] = T
           Bad == {n \in 0..N : ~(Ends(g[n]) \/ Cardinality(g[n]) >= n)}
<1>1. N \in Nat
  BY FS_CardinalityType
<1>2. ASSUME NEW n \in 0..N PROVE g[n] = IF n = 0 THEN base ELSE step[g[n - 1]]
  BY <1>2 DEF IsGrowth
<1> HIDE DEF N
<1>3. ASSUME NEW T \in SUBSET D
      PROVE  IsFiniteSet(T) /\ Cardinality(T) \in Nat /\ Cardinality(T) =< N
  BY FS_Subset, FS_CardinalityType DEF N
<1>4. Bad = {}
  <2> SUFFICES ASSUME Bad # {} PROVE FALSE
    OBVIOUS
  <2>1. PICK n \in Bad : \A j \in Bad : ~(<<j, n>> \in OpToRel(<, Nat))
    <3>1. Bad \subseteq Nat
      BY <1>1
    <3> HIDE DEF Bad
    <3> QED
      BY <3>1, NatLessThanWellFounded, WFMin
  <2>2. n \in 0..N /\ n \in Nat /\ g[n] \in SUBSET D
    BY <1>1 DEF N
  <2>3. n # 0
    BY <1>3, <2>2
  <2>4. n - 1 \in 0..N /\ n - 1 \in Nat /\ n - 1 < n /\ g[n - 1] \in SUBSET D
    BY <1>1, <2>2, <2>3 DEF N
  <2>5. Ends(g[n - 1]) \/ Cardinality(g[n - 1]) >= n - 1
    <3>1. n - 1 \notin Bad
      <4> HIDE DEF Bad
      <4> QED
        BY <2>1, <2>2, <2>4 DEF OpToRel
    <3> HIDE DEF Ends
    <3> QED
      BY <2>4, <3>1
  <2>6. g[n] = step[g[n - 1]]
    BY <1>2, <2>2, <2>3
  <2>7. ~Ends(g[n - 1])
    <3>1. Ends(g[n - 1]) => Ends(g[n])
      BY <2>6
    <3> QED
      BY <3>1, <2>1
  <2>8. g[n - 1] \subseteq g[n] /\ g[n - 1] # g[n]
    BY <2>4, <2>6, <2>7
  <2>9. Cardinality(g[n - 1]) < Cardinality(g[n])
    BY <1>3, <2>2, <2>4, <2>8, FS_Subset, FS_CardinalityType
  <2>10. Cardinality(g[n]) >= n
    <3>1. Cardinality(g[n - 1]) >= n - 1
      BY <2>5, <2>7
    <3>2. Cardinality(g[n - 1]) \in Nat /\ Cardinality(g[n]) \in Nat
      BY <1>3, <2>2, <2>4
    <3> QED
      BY <2>2, <2>9, <3>1, <3>2
  <2> QED
    BY <2>10
<1>5. N \in 0..N /\ g[N] \in SUBSET D
  BY <1>1 DEF N
<1>6. Ends(g[N])
  <2>1. CASE Cardinality(g[N]) >= N
    <3>1. g[N] = D
      <4>1. Cardinality(g[N]) = Cardinality(D)
        BY <1>1, <1>3, <1>5, <2>1 DEF N
      <4> QED
        BY <1>5, <4>1, FS_Subset
    <3>2. step[D] \in SUBSET D /\ D \subseteq step[D]
      OBVIOUS
    <3> QED
      BY <3>1, <3>2
  <2> QED
    BY <1>4, <1>5, <2>1
<1>7. base \subseteq g[N]
  <2> DEFINE Kept == {T \in SUBSET D : base \subseteq T}
  <2>1. \A n \in 0..N : g[n] \in Kept /\ n # N => step[g[n]] \in Kept
    OBVIOUS
  <2>2. base \in Kept /\ IsGrowth(g, N, base, step)
    BY DEF N
  <2> HIDE DEF Kept
  <2>3. \A n \in 0..N : g[n] \in Kept
    BY <1>1, <2>1, <2>2, GrowthKeeps
  <2> QED
    BY <1>5, <2>3 DEF Kept
<1> QED
  BY <1>6, <1>7 DEF N

\* A block is of a procedure, reached from its entry, and leads to others of it.
LEMMA BlockFacts ==
  ASSUME NEW f \in Programs, NEW b \in DOMAIN f.proc
  PROVE  /\ f.proc[b] \in DOMAIN f.entry /\ f.entry[f.proc[b]] \in DOMAIN f.proc
         /\ b \in ReachFrom(f, {f.entry[f.proc[b]]}, {})
         /\ f.succ[b] \subseteq BlocksOf(f, f.proc[b]) /\ b # Null
<1>1. f.entry \in [{f.proc[c] : c \in DOMAIN f.proc} -> DOMAIN f.proc]
  BY ProgramsAssumption
<1>2. f.proc[b] \in DOMAIN f.entry /\ f.entry[f.proc[b]] \in DOMAIN f.proc
  BY <1>1
<1>3. b \in ReachFrom(f, {f.entry[f.proc[b]]}, {})
  BY ProgramsAssumption
<1>4. f.succ[b] \subseteq BlocksOf(f, f.proc[b]) /\ b # Null
  BY ProgramsAssumption
<1> QED
  BY <1>2, <1>3, <1>4

\* T has what its blocks lead to, but for what is cut off.
ClosedBlocks(f, T, cut) == \A b \in T : f.succ[b] \ cut \subseteq T

\* What S leads to is the least such set.
LEMMA ReachFacts ==
  ASSUME NEW f \in Programs, NEW S \in SUBSET DOMAIN f.proc, NEW cut
  PROVE  /\ ReachFrom(f, S, cut) \subseteq DOMAIN f.proc
         /\ S \ cut \subseteq ReachFrom(f, S, cut)
         /\ ClosedBlocks(f, ReachFrom(f, S, cut), cut)
         /\ \A T \in SUBSET DOMAIN f.proc :
              S \ cut \subseteq T /\ ClosedBlocks(f, T, cut) => ReachFrom(f, S, cut) \subseteq T
<1> DEFINE D == DOMAIN f.proc
           N == Cardinality(D)
           X == SUBSET D
           Step(T) == UNION {{b} \cup (f.succ[b] \ cut) : b \in T}
           step == [T \in X |-> Step(T)]
           base == S \ cut
           Is(g) == g = [n \in 0..N |-> IF n = 0 THEN base ELSE Step(g[n - 1])]
           R == CHOOSE g : Is(g)
<1>1. N \in Nat /\ IsFiniteSet(D) /\ f.succ \in [D -> X] /\ base \in X
  BY ProgramsAssumption, FS_CardinalityType
<1> HIDE DEF D, N, base
<1>2. \A T \in X : Step(T) \in X /\ T \subseteq Step(T)
  BY <1>1
<1>3. step \in [X -> X]
  <2> HIDE DEF X, Step
  <2> QED
    BY <1>2
<1>4. PICK h \in [0..N -> X] : IsGrowth(h, N, base, step)
  <2> HIDE DEF step, X
  <2> QED
    BY <1>1, <1>3, GrowthExists
<1> HIDE DEF X, Step
<1>5. ASSUME NEW g PROVE Is(g) <=> g \in [0..N -> X] /\ IsGrowth(g, N, base, step)
  <2>1. ASSUME Is(g) PROVE \A n \in 0..N : g[n] \in X
    <3> DEFINE Bad == {n \in 0..N : g[n] \notin X}
    <3> SUFFICES ASSUME Bad # {} PROVE FALSE
      OBVIOUS
    <3>1. PICK n \in Bad : \A j \in Bad : ~(<<j, n>> \in OpToRel(<, Nat))
      <4>1. Bad \subseteq Nat
        BY <1>1
      <4> HIDE DEF Bad
      <4> QED
        BY <4>1, NatLessThanWellFounded, WFMin
    <3>2. n \in 0..N /\ g[n] = IF n = 0 THEN base ELSE Step(g[n - 1])
      BY <2>1
    <3>3. n # 0
      BY <1>1, <3>2
    <3>4. n - 1 \in 0..N /\ n - 1 \in Nat /\ n \in Nat /\ n - 1 < n
      BY <1>1, <3>2, <3>3
    <3>5. g[n - 1] \in X
      BY <3>1, <3>4 DEF OpToRel
    <3> QED
      BY <1>2, <3>2, <3>3, <3>5
  <2>2. ASSUME \A n \in 0..N : g[n] \in X, NEW n \in 0..N, n # 0
        PROVE  Step(g[n - 1]) = step[g[n - 1]]
    <3>1. n - 1 \in 0..N
      BY <1>1, <2>2
    <3> QED
      BY <2>2, <3>1
  <2> HIDE DEF step
  <2>3. ASSUME Is(g) PROVE g \in [0..N -> X] /\ IsGrowth(g, N, base, step)
    <3>1. \A n \in 0..N : g[n] \in X
      BY <2>1, <2>3
    <3>2. g \in [0..N -> X]
      BY <2>3, <3>1
    <3>3. [n \in 0..N |-> IF n = 0 THEN base ELSE Step(g[n - 1])]
            = [n \in 0..N |-> IF n = 0 THEN base ELSE step[g[n - 1]]]
      BY <2>2, <3>1
    <3> QED
      BY <2>3, <3>2, <3>3 DEF IsGrowth
  <2>4. ASSUME g \in [0..N -> X], IsGrowth(g, N, base, step) PROVE Is(g)
    <3>1. \A n \in 0..N : g[n] \in X
      BY <2>4
    <3>2. [n \in 0..N |-> IF n = 0 THEN base ELSE Step(g[n - 1])]
            = [n \in 0..N |-> IF n = 0 THEN base ELSE step[g[n - 1]]]
      BY <2>2, <3>1
    <3> QED
      BY <2>4, <3>2 DEF IsGrowth
  <2> HIDE DEF Is
  <2> QED
    BY <2>3, <2>4
<1>6. R \in [0..N -> X] /\ IsGrowth(R, N, base, step)
  <2>1. \E g : Is(g)
    <3> HIDE DEF Is
    <3> QED
      BY <1>4, <1>5
  <2>2. Is(R)
    <3> HIDE DEF Is
    <3> QED
      BY <2>1
  <2> HIDE DEF Is, R
  <2> QED
    BY <1>5, <2>2
<1>7. ReachFrom(f, S, cut) = R[N]
  BY DEF ReachFrom, N, D, X, Step, base
<1> HIDE DEF R
<1>8. base \subseteq R[N] /\ step[R[N]] = R[N]
  <2>1. step \in [SUBSET D -> SUBSET D] /\ base \in SUBSET D /\ R \in [0..N -> SUBSET D]
    BY <1>1, <1>3, <1>6 DEF X
  <2>2. \A T \in SUBSET D : T \subseteq step[T]
    BY <1>2 DEF X
  <2> HIDE DEF step
  <2> QED
    BY <1>1, <1>6, <2>1, <2>2, GrowthEnds DEF N
<1>9. R[N] \in X
  BY <1>1, <1>6
<1>10. ClosedBlocks(f, R[N], cut)
  <2>1. Step(R[N]) = R[N]
    BY <1>8, <1>9
  <2> QED
    BY <2>1 DEF Step, ClosedBlocks
<1>11. ASSUME NEW T \in X, base \subseteq T, ClosedBlocks(f, T, cut)
       PROVE  R[N] \subseteq T
  <2> DEFINE Kept == SUBSET T
  <2>1. \A n \in 0..N : R[n] \in Kept /\ n # N => step[R[n]] \in Kept
    <3> TAKE n \in 0..N
    <3> HAVE R[n] \in Kept /\ n # N
    <3>1. step[R[n]] = Step(R[n])
      BY <1>6
    <3> QED
      BY <1>11, <3>1 DEF Step, ClosedBlocks
  <2>2. base \in Kept
    BY <1>11
  <2> HIDE DEF Kept, step
  <2>3. \A n \in 0..N : R[n] \in Kept
    BY <1>1, <1>6, <2>1, <2>2, GrowthKeeps
  <2> QED
    BY <1>1, <2>3 DEF Kept
<1> QED
  BY <1>7, <1>8, <1>9, <1>10, <1>11 DEF X, D, base

\* Dominance is an order of the blocks.
THEOREM DominanceIsOrder ==
  ASSUME NEW f \in Programs
  PROVE  /\ \A a \in DOMAIN f.proc : BlockDominates(f, a, a)
         /\ \A a, b \in DOMAIN f.proc :
              BlockDominates(f, a, b) /\ BlockDominates(f, b, a) => a = b
         /\ \A a, b, c \in DOMAIN f.proc :
              BlockDominates(f, a, b) /\ BlockDominates(f, b, c) => BlockDominates(f, a, c)
<1> DEFINE D == DOMAIN f.proc
           Without(e, a) == ReachFrom(f, {e}, {a})
<1>1. ASSUME NEW a \in D
      PROVE  f.entry[f.proc[a]] \in D /\ a \in ReachFrom(f, {f.entry[f.proc[a]]}, {})
  BY BlockFacts
<1>2. ASSUME NEW e \in D, NEW a \in D
      PROVE  /\ Without(e, a) \subseteq D
             /\ e # a => e \in Without(e, a)
             /\ ClosedBlocks(f, Without(e, a), {a})
             /\ \A T \in SUBSET D : (e # a => e \in T) /\ ClosedBlocks(f, T, {a})
                  => Without(e, a) \subseteq T
             /\ a \notin Without(e, a)
  <2>1. {e} \in SUBSET D
    OBVIOUS
  <2>2. /\ Without(e, a) \subseteq D /\ {e} \ {a} \subseteq Without(e, a)
        /\ ClosedBlocks(f, Without(e, a), {a})
        /\ \A T \in SUBSET D : {e} \ {a} \subseteq T /\ ClosedBlocks(f, T, {a})
             => Without(e, a) \subseteq T
    BY <2>1, ReachFacts
  <2> HIDE DEF Without
  <2>3. a \notin Without(e, a)
    <3>1. D \ {a} \in SUBSET D /\ {e} \ {a} \subseteq D \ {a}
      OBVIOUS
    <3>2. ClosedBlocks(f, D \ {a}, {a})
      BY ProgramsAssumption DEF ClosedBlocks
    <3> QED
      BY <2>2, <3>1, <3>2
  <2> QED
    BY <2>2, <2>3
<1>3. ASSUME NEW e \in D, NEW T \in SUBSET D, e \in T, ClosedBlocks(f, T, {})
      PROVE  ReachFrom(f, {e}, {}) \subseteq T
  <2>1. {e} \in SUBSET D /\ {e} \ {} \subseteq T
    BY <1>3
  <2> QED
    BY <1>3, <2>1, ReachFacts
<1>4. ASSUME NEW a \in D, NEW b \in D, a # b, BlockDominates(f, a, b), BlockDominates(f, b, a)
      PROVE  FALSE
  <2> DEFINE e == f.entry[f.proc[a]]
             T == Without(e, a) \cap Without(e, b)
  <2>1. /\ f.proc[a] = f.proc[b] /\ e \in D
        /\ b \notin Without(e, a) /\ a \notin Without(e, b)
    BY <1>1, <1>4 DEF BlockDominates
  <2> HIDE DEF e, Without
  <2>2. e # a /\ e # b
    BY <1>2, <1>4, <2>1
  <2>3. e \in T /\ T \in SUBSET D
    BY <1>2, <2>1, <2>2
  <2>4. ClosedBlocks(f, T, {})
    <3> SUFFICES ASSUME NEW u \in T, NEW v \in f.succ[u] PROVE v \in T
      BY DEF ClosedBlocks
    <3>1. u \in Without(e, a) /\ u \in Without(e, b)
      OBVIOUS
    <3>2. (v # a => v \in Without(e, a)) /\ (v # b => v \in Without(e, b))
      BY <1>2, <2>1, <3>1 DEF ClosedBlocks
    <3> QED
      BY <1>4, <2>1, <3>2
  <2>5. ReachFrom(f, {e}, {}) \subseteq T
    <3> HIDE DEF T
    <3> QED
      BY <1>3, <2>1, <2>3, <2>4
  <2>6. a \in T
    BY <1>1, <2>5 DEF e
  <2> QED
    BY <2>1, <2>6
<1>5. ASSUME NEW a \in D, NEW b \in D, NEW c \in D,
             BlockDominates(f, a, b), BlockDominates(f, b, c)
      PROVE  BlockDominates(f, a, c)
  <2> DEFINE e == f.entry[f.proc[a]]
             T == Without(e, a) \cap Without(e, b)
  <2>1. f.proc[a] = f.proc[b] /\ f.proc[b] = f.proc[c] /\ e \in D
    BY <1>1, <1>5 DEF BlockDominates
  <2>2. CASE a = b \/ b = c
    BY <1>5, <2>2
  <2>3. CASE a # b /\ b # c
    <3>1. b \notin Without(e, a) /\ c \notin Without(e, b)
      BY <1>5, <2>1, <2>3 DEF BlockDominates
    <3>2. c \notin Without(e, a)
      <4> HIDE DEF e, Without
      <4>1. T \in SUBSET D /\ (e # a => e \in T)
        BY <1>2, <2>1, <3>1
      <4>2. ClosedBlocks(f, T, {a})
        BY <1>2, <2>1, <3>1 DEF ClosedBlocks
      <4>3. Without(e, a) \subseteq T
        <5> HIDE DEF T
        <5> QED
          BY <1>2, <2>1, <4>1, <4>2
      <4> QED
        BY <3>1, <4>3
    <3> QED
      BY <2>1, <3>2 DEF BlockDominates
  <2> QED
    BY <2>2, <2>3
<1>6. \A a \in D : BlockDominates(f, a, a)
  BY DEF BlockDominates
<1> QED
  BY <1>4, <1>5, <1>6

-----------------------------------------------------------------------------
(* Contexts: chains of calls that are not recursive.                       *)

\* The calls that may follow a context.
CallsIn(f, ctx) ==
  {c \in CallSites(f) :
     /\ f.proc[c[1]] = ProcOf(f, ctx)
     /\ ~is_current_call_recursive(AncestorSets(f), Callee(f, c), ProcOf(f, ctx))}

\* A procedure and those that lead to it.
Visited(f, p) == Ancestors(f, p) \cup {p}

\* A call statement stands in a block and calls a procedure.
LEMMA CallFacts ==
  ASSUME NEW f \in Programs, NEW c \in CallSites(f)
  PROVE  /\ c = <<c[1], c[2]>> /\ c[1] \in DOMAIN f.proc
         /\ c[2] \in DOMAIN f.code[c[1]] /\ c[2] \in Nat \ {0}
         /\ f.code[c[1]][c[2]].kind = "call"
         /\ Callee(f, c) \in Procedures(f) /\ f.proc[c[1]] \in Procedures(f)
<1>1. PICK b \in DOMAIN f.proc :
        \E i \in {j \in DOMAIN f.code[b] : f.code[b][j].kind = "call"} : c = <<b, i>>
  BY DEF CallSites
<1>2. PICK i \in DOMAIN f.code[b] : f.code[b][i].kind = "call" /\ c = <<b, i>>
  BY <1>1
<1>3. i \in Nat \ {0}
  <2>1. f.code[b] \in Seq(ToSet(f.code[b]))
    BY ProgramsAssumption
  <2> QED
    BY <2>1
<1>4. f.code[b][i].dst \in DOMAIN f.entry
  BY <1>2, ProgramsAssumption
<1>5. f.proc[b] \in DOMAIN f.entry
  BY BlockFacts
<1> QED
  BY <1>2, <1>3, <1>4, <1>5 DEF Callee, Procedures

\* A program has finitely many procedures.
LEMMA ProceduresFinite ==
  ASSUME NEW f \in Programs
  PROVE  /\ IsFiniteSet(Procedures(f)) /\ Cardinality(Procedures(f)) \in Nat \ {0}
         /\ f.main \in Procedures(f)
<1>1. IsFiniteSet(DOMAIN f.proc) /\ DOMAIN f.entry = {f.proc[b] : b \in DOMAIN f.proc}
  BY ProgramsAssumption
<1>2. IsFiniteSet({f.proc[b] : b \in DOMAIN f.proc})
  <2> DEFINE D == DOMAIN f.proc
             Q == {f.proc[b] : b \in D}
             h == [b \in D |-> f.proc[b]]
  <2>1. h \in Surjection(D, Q)
    BY DEF Surjection
  <2> QED
    BY <1>1, <2>1, FS_Surjection
<1>3. f.main \in DOMAIN f.entry
  BY ProgramsAssumption
<1> QED
  BY <1>1, <1>2, <1>3, FS_CardinalityType, FS_EmptySet DEF Procedures

\* With every call that is not recursive one more procedure has been visited.
LEMMA CallsClimb ==
  ASSUME NEW f \in Programs, NEW ctx \in Seq(CallSites(f)),
         ProcOf(f, ctx) \in Procedures(f), NEW c \in CallsIn(f, ctx)
  PROVE  /\ Append(ctx, c) \in Seq(CallSites(f))
         /\ ProcOf(f, Append(ctx, c)) = Callee(f, c) /\ Callee(f, c) \in Procedures(f)
         /\ Callee(f, c) \notin Visited(f, ProcOf(f, ctx))
         /\ Visited(f, ProcOf(f, ctx)) \cup {Callee(f, c)} \subseteq Visited(f, Callee(f, c))
<1> DEFINE p == ProcOf(f, ctx)
           q == Callee(f, c)
<1>1. /\ c \in CallSites(f) /\ f.proc[c[1]] = p
      /\ ~is_current_call_recursive(AncestorSets(f), q, p)
  BY DEF CallsIn
<1>2. q \in Procedures(f)
  BY <1>1, CallFacts
<1>3. Append(ctx, c) \in Seq(CallSites(f)) /\ ProcOf(f, Append(ctx, c)) = q
  <2>1. /\ Append(ctx, c) \in Seq(CallSites(f)) /\ Append(ctx, c) # <<>>
        /\ Append(ctx, c)[Len(Append(ctx, c))] = c
    BY <1>1
  <2> QED
    BY <2>1 DEF ProcOf, Last
<1> HIDE DEF p, q
<1>4. q \notin Visited(f, p)
  BY <1>1 DEF is_current_call_recursive, AncestorSets, Visited, p
<1>5. p \in Callers(f, q)
  BY <1>1 DEF Callers, q
<1>6. Ancestors(f, p) \subseteq Ancestors(f, q) /\ p \in Ancestors(f, q)
  <2>1. ASSUME NEW S \in SUBSET Procedures(f), Callers(f, q) \subseteq S,
               \A s \in S : Callers(f, s) \subseteq S
        PROVE  Callers(f, p) \subseteq S /\ p \in S
    BY <1>5, <2>1
  <2>2. p \in Procedures(f)
    BY DEF p
  <2> QED
    BY <2>1, <2>2 DEF Ancestors
<1> QED
  BY <1>2, <1>3, <1>4, <1>6 DEF p, q, Visited

\* What a function makes of the members of a finite set.
LEMMA ImageFinite ==
  ASSUME NEW S, IsFiniteSet(S), NEW T, NEW h \in [S -> T],
         NEW Q, \A q \in Q : \E x \in S : q = h[x]
  PROVE  IsFiniteSet(Q)
<1> DEFINE R == {h[x] : x \in S}
<1>1. h \in Surjection(S, R)
  BY DEF Surjection
<1>2. Q \subseteq R
  OBVIOUS
<1> HIDE DEF R
<1> QED
  BY <1>1, <1>2, FS_Surjection, FS_Subset

LEMMA UnionFinite ==
  ASSUME NEW S, IsFiniteSet(S), NEW T, NEW h \in [S -> T], \A x \in S : IsFiniteSet(h[x]),
         NEW Q, \A q \in Q : \E x \in S : q \in h[x]
  PROVE  IsFiniteSet(Q)
<1> DEFINE R == {h[x] : x \in S}
<1>1. IsFiniteSet(R)
  <2>1. \A r \in R : \E x \in S : r = h[x]
    OBVIOUS
  <2> HIDE DEF R
  <2> QED
    BY <2>1, ImageFinite
<1>2. (\A r \in R : IsFiniteSet(r)) /\ Q \subseteq UNION R
  OBVIOUS
<1> HIDE DEF R
<1> QED
  BY <1>1, <1>2, FS_UNION, FS_Subset

\* A program has finitely many call statements.
LEMMA CallSitesFinite ==
  ASSUME NEW f \in Programs PROVE IsFiniteSet(CallSites(f))
<1> DEFINE D == DOMAIN f.proc
           all(b) == {b} \X DOMAIN f.code[b]
           h == [b \in D |-> all(b)]
           T == {all(b) : b \in D}
<1>1. IsFiniteSet(D)
  BY ProgramsAssumption
<1>2. ASSUME NEW b \in D PROVE IsFiniteSet(all(b))
  <2>1. f.code[b] \in Seq(ToSet(f.code[b]))
    BY ProgramsAssumption
  <2>2. DOMAIN f.code[b] = 1..Len(f.code[b]) /\ Len(f.code[b]) \in Nat
    BY <2>1
  <2>3. IsFiniteSet(DOMAIN f.code[b])
    BY <2>2, FS_Interval
  <2> QED
    BY <2>3, FS_Singleton, FS_Product
<1>3. h \in [D -> T] /\ \A b \in D : h[b] = all(b)
  <2> HIDE DEF all
  <2> QED
    OBVIOUS
<1>4. ASSUME NEW c \in CallSites(f) PROVE \E b \in D : c \in h[b]
  <2>1. c = <<c[1], c[2]>> /\ c[1] \in D /\ c[2] \in DOMAIN f.code[c[1]]
    BY CallFacts
  <2>2. c \in all(c[1])
    BY <2>1
  <2> HIDE DEF all, h, D
  <2> QED
    BY <1>3, <2>1, <2>2
<1>5. \A b \in D : IsFiniteSet(h[b])
  <2> HIDE DEF D, h, all
  <2> QED
    BY <1>2, <1>3
<1> HIDE DEF D, h, T
<1> QED
  BY <1>1, <1>3, <1>4, <1>5, UnionFinite

\* The contexts are chains of calls, the least set in which every call that is
\* not recursive leads from one to the next: no chain is longer than there are
\* procedures.
THEOREM ContextsAreClosed ==
  ASSUME NEW f \in Programs
  PROVE  /\ <<>> \in Contexts(f) /\ IsFiniteSet(Contexts(f))
         /\ \A ctx \in Contexts(f) :
              /\ ctx \in Seq(CallSites(f)) /\ ProcOf(f, ctx) \in Procedures(f)
              /\ \A c \in CallsIn(f, ctx) : Append(ctx, c) \in Contexts(f)
         /\ \A T \in SUBSET Contexts(f) :
              (<<>> \in T /\ \A ctx \in T : \A c \in CallsIn(f, ctx) : Append(ctx, c) \in T)
                => T = Contexts(f)
<1> DEFINE N == Cardinality(Procedures(f))
           calls(ctx) == {Append(ctx, c) : c \in CallsIn(f, ctx)}
           Step(T) == UNION {{ctx} \cup calls(ctx) : ctx \in T}
           Is(g) == g = [n \in 1..N |-> IF n = 1 THEN {<<>>} ELSE Step(g[n - 1])]
           C == CHOOSE g : Is(g)
           X == SUBSET Seq(CallSites(f))
           Y == {T \in X : \A ctx \in T : ProcOf(f, ctx) \in Procedures(f)}
           step == [T \in Y |-> Step(T)]
<1>1. N \in Nat \ {0}
  BY ProceduresFinite
<1>2. Contexts(f) = C[N]
  BY DEF Contexts, CallsIn, Procedures
<1> HIDE DEF N
<1>3. \A T \in Y : Step(T) \in Y /\ T \subseteq Step(T)
  <2> SUFFICES ASSUME NEW T \in Y, NEW ctx \in T, NEW next \in {ctx} \cup calls(ctx)
               PROVE  next \in Seq(CallSites(f)) /\ ProcOf(f, next) \in Procedures(f)
    OBVIOUS
  <2>1. ctx \in Seq(CallSites(f)) /\ ProcOf(f, ctx) \in Procedures(f)
    OBVIOUS
  <2>2. CASE next = ctx
    BY <2>1, <2>2
  <2>3. ASSUME NEW c \in CallsIn(f, ctx), next = Append(ctx, c)
        PROVE  next \in Seq(CallSites(f)) /\ ProcOf(f, next) \in Procedures(f)
    BY <2>1, <2>3, CallsClimb
  <2> QED
    BY <2>2, <2>3
<1>4. {<<>>} \in Y
  BY ProceduresFinite DEF ProcOf
<1>5. Is(C)
  <2>1. step \in [Y -> Y]
    <3> HIDE DEF Y, Step
    <3> QED
      BY <1>3
  <2>2. N - 1 \in Nat
    BY <1>1
  <2>3. PICK g \in [0..(N - 1) -> Y] : IsGrowth(g, N - 1, {<<>>}, step)
    <3> HIDE DEF Y, step
    <3> QED
      BY <1>4, <2>1, <2>2, GrowthExists
  <2> HIDE DEF Y, Step
  <2> DEFINE h == [n \in 1..N |-> g[n - 1]]
  <2>4. ASSUME NEW n \in 1..N
        PROVE  h[n] = IF n = 1 THEN {<<>>} ELSE Step(h[n - 1])
    <3>1. n - 1 \in 0..(N - 1) /\ (n # 1 => n - 1 \in 1..N /\ n - 1 # 0 /\ (n - 1) - 1 \in 0..(N - 1))
      BY <1>1
    <3>2. g[n - 1] = IF n - 1 = 0 THEN {<<>>} ELSE step[g[(n - 1) - 1]]
      <4> HIDE DEF step
      <4> QED
        BY <2>3, <3>1 DEF IsGrowth
    <3>3. n # 1 => step[g[(n - 1) - 1]] = Step(h[n - 1])
      BY <3>1
    <3> HIDE DEF step
    <3> QED
      BY <3>1, <3>2, <3>3
  <2>5. Is(h)
    <3> HIDE DEF Step
    <3>1. h = [n \in 1..N |-> h[n]]
      OBVIOUS
    <3> HIDE DEF h
    <3>2. [n \in 1..N |-> h[n]] = [n \in 1..N |-> IF n = 1 THEN {<<>>} ELSE Step(h[n - 1])]
      BY <2>4, Zenon
    <3> QED
      BY <3>1, <3>2
  <2> HIDE DEF Is, h
  <2> QED
    BY <2>5
<1> HIDE DEF C
<1>6. ASSUME NEW n \in 1..N
      PROVE  C[n] = IF n = 1 THEN {<<>>} ELSE Step(C[n - 1])
  <2> HIDE DEF Step
  <2> QED
    BY <1>5
<1> DEFINE Grown(n) ==
             /\ C[n] \in Y /\ <<>> \in C[n]
             /\ \A ctx \in C[n] :
                  calls(ctx) \subseteq C[n] \/ Cardinality(Visited(f, ProcOf(f, ctx))) >= n
<1>7. ASSUME NEW p \in Procedures(f)
      PROVE  /\ Visited(f, p) \subseteq Procedures(f)
             /\ IsFiniteSet(Visited(f, p)) /\ Cardinality(Visited(f, p)) \in Nat
             /\ Cardinality(Visited(f, p)) >= 1
  <2>1. Visited(f, p) \subseteq Procedures(f) /\ Visited(f, p) # {}
    BY DEF Visited, Ancestors
  <2>2. IsFiniteSet(Visited(f, p))
    BY <2>1, ProceduresFinite, FS_Subset
  <2> QED
    BY <2>1, <2>2, FS_CardinalityType, FS_EmptySet
<1>8. Grown(1)
  <2>1. C[1] = {<<>>}
    <3> HIDE DEF Step
    <3> QED
      BY <1>1, <1>6
  <2>2. ProcOf(f, <<>>) \in Procedures(f)
    BY <1>4
  <2> HIDE DEF Y
  <2> QED
    BY <1>4, <1>7, <2>1, <2>2
<1>9. ASSUME NEW n \in 1..N, n # N, Grown(n) PROVE Grown(n + 1)
  <2>1. C[n + 1] = Step(C[n])
    <3> HIDE DEF Step
    <3>1. n + 1 \in 1..N /\ n + 1 # 1 /\ (n + 1) - 1 = n
      BY <1>1, <1>9
    <3> QED
      BY <1>6, <3>1
  <2>2. C[n + 1] \in Y /\ <<>> \in C[n + 1] /\ C[n] \subseteq C[n + 1]
    <3> HIDE DEF Y, Step
    <3> QED
      BY <1>3, <1>9, <2>1
  <2>3. ASSUME NEW ctx \in C[n + 1]
        PROVE  calls(ctx) \subseteq C[n + 1] \/ Cardinality(Visited(f, ProcOf(f, ctx))) >= n + 1
    <3>1. CASE ctx \in C[n]
      BY <2>1, <3>1
    <3>2. CASE ctx \notin C[n]
      <4>1. PICK before \in C[n] : ctx \in calls(before)
        BY <2>1, <3>2
      <4>2. PICK c \in CallsIn(f, before) : ctx = Append(before, c)
        BY <4>1
      <4> DEFINE V == Visited(f, ProcOf(f, before))
                 W == Visited(f, ProcOf(f, ctx))
      <4>3. Cardinality(V) >= n
        BY <1>9, <3>2, <4>1
      <4>4. before \in Seq(CallSites(f)) /\ ProcOf(f, before) \in Procedures(f)
        BY <1>9
      <4>5. /\ ProcOf(f, ctx) = Callee(f, c) /\ Callee(f, c) \in Procedures(f)
            /\ Callee(f, c) \notin V /\ V \cup {Callee(f, c)} \subseteq W
        BY <4>2, <4>4, CallsClimb
      <4>6. /\ IsFiniteSet(V) /\ Cardinality(V) \in Nat
            /\ IsFiniteSet(W) /\ Cardinality(W) \in Nat
        BY <1>7, <4>4, <4>5
      <4>7. Cardinality(V) < Cardinality(W)
        <5> HIDE DEF V, W
        <5>1. V \subseteq W /\ V # W
          BY <4>5
        <5>2. Cardinality(V) =< Cardinality(W) /\ Cardinality(V) # Cardinality(W)
          BY <4>6, <5>1, FS_Subset
        <5> QED
          BY <4>6, <5>2
      <4>8. Cardinality(W) >= n + 1
        <5> HIDE DEF V, W
        <5> QED
          BY <4>3, <4>6, <4>7
      <4> QED
        BY <4>8
    <3> QED
      BY <3>1, <3>2
  <2> HIDE DEF Y
  <2> QED
    BY <2>2, <2>3
<1>10. Grown(N)
  <2> DEFINE Bad == {n \in 1..N : ~Grown(n)}
  <2> SUFFICES ASSUME Bad # {} PROVE FALSE
    BY <1>1
  <2> HIDE DEF Grown
  <2>1. PICK n \in Bad : \A j \in Bad : ~(<<j, n>> \in OpToRel(<, Nat))
    <3>1. Bad \subseteq Nat
      BY <1>1
    <3> HIDE DEF Bad
    <3> QED
      BY <3>1, NatLessThanWellFounded, WFMin
  <2>2. n \in 1..N /\ ~Grown(n)
    OBVIOUS
  <2>3. n # 1
    BY <1>8, <2>2
  <2>4. /\ n - 1 \in 1..N /\ n - 1 \in Nat /\ n \in Nat /\ n - 1 < n /\ n - 1 # N
        /\ (n - 1) + 1 = n
    BY <1>1, <2>2, <2>3
  <2>5. Grown(n - 1)
    BY <2>1, <2>4 DEF OpToRel
  <2>6. Grown((n - 1) + 1)
    BY <1>9, <2>4, <2>5
  <2> QED
    BY <2>2, <2>4, <2>6
<1>11. ASSUME NEW ctx \in C[N] PROVE calls(ctx) \subseteq C[N]
  <2> DEFINE V == Visited(f, ProcOf(f, ctx))
  <2>1. ctx \in Seq(CallSites(f)) /\ ProcOf(f, ctx) \in Procedures(f)
    BY <1>10
  <2>2. CASE Cardinality(V) >= N
    <3>1. V \subseteq Procedures(f) /\ Cardinality(V) \in Nat
      BY <1>7, <2>1
    <3>2. V = Procedures(f)
      <4> HIDE DEF V
      <4>1. Cardinality(V) =< Cardinality(Procedures(f))
        BY <3>1, ProceduresFinite, FS_Subset
      <4>2. Cardinality(V) = Cardinality(Procedures(f))
        BY <1>1, <2>2, <3>1, <4>1 DEF N
      <4> QED
        BY <3>1, <4>2, ProceduresFinite, FS_Subset
    <3>3. CallsIn(f, ctx) = {}
      BY <2>1, <3>2, CallsClimb
    <3> QED
      BY <3>3
  <2> QED
    BY <1>10, <2>2
<1>12. C[N] \in Y /\ <<>> \in C[N]
  BY <1>10
<1>13. C[1] = {<<>>}
  <2> HIDE DEF Step
  <2> QED
    BY <1>1, <1>6
<1>14. ASSUME NEW n \in 1..N, n # 1
       PROVE  n - 1 \in 1..N /\ <<n - 1, n>> \in OpToRel(<, Nat) /\ C[n] = Step(C[n - 1])
  <2>1. n \in Nat /\ n - 1 \in Nat /\ n - 1 < n /\ n - 1 \in 1..N
    BY <1>1, <1>14
  <2> HIDE DEF Step
  <2> QED
    BY <1>6, <1>14, <2>1 DEF OpToRel
<1>15. ASSUME NEW Bad \in SUBSET (1..N), Bad # {}
       PROVE  \E n \in Bad : n - 1 \notin Bad /\ (n # 1 => C[n] = Step(C[n - 1]))
  <2>1. PICK n \in Bad : \A j \in Bad : ~(<<j, n>> \in OpToRel(<, Nat))
    <3>1. Bad \subseteq Nat
      BY <1>1
    <3> QED
      BY <1>15, <3>1, NatLessThanWellFounded, WFMin
  <2>2. n \in 1..N
    OBVIOUS
  <2>3. n = 1 => n - 1 \notin Bad
    BY <1>1
  <2> HIDE DEF Step
  <2> QED
    BY <1>14, <2>1, <2>2, <2>3
<1>16. IsFiniteSet(C[N])
  <2> DEFINE Bad == {n \in 1..N : ~IsFiniteSet(C[n])}
  <2> SUFFICES ASSUME Bad # {} PROVE FALSE
    BY <1>1
  <2>1. PICK n \in Bad : n - 1 \notin Bad /\ (n # 1 => C[n] = Step(C[n - 1]))
    <3>1. Bad \in SUBSET (1..N)
      OBVIOUS
    <3> HIDE DEF Bad, Step
    <3> QED
      BY <1>15, <3>1
  <2>2. n # 1
    BY <1>13, FS_Singleton
  <2> DEFINE B == C[n - 1]
             all(ctx) == {ctx} \cup calls(ctx)
             h == [ctx \in B |-> all(ctx)]
             R == {all(ctx) : ctx \in B}
  <2>3. n - 1 \in 1..N
    BY <1>14, <2>2
  <2>4. IsFiniteSet(B)
    BY <2>1, <2>3
  <2>5. ASSUME NEW ctx PROVE IsFiniteSet(all(ctx))
    <3> DEFINE A == CallsIn(f, ctx)
               g == [c \in A |-> Append(ctx, c)]
               Q == {Append(ctx, c) : c \in A}
    <3>1. IsFiniteSet(A)
      BY CallSitesFinite, FS_Subset DEF CallsIn
    <3>2. g \in [A -> Q] /\ \A q \in Q : \E c \in A : q = g[c]
      OBVIOUS
    <3>3. IsFiniteSet(Q)
      <4> HIDE DEF A, g, Q
      <4> QED
        BY <3>1, <3>2, ImageFinite
    <3>4. IsFiniteSet(calls(ctx)) /\ IsFiniteSet({ctx})
      BY <3>3, FS_Singleton
    <3> QED
      BY <3>4, FS_Union
  <2>6. h \in [B -> R] /\ \A ctx \in B : h[ctx] = all(ctx)
    <3> HIDE DEF B, all
    <3> QED
      OBVIOUS
  <2>7. ASSUME NEW next \in C[n] PROVE \E ctx \in B : next \in h[ctx]
    <3>1. C[n] = UNION {all(ctx) : ctx \in B}
      BY <2>1, <2>2
    <3> HIDE DEF B, all, h
    <3> QED
      BY <2>6, <3>1
  <2>8. \A ctx \in B : IsFiniteSet(h[ctx])
    <3> HIDE DEF B, all, h
    <3> QED
      BY <2>5, <2>6
  <2>9. IsFiniteSet(C[n])
    <3> HIDE DEF B, h, R
    <3> QED
      BY <2>4, <2>6, <2>7, <2>8, UnionFinite
  <2> QED
    BY <2>1, <2>9
<1>17. ASSUME NEW T, <<>> \in T, \A ctx \in T : calls(ctx) \subseteq T
       PROVE  C[N] \subseteq T
  <2> DEFINE Bad == {n \in 1..N : ~(C[n] \subseteq T)}
  <2> SUFFICES ASSUME Bad # {} PROVE FALSE
    BY <1>1
  <2>1. PICK n \in Bad : n - 1 \notin Bad /\ (n # 1 => C[n] = Step(C[n - 1]))
    <3>1. Bad \in SUBSET (1..N)
      OBVIOUS
    <3> HIDE DEF Bad, Step
    <3> QED
      BY <1>15, <3>1
  <2>2. n # 1
    BY <1>13, <1>17
  <2>3. n - 1 \in 1..N
    BY <1>14, <2>2
  <2>4. C[n - 1] \subseteq T /\ C[n] = Step(C[n - 1])
    BY <2>1, <2>2, <2>3
  <2>5. C[n] \subseteq T
    BY <1>17, <2>4
  <2> QED
    BY <2>5
<1>18. ASSUME NEW T \in SUBSET C[N], <<>> \in T,
              \A ctx \in T : \A c \in CallsIn(f, ctx) : Append(ctx, c) \in T
       PROVE  T = C[N]
  <2>1. \A ctx \in T : calls(ctx) \subseteq T
    BY <1>18
  <2> HIDE DEF calls
  <2> QED
    BY <1>17, <1>18, <2>1
<1>19. ASSUME NEW ctx \in C[N]
       PROVE  /\ ctx \in Seq(CallSites(f)) /\ ProcOf(f, ctx) \in Procedures(f)
              /\ \A c \in CallsIn(f, ctx) : Append(ctx, c) \in C[N]
  BY <1>11, <1>12
<1> HIDE DEF Y
<1> QED
  BY <1>2, <1>12, <1>16, <1>18, <1>19

-----------------------------------------------------------------------------
(* Ways from main, where they part, and dominance of locations.            *)

\* A definition other than the global one: calls lead to its block, and it is at
\* none of them.
LEMMA WayFacts ==
  ASSUME NEW f \in Programs, NEW l \in DefLocations(f), l # Global
  PROVE  /\ l = <<l[1], l[2], l[3]>> /\ l[1] \in Contexts(f) /\ l[1] \in Seq(CallSites(f))
         /\ l[2] \in DOMAIN f.proc /\ l[3] \in Nat /\ <<l[2], l[3]>> \notin CallSites(f)
         /\ Len(Path(l)) = Len(l[1]) + 1 /\ Len(l[1]) \in Nat
         /\ \A k \in 1..Len(l[1]) : Path(l)[k] = l[1][k] /\ l[1][k] \in CallSites(f)
         /\ Path(l)[Len(l[1]) + 1] = <<l[2], l[3]>>
<1>0. PICK ctx \in Contexts(f) : \E b \in BlocksOf(f, ProcOf(f, ctx)) :
        \E i \in 0..Len(f.code[b]) + 1 : l = <<ctx, b, i>>
  <2> DEFINE blocks == UNION {{c} \X BlocksOf(f, ProcOf(f, c)) : c \in Contexts(f)}
  <2>1. PICK cb \in blocks : \E i \in 0..Len(f.code[cb[2]]) + 1 : l = <<cb[1], cb[2], i>>
    BY DEF DefLocations, ProgramLocations
  <2> QED
    BY <2>1
<1>1. PICK b \in BlocksOf(f, ProcOf(f, ctx)) :
        \E i \in 0..Len(f.code[b]) + 1 : l = <<ctx, b, i>>
  BY <1>0
<1>2. PICK i \in 0..Len(f.code[b]) + 1 : l = <<ctx, b, i>>
  BY <1>1
<1>3. b \in DOMAIN f.proc /\ f.code[b] \in Seq(ToSet(f.code[b]))
  BY ProgramsAssumption DEF BlocksOf
<1>4. i \in Nat
  BY <1>3
<1>5. ctx \in Seq(CallSites(f))
  BY ContextsAreClosed
<1>6. <<b, i>> \notin CallSites(f)
  <2> SUFFICES ASSUME <<b, i>> \in CallSites(f) PROVE FALSE
    OBVIOUS
  <2>1. i \in DOMAIN f.code[b] /\ f.code[b][i].kind = "call" /\ i # 0
    BY CallFacts
  <2> QED
    BY <1>2, <2>1 DEF DefLocations
<1>7. Path(l) = Append(ctx, <<b, i>>)
  BY <1>2 DEF Path
<1>8. /\ Len(Path(l)) = Len(ctx) + 1 /\ Len(ctx) \in Nat
      /\ \A k \in 1..Len(ctx) : Path(l)[k] = ctx[k] /\ ctx[k] \in CallSites(f)
      /\ Path(l)[Len(ctx) + 1] = <<b, i>>
  BY <1>5, <1>7
<1> QED
  BY <1>2, <1>3, <1>4, <1>5, <1>6, <1>8

\* Two ways are the same up to the k-th step, where they part.
Parts(P, Q, k) ==
  /\ k \in 1..Len(P) /\ k \in 1..Len(Q)
  /\ P[k] # Q[k]
  /\ \A j \in 1..k - 1 : P[j] = Q[j]

\* What one step of a way dominates, of those that part from it.
StepDominates(f, a, b) ==
  IF a[1] = b[1] /\ a[2] # 0 /\ b[2] # 0 THEN a[2] <= b[2]
                                         ELSE <<a[1], b[1]>> \in DomTree(f)

\* Neither of two definitions is on the way to the other.
LEMMA WaysPart ==
  ASSUME NEW f \in Programs, NEW l \in DefLocations(f), NEW m \in DefLocations(f),
         l # Global, m # Global, l # m
  PROVE  \E k : /\ Parts(Path(l), Path(m), k)
                /\ find_common_ancestor(Path(l), Path(m)) = k
<1> DEFINE P == Path(l)
           Q == Path(m)
           K == {k \in Nat : k \in 1..Len(P) /\ k \in 1..Len(Q) /\ P[k] # Q[k]}
<1>1. /\ Len(P) = Len(l[1]) + 1 /\ Len(l[1]) \in Nat
      /\ \A k \in 1..Len(l[1]) : P[k] = l[1][k] /\ l[1][k] \in CallSites(f)
      /\ P[Len(l[1]) + 1] = <<l[2], l[3]>> /\ <<l[2], l[3]>> \notin CallSites(f)
      /\ l[1] \in Seq(CallSites(f)) /\ l = <<l[1], l[2], l[3]>>
  BY WayFacts
<1>2. /\ Len(Q) = Len(m[1]) + 1 /\ Len(m[1]) \in Nat
      /\ \A k \in 1..Len(m[1]) : Q[k] = m[1][k] /\ m[1][k] \in CallSites(f)
      /\ Q[Len(m[1]) + 1] = <<m[2], m[3]>> /\ <<m[2], m[3]>> \notin CallSites(f)
      /\ m[1] \in Seq(CallSites(f)) /\ m = <<m[1], m[2], m[3]>>
  BY WayFacts
<1> HIDE DEF P, Q
<1>3. K # {}
  <2> SUFFICES ASSUME K = {} PROVE FALSE
    OBVIOUS
  <2>1. ~(Len(P) < Len(Q))
    <3> SUFFICES ASSUME Len(P) < Len(Q) PROVE FALSE
      OBVIOUS
    <3>1. Len(l[1]) + 1 \in 1..Len(m[1]) /\ Len(l[1]) + 1 \in 1..Len(P) /\ Len(l[1]) + 1 \in 1..Len(Q)
      BY <1>1, <1>2
    <3>2. P[Len(l[1]) + 1] = Q[Len(l[1]) + 1]
      BY <3>1
    <3>3. Q[Len(l[1]) + 1] \in CallSites(f)
      <4> DEFINE k == Len(l[1]) + 1
      <4> HIDE DEF k
      <4>1. Q[k] = m[1][k] /\ m[1][k] \in CallSites(f)
        BY <1>2, <3>1 DEF k
      <4> QED
        BY <4>1 DEF k
    <3> QED
      BY <1>1, <3>2, <3>3
  <2>2. ~(Len(Q) < Len(P))
    <3> SUFFICES ASSUME Len(Q) < Len(P) PROVE FALSE
      OBVIOUS
    <3>1. Len(m[1]) + 1 \in 1..Len(l[1]) /\ Len(m[1]) + 1 \in 1..Len(P) /\ Len(m[1]) + 1 \in 1..Len(Q)
      BY <1>1, <1>2
    <3>2. P[Len(m[1]) + 1] = Q[Len(m[1]) + 1]
      BY <3>1
    <3>3. P[Len(m[1]) + 1] \in CallSites(f)
      <4> DEFINE k == Len(m[1]) + 1
      <4> HIDE DEF k
      <4>1. P[k] = l[1][k] /\ l[1][k] \in CallSites(f)
        BY <1>1, <3>1 DEF k
      <4> QED
        BY <4>1 DEF k
    <3> QED
      BY <1>2, <3>2, <3>3
  <2>3. Len(l[1]) = Len(m[1])
    BY <1>1, <1>2, <2>1, <2>2
  <2>4. ASSUME NEW k \in 1..Len(l[1]) + 1 PROVE P[k] = Q[k]
    <3>1. k \in Nat /\ k \in 1..Len(P) /\ k \in 1..Len(Q)
      BY <1>1, <1>2, <2>3
    <3> QED
      BY <3>1
  <2>5. <<l[2], l[3]>> = <<m[2], m[3]>>
    BY <1>1, <1>2, <2>3, <2>4
  <2>6. \A k \in 1..Len(l[1]) : l[1][k] = m[1][k]
    <3> TAKE k \in 1..Len(l[1])
    <3>1. k \in 1..Len(l[1]) + 1 /\ k \in 1..Len(m[1])
      BY <1>1, <2>3
    <3> QED
      BY <1>1, <1>2, <2>4, <3>1
  <2>7. l[1] = m[1]
    BY <1>1, <1>2, <2>3, <2>6
  <2> QED
    BY <1>1, <1>2, <2>5, <2>7
<1>4. PICK k \in K : \A j \in K : ~(<<j, k>> \in OpToRel(<, Nat))
  <2>1. K \subseteq Nat
    OBVIOUS
  <2> HIDE DEF K
  <2> QED
    BY <1>3, <2>1, NatLessThanWellFounded, WFMin
<1>5. k \in Nat /\ k \in 1..Len(P) /\ k \in 1..Len(Q) /\ P[k] # Q[k] /\ Len(P) \in Nat /\ Len(Q) \in Nat
  BY <1>1, <1>2
<1>6. ASSUME NEW j \in K PROVE j \in Nat /\ k =< j
  <2>1. j \in Nat
    OBVIOUS
  <2>2. ~(j < k)
    BY <1>4, <1>5, <2>1 DEF OpToRel
  <2> QED
    BY <1>5, <2>1, <2>2
<1>7. Parts(P, Q, k)
  <2>1. ASSUME NEW j \in 1..k - 1 PROVE P[j] = Q[j]
    <3>1. j \in Nat /\ j \in 1..Len(P) /\ j \in 1..Len(Q) /\ ~(k =< j)
      BY <1>5
    <3> QED
      BY <1>6, <3>1
  <2> QED
    BY <1>5, <2>1 DEF Parts
<1>8. find_common_ancestor(P, Q) = k
  <2> DEFINE both == {Len(P), Len(Q)}
             S == {i \in 1..Min(both) : P[i] # Q[i]} \cup both
  <2>1. Min(both) \in both /\ Min(both) =< Len(P) /\ Min(both) =< Len(Q)
    <3>1. \E i \in both : \A j \in both : i =< j
      BY <1>5
    <3>2. Min(both) \in both /\ \A j \in both : Min(both) =< j
      BY <3>1 DEF Min
    <3> QED
      BY <3>2
  <2>2. k \in S /\ \A i \in S : k =< i
    <3>1. k \in 1..Min(both)
      BY <1>5, <2>1
    <3>2. ASSUME NEW i \in S PROVE k =< i
      <4>1. CASE i \in both
        BY <1>5, <4>1
      <4>2. CASE i \notin both
        <5>1. i \in 1..Min(both) /\ P[i] # Q[i]
          BY <4>2
        <5>2. i \in K
          BY <1>5, <2>1, <5>1
        <5> QED
          BY <1>6, <5>2
      <4> QED
        BY <4>1, <4>2
    <3> QED
      BY <1>5, <3>1, <3>2
  <2>3. ASSUME NEW i \in S PROVE i \in Nat
    BY <1>5, <2>1
  <2> HIDE DEF S
  <2>4. Min(S) = k
    <3>1. Min(S) \in S /\ \A i \in S : Min(S) =< i
      BY <2>2 DEF Min
    <3>2. Min(S) \in Nat /\ Min(S) =< k /\ k =< Min(S)
      BY <2>2, <2>3, <3>1
    <3> QED
      BY <1>5, <3>2
  <2> QED
    BY <2>4 DEF find_common_ancestor, S
<1> QED
  BY <1>7, <1>8 DEF P, Q

\* The steps of a way; only the last is at position 0, where it ends in a merge.
LEMMA StepFacts ==
  ASSUME NEW f \in Programs, NEW l \in DefLocations(f), l # Global, NEW k \in 1..Len(Path(l))
  PROVE  /\ Path(l)[k] \in (DOMAIN f.proc) \X Nat
         /\ Path(l)[k][2] = 0 => k = Len(l[1]) + 1 /\ l[2] = Path(l)[k][1] /\ l[3] = 0
<1>1. /\ l[2] \in DOMAIN f.proc /\ l[3] \in Nat
      /\ Len(Path(l)) = Len(l[1]) + 1 /\ Len(l[1]) \in Nat
      /\ \A j \in 1..Len(l[1]) : Path(l)[j] = l[1][j] /\ l[1][j] \in CallSites(f)
      /\ Path(l)[Len(l[1]) + 1] = <<l[2], l[3]>>
  BY WayFacts
<1>2. CASE k = Len(l[1]) + 1
  <2>1. Path(l)[k] = <<l[2], l[3]>>
    BY <1>1, <1>2
  <2>2. Path(l)[k][1] = l[2] /\ Path(l)[k][2] = l[3]
    BY <2>1
  <2>3. Path(l)[k] \in (DOMAIN f.proc) \X Nat
    BY <1>1, <2>1
  <2> QED
    BY <1>2, <2>2, <2>3
<1>3. CASE k # Len(l[1]) + 1
  <2>1. k \in 1..Len(l[1])
    BY <1>1, <1>3
  <2>2. Path(l)[k] \in CallSites(f)
    BY <1>1, <2>1
  <2>3. Path(l)[k] = <<Path(l)[k][1], Path(l)[k][2]>> /\ Path(l)[k][1] \in DOMAIN f.proc
        /\ Path(l)[k][2] \in Nat \ {0}
    BY <2>2, CallFacts
  <2> QED
    BY <2>3
<1> QED
  BY <1>2, <1>3

\* Steps are ordered but for merges, which come before what is in their block
\* and after it.
LEMMA StepOrder ==
  ASSUME NEW f \in Programs, NEW a \in (DOMAIN f.proc) \X Nat,
         NEW b \in (DOMAIN f.proc) \X Nat, NEW c \in (DOMAIN f.proc) \X Nat
  PROVE  /\ StepDominates(f, a, b) /\ StepDominates(f, b, a) =>
              a[1] = b[1] /\ (a = b \/ a[2] = 0 \/ b[2] = 0)
         /\ StepDominates(f, a, b) /\ StepDominates(f, b, c) =>
              StepDominates(f, a, c) \/ (b[2] = 0 /\ a[1] = b[1] /\ c[1] = b[1])
<1> DEFINE D == DOMAIN f.proc
           dom(u, v) == <<u, v>> \in DomTree(f)
<1>1. ASSUME NEW u \in D, NEW v \in D
      PROVE  dom(u, v) <=> BlockDominates(f, u, v)
  BY DEF DomTree
<1>2. /\ \A u \in D : dom(u, u)
      /\ \A u, v \in D : dom(u, v) /\ dom(v, u) => u = v
      /\ \A u, v, w \in D : dom(u, v) /\ dom(v, w) => dom(u, w)
  <2> HIDE DEF dom, D
  <2>1. /\ \A u \in D : BlockDominates(f, u, u)
        /\ \A u, v \in D : BlockDominates(f, u, v) /\ BlockDominates(f, v, u) => u = v
        /\ \A u, v, w \in D : BlockDominates(f, u, v) /\ BlockDominates(f, v, w) => BlockDominates(f, u, w)
    BY DominanceIsOrder DEF D
  <2> QED
    BY <1>1, <2>1
<1>3. /\ a = <<a[1], a[2]>> /\ a[1] \in D /\ a[2] \in Nat
      /\ b = <<b[1], b[2]>> /\ b[1] \in D /\ b[2] \in Nat
      /\ c = <<c[1], c[2]>> /\ c[1] \in D /\ c[2] \in Nat
  OBVIOUS
<1> HIDE DEF D
<1>4. ASSUME StepDominates(f, a, b) PROVE dom(a[1], b[1])
  BY <1>2, <1>3, <1>4 DEF StepDominates
<1>5. ASSUME StepDominates(f, b, c) PROVE dom(b[1], c[1])
  BY <1>2, <1>3, <1>5 DEF StepDominates
<1>6. ASSUME StepDominates(f, b, a) PROVE dom(b[1], a[1])
  BY <1>2, <1>3, <1>6 DEF StepDominates
<1>7. ASSUME StepDominates(f, a, b), StepDominates(f, b, a)
      PROVE  a[1] = b[1] /\ (a = b \/ a[2] = 0 \/ b[2] = 0)
  <2>1. a[1] = b[1]
    <3> HIDE DEF dom
    <3> QED
      BY <1>2, <1>3, <1>4, <1>6, <1>7
  <2>2. a[2] # 0 /\ b[2] # 0 => a[2] = b[2]
    BY <1>3, <1>7, <2>1 DEF StepDominates
  <2> QED
    BY <1>3, <2>1, <2>2
<1>8. ASSUME StepDominates(f, a, b), StepDominates(f, b, c),
             ~(b[2] = 0 /\ a[1] = b[1] /\ c[1] = b[1])
      PROVE  StepDominates(f, a, c)
  <2>1. dom(a[1], b[1]) /\ dom(b[1], c[1]) /\ dom(a[1], c[1])
    <3> HIDE DEF dom
    <3> QED
      BY <1>2, <1>3, <1>4, <1>5, <1>8
  <2>2. CASE ~(a[1] = c[1] /\ a[2] # 0 /\ c[2] # 0)
    BY <2>1, <2>2 DEF StepDominates
  <2>3. CASE a[1] = c[1] /\ a[2] # 0 /\ c[2] # 0
    <3>1. a[1] = b[1] /\ c[1] = b[1]
      <4> HIDE DEF dom
      <4> QED
        BY <1>2, <1>3, <2>1, <2>3
    <3>2. b[2] # 0
      BY <1>8, <3>1
    <3>3. a[2] <= b[2] /\ b[2] <= c[2]
      BY <1>8, <2>3, <3>1, <3>2 DEF StepDominates
    <3> QED
      BY <1>3, <2>3, <3>3 DEF StepDominates
  <2> QED
    BY <2>2, <2>3
<1> QED
  BY <1>7, <1>8

\* A definition dominates another if its way does where the two ways part.
LEMMA DominanceWhereWaysPart ==
  ASSUME NEW f \in Programs, NEW l \in DefLocations(f), NEW m \in DefLocations(f),
         l # Global, m # Global
  PROVE  /\ StrictlyDominates(l, m, DomTree(f)) =>
              l # m /\ \E k : Parts(Path(l), Path(m), k)
         /\ \A k : Parts(Path(l), Path(m), k) =>
              (StrictlyDominates(l, m, DomTree(f)) <=> StepDominates(f, Path(l)[k], Path(m)[k]))
<1>1. l # m => \E k : /\ Parts(Path(l), Path(m), k)
                      /\ find_common_ancestor(Path(l), Path(m)) = k
  BY WaysPart
<1>2. ASSUME NEW k, Parts(Path(l), Path(m), k)
      PROVE  l # m /\ find_common_ancestor(Path(l), Path(m)) = k
  <2>1. l # m
    BY <1>2 DEF Parts
  <2>2. PICK j : /\ Parts(Path(l), Path(m), j)
                 /\ find_common_ancestor(Path(l), Path(m)) = j
    BY <1>1, <2>1
  <2>3. /\ j \in Nat /\ k \in Nat /\ j >= 1 /\ k >= 1
        /\ Path(l)[j] # Path(m)[j] /\ Path(l)[k] # Path(m)[k]
    BY <1>2, <2>2 DEF Parts
  <2>4. ~(j < k) /\ ~(k < j)
    <3>1. j < k => j \in 1..k - 1
      BY <2>3
    <3>2. k < j => k \in 1..j - 1
      BY <2>3
    <3> QED
      BY <1>2, <2>2, <2>3, <3>1, <3>2 DEF Parts
  <2> QED
    BY <2>1, <2>2, <2>3, <2>4
<1>3. ASSUME NEW k, Parts(Path(l), Path(m), k)
      PROVE  StrictlyDominates(l, m, DomTree(f)) <=> StepDominates(f, Path(l)[k], Path(m)[k])
  <2>1. l # m /\ find_common_ancestor(Path(l), Path(m)) = k
    BY <1>2, <1>3
  <2> QED
    BY <2>1 DEF StrictlyDominates, StepDominates
<1>4. StrictlyDominates(l, m, DomTree(f)) => l # m
  BY DEF StrictlyDominates
<1> QED
  BY <1>1, <1>3, <1>4

\* A merge: the start of a block.
IsMergeOf(f, w) == w \in DefLocations(f) /\ w # Global /\ w[3] = 0

\* A definition in the block of a merge.
Within(l, w) == Inside(l, w[1], w[2])

\* What lies within a merge has the merge's way, up to the position in its block.
LEMMA WithinFacts ==
  ASSUME NEW f \in Programs, NEW w, IsMergeOf(f, w), NEW l \in DefLocations(f), l # Global
  PROVE  Within(l, w) <=>
           /\ Len(w[1]) + 1 \in 1..Len(Path(l))
           /\ \A j \in 1..Len(w[1]) : Path(l)[j] = Path(w)[j]
           /\ Path(l)[Len(w[1]) + 1][1] = w[2]
<1> DEFINE ctx == w[1]
           P   == Path(l)
           n   == Len(ctx)
<1>1. /\ n \in Nat /\ ctx \in Seq(CallSites(f))
      /\ \A j \in 1..n : Path(w)[j] = ctx[j]
  BY WayFacts DEF IsMergeOf
<1>2. Len(P) \in Nat /\ P \in Seq((DOMAIN f.proc) \X Nat)
  <2>0. l[1] \in Seq(CallSites(f)) /\ Len(l[1]) \in Nat /\ Len(P) = Len(l[1]) + 1
    BY WayFacts
  <2>1. Len(P) \in Nat /\ P = Append(l[1], <<l[2], l[3]>>) /\ l[1] \in Seq(CallSites(f))
    <3>1. P = Append(l[1], <<l[2], l[3]>>)
      BY DEF Path
    <3> HIDE DEF P
    <3> QED
      BY <2>0, <3>1
  <2>2. DOMAIN P = 1..Len(P)
    BY <2>1
  <2>3. P = [j \in 1..Len(P) |-> P[j]]
    BY <2>1
  <2>4. \A j \in 1..Len(P) : P[j] \in (DOMAIN f.proc) \X Nat
    BY StepFacts
  <2> HIDE DEF P
  <2> DEFINE T == (DOMAIN f.proc) \X Nat
  <2>5. P \in [1..Len(P) -> T]
    <3>1. \A j \in 1..Len(P) : P[j] \in T
      BY <2>4 DEF P
    <3> HIDE DEF T
    <3> QED
      BY <2>3, <3>1
  <2> HIDE DEF T
  <2>6. P \in Seq(T)
    <3>1. ASSUME NEW i \in Nat, P \in [1..i -> T] PROVE P \in Seq(T)
      BY <3>1
    <3> QED
      BY <2>1, <2>5, <3>1
  <2> QED
    BY <2>1, <2>6 DEF T
<1> HIDE DEF P, ctx, n
<1>3. CASE n > Len(P)
  <2>1. ~IsPrefix(ctx, P)
    BY <1>1, <1>2, <1>3 DEF IsPrefix, n
  <2> QED
    BY <1>1, <1>2, <1>3, <2>1 DEF Within, Inside, IsStrictPrefix, P, ctx, n
<1>4. CASE n =< Len(P)
  <2>1. SubSeq(ctx, 1, n) = ctx
    BY <1>1 DEF n
  <2>2. /\ Len(SubSeq(P, 1, n)) = n /\ SubSeq(P, 1, n) \in Seq((DOMAIN f.proc) \X Nat)
        /\ \A j \in 1..n : SubSeq(P, 1, n)[j] = P[j]
    BY <1>1, <1>2, <1>4
  <2>3. ctx = SubSeq(P, 1, n) <=> \A j \in 1..n : ctx[j] = P[j]
    <3>1. ASSUME \A j \in 1..n : ctx[j] = P[j] PROVE ctx = SubSeq(P, 1, n)
      <4>1. \A j \in 1..n : ctx[j] = SubSeq(P, 1, n)[j]
        BY <2>2, <3>1
      <4>2. /\ ctx = [j \in 1..n |-> ctx[j]]
            /\ SubSeq(P, 1, n) = [j \in 1..n |-> SubSeq(P, 1, n)[j]]
        BY <1>1, <2>2 DEF n
      <4> QED
        BY <4>1, <4>2
    <3>2. ASSUME ctx = SubSeq(P, 1, n) PROVE \A j \in 1..n : ctx[j] = P[j]
      BY <2>2, <3>2
    <3> QED
      BY <3>1, <3>2
  <2>4. IsPrefix(ctx, P) <=> \A j \in 1..n : ctx[j] = P[j]
    BY <1>4, <2>1, <2>3 DEF IsPrefix, n
  <2>5. ctx = P <=> n = Len(P) /\ \A j \in 1..n : ctx[j] = P[j]
    <3>1. ctx = P => n = Len(P)
      BY DEF n
    <3>2. n = Len(P) => SubSeq(P, 1, n) = P
      BY <1>2
    <3> QED
      BY <2>3, <3>1, <3>2
  <2>6. IsStrictPrefix(ctx, P) <=> n # Len(P) /\ \A j \in 1..n : ctx[j] = P[j]
    BY <2>4, <2>5 DEF IsStrictPrefix
  <2>7. n # Len(P) <=> n + 1 \in 1..Len(P)
    BY <1>1, <1>2, <1>4
  <2>8. (\A j \in 1..n : ctx[j] = P[j]) <=> \A j \in 1..n : P[j] = Path(w)[j]
    BY <1>1
  <2>9. Within(l, w) <=> IsStrictPrefix(ctx, P) /\ P[n + 1][1] = w[2]
    BY DEF Within, Inside, P, ctx, n
  <2> QED
    BY <2>6, <2>7, <2>8, <2>9 DEF P, ctx, n
<1> QED
  BY <1>1, <1>2, <1>3, <1>4

\* Where a way parts from a merge's at the position in its block but not in the
\* block, it leads to what is within the merge.
LEMMA PartsWithin ==
  ASSUME NEW f \in Programs, NEW w \in DefLocations(f), w # Global,
         NEW l \in DefLocations(f), l # Global,
         NEW k, Parts(Path(l), Path(w), k) \/ Parts(Path(w), Path(l), k),
         Path(w)[k][2] = 0, Path(l)[k][1] = Path(w)[k][1]
  PROVE  IsMergeOf(f, w) /\ Within(l, w) /\ Within(w, w)
<1>1. /\ k \in 1..Len(Path(w)) /\ k \in 1..Len(Path(l))
      /\ \A j \in 1..k - 1 : Path(l)[j] = Path(w)[j]
  BY DEF Parts
<1>2. k = Len(w[1]) + 1 /\ w[2] = Path(w)[k][1] /\ w[3] = 0
  BY <1>1, StepFacts
<1>3. IsMergeOf(f, w)
  BY <1>2 DEF IsMergeOf
<1>4. Len(w[1]) \in Nat
  BY WayFacts
<1>5. \A j \in 1..Len(w[1]) : j \in 1..k - 1
  BY <1>2, <1>4
<1> QED
  BY <1>1, <1>2, <1>3, <1>5, WithinFacts

\* Dominance goes from a definition to one it dominates and on to a third, but
\* for merges: what a merge in second or third place has within it.
LEMMA DominanceAlmostTransitive ==
  ASSUME NEW f \in Programs, NEW x \in DefLocations(f), NEW y \in DefLocations(f),
         NEW z \in DefLocations(f),
         StrictlyDominates(x, y, DomTree(f)), StrictlyDominates(y, z, DomTree(f))
  PROVE  \/ IsMergeOf(f, z) /\ Within(y, z) /\ Within(z, z)
         \/ IsMergeOf(f, y) /\ Within(z, y) /\ Within(y, y)
         \/ StrictlyDominates(x, z, DomTree(f))
<1>1. y # Global /\ z # Global
  BY DEF StrictlyDominates
<1>2. CASE x = Global
  BY <1>1, <1>2 DEF StrictlyDominates
<1>3. CASE x # Global
  <2> DEFINE X == Path(x)
             Y == Path(y)
             Z == Path(z)
  <2>1. PICK k : Parts(X, Y, k)
    BY <1>1, <1>3, DominanceWhereWaysPart
  <2>2. PICK j : Parts(Y, Z, j)
    BY <1>1, DominanceWhereWaysPart
  <2>3. StepDominates(f, X[k], Y[k]) /\ StepDominates(f, Y[j], Z[j])
    BY <1>1, <1>3, <2>1, <2>2, DominanceWhereWaysPart
  <2>4. \A i : Parts(X, Z, i) => (StrictlyDominates(x, z, DomTree(f)) <=> StepDominates(f, X[i], Z[i]))
    BY <1>1, <1>3, DominanceWhereWaysPart
  <2>5. /\ k \in 1..Len(X) /\ k \in 1..Len(Y) /\ X[k] # Y[k] /\ \A i \in 1..k - 1 : X[i] = Y[i]
        /\ j \in 1..Len(Y) /\ j \in 1..Len(Z) /\ Y[j] # Z[j] /\ \A i \in 1..j - 1 : Y[i] = Z[i]
    BY <2>1, <2>2 DEF Parts
  <2>6. Len(X) \in Nat /\ Len(Y) \in Nat /\ Len(Z) \in Nat
    BY <1>1, <1>3, WayFacts
  <2>7. /\ X[k] \in (DOMAIN f.proc) \X Nat /\ Y[k] \in (DOMAIN f.proc) \X Nat
        /\ Z[j] \in (DOMAIN f.proc) \X Nat
    BY <1>1, <1>3, <2>5, StepFacts
  <2> HIDE DEF X, Y, Z
  <2>8. CASE k < j
    <3>1. Parts(X, Z, k) /\ Z[k] = Y[k]
      <4>1. k \in 1..j - 1 /\ k \in 1..Len(Z) /\ \A i \in 1..k - 1 : i \in 1..j - 1
        BY <2>5, <2>6, <2>8
      <4> QED
        BY <2>5, <4>1 DEF Parts
    <3> QED
      BY <2>3, <2>4, <3>1
  <2>9. CASE j < k
    <3>1. Parts(X, Z, j) /\ X[j] = Y[j]
      <4>1. j \in 1..k - 1 /\ j \in 1..Len(X) /\ \A i \in 1..j - 1 : i \in 1..k - 1
        BY <2>5, <2>6, <2>9
      <4> QED
        BY <2>5, <4>1 DEF Parts
    <3> QED
      BY <2>3, <2>4, <3>1
  <2>10. CASE j = k
    <3>1. CASE Y[k][2] = 0 /\ X[k][1] = Y[k][1] /\ Z[k][1] = Y[k][1]
      <4>1. Parts(Y, Z, k) /\ Y[k][2] = 0 /\ Z[k][1] = Y[k][1]
        BY <2>2, <2>10, <3>1
      <4> QED
        BY <1>1, <4>1, PartsWithin DEF Y, Z
    <3>2. CASE ~(Y[k][2] = 0 /\ X[k][1] = Y[k][1] /\ Z[k][1] = Y[k][1])
      <4>1. StepDominates(f, X[k], Z[k])
        <5>1. /\ X[k] \in (DOMAIN f.proc) \X Nat /\ Y[k] \in (DOMAIN f.proc) \X Nat
              /\ Z[k] \in (DOMAIN f.proc) \X Nat
              /\ StepDominates(f, X[k], Y[k]) /\ StepDominates(f, Y[k], Z[k])
          BY <2>3, <2>7, <2>10
        <5> QED
          BY <3>2, <5>1, StepOrder
      <4>2. CASE X[k] # Z[k]
        <5>1. Parts(X, Z, k)
          BY <2>5, <2>10, <4>2 DEF Parts
        <5> QED
          BY <2>4, <4>1, <5>1
      <4>3. CASE X[k] = Z[k]
        <5>1. X[k][1] = Y[k][1] /\ (X[k][2] = 0 \/ Y[k][2] = 0)
          <6>1. StepDominates(f, X[k], Y[k]) /\ StepDominates(f, Y[k], X[k]) /\ X[k] # Y[k]
            BY <2>3, <2>5, <2>10, <4>3
          <6> QED
            BY <2>7, <6>1, StepOrder
        <5>2. Z[k][2] = 0
          BY <3>2, <4>3, <5>1
        <5>3. IsMergeOf(f, z) /\ Within(y, z) /\ Within(z, z)
          <6>1. Parts(Y, Z, k) /\ Z[k][2] = 0 /\ Y[k][1] = Z[k][1]
            BY <2>2, <2>10, <4>3, <5>1, <5>2
          <6> QED
            BY <1>1, <6>1, PartsWithin DEF Y, Z
        <5> QED
          BY <5>3
      <4> QED
        BY <4>2, <4>3
    <3> QED
      BY <3>1, <3>2
  <2> QED
    BY <2>5, <2>8, <2>9, <2>10
<1> QED
  BY <1>2, <1>3

\* Between two definitions within a merge lies, in dominance, what is within it
\* too, or another merge that has the latter within it.
LEMMA BetweenWithin ==
  ASSUME NEW f \in Programs, NEW w, IsMergeOf(f, w), NEW x \in DefLocations(f),
         NEW y \in DefLocations(f), NEW z \in DefLocations(f), x # Global,
         Within(x, w), Within(z, w),
         StrictlyDominates(x, y, DomTree(f)), StrictlyDominates(y, z, DomTree(f))
  PROVE  Within(y, w) \/ (IsMergeOf(f, y) /\ Within(z, y) /\ Within(y, y))
<1> DEFINE X == Path(x)
           Y == Path(y)
           Z == Path(z)
           W == Path(w)
           n == Len(w[1])
<1>1. y # Global /\ z # Global
  BY DEF StrictlyDominates
<1>2. /\ n \in Nat /\ Len(X) \in Nat /\ Len(Y) \in Nat /\ Len(Z) \in Nat
      /\ \A i \in 1..n : W[i] \in CallSites(f)
  <2>1. n \in Nat /\ \A i \in 1..n : W[i] \in CallSites(f)
    BY WayFacts DEF IsMergeOf
  <2>2. /\ Len(X) = Len(x[1]) + 1 /\ Len(x[1]) \in Nat
        /\ Len(Y) = Len(y[1]) + 1 /\ Len(y[1]) \in Nat
        /\ Len(Z) = Len(z[1]) + 1 /\ Len(z[1]) \in Nat
    BY <1>1, WayFacts
  <2> HIDE DEF n, X, Y, Z, W
  <2> QED
    BY <2>1, <2>2
<1>3. /\ n + 1 \in 1..Len(X) /\ X[n + 1][1] = w[2] /\ \A i \in 1..n : X[i] = W[i]
      /\ n + 1 \in 1..Len(Z) /\ Z[n + 1][1] = w[2] /\ \A i \in 1..n : Z[i] = W[i]
  BY <1>1, WithinFacts
<1>4. PICK k : Parts(X, Y, k)
  BY <1>1, DominanceWhereWaysPart
<1>5. /\ k \in 1..Len(X) /\ k \in 1..Len(Y) /\ X[k] # Y[k]
      /\ \A i \in 1..k - 1 : X[i] = Y[i]
  BY <1>4 DEF Parts
<1>6. StepDominates(f, X[k], Y[k])
  BY <1>1, <1>4, DominanceWhereWaysPart
<1>7. \A i : Parts(Y, Z, i) => StepDominates(f, Y[i], Z[i])
  BY <1>1, DominanceWhereWaysPart
<1>8. X[k] \in (DOMAIN f.proc) \X Nat /\ Y[k] \in (DOMAIN f.proc) \X Nat
  BY <1>1, <1>5, StepFacts
<1>9. Within(y, w) <=>
        /\ n + 1 \in 1..Len(Y)
        /\ \A i \in 1..n : Y[i] = W[i]
        /\ Y[n + 1][1] = w[2]
  BY <1>1, WithinFacts
<1>10. ASSUME NEW u \in CallSites(f) PROVE u[2] # 0
  BY CallFacts
<1>11. n + 1 \in 1..Len(Z) => Z[n + 1] \in (DOMAIN f.proc) \X Nat
  BY <1>1, StepFacts
<1> HIDE DEF X, Y, Z, W, n
<1>12. CASE k =< n
  <2>1. X[k] = Z[k] /\ X[k] \in CallSites(f) /\ k \in 1..Len(Z)
    BY <1>2, <1>3, <1>5, <1>12
  <2>2. Parts(Y, Z, k)
    <3>1. \A i \in 1..k - 1 : Y[i] = Z[i]
      <4> TAKE i \in 1..k - 1
      <4>1. i \in 1..n
        BY <1>2, <1>5, <1>12
      <4> QED
        BY <1>3, <1>5, <4>1
    <3> QED
      BY <1>5, <2>1, <3>1 DEF Parts
  <2>3. StepDominates(f, Y[k], X[k])
    BY <1>7, <2>1, <2>2
  <2>4. Y[k][1] = X[k][1] /\ (X[k][2] = 0 \/ Y[k][2] = 0)
    BY <1>5, <1>6, <1>8, <2>3, StepOrder
  <2>5. Y[k][2] = 0
    BY <1>10, <2>1, <2>4
  <2> QED
    BY <1>1, <2>1, <2>2, <2>4, <2>5, PartsWithin DEF Y, Z
<1>13. CASE k = n + 1
  <2>1. \A i \in 1..n : Y[i] = W[i]
    BY <1>2, <1>3, <1>5, <1>13
  <2>2. CASE Y[k][1] = w[2]
    BY <1>5, <1>9, <1>13, <2>1, <2>2
  <2>3. CASE Y[k][1] # w[2]
    <3>1. Parts(Y, Z, k)
      <4>1. \A i \in 1..k - 1 : Y[i] = Z[i]
        BY <1>2, <1>3, <1>13, <2>1
      <4> QED
        BY <1>3, <1>5, <1>13, <2>3, <4>1 DEF Parts
    <3>2. StepDominates(f, Y[k], Z[k]) /\ Z[k] \in (DOMAIN f.proc) \X Nat
      BY <1>3, <1>7, <1>11, <1>13, <3>1
    <3>3. Z[k][1] = X[k][1] /\ X[k][1] # Y[k][1]
      BY <1>3, <1>13, <2>3
    <3>4. StepDominates(f, Y[k], X[k])
      BY <3>2, <3>3 DEF StepDominates
    <3> QED
      BY <1>6, <1>8, <3>3, <3>4, StepOrder
  <2> QED
    BY <2>2, <2>3
<1>14. CASE k > n + 1
  <2>1. n + 1 \in 1..k - 1 /\ n + 1 \in 1..Len(Y) /\ \A i \in 1..n : i \in 1..k - 1
    BY <1>2, <1>5, <1>14
  <2> QED
    BY <1>3, <1>5, <1>9, <2>1
<1> QED
  BY <1>2, <1>5, <1>12, <1>13, <1>14

-----------------------------------------------------------------------------
(* The lists of definitions.                                               *)

\* A new definition keeps a list excused: it goes before the first that dominates
\* it, and what it dominates itself behind that shares a merge with it.
LEMMA InsertExcused ==
  ASSUME NEW f \in Programs, NEW list \in Seq(DefLocations(f)), NEW loc \in DefLocations(f),
         Excused(list, DomTree(f)), NEW S,
         \A l \in DefLocations(f) : l \in S <=> StrictlyDominates(l, loc, DomTree(f))
  PROVE  /\ make_def_at(list, loc, S) \in Seq(DefLocations(f))
         /\ Excused(make_def_at(list, loc, S), DomTree(f))
<1> DEFINE k    == First(list, S \cup {loc})
           made == Insert(list, k, loc)
           L    == DefLocations(f)
           SD(l, m) == StrictlyDominates(l, m, DomTree(f))
           Shared(w, l, m) == IsMergeOf(f, w) /\ Within(l, w) /\ Within(m, w)
<1>1. CASE find_def(list, loc) # NoDef
  BY <1>1 DEF make_def_at
<1>2. CASE find_def(list, loc) = NoDef
  <2>1. Len(list) \in Nat /\ loc \in L /\ \A i \in 1..Len(list) : list[i] \in L
    OBVIOUS
  <2>2. IsFirst(list, S \cup {loc}, k)
    BY <2>1, SomeFirst
  <2>3. /\ k \in 1..Len(list) + 1
        /\ k =< Len(list) => list[k] \in S \cup {loc}
        /\ \A i \in 1..k - 1 : list[i] \notin S
    BY <2>2 DEF IsFirst
  <2> HIDE DEF k
  <2>4. /\ Len(made) = Len(list) + 1 /\ DOMAIN made = 1..Len(list) + 1
        /\ \A i \in 1..k - 1 : made[i] = list[i]
        /\ made[k] = loc
        /\ \A i \in k + 1..Len(list) + 1 : made[i] = list[i - 1]
    BY <2>1, <2>3 DEF Insert
  <2>5. made \in Seq(L)
    <3>1. \A i \in 1..Len(list) + 1 : made[i] \in L
      <4> TAKE i \in 1..Len(list) + 1
      <4>1. i \in 1..k - 1 \/ i = k \/ i \in k + 1..Len(list) + 1
        BY <2>1, <2>3
      <4> HIDE DEF made, L
      <4>2. CASE i \in 1..k - 1
        <5>1. i \in 1..Len(list)
          BY <2>1, <2>3, <4>2
        <5> QED
          BY <2>1, <2>4, <4>2, <5>1
      <4>3. CASE i \in k + 1..Len(list) + 1
        <5>1. i - 1 \in 1..Len(list)
          BY <2>1, <2>3, <4>3
        <5>2. made[i] = list[i - 1]
          BY <2>4, <4>3
        <5> QED
          BY <2>1, <5>1, <5>2
      <4> QED
        BY <2>1, <2>4, <4>1, <4>2, <4>3
    <3>2. made = [i \in 1..Len(list) + 1 |-> made[i]]
      BY DEF Insert
    <3>3. ASSUME NEW n \in Nat, made \in [1..n -> L] PROVE made \in Seq(L)
      BY <3>3
    <3> HIDE DEF made, L
    <3>4. made \in [1..Len(list) + 1 -> L]
      BY <3>1, <3>2
    <3> QED
      BY <2>1, <3>3, <3>4
  <2>6. \A i, j \in 1..Len(list) : i < j /\ SD(list[i], list[j]) =>
          \E n \in 1..j : Shared(list[n], list[i], list[j])
    <3> TAKE i, j \in 1..Len(list)
    <3> HAVE i < j /\ SD(list[i], list[j])
    <3>1. PICK n \in 1..j : /\ list[n] # Global /\ list[n][3] = 0
                            /\ Inside(list[i], list[n][1], list[n][2])
                            /\ Inside(list[j], list[n][1], list[n][2])
      BY DEF Excused
    <3>2. list[n] \in L
      BY <2>1
    <3> QED
      BY <3>1, <3>2 DEF IsMergeOf, Within
  <2> HIDE DEF made, L, SD, Shared
  <2>7. ASSUME NEW j \in k..Len(list), SD(loc, list[j])
        PROVE  \E n \in 1..j + 1 : Shared(made[n], loc, list[j])
    <3> DEFINE e == list[k]
               d == list[j]
    <3>1. /\ k \in Nat /\ j \in Nat /\ k =< j /\ k \in 1..Len(list) /\ j \in 1..Len(list)
          /\ k \in 1..j + 1 /\ j + 1 \in 1..j + 1
      BY <2>1, <2>3
    <3>2. e \in L /\ d \in L /\ e \in S \cup {loc}
      BY <2>1, <2>3, <3>1
    <3>3. d # loc
      BY <2>7 DEF SD, StrictlyDominates
    <3>4. made[j + 1] = d /\ made[k] = loc
      <4>1. j + 1 \in k + 1..Len(list) + 1 /\ (j + 1) - 1 = j
        BY <2>1, <3>1
      <4> QED
        BY <2>4, <4>1
    <3>5. ASSUME NEW i \in 1..j PROVE \E n \in 1..j + 1 : made[n] = list[i]
      <4>1. CASE i < k
        <5>1. i \in 1..k - 1 /\ i \in 1..j + 1
          BY <3>1, <3>5, <4>1
        <5> QED
          BY <2>4, <5>1
      <4>2. CASE ~(i < k)
        <5>1. i + 1 \in k + 1..Len(list) + 1 /\ (i + 1) - 1 = i /\ i + 1 \in 1..j + 1
          BY <2>1, <3>1, <3>5, <4>2
        <5> QED
          BY <2>4, <5>1
      <4> QED
        BY <4>1, <4>2
    <3>6. CASE e = loc
      <4>1. k < j /\ SD(list[k], list[j])
        BY <2>7, <3>1, <3>3, <3>6
      <4>2. PICK i \in 1..j : Shared(list[i], loc, d)
        BY <2>6, <3>1, <3>6, <4>1
      <4> QED
        BY <3>5, <4>2
    <3>7. CASE e # loc
      <4>1. SD(e, loc)
        <5>1. e \in S
          BY <3>2, <3>7
        <5> QED
          BY <3>2, <5>1 DEF SD, L
      <4>2. \/ IsMergeOf(f, d) /\ Within(loc, d) /\ Within(d, d)
            \/ IsMergeOf(f, loc) /\ Within(d, loc) /\ Within(loc, loc)
            \/ SD(e, d)
        BY <2>7, <3>2, <4>1, DominanceAlmostTransitive DEF SD, L
      <4>3. CASE IsMergeOf(f, d) /\ Within(loc, d) /\ Within(d, d)
        BY <3>1, <3>4, <4>3 DEF Shared
      <4>4. CASE IsMergeOf(f, loc) /\ Within(d, loc) /\ Within(loc, loc)
        BY <3>1, <3>4, <4>4 DEF Shared
      <4>5. CASE SD(e, d)
        <5>1. e # d
          BY <4>5 DEF SD, StrictlyDominates
        <5>2. k < j
          BY <3>1, <5>1
        <5>3. PICK i \in 1..j : Shared(list[i], e, d)
          BY <2>6, <3>1, <4>5, <5>2
        <5>4. e # Global
          BY <5>3 DEF Shared, Within, Inside
        <5>5. Within(loc, list[i]) \/ (IsMergeOf(f, loc) /\ Within(d, loc) /\ Within(loc, loc))
          BY <2>7, <3>2, <4>1, <5>3, <5>4, BetweenWithin DEF SD, L, Shared
        <5>6. Within(loc, list[i]) => Shared(list[i], loc, d)
          BY <5>3 DEF Shared
        <5> QED
          BY <3>5, <4>4, <5>5, <5>6
      <4> QED
        BY <4>2, <4>3, <4>4, <4>5
    <3> QED
      BY <3>6, <3>7
  <2>8. ASSUME NEW i \in 1..Len(list) + 1, NEW j \in 1..Len(list) + 1, i < j,
               SD(made[i], made[j])
        PROVE  \E n \in 1..j : Shared(made[n], made[i], made[j])
    <3>1. i \in Nat /\ j \in Nat /\ k \in Nat
      BY <2>1, <2>3
    <3>2. CASE j = k
      <4>1. i \in 1..k - 1 /\ i \in 1..Len(list)
        BY <2>1, <2>3, <2>8, <3>1, <3>2
      <4>2. made[i] = list[i] /\ made[j] = loc /\ list[i] \notin S /\ list[i] \in L
        BY <2>1, <2>3, <2>4, <3>2, <4>1
      <4> QED
        BY <2>8, <4>2 DEF SD, L
    <3>3. CASE i = k
      <4>1. j \in k + 1..Len(list) + 1 /\ j - 1 \in k..Len(list) /\ (j - 1) + 1 = j
        BY <2>1, <2>8, <3>1, <3>3
      <4>2. made[i] = loc /\ made[j] = list[j - 1]
        BY <2>4, <3>3, <4>1
      <4>3. \E n \in 1..(j - 1) + 1 : Shared(made[n], loc, list[j - 1])
        BY <2>7, <2>8, <4>1, <4>2
      <4> QED
        BY <4>1, <4>2, <4>3
    <3>4. CASE i # k /\ j # k
      <4>1. PICK a \in 1..Len(list), b \in 1..Len(list) :
              /\ a < b /\ b =< j /\ (b = j => j < k) /\ made[i] = list[a] /\ made[j] = list[b]
        <5>1. CASE j < k
          <6>1. i \in 1..k - 1 /\ j \in 1..k - 1 /\ i \in 1..Len(list) /\ j \in 1..Len(list)
            BY <2>1, <2>3, <2>8, <3>1, <5>1
          <6> QED
            BY <2>4, <2>8, <3>1, <5>1, <6>1
        <5>2. CASE i < k /\ k < j
          <6>1. /\ i \in 1..k - 1 /\ j \in k + 1..Len(list) + 1 /\ i \in 1..Len(list)
                /\ j - 1 \in 1..Len(list) /\ i < j - 1 /\ j - 1 =< j /\ j - 1 # j
            BY <2>1, <2>3, <2>8, <3>1, <5>2
          <6> QED
            BY <2>4, <6>1
        <5>3. CASE k < i
          <6>1. /\ i \in k + 1..Len(list) + 1 /\ j \in k + 1..Len(list) + 1
                /\ i - 1 \in 1..Len(list) /\ j - 1 \in 1..Len(list)
                /\ i - 1 < j - 1 /\ j - 1 =< j /\ j - 1 # j
            BY <2>1, <2>3, <2>8, <3>1, <5>3
          <6> QED
            BY <2>4, <6>1
        <5> QED
          BY <3>1, <3>4, <5>1, <5>2, <5>3
      <4>2. PICK n \in 1..b : Shared(list[n], list[a], list[b])
        BY <2>6, <2>8, <4>1
      <4>3. \E c \in 1..j : made[c] = list[n]
        <5>1. CASE n < k
          <6>1. n \in 1..k - 1 /\ n \in 1..j
            BY <3>1, <4>1, <5>1
          <6> QED
            BY <2>4, <6>1
        <5>2. CASE ~(n < k)
          <6>1. n + 1 \in k + 1..Len(list) + 1 /\ (n + 1) - 1 = n /\ n + 1 \in 1..j
            BY <2>1, <3>1, <4>1, <5>2
          <6> QED
            BY <2>4, <6>1
        <5> QED
          BY <5>1, <5>2
      <4> QED
        BY <4>1, <4>2, <4>3
    <3> QED
      BY <3>2, <3>3, <3>4
  <2>9. Excused(made, DomTree(f))
    <3> SUFFICES ASSUME NEW i \in DOMAIN made, NEW j \in DOMAIN made, i < j,
                        StrictlyDominates(made[i], made[j], DomTree(f))
                 PROVE  \E n \in 1..j :
                          /\ made[n] # Global /\ made[n][3] = 0
                          /\ Inside(made[i], made[n][1], made[n][2])
                          /\ Inside(made[j], made[n][1], made[n][2])
      BY DEF Excused
    <3>1. \E n \in 1..j : Shared(made[n], made[i], made[j])
      BY <2>4, <2>8 DEF SD
    <3> QED
      BY <3>1 DEF Shared, IsMergeOf, Within
  <2>10. make_def_at(list, loc, S) = made
    BY <1>2 DEF make_def_at, made, k
  <2> QED
    BY <2>5, <2>9, <2>10 DEF L
<1> QED
  BY <1>1, <1>2

\* What a search finds is in the list, if it finds something.
LEMMA FirstDefIn ==
  ASSUME NEW L, NEW list \in Seq(L), NEW S
  PROVE  FirstDef(list, S) \in L \cup {NoDef}
<1>1. IsFirst(list, S, First(list, S)) /\ Len(list) \in Nat
  BY SomeFirst
<1>2. First(list, S) =< Len(list) => First(list, S) \in 1..Len(list)
  BY <1>1 DEF IsFirst
<1> QED
  BY <1>2 DEF FirstDef

\* The positions of a block in a context are locations of the program.
LEMMA LocationIn ==
  ASSUME NEW f \in Programs, NEW ctx \in Contexts(f), NEW b \in BlocksOf(f, ProcOf(f, ctx)),
         NEW i \in 0..Len(f.code[b]) + 1
  PROVE  <<ctx, b, i>> \in ProgramLocations(f)
<1> DEFINE blocks == UNION {{c} \X BlocksOf(f, ProcOf(f, c)) : c \in Contexts(f)}
           at(cb) == {<<cb[1], cb[2], j>> : j \in 0..Len(f.code[cb[2]]) + 1}
<1>1. <<ctx, b>> \in blocks
  OBVIOUS
<1>2. <<ctx, b, i>> \in at(<<ctx, b>>)
  OBVIOUS
<1>3. ProgramLocations(f) = {Global} \cup UNION {at(cb) : cb \in blocks}
  BY DEF ProgramLocations
<1> HIDE DEF blocks, at
<1> QED
  BY <1>1, <1>2, <1>3

\* The call in hand, and the stack with another in its place.
LEMMA StackFacts ==
  ASSUME stack \in Seq(Frames(fn)), stack # <<>>, NEW fr \in Frames(fn)
  PROVE  /\ Top \in Frames(fn)
         /\ Append(Front(stack), fr) \in Seq(Frames(fn)) /\ Append(Front(stack), fr) # <<>>
<1> DEFINE T == Frames(fn)
<1> HIDE DEF T
<1>1. ASSUME NEW s \in Seq(T), s # <<>>, NEW x \in T
      PROVE  /\ s[Len(s)] \in T /\ SubSeq(s, 1, Len(s) - 1) \in Seq(T)
             /\ Append(SubSeq(s, 1, Len(s) - 1), x) \in Seq(T)
             /\ Append(SubSeq(s, 1, Len(s) - 1), x) # <<>>
  <2>1. Len(s) \in Nat \ {0}
    BY <1>1
  <2>2. s[Len(s)] \in T
    BY <1>1, <2>1
  <2>3. SubSeq(s, 1, Len(s) - 1) \in Seq(T)
    BY <1>1, <2>1
  <2>4. ASSUME NEW t \in Seq(T) PROVE Append(t, x) \in Seq(T) /\ Append(t, x) # <<>>
    <3>1. Append(t, x) \in Seq(T) /\ Len(Append(t, x)) = Len(t) + 1 /\ Len(t) \in Nat
      OBVIOUS
    <3> QED
      BY <3>1
  <2> QED
    BY <2>2, <2>3, <2>4
<1> QED
  BY <1>1 DEF T, Top, Last, Front

\* The lists that are definitions at one place stay so.
LEMMA InsertAnywhere ==
  ASSUME NEW list \in Seq({Global}), NEW S
  PROVE  make_def_at(list, Global, S) \in Seq({Global})
<1> DEFINE k    == First(list, S \cup {Global})
           made == Insert(list, k, Global)
<1>1. Len(list) \in Nat /\ \A i \in 1..Len(list) : list[i] = Global
  BY DEF Global
<1>2. IsFirst(list, S \cup {Global}, k)
  BY <1>1, SomeFirst
<1>3. k \in 1..Len(list) + 1
  BY <1>2 DEF IsFirst
<1> HIDE DEF k
<1>4. ASSUME NEW i \in 1..Len(list) + 1
      PROVE  (IF i < k THEN list[i] ELSE IF i = k THEN Global ELSE list[i - 1]) = Global
  <2>1. i < k => i \in 1..Len(list)
    BY <1>1, <1>3
  <2>2. ~(i < k) /\ i # k => i - 1 \in 1..Len(list)
    BY <1>1, <1>3
  <2> QED
    BY <1>1, <2>1, <2>2
<1>5. made \in [1..Len(list) + 1 -> {Global}]
  BY <1>4 DEF Insert
<1>6. ASSUME NEW n \in Nat, NEW s \in [1..n -> {Global}] PROVE s \in Seq({Global})
  OBVIOUS
<1>7. made \in Seq({Global})
  <2> HIDE DEF made
  <2> QED
    BY <1>1, <1>5, <1>6
<1> QED
  BY <1>7 DEF make_def_at, k

\* What the analysis reads: sets of memory blocks.
LEMMA PointsToType ==
  ASSUME points_to \in [MemBlock -> [ProgramLocations(fn) -> SUBSET MemBlock]],
         defs \in [MemBlock -> Seq(DefLocations(fn))], NEW m \in MemBlock
  PROVE  /\ \A d \in DefLocations(fn) \cup {NoDef} : PointsTo(m, d) \subseteq MemBlock
         /\ \A loc : Dereference(m, loc) \subseteq MemBlock
         /\ \A l \in ProgramLocations(fn) : points_to[m][l] \subseteq MemBlock
<1>1. \A d \in DefLocations(fn) \cup {NoDef} : PointsTo(m, d) \subseteq MemBlock
  BY DEF PointsTo, DefLocations
<1>2. ASSUME NEW loc PROVE Dereference(m, loc) \subseteq MemBlock
  <2>1. \A l : nearest_def_at(m, l) \in DefLocations(fn) \cup {NoDef}
    BY FirstDefIn DEF nearest_def_at, find_strictly_dominating_def
  <2>2. ci_nearest_def_at(m, loc) \in DefLocations(fn) \cup {NoDef}
    BY <2>1 DEF ci_nearest_def_at
  <2> QED
    BY <1>1, <2>2 DEF Dereference
<1> QED
  BY <1>1, <1>2

-----------------------------------------------------------------------------
(* The invariant holds at first and is kept by every step.                 *)

LEMMA InitIInv == Init => IInv
<1> SUFFICES ASSUME Init PROVE IInv
  OBVIOUS
<1>1. fn \in Programs /\ flowSensitive \in BOOLEAN
  BY DEF Init
<1>2. InfoInv
  BY DEF Init, InfoInv
<1>3. worklist \subseteq DOMAIN fn.proc
  BY DEF Init, BlocksOf
<1>4. stack \in Seq(Frames(fn)) /\ stack # <<>>
  <2>1. <<>> \in Contexts(fn)
    BY <1>1, ContextsAreClosed
  <2>2. Frame(<<>>) \in Frames(fn)
    BY <2>1 DEF Frame, Frames
  <2> QED
    BY <2>2 DEF Init
<1>5. phis \in [{<<l[1], l[2]>> : l \in ProgramLocations(fn)} -> SUBSET MemBlock]
  BY DEF Init
<1>6. Global \in DefLocations(fn)
  BY DEF DefLocations, ProgramLocations
<1>7. \A m \in MemBlock : defs[m] \in {<<>>, <<Global>>}
  BY DEF Init
<1>8. defs \in [MemBlock -> Seq(DefLocations(fn))]
  <2>1. <<>> \in Seq(DefLocations(fn)) /\ <<Global>> \in Seq(DefLocations(fn))
    BY <1>6
  <2>2. defs = [m \in MemBlock |-> defs[m]]
    BY DEF Init
  <2> QED
    BY <1>7, <2>1, <2>2
<1>9. points_to \in [MemBlock -> [ProgramLocations(fn) -> SUBSET MemBlock]] /\ current \subseteq MemBlock
  BY DEF Init
<1>10. \A m \in MemBlock : \A i \in DOMAIN defs[m] : i = 1 /\ defs[m][i] = Global
  <2> DEFINE one == <<Global>>
             none == <<>>
  <2>1. /\ \A i \in DOMAIN one : i = 1 /\ one[i] = Global
        /\ DOMAIN none = {}
    BY DEF Global
  <2> QED
    BY <1>7, <2>1
<1>11. OneDefinition
  BY <1>10 DEF OneDefinition, Anywhere
<1>12. \A m \in MemBlock : Excused(defs[m], DomTree(fn))
  <2>1. ASSUME NEW m \in MemBlock, NEW i \in DOMAIN defs[m], NEW j \in DOMAIN defs[m], i < j
        PROVE  FALSE
    BY <1>10, <2>1
  <2> QED
    BY <2>1 DEF Excused
<1> QED
  BY <1>1, <1>2, <1>3, <1>4, <1>5, <1>8, <1>9, <1>11, <1>12 DEF IInv, TypeInv

\* Defining a memory block anew, in one list or the other.
LEMMA DefAtFacts ==
  ASSUME IInv, NEW m \in MemBlock, NEW loc \in DefLocations(fn)
  PROVE  /\ def_at(m, loc) \in Seq(DefLocations(fn))
         /\ At(loc) \in DefLocations(fn)
         /\ Excused(def_at(m, loc), DomTree(fn))
         /\ ~flowSensitive => \A i \in DOMAIN def_at(m, loc) : def_at(m, loc)[i] = Anywhere
<1>1. /\ fn \in Programs /\ defs[m] \in Seq(DefLocations(fn)) /\ Excused(defs[m], DomTree(fn))
      /\ flowSensitive \in BOOLEAN /\ InfoInv /\ OneDefinition
  BY DEF IInv, TypeInv
<1>2. CASE flowSensitive
  <2>1. loc \in ProgramLocations(fn)
    BY DEF DefLocations
  <2>2. info.dominators[loc] = {l \in ProgramLocations(fn) : StrictlyDominates(l, loc, DomTree(fn))}
    BY <1>1, <2>1 DEF InfoInv
  <2>3. \A l \in DefLocations(fn) :
          l \in info.dominators[loc] <=> StrictlyDominates(l, loc, DomTree(fn))
    BY <2>2 DEF DefLocations
  <2>4. def_at(m, loc) = make_def_at(defs[m], loc, info.dominators[loc]) /\ At(loc) = loc
    BY <1>2 DEF def_at, At, StrictDominators
  <2> QED
    BY <1>1, <1>2, <2>3, <2>4, InsertExcused
<1>3. CASE ~flowSensitive
  <2>1. At(loc) = Global /\ Anywhere = Global
    BY <1>3 DEF At, Anywhere
  <2>2. Global \in DefLocations(fn)
    BY DEF DefLocations, ProgramLocations
  <2>3. defs[m] \in Seq({Global})
    <3>1. \A i \in DOMAIN defs[m] : defs[m][i] = Global
      BY <1>1, <1>3, <2>1 DEF OneDefinition
    <3>2. ASSUME NEW L, NEW s \in Seq(L), \A i \in DOMAIN s : s[i] = Global
          PROVE  s \in Seq({Global})
      BY <3>2
    <3> QED
      BY <1>1, <3>1, <3>2
  <2>4. def_at(m, loc) \in Seq({Global})
    BY <2>1, <2>3, InsertAnywhere DEF def_at
  <2>5. \A i \in DOMAIN def_at(m, loc) : def_at(m, loc)[i] = Global
    BY <2>4
  <2>6. def_at(m, loc) \in Seq(DefLocations(fn))
    BY <2>2, <2>4
  <2>7. Excused(def_at(m, loc), DomTree(fn))
    BY <2>5 DEF Excused, StrictlyDominates
  <2> QED
    BY <1>3, <2>1, <2>2, <2>5, <2>6, <2>7
<1> QED
  BY <1>1, <1>2, <1>3

\* A step that defines memory blocks at a location keeps the invariant.
LEMMA DefineKeeps ==
  ASSUME IInv, NEW S \in SUBSET MemBlock, NEW loc \in DefLocations(fn),
         NEW set \in [S -> SUBSET MemBlock], NEW fr \in Frames(fn), Define(S, loc, set, fr),
         fn' = fn, info' = info, flowSensitive' = flowSensitive,
         worklist' \subseteq DOMAIN fn.proc, phis' = phis
  PROVE  IInv'
<1>1. /\ fn \in Programs /\ defs \in [MemBlock -> Seq(DefLocations(fn))] /\ InfoInv
      /\ points_to \in [MemBlock -> [ProgramLocations(fn) -> SUBSET MemBlock]]
      /\ current \subseteq MemBlock /\ stack \in Seq(Frames(fn)) /\ stack # <<>>
      /\ \A m \in MemBlock : Excused(defs[m], DomTree(fn))
  BY DEF IInv, TypeInv
<1>2. /\ defs' = [m \in MemBlock |-> IF m \in S THEN def_at(m, loc) ELSE defs[m]]
      /\ points_to' = [m \in MemBlock |->
           IF m \in S THEN [points_to[m] EXCEPT ![At(loc)] = set[m]] ELSE points_to[m]]
      /\ current' = current \cup S
      /\ \E C, E \in SUBSET MemBlock :
           stack' = Append(Front(stack), [fr EXCEPT !.changes = C, !.defined = E])
  <2>1. fr.changes \subseteq MemBlock /\ fr.defined \subseteq MemBlock
    BY DEF Frames
  <2>2. stack' = Append(Front(stack),
          [fr EXCEPT !.changes = fr.changes \cup {m \in S : Changed(m, loc, set[m])},
                     !.defined = fr.defined \cup S])
    BY DEF Define
  <2>3. /\ fr.changes \cup {m \in S : Changed(m, loc, set[m])} \in SUBSET MemBlock
        /\ fr.defined \cup S \in SUBSET MemBlock
    BY <2>1
  <2> QED
    BY <2>2, <2>3 DEF Define
<1>3. \A m \in MemBlock : defs'[m] = IF m \in S THEN def_at(m, loc) ELSE defs[m]
  BY <1>2
<1>4. defs' = [m \in MemBlock |-> defs'[m]]
  BY <1>2
<1>5. defs' \in [MemBlock -> Seq(DefLocations(fn))]
  <2>1. \A m \in MemBlock : defs'[m] \in Seq(DefLocations(fn))
    BY <1>1, <1>3, DefAtFacts
  <2> QED
    BY <1>4, <2>1
<1>6. points_to' \in [MemBlock -> [ProgramLocations(fn) -> SUBSET MemBlock]]
  <2>1. At(loc) \in ProgramLocations(fn)
    <3>1. At(loc) \in DefLocations(fn) \/ S = {}
      BY DefAtFacts
    <3> QED
      BY DefAtFacts DEF At, Anywhere, DefLocations, ProgramLocations
  <2> QED
    BY <1>1, <1>2, <2>1
<1>7. stack' \in Seq(Frames(fn)) /\ stack' # <<>>
  <2>1. PICK C \in SUBSET MemBlock, E \in SUBSET MemBlock :
          stack' = Append(Front(stack), [fr EXCEPT !.changes = C, !.defined = E])
    BY <1>2
  <2>2. [fr EXCEPT !.changes = C, !.defined = E] \in Frames(fn)
    BY DEF Frames
  <2> QED
    BY <1>1, <2>1, <2>2, StackFacts
<1>8. \A m \in MemBlock : Excused(defs'[m], DomTree(fn))
  BY <1>1, <1>3, DefAtFacts
<1>9. ~flowSensitive => \A m \in MemBlock : \A i \in DOMAIN defs'[m] : defs'[m][i] = Anywhere
  BY <1>3, DefAtFacts DEF IInv, OneDefinition
<1>10. InfoInv'
  BY <1>1 DEF InfoInv
<1>11. TypeInv'
  BY <1>1, <1>2, <1>5, <1>6, <1>7, <1>10 DEF TypeInv, IInv
<1> QED
  BY <1>8, <1>9, <1>11 DEF IInv, OneDefinition

\* The block that is taken from the worklist of a procedure is one of its blocks.
LEMMA TakenFacts ==
  ASSUME IInv, NEW p \in Procedures(fn), worklist \cap BlocksOf(fn, p) # {}
  PROVE  info.order[p][First(info.order[p], worklist)] \in BlocksOf(fn, p)
<1> DEFINE order == info.order[p]
           S == BlocksOf(fn, p)
           n == Cardinality(S)
           D == 1..n
           k == First(order, worklist)
<1>1. n \in Nat /\ IsFiniteSet(S)
  <2>1. IsFiniteSet(DOMAIN fn.proc) /\ S \in SUBSET DOMAIN fn.proc
    BY ProgramsAssumption DEF IInv, TypeInv, BlocksOf
  <2> QED
    BY <2>1, FS_Subset, FS_CardinalityType
<1>2. order \in [D -> S] /\ \A i, j \in D : i # j => order[i] # order[j]
  BY DEF IInv, TypeInv, InfoInv, WorklistOrders, SetToSeqs, Procedures
<1>3. IsFiniteSet(D) /\ Cardinality(D) = n
  <2> HIDE DEF n
  <2> QED
    BY <1>1, FS_Interval
<1> HIDE DEF n, order
<1>4. order \in Injection(D, S)
  BY <1>2 DEF Injection, IsInjective
<1>5. order \in Surjection(D, S)
  BY <1>1, <1>3, <1>4, FS_Injection DEF n
<1>6. PICK i \in D : order[i] \in worklist
  BY <1>5 DEF Surjection
<1>7. Len(order) = n /\ order \in Seq(S)
  BY <1>1, <1>2
<1>8. IsFirst(order, worklist, k)
  BY <1>1, <1>7, SomeFirst
<1> HIDE DEF k
<1>9. k \in D
  BY <1>1, <1>6, <1>7, <1>8 DEF IsFirst
<1> QED
  BY <1>2, <1>9 DEF k, order

\* What a merge point reads: sets of memory blocks.
LEMMA EvalPhiType ==
  ASSUME IInv, NEW m \in MemBlock, NEW ctx, NEW b, <<ctx, b, 0>> \in DefLocations(fn)
  PROVE  eval_phi(m, ctx, b) \subseteq MemBlock
<1> DEFINE loc  == <<ctx, b, 0>>
           list == def_at(m, loc)
           lasts == {last_def_at(l, ctx, p) : l \in {list}, p \in Predecessors(b)}
<1>1. list \in Seq(DefLocations(fn)) /\ At(loc) \in DefLocations(fn)
  BY DefAtFacts
<1>2. At(loc) \in ProgramLocations(fn)
  BY <1>1 DEF DefLocations
<1>3. lasts \subseteq DefLocations(fn) \cup {NoDef}
  <2>1. ASSUME NEW p PROVE last_def_at(list, ctx, p) \in DefLocations(fn) \cup {NoDef}
    BY <1>1, FirstDefIn DEF last_def_at, find_dominating_def
  <2> QED
    BY <2>1
<1>4. \A d \in lasts : PointsTo(m, d) \subseteq MemBlock
  <2> HIDE DEF lasts
  <2>1. \A d \in DefLocations(fn) \cup {NoDef} : PointsTo(m, d) \subseteq MemBlock
    BY PointsToType DEF IInv, TypeInv
  <2> QED
    BY <1>3, <2>1
<1>5. points_to[m][At(loc)] \subseteq MemBlock
  BY <1>2, PointsToType DEF IInv, TypeInv
<1>6. eval_phi(m, ctx, b) =
        (IF flowSensitive THEN {} ELSE points_to[m][At(loc)])
          \cup UNION {PointsTo(m, d) : d \in lasts \ {At(loc)}}
  BY DEF eval_phi
<1> HIDE DEF lasts, loc
<1> QED
  BY <1>4, <1>5, <1>6

\* A call goes on, with another block or behind a call that has ended.
LEMMA FrameUpdates ==
  ASSUME NEW fr \in Frames(fn)
  PROVE  /\ \A b \in DOMAIN fn.proc : fn.proc[b] = ProcOf(fn, fr.ctx) =>
              [fr EXCEPT !.bb = b, !.next = 1] \in Frames(fn)
         /\ \A S \in SUBSET MemBlock :
              [fr EXCEPT !.next = @ + 1, !.defined = @ \cup S] \in Frames(fn)
<1> DEFINE R == [ctx : Contexts(fn), bb : DOMAIN fn.proc \cup {Null}, next : Nat,
                 changes : SUBSET MemBlock, defined : SUBSET MemBlock]
<1>1. Frames(fn) = {x \in R : x.bb # Null => fn.proc[x.bb] = ProcOf(fn, x.ctx) /\ x.next # 0}
  BY DEF Frames
<1>2. ASSUME NEW x \in R, NEW b \in DOMAIN fn.proc
      PROVE  LET g == [x EXCEPT !.bb = b, !.next = 1]
             IN  g \in R /\ g.bb = b /\ g.ctx = x.ctx /\ g.next = 1
  OBVIOUS
<1>3. ASSUME NEW x \in R, NEW S \in SUBSET MemBlock
      PROVE  LET g == [x EXCEPT !.next = @ + 1, !.defined = @ \cup S]
             IN  g \in R /\ g.bb = x.bb /\ g.ctx = x.ctx /\ g.next # 0
  <2> DEFINE D == x.defined \cup S
             n == x.next + 1
  <2>1. D \in SUBSET MemBlock /\ n \in Nat /\ n # 0
    OBVIOUS
  <2> HIDE DEF D, n
  <2>2. LET g == [x EXCEPT !.next = n, !.defined = D]
        IN  g \in R /\ g.bb = x.bb /\ g.ctx = x.ctx /\ g.next # 0
    BY <2>1
  <2> QED
    BY <2>2 DEF D, n
<1> HIDE DEF R
<1>4. fr \in R /\ (fr.bb # Null => fn.proc[fr.bb] = ProcOf(fn, fr.ctx) /\ fr.next # 0)
  BY <1>1
<1>5. ASSUME NEW b \in DOMAIN fn.proc, fn.proc[b] = ProcOf(fn, fr.ctx)
      PROVE  [fr EXCEPT !.bb = b, !.next = 1] \in Frames(fn)
  <2> DEFINE g == [fr EXCEPT !.bb = b, !.next = 1]
  <2>1. g \in R /\ g.bb = b /\ g.ctx = fr.ctx /\ g.next = 1
    BY <1>2, <1>4
  <2> HIDE DEF g
  <2>2. g.next # 0 /\ fn.proc[g.bb] = ProcOf(fn, g.ctx)
    BY <1>5, <2>1
  <2>3. g \in Frames(fn)
    BY <1>1, <2>1, <2>2
  <2> QED
    BY <2>3 DEF g
<1>6. ASSUME NEW S \in SUBSET MemBlock
      PROVE  [fr EXCEPT !.next = @ + 1, !.defined = @ \cup S] \in Frames(fn)
  <2> DEFINE g == [fr EXCEPT !.next = @ + 1, !.defined = @ \cup S]
  <2>1. g \in R /\ g.bb = fr.bb /\ g.ctx = fr.ctx /\ g.next # 0
    BY <1>3, <1>4
  <2> HIDE DEF g
  <2> QED
    BY <1>1, <1>4, <2>1 DEF g
<1> QED
  BY <1>5, <1>6

LEMMA ShiftKeeps == ASSUME IInv, shift_worklist PROVE IInv'
<1> DEFINE ctx   == Top.ctx
           p     == ProcOf(fn, ctx)
           b     == info.order[p][First(info.order[p], worklist)]
           merge == phis[ctx, b]
           loc   == <<ctx, b, 0>>
           set   == [m \in merge |-> eval_phi(m, ctx, b)]
           fr    == [Top EXCEPT !.bb = b, !.next = 1]
<1>1. /\ fn \in Programs /\ Top \in Frames(fn) /\ worklist \subseteq DOMAIN fn.proc
      /\ phis \in [{<<l[1], l[2]>> : l \in ProgramLocations(fn)} -> SUBSET MemBlock]
  BY StackFacts DEF IInv, TypeInv
<1>2. /\ worklist' = worklist \ {b} /\ Define(merge, loc, set, fr)
      /\ fn' = fn /\ info' = info /\ flowSensitive' = flowSensitive /\ phis' = phis
      /\ worklist \cap BlocksOf(fn, p) # {}
  BY DEF shift_worklist, Queued
<1>3. ctx \in Contexts(fn) /\ p \in Procedures(fn)
  BY <1>1, ContextsAreClosed DEF Frames
<1>4. b \in BlocksOf(fn, p)
  BY <1>2, <1>3, TakenFacts
<1>5. b \in DOMAIN fn.proc /\ fn.proc[b] = p
  BY <1>4 DEF BlocksOf
<1> HIDE DEF p, b
<1>6. Len(fn.code[b]) \in Nat
  BY <1>1, <1>5, ProgramsAssumption
<1>7. loc \in ProgramLocations(fn)
  BY <1>1, <1>3, <1>4, <1>6, LocationIn DEF p
<1>8. loc \in DefLocations(fn) /\ <<ctx, b>> \in {<<l[1], l[2]>> : l \in ProgramLocations(fn)}
  BY <1>7 DEF DefLocations
<1>9. merge \in SUBSET MemBlock
  BY <1>1, <1>8
<1>10. set \in [merge -> SUBSET MemBlock]
  BY <1>8, <1>9, EvalPhiType
<1>11. fr \in Frames(fn)
  BY <1>1, <1>5, FrameUpdates DEF p
<1>12. worklist' \subseteq DOMAIN fn.proc
  BY <1>1, <1>2
<1> HIDE DEF merge, set, loc, fr
<1> QED
  BY <1>2, <1>8, <1>9, <1>10, <1>11, <1>12, DefineKeeps

\* The statement in hand.
LEMMA StatementFacts ==
  ASSUME IInv, AtStatement
  PROVE  /\ Top \in Frames(fn) /\ Top.ctx \in Contexts(fn)
         /\ Top.bb \in BlocksOf(fn, ProcOf(fn, Top.ctx))
         /\ Top.next \in DOMAIN fn.code[Top.bb] /\ Top.next \in Nat \ {0}
         /\ here \in ProgramLocations(fn)
<1>1. fn \in Programs /\ Top \in Frames(fn) /\ Top.bb # Null /\ Top.next =< Len(fn.code[Top.bb])
  BY StackFacts DEF IInv, TypeInv, AtStatement
<1>2. /\ Top.ctx \in Contexts(fn) /\ Top.bb \in BlocksOf(fn, ProcOf(fn, Top.ctx))
      /\ Top.next \in Nat \ {0} /\ Top.bb \in DOMAIN fn.proc
  BY <1>1 DEF Frames, BlocksOf
<1>3. fn.code[Top.bb] \in Seq(ToSet(fn.code[Top.bb]))
  BY <1>1, <1>2, ProgramsAssumption
<1>4. Top.next \in DOMAIN fn.code[Top.bb] /\ Top.next \in 0..Len(fn.code[Top.bb]) + 1
  BY <1>1, <1>2, <1>3
<1>5. here \in ProgramLocations(fn)
  BY <1>1, <1>2, <1>4, LocationIn DEF here
<1> QED
  BY <1>1, <1>2, <1>4, <1>5

LEMMA StoreKeeps == ASSUME IInv, handle_store PROVE IInv'
<1> DEFINE lhs == IF Statement.kind = "through" THEN Dereference(Statement.dst, here) ELSE {Statement.dst}
           rhs == IF Statement.kind = "copy" THEN Dereference(Statement.src, here) ELSE {Statement.src}
           set == [m \in lhs |-> handle_assign(m, lhs, rhs, here)]
           fr  == [Top EXCEPT !.next = @ + 1]
<1>1. /\ AtStatement /\ Statement.kind # "call" /\ Define(lhs, here, set, fr)
      /\ fn' = fn /\ info' = info /\ flowSensitive' = flowSensitive /\ phis' = phis
      /\ worklist' = worklist
  BY DEF handle_store
<1>2. /\ fn \in Programs /\ worklist \subseteq DOMAIN fn.proc
      /\ defs \in [MemBlock -> Seq(DefLocations(fn))]
      /\ points_to \in [MemBlock -> [ProgramLocations(fn) -> SUBSET MemBlock]]
  BY DEF IInv, TypeInv
<1>3. /\ Top \in Frames(fn) /\ Top.bb \in DOMAIN fn.proc
      /\ Top.next \in DOMAIN fn.code[Top.bb] /\ here \in ProgramLocations(fn)
  BY <1>1, StatementFacts DEF BlocksOf
<1>4. Statement.dst \in MemBlock /\ Statement.src \in MemBlock
  BY <1>1, <1>2, <1>3, ProgramsAssumption DEF Statement
<1>5. here \in DefLocations(fn)
  BY <1>1, <1>3 DEF here, DefLocations, Statement
<1>6. lhs \in SUBSET MemBlock /\ rhs \subseteq MemBlock
  BY <1>2, <1>4, PointsToType
<1> HIDE DEF lhs, rhs
<1>7. ASSUME NEW m \in lhs PROVE handle_assign(m, lhs, rhs, here) \subseteq MemBlock
  <2>1. At(here) \in ProgramLocations(fn)
    BY <1>5, <1>6, DefAtFacts DEF DefLocations
  <2>2. points_to[m][At(here)] \subseteq MemBlock /\ Dereference(m, here) \subseteq MemBlock
    BY <1>2, <1>6, <2>1, PointsToType
  <2> QED
    BY <1>6, <2>2 DEF handle_assign
<1>8. set \in [lhs -> SUBSET MemBlock]
  BY <1>7
<1>9. fr \in Frames(fn)
  BY <1>3 DEF Frames
<1>10. worklist' \subseteq DOMAIN fn.proc
  BY <1>1, <1>2
<1> HIDE DEF set, fr
<1> QED
  BY <1>1, <1>5, <1>6, <1>8, <1>9, <1>10, DefineKeeps

\* A step that leaves the definitions alone.
LEMMA OtherKeeps ==
  ASSUME IInv, fn' = fn, info' = info, flowSensitive' = flowSensitive,
         worklist' \subseteq DOMAIN fn.proc, stack' \in Seq(Frames(fn)), stack' # <<>>,
         phis' \in [{<<l[1], l[2]>> : l \in ProgramLocations(fn)} -> SUBSET MemBlock],
         defs' = defs, points_to' = points_to, current' \subseteq MemBlock
  PROVE  IInv'
<1>1. InfoInv'
  BY DEF IInv, TypeInv, InfoInv
<1>2. TypeInv'
  BY <1>1 DEF IInv, TypeInv
<1>3. OneDefinition'
  BY DEF IInv, OneDefinition, Anywhere
<1> QED
  BY <1>2, <1>3 DEF IInv

LEMMA SkipKeeps == ASSUME IInv, skip_call PROVE IInv'
<1>1. /\ AtStatement
      /\ stack' = Append(Front(stack), [Top EXCEPT !.next = @ + 1])
      /\ UNCHANGED <<fn, info, flowSensitive, worklist, phis, defs, points_to, current>>
  BY DEF skip_call
<1>2. Top \in Frames(fn)
  BY <1>1, StatementFacts
<1>3. [Top EXCEPT !.next = @ + 1] \in Frames(fn)
  BY <1>2 DEF Frames
<1>4. stack' \in Seq(Frames(fn)) /\ stack' # <<>>
  BY <1>1, <1>3, StackFacts DEF IInv, TypeInv
<1> QED
  BY <1>1, <1>4, OtherKeeps DEF IInv, TypeInv

LEMMA CallKeeps == ASSUME IInv, handle_call PROVE IInv'
<1> DEFINE c  == <<Top.bb, Top.next>>
           fr == Frame(Append(Top.ctx, c))
<1>1. /\ AtStatement /\ Statement.kind = "call"
      /\ ~is_current_call_recursive(AncestorSets(fn), Statement.dst, ProcOf(fn, Top.ctx))
      /\ stack' = Append(stack, fr)
      /\ worklist' = worklist \cup BlocksOf(fn, Statement.dst)
      /\ UNCHANGED <<fn, info, flowSensitive, phis, defs, points_to, current>>
  BY DEF handle_call
<1>2. /\ Top \in Frames(fn) /\ Top.ctx \in Contexts(fn)
      /\ Top.bb \in DOMAIN fn.proc /\ fn.proc[Top.bb] = ProcOf(fn, Top.ctx)
      /\ Top.next \in DOMAIN fn.code[Top.bb]
  BY <1>1, StatementFacts DEF BlocksOf
<1>3. c \in CallsIn(fn, Top.ctx)
  <2>1. c \in CallSites(fn)
    BY <1>1, <1>2 DEF CallSites, Statement
  <2>2. Callee(fn, c) = Statement.dst
    BY DEF Callee, Statement
  <2> QED
    BY <1>1, <1>2, <2>1, <2>2 DEF CallsIn
<1>4. Append(Top.ctx, c) \in Contexts(fn)
  BY <1>2, <1>3, ContextsAreClosed DEF IInv, TypeInv
<1> HIDE DEF c
<1>5. fr \in Frames(fn)
  BY <1>4 DEF Frame, Frames
<1>6. stack' \in Seq(Frames(fn)) /\ stack' # <<>>
  <2>1. stack \in Seq(Frames(fn)) /\ stack' = Append(stack, fr)
    BY <1>1 DEF IInv, TypeInv
  <2>2. ASSUME NEW T, NEW s \in Seq(T), NEW x \in T PROVE Append(s, x) \in Seq(T) /\ Append(s, x) # <<>>
    <3>1. Append(s, x) \in Seq(T) /\ Len(Append(s, x)) = Len(s) + 1 /\ Len(s) \in Nat
      OBVIOUS
    <3> QED
      BY <3>1
  <2> QED
    BY <1>5, <2>1, <2>2
<1>7. worklist' \subseteq DOMAIN fn.proc
  BY <1>1 DEF BlocksOf, IInv, TypeInv
<1> QED
  BY <1>1, <1>6, <1>7, OtherKeeps DEF IInv, TypeInv

LEMMA ExternKeeps == ASSUME IInv, record_extern_io PROVE IInv'
<1> DEFINE n       == Len(stack)
           caller  == stack[n - 1]
           called  == ProcOf(fn, Top.ctx)
           visible == {m \in Top.defined :
             /\ fn.owner[m] # called /\ is_in_scope(fn, called, m)
             /\ is_in_scope(fn, ProcOf(fn, caller.ctx), m)}
           fr == [caller EXCEPT !.next = @ + 1, !.defined = @ \cup visible]
<1>1. /\ n > 1 /\ stack' = Append(SubSeq(stack, 1, n - 2), fr)
      /\ current' = current \ Top.defined
      /\ UNCHANGED <<fn, info, flowSensitive, worklist, phis, defs, points_to>>
  BY DEF record_extern_io
<1>2. stack \in Seq(Frames(fn)) /\ Top \in Frames(fn)
  BY StackFacts DEF IInv, TypeInv
<1>3. caller \in Frames(fn)
  <2>1. n - 1 \in 1..n /\ n \in Nat
    BY <1>1, <1>2
  <2> QED
    BY <1>2, <2>1
<1>4. visible \subseteq MemBlock
  BY <1>2 DEF Frames
<1> HIDE DEF caller, visible
<1>5. fr \in Frames(fn)
  BY <1>3, <1>4, FrameUpdates
<1> HIDE DEF fr
<1>6. stack' \in Seq(Frames(fn)) /\ stack' # <<>>
  <2>1. ASSUME NEW T, NEW s \in Seq(T), Len(s) > 1, NEW x \in T
        PROVE  Append(SubSeq(s, 1, Len(s) - 2), x) \in Seq(T) /\ Append(SubSeq(s, 1, Len(s) - 2), x) # <<>>
    <3> DEFINE t == SubSeq(s, 1, Len(s) - 2)
    <3>1. t \in Seq(T)
      BY <2>1
    <3> HIDE DEF t
    <3>2. Append(t, x) \in Seq(T) /\ Len(Append(t, x)) = Len(t) + 1 /\ Len(t) \in Nat
      BY <3>1
    <3>3. Append(t, x) \in Seq(T) /\ Append(t, x) # <<>>
      BY <3>2
    <3> QED
      BY <3>3 DEF t
  <2> QED
    BY <1>1, <1>2, <1>5, <2>1
<1> QED
  BY <1>1, <1>6, OtherKeeps DEF IInv, TypeInv

LEMMA EndBlockKeeps == ASSUME IInv, endBlock PROVE IInv'
<1> DEFINE n    == Len(stack)
           done == [Top EXCEPT !.bb = Null, !.next = 0, !.changes = {}]
           passed(fr) == [fr EXCEPT !.changes = @ \cup process_extern_changes(Top)]
<1>1. /\ Top.bb # Null
      /\ phis' = [cb \in DOMAIN phis |-> phis[cb] \cup place_phis(Top, cb[1], cb[2])]
      /\ worklist' = IF Top.changes = {} THEN worklist
                                         ELSE worklist \cup add_reachable_blocks(Top.bb)
      /\ stack' = [i \in 1..n |-> IF i = n THEN done
                                  ELSE IF i = n - 1 THEN passed(stack[i]) ELSE stack[i]]
      /\ UNCHANGED <<fn, info, flowSensitive, defs, points_to, current>>
  BY DEF endBlock
<1>2. /\ fn \in Programs /\ stack \in Seq(Frames(fn)) /\ stack # <<>> /\ Top \in Frames(fn)
      /\ worklist \subseteq DOMAIN fn.proc
      /\ phis \in [{<<l[1], l[2]>> : l \in ProgramLocations(fn)} -> SUBSET MemBlock]
  BY StackFacts DEF IInv, TypeInv
<1>3. Top.changes \subseteq MemBlock /\ Top.bb \in DOMAIN fn.proc
  BY <1>1, <1>2 DEF Frames
<1>4. phis' \in [{<<l[1], l[2]>> : l \in ProgramLocations(fn)} -> SUBSET MemBlock]
  <2>1. \A cb : place_phis(Top, cb[1], cb[2]) \subseteq MemBlock
    BY <1>3 DEF place_phis
  <2> QED
    BY <1>1, <1>2, <2>1
<1>5. worklist' \subseteq DOMAIN fn.proc
  <2> DEFINE D == DOMAIN fn.proc
             R == ReachFrom(fn, fn.succ[Top.bb], {})
  <2>1. fn.succ[Top.bb] \subseteq D
    BY <1>2, <1>3, ProgramsAssumption
  <2>2. R \subseteq D
    BY <1>2, <2>1, ReachFacts
  <2> HIDE DEF R
  <2> QED
    BY <1>1, <1>2, <2>2 DEF add_reachable_blocks, R
<1>6. done \in Frames(fn) /\ \A fr \in Frames(fn) : passed(fr) \in Frames(fn)
  <2>1. process_extern_changes(Top) \subseteq MemBlock
    BY <1>3 DEF process_extern_changes
  <2> QED
    BY <1>2, <2>1 DEF Frames
<1> HIDE DEF done, passed
<1>7. stack' \in Seq(Frames(fn)) /\ stack' # <<>>
  <2>1. n \in Nat \ {0} /\ \A i \in 1..n : stack[i] \in Frames(fn)
    BY <1>2
  <2>2. stack' \in [1..n -> Frames(fn)]
    BY <1>1, <1>6, <2>1
  <2>3. ASSUME NEW T, NEW k \in Nat \ {0}, NEW s \in [1..k -> T] PROVE s \in Seq(T) /\ s # <<>>
    <3>1. s \in Seq(T) /\ Len(s) = k
      OBVIOUS
    <3> QED
      BY <3>1
  <2> QED
    BY <2>1, <2>2, <2>3
<1> QED
  BY <1>1, <1>4, <1>5, <1>7, OtherKeeps DEF IInv, TypeInv

LEMMA StutterKeeps == ASSUME IInv, UNCHANGED vars PROVE IInv'
BY OtherKeeps DEF vars, IInv, TypeInv

LEMMA NextKeeps == ASSUME IInv, [Next]_vars PROVE IInv'
BY ShiftKeeps, StoreKeeps, SkipKeeps, CallKeeps, ExternKeeps, EndBlockKeeps, StutterKeeps DEF Next

\* In every program the analysis keeps the invariant, whatever the stores, the
\* calls and the branches are.
THEOREM AlwaysInvariant == Spec => []IInv
<1>1. Init => IInv
  BY InitIInv
<1>2. IInv /\ [Next]_vars => IInv'
  BY NextKeeps
<1> QED
  BY <1>1, <1>2, PTL DEF Spec

\* The frames, the merge points, the definitions and the sets they point to
\* stay of their types: a context that a call makes is one of the program's,
\* and a definition stands at a merge or at a store.
THEOREM TypeCorrect == Spec => []TypeInv
<1>1. IInv => TypeInv
  BY DEF IInv
<1> QED
  BY <1>1, AlwaysInvariant, PTL

-----------------------------------------------------------------------------
(* Definitions out of order.                                               *)

\* A definition does not come before itself.
LEMMA NoneBeforeItself ==
  ASSUME NEW f \in Programs, NEW l \in DefLocations(f), NEW dom_tree
  PROVE  ~ComesBefore(f, l, l, dom_tree)
<1>1. CASE l = Global
  BY <1>1 DEF ComesBefore
<1>2. CASE l # Global
  <2> DEFINE P == Path(l)
  <2>1. Len(P) \in Nat /\ Len(P) \in 1..Len(P)
    <3>1. Len(P) = Len(l[1]) + 1 /\ Len(l[1]) \in Nat
      BY <1>2, WayFacts
    <3> QED
      BY <3>1
  <2>2. find_common_ancestor(P, P) = Len(P)
    <3> DEFINE parted == {k \in 1..Min({Len(P), Len(P)}) : P[k] # P[k]} \cup {Len(P), Len(P)}
    <3>1. parted = {Len(P)}
      OBVIOUS
    <3>2. Min({Len(P)}) = Len(P)
      BY <2>1 DEF Min
    <3>3. find_common_ancestor(P, P) = Min(parted)
      BY DEF find_common_ancestor
    <3> HIDE DEF parted
    <3> QED
      BY <3>1, <3>2, <3>3
  <2>3. P[Len(P)] \in (DOMAIN f.proc) \X Nat
    BY <1>2, <2>1, StepFacts
  <2>4. ~(P[Len(P)][2] < P[Len(P)][2]) /\ ~(Len(P) < Len(P))
    BY <2>1, <2>3
  <2> QED
    BY <1>2, <2>2, <2>4 DEF ComesBefore
<1> QED
  BY <1>1, <1>2

\* What comes before a definition dominates it.
LEMMA ComesBeforeDominates ==
  ASSUME NEW f \in Programs, NEW l \in DefLocations(f), NEW m \in DefLocations(f),
         ComesBefore(f, l, m, DomTree(f))
  PROVE  StrictlyDominates(l, m, DomTree(f))
<1>1. l # m /\ m # Global
  BY NoneBeforeItself DEF ComesBefore
<1>2. CASE l = Global
  BY <1>1, <1>2 DEF StrictlyDominates
<1>3. CASE l # Global
  <2> DEFINE P == Path(l)
             Q == Path(m)
  <2>1. PICK k : Parts(P, Q, k) /\ find_common_ancestor(P, Q) = k
    BY <1>1, <1>3, WaysPart
  <2> HIDE DEF P, Q
  <2>2. P[k] \in (DOMAIN f.proc) \X Nat /\ Q[k] \in (DOMAIN f.proc) \X Nat /\ P[k] # Q[k]
    BY <1>1, <1>3, <2>1, StepFacts DEF Parts, P, Q
  <2>3. IF P[k][1] = Q[k][1]
          THEN P[k][2] < Q[k][2] \/ (P[k][2] = Q[k][2] /\ Len(P) < Len(Q))
          ELSE <<P[k][1], Q[k][1]>> \in DomTree(f)
    BY <1>1, <1>3, <2>1 DEF ComesBefore, P, Q
  <2>4. \A b \in DOMAIN f.proc : <<b, b>> \in DomTree(f)
    BY DominanceIsOrder DEF DomTree
  <2>5. P[k][1] = Q[k][1] => P[k][2] < Q[k][2]
    BY <2>2, <2>3
  <2>6. StepDominates(f, P[k], Q[k])
    BY <2>2, <2>3, <2>4, <2>5 DEF StepDominates
  <2> QED
    BY <1>1, <1>3, <2>1, <2>6, DominanceWhereWaysPart DEF P, Q
<1> QED
  BY <1>2, <1>3

\* What is in the block of a merge does not come before it.
LEMMA NoneBeforeItsMerge ==
  ASSUME NEW f \in Programs, NEW w, IsMergeOf(f, w), NEW l \in DefLocations(f), l # Global,
         Within(l, w)
  PROVE  ~ComesBefore(f, l, w, DomTree(f))
<1>1. w \in DefLocations(f) /\ w # Global /\ w[3] = 0
  BY DEF IsMergeOf
<1>2. CASE l = w
  BY <1>2, NoneBeforeItself
<1>3. CASE l # w
  <2> DEFINE P == Path(l)
             Q == Path(w)
             n == Len(w[1])
  <2>1. PICK k : Parts(P, Q, k) /\ find_common_ancestor(P, Q) = k
    BY <1>1, <1>3, WaysPart
  <2>2. /\ \A j \in 1..n : P[j] = Q[j]
        /\ P[n + 1][1] = w[2]
    BY <1>1, WithinFacts
  <2>3. n \in Nat /\ Len(Q) = n + 1 /\ Q[n + 1] = <<w[2], w[3]>>
    BY <1>1, WayFacts
  <2> HIDE DEF P, Q, n
  <2>4. k = n + 1
    BY <2>1, <2>2, <2>3 DEF Parts
  <2>5. P[k] \in (DOMAIN f.proc) \X Nat
    BY <1>1, <2>1, StepFacts DEF Parts, P, Q
  <2>6. P[k][1] = Q[k][1] /\ Q[k][2] = 0 /\ P[k] # Q[k]
    BY <1>1, <2>1, <2>2, <2>3, <2>4 DEF Parts
  <2>7. ~(P[k][2] < Q[k][2]) /\ P[k][2] # Q[k][2]
    BY <1>1, <2>3, <2>4, <2>5, <2>6
  <2> QED
    BY <1>1, <2>1, <2>6, <2>7 DEF ComesBefore, P, Q
<1> QED
  BY <1>2, <1>3

\* In every program, whatever its calls and branches and however often the
\* blocks are analysed again: a definition precedes in its list one that it
\* comes before only where a merge of the block that both are in was put in
\* front of the latter (Location.cpp:61, Defs.cpp:85-91).
THEOREM AlwaysDisorderOnlyByMerge == Spec => []DisorderOnlyByMerge
<1>1. IInv => DisorderOnlyByMerge
  <2> SUFFICES ASSUME IInv, NEW m \in MemBlock,
                      NEW i \in DOMAIN defs[m], NEW j \in DOMAIN defs[m],
                      i < j, Precedes(defs[m][i], defs[m][j])
               PROVE  \E k \in 1..j - 1 :
                        LET l == defs[m][k] IN
                          /\ l # Global /\ l[3] = 0
                          /\ Inside(defs[m][i], l[1], l[2]) /\ Inside(defs[m][j], l[1], l[2])
    BY DEF DisorderOnlyByMerge
  <2>1. /\ fn \in Programs /\ defs[m] \in Seq(DefLocations(fn))
        /\ info.dom_tree = DomTree(fn) /\ Excused(defs[m], DomTree(fn))
    BY DEF IInv, TypeInv, InfoInv
  <2>2. ComesBefore(fn, defs[m][i], defs[m][j], DomTree(fn))
    BY <2>1 DEF Precedes
  <2> DEFINE list == defs[m]
  <2> HIDE DEF list
  <2>3. /\ i \in Nat /\ j \in Nat /\ j <= Len(list) /\ Len(list) \in Nat
        /\ \A k \in 1..Len(list) : list[k] \in DefLocations(fn)
        /\ i \in 1..Len(list) /\ j \in 1..Len(list)
    BY <2>1 DEF list
  <2>4. StrictlyDominates(list[i], list[j], DomTree(fn))
    BY <2>1, <2>2, <2>3, ComesBeforeDominates DEF list
  <2>5. PICK k \in 1..j : /\ list[k] # Global /\ list[k][3] = 0
                          /\ Inside(list[i], list[k][1], list[k][2])
                          /\ Inside(list[j], list[k][1], list[k][2])
    BY <2>1, <2>4 DEF Excused, list
  <2>6. k # j
    <3> SUFFICES ASSUME k = j PROVE FALSE
      OBVIOUS
    <3>1. IsMergeOf(fn, list[j]) /\ Within(list[i], list[j]) /\ list[i] # Global
      BY <2>3, <2>5 DEF IsMergeOf, Within, Inside
    <3> QED
      BY <2>1, <2>2, <2>3, <3>1, NoneBeforeItsMerge DEF list
  <2>7. k \in 1..j - 1
    BY <2>3, <2>6
  <2> QED
    BY <2>5, <2>7 DEF list
<1> QED
  BY <1>1, AlwaysInvariant, PTL
-----------------------------------------------------------------------------
(* The executions are the least set that has the start and what follows.   *)

\* C closes sets of A under next.
IsClosure(C, A, next_of) ==
  C = [S \in SUBSET A |-> LET T == S \cup UNION {next_of[e] : e \in S}
                          IN  IF T = S THEN S ELSE C[T]]

Least(A, next_of, S) ==
  {e \in A : \A T \in SUBSET A : S \subseteq T /\ (\A x \in T : next_of[x] \subseteq T) => e \in T}

\* The least closed set is one that a step leads to or leaves alone.
LEMMA LeastFacts ==
  ASSUME NEW A, NEW next_of \in [A -> SUBSET A], NEW S \in SUBSET A
  PROVE  LET T == S \cup UNION {next_of[e] : e \in S}
         IN  /\ T \in SUBSET A
             /\ Least(A, next_of, S) = IF T = S THEN S ELSE Least(A, next_of, T)
<1> DEFINE T == S \cup UNION {next_of[e] : e \in S}
<1>1. T \in SUBSET A
  OBVIOUS
<1>2. ASSUME NEW U \in SUBSET A, \A x \in U : next_of[x] \subseteq U
      PROVE  S \subseteq U <=> T \subseteq U
  BY <1>2
<1>3. Least(A, next_of, S) = Least(A, next_of, T)
  <2> HIDE DEF T
  <2> QED
    BY <1>2 DEF Least
<1>4. T = S => Least(A, next_of, S) = S
  <2> SUFFICES ASSUME T = S PROVE Least(A, next_of, S) = S
    OBVIOUS
  <2>1. \A x \in S : next_of[x] \subseteq S
    OBVIOUS
  <2> QED
    BY <2>1 DEF Least
<1> QED
  BY <1>1, <1>3, <1>4

LEMMA ClosureExists ==
  ASSUME NEW A, NEW next_of \in [A -> SUBSET A]
  PROVE  \E C : IsClosure(C, A, next_of)
<1> DEFINE C == [S \in SUBSET A |-> Least(A, next_of, S)]
           grown(S) == S \cup UNION {next_of[e] : e \in S}
           put(S) == IF grown(S) = S THEN S ELSE C[grown(S)]
<1>1. ASSUME NEW S \in SUBSET A PROVE C[S] = put(S)
  <2>1. grown(S) \in SUBSET A
    OBVIOUS
  <2>2. Least(A, next_of, S) = IF grown(S) = S THEN S ELSE Least(A, next_of, grown(S))
    BY LeastFacts
  <2> HIDE DEF grown
  <2> QED
    BY <2>1, <2>2
<1>2. C = [S \in SUBSET A |-> C[S]]
  OBVIOUS
<1>3. [S \in SUBSET A |-> C[S]] = [S \in SUBSET A |-> put(S)]
  <2> HIDE DEF C, put
  <2> QED
    BY <1>1
<1>4. C = [S \in SUBSET A |-> put(S)]
  BY <1>2, <1>3
<1> QED
  BY <1>4 DEF IsClosure

\* On a finite set the recursion ends, at the least closed set.
LEMMA ClosureIsLeast ==
  ASSUME NEW A, IsFiniteSet(A), NEW next_of \in [A -> SUBSET A],
         NEW C, IsClosure(C, A, next_of), NEW S \in SUBSET A
  PROVE  C[S] = Least(A, next_of, S)
<1> DEFINE grown(U) == U \cup UNION {next_of[e] : e \in U}
           Bad == {A \ U : U \in {V \in SUBSET A : C[V] # Least(A, next_of, V)}}
<1>1. ASSUME NEW U \in SUBSET A PROVE C[U] = IF grown(U) = U THEN U ELSE C[grown(U)]
  BY DEF IsClosure
<1>2. ASSUME NEW U \in SUBSET A
      PROVE  /\ grown(U) \in SUBSET A /\ U \subseteq grown(U)
             /\ Least(A, next_of, U) = IF grown(U) = U THEN U ELSE Least(A, next_of, grown(U))
  BY LeastFacts
<1> HIDE DEF grown
<1>3. Bad = {}
  <2> SUFFICES ASSUME Bad # {} PROVE FALSE
    OBVIOUS
  <2>1. Bad \subseteq FiniteSubsetsOf(A)
    BY FS_Subset DEF FiniteSubsetsOf
  <2>2. PICK W \in Bad : \A V \in Bad : <<V, W>> \notin StrictSubsetOrdering(A)
    <3> HIDE DEF Bad
    <3> QED
      BY <2>1, FS_StrictSubsetOrderingWellFounded, WFMin
  <2>3. PICK U \in SUBSET A : W = A \ U /\ C[U] # Least(A, next_of, U)
    OBVIOUS
  <2>4. grown(U) # U /\ C[grown(U)] # Least(A, next_of, grown(U))
    BY <1>1, <1>2, <2>3
  <2>5. A \ grown(U) \in Bad
    BY <1>2, <2>4
  <2>6. <<A \ grown(U), W>> \in StrictSubsetOrdering(A)
    <3>1. A \ grown(U) \subseteq W /\ A \ grown(U) # W
      BY <1>2, <2>3, <2>4
    <3> QED
      BY <2>3, <3>1 DEF StrictSubsetOrdering
  <2> QED
    BY <2>2, <2>5, <2>6
<1>4. A \ S \notin Bad
  BY <1>3
<1> QED
  BY <1>4

\* What is in the least closed set was there at first or follows something in it.
LEMMA LeastFollows ==
  ASSUME NEW A, NEW next_of \in [A -> SUBSET A], NEW S \in SUBSET A,
         NEW e \in Least(A, next_of, S)
  PROVE  e \in S \/ \E d \in Least(A, next_of, S) : e \in next_of[d]
<1> DEFINE L == Least(A, next_of, S)
           T == S \cup UNION {next_of[d] : d \in L}
<1>1. L \subseteq A /\ S \subseteq L
  BY DEF Least
<1>2. \A x \in L : next_of[x] \subseteq L
  <2> SUFFICES ASSUME NEW x \in L, NEW y \in next_of[x],
                      NEW U \in SUBSET A, S \subseteq U, \A z \in U : next_of[z] \subseteq U
               PROVE  y \in U
    BY <1>1 DEF Least
  <2>1. x \in U
    BY DEF Least
  <2> QED
    BY <2>1
<1>3. T \subseteq L
  BY <1>1, <1>2
<1>4. \A x \in T : next_of[x] \subseteq T
  BY <1>3
<1>5. T \in SUBSET A /\ S \subseteq T
  BY <1>1, <1>3
<1> HIDE DEF T
<1>6. e \in T
  BY <1>4, <1>5 DEF Least
<1> QED
  BY <1>6 DEF T

\* Where an execution starts, and where it may be with which values.
Start(f) == <<<<<<>>, f.entry[f.main], 1>>, [m \in MemBlock |-> Unset]>>

States(f) ==
  {l \in ProgramLocations(f) : l[3] # 0} \X [MemBlock -> MemBlock \cup {Unset}]

\* The way to a context: calls that are not recursive, each in a procedure that
\* is none of those called after it.
LEMMA ContextFacts ==
  ASSUME NEW f \in Programs, NEW ctx \in Contexts(f)
  PROVE  /\ ctx \in Seq(CallSites(f)) /\ Len(ctx) \in Nat
         /\ \A k \in 1..Len(ctx) :
              /\ SubSeq(ctx, 1, k - 1) \in Contexts(f)
              /\ ctx[k] \in CallsIn(f, SubSeq(ctx, 1, k - 1))
              /\ ProcOf(f, SubSeq(ctx, 1, k - 1)) # ProcOf(f, ctx)
              /\ ProcOf(f, SubSeq(ctx, 1, k - 1)) \in Visited(f, ProcOf(f, ctx))
<1> DEFINE Good(c) ==
             \A k \in 1..Len(c) :
               /\ SubSeq(c, 1, k - 1) \in Contexts(f)
               /\ c[k] \in CallsIn(f, SubSeq(c, 1, k - 1))
               /\ ProcOf(f, SubSeq(c, 1, k - 1)) # ProcOf(f, c)
               /\ ProcOf(f, SubSeq(c, 1, k - 1)) \in Visited(f, ProcOf(f, c))
           T == {c \in Contexts(f) : Good(c)}
<1>1. <<>> \in T
  BY ContextsAreClosed
<1>2. ASSUME NEW c \in T, NEW s \in CallsIn(f, c) PROVE Append(c, s) \in T
  <2> DEFINE d == Append(c, s)
             n == Len(c)
  <2>1. /\ c \in Contexts(f) /\ c \in Seq(CallSites(f)) /\ ProcOf(f, c) \in Procedures(f)
        /\ d \in Contexts(f) /\ s \in CallSites(f)
    BY <1>2, ContextsAreClosed DEF CallsIn
  <2>2. /\ ProcOf(f, d) = Callee(f, s) /\ Callee(f, s) \notin Visited(f, ProcOf(f, c))
        /\ Visited(f, ProcOf(f, c)) \subseteq Visited(f, ProcOf(f, d))
    BY <1>2, <2>1, CallsClimb
  <2>3. n \in Nat /\ Len(d) = n + 1 /\ d[n + 1] = s /\ SubSeq(d, 1, n) = c
    BY <2>1
  <2>4. ASSUME NEW k \in 1..n
        PROVE  d[k] = c[k] /\ SubSeq(d, 1, k - 1) = SubSeq(c, 1, k - 1)
    BY <2>1, <2>4
  <2>5. ProcOf(f, c) \in Visited(f, ProcOf(f, c))
    BY DEF Visited
  <2> HIDE DEF d, n
  <2>6. ASSUME NEW k \in 1..Len(d)
        PROVE  /\ SubSeq(d, 1, k - 1) \in Contexts(f)
               /\ d[k] \in CallsIn(f, SubSeq(d, 1, k - 1))
               /\ ProcOf(f, SubSeq(d, 1, k - 1)) # ProcOf(f, d)
               /\ ProcOf(f, SubSeq(d, 1, k - 1)) \in Visited(f, ProcOf(f, d))
    <3>1. CASE k = n + 1
      <4>1. SubSeq(d, 1, k - 1) = c /\ d[k] = s
        BY <2>3, <3>1
      <4> QED
        BY <1>2, <2>1, <2>2, <2>5, <4>1
    <3>2. CASE k # n + 1
      <4>1. k \in 1..n
        BY <2>3, <3>2
      <4>2. d[k] = c[k] /\ SubSeq(d, 1, k - 1) = SubSeq(c, 1, k - 1)
        BY <2>4, <4>1
      <4>3. /\ SubSeq(c, 1, k - 1) \in Contexts(f)
            /\ c[k] \in CallsIn(f, SubSeq(c, 1, k - 1))
            /\ ProcOf(f, SubSeq(c, 1, k - 1)) \in Visited(f, ProcOf(f, c))
        BY <1>2, <4>1 DEF n
      <4> QED
        BY <2>2, <4>2, <4>3
    <3> QED
      BY <3>1, <3>2
  <2> QED
    BY <2>1, <2>6 DEF d
<1>3. T = Contexts(f)
  <2> HIDE DEF Good
  <2>1. T \in SUBSET Contexts(f)
    OBVIOUS
  <2> HIDE DEF T
  <2> QED
    BY <1>1, <1>2, <2>1, ContextsAreClosed
<1>4. ctx \in Seq(CallSites(f)) /\ Len(ctx) \in Nat
  BY ContextsAreClosed
<1> QED
  BY <1>3, <1>4

\* A call statement is a call site of the procedure it names.
LEMMA CallSiteFacts ==
  ASSUME NEW f \in Programs, NEW b \in DOMAIN f.proc, NEW i \in DOMAIN f.code[b],
         f.code[b][i].kind = "call"
  PROVE  <<b, i>> \in CallSites(f) /\ Callee(f, <<b, i>>) = f.code[b][i].dst
<1>1. <<b, i>> \in {<<b, j>> : j \in {k \in DOMAIN f.code[b] : f.code[b][k].kind = "call"}}
  OBVIOUS
<1> QED
  BY <1>1 DEF CallSites, Callee

\* A context stands for a call of the procedure that its last call names.
LEMMA CalledIn ==
  ASSUME NEW f \in Programs, NEW ctx \in Seq(CallSites(f)), NEW c \in CallSites(f)
  PROVE  ProcOf(f, Append(ctx, c)) = Callee(f, c)
<1>1. Append(ctx, c) # <<>> /\ Append(ctx, c)[Len(Append(ctx, c))] = c
  OBVIOUS
<1> QED
  BY <1>1 DEF ProcOf, Last

\* A call in hand may be the last of a context.
LEMMA ReturnFacts ==
  ASSUME NEW f \in Programs, NEW ctx \in Contexts(f), ctx # <<>>
  PROVE  /\ Front(ctx) \in Contexts(f) /\ Last(ctx) \in CallsIn(f, Front(ctx))
         /\ ctx = Append(Front(ctx), Last(ctx)) /\ Last(ctx) = ctx[Len(ctx)]
         /\ Front(ctx) = SubSeq(ctx, 1, Len(ctx) - 1) /\ Len(ctx) \in Nat \ {0}
         /\ Len(Front(ctx)) = Len(ctx) - 1
<1>1. ctx \in Seq(CallSites(f)) /\ Len(ctx) \in Nat
  BY ContextFacts
<1>2. Len(ctx) \in 1..Len(ctx)
  BY <1>1
<1>3. Front(ctx) = SubSeq(ctx, 1, Len(ctx) - 1) /\ Last(ctx) = ctx[Len(ctx)]
  BY DEF Front, Last
<1>4. ctx = Append(SubSeq(ctx, 1, Len(ctx) - 1), ctx[Len(ctx)])
      /\ Len(SubSeq(ctx, 1, Len(ctx) - 1)) = Len(ctx) - 1
  <2>1. ASSUME NEW T, NEW s \in Seq(T), NEW n \in Nat, Len(s) = n + 1
        PROVE  /\ SubSeq(s, 1, n) \in Seq(T) /\ Len(SubSeq(s, 1, n)) = n /\ s[n + 1] \in T
               /\ \A i \in 1..n + 1 : Append(SubSeq(s, 1, n), s[n + 1])[i] = s[i]
    BY <2>1
  <2>2. ASSUME NEW T, NEW s \in Seq(T), NEW n \in Nat, Len(s) = n + 1
        PROVE  s = Append(SubSeq(s, 1, n), s[n + 1])
    <3> DEFINE t == Append(SubSeq(s, 1, n), s[n + 1])
    <3>1. t \in Seq(T) /\ Len(t) = n + 1
      BY <2>1, <2>2
    <3>2. \A i \in 1..n + 1 : t[i] = s[i]
      BY <2>1, <2>2
    <3> HIDE DEF t
    <3>3. s = t
      BY <2>2, <3>1, <3>2
    <3> QED
      BY <3>3 DEF t
  <2>3. Len(ctx) - 1 \in Nat /\ Len(ctx) = (Len(ctx) - 1) + 1
    BY <1>2
  <2> QED
    BY <1>1, <2>1, <2>2, <2>3
<1>5. /\ SubSeq(ctx, 1, Len(ctx) - 1) \in Contexts(f)
      /\ ctx[Len(ctx)] \in CallsIn(f, SubSeq(ctx, 1, Len(ctx) - 1))
  BY <1>2, ContextFacts
<1>6. Len(ctx) \in Nat \ {0}
  BY <1>1, <1>2
<1> QED
  BY <1>3, <1>4, <1>5, <1>6

\* A place of an execution is at a statement or at the end of a block.
LEMMA PlaceFacts ==
  ASSUME NEW f \in Programs, NEW l \in ProgramLocations(f), l[3] # 0
  PROVE  /\ l = <<l[1], l[2], l[3]>> /\ l[1] \in Contexts(f)
         /\ l[2] \in BlocksOf(f, ProcOf(f, l[1])) /\ l[2] \in DOMAIN f.proc /\ l[2] # Null
         /\ Len(f.code[l[2]]) \in Nat /\ DOMAIN f.code[l[2]] = 1..Len(f.code[l[2]])
         /\ l[3] \in 1..Len(f.code[l[2]]) + 1
<1> DEFINE blocks == UNION {{ctx} \X BlocksOf(f, ProcOf(f, ctx)) : ctx \in Contexts(f)}
           at(cb) == {<<cb[1], cb[2], i>> : i \in 0..Len(f.code[cb[2]]) + 1}
<1>1. ProgramLocations(f) = {Global} \cup UNION {at(cb) : cb \in blocks}
  BY DEF ProgramLocations
<1>2. l # Global
  BY DEF Global
<1>3. PICK cb \in blocks : l \in at(cb)
  <2> HIDE DEF blocks, at
  <2> QED
    BY <1>1, <1>2
<1>4. PICK ctx \in Contexts(f) : cb \in {ctx} \X BlocksOf(f, ProcOf(f, ctx))
  OBVIOUS
<1>5. PICK i \in 0..Len(f.code[cb[2]]) + 1 : l = <<cb[1], cb[2], i>>
  BY <1>3
<1>6. /\ l = <<l[1], l[2], l[3]>> /\ l[1] = ctx /\ l[2] = cb[2] /\ l[3] = i
      /\ l[2] \in BlocksOf(f, ProcOf(f, ctx))
  BY <1>4, <1>5
<1>7. l[2] \in DOMAIN f.proc
  BY <1>6 DEF BlocksOf
<1>8. l[2] # Null /\ f.code[l[2]] \in Seq(ToSet(f.code[l[2]]))
  BY <1>7, ProgramsAssumption
<1>9. Len(f.code[l[2]]) \in Nat /\ DOMAIN f.code[l[2]] = 1..Len(f.code[l[2]])
  BY <1>8
<1>10. l[3] \in 0..Len(f.code[l[2]]) + 1
  BY <1>6
<1>11. l[3] \in 1..Len(f.code[l[2]]) + 1
  <2> HIDE <1>3, <1>5, <1>6
  <2> QED
    BY <1>9, <1>10
<1> QED
  BY <1>6, <1>7, <1>8, <1>9, <1>11

\* A program has finitely many states.
LEMMA StatesFinite ==
  ASSUME NEW f \in Programs PROVE IsFiniteSet(States(f))
<1> DEFINE P == {l \in ProgramLocations(f) : l[3] # 0}
           V == [MemBlock -> MemBlock \cup {Unset}]
<1>1. IsFiniteSet(P)
  <2> DEFINE D == DOMAIN f.proc
             B == Contexts(f) \X D
             at(cb) == {cb[1]} \X ({cb[2]} \X (1..Len(f.code[cb[2]]) + 1))
             h == [cb \in B |-> at(cb)]
             T == {at(cb) : cb \in B}
             g == [l \in P |-> <<l[1], <<l[2], l[3]>>>>]
             U == UNION T
  <2>1. IsFiniteSet(B)
    <3>1. IsFiniteSet(D) /\ IsFiniteSet(Contexts(f))
      BY ProgramsAssumption, ContextsAreClosed
    <3> QED
      BY <3>1, FS_Product
  <2>2. ASSUME NEW cb \in B PROVE IsFiniteSet(at(cb))
    <3>1. f.code[cb[2]] \in Seq(ToSet(f.code[cb[2]]))
      BY ProgramsAssumption
    <3>2. 1 \in Int /\ Len(f.code[cb[2]]) + 1 \in Int
      BY <3>1
    <3>3. IsFiniteSet(1..Len(f.code[cb[2]]) + 1)
      BY <3>2, FS_Interval
    <3> QED
      BY <3>3, FS_Singleton, FS_Product
  <2>3. h \in [B -> T] /\ \A cb \in B : h[cb] = at(cb)
    <3> HIDE DEF at, B
    <3> QED
      OBVIOUS
  <2>4. IsFiniteSet(U)
    <3>1. \A x \in U : \E cb \in B : x \in h[cb]
      <4> HIDE DEF at, B, h
      <4> QED
        BY <2>3
    <3>2. \A cb \in B : IsFiniteSet(h[cb])
      BY <2>2, <2>3
    <3> HIDE DEF B, h, T, U
    <3> QED
      BY <2>1, <2>3, <3>1, <3>2, UnionFinite
  <2>5. ASSUME NEW l \in P
        PROVE  /\ <<l[1], <<l[2], l[3]>>>> \in U
               /\ l = <<l[1], l[2], l[3]>>
    <3>1. /\ l = <<l[1], l[2], l[3]>> /\ l[1] \in Contexts(f)
          /\ l[2] \in D /\ l[3] \in 1..Len(f.code[l[2]]) + 1
      BY PlaceFacts
    <3>2. <<l[1], l[2]>> \in B /\ <<l[1], <<l[2], l[3]>>>> \in at(<<l[1], l[2]>>)
      BY <3>1
    <3> HIDE DEF at, B
    <3> QED
      BY <3>1, <3>2
  <2>6. g \in Injection(P, U)
    <3>1. g \in [P -> U]
      <4> HIDE DEF P, U
      <4> QED
        BY <2>5
    <3>2. ASSUME NEW l \in P, NEW m \in P, g[l] = g[m] PROVE l = m
      <4>1. l = <<l[1], l[2], l[3]>> /\ m = <<m[1], m[2], m[3]>>
        BY <2>5
      <4>2. <<l[1], <<l[2], l[3]>>>> = <<m[1], <<m[2], m[3]>>>>
        BY <3>2
      <4>3. l[1] = m[1] /\ l[2] = m[2] /\ l[3] = m[3]
        BY <4>2
      <4> QED
        BY <4>1, <4>3
    <3> HIDE DEF g
    <3> QED
      BY <3>1, <3>2 DEF Injection, IsInjective
  <2> HIDE DEF P, U, g
  <2> QED
    BY <2>4, <2>6, FS_Injection
<1>2. IsFiniteSet(V)
  <2> DEFINE N == MemBlock \cup {Unset}
             pairs(v) == {<<m, v[m]>> : m \in MemBlock}
             g == [v \in V |-> pairs(v)]
             T == SUBSET (MemBlock \X N)
  <2>1. IsFiniteSet(MemBlock) /\ IsFiniteSet(N)
    BY MemBlockAssumption, FS_AddElement
  <2>2. IsFiniteSet(T)
    <3> HIDE DEF N
    <3> QED
      BY <2>1, FS_Product, FS_SUBSET
  <2>3. \A v \in V : pairs(v) \in T
    OBVIOUS
  <2>4. ASSUME NEW v \in V, NEW w \in V, pairs(v) = pairs(w) PROVE v = w
    <3>1. ASSUME NEW m \in MemBlock PROVE v[m] = w[m]
      <4>1. <<m, v[m]>> \in pairs(w)
        BY <2>4
      <4> QED
        BY <4>1
    <3> QED
      BY <3>1
  <2>5. g \in Injection(V, T)
    <3> HIDE DEF pairs, V, T
    <3> QED
      BY <2>3, <2>4 DEF Injection, IsInjective
  <2> HIDE DEF V, T, g
  <2> QED
    BY <2>2, <2>5, FS_Injection
<1> HIDE DEF P, V
<1>3. IsFiniteSet(P \X V)
  BY <1>1, <1>2, FS_Product
<1> QED
  BY <1>3 DEF States, P, V

\* How an execution goes on from d to e: behind a store, into a call, from a
\* block to the next, and behind the call that the procedure was called by.
Stored(f, d, e) ==
  /\ d[1][3] \in DOMAIN f.code[d[1][2]] /\ f.code[d[1][2]][d[1][3]].kind # "call"
  /\ e[1] = <<d[1][1], d[1][2], d[1][3] + 1>>
  /\ e[2] \in Executed(d[2], f.code[d[1][2]][d[1][3]])

Entered(f, d, e) ==
  LET ctx == Append(d[1][1], <<d[1][2], d[1][3]>>)
  IN  /\ d[1][3] \in DOMAIN f.code[d[1][2]] /\ f.code[d[1][2]][d[1][3]].kind = "call"
      /\ ctx \in Contexts(f)
      /\ e[1] = <<ctx, f.entry[f.code[d[1][2]][d[1][3]].dst], 1>> /\ e[2] = d[2]

Followed(f, d, e) ==
  /\ d[1][3] = Len(f.code[d[1][2]]) + 1
  /\ \E b \in f.succ[d[1][2]] : e[1] = <<d[1][1], b, 1>>
  /\ e[2] = d[2]

Returned(f, d, e) ==
  LET ctx == d[1][1]
  IN  /\ d[1][3] = Len(f.code[d[1][2]]) + 1 /\ ctx # <<>>
      /\ e[1] = <<Front(ctx), Last(ctx)[1], Last(ctx)[2] + 1>> /\ e[2] = d[2]

LEMMA RunFacts ==
  ASSUME NEW f \in Programs, NEW d \in States(f), NEW e \in Run(f, d)
  PROVE  /\ e = <<e[1], e[2]>>
         /\ Stored(f, d, e) \/ Entered(f, d, e) \/ Followed(f, d, e) \/ Returned(f, d, e)
<1> DEFINE ctx == d[1][1]
           b == d[1][2]
           i == d[1][3]
           s == f.code[b][i]
           next(c, x, j) == {<<<<c, x, j>>, d[2]>>}
<1>1. /\ DOMAIN f.code[b] = 1..Len(f.code[b]) /\ Len(f.code[b]) \in Nat
      /\ i \in 1..Len(f.code[b]) + 1
  <2>1. d[1] \in ProgramLocations(f) /\ d[1][3] # 0
    BY DEF States
  <2> QED
    BY <2>1, PlaceFacts
<1>2. CASE i =< Len(f.code[b])
  <2>1. i \in DOMAIN f.code[b]
    BY <1>1, <1>2
  <2>2. CASE s.kind # "call"
    <3>1. PICK v \in Executed(d[2], s) : e = <<<<ctx, b, i + 1>>, v>>
      BY <1>2, <2>2 DEF Run
    <3> QED
      BY <2>1, <2>2, <3>1 DEF Stored
  <2>3. CASE s.kind = "call"
    <3>1. /\ Append(ctx, <<b, i>>) \in Contexts(f)
          /\ e = <<<<Append(ctx, <<b, i>>), f.entry[s.dst], 1>>, d[2]>>
      BY <1>2, <2>3 DEF Run
    <3> QED
      BY <2>1, <2>3, <3>1 DEF Entered
  <2> QED
    BY <2>2, <2>3
<1>3. CASE ~(i =< Len(f.code[b]))
  <2>1. i = Len(f.code[b]) + 1
    <3> HIDE DEF b, i
    <3> QED
      BY <1>1, <1>3
  <2>2. \/ e \in UNION {next(ctx, c, 1) : c \in f.succ[b]}
        \/ ctx # <<>> /\ e \in next(Front(ctx), Last(ctx)[1], Last(ctx)[2] + 1)
    BY <1>3 DEF Run
  <2>3. ASSUME NEW c \in f.succ[b], e \in next(ctx, c, 1)
        PROVE  e = <<e[1], e[2]>> /\ Followed(f, d, e)
    BY <2>1, <2>3 DEF Followed
  <2>4. ASSUME ctx # <<>>, e \in next(Front(ctx), Last(ctx)[1], Last(ctx)[2] + 1)
        PROVE  e = <<e[1], e[2]>> /\ Returned(f, d, e)
    BY <2>1, <2>4 DEF Returned
  <2> QED
    BY <2>2, <2>3, <2>4
<1> QED
  BY <1>2, <1>3

\* An execution stays in the states of the program.
LEMMA RunIn ==
  ASSUME NEW f \in Programs, NEW d \in States(f)
  PROVE  Run(f, d) \subseteq States(f)
<1> SUFFICES ASSUME NEW e \in Run(f, d)
             PROVE  /\ e[1] \in ProgramLocations(f) /\ e[1][3] # 0
                    /\ e[2] \in [MemBlock -> MemBlock \cup {Unset}]
  BY RunFacts DEF States
<1> DEFINE ctx == d[1][1]
           b == d[1][2]
           i == d[1][3]
           s == f.code[b][i]
<1>1. /\ d[1] \in ProgramLocations(f) /\ d[1][3] # 0
      /\ d[2] \in [MemBlock -> MemBlock \cup {Unset}]
  BY DEF States
<1>2. /\ ctx \in Contexts(f) /\ b \in BlocksOf(f, ProcOf(f, ctx)) /\ b \in DOMAIN f.proc
      /\ DOMAIN f.code[b] = 1..Len(f.code[b]) /\ Len(f.code[b]) \in Nat
      /\ i \in 1..Len(f.code[b]) + 1
  BY <1>1, PlaceFacts
<1>3. ASSUME NEW c \in Contexts(f), NEW x \in BlocksOf(f, ProcOf(f, c)),
             NEW j \in Nat, j # 0, j =< Len(f.code[x]) + 1, e[1] = <<c, x, j>>
      PROVE  e[1] \in ProgramLocations(f) /\ e[1][3] # 0
  <2>1. x \in DOMAIN f.proc
    BY DEF BlocksOf
  <2>2. f.code[x] \in Seq(ToSet(f.code[x]))
    BY <2>1, ProgramsAssumption
  <2>3. j \in 0..Len(f.code[x]) + 1
    BY <1>3, <2>2
  <2> QED
    BY <1>3, <2>3, LocationIn
<1>4. CASE Stored(f, d, e)
  <2>1. i \in DOMAIN f.code[b] /\ s.kind # "call" /\ e[1] = <<ctx, b, i + 1>> /\ e[2] \in Executed(d[2], s)
    BY <1>4 DEF Stored
  <2>2. /\ s.kind \in {"address", "copy", "through"}
        /\ s.dst \in MemBlock /\ s.src \in MemBlock
    BY <1>2, <2>1, ProgramsAssumption
  <2>3. e[2] \in [MemBlock -> MemBlock \cup {Unset}]
    <3> HIDE DEF s
    <3>1. CASE s.kind = "address"
      BY <1>1, <2>1, <2>2, <3>1 DEF Executed
    <3>2. CASE s.kind = "copy"
      BY <1>1, <2>1, <2>2, <3>2 DEF Executed
    <3>3. CASE s.kind = "through"
      BY <1>1, <2>1, <2>2, <3>3 DEF Executed
    <3> QED
      BY <2>2, <3>1, <3>2, <3>3
  <2> HIDE DEF ctx, b, i, s
  <2>4. i \in 1..Len(f.code[b]) /\ Len(f.code[b]) \in Nat
    BY <1>2, <2>1
  <2>5. i + 1 \in Nat /\ i + 1 # 0 /\ i + 1 =< Len(f.code[b]) + 1
    BY <2>4
  <2> QED
    BY <1>2, <1>3, <2>1, <2>3, <2>5
<1>5. CASE Entered(f, d, e)
  <2> DEFINE c == Append(ctx, <<b, i>>)
             p == s.dst
  <2>1. /\ i \in DOMAIN f.code[b] /\ s.kind = "call" /\ c \in Contexts(f)
        /\ e[1] = <<c, f.entry[p], 1>> /\ e[2] = d[2]
    BY <1>5 DEF Entered
  <2>2. p \in DOMAIN f.entry
    BY <1>2, <2>1, ProgramsAssumption
  <2>3. f.entry[p] \in DOMAIN f.proc /\ f.proc[f.entry[p]] = p
    BY <2>2, ProgramsAssumption
  <2>4. ProcOf(f, c) = p
    <3>1. <<b, i>> \in CallSites(f) /\ Callee(f, <<b, i>>) = p
      BY <1>2, <2>1, CallSiteFacts
    <3>2. ctx \in Seq(CallSites(f))
      BY <1>2, ContextFacts
    <3> HIDE DEF ctx, b, i, s, p
    <3> QED
      BY <3>1, <3>2, CalledIn
  <2>5. f.entry[p] \in BlocksOf(f, ProcOf(f, c))
    BY <2>3, <2>4 DEF BlocksOf
  <2>6. 1 =< Len(f.code[f.entry[p]]) + 1
    <3> DEFINE x == f.entry[p]
    <3>1. x \in DOMAIN f.proc
      BY <2>3
    <3> HIDE DEF x
    <3>2. f.code[x] \in Seq(ToSet(f.code[x]))
      BY <3>1, ProgramsAssumption
    <3>3. 1 =< Len(f.code[x]) + 1
      BY <3>2
    <3> QED
      BY <3>3 DEF x
  <2> HIDE DEF c, p
  <2> QED
    BY <1>1, <1>3, <2>1, <2>5, <2>6
<1>6. CASE Followed(f, d, e)
  <2>1. PICK x \in f.succ[b] : e[1] = <<ctx, x, 1>> /\ e[2] = d[2]
    BY <1>6, ZenonT(60) DEF Followed
  <2>2. x \in BlocksOf(f, ProcOf(f, ctx))
    BY <1>2, BlockFacts DEF BlocksOf
  <2>3. f.code[x] \in Seq(ToSet(f.code[x]))
    BY <2>2, ProgramsAssumption DEF BlocksOf
  <2>4. 1 =< Len(f.code[x]) + 1
    BY <2>3
  <2> QED
    BY <1>1, <1>2, <1>3, <2>1, <2>2, <2>4
<1>7. CASE Returned(f, d, e)
  <2> DEFINE c == Front(ctx)
             x == Last(ctx)[1]
             j == Last(ctx)[2]
  <2>1. ctx # <<>> /\ e[1] = <<c, x, j + 1>> /\ e[2] = d[2]
    BY <1>7 DEF Returned
  <2>2. c \in Contexts(f) /\ Last(ctx) \in CallsIn(f, c)
    BY <1>2, <2>1, ReturnFacts
  <2>3. Last(ctx) \in CallSites(f) /\ x \in BlocksOf(f, ProcOf(f, c)) /\ j \in DOMAIN f.code[x]
    BY <2>2, CallFacts DEF CallsIn, BlocksOf
  <2>4. x \in DOMAIN f.proc
    BY <2>3 DEF BlocksOf
  <2>5. f.code[x] \in Seq(ToSet(f.code[x]))
    BY <2>4, ProgramsAssumption
  <2>6. j + 1 \in Nat /\ j + 1 # 0 /\ j + 1 =< Len(f.code[x]) + 1
    BY <2>3, <2>5
  <2> HIDE DEF c, x, j
  <2> QED
    BY <1>1, <1>3, <2>1, <2>2, <2>3, <2>6
<1> QED
  BY <1>4, <1>5, <1>6, <1>7, RunFacts

\* Where an execution is, with the values there, is the start or follows where
\* it is in an execution.
LEMMA ExecutionsFollow ==
  ASSUME NEW f \in Programs, NEW e \in Executions(f)
  PROVE  /\ e \in States(f)
         /\ e = Start(f) \/ \E d \in Executions(f) : e \in Run(f, d)
<1> DEFINE S == States(f)
           next_of == [d \in S |-> Run(f, d)]
           L == Least(S, next_of, {Start(f)})
           Is(C) == C = [U \in SUBSET S |->
                      LET T == U \cup UNION {Run(f, d) : d \in U}
                      IN  IF T = U THEN U ELSE C[T]]
           C == CHOOSE C : Is(C)
<1>1. next_of \in [S -> SUBSET S]
  BY RunIn
<1>2. \A D : Is(D) <=> IsClosure(D, S, next_of)
  <2> SUFFICES ASSUME NEW D PROVE Is(D) <=> IsClosure(D, S, next_of)
    OBVIOUS
  <2> DEFINE one(U) == LET T == U \cup UNION {Run(f, d) : d \in U}
                       IN  IF T = U THEN U ELSE D[T]
             two(U) == LET T == U \cup UNION {next_of[d] : d \in U}
                       IN  IF T = U THEN U ELSE D[T]
  <2>1. ASSUME NEW U \in SUBSET S PROVE one(U) = two(U)
    <3>1. UNION {Run(f, d) : d \in U} = UNION {next_of[d] : d \in U}
      OBVIOUS
    <3> QED
      BY <3>1
  <2>2. [U \in SUBSET S |-> one(U)] = [U \in SUBSET S |-> two(U)]
    <3> HIDE DEF one, two
    <3> QED
      BY <2>1
  <2> QED
    BY <2>2 DEF IsClosure
<1>3. Is(C)
  <2>1. \E D : Is(D)
    <3> HIDE DEF Is, next_of, S
    <3> QED
      BY <1>1, <1>2, ClosureExists
  <2> HIDE DEF Is
  <2> QED
    BY <2>1
<1>4. Start(f) \in S
  <2>1. /\ <<>> \in Contexts(f) /\ f.main \in DOMAIN f.entry /\ f.entry[f.main] \in DOMAIN f.proc
        /\ f.proc[f.entry[f.main]] = f.main
    BY ContextsAreClosed, ProgramsAssumption
  <2>2. f.entry[f.main] \in BlocksOf(f, ProcOf(f, <<>>))
    BY <2>1 DEF BlocksOf, ProcOf
  <2>3. f.code[f.entry[f.main]] \in Seq(ToSet(f.code[f.entry[f.main]]))
    BY <2>1, ProgramsAssumption
  <2>4. 1 \in 0..Len(f.code[f.entry[f.main]]) + 1
    BY <2>3
  <2>5. <<<<>>, f.entry[f.main], 1>> \in ProgramLocations(f)
    BY <2>1, <2>2, <2>4, LocationIn
  <2> QED
    BY <2>5 DEF Start, States
<1>5. Executions(f) = C[{Start(f)}]
  BY DEF Executions, Start, States
<1>6. C[{Start(f)}] = L
  <2>1. IsFiniteSet(S)
    BY StatesFinite
  <2> HIDE DEF C, Is, next_of, S
  <2> QED
    BY <1>1, <1>2, <1>3, <1>4, <2>1, ClosureIsLeast
<1>7. e \in L /\ L = Executions(f) /\ L \subseteq S
  BY <1>5, <1>6 DEF Least
<1>8. e \in {Start(f)} \/ \E d \in L : e \in next_of[d]
  <2> HIDE DEF next_of, S
  <2> QED
    BY <1>1, <1>4, <1>7, LeastFollows
<1> QED
  BY <1>7, <1>8

-----------------------------------------------------------------------------
(* Flow-insensitively and without loops: where the analysis has arrived, it *)
(* has every value that an execution has there.                            *)

\* Every frame was called from where the frames below it are.
Chain(s) ==
  \A j \in 1..Len(s) : s[j].ctx = [k \in 1..j - 1 |-> <<s[k].bb, s[k].next>>]

\* The way to l leads through the call of the k-th frame.
LeadsThrough(l, k, s) == k - 1 =< Len(l[1]) /\ SubSeq(l[1], 1, k - 1) = s[k].ctx

\* In that call the analysis is at l, or in a call on the way to l, or it has
\* passed them, w being the worklist.
Settled(l, k, s, w) ==
  LET at == Path(l)[k]
      fr == s[k]
  IN  \/ at = <<fr.bb, fr.next>> /\ (k = Len(Path(l)) \/ k < Len(s))
      \/ at[1] = fr.bb /\ at[2] < fr.next
      \/ at[1] # fr.bb /\ at[1] \notin w

Arrived(l, s, w) ==
  \A k \in 1..Len(s) : LeadsThrough(l, k, s) => Settled(l, k, s, w)

\* The values of e are in the sets of the pointers.
Covered(e) ==
  \A m \in MemBlock : e[2][m] # Unset => e[2][m] \in points_to[m][Anywhere]

\* A pointer that was not defined has no values.
NoneUndefined ==
  ~flowSensitive => \A m \in MemBlock : defs[m] = <<>> => points_to[m][Anywhere] = {}

\* The invariant of the flow-insensitive analysis.
CoveredSoFar ==
  /\ Chain(stack)
  /\ NoneUndefined
  /\ ~flowSensitive /\ LoopFree =>
       \A e \in Executions(fn) : Arrived(e[1], stack, worklist) => Covered(e)

\* The way to a place, step by step: calls, and at last the place in its block.
LEMMA PathFacts ==
  ASSUME NEW f \in Programs, NEW l \in ProgramLocations(f), l[3] # 0,
         NEW k \in 1..Len(l[1]) + 1
  PROVE  /\ Len(l[1]) \in Nat /\ Len(Path(l)) = Len(l[1]) + 1
         /\ Path(l)[k] = <<Path(l)[k][1], Path(l)[k][2]>>
         /\ Path(l)[k][1] \in BlocksOf(f, ProcOf(f, SubSeq(l[1], 1, k - 1)))
         /\ Path(l)[k][1] # Null /\ Len(f.code[Path(l)[k][1]]) \in Nat
         /\ Path(l)[k][2] \in 1..Len(f.code[Path(l)[k][1]]) + 1
         /\ k # Len(l[1]) + 1 =>
              /\ k \in 1..Len(l[1]) /\ Path(l)[k] = l[1][k]
              /\ Path(l)[k] \in CallsIn(f, SubSeq(l[1], 1, k - 1))
              /\ Path(l)[k][2] \in 1..Len(f.code[Path(l)[k][1]])
         /\ k = Len(l[1]) + 1 =>
              Path(l)[k] = <<l[2], l[3]>> /\ SubSeq(l[1], 1, k - 1) = l[1]
<1>1. /\ l = <<l[1], l[2], l[3]>> /\ l[1] \in Contexts(f)
      /\ l[2] \in BlocksOf(f, ProcOf(f, l[1])) /\ l[2] # Null
      /\ Len(f.code[l[2]]) \in Nat /\ l[3] \in 1..Len(f.code[l[2]]) + 1
  BY PlaceFacts
<1>2. l[1] \in Seq(CallSites(f)) /\ Len(l[1]) \in Nat
  BY <1>1, ContextFacts
<1>3. /\ Len(Path(l)) = Len(l[1]) + 1
      /\ \A j \in 1..Len(l[1]) : Path(l)[j] = l[1][j]
      /\ Path(l)[Len(l[1]) + 1] = <<l[2], l[3]>>
  BY <1>2 DEF Path
<1>4. CASE k = Len(l[1]) + 1
  <2>1. SubSeq(l[1], 1, k - 1) = l[1]
    BY <1>2, <1>4
  <2> DEFINE at == Path(l)[k]
             ctx == SubSeq(l[1], 1, k - 1)
  <2>2. at = <<l[2], l[3]>>
    BY <1>3, <1>4
  <2>3. at[1] = l[2] /\ at[2] = l[3] /\ at = <<at[1], at[2]>>
    BY <2>2
  <2> HIDE DEF at, ctx
  <2>4. /\ at[1] \in BlocksOf(f, ProcOf(f, ctx)) /\ at[1] # Null /\ Len(f.code[at[1]]) \in Nat
        /\ at[2] \in 1..Len(f.code[at[1]]) + 1
    BY <1>1, <2>1, <2>3 DEF ctx
  <2> QED
    BY <1>2, <1>3, <1>4, <2>1, <2>2, <2>3, <2>4 DEF at, ctx
<1>5. CASE k # Len(l[1]) + 1
  <2> DEFINE c == l[1][k]
             ctx == SubSeq(l[1], 1, k - 1)
  <2>1. k \in 1..Len(l[1])
    BY <1>2, <1>5
  <2>2. Path(l)[k] = c /\ c \in CallsIn(f, ctx)
    BY <1>1, <1>3, <2>1, ContextFacts
  <2>3. c \in CallSites(f) /\ c[1] \in BlocksOf(f, ProcOf(f, ctx)) /\ c[1] \in DOMAIN f.proc
    BY <2>2, CallFacts DEF CallsIn, BlocksOf
  <2>4. c = <<c[1], c[2]>> /\ c[2] \in DOMAIN f.code[c[1]]
    BY <2>3, CallFacts
  <2>5. c[1] # Null /\ f.code[c[1]] \in Seq(ToSet(f.code[c[1]]))
    BY <2>3, ProgramsAssumption
  <2>6. /\ Len(f.code[c[1]]) \in Nat /\ c[2] \in 1..Len(f.code[c[1]])
        /\ c[2] \in 1..Len(f.code[c[1]]) + 1
    BY <2>4, <2>5
  <2> HIDE DEF c, ctx
  <2> QED
    BY <1>2, <1>3, <1>5, <2>1, <2>2, <2>3, <2>4, <2>5, <2>6 DEF c, ctx
<1> QED
  BY <1>4, <1>5

\* A frame has as many frames below it as its context has calls.
LEMMA ChainFacts ==
  ASSUME NEW f \in Programs, NEW s \in Seq(Frames(f)), Chain(s), NEW j \in 1..Len(s)
  PROVE  Len(s) \in Nat /\ s[j].ctx \in Contexts(f) /\ Len(s[j].ctx) = j - 1
<1>1. Len(s) \in Nat /\ s[j] \in Frames(f) /\ j \in Nat
  OBVIOUS
<1>2. s[j].ctx \in Contexts(f)
  BY <1>1 DEF Frames
<1>3. s[j].ctx \in Seq(CallSites(f))
  BY <1>2, ContextFacts
<1>4. s[j].ctx = [k \in 1..j - 1 |-> <<s[k].bb, s[k].next>>]
  BY DEF Chain
<1>5. Len(s[j].ctx) = j - 1
  <2>1. DOMAIN s[j].ctx = 1..j - 1
    BY <1>4
  <2>2. DOMAIN s[j].ctx = 1..Len(s[j].ctx) /\ Len(s[j].ctx) \in Nat
    BY <1>3
  <2> HIDE <1>4
  <2> QED
    BY <1>1, <2>1, <2>2
<1> QED
  BY <1>1, <1>2, <1>5

\* The frames below one are where its context says, and of other procedures.
LEMMA BelowFacts ==
  ASSUME NEW f \in Programs, NEW s \in Seq(Frames(f)), Chain(s),
         NEW j \in 1..Len(s), NEW k \in 1..j - 1
  PROVE  /\ s[j].ctx[k] = <<s[k].bb, s[k].next>>
         /\ SubSeq(s[j].ctx, 1, k - 1) = s[k].ctx
         /\ ProcOf(f, s[k].ctx) # ProcOf(f, s[j].ctx)
         /\ <<s[k].bb, s[k].next>> \in CallsIn(f, s[k].ctx)
<1>1. Len(s) \in Nat /\ j \in Nat
  OBVIOUS
<1>2. s[j].ctx \in Contexts(f) /\ Len(s[j].ctx) = j - 1
  BY ChainFacts
<1>3. s[j].ctx \in Seq(CallSites(f))
  BY <1>2, ContextFacts
<1>4. s[j].ctx = [i \in 1..j - 1 |-> <<s[i].bb, s[i].next>>]
  BY DEF Chain
<1>5. /\ s[j].ctx[k] = <<s[k].bb, s[k].next>>
      /\ SubSeq(s[j].ctx, 1, k - 1) = s[k].ctx
  <2>1. s[j].ctx[k] = <<s[k].bb, s[k].next>>
    BY <1>4
  <2>2. k \in 1..Len(s) /\ k \in Nat
    BY <1>1
  <2>3. s[k].ctx = [i \in 1..k - 1 |-> <<s[i].bb, s[i].next>>]
    BY <2>2 DEF Chain
  <2>4. SubSeq(s[j].ctx, 1, k - 1) = [i \in 1..k - 1 |-> s[j].ctx[i]]
    <3> DEFINE c == s[j].ctx
    <3>1. c \in Seq(CallSites(f)) /\ k - 1 \in Nat /\ k - 1 =< Len(c)
      BY <1>1, <1>2, <1>3, <2>2
    <3> HIDE DEF c
    <3>2. ASSUME NEW T, NEW d \in Seq(T), NEW n \in Nat, n =< Len(d)
          PROVE  SubSeq(d, 1, n) = [i \in 1..n |-> d[i]]
      <4>1. /\ SubSeq(d, 1, n) \in Seq(T) /\ Len(SubSeq(d, 1, n)) = n
            /\ \A i \in 1..n : SubSeq(d, 1, n)[i] = d[i]
        BY <3>2
      <4> DEFINE t == SubSeq(d, 1, n)
      <4> HIDE DEF t
      <4>2. t = [i \in 1..n |-> t[i]]
        BY <4>1 DEF t
      <4>3. [i \in 1..n |-> t[i]] = [i \in 1..n |-> d[i]]
        BY <4>1, Zenon DEF t
      <4> QED
        BY <4>2, <4>3 DEF t
    <3> QED
      BY <3>1, <3>2 DEF c
  <2>5. \A i \in 1..k - 1 : s[j].ctx[i] = <<s[i].bb, s[i].next>>
    BY <1>1, <1>4, <2>2
  <2>6. [i \in 1..k - 1 |-> s[j].ctx[i]] = [i \in 1..k - 1 |-> <<s[i].bb, s[i].next>>]
    BY <2>5, Zenon
  <2> QED
    BY <2>1, <2>3, <2>4, <2>6
<1>6. /\ ProcOf(f, s[k].ctx) # ProcOf(f, s[j].ctx)
      /\ <<s[k].bb, s[k].next>> \in CallsIn(f, s[k].ctx)
  <2>1. k \in 1..Len(s[j].ctx)
    BY <1>2
  <2>2. /\ s[j].ctx[k] \in CallsIn(f, SubSeq(s[j].ctx, 1, k - 1))
        /\ ProcOf(f, SubSeq(s[j].ctx, 1, k - 1)) # ProcOf(f, s[j].ctx)
    BY <1>2, <2>1, ContextFacts
  <2> QED
    BY <1>5, <2>2
<1> QED
  BY <1>5, <1>6

\* Where the frames are, the analysis has arrived.
LEMMA ArrivedAtFrame ==
  ASSUME NEW f \in Programs, NEW s \in Seq(Frames(f)), Chain(s), NEW w, NEW j \in 1..Len(s),
         NEW l \in ProgramLocations(f), l[3] # 0, l[1] = s[j].ctx,
         j # Len(s) => <<l[2], l[3]>> = <<s[j].bb, s[j].next>>,
         j = Len(s) => Settled(l, j, s, w)
  PROVE  Arrived(l, s, w)
<1> SUFFICES ASSUME NEW k \in 1..Len(s), LeadsThrough(l, k, s)
             PROVE  Settled(l, k, s, w)
  BY DEF Arrived
<1>1. /\ Len(s) \in Nat /\ Len(l[1]) = j - 1
      /\ \A i \in 1..j - 1 : l[1][i] = <<s[i].bb, s[i].next>>
  <2>1. Len(s) \in Nat /\ Len(s[j].ctx) = j - 1
    BY ChainFacts
  <2>2. s[j].ctx = [i \in 1..j - 1 |-> <<s[i].bb, s[i].next>>]
    BY DEF Chain
  <2>3. \A i \in 1..j - 1 : s[j].ctx[i] = <<s[i].bb, s[i].next>>
    BY <2>2
  <2> QED
    BY <2>1, <2>3
<1>2. k \in 1..j
  BY <1>1 DEF LeadsThrough
<1>3. CASE k = j
  <2>1. k = Len(l[1]) + 1
    BY <1>1, <1>3
  <2>2. k \in 1..Len(l[1]) + 1
    BY <2>1
  <2>3. k = Len(Path(l)) /\ Path(l)[k] = <<l[2], l[3]>>
    BY <2>1, <2>2, PathFacts
  <2> QED
    BY <1>3, <2>3 DEF Settled
<1>4. CASE k # j
  <2>1. k \in 1..j - 1 /\ k < Len(s) /\ k \in 1..Len(l[1]) + 1 /\ k # Len(l[1]) + 1
    BY <1>1, <1>2, <1>4
  <2>2. Path(l)[k] = l[1][k]
    BY <2>1, PathFacts
  <2>3. l[1][k] = <<s[k].bb, s[k].next>>
    BY <1>1, <2>1
  <2> QED
    BY <2>1, <2>2, <2>3 DEF Settled
<1> QED
  BY <1>3, <1>4

\* A place that the call of a frame leads to.
LEMMA ThroughFacts ==
  ASSUME NEW f \in Programs, NEW s \in Seq(Frames(f)), NEW k \in 1..Len(s),
         NEW l \in ProgramLocations(f), l[3] # 0, LeadsThrough(l, k, s)
  PROVE  /\ Len(l[1]) \in Nat /\ Len(Path(l)) = Len(l[1]) + 1 /\ k \in 1..Len(Path(l))
         /\ Path(l)[k] = <<Path(l)[k][1], Path(l)[k][2]>>
         /\ Path(l)[k][1] \in BlocksOf(f, ProcOf(f, s[k].ctx)) /\ Path(l)[k][1] # Null
         /\ Len(f.code[Path(l)[k][1]]) \in Nat
         /\ Path(l)[k][2] \in 1..Len(f.code[Path(l)[k][1]]) + 1
         /\ k # Len(Path(l)) =>
              /\ k \in 1..Len(l[1]) /\ Path(l)[k] = l[1][k]
              /\ Path(l)[k] \in CallsIn(f, s[k].ctx)
              /\ Path(l)[k][2] \in 1..Len(f.code[Path(l)[k][1]])
         /\ k = Len(Path(l)) => l = <<s[k].ctx, Path(l)[k][1], Path(l)[k][2]>>
<1>1. l = <<l[1], l[2], l[3]>> /\ l[1] \in Contexts(f)
  BY PlaceFacts
<1>2. Len(l[1]) \in Nat
  BY <1>1, ContextFacts
<1>3. k \in 1..Len(l[1]) + 1 /\ SubSeq(l[1], 1, k - 1) = s[k].ctx
  BY <1>2 DEF LeadsThrough
<1> DEFINE at == Path(l)[k]
           ctx == SubSeq(l[1], 1, k - 1)
<1>4. /\ Len(Path(l)) = Len(l[1]) + 1
      /\ at = <<at[1], at[2]>>
      /\ at[1] \in BlocksOf(f, ProcOf(f, ctx)) /\ at[1] # Null
      /\ Len(f.code[at[1]]) \in Nat
      /\ at[2] \in 1..Len(f.code[at[1]]) + 1
      /\ k # Len(l[1]) + 1 =>
           /\ k \in 1..Len(l[1]) /\ at = l[1][k] /\ at \in CallsIn(f, ctx)
           /\ at[2] \in 1..Len(f.code[at[1]])
      /\ k = Len(l[1]) + 1 => at = <<l[2], l[3]>> /\ ctx = l[1]
  BY <1>3, PathFacts, ZenonT(60)
<1> HIDE DEF at, ctx
<1>5. k = Len(Path(l)) => l = <<s[k].ctx, at[1], at[2]>>
  <2> SUFFICES ASSUME k = Len(Path(l)) PROVE l = <<s[k].ctx, at[1], at[2]>>
    OBVIOUS
  <2>1. at = <<l[2], l[3]>> /\ ctx = l[1]
    BY <1>4
  <2>2. at[1] = l[2] /\ at[2] = l[3] /\ s[k].ctx = l[1]
    BY <1>3, <2>1 DEF ctx
  <2> QED
    BY <1>1, <2>2
<1>6. ctx = s[k].ctx
  BY <1>3 DEF ctx
<1>7. k \in 1..Len(Path(l)) /\ (k # Len(Path(l)) => k # Len(l[1]) + 1)
  BY <1>3, <1>4
<1> QED
  BY <1>2, <1>4, <1>5, <1>6, <1>7 DEF at

\* The first n frames are at the same place in s and t.
SamePlaces(s, t, n) ==
  \A k \in 1..n : t[k].ctx = s[k].ctx /\ t[k].bb = s[k].bb /\ t[k].next = s[k].next

\* The last call of s has returned in t.
HasReturned(s, t) ==
  LET n == Len(t)
  IN  /\ Len(s) = n + 1 /\ n \in Nat \ {0} /\ SamePlaces(s, t, n - 1)
      /\ t[n].ctx = s[n].ctx /\ t[n].bb = s[n].bb /\ t[n].next = s[n].next + 1

\* So for the frame in hand.
LEMMA BelowTop ==
  ASSUME NEW f \in Programs, NEW s \in Seq(Frames(f)), s # <<>>, Chain(s)
  PROVE  \A k \in 1..Len(s) - 1 :
           /\ ProcOf(f, s[k].ctx) # ProcOf(f, s[Len(s)].ctx)
           /\ s[Len(s)].ctx[k] = <<s[k].bb, s[k].next>>
           /\ SubSeq(s[Len(s)].ctx, 1, k - 1) = s[k].ctx
           /\ <<s[k].bb, s[k].next>> \in CallsIn(f, s[k].ctx)
<1>1. Len(s) \in 1..Len(s)
  OBVIOUS
<1> QED
  BY <1>1, BelowFacts

\* A step in the frame in hand that may take blocks of its procedure from the
\* worklist: the analysis arrives nowhere else.
LEMMA TopArrives ==
  ASSUME NEW f \in Programs, NEW s \in Seq(Frames(f)), s # <<>>, Chain(s), NEW t,
         Len(t) = Len(s),
         SamePlaces(s, t, Len(s) - 1),
         NEW v, NEW w, w \ BlocksOf(f, ProcOf(f, s[Len(s)].ctx)) \subseteq v,
         NEW l \in ProgramLocations(f), l[3] # 0, Arrived(l, t, v),
         LeadsThrough(l, Len(s), s) => Settled(l, Len(s), s, w)
  PROVE  Arrived(l, s, w)
<1>5. \A k \in 1..Len(s) - 1 : ProcOf(f, s[k].ctx) # ProcOf(f, s[Len(s)].ctx)
  BY BelowTop, ZenonT(60)
<1> SUFFICES ASSUME NEW k \in 1..Len(s), LeadsThrough(l, k, s), k # Len(s)
             PROVE  Settled(l, k, s, w)
  BY DEF Arrived
<1> DEFINE n == Len(s)
           at == Path(l)[k]
<1>1. n \in Nat /\ n \in 1..n /\ k \in 1..n - 1 /\ k \in 1..Len(t)
  OBVIOUS
<1>2. t[k].ctx = s[k].ctx /\ t[k].bb = s[k].bb /\ t[k].next = s[k].next
  BY <1>1 DEF SamePlaces
<1>3. Settled(l, k, t, v)
  BY <1>1, <1>2 DEF Arrived, LeadsThrough
<1>4. at[1] \in BlocksOf(f, ProcOf(f, s[k].ctx))
  BY ThroughFacts
<1>6. at[1] \notin BlocksOf(f, ProcOf(f, s[n].ctx))
  BY <1>1, <1>4, <1>5 DEF BlocksOf
<1>7. at[1] \in w => at[1] \in v
  BY <1>6
<1> QED
  BY <1>2, <1>3, <1>7 DEF Settled

\* A call queues the blocks of the procedure, so that it is passed when it ends.
LEMMA CallArrives ==
  ASSUME NEW f \in Programs, NEW s \in Seq(Frames(f)), s # <<>>, Chain(s), NEW fr,
         fr.ctx = Append(s[Len(s)].ctx, <<s[Len(s)].bb, s[Len(s)].next>>),
         fr.bb = Null, fr.ctx \in Contexts(f),
         NEW v, NEW w, w \cup BlocksOf(f, ProcOf(f, fr.ctx)) \subseteq v,
         NEW l \in ProgramLocations(f), l[3] # 0, Arrived(l, Append(s, fr), v)
  PROVE  Arrived(l, s, w)
<1> SUFFICES ASSUME NEW k \in 1..Len(s), LeadsThrough(l, k, s)
             PROVE  Settled(l, k, s, w)
  BY DEF Arrived
<1> DEFINE n == Len(s)
           t == Append(s, fr)
           at == Path(l)[k]
<1>1. n \in Nat /\ k \in 1..n /\ Len(t) = n + 1 /\ t[k] = s[k] /\ t[n + 1] = fr
  OBVIOUS
<1> HIDE DEF t
<1>2. Settled(l, k, t, v)
  <2>1. k \in 1..Len(t) /\ LeadsThrough(l, k, t)
    BY <1>1 DEF LeadsThrough
  <2> QED
    BY <2>1 DEF Arrived, t
<1>3. CASE k # n \/ at # <<s[n].bb, s[n].next>> \/ k = Len(Path(l))
  BY <1>1, <1>2, <1>3 DEF Settled
<1>4. CASE k = n /\ at = <<s[n].bb, s[n].next>> /\ k # Len(Path(l))
  <2> DEFINE to == Path(l)[n + 1]
  <2>1. n \in 1..Len(l[1]) /\ at = l[1][n] /\ SubSeq(l[1], 1, n - 1) = s[n].ctx
    BY <1>4, ThroughFacts DEF LeadsThrough
  <2>2. l[1] \in Seq(CallSites(f)) /\ Len(l[1]) \in Nat
    BY PlaceFacts, ContextFacts
  <2>3. SubSeq(l[1], 1, n) = Append(SubSeq(l[1], 1, n - 1), l[1][n])
    <3>1. ASSUME NEW T, NEW d \in Seq(T), NEW m \in Nat, m + 1 =< Len(d)
          PROVE  SubSeq(d, 1, m + 1) = Append(SubSeq(d, 1, m), d[m + 1])
      <4> DEFINE x == SubSeq(d, 1, m + 1)
                 y == Append(SubSeq(d, 1, m), d[m + 1])
      <4>1. x \in Seq(T) /\ Len(x) = m + 1 /\ \A i \in 1..m + 1 : x[i] = d[i]
        BY <3>1
      <4>2. SubSeq(d, 1, m) \in Seq(T) /\ Len(SubSeq(d, 1, m)) = m /\ d[m + 1] \in T
            /\ \A i \in 1..m : SubSeq(d, 1, m)[i] = d[i]
        BY <3>1
      <4>3. y \in Seq(T) /\ Len(y) = m + 1 /\ \A i \in 1..m + 1 : y[i] = d[i]
        BY <4>2
      <4> HIDE DEF x, y
      <4>4. x = y
        BY <4>1, <4>3, SMTT(30)
      <4> QED
        BY <4>4 DEF x, y
    <3>2. n - 1 \in Nat /\ (n - 1) + 1 = n /\ n =< Len(l[1])
      BY <1>1, <2>1
    <3> QED
      BY <2>2, <3>1, <3>2
  <2>4. SubSeq(l[1], 1, n) = fr.ctx
    BY <1>4, <2>1, <2>3
  <2>5. LeadsThrough(l, n + 1, t)
    <3>1. (n + 1) - 1 = n /\ n =< Len(l[1])
      BY <2>1, <2>2
    <3> QED
      BY <1>1, <2>4, <3>1 DEF LeadsThrough
  <2>6. Settled(l, n + 1, t, v)
    <3>1. n + 1 \in 1..Len(t)
      BY <1>1
    <3> QED
      BY <2>5, <3>1 DEF Arrived, t
  <2>7. to[1] \in BlocksOf(f, ProcOf(f, fr.ctx)) /\ to[1] # Null
    <3>1. n + 1 \in 1..Len(l[1]) + 1 /\ (n + 1) - 1 = n
      BY <1>1, <2>1, <2>2
    <3>2. to[1] \in BlocksOf(f, ProcOf(f, SubSeq(l[1], 1, (n + 1) - 1))) /\ to[1] # Null
      BY <3>1, PathFacts
    <3> QED
      BY <2>4, <3>1, <3>2
  <2>8. to[1] \in v
    BY <2>7
  <2> HIDE DEF to
  <2>9. to # <<fr.bb, fr.next>> /\ to[1] # fr.bb
    BY <2>7
  <2> QED
    BY <1>1, <2>6, <2>8, <2>9 DEF Settled, to
<1> QED
  BY <1>3, <1>4

\* When the worklist of a procedure is empty, all of it has been passed: the
\* analysis arrives behind the call and nowhere else.
LEMMA ReturnArrives ==
  ASSUME NEW f \in Programs, NEW s \in Seq(Frames(f)), Chain(s),
         s[Len(s)].bb = Null, NEW t, HasReturned(s, t),
         NEW w, w \cap BlocksOf(f, ProcOf(f, s[Len(s)].ctx)) = {},
         NEW l \in ProgramLocations(f), l[3] # 0, Arrived(l, t, w)
  PROVE  \/ Arrived(l, s, w)
         \/ l = <<s[Len(s) - 1].ctx, s[Len(s) - 1].bb, s[Len(s) - 1].next + 1>>
<1> DEFINE behind == <<s[Len(s) - 1].ctx, s[Len(s) - 1].bb, s[Len(s) - 1].next + 1>>
<1> HIDE DEF behind
<1> SUFFICES ASSUME NEW k \in 1..Len(s), LeadsThrough(l, k, s)
             PROVE  Settled(l, k, s, w) \/ l = behind
  BY DEF Arrived, behind
<1> DEFINE n == Len(s)
           at == Path(l)[k]
<1>1. n \in Nat /\ k \in 1..n /\ Len(t) = n - 1
  BY DEF HasReturned
<1>2. /\ at = <<at[1], at[2]>> /\ at[1] \in BlocksOf(f, ProcOf(f, s[k].ctx)) /\ at[1] # Null
      /\ Len(f.code[at[1]]) \in Nat /\ at[2] \in 1..Len(f.code[at[1]]) + 1
      /\ k = Len(Path(l)) => l = <<s[k].ctx, at[1], at[2]>>
  BY ThroughFacts
<1>3. at[2] \in Nat
  BY <1>2
<1> HIDE DEF n, at
<1>4. CASE k = n
  <2>1. at[1] \notin w
    BY <1>2, <1>4 DEF n
  <2> QED
    BY <1>2, <1>4, <2>1 DEF Settled, n, at
<1>5. CASE k # n
  <2>1. k \in 1..n - 1 /\ k \in 1..Len(t) /\ k < n
    BY <1>1, <1>5
  <2>2. t[k].ctx = s[k].ctx /\ t[k].bb = s[k].bb
    BY <1>1, <2>1 DEF HasReturned, SamePlaces
  <2>3. Settled(l, k, t, w)
    BY <2>1, <2>2 DEF Arrived, LeadsThrough
  <2>4. CASE k # n - 1
    <3>1. k \in 1..n - 2
      BY <1>1, <2>1, <2>4
    <3>2. t[k].next = s[k].next
      BY <1>1, <3>1 DEF HasReturned, SamePlaces
    <3> QED
      BY <2>1, <2>2, <2>3, <3>2 DEF Settled, n
  <2>5. CASE k = n - 1
    <3>1. t[k].next = s[k].next + 1 /\ behind = <<s[k].ctx, s[k].bb, s[k].next + 1>>
      BY <1>1, <2>5 DEF n, behind, HasReturned
    <3>2. s[k].next \in Nat
      <4>1. s[k] \in Frames(f)
        OBVIOUS
      <4> QED
        BY <4>1 DEF Frames
    <3>3. ~(k < Len(t))
      BY <1>1, <2>5 DEF n
    <3>4. CASE at = <<t[k].bb, t[k].next>> /\ k = Len(Path(l))
      <4>1. at[1] = s[k].bb /\ at[2] = s[k].next + 1
        BY <2>2, <3>1, <3>4
      <4> QED
        BY <1>2, <3>1, <3>4, <4>1
    <3>5. CASE at[1] = t[k].bb /\ at[2] < t[k].next
      <4>1. at[1] = s[k].bb /\ (at[2] < s[k].next \/ at[2] = s[k].next)
        BY <1>3, <2>2, <3>1, <3>2, <3>5
      <4>2. at[2] = s[k].next => at = <<s[k].bb, s[k].next>>
        BY <1>2, <4>1
      <4> QED
        BY <2>1, <4>1, <4>2 DEF Settled, at, n
    <3>6. CASE at[1] # t[k].bb /\ at[1] \notin w
      BY <2>2, <3>6 DEF Settled, at
    <3> QED
      BY <2>3, <3>3, <3>4, <3>5, <3>6 DEF Settled, at
  <2> QED
    BY <2>4, <2>5
<1> QED
  BY <1>4, <1>5

\* Flow-insensitively one set of values is found wherever one looks.
LEMMA FoundAnywhere ==
  ASSUME IInv, NoneUndefined, ~flowSensitive, NEW m \in MemBlock
  PROVE  /\ \A loc : Dereference(m, loc) = points_to[m][Anywhere]
         /\ \A ctx, b : PointsTo(m, last_def_at(defs[m], ctx, b)) = points_to[m][Anywhere]
<1>1. /\ fn \in Programs /\ defs[m] \in Seq(DefLocations(fn))
      /\ \A i \in DOMAIN defs[m] : defs[m][i] = Anywhere
  BY DEF IInv, TypeInv, OneDefinition
<1>2. PointsTo(m, Anywhere) = points_to[m][Anywhere]
  <2>1. Anywhere \in ProgramLocations(fn)
    BY DEF Anywhere, ProgramLocations
  <2>2. Anywhere # NoDef
    BY <1>1, <2>1, MemBlockAssumption
  <2> QED
    BY <2>2 DEF PointsTo
<1>3. PointsTo(m, FirstDef(defs[m], {Anywhere})) = points_to[m][Anywhere]
  <2> DEFINE k == First(defs[m], {Anywhere})
             n == Len(defs[m])
  <2>1. n \in Nat /\ DOMAIN defs[m] = 1..n /\ (n = 0 => defs[m] = <<>>)
    BY <1>1
  <2>2. IsFirst(defs[m], {Anywhere}, k)
    BY <2>1, SomeFirst
  <2> HIDE DEF k
  <2>3. k \in 1..n + 1 /\ \A j \in 1..k - 1 : defs[m][j] # Anywhere
    BY <2>2 DEF IsFirst
  <2>4. CASE n = 0
    <3>1. FirstDef(defs[m], {Anywhere}) = NoDef
      BY <2>3, <2>4 DEF FirstDef, k
    <3> QED
      BY <2>1, <2>4, <3>1 DEF PointsTo, NoneUndefined
  <2>5. CASE n # 0
    <3>1. k = 1
      <4> SUFFICES ASSUME k # 1 PROVE FALSE
        OBVIOUS
      <4>1. 1 \in 1..k - 1 /\ 1 \in 1..n
        BY <2>1, <2>3, <2>5
      <4> QED
        BY <1>1, <2>1, <2>3, <4>1
    <3>2. 1 \in 1..n
      BY <2>1, <2>5
    <3>3. FirstDef(defs[m], {Anywhere}) = Anywhere
      BY <1>1, <2>1, <3>1, <3>2 DEF FirstDef, k
    <3> QED
      BY <1>2, <3>3
  <2> QED
    BY <2>4, <2>5
<1>4. \A loc : Dereference(m, loc) = PointsTo(m, FirstDef(defs[m], {Anywhere}))
  <2>1. \A loc : nearest_def_at(m, loc) = FirstDef(defs[m], {Anywhere})
    BY DEF nearest_def_at, find_strictly_dominating_def, StrictDominators
  <2>2. \A loc : ci_nearest_def_at(m, loc) = FirstDef(defs[m], {Anywhere})
    BY <2>1 DEF ci_nearest_def_at
  <2> QED
    BY <2>2 DEF Dereference
<1>5. \A ctx, b : last_def_at(defs[m], ctx, b) = FirstDef(defs[m], {Anywhere})
  <2>1. {Anywhere} \cup {Anywhere} = {Anywhere}
    OBVIOUS
  <2> QED
    BY <2>1, Zenon DEF last_def_at, find_dominating_def, StrictDominators, At
<1> QED
  BY <1>3, <1>4, <1>5

\* A definition is in its list.
LEMMA MadeDef ==
  ASSUME NEW list, Len(list) \in Nat, NEW loc, NEW S
  PROVE  make_def_at(list, loc, S) # <<>>
<1>1. CASE find_def(list, loc) # NoDef
  <2>1. IsFirst(list, {loc}, First(list, {loc}))
    BY SomeFirst
  <2>2. Len(list) # 0
    BY <1>1, <2>1 DEF IsFirst, find_def, FirstDef
  <2>3. list # <<>>
    BY <2>2
  <2> QED
    BY <1>1, <2>3 DEF make_def_at
<1>2. CASE find_def(list, loc) = NoDef
  <2> DEFINE made == Insert(list, First(list, S \cup {loc}), loc)
  <2>1. DOMAIN made = 1..Len(list) + 1
    BY DEF Insert
  <2>2. 1 \in DOMAIN made
    BY <2>1
  <2>3. DOMAIN <<>> = {}
    OBVIOUS
  <2> HIDE DEF made
  <2>4. made # <<>>
    BY <2>2, <2>3
  <2> QED
    BY <1>2, <2>4 DEF make_def_at, made
<1> QED
  BY <1>1, <1>2

\* Flow-insensitively sets only grow.
LEMMA DefineGrows ==
  ASSUME IInv, NoneUndefined, ~flowSensitive, flowSensitive' = flowSensitive,
         NEW S \in SUBSET MemBlock, NEW loc, NEW set, NEW fr, Define(S, loc, set, fr),
         \A m \in S : points_to[m][Anywhere] \subseteq set[m]
  PROVE  /\ NoneUndefined'
         /\ \A m \in MemBlock : points_to[m][Anywhere] \subseteq points_to'[m][Anywhere]
         /\ \A m \in S : points_to'[m][Anywhere] = set[m]
<1>1. /\ points_to \in [MemBlock -> [ProgramLocations(fn) -> SUBSET MemBlock]]
      /\ defs \in [MemBlock -> Seq(DefLocations(fn))]
  BY DEF IInv, TypeInv
<1>2. Anywhere \in ProgramLocations(fn) /\ At(loc) = Anywhere
  BY DEF Anywhere, ProgramLocations, At
<1>3. /\ defs' = [m \in MemBlock |-> IF m \in S THEN def_at(m, loc) ELSE defs[m]]
      /\ points_to' = [m \in MemBlock |->
           IF m \in S THEN [points_to[m] EXCEPT ![Anywhere] = set[m]] ELSE points_to[m]]
  BY <1>2 DEF Define
<1>4. ASSUME NEW m \in MemBlock
      PROVE  /\ m \in S => points_to'[m][Anywhere] = set[m] /\ defs'[m] # <<>>
             /\ m \notin S => points_to'[m] = points_to[m] /\ defs'[m] = defs[m]
  <2>1. CASE m \in S
    <3>1. points_to'[m] = [points_to[m] EXCEPT ![Anywhere] = set[m]]
      BY <1>3, <2>1
    <3>2. Anywhere \in DOMAIN points_to[m]
      BY <1>1, <1>2
    <3>3. defs'[m] = def_at(m, loc)
      BY <1>3, <2>1
    <3>4. Len(defs[m]) \in Nat
      BY <1>1
    <3>5. def_at(m, loc) # <<>>
      BY <3>4, MadeDef DEF def_at
    <3> QED
      BY <2>1, <3>1, <3>2, <3>3, <3>5
  <2>2. CASE m \notin S
    BY <1>3, <2>2
  <2> QED
    BY <2>1, <2>2
<1>5. NoneUndefined'
  BY <1>4 DEF NoneUndefined, Anywhere
<1> QED
  BY <1>4, <1>5

\* The frame in hand in a new state.
LEMMA Replaced ==
  ASSUME NEW T, NEW s \in Seq(T), s # <<>>, NEW fr
  PROVE  LET t == Append(Front(s), fr)
         IN  /\ Len(s) \in Nat \ {0} /\ Last(s) = s[Len(s)]
             /\ Len(t) = Len(s) /\ t[Len(s)] = fr /\ SamePlaces(s, t, Len(s) - 1)
<1> DEFINE n == Len(s)
           u == SubSeq(s, 1, n - 1)
<1>1. n \in Nat \ {0}
  OBVIOUS
<1>2. u \in Seq(T) /\ Len(u) = n - 1 /\ \A i \in 1..n - 1 : u[i] = s[i]
  <2>1. ASSUME NEW k \in Nat, k =< Len(s)
        PROVE  /\ SubSeq(s, 1, k) \in Seq(T) /\ Len(SubSeq(s, 1, k)) = k
               /\ \A i \in 1..k : SubSeq(s, 1, k)[i] = s[i]
    BY <2>1
  <2>2. n - 1 \in Nat /\ n - 1 =< Len(s)
    BY <1>1
  <2> QED
    BY <2>1, <2>2, Zenon DEF u
<1> HIDE DEF u
<1>3. /\ Len(Append(u, fr)) = n /\ Append(u, fr)[n] = fr
      /\ \A i \in 1..n - 1 : Append(u, fr)[i] = s[i]
  BY <1>1, <1>2
<1>4. Front(s) = u /\ Last(s) = s[n]
  BY DEF Front, Last, u
<1> QED
  BY <1>1, <1>3, <1>4 DEF SamePlaces

\* A step of the frame in hand keeps the chain of calls.
LEMMA ChainStays ==
  ASSUME NEW f \in Programs, NEW s \in Seq(Frames(f)), s # <<>>, Chain(s), NEW t,
         Len(t) = Len(s), SamePlaces(s, t, Len(s) - 1), t[Len(s)].ctx = s[Len(s)].ctx
  PROVE  Chain(t)
<1> SUFFICES ASSUME NEW j \in 1..Len(t)
             PROVE  t[j].ctx = [k \in 1..j - 1 |-> <<t[k].bb, t[k].next>>]
  BY DEF Chain
<1>1. Len(s) \in Nat \ {0} /\ j \in 1..Len(s)
  OBVIOUS
<1>2. t[j].ctx = s[j].ctx
  <2>1. j = Len(s) \/ j \in 1..Len(s) - 1
    BY <1>1
  <2> QED
    BY <2>1 DEF SamePlaces
<1>3. \A k \in 1..j - 1 : t[k].bb = s[k].bb /\ t[k].next = s[k].next
  <2>1. \A k \in 1..j - 1 : k \in 1..Len(s) - 1
    BY <1>1
  <2> QED
    BY <2>1 DEF SamePlaces
<1>4. s[j].ctx = [k \in 1..j - 1 |-> <<s[k].bb, s[k].next>>]
  BY <1>1 DEF Chain
<1>5. [k \in 1..j - 1 |-> <<s[k].bb, s[k].next>>] = [k \in 1..j - 1 |-> <<t[k].bb, t[k].next>>]
  BY <1>3, Zenon
<1> QED
  BY <1>2, <1>4, <1>5, Zenon

\* So does a call.
LEMMA ChainGrows ==
  ASSUME NEW f \in Programs, NEW s \in Seq(Frames(f)), s # <<>>, Chain(s), NEW fr,
         fr.ctx = Append(s[Len(s)].ctx, <<s[Len(s)].bb, s[Len(s)].next>>)
  PROVE  Chain(Append(s, fr))
<1> DEFINE n == Len(s)
           t == Append(s, fr)
<1>1. n \in Nat \ {0} /\ n \in 1..n
  OBVIOUS
<1>2. Len(t) = n + 1 /\ t[n + 1] = fr /\ \A i \in 1..n : t[i] = s[i]
  BY <1>1
<1>3. s[n].ctx = [k \in 1..n - 1 |-> <<s[k].bb, s[k].next>>] /\ Len(s[n].ctx) = n - 1
  BY <1>1, ChainFacts DEF Chain
<1> HIDE DEF t
<1>4. ASSUME NEW j \in 1..n
      PROVE  t[j].ctx = [k \in 1..j - 1 |-> <<t[k].bb, t[k].next>>]
  <2>1. \A k \in 1..j - 1 : t[k] = s[k]
    BY <1>1, <1>2
  <2>2. s[j].ctx = [k \in 1..j - 1 |-> <<s[k].bb, s[k].next>>]
    BY DEF Chain
  <2>3. [k \in 1..j - 1 |-> <<s[k].bb, s[k].next>>] = [k \in 1..j - 1 |-> <<t[k].bb, t[k].next>>]
    BY <2>1, Zenon
  <2> QED
    BY <1>2, <2>2, <2>3
<1>5. t[n + 1].ctx = [k \in 1..n |-> <<t[k].bb, t[k].next>>]
  <2> DEFINE c == s[n].ctx
             x == <<s[n].bb, s[n].next>>
  <2>1. ASSUME NEW T, NEW d \in Seq(T), NEW y, Len(d) = n - 1
        PROVE  Append(d, y) = [k \in 1..n |-> IF k = n THEN y ELSE d[k]]
    <3> DEFINE a == Append(d, y)
    <3>1. /\ a \in Seq(T \cup {y}) /\ Len(a) = n
          /\ \A k \in 1..n : a[k] = IF k = n THEN y ELSE d[k]
      BY <1>1, <2>1
    <3> HIDE DEF a
    <3>2. a = [k \in 1..n |-> a[k]]
      BY <3>1
    <3>3. [k \in 1..n |-> a[k]] = [k \in 1..n |-> IF k = n THEN y ELSE d[k]]
      BY <3>1, Zenon
    <3> QED
      BY <3>2, <3>3 DEF a
  <2>2. Append(c, x) = [k \in 1..n |-> IF k = n THEN x ELSE c[k]]
    <3>1. c \in Seq(CallSites(f))
      BY <1>1, ChainFacts, ContextFacts
    <3> QED
      BY <1>3, <2>1, <3>1
  <2>3. \A k \in 1..n : k # n => c[k] = <<s[k].bb, s[k].next>>
    <3>1. \A k \in 1..n : k # n => k \in 1..n - 1
      BY <1>1
    <3> QED
      BY <1>3, <3>1
  <2> HIDE DEF c
  <2>4. \A k \in 1..n : (IF k = n THEN x ELSE c[k]) = <<t[k].bb, t[k].next>>
    BY <1>2, <2>3
  <2> HIDE DEF x
  <2>5. [k \in 1..n |-> IF k = n THEN x ELSE c[k]] = [k \in 1..n |-> <<t[k].bb, t[k].next>>]
    BY <2>4, Zenon
  <2> QED
    BY <1>2, <2>2, <2>5 DEF c, x
<1>6. ASSUME NEW j \in 1..Len(t)
      PROVE  t[j].ctx = [k \in 1..j - 1 |-> <<t[k].bb, t[k].next>>]
  <2>1. j \in 1..n \/ j = n + 1
    BY <1>1, <1>2
  <2>2. CASE j = n + 1
    <3>1. 1..j - 1 = 1..n
      BY <1>1, <2>2
    <3> QED
      BY <1>5, <2>2, <3>1
  <2> QED
    BY <1>4, <2>1, <2>2
<1> QED
  BY <1>6 DEF Chain, t

\* So does the return from one.
LEMMA ChainShrinks ==
  ASSUME NEW s, Chain(s), NEW t, HasReturned(s, t)
  PROVE  Chain(t)
<1> SUFFICES ASSUME NEW j \in 1..Len(t)
             PROVE  t[j].ctx = [k \in 1..j - 1 |-> <<t[k].bb, t[k].next>>]
  BY DEF Chain
<1>1. Len(t) \in Nat \ {0} /\ j \in 1..Len(s)
  BY DEF HasReturned
<1>2. t[j].ctx = s[j].ctx
  <2>1. j = Len(t) \/ j \in 1..Len(t) - 1
    BY <1>1
  <2> QED
    BY <2>1 DEF HasReturned, SamePlaces
<1>3. \A k \in 1..j - 1 : t[k].bb = s[k].bb /\ t[k].next = s[k].next
  <2>1. \A k \in 1..j - 1 : k \in 1..Len(t) - 1
    BY <1>1
  <2> QED
    BY <2>1 DEF HasReturned, SamePlaces
<1>4. s[j].ctx = [k \in 1..j - 1 |-> <<s[k].bb, s[k].next>>]
  BY <1>1 DEF Chain
<1>5. [k \in 1..j - 1 |-> <<s[k].bb, s[k].next>>] = [k \in 1..j - 1 |-> <<t[k].bb, t[k].next>>]
  BY <1>3, Zenon
<1> QED
  BY <1>2, <1>4, <1>5, Zenon

\* How an execution came to where it is.
LEMMA CameFrom ==
  ASSUME NEW f \in Programs, NEW e \in Executions(f)
  PROVE  /\ e[1] \in ProgramLocations(f) /\ e[1][3] # 0
         /\ e[2] \in [MemBlock -> MemBlock \cup {Unset}]
         /\ \/ e = Start(f)
            \/ \E d \in Executions(f) :
                 /\ d[1] \in ProgramLocations(f) /\ d[1][3] # 0
                 /\ d[2] \in [MemBlock -> MemBlock \cup {Unset}]
                 /\ Stored(f, d, e) \/ Entered(f, d, e) \/ Followed(f, d, e) \/ Returned(f, d, e)
<1>1. /\ e \in States(f)
      /\ e = Start(f) \/ \E d \in Executions(f) : e \in Run(f, d)
  BY ExecutionsFollow
<1>2. \A d \in States(f) :
        /\ d[1] \in ProgramLocations(f) /\ d[1][3] # 0
        /\ d[2] \in [MemBlock -> MemBlock \cup {Unset}]
  BY DEF States
<1>3. ASSUME NEW d \in Executions(f), e \in Run(f, d)
      PROVE  /\ d \in States(f)
             /\ Stored(f, d, e) \/ Entered(f, d, e) \/ Followed(f, d, e) \/ Returned(f, d, e)
  <2>1. d \in States(f)
    BY ExecutionsFollow
  <2> QED
    BY <1>3, <2>1, RunFacts
<1> QED
  BY <1>1, <1>2, <1>3

\* At the start of a block that is taken from the worklist its predecessors are
\* passed: without loops, none comes later in the order.
LEMMA PredecessorsPassed ==
  ASSUME NEW f \in Programs, NEW p, NEW order \in WorklistOrders(f, p), NEW w,
         w \cap BlocksOf(f, p) # {}, NEW q \in BlocksOf(f, p),
         NEW b, b = order[First(order, w)], b \in f.succ[q], b \in BlocksOf(f, p),
         b \notin ReachFrom(f, f.succ[b], {})
  PROVE  q \notin w
<1> SUFFICES ASSUME q \in w PROVE FALSE
  OBVIOUS
<1> DEFINE S == BlocksOf(f, p)
           n == Cardinality(S)
           D == 1..n
           k == First(order, w)
<1>1. n \in Nat /\ IsFiniteSet(S) /\ S \subseteq DOMAIN f.proc
  <2>1. IsFiniteSet(DOMAIN f.proc) /\ S \in SUBSET DOMAIN f.proc
    BY ProgramsAssumption DEF BlocksOf
  <2> QED
    BY <2>1, FS_Subset, FS_CardinalityType
<1>2. order \in [D -> S] /\ \A i, j \in D : i # j => order[i] # order[j]
  BY DEF WorklistOrders, SetToSeqs
<1>3. IsFiniteSet(D) /\ Cardinality(D) = n
  <2> HIDE DEF n
  <2> QED
    BY <1>1, FS_Interval
<1> HIDE DEF n
<1>4. order \in Injection(D, S)
  BY <1>2 DEF Injection, IsInjective
<1>5. order \in Surjection(D, S)
  BY <1>1, <1>3, <1>4, FS_Injection DEF n
<1>6. PICK j \in D : order[j] = q
  BY <1>5 DEF Surjection
<1>7. Len(order) = n /\ DOMAIN order = D
  BY <1>1, <1>2
<1>8. IsFirst(order, w, k)
  BY <1>1, <1>7, SomeFirst
<1> HIDE DEF k
<1>9. k =< j /\ k \in D
  <2>1. k \in 1..n + 1 /\ \A i \in 1..k - 1 : order[i] \notin w
    BY <1>7, <1>8 DEF IsFirst
  <2>2. j \notin 1..k - 1
    BY <1>6, <2>1
  <2> QED
    BY <1>1, <2>1, <2>2
<1> DEFINE R == ReachFrom(f, f.succ[b], {})
<1>10. order[k] = b
  BY DEF k
<1>11. f.succ[b] \in SUBSET DOMAIN f.proc
  BY <1>1, ProgramsAssumption
<1>12. f.succ[b] \ {} \subseteq R /\ ClosedBlocks(f, R, {}) /\ b \notin R
  BY <1>11, ReachFacts
<1> HIDE DEF R
<1>13. CASE k = j
  BY <1>6, <1>10, <1>12, <1>13
<1>14. CASE k # j
  <2>1. k < j
    BY <1>1, <1>9, <1>14
  <2>2. order[k] \in f.succ[order[j]]
    BY <1>6, <1>10
  <2>3. order[j] \in ReachFrom(f, f.succ[order[k]], {})
    BY <1>7, <1>9, <2>1, <2>2 DEF WorklistOrders
  <2>4. q \in R
    BY <1>6, <1>10, <2>3 DEF R
  <2>5. b \in R
    BY <1>12, <2>4 DEF ClosedBlocks
  <2> QED
    BY <1>12, <2>5
<1> QED
  BY <1>13, <1>14

\* The analysis has the values that an execution has at the start of the block
\* taken next: the predecessors are passed, and the call of the procedure is
\* the one in hand.
LEMMA BlockStartCovered ==
  ASSUME IInv, CoveredSoFar, ~flowSensitive, LoopFree, Top.bb = Null, Queued(Top.ctx) # {},
         NEW b, b = info.order[ProcOf(fn, Top.ctx)][First(info.order[ProcOf(fn, Top.ctx)], worklist)],
         NEW e \in Executions(fn), e[1] = <<Top.ctx, b, 1>>
  PROVE  Covered(e)
<1> DEFINE n == Len(stack)
           p == ProcOf(fn, Top.ctx)
           S == BlocksOf(fn, p)
<1>1. /\ fn \in Programs /\ stack \in Seq(Frames(fn)) /\ stack # <<>> /\ Chain(stack)
      /\ n \in Nat \ {0} /\ Top = stack[n] /\ Top \in Frames(fn)
  <2>1. fn \in Programs /\ stack \in Seq(Frames(fn)) /\ stack # <<>> /\ Chain(stack)
    BY DEF IInv, TypeInv, CoveredSoFar
  <2>2. n \in Nat \ {0} /\ Last(stack) = stack[n]
    BY <2>1, Replaced
  <2> QED
    BY <2>1, <2>2, StackFacts DEF Top
<1>2. Top.ctx \in Contexts(fn) /\ p \in Procedures(fn) /\ worklist \cap S # {}
  BY <1>1, ContextsAreClosed DEF Frames, Queued
<1>3. b \in S
  BY <1>2, TakenFacts
<1>4. ASSUME NEW d \in Executions(fn), Arrived(d[1], stack, worklist), e[2] = d[2]
      PROVE  Covered(e)
  BY <1>4 DEF CoveredSoFar, Covered
<1>5. CASE e = Start(fn)
  <2>1. e[2] = [m \in MemBlock |-> Unset]
    BY <1>5 DEF Start
  <2> QED
    BY <2>1 DEF Covered
<1>6. ASSUME NEW d \in Executions(fn), d[1] \in ProgramLocations(fn), d[1][3] # 0,
             Stored(fn, d, e) \/ Returned(fn, d, e)
      PROVE  FALSE
  <2>1. d[1][3] \in Nat \ {0} /\ d[1][1] \in Contexts(fn)
    BY <1>1, <1>6, PlaceFacts
  <2>2. CASE Stored(fn, d, e)
    <3>1. e[1] = <<d[1][1], d[1][2], d[1][3] + 1>>
      BY <2>2 DEF Stored
    <3>2. d[1][3] + 1 = 1
      BY <3>1
    <3> QED
      BY <2>1, <3>2
  <2>3. CASE Returned(fn, d, e)
    <3>1. d[1][1] # <<>> /\ e[1] = <<Front(d[1][1]), Last(d[1][1])[1], Last(d[1][1])[2] + 1>>
      BY <2>3 DEF Returned
    <3>2. Last(d[1][1])[2] \in Nat \ {0}
      <4>1. Last(d[1][1]) \in CallSites(fn)
        BY <1>1, <2>1, <3>1, ReturnFacts DEF CallsIn
      <4> QED
        BY <1>1, <4>1, CallFacts
    <3>3. Last(d[1][1])[2] + 1 = 1
      BY <3>1
    <3> QED
      BY <3>2, <3>3
  <2> QED
    BY <1>6, <2>2, <2>3
<1>7. ASSUME NEW d \in Executions(fn), d[1] \in ProgramLocations(fn), d[1][3] # 0,
             Followed(fn, d, e)
      PROVE  Covered(e)
  <2> DEFINE l == d[1]
  <2>1. PICK c \in fn.succ[l[2]] : e[1] = <<l[1], c, 1>> /\ e[2] = d[2]
    BY <1>7 DEF Followed
  <2>2. l[1] = Top.ctx /\ b \in fn.succ[l[2]]
    BY <2>1
  <2>3. l[2] \in S /\ l[2] # Null
    BY <1>1, <1>7, <2>2, PlaceFacts
  <2>4. b \notin ReachFrom(fn, fn.succ[b], {})
    BY <1>3 DEF LoopFree, BlocksOf
  <2>5. info.order[p] \in WorklistOrders(fn, p)
    BY <1>2 DEF IInv, TypeInv, InfoInv, Procedures
  <2>6. l[2] \notin worklist
    BY <1>1, <1>2, <1>3, <2>2, <2>3, <2>4, <2>5, PredecessorsPassed
  <2>7. Settled(l, n, stack, worklist)
    <3>1. Len(stack[n].ctx) = n - 1 /\ n \in 1..n
      BY <1>1, ChainFacts
    <3>2. n \in 1..Len(l[1]) + 1 /\ n = Len(l[1]) + 1
      BY <1>1, <2>2, <3>1
    <3>3. Path(l)[n] = <<l[2], l[3]>>
      BY <1>1, <1>7, <3>2, PathFacts, ZenonT(60)
    <3> QED
      BY <1>1, <2>3, <2>6, <3>3 DEF Settled
  <2>8. Arrived(l, stack, worklist)
    <3>1. n \in 1..n
      BY <1>1
    <3> HIDE DEF l
    <3> QED
      BY <1>1, <1>7, <2>2, <2>7, <3>1, ArrivedAtFrame DEF l
  <2> QED
    BY <1>4, <2>1, <2>8
<1>8. ASSUME NEW d \in Executions(fn), d[1] \in ProgramLocations(fn), d[1][3] # 0,
             Entered(fn, d, e)
      PROVE  Covered(e)
  <2> DEFINE l == d[1]
             c == stack[n].ctx
             j == n - 1
  <2>1. Append(l[1], <<l[2], l[3]>>) = c /\ e[2] = d[2]
    <3> DEFINE way == Append(l[1], <<l[2], l[3]>>)
               first == fn.entry[fn.code[l[2]][l[3]].dst]
    <3>1. e[1] = <<way, first, 1>> /\ e[2] = d[2]
      BY <1>8 DEF Entered
    <3> HIDE DEF way, first
    <3>2. way = Top.ctx
      BY <3>1
    <3> QED
      BY <1>1, <3>1, <3>2 DEF way
  <2>2. l[1] \in Seq(CallSites(fn)) /\ Len(l[1]) \in Nat
    BY <1>1, <1>8, PlaceFacts, ContextFacts
  <2>3. Len(c) = j /\ n \in 1..n
    BY <1>1, ChainFacts
  <2>4. /\ Len(l[1]) = j - 1 /\ j \in 1..n - 1 /\ j # n /\ j \in 1..n
        /\ c[j] = <<l[2], l[3]>> /\ SubSeq(c, 1, j - 1) = l[1]
    <3>1. ASSUME NEW T, NEW s \in Seq(T), NEW x
          PROVE  /\ Len(Append(s, x)) = Len(s) + 1 /\ Append(s, x)[Len(s) + 1] = x
                 /\ SubSeq(Append(s, x), 1, Len(s)) = s
      OBVIOUS
    <3>2. /\ Len(c) = Len(l[1]) + 1 /\ c[Len(l[1]) + 1] = <<l[2], l[3]>>
          /\ SubSeq(c, 1, Len(l[1])) = l[1]
      BY <2>1, <2>2, <3>1
    <3> HIDE DEF c, l
    <3>3. Len(l[1]) = j - 1 /\ j = Len(l[1]) + 1
      BY <1>1, <2>2, <2>3, <3>2
    <3> QED
      BY <1>1, <2>2, <2>3, <3>2, <3>3
  <2>5. <<stack[j].bb, stack[j].next>> = <<l[2], l[3]>> /\ stack[j].ctx = l[1]
    <3>1. /\ c[j] = <<stack[j].bb, stack[j].next>>
          /\ SubSeq(c, 1, j - 1) = stack[j].ctx
      <4> HIDE DEF l, j
      <4> QED
        BY <1>1, <2>4, BelowTop
    <3> QED
      BY <2>4, <3>1
  <2>6. Arrived(l, stack, worklist)
    <3> HIDE DEF l, j
    <3> QED
      BY <1>1, <1>8, <2>4, <2>5, ArrivedAtFrame DEF l
  <2> QED
    BY <1>4, <2>1, <2>6
<1> QED
  BY <1>1, <1>5, <1>6, <1>7, <1>8, CameFrom

\* What the steps of a frame in hand have in common: the way below is the same.
LEMMA TopFacts ==
  ASSUME IInv, CoveredSoFar
  PROVE  /\ fn \in Programs /\ stack \in Seq(Frames(fn)) /\ stack # <<>> /\ Chain(stack)
         /\ Len(stack) \in Nat \ {0} /\ Top = stack[Len(stack)] /\ Top \in Frames(fn)
         /\ Top.ctx \in Contexts(fn) /\ Len(Top.ctx) = Len(stack) - 1
         /\ ProcOf(fn, Top.ctx) \in Procedures(fn)
<1>1. fn \in Programs /\ stack \in Seq(Frames(fn)) /\ stack # <<>> /\ Chain(stack)
  BY DEF IInv, TypeInv, CoveredSoFar
<1>2. Len(stack) \in Nat \ {0} /\ Last(stack) = stack[Len(stack)]
  BY <1>1, Replaced
<1>3. Top \in Frames(fn) /\ Top = stack[Len(stack)]
  BY <1>1, <1>2, StackFacts DEF Top
<1>4. Len(stack) \in 1..Len(stack)
  BY <1>2
<1>5. Top.ctx \in Contexts(fn) /\ Len(Top.ctx) = Len(stack) - 1
  BY <1>1, <1>3, <1>4, ChainFacts
<1> QED
  BY <1>1, <1>2, <1>3, <1>5, ContextsAreClosed

\* A step in which sets only grow keeps the invariant if what the analysis now
\* has arrived at was covered or is covered now.
LEMMA CoversOn ==
  ASSUME CoveredSoFar, fn' = fn, flowSensitive' = flowSensitive, Chain(stack)', NoneUndefined',
         ~flowSensitive => \A m \in MemBlock : points_to[m][Anywhere] \subseteq points_to'[m][Anywhere],
         \A e \in Executions(fn) :
           ~flowSensitive /\ LoopFree /\ Arrived(e[1], stack', worklist') =>
             Arrived(e[1], stack, worklist) \/ Covered(e) \/ Covered(e)'
  PROVE  CoveredSoFar'
<1>1. LoopFree' = LoopFree
  BY DEF LoopFree
<1>2. ASSUME NEW e \in Executions(fn), ~flowSensitive, Covered(e) PROVE Covered(e)'
  BY <1>2 DEF Covered, Anywhere
<1>3. ASSUME ~flowSensitive, LoopFree, NEW e \in Executions(fn), Arrived(e[1], stack', worklist')
      PROVE  Covered(e)'
  <2>1. Arrived(e[1], stack, worklist) => Covered(e)
    BY <1>3 DEF CoveredSoFar
  <2> QED
    BY <1>2, <1>3, <2>1
<1>4. \A e : Arrived(e[1], stack, worklist)' <=> Arrived(e[1], stack', worklist')
  BY DEF Arrived, LeadsThrough, Settled
<1>5. \A e \in Executions(fn') : ~flowSensitive' /\ LoopFree' /\ Arrived(e[1], stack', worklist') => Covered(e)'
  BY <1>1, <1>3
<1> QED
  BY <1>4, <1>5 DEF CoveredSoFar

\* Where a way goes on in the call of the frame in hand.
LEMMA WayFromTop ==
  ASSUME IInv, CoveredSoFar, NEW l \in ProgramLocations(fn), l[3] # 0,
         LeadsThrough(l, Len(stack), stack)
  PROVE  LET at == Path(l)[Len(stack)]
         IN  /\ at = <<at[1], at[2]>> /\ at[1] # Null
             /\ at[1] \in BlocksOf(fn, ProcOf(fn, Top.ctx))
             /\ Len(fn.code[at[1]]) \in Nat /\ at[2] \in 1..Len(fn.code[at[1]]) + 1
             /\ at[2] \in Nat \ {0}
             /\ Len(stack) # Len(Path(l)) =>
                  at \in CallsIn(fn, Top.ctx) /\ at[2] \in 1..Len(fn.code[at[1]])
             /\ Len(stack) = Len(Path(l)) => l = <<Top.ctx, at[1], at[2]>>
<1> DEFINE at == Path(l)[Len(stack)]
<1>1. /\ fn \in Programs /\ stack \in Seq(Frames(fn)) /\ Len(stack) \in 1..Len(stack)
      /\ Top.ctx = stack[Len(stack)].ctx
  BY TopFacts
<1>2. /\ at = <<at[1], at[2]>> /\ at[1] \in BlocksOf(fn, ProcOf(fn, Top.ctx)) /\ at[1] # Null
      /\ Len(fn.code[at[1]]) \in Nat /\ at[2] \in 1..Len(fn.code[at[1]]) + 1
      /\ Len(stack) # Len(Path(l)) =>
           at \in CallsIn(fn, Top.ctx) /\ at[2] \in 1..Len(fn.code[at[1]])
      /\ Len(stack) = Len(Path(l)) => l = <<Top.ctx, at[1], at[2]>>
  BY <1>1, ThroughFacts, SMTT(30)
<1> HIDE DEF at
<1>3. at[2] \in Nat \ {0}
  BY <1>2
<1> QED
  BY <1>2, <1>3 DEF at

\* A flow-insensitive merge adds to the set it had.
LEMMA EvalPhiGrows ==
  ASSUME ~flowSensitive, NEW m, NEW ctx, NEW b
  PROVE  points_to[m][Anywhere] \subseteq eval_phi(m, ctx, b)
<1> DEFINE loc   == <<ctx, b, 0>>
           lasts == {last_def_at(l, ctx, p) : l \in {def_at(m, loc)}, p \in Predecessors(b)}
           more  == UNION {PointsTo(m, d) : d \in lasts \ {At(loc)}}
<1>1. eval_phi(m, ctx, b) = points_to[m][At(loc)] \cup more
  BY DEF eval_phi
<1> HIDE DEF more, loc
<1> QED
  BY <1>1 DEF At

\* Taking a block, of which the phis are merged.
LEMMA ShiftCovers == ASSUME IInv, CoveredSoFar, shift_worklist PROVE CoveredSoFar'
<1> DEFINE n     == Len(stack)
           p     == ProcOf(fn, Top.ctx)
           b     == info.order[p][First(info.order[p], worklist)]
           merge == phis[Top.ctx, b]
           set   == [m \in merge |-> eval_phi(m, Top.ctx, b)]
           fr    == [Top EXCEPT !.bb = b, !.next = 1]
<1>1. /\ fn \in Programs /\ stack \in Seq(Frames(fn)) /\ stack # <<>> /\ Chain(stack)
      /\ n \in Nat \ {0} /\ Top = stack[n] /\ Top \in Frames(fn)
      /\ Top.ctx \in Contexts(fn) /\ Len(Top.ctx) = n - 1 /\ p \in Procedures(fn)
  BY TopFacts
<1>2. /\ Top.bb = Null /\ Queued(Top.ctx) # {}
      /\ worklist' = worklist \ {b} /\ Define(merge, <<Top.ctx, b, 0>>, set, fr)
      /\ fn' = fn /\ info' = info /\ flowSensitive' = flowSensitive /\ phis' = phis
  BY DEF shift_worklist
<1>3. b \in BlocksOf(fn, p)
  BY <1>1, <1>2, TakenFacts DEF Queued
<1> HIDE DEF b
<1>4. merge \in SUBSET MemBlock
  <2>1. Len(fn.code[b]) \in Nat
    BY <1>1, <1>3, ProgramsAssumption DEF BlocksOf
  <2>2. <<Top.ctx, b, 0>> \in ProgramLocations(fn)
    BY <1>1, <1>3, <2>1, LocationIn
  <2>3. <<Top.ctx, b>> \in {<<l[1], l[2]>> : l \in ProgramLocations(fn)}
    BY <2>2
  <2> QED
    BY <2>3 DEF IInv, TypeInv
<1>5. ~flowSensitive => \A m \in merge : points_to[m][Anywhere] \subseteq set[m]
  BY EvalPhiGrows
<1>6. /\ Len(stack') = n /\ SamePlaces(stack, stack', n - 1)
      /\ stack'[n].ctx = Top.ctx /\ stack'[n].bb = b /\ stack'[n].next = 1
  <2> DEFINE g == [fr EXCEPT !.changes = @ \cup {m \in merge : Changed(m, <<Top.ctx, b, 0>>, set[m])},
                             !.defined = @ \cup merge]
  <2>1. stack' = Append(Front(stack), g)
    BY <1>2 DEF Define
  <2>2. g.ctx = Top.ctx /\ g.bb = b /\ g.next = 1
    BY <1>1 DEF Frames
  <2> HIDE DEF g
  <2> QED
    BY <1>1, <2>1, <2>2, Replaced
<1> HIDE DEF merge, set, fr
<1>7. /\ NoneUndefined'
      /\ ~flowSensitive => \A m \in MemBlock : points_to[m][Anywhere] \subseteq points_to'[m][Anywhere]
  <2>1. CASE flowSensitive
    BY <1>2, <2>1 DEF NoneUndefined
  <2>2. CASE ~flowSensitive
    BY <1>2, <1>4, <1>5, <2>2, DefineGrows DEF CoveredSoFar
  <2> QED
    BY <2>1, <2>2 DEF IInv, TypeInv
<1>8. Chain(stack')
  <2> HIDE DEF n
  <2> QED
    BY <1>1, <1>6, ChainStays DEF n
<1>9. ASSUME ~flowSensitive, LoopFree, NEW e \in Executions(fn), Arrived(e[1], stack', worklist')
      PROVE  Arrived(e[1], stack, worklist) \/ Covered(e)
  <2> DEFINE l == e[1]
             at == Path(l)[n]
  <2>1. l \in ProgramLocations(fn) /\ l[3] # 0
    BY <1>1, CameFrom
  <2>2. ASSUME LeadsThrough(l, n, stack), ~Settled(l, n, stack, worklist) PROVE Covered(e)
    <3>1. /\ at = <<at[1], at[2]>> /\ at[1] # Null /\ at[2] \in Nat \ {0}
          /\ n = Len(Path(l)) => l = <<Top.ctx, at[1], at[2]>>
      <4> HIDE DEF l
      <4> QED
        BY <2>1, <2>2, WayFromTop
    <3>2. Settled(l, n, stack', worklist')
      <4>1. n \in 1..Len(stack') /\ LeadsThrough(l, n, stack')
        BY <1>1, <1>6, <2>2 DEF LeadsThrough
      <4> QED
        BY <1>9, <4>1 DEF Arrived
    <3> HIDE DEF at, l
    <3>3. at = <<b, 1>> /\ n = Len(Path(l))
      BY <1>1, <1>2, <1>6, <2>2, <3>1, <3>2 DEF Settled, at
    <3>4. at[1] = b /\ at[2] = 1
      BY <3>3
    <3>5. e[1] = <<Top.ctx, b, 1>>
      BY <3>1, <3>3, <3>4 DEF l
    <3> QED
      BY <1>2, <1>9, <3>5, BlockStartCovered DEF b
  <2>3. ASSUME LeadsThrough(l, n, stack) => Settled(l, n, stack, worklist)
        PROVE  Arrived(l, stack, worklist)
    <3>1. worklist \ BlocksOf(fn, ProcOf(fn, stack[n].ctx)) \subseteq worklist'
      BY <1>1, <1>2, <1>3
    <3> HIDE DEF l
    <3> QED
      BY <1>1, <1>6, <1>9, <2>1, <2>3, <3>1, TopArrives DEF l
  <2> QED
    BY <2>2, <2>3
<1> QED
  BY <1>2, <1>7, <1>8, <1>9, CoversOn DEF Chain

\* Behind a statement an execution comes from the store that it is, or from
\* the end of the procedure that it calls.
LEMMA CameBehind ==
  ASSUME NEW f \in Programs, NEW e \in Executions(f), NEW ctx, NEW b, NEW i \in Nat \ {0},
         e[1] = <<ctx, b, i + 1>>
  PROVE  \E d \in Executions(f) :
           /\ d[1] \in ProgramLocations(f) /\ d[1][3] # 0
           /\ d[2] \in [MemBlock -> MemBlock \cup {Unset}]
           /\ \/ Stored(f, d, e) /\ d[1] = <<ctx, b, i>>
              \/ /\ Returned(f, d, e) /\ d[1][1] = Append(ctx, <<b, i>>)
                 /\ <<b, i>> \in CallsIn(f, ctx)
<1>1. i + 1 # 1
  OBVIOUS
<1>2. e # Start(f)
  BY <1>1 DEF Start
<1>3. PICK d \in Executions(f) :
        /\ d[1] \in ProgramLocations(f) /\ d[1][3] # 0
        /\ d[2] \in [MemBlock -> MemBlock \cup {Unset}]
        /\ Stored(f, d, e) \/ Entered(f, d, e) \/ Followed(f, d, e) \/ Returned(f, d, e)
  BY <1>2, CameFrom
<1>4. /\ d[1] = <<d[1][1], d[1][2], d[1][3]>> /\ d[1][1] \in Contexts(f)
      /\ d[1][3] \in Nat \ {0}
  BY <1>3, PlaceFacts
<1>5. ~Entered(f, d, e) /\ ~Followed(f, d, e)
  <2>1. e[1][3] # 1
    BY <1>1
  <2>2. ASSUME Entered(f, d, e) PROVE e[1][3] = 1
    <3>1. PICK c, x : e[1] = <<c, x, 1>>
      BY <2>2, Zenon DEF Entered
    <3> QED
      BY <3>1
  <2>3. ASSUME Followed(f, d, e) PROVE e[1][3] = 1
    <3>1. PICK x : e[1] = <<d[1][1], x, 1>>
      BY <2>3, Zenon DEF Followed
    <3> QED
      BY <3>1
  <2> QED
    BY <2>1, <2>2, <2>3
<1>6. CASE Stored(f, d, e)
  <2>1. e[1] = <<d[1][1], d[1][2], d[1][3] + 1>>
    BY <1>6 DEF Stored
  <2>2. d[1][1] = ctx /\ d[1][2] = b /\ d[1][3] + 1 = i + 1
    BY <2>1
  <2>3. d[1][3] = i
    BY <1>4, <2>2
  <2>4. d[1] = <<ctx, b, i>>
    BY <1>4, <2>2, <2>3
  <2> QED
    BY <1>3, <1>6, <2>4
<1>7. CASE Returned(f, d, e)
  <2> DEFINE c == d[1][1]
  <2>1. c # <<>> /\ e[1] = <<Front(c), Last(c)[1], Last(c)[2] + 1>>
    BY <1>7 DEF Returned
  <2>2. /\ Last(c) \in CallsIn(f, Front(c)) /\ c = Append(Front(c), Last(c))
    BY <1>4, <2>1, ReturnFacts
  <2>3. Last(c) = <<Last(c)[1], Last(c)[2]>> /\ Last(c)[2] \in Nat \ {0}
    BY <2>2, CallFacts DEF CallsIn
  <2>4. Front(c) = ctx /\ Last(c)[1] = b /\ Last(c)[2] + 1 = i + 1
    BY <2>1
  <2>5. Last(c)[2] = i
    BY <2>3, <2>4
  <2>6. Last(c) = <<b, i>>
    BY <2>3, <2>4, <2>5
  <2>7. c = Append(ctx, <<b, i>>) /\ <<b, i>> \in CallsIn(f, ctx)
    BY <2>2, <2>4, <2>6
  <2> QED
    BY <1>3, <1>7, <2>7
<1> QED
  BY <1>3, <1>5, <1>6, <1>7

\* The analysis has arrived at the statement in hand.
LEMMA ArrivedHere ==
  ASSUME IInv, CoveredSoFar, here \in ProgramLocations(fn), Top.next # 0
  PROVE  Arrived(here, stack, worklist)
<1> DEFINE n == Len(stack)
<1>1. /\ fn \in Programs /\ stack \in Seq(Frames(fn)) /\ Chain(stack) /\ n \in 1..n
      /\ Top = stack[n] /\ Len(Top.ctx) = n - 1 /\ n \in Nat \ {0}
  BY TopFacts
<1>2. here[1] = Top.ctx /\ here[2] = Top.bb /\ here[3] = Top.next
  BY DEF here
<1>3. n = Len(Path(here)) /\ Path(here)[n] = <<Top.bb, Top.next>>
  <2>1. n = Len(here[1]) + 1 /\ n \in 1..Len(here[1]) + 1
    BY <1>1, <1>2
  <2> HIDE DEF n
  <2>2. Len(Path(here)) = Len(here[1]) + 1 /\ Path(here)[n] = <<here[2], here[3]>>
    BY <1>1, <1>2, <2>1, PathFacts
  <2> QED
    BY <1>2, <2>1, <2>2
<1>4. Settled(here, n, stack, worklist)
  BY <1>1, <1>3 DEF Settled
<1> QED
  BY <1>1, <1>2, <1>4, ArrivedAtFrame

\* What a store makes point where.
Target(s) == IF s.kind = "through" THEN Dereference(s.dst, here) ELSE {s.dst}
Value(s)  == IF s.kind = "copy" THEN Dereference(s.src, here) ELSE {s.src}

\* A store is of pointers.
LEMMA StorePointers ==
  ASSUME IInv, AtStatement, Statement.kind # "call"
  PROVE  /\ Statement.kind \in {"address", "copy", "through"}
         /\ Statement.dst \in MemBlock /\ Statement.src \in MemBlock
<1>1. \A f \in Programs : \A b \in DOMAIN f.proc : \A i \in DOMAIN f.code[b] :
        f.code[b][i].kind # "call" =>
          /\ f.code[b][i].kind \in {"address", "copy", "through"}
          /\ f.code[b][i].dst \in MemBlock /\ f.code[b][i].src \in MemBlock
  BY ProgramsAssumption
<1>2. fn \in Programs /\ Top.bb \in DOMAIN fn.proc /\ Top.next \in DOMAIN fn.code[Top.bb]
  BY StatementFacts DEF BlocksOf, IInv, TypeInv
<1> QED
  BY <1>1, <1>2 DEF Statement

\* A flow-insensitive store adds its values to the sets of its targets.
LEMMA StoreGrows ==
  ASSUME IInv, NoneUndefined, ~flowSensitive, handle_store
  PROVE  /\ Statement.dst \in MemBlock /\ Statement.src \in MemBlock
         /\ Target(Statement) \subseteq MemBlock
         /\ NoneUndefined'
         /\ \A m \in MemBlock : points_to[m][Anywhere] \subseteq points_to'[m][Anywhere]
         /\ \A m \in Target(Statement) : Value(Statement) \subseteq points_to'[m][Anywhere]
<1> DEFINE lhs == Target(Statement)
           rhs == Value(Statement)
           set == [m \in lhs |-> handle_assign(m, lhs, rhs, here)]
           fr  == [Top EXCEPT !.next = @ + 1]
<1>1. /\ AtStatement /\ Statement.kind # "call"
      /\ Define(lhs, here, set, fr)
      /\ flowSensitive' = flowSensitive
  BY DEF handle_store, Target, Value
<1>2. Statement.dst \in MemBlock /\ Statement.src \in MemBlock
  BY <1>1, StorePointers
<1>3. lhs \in SUBSET MemBlock
  BY <1>2, PointsToType DEF IInv, TypeInv, Target
<1> HIDE DEF lhs, rhs
<1>4. ASSUME NEW m \in lhs
      PROVE  points_to[m][Anywhere] \subseteq set[m] /\ rhs \subseteq set[m]
  BY <1>4 DEF handle_assign, At
<1> HIDE DEF set, fr
<1>5. /\ NoneUndefined'
      /\ \A m \in MemBlock : points_to[m][Anywhere] \subseteq points_to'[m][Anywhere]
      /\ \A m \in lhs : points_to'[m][Anywhere] = set[m]
  <2>1. \A m \in lhs : points_to[m][Anywhere] \subseteq set[m]
    BY <1>4
  <2>2. Define(lhs, here, set, fr) /\ flowSensitive' = flowSensitive /\ lhs \in SUBSET MemBlock
    BY <1>1, <1>3
  <2>3. NoneUndefined'
    BY <2>1, <2>2, DefineGrows
  <2>4. \A m \in MemBlock : points_to[m][Anywhere] \subseteq points_to'[m][Anywhere]
    BY <2>1, <2>2, DefineGrows
  <2>5. \A m \in lhs : points_to'[m][Anywhere] = set[m]
    BY <2>1, <2>2, DefineGrows
  <2> QED
    BY <2>3, <2>4, <2>5
<1> QED
  BY <1>2, <1>3, <1>4, <1>5 DEF lhs, rhs

\* After a store the sets have what the pointers hold when it is executed.
LEMMA StoreExecuted ==
  ASSUME IInv, NoneUndefined, ~flowSensitive, handle_store,
         NEW values \in [MemBlock -> MemBlock \cup {Unset}],
         \A m \in MemBlock : values[m] # Unset => values[m] \in points_to[m][Anywhere],
         NEW after \in Executed(values, Statement)
  PROVE  \A m \in MemBlock : after[m] # Unset => after[m] \in points_to'[m][Anywhere]
<1> DEFINE s == Statement
<1>1. /\ s.dst \in MemBlock /\ s.src \in MemBlock
      /\ \A m \in MemBlock : points_to[m][Anywhere] \subseteq points_to'[m][Anywhere]
      /\ \A m \in Target(s) : Value(s) \subseteq points_to'[m][Anywhere]
  BY StoreGrows
<1>2. \A m \in MemBlock : \A loc : Dereference(m, loc) = points_to[m][Anywhere]
  BY FoundAnywhere
<1>3. s.kind \in {"address", "copy", "through"}
  BY StorePointers DEF handle_store
<1>4. ASSUME NEW t \in MemBlock, NEW v, after = [values EXCEPT ![t] = v],
             v # Unset => t \in Target(s) /\ v \in Value(s)
      PROVE  \A m \in MemBlock : after[m] # Unset => after[m] \in points_to'[m][Anywhere]
  <2> SUFFICES ASSUME NEW m \in MemBlock, after[m] # Unset
               PROVE  after[m] \in points_to'[m][Anywhere]
    OBVIOUS
  <2>1. CASE m = t
    BY <1>1, <1>4, <2>1
  <2>2. CASE m # t
    BY <1>1, <1>4, <2>2
  <2> QED
    BY <2>1, <2>2
<1> HIDE DEF s
<1>5. CASE s.kind = "address"
  <2>1. after = [values EXCEPT ![s.dst] = s.src]
    BY <1>5 DEF Executed, s
  <2>2. s.dst \in Target(s) /\ s.src \in Value(s)
    BY <1>5 DEF Target, Value
  <2> QED
    BY <1>1, <1>4, <2>1, <2>2
<1>6. CASE s.kind = "copy"
  <2>1. after = [values EXCEPT ![s.dst] = values[s.src]]
    BY <1>6 DEF Executed, s
  <2>2. s.dst \in Target(s) /\ Value(s) = points_to[s.src][Anywhere]
    BY <1>1, <1>2, <1>6 DEF Target, Value
  <2>3. values[s.src] # Unset => values[s.src] \in Value(s)
    BY <1>1, <2>2
  <2> QED
    BY <1>1, <1>4, <2>1, <2>2, <2>3
<1>7. CASE s.kind = "through"
  <2> DEFINE t == values[s.dst]
  <2>1. t # Unset /\ after = [values EXCEPT ![t] = s.src]
    BY <1>7 DEF Executed, s
  <2>2. Target(s) = points_to[s.dst][Anywhere] /\ s.src \in Value(s)
    BY <1>1, <1>2, <1>7 DEF Target, Value
  <2>3. t \in Target(s) /\ t \in MemBlock
    BY <1>1, <2>1, <2>2
  <2> HIDE DEF t
  <2> QED
    BY <1>4, <2>1, <2>2, <2>3
<1> QED
  BY <1>3, <1>5, <1>6, <1>7

\* The analysis goes on in the block in hand, behind a statement that it does
\* not enter: it arrives behind it and nowhere else.
LEMMA NextArrives ==
  ASSUME IInv, CoveredSoFar, AtStatement, <<Top.bb, Top.next>> \notin CallsIn(fn, Top.ctx),
         NEW t, Len(t) = Len(stack), SamePlaces(stack, t, Len(stack) - 1),
         t[Len(stack)].ctx = Top.ctx, t[Len(stack)].bb = Top.bb,
         t[Len(stack)].next = Top.next + 1,
         NEW l \in ProgramLocations(fn), l[3] # 0, Arrived(l, t, worklist)
  PROVE  Arrived(l, stack, worklist) \/ l = <<Top.ctx, Top.bb, Top.next + 1>>
<1> DEFINE n == Len(stack)
           at == Path(l)[n]
           behind == <<Top.ctx, Top.bb, Top.next + 1>>
<1>1. /\ fn \in Programs /\ stack \in Seq(Frames(fn)) /\ stack # <<>> /\ Chain(stack)
      /\ n \in Nat \ {0} /\ Top = stack[n]
  BY TopFacts
<1>2. Top.next \in Nat \ {0}
  BY StatementFacts
<1> HIDE DEF behind
<1>3. ASSUME LeadsThrough(l, n, stack)
      PROVE  Settled(l, n, stack, worklist) \/ l = behind
  <2>1. /\ at = <<at[1], at[2]>> /\ at[1] # Null /\ at[2] \in Nat \ {0}
        /\ n # Len(Path(l)) => at \in CallsIn(fn, Top.ctx)
        /\ n = Len(Path(l)) => l = <<Top.ctx, at[1], at[2]>>
    BY <1>3, WayFromTop
  <2>2. Settled(l, n, t, worklist)
    <3>1. n \in 1..Len(t) /\ LeadsThrough(l, n, t)
      BY <1>1, <1>3 DEF LeadsThrough
    <3> QED
      BY <3>1 DEF Arrived
  <2> HIDE DEF at
  <2>3. CASE at = <<Top.bb, Top.next + 1>> /\ n = Len(Path(l))
    <3>1. at[1] = Top.bb /\ at[2] = Top.next + 1
      BY <2>3
    <3> QED
      BY <2>1, <2>3, <3>1 DEF behind
  <2>4. CASE at[1] = Top.bb /\ at[2] < Top.next + 1
    <3>1. at[2] < Top.next \/ at[2] = Top.next
      BY <1>2, <2>1, <2>4
    <3>2. CASE at[2] < Top.next
      BY <1>1, <2>4, <3>2 DEF Settled, at
    <3>3. CASE at[2] = Top.next
      <4>1. at = <<Top.bb, Top.next>>
        BY <2>1, <2>4, <3>3
      <4>2. n = Len(Path(l))
        BY <2>1, <4>1
      <4> QED
        BY <1>1, <4>1, <4>2 DEF Settled, at
    <3> QED
      BY <3>1, <3>2, <3>3
  <2>5. CASE at[1] # Top.bb /\ at[1] \notin worklist
    BY <1>1, <2>5 DEF Settled, at
  <2>6. \/ at = <<t[n].bb, t[n].next>> /\ (n = Len(Path(l)) \/ n < Len(t))
        \/ at[1] = t[n].bb /\ at[2] < t[n].next
        \/ at[1] # t[n].bb /\ at[1] \notin worklist
    BY <2>2 DEF Settled, at
  <2>7. t[n].bb = Top.bb /\ t[n].next = Top.next + 1 /\ ~(n < Len(t))
    BY <1>1
  <2> QED
    BY <2>3, <2>4, <2>5, <2>6, <2>7
<1>4. ASSUME LeadsThrough(l, n, stack) => Settled(l, n, stack, worklist)
      PROVE  Arrived(l, stack, worklist)
  <2>1. worklist \ BlocksOf(fn, ProcOf(fn, stack[n].ctx)) \subseteq worklist
    OBVIOUS
  <2> QED
    BY <1>1, <1>4, <2>1, TopArrives
<1> QED
  BY <1>3, <1>4 DEF behind

LEMMA StoreCovers == ASSUME IInv, CoveredSoFar, handle_store PROVE CoveredSoFar'
<1> DEFINE n   == Len(stack)
           lhs == Target(Statement)
           set == [m \in lhs |-> handle_assign(m, lhs, Value(Statement), here)]
           fr  == [Top EXCEPT !.next = @ + 1]
           g   == [fr EXCEPT !.changes = @ \cup {m \in lhs : Changed(m, here, set[m])},
                             !.defined = @ \cup lhs]
<1>1. /\ fn \in Programs /\ stack \in Seq(Frames(fn)) /\ stack # <<>> /\ Chain(stack)
      /\ n \in Nat \ {0} /\ Top = stack[n] /\ Top \in Frames(fn)
  BY TopFacts
<1>2. /\ AtStatement /\ Statement.kind # "call" /\ Define(lhs, here, set, fr)
      /\ fn' = fn /\ flowSensitive' = flowSensitive /\ worklist' = worklist
  BY DEF handle_store, Target, Value
<1>3. /\ Len(stack') = n /\ SamePlaces(stack, stack', n - 1)
      /\ stack'[n].ctx = Top.ctx /\ stack'[n].bb = Top.bb /\ stack'[n].next = Top.next + 1
  <2>1. stack' = Append(Front(stack), g)
    BY <1>2 DEF Define
  <2>2. g.ctx = Top.ctx /\ g.bb = Top.bb /\ g.next = Top.next + 1
    BY <1>1 DEF Frames
  <2> HIDE DEF g
  <2> QED
    BY <1>1, <2>1, <2>2, Replaced
<1> HIDE DEF lhs, set, fr, g
<1>4. here \in ProgramLocations(fn) /\ Top.next \in Nat \ {0}
  BY <1>2, StatementFacts
<1>5. <<Top.bb, Top.next>> \notin CallsIn(fn, Top.ctx)
  <2> SUFFICES ASSUME <<Top.bb, Top.next>> \in CallsIn(fn, Top.ctx) PROVE FALSE
    OBVIOUS
  <2>1. fn.code[Top.bb][Top.next].kind = "call"
    BY <1>1, CallFacts DEF CallsIn
  <2> QED
    BY <1>2, <2>1 DEF Statement
<1>6. /\ NoneUndefined'
      /\ ~flowSensitive => \A m \in MemBlock : points_to[m][Anywhere] \subseteq points_to'[m][Anywhere]
  <2>1. CASE flowSensitive
    BY <1>2, <2>1 DEF NoneUndefined
  <2>2. CASE ~flowSensitive
    BY <2>2, StoreGrows DEF CoveredSoFar
  <2> QED
    BY <2>1, <2>2 DEF IInv, TypeInv
<1>7. Chain(stack')
  <2> HIDE DEF n
  <2> QED
    BY <1>1, <1>3, ChainStays DEF n
<1>8. ASSUME ~flowSensitive, LoopFree, NEW e \in Executions(fn), Arrived(e[1], stack', worklist')
      PROVE  Arrived(e[1], stack, worklist) \/ Covered(e)'
  <2>1. e[1] \in ProgramLocations(fn) /\ e[1][3] # 0
    BY <1>1, CameFrom
  <2>2. Arrived(e[1], stack', worklist)
    BY <1>2, <1>8
  <2>3. Arrived(e[1], stack, worklist) \/ e[1] = <<Top.ctx, Top.bb, Top.next + 1>>
    BY <1>2, <1>3, <1>5, <2>1, <2>2, NextArrives
  <2>4. ASSUME e[1] = <<Top.ctx, Top.bb, Top.next + 1>> PROVE Covered(e)'
    <3>1. PICK d \in Executions(fn) :
            /\ d[2] \in [MemBlock -> MemBlock \cup {Unset}]
            /\ Stored(fn, d, e) /\ d[1] = here
      <4> DEFINE ctx == Top.ctx
                 b   == Top.bb
                 i   == Top.next
      <4>1. i \in Nat \ {0} /\ e[1] = <<ctx, b, i + 1>> /\ <<b, i>> \notin CallsIn(fn, ctx)
        BY <1>4, <1>5, <2>4
      <4> HIDE DEF ctx, b, i
      <4>2. \E d \in Executions(fn) :
              /\ d[2] \in [MemBlock -> MemBlock \cup {Unset}]
              /\ Stored(fn, d, e) /\ d[1] = <<ctx, b, i>>
        BY <1>1, <4>1, CameBehind
      <4> QED
        BY <4>2 DEF here, ctx, b, i
    <3>2. e[2] \in Executed(d[2], Statement)
      <4>1. here[1] = Top.ctx /\ here[2] = Top.bb /\ here[3] = Top.next
        BY DEF here
      <4> QED
        BY <3>1, <4>1 DEF Stored, Statement
    <3>3. Arrived(d[1], stack, worklist)
      BY <1>4, <3>1, ArrivedHere
    <3>4. Covered(d)
      BY <1>8, <3>3 DEF CoveredSoFar
    <3>5. \A m \in MemBlock : e[2][m] # Unset => e[2][m] \in points_to'[m][Anywhere]
      BY <1>8, <3>1, <3>2, <3>4, StoreExecuted DEF CoveredSoFar, Covered
    <3> QED
      BY <3>5 DEF Covered, Anywhere
  <2> QED
    BY <2>3, <2>4
<1> QED
  BY <1>2, <1>6, <1>7, <1>8, CoversOn DEF Chain

\* No execution is behind a call that is passed over.
LEMMA SkipCovers == ASSUME IInv, CoveredSoFar, skip_call PROVE CoveredSoFar'
<1> DEFINE n == Len(stack)
           fr == [Top EXCEPT !.next = @ + 1]
<1>1. /\ fn \in Programs /\ stack \in Seq(Frames(fn)) /\ stack # <<>> /\ Chain(stack)
      /\ n \in Nat \ {0} /\ Top = stack[n] /\ Top \in Frames(fn)
  BY TopFacts
<1>2. /\ AtStatement /\ Statement.kind = "call"
      /\ is_current_call_recursive(AncestorSets(fn), Statement.dst, ProcOf(fn, Top.ctx))
      /\ stack' = Append(Front(stack), fr)
      /\ UNCHANGED <<fn, info, flowSensitive, worklist, phis, defs, points_to, current>>
  BY DEF skip_call
<1>3. /\ Len(stack') = n /\ SamePlaces(stack, stack', n - 1)
      /\ stack'[n].ctx = Top.ctx /\ stack'[n].bb = Top.bb /\ stack'[n].next = Top.next + 1
  <2>1. fr.ctx = Top.ctx /\ fr.bb = Top.bb /\ fr.next = Top.next + 1
    BY <1>1 DEF Frames
  <2> HIDE DEF fr
  <2> QED
    BY <1>1, <1>2, <2>1, Replaced
<1> HIDE DEF fr
<1>4. Top.next \in Nat \ {0}
  BY <1>2, StatementFacts
<1>5. <<Top.bb, Top.next>> \notin CallsIn(fn, Top.ctx)
  <2>1. Callee(fn, <<Top.bb, Top.next>>) = Statement.dst
    BY DEF Callee, Statement
  <2> QED
    BY <1>2, <2>1 DEF CallsIn
<1>6. Chain(stack')
  <2> HIDE DEF n
  <2> QED
    BY <1>1, <1>3, ChainStays DEF n
<1>7. ASSUME NEW e \in Executions(fn), Arrived(e[1], stack', worklist')
      PROVE  Arrived(e[1], stack, worklist)
  <2>1. e[1] \in ProgramLocations(fn) /\ e[1][3] # 0
    BY <1>1, CameFrom
  <2>2. Arrived(e[1], stack', worklist)
    BY <1>2, <1>7
  <2>3. Arrived(e[1], stack, worklist) \/ e[1] = <<Top.ctx, Top.bb, Top.next + 1>>
    BY <1>2, <1>3, <1>5, <2>1, <2>2, NextArrives
  <2>4. ASSUME e[1] = <<Top.ctx, Top.bb, Top.next + 1>> PROVE FALSE
    <3> DEFINE ctx == Top.ctx
               b   == Top.bb
               i   == Top.next
    <3>1. i \in Nat \ {0} /\ e[1] = <<ctx, b, i + 1>> /\ <<b, i>> \notin CallsIn(fn, ctx)
      BY <1>4, <1>5, <2>4
    <3> HIDE DEF ctx, b, i
    <3>2. PICK d \in Executions(fn) : Stored(fn, d, e) /\ d[1] = <<ctx, b, i>>
      BY <1>1, <3>1, CameBehind
    <3>3. fn.code[b][i].kind # "call"
      BY <3>2 DEF Stored
    <3> QED
      BY <1>2, <3>3 DEF Statement, b, i
  <2> QED
    BY <2>3, <2>4
<1>8. NoneUndefined'
  BY <1>2 DEF NoneUndefined, CoveredSoFar, Anywhere
<1> QED
  BY <1>2, <1>6, <1>7, <1>8, CoversOn DEF Chain

\* A call does not arrive anywhere: the procedure is yet to be analysed.
LEMMA CallCovers == ASSUME IInv, CoveredSoFar, handle_call PROVE CoveredSoFar'
<1> DEFINE n  == Len(stack)
           c  == <<Top.bb, Top.next>>
           fr == Frame(Append(Top.ctx, c))
<1>1. /\ fn \in Programs /\ stack \in Seq(Frames(fn)) /\ stack # <<>> /\ Chain(stack)
      /\ n \in Nat \ {0} /\ Top = stack[n] /\ Top \in Frames(fn) /\ Top.ctx \in Contexts(fn)
  BY TopFacts
<1>2. /\ AtStatement /\ Statement.kind = "call"
      /\ ~is_current_call_recursive(AncestorSets(fn), Statement.dst, ProcOf(fn, Top.ctx))
      /\ stack' = Append(stack, fr)
      /\ worklist' = worklist \cup BlocksOf(fn, Statement.dst)
      /\ UNCHANGED <<fn, info, flowSensitive, phis, defs, points_to, current>>
  BY DEF handle_call
<1>3. c \in CallsIn(fn, Top.ctx) /\ Callee(fn, c) = Statement.dst
  <2>1. /\ Top.bb \in DOMAIN fn.proc /\ fn.proc[Top.bb] = ProcOf(fn, Top.ctx)
        /\ Top.next \in DOMAIN fn.code[Top.bb]
    BY <1>2, StatementFacts DEF BlocksOf
  <2>2. c \in CallSites(fn)
    BY <1>2, <2>1 DEF CallSites, Statement
  <2>3. Callee(fn, c) = Statement.dst
    BY DEF Callee, Statement
  <2> QED
    BY <1>2, <2>1, <2>2, <2>3 DEF CallsIn
<1>4. fr.ctx = Append(Top.ctx, c) /\ fr.bb = Null
  BY DEF Frame
<1>5. fr.ctx \in Contexts(fn) /\ ProcOf(fn, fr.ctx) = Statement.dst
  <2>1. Append(Top.ctx, c) \in Contexts(fn)
    BY <1>1, <1>3, ContextsAreClosed
  <2>2. ProcOf(fn, Append(Top.ctx, c)) = Callee(fn, c)
    <3>1. Top.ctx \in Seq(CallSites(fn)) /\ ProcOf(fn, Top.ctx) \in Procedures(fn)
      BY <1>1, ContextsAreClosed
    <3> HIDE DEF c
    <3> QED
      BY <1>1, <1>3, <3>1, CallsClimb
  <2> QED
    BY <1>3, <1>4, <2>1, <2>2
<1> HIDE DEF fr
<1>6. Chain(stack')
  <2> HIDE DEF n
  <2> QED
    BY <1>1, <1>2, <1>4, ChainGrows DEF n
<1>7. ASSUME NEW e \in Executions(fn), Arrived(e[1], stack', worklist')
      PROVE  Arrived(e[1], stack, worklist)
  <2>1. e[1] \in ProgramLocations(fn) /\ e[1][3] # 0
    BY <1>1, CameFrom
  <2>2. worklist \cup BlocksOf(fn, ProcOf(fn, fr.ctx)) \subseteq worklist'
    BY <1>2, <1>5
  <2>3. fr.ctx = Append(stack[Len(stack)].ctx, <<stack[Len(stack)].bb, stack[Len(stack)].next>>)
    BY <1>1, <1>4
  <2>4. Arrived(e[1], Append(stack, fr), worklist')
    BY <1>2, <1>7
  <2> QED
    BY <1>1, <1>4, <1>5, <2>1, <2>2, <2>3, <2>4, CallArrives
<1>8. NoneUndefined'
  BY <1>2 DEF NoneUndefined, CoveredSoFar, Anywhere
<1> QED
  BY <1>2, <1>6, <1>7, <1>8, CoversOn DEF Chain

\* The blocks that are queued again are passed no more.
LEMMA EndBlockCovers == ASSUME IInv, CoveredSoFar, endBlock PROVE CoveredSoFar'
<1> DEFINE n    == Len(stack)
           done == [Top EXCEPT !.bb = Null, !.next = 0, !.changes = {}]
           passed(fr) == [fr EXCEPT !.changes = @ \cup process_extern_changes(Top)]
<1>1. /\ fn \in Programs /\ stack \in Seq(Frames(fn)) /\ stack # <<>> /\ Chain(stack)
      /\ n \in Nat \ {0} /\ Top = stack[n] /\ Top \in Frames(fn)
  BY TopFacts
<1>2. /\ Top.bb # Null /\ Top.next > Len(fn.code[Top.bb]) /\ worklist \subseteq worklist'
      /\ stack' = [i \in 1..n |-> IF i = n THEN done
                                  ELSE IF i = n - 1 THEN passed(stack[i]) ELSE stack[i]]
      /\ UNCHANGED <<fn, info, flowSensitive, defs, points_to, current>>
  BY DEF endBlock
<1>3. /\ done.ctx = Top.ctx /\ done.bb = Null /\ done.next = 0
      /\ \A fr \in Frames(fn) :
           passed(fr).ctx = fr.ctx /\ passed(fr).bb = fr.bb /\ passed(fr).next = fr.next
  BY <1>1 DEF Frames
<1> HIDE DEF done, passed
<1>4. /\ Len(stack') = n /\ SamePlaces(stack, stack', n - 1)
      /\ stack'[n].ctx = Top.ctx /\ stack'[n].bb = Null /\ stack'[n].next = 0
  <2>1. stack' \in Seq(Frames(fn))
    BY <1>2, EndBlockKeeps DEF IInv, TypeInv
  <2>2. DOMAIN stack' = 1..n
    BY <1>2
  <2>3. Len(stack') = n
    <3>1. DOMAIN stack' = 1..Len(stack') /\ Len(stack') \in Nat
      BY <2>1
    <3> HIDE <1>2
    <3> QED
      BY <1>1, <2>2, <3>1
  <2>4. stack'[n] = done
    BY <1>1, <1>2
  <2>5. ASSUME NEW k \in 1..n - 1
        PROVE  stack'[k].ctx = stack[k].ctx /\ stack'[k].bb = stack[k].bb /\ stack'[k].next = stack[k].next
    <3>1. k \in 1..n /\ k # n /\ stack[k] \in Frames(fn)
      BY <1>1
    <3>2. stack'[k] = IF k = n - 1 THEN passed(stack[k]) ELSE stack[k]
      BY <1>2, <3>1
    <3> QED
      BY <1>3, <3>1, <3>2
  <2> QED
    BY <1>3, <2>3, <2>4, <2>5 DEF SamePlaces
<1>5. Chain(stack')
  <2> HIDE DEF n
  <2> QED
    BY <1>1, <1>4, ChainStays DEF n
<1>6. ASSUME NEW e \in Executions(fn), Arrived(e[1], stack', worklist')
      PROVE  Arrived(e[1], stack, worklist)
  <2> DEFINE l == e[1]
             at == Path(l)[n]
  <2>1. l \in ProgramLocations(fn) /\ l[3] # 0
    BY <1>1, CameFrom
  <2>2. LeadsThrough(l, n, stack) => Settled(l, n, stack, worklist)
    <3> SUFFICES ASSUME LeadsThrough(l, n, stack) PROVE Settled(l, n, stack, worklist)
      OBVIOUS
    <3>1. /\ at = <<at[1], at[2]>> /\ at[1] # Null /\ at[2] \in Nat \ {0}
          /\ Len(fn.code[at[1]]) \in Nat /\ at[2] \in 1..Len(fn.code[at[1]]) + 1
          /\ n # Len(Path(l)) => at[2] \in 1..Len(fn.code[at[1]])
      <4> HIDE DEF l
      <4> QED
        BY <2>1, WayFromTop
    <3>2. Settled(l, n, stack', worklist')
      <4>1. n \in 1..Len(stack') /\ LeadsThrough(l, n, stack')
        BY <1>1, <1>4 DEF LeadsThrough
      <4> QED
        BY <1>6, <4>1 DEF Arrived
    <3> HIDE DEF at, l
    <3>3. at[1] \notin worklist'
      BY <1>4, <3>1, <3>2 DEF Settled, at
    <3>4. CASE at[1] # Top.bb
      BY <1>1, <1>2, <3>3, <3>4 DEF Settled, at
    <3>5. CASE at[1] = Top.bb
      <4>1. Top.next \in Nat
        BY <1>1 DEF Frames
      <4>2. at[2] < Top.next \/ (at[2] = Top.next /\ n = Len(Path(l)))
        BY <1>2, <3>1, <3>5, <4>1
      <4>3. at[2] = Top.next => at = <<Top.bb, Top.next>>
        BY <3>1, <3>5
      <4> QED
        BY <1>1, <3>5, <4>2, <4>3 DEF Settled, at
    <3> QED
      BY <3>4, <3>5
  <2>3. worklist \ BlocksOf(fn, ProcOf(fn, stack[n].ctx)) \subseteq worklist'
    BY <1>2
  <2> HIDE DEF l
  <2> QED
    BY <1>1, <1>4, <1>6, <2>1, <2>2, <2>3, TopArrives DEF l
<1>7. NoneUndefined'
  BY <1>2 DEF NoneUndefined, CoveredSoFar, Anywhere
<1> QED
  BY <1>2, <1>5, <1>6, <1>7, CoversOn DEF Chain

\* Behind a call that has ended the analysis has what an execution brings back.
LEMMA ExternCovers == ASSUME IInv, CoveredSoFar, record_extern_io PROVE CoveredSoFar'
<1> DEFINE n       == Len(stack)
           caller  == stack[n - 1]
           called  == ProcOf(fn, Top.ctx)
           visible == {m \in Top.defined :
             /\ fn.owner[m] # called /\ is_in_scope(fn, called, m)
             /\ is_in_scope(fn, ProcOf(fn, caller.ctx), m)}
           fr == [caller EXCEPT !.next = @ + 1, !.defined = @ \cup visible]
<1>1. /\ fn \in Programs /\ stack \in Seq(Frames(fn)) /\ stack # <<>> /\ Chain(stack)
      /\ n \in Nat \ {0} /\ Top = stack[n] /\ Top.ctx \in Contexts(fn) /\ Len(Top.ctx) = n - 1
  BY TopFacts
<1>2. /\ Top.bb = Null /\ Queued(Top.ctx) = {} /\ n > 1
      /\ stack' = Append(SubSeq(stack, 1, n - 2), fr)
      /\ UNCHANGED <<fn, info, flowSensitive, worklist, phis, defs, points_to>>
  BY DEF record_extern_io
<1>3. n - 1 \in 1..n /\ n - 1 \in 1..Len(stack) - 1 /\ caller \in Frames(fn)
  <2>1. n - 1 \in 1..n /\ n - 1 \in 1..Len(stack) - 1
    BY <1>1, <1>2
  <2> QED
    BY <1>1, <2>1
<1> HIDE DEF visible
<1>4. fr.ctx = caller.ctx /\ fr.bb = caller.bb /\ fr.next = caller.next + 1
  <2> HIDE DEF caller
  <2> QED
    BY <1>3 DEF Frames
<1> HIDE DEF fr
<1>5. HasReturned(stack, stack')
  <2> DEFINE u == SubSeq(stack, 1, n - 2)
  <2>1. u \in Seq(Frames(fn)) /\ Len(u) = n - 2 /\ \A i \in 1..n - 2 : u[i] = stack[i]
    <3>1. ASSUME NEW k \in Nat, k =< Len(stack)
          PROVE  /\ SubSeq(stack, 1, k) \in Seq(Frames(fn)) /\ Len(SubSeq(stack, 1, k)) = k
                 /\ \A i \in 1..k : SubSeq(stack, 1, k)[i] = stack[i]
      BY <1>1, <3>1
    <3>2. n - 2 \in Nat /\ n - 2 =< Len(stack)
      BY <1>1, <1>2
    <3> QED
      BY <3>1, <3>2, Zenon DEF u
  <2>2. /\ Len(stack') = n - 1 /\ stack'[n - 1] = fr
        /\ \A i \in 1..n - 2 : stack'[i] = stack[i]
    <3>1. stack' = Append(u, fr)
      BY <1>2
    <3> HIDE DEF u
    <3> QED
      BY <1>1, <1>2, <2>1, <3>1, SMTT(30)
  <2>3. n - 1 \in Nat \ {0} /\ n = (n - 1) + 1 /\ (n - 1) - 1 = n - 2
    BY <1>1, <1>2
  <2>4. SamePlaces(stack, stack', (n - 1) - 1)
    BY <2>2, <2>3 DEF SamePlaces
  <2> QED
    BY <1>4, <2>2, <2>3, <2>4 DEF HasReturned
<1>6. Chain(stack')
  BY <1>1, <1>5, ChainShrinks
<1>7. ASSUME ~flowSensitive, LoopFree, NEW e \in Executions(fn), Arrived(e[1], stack', worklist')
      PROVE  Arrived(e[1], stack, worklist) \/ Covered(e)
  <2> DEFINE ctx == caller.ctx
             b   == caller.bb
             i   == caller.next
  <2>1. e[1] \in ProgramLocations(fn) /\ e[1][3] # 0
    BY <1>1, CameFrom
  <2>2. worklist \cap BlocksOf(fn, called) = {}
    BY <1>2 DEF Queued
  <2>3. Arrived(e[1], stack, worklist) \/ e[1] = <<ctx, b, i + 1>>
    <3>1. Arrived(e[1], stack', worklist)
      BY <1>2, <1>7
    <3>2. stack[Len(stack)].bb = Null
          /\ worklist \cap BlocksOf(fn, ProcOf(fn, stack[Len(stack)].ctx)) = {}
      BY <1>1, <1>2, <2>2
    <3> HIDE DEF n
    <3> QED
      BY <1>1, <1>5, <2>1, <3>1, <3>2, ReturnArrives DEF n
  <2>4. ASSUME e[1] = <<ctx, b, i + 1>> PROVE Covered(e)
    <3>1. <<b, i>> \in CallsIn(fn, ctx) /\ Top.ctx[n - 1] = <<b, i>> /\ SubSeq(Top.ctx, 1, (n - 1) - 1) = ctx
      BY <1>1, <1>3, BelowTop
    <3>2. Top.ctx = Append(ctx, <<b, i>>)
      <4>1. Top.ctx # <<>>
        BY <1>1, <1>2
      <4>2. /\ Top.ctx = Append(Front(Top.ctx), Last(Top.ctx))
            /\ Last(Top.ctx) = Top.ctx[Len(Top.ctx)]
            /\ Front(Top.ctx) = SubSeq(Top.ctx, 1, Len(Top.ctx) - 1)
        BY <1>1, <4>1, ReturnFacts
      <4> QED
        BY <1>1, <3>1, <4>2
    <3>3. fn.code[b][i].kind = "call" /\ i \in Nat \ {0}
      <4> DEFINE c == <<b, i>>
      <4>1. c[1] = b /\ c[2] = i /\ c \in CallsIn(fn, ctx)
        BY <3>1
      <4> HIDE DEF c, b, i
      <4> QED
        BY <1>1, <4>1, CallFacts DEF CallsIn
    <3> HIDE DEF ctx, b, i
    <3>4. PICK d \in Executions(fn) :
            /\ d[1] \in ProgramLocations(fn) /\ d[1][3] # 0
            /\ \/ Stored(fn, d, e) /\ d[1] = <<ctx, b, i>>
               \/ /\ Returned(fn, d, e) /\ d[1][1] = Append(ctx, <<b, i>>)
                  /\ <<b, i>> \in CallsIn(fn, ctx)
      BY <1>1, <2>4, <3>3, CameBehind
    <3>5. ~(Stored(fn, d, e) /\ d[1] = <<ctx, b, i>>)
      BY <3>3 DEF Stored
    <3>6. d[1][1] = Top.ctx /\ e[2] = d[2]
      BY <3>2, <3>4, <3>5 DEF Returned
    <3> DEFINE l == d[1]
    <3>7. l[2] \in BlocksOf(fn, called) /\ l[2] # Null
      BY <1>1, <3>4, <3>6, PlaceFacts
    <3>8. Settled(l, n, stack, worklist)
      <4>1. n \in 1..Len(l[1]) + 1 /\ n = Len(l[1]) + 1
        BY <1>1, <3>6
      <4>2. Path(l)[n] = <<l[2], l[3]>>
        BY <1>1, <3>4, <4>1, PathFacts, ZenonT(60)
      <4> QED
        BY <1>1, <1>2, <2>2, <3>7, <4>2 DEF Settled
    <3>9. Arrived(l, stack, worklist)
      <4>1. n \in 1..n /\ l[1] = stack[n].ctx
        BY <1>1, <3>6
      <4> HIDE DEF l
      <4> QED
        BY <1>1, <3>4, <3>8, <4>1, ArrivedAtFrame DEF l
    <3> QED
      BY <1>7, <3>6, <3>9 DEF CoveredSoFar, Covered
  <2> QED
    BY <2>3, <2>4
<1>8. NoneUndefined'
  BY <1>2 DEF NoneUndefined, CoveredSoFar, Anywhere
<1> QED
  BY <1>2, <1>6, <1>7, <1>8, CoversOn DEF Chain

LEMMA NextCovers == ASSUME IInv, CoveredSoFar, [Next]_vars PROVE CoveredSoFar'
<1>1. CASE UNCHANGED vars
  <2>1. NoneUndefined' /\ Chain(stack)'
    BY <1>1 DEF vars, NoneUndefined, CoveredSoFar, Chain, Anywhere
  <2>2. \A e : Arrived(e[1], stack', worklist') => Arrived(e[1], stack, worklist)
    BY <1>1 DEF vars
  <2> QED
    BY <1>1, <2>1, <2>2, CoversOn DEF vars
<1> QED
  BY <1>1, ShiftCovers, StoreCovers, SkipCovers, CallCovers, ExternCovers, EndBlockCovers DEF Next

\* At first all blocks of main are queued: the analysis has arrived nowhere.
LEMMA InitCovers == ASSUME Init PROVE CoveredSoFar
<1> DEFINE fr == Frame(<<>>)
<1>1. /\ fn \in Programs /\ worklist = BlocksOf(fn, fn.main) /\ stack = <<fr>>
      /\ fr.ctx = <<>> /\ fr.bb = Null
  BY DEF Init, Frame
<1> HIDE DEF fr
<1>2. Len(stack) = 1 /\ stack[1] = fr
  BY <1>1
<1>3. Chain(stack)
  <2>1. [k \in 1..1 - 1 |-> <<stack[k].bb, stack[k].next>>] = <<>>
    OBVIOUS
  <2> QED
    BY <1>1, <1>2, <2>1 DEF Chain
<1>4. NoneUndefined
  <2>1. Anywhere \in ProgramLocations(fn)
    BY DEF Anywhere, ProgramLocations
  <2> QED
    BY <2>1 DEF NoneUndefined, Init
<1>5. ASSUME NEW e \in Executions(fn), Arrived(e[1], stack, worklist) PROVE FALSE
  <2> DEFINE l == e[1]
             at == Path(l)[1]
  <2>1. l \in ProgramLocations(fn) /\ l[3] # 0
    BY <1>1, CameFrom
  <2>2. LeadsThrough(l, 1, stack)
    <3>1. l[1] \in Seq(CallSites(fn)) /\ Len(l[1]) \in Nat
      BY <1>1, <2>1, PlaceFacts, ContextFacts
    <3>2. ASSUME NEW T, NEW s \in Seq(T) PROVE SubSeq(s, 1, 1 - 1) = <<>>
      BY <3>2
    <3> HIDE DEF l
    <3>3. SubSeq(l[1], 1, 1 - 1) = <<>> /\ 1 - 1 =< Len(l[1])
      BY <3>1, <3>2
    <3>4. stack[1].ctx = <<>>
      BY <1>1, <1>2
    <3> QED
      BY <3>3, <3>4, Zenon DEF LeadsThrough
  <2>3. at = <<at[1], at[2]>> /\ at[1] # Null /\ at[1] \in BlocksOf(fn, ProcOf(fn, fr.ctx))
    <3>1. stack \in Seq(Frames(fn)) /\ 1 \in 1..Len(stack)
      BY <1>2, InitIInv DEF IInv, TypeInv
    <3> HIDE DEF l
    <3> QED
      BY <1>1, <1>2, <2>1, <2>2, <3>1, ThroughFacts
  <2>4. at[1] \in worklist
    BY <1>1, <2>3 DEF ProcOf
  <2>5. Settled(l, 1, stack, worklist)
    <3>1. 1 \in 1..Len(stack)
      BY <1>2
    <3> QED
      BY <1>5, <2>2, <3>1 DEF Arrived
  <2> HIDE DEF at
  <2> QED
    BY <1>1, <1>2, <2>3, <2>4, <2>5 DEF Settled, at
<1> QED
  BY <1>3, <1>4, <1>5 DEF CoveredSoFar

\* When the worklist is empty the analysis has arrived everywhere.
LEMMA ConvergedArrived ==
  ASSUME IInv, CoveredSoFar, Converged, NEW l \in ProgramLocations(fn), l[3] # 0
  PROVE  Arrived(l, stack, worklist)
<1>1. /\ fn \in Programs /\ stack \in Seq(Frames(fn)) /\ Len(stack) = 1
      /\ stack[1].bb = Null /\ worklist \cap BlocksOf(fn, ProcOf(fn, <<>>)) = {}
      /\ stack[1].ctx \in Contexts(fn) /\ Len(stack[1].ctx) = 0
  BY TopFacts DEF Converged, Queued
<1>2. stack[1].ctx = <<>>
  BY <1>1, ContextFacts
<1> SUFFICES ASSUME NEW k \in 1..Len(stack), LeadsThrough(l, k, stack)
             PROVE  Settled(l, k, stack, worklist)
  BY DEF Arrived
<1> DEFINE at == Path(l)[k]
<1>3. k = 1
  BY <1>1
<1>4. at[1] # Null /\ at[1] \in BlocksOf(fn, ProcOf(fn, stack[k].ctx))
  BY <1>1, ThroughFacts
<1> HIDE DEF at
<1> QED
  BY <1>1, <1>2, <1>3, <1>4 DEF Settled, at

\* What has been arrived at is covered, in every state of the analysis.
THEOREM AlwaysCoveredSoFar == Spec => [](IInv /\ CoveredSoFar)
<1>1. Init => IInv /\ CoveredSoFar
  BY InitIInv, InitCovers
<1>2. IInv /\ CoveredSoFar /\ [Next]_vars => (IInv /\ CoveredSoFar)'
  BY NextKeeps, NextCovers
<1> QED
  BY <1>1, <1>2, PTL DEF Spec

\* Flow-insensitively the analysis of a program without loops is sound, however
\* its procedures call one another and whatever its pointers are: when the
\* worklist is empty, the set of a pointer has every value that the pointer has
\* in some execution (Main_DFA_Algo.cpp:233-294, 603-640).
THEOREM AlwaysSoundInsensitive == Spec => [](~flowSensitive => SoundWhereOrdered)
<1>1. IInv /\ CoveredSoFar => (~flowSensitive => SoundWhereOrdered)
  <2> SUFFICES ASSUME IInv, CoveredSoFar, ~flowSensitive, LoopFree, Converged PROVE Sound
    BY DEF SoundWhereOrdered
  <2>1. ASSUME NEW e \in Executions(fn) PROVE Covered(e)
    <3>1. e[1] \in ProgramLocations(fn) /\ e[1][3] # 0
      BY CameFrom DEF IInv, TypeInv
    <3>2. Arrived(e[1], stack, worklist)
      BY <3>1, ConvergedArrived
    <3> QED
      BY <3>2 DEF CoveredSoFar
  <2>2. \A m \in MemBlock : \A ctx, b :
          PointsTo(m, last_def_at(defs[m], ctx, b)) = points_to[m][Anywhere]
    BY FoundAnywhere DEF CoveredSoFar
  <2> QED
    BY <2>1, <2>2 DEF Sound, Covered
<1> QED
  BY <1>1, AlwaysCoveredSoFar, PTL

=============================================================================
