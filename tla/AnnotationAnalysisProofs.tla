---------------------- MODULE AnnotationAnalysisProofs ----------------------
(***************************************************************************)
(* For every tree of property values: heights and meets.  For every        *)
(* program, with any annotations: how far the analysis lowers the values   *)
(* of the memory blocks.                                                   *)
(*                                                                         *)
(* And in a program without loops: that it misses none of the values and   *)
(* reports of an execution.                                                *)
(***************************************************************************)
EXTENDS AnnotationAnalysis, FiniteSetTheorems, WellFoundedInduction, TLAPS

-----------------------------------------------------------------------------
(* The tree of a property.  The functions that are defined by recursion    *)
(* along more_general have a solution, found without recursion; what it    *)
(* satisfies is their equation.                                            *)

Nodes(P) == P.values \cup {Bottom}

\* S holds with a value the one below it.
Closed(P, S) == \A u \in S : u # Bottom => P.more_general[u] \in S

\* The values on the way down from v: the least closed set with v.
Chain(P, v) == {u \in Nodes(P) : \A S \in SUBSET Nodes(P) : v \in S /\ Closed(P, S) => u \in S}

\* d is what Below makes of the way down.
IsDown(P, d) ==
  d = [u \in P.values \cup {Bottom} |->
         {u} \cup (IF u = Bottom THEN {} ELSE d[P.more_general[u]])]

\* The ways down satisfy their equation.
LEMMA ChainUnfolds ==
  ASSUME NEW P, IsTree(P), NEW v \in Nodes(P)
  PROVE  Chain(P, v) = {v} \cup (IF v = Bottom THEN {} ELSE Chain(P, P.more_general[v]))
<1> DEFINE lower == P.more_general[v]
           T == {v} \cup (IF v = Bottom THEN {} ELSE Chain(P, lower))
<1>0. v # Bottom => lower \in Nodes(P)
  BY DEF IsTree, Nodes
<1>1. ASSUME NEW w \in Nodes(P)
      PROVE  w \in Chain(P, w) /\ Closed(P, Chain(P, w)) /\ Chain(P, w) \subseteq Nodes(P)
  BY DEF Chain, Closed, IsTree, Nodes
<1>2. Chain(P, v) \subseteq T
  <2>1. T \in SUBSET Nodes(P) /\ v \in T
    BY <1>0, <1>1
  <2>2. Closed(P, T)
    BY <1>0, <1>1 DEF Closed, Nodes
  <2> QED
    BY <2>1, <2>2 DEF Chain
<1>3. ASSUME v # Bottom PROVE Chain(P, lower) \subseteq Chain(P, v)
  <2>1. lower \in Chain(P, v)
    BY <1>1, <1>3 DEF Closed
  <2> QED
    BY <1>1, <2>1 DEF Chain
<1> QED
  BY <1>1, <1>2, <1>3

\* There is a solution.
LEMMA SomeDown == ASSUME NEW P, IsTree(P) PROVE \E d : IsDown(P, d)
<1> DEFINE d == [u \in Nodes(P) |-> Chain(P, u)]
<1>1. ASSUME NEW u \in Nodes(P)
      PROVE  d[u] = {u} \cup (IF u = Bottom THEN {} ELSE d[P.more_general[u]])
  <2>1. u # Bottom => P.more_general[u] \in Nodes(P)
    BY DEF IsTree, Nodes
  <2> QED
    BY <2>1, ChainUnfolds
<1>2. IsDown(P, d)
  BY <1>1 DEF IsDown, Nodes
<1> QED
  BY <1>2

\* The way down that Below looks at.
Down(P) == CHOOSE d : IsDown(P, d)

\* Its equation, and Below in its terms.
LEMMA DownUnfolds ==
  ASSUME NEW P, IsTree(P)
  PROVE  /\ \A u \in P.values : Down(P)[u] = {u} \cup Down(P)[P.more_general[u]]
         /\ Down(P)[Bottom] = {Bottom}
         /\ \A v, w : Below(P, v, w) <=> (w = Top \/ (v # Top /\ v \in Down(P)[w]))
<1>1. IsDown(P, Down(P))
  BY SomeDown DEF Down
<1>2. /\ \A u \in P.values : Down(P)[u] = {u} \cup Down(P)[P.more_general[u]]
      /\ Down(P)[Bottom] = {Bottom}
  BY <1>1 DEF IsDown, IsTree
<1>3. \A v, w : Below(P, v, w) <=> (w = Top \/ (v # Top /\ v \in Down(P)[w]))
  BY DEF Below, Down, IsDown
<1> QED
  BY <1>2, <1>3

-----------------------------------------------------------------------------
(* Below is an order in which the values below a value are a chain, so that *)
(* every set of values has a greatest value below all of them.             *)

\* The way down from a value has the value and the bottom, and with a value the
\* way down from there; it is the least such set.
LEMMA DownFacts ==
  ASSUME NEW P, IsTree(P), NEW v \in Nodes(P)
  PROVE  /\ v \in Down(P)[v] /\ Down(P)[v] \subseteq Nodes(P)
         /\ Bottom \in Down(P)[v]
         /\ Closed(P, Down(P)[v])
         /\ \A S : v \in S /\ Closed(P, S) => Down(P)[v] \subseteq S
<1> DEFINE D == Down(P)
           Good(u) == /\ u \in D[u] /\ D[u] \subseteq Nodes(P)
                      /\ Bottom \in D[u]
                      /\ Closed(P, D[u])
                      /\ \A S : u \in S /\ Closed(P, S) => D[u] \subseteq S
           Bad == {u \in P.values : ~Good(u)}
<1>1. /\ \A u \in P.values : D[u] = {u} \cup D[P.more_general[u]]
      /\ D[Bottom] = {Bottom}
  BY DownUnfolds
<1> HIDE DEF D
<1>2. Good(Bottom)
  BY <1>1 DEF Closed, Nodes
<1>3. ASSUME Bad # {} PROVE FALSE
  <2>1. PICK u \in Bad : P.more_general[u] \notin Bad
    <3>1. Bad \in SUBSET P.values
      OBVIOUS
    <3> HIDE DEF Bad
    <3> QED
      BY <1>3, <3>1 DEF IsTree
  <2>2. u \in P.values /\ u # Bottom /\ P.more_general[u] \in Nodes(P)
    BY DEF IsTree, Nodes
  <2>3. Good(P.more_general[u])
    BY <1>2, <2>1, <2>2 DEF Nodes
  <2>4. D[u] = {u} \cup D[P.more_general[u]]
    BY <1>1, <2>2
  <2>5. u \in D[u] /\ D[u] \subseteq Nodes(P) /\ Bottom \in D[u]
    BY <2>2, <2>3, <2>4 DEF Nodes
  <2>6. Closed(P, D[u])
    BY <2>3, <2>4 DEF Closed
  <2>7. ASSUME NEW S, u \in S, Closed(P, S) PROVE D[u] \subseteq S
    <3>1. P.more_general[u] \in S
      BY <2>2, <2>7 DEF Closed
    <3> QED
      BY <2>3, <2>4, <2>7, <3>1
  <2> QED
    BY <2>1, <2>5, <2>6, <2>7
<1>4. Good(v)
  BY <1>2, <1>3 DEF Nodes
<1> QED
  BY <1>4 DEF D

\* Two values on each other's way down are one.
LEMMA DownAntisymmetric ==
  ASSUME NEW P, IsTree(P), NEW v \in Nodes(P), NEW w \in Nodes(P),
         v \in Down(P)[w], w \in Down(P)[v]
  PROVE  v = w
<1> DEFINE D == Down(P)
           S == {u \in P.values : u \in D[v] /\ v \in D[u]}
<1>1. /\ \A u \in P.values : D[u] = {u} \cup D[P.more_general[u]]
      /\ D[Bottom] = {Bottom}
  BY DownUnfolds
<1>2. CASE v = Bottom
  BY <1>1, <1>2
<1>3. CASE v # Bottom /\ v # w
  <2>1. v \in P.values /\ v \in D[v] /\ Closed(P, D[v])
    BY <1>3, DownFacts DEF Nodes
  <2>2. S \in SUBSET P.values /\ S # {}
    BY <2>1
  <2>3. PICK u \in S : P.more_general[u] \notin S
    <3> HIDE DEF S
    <3> QED
      BY <2>2 DEF IsTree
  <2>4. /\ u \in P.values /\ u # Bottom /\ P.more_general[u] \in Nodes(P)
        /\ P.more_general[u] \in D[v]
    BY <2>1, <2>2, <2>3 DEF IsTree, Nodes, Closed
  <2>5. v \notin D[P.more_general[u]]
    BY <1>1, <1>3, <2>3, <2>4 DEF Nodes
  <2>6. v = u
    BY <1>1, <2>3, <2>4, <2>5
  <2>7. w \in D[P.more_general[v]]
    BY <1>1, <1>3, <2>1
  <2>8. D[w] \subseteq D[P.more_general[v]]
    BY <2>4, <2>6, <2>7, DownFacts
  <2> QED
    BY <2>5, <2>6, <2>8
<1> QED
  BY <1>2, <1>3

\* A closed part of a way down is the way down from one of its values.
LEMMA ClosedPart ==
  ASSUME NEW P, IsTree(P), NEW w \in Nodes(P),
         NEW C, C \subseteq Down(P)[w], C # {}, Closed(P, C)
  PROVE  \E r \in C : C = Down(P)[r]
<1> DEFINE D == Down(P)
           Ends(u) == \A E : E \subseteq D[u] /\ E # {} /\ Closed(P, E) =>
                                \E r \in E : E = D[r]
           Bad == {u \in P.values : ~Ends(u)}
<1>1. /\ \A u \in P.values : D[u] = {u} \cup D[P.more_general[u]]
      /\ D[Bottom] = {Bottom}
  BY DownUnfolds
<1>2. Ends(Bottom)
  BY <1>1
<1>3. ASSUME Bad # {} PROVE FALSE
  <2>1. PICK u \in Bad : P.more_general[u] \notin Bad
    <3>1. Bad \in SUBSET P.values
      OBVIOUS
    <3> HIDE DEF Bad
    <3> QED
      BY <1>3, <3>1 DEF IsTree
  <2>2. u \in P.values /\ u \in Nodes(P) /\ P.more_general[u] \in Nodes(P)
    BY DEF IsTree, Nodes
  <2>3. Ends(P.more_general[u])
    BY <1>2, <2>1, <2>2 DEF Nodes
  <2>4. ASSUME NEW E, E \subseteq D[u], E # {}, Closed(P, E)
        PROVE  \E r \in E : E = D[r]
    <3>1. CASE u \in E
      <4>1. D[u] \subseteq E
        BY <2>2, <2>4, <3>1, DownFacts
      <4> QED
        BY <2>4, <3>1, <4>1
    <3>2. CASE u \notin E
      BY <1>1, <2>2, <2>3, <2>4, <3>2
    <3> QED
      BY <3>1, <3>2
  <2> HIDE DEF D
  <2> QED
    BY <2>1, <2>4
<1>4. Ends(w)
  BY <1>2, <1>3 DEF Nodes
<1> QED
  BY <1>4

\* Below is a partial order of the names, with a least and a greatest one.
LEMMA BelowOrder ==
  ASSUME NEW P, IsTree(P), NEW u \in Names(P), NEW v \in Names(P), NEW w \in Names(P)
  PROVE  /\ Below(P, v, v) /\ Below(P, v, Top) /\ Below(P, Bottom, v)
         /\ Below(P, u, v) /\ Below(P, v, w) => Below(P, u, w)
         /\ Below(P, v, w) /\ Below(P, w, v) => v = w
<1>1. \A x, y : Below(P, x, y) <=> (y = Top \/ (x # Top /\ x \in Down(P)[y]))
  BY DownUnfolds
<1>2. \A x \in Names(P) : x # Top => x \in Nodes(P)
  BY DEF Names, Nodes
<1>3. Top # Bottom /\ Top \notin Nodes(P)
  BY DEF IsTree, Nodes
<1>4. Below(P, v, v) /\ Below(P, v, Top) /\ Below(P, Bottom, v)
  BY <1>1, <1>2, <1>3, DownFacts
<1>5. ASSUME Below(P, u, v), Below(P, v, w) PROVE Below(P, u, w)
  <2>1. CASE w = Top
    BY <1>1, <2>1
  <2>2. CASE w # Top
    <3>1. v # Top /\ v \in Down(P)[w] /\ u # Top /\ u \in Down(P)[v]
      BY <1>1, <1>5, <2>2
    <3>2. Down(P)[v] \subseteq Down(P)[w]
      BY <1>2, <2>2, <3>1, DownFacts
    <3> QED
      BY <1>1, <3>1, <3>2
  <2> QED
    BY <2>1, <2>2
<1>6. ASSUME Below(P, v, w), Below(P, w, v) PROVE v = w
  <2>1. CASE v = Top \/ w = Top
    BY <1>1, <1>6, <2>1
  <2>2. CASE v # Top /\ w # Top
    BY <1>1, <1>2, <1>6, <2>2, DownAntisymmetric
  <2> QED
    BY <2>1, <2>2
<1> QED
  BY <1>4, <1>5, <1>6

\* u is the greatest name below all of S.
IsGreatest(P, S, u) ==
  /\ u \in Names(P)
  /\ \A w \in S : Below(P, u, w)
  /\ \A x \in Names(P) : (\A w \in S : Below(P, x, w)) => Below(P, x, u)

GreatestBelow(P, S) == CHOOSE u : IsGreatest(P, S, u)

\* There is one, and one only.
LEMMA GreatestExists ==
  ASSUME NEW P, IsTree(P), NEW S \in SUBSET Names(P)
  PROVE  /\ IsGreatest(P, S, GreatestBelow(P, S))
         /\ \A u : IsGreatest(P, S, u) => u = GreatestBelow(P, S)
<1>1. \A x, y : Below(P, x, y) <=> (y = Top \/ (x # Top /\ x \in Down(P)[y]))
  BY DownUnfolds
<1>2. \A x \in Names(P) : x # Top => x \in Nodes(P)
  BY DEF Names, Nodes
<1>3. Top # Bottom /\ Top \notin Nodes(P) /\ Nodes(P) \subseteq Names(P)
  BY DEF IsTree, Nodes, Names
<1>4. CASE S \subseteq {Top}
  <2>1. IsGreatest(P, S, Top)
    BY <1>1, <1>4 DEF IsGreatest, Names
  <2> QED
    BY <2>1, BelowOrder DEF IsGreatest, GreatestBelow
<1>5. CASE ~(S \subseteq {Top})
  <2>1. PICK w \in S : w # Top
    BY <1>5
  <2>2. w \in Nodes(P)
    BY <1>2, <2>1
  <2> DEFINE C == {u \in Down(P)[w] : \A y \in S : y # Top => u \in Down(P)[y]}
  <2>3. C \subseteq Down(P)[w] /\ Bottom \in C
    BY <1>2, <2>2, DownFacts
  <2>4. Closed(P, C)
    <3>1. \A y \in S : y # Top => Closed(P, Down(P)[y])
      BY <1>2, DownFacts
    <3> QED
      BY <2>1, <3>1 DEF Closed
  <2>5. PICK r \in C : C = Down(P)[r]
    <3> HIDE DEF C
    <3> QED
      BY <2>2, <2>3, <2>4, ClosedPart
  <2>6. r \in Nodes(P) /\ r # Top
    BY <1>3, <2>2, <2>3, DownFacts
  <2>7. ASSUME NEW y \in S PROVE Below(P, r, y)
    BY <1>1, <2>6
  <2>8. ASSUME NEW x \in Names(P), \A y \in S : Below(P, x, y)
        PROVE  Below(P, x, r)
    <3>1. x # Top /\ x \in C
      BY <1>1, <2>1, <2>8
    <3> QED
      BY <1>1, <2>5, <3>1
  <2>9. IsGreatest(P, S, r)
    <3> HIDE DEF C
    <3> QED
      BY <1>3, <2>6, <2>7, <2>8 DEF IsGreatest
  <2> QED
    BY <2>9, BelowOrder DEF IsGreatest, GreatestBelow
<1> QED
  BY <1>4, <1>5

-----------------------------------------------------------------------------
(* The meet goes down from the higher value.  Heights fall on the way down, *)
(* so a higher value is not below the other and nothing is lost.           *)

\* h are heights: 0 for the bottom, one more for each value above.
IsHeight(P, h) ==
  h = [v \in P.values \cup {Bottom} |->
         IF v = Bottom THEN 0 ELSE h[P.more_general[v]] + 1]

\* A value is not below the one it lies above.
LEMMA NotBelowItself ==
  ASSUME NEW P, IsTree(P), NEW v \in P.values
  PROVE  /\ P.more_general[v] \in Nodes(P) /\ v \in Nodes(P) /\ v # Bottom
         /\ v \notin Down(P)[P.more_general[v]]
<1>1. P.more_general[v] \in Nodes(P) /\ v \in Nodes(P) /\ v # Bottom
  BY DEF IsTree, Nodes
<1>2. P.more_general[v] # v
  <2>1. {v} \in SUBSET P.values /\ {v} # {}
    OBVIOUS
  <2> QED
    BY <2>1 DEF IsTree
<1>3. P.more_general[v] \in Down(P)[v]
  BY <1>1, DownFacts DEF Closed
<1> QED
  BY <1>1, <1>2, <1>3, DownAntisymmetric

\* There are heights: the length of the way down.
LEMMA SomeHeight == ASSUME NEW P, IsTree(P) PROVE \E h : IsHeight(P, h)
<1> DEFINE D == Down(P)
           h == [v \in Nodes(P) |-> Cardinality(D[v]) - 1]
<1>1. /\ \A u \in P.values : D[u] = {u} \cup D[P.more_general[u]]
      /\ D[Bottom] = {Bottom}
  BY DownUnfolds
<1>2. IsFiniteSet(Nodes(P))
  BY FS_AddElement DEF IsTree, Nodes
<1>3. ASSUME NEW v \in Nodes(P)
      PROVE  h[v] = IF v = Bottom THEN 0 ELSE h[P.more_general[v]] + 1
  <2>1. CASE v = Bottom
    BY <1>1, <2>1, FS_Singleton
  <2>2. CASE v # Bottom
    <3> DEFINE E == D[P.more_general[v]]
    <3>1. v \in P.values /\ P.more_general[v] \in Nodes(P) /\ v \notin E
      BY <2>2, NotBelowItself DEF Nodes
    <3>2. IsFiniteSet(E)
      BY <1>2, <3>1, DownFacts, FS_Subset
    <3>3. D[v] = E \cup {v}
      BY <1>1, <3>1
    <3> HIDE DEF E, D
    <3>4. Cardinality(E) \in Nat /\ Cardinality(D[v]) = Cardinality(E) + 1
      BY <3>1, <3>2, <3>3, FS_AddElement, FS_CardinalityType
    <3>5. h[P.more_general[v]] = Cardinality(E) - 1
      BY <3>1 DEF E
    <3> QED
      BY <2>2, <3>4, <3>5
  <2> QED
    BY <2>1, <2>2
<1>4. IsHeight(P, h)
  <2> HIDE DEF D
  <2> QED
    BY <1>3 DEF IsHeight, Nodes
<1> QED
  BY <1>4

\* The heights fall on the way down.
LEMMA HeightsFall ==
  ASSUME NEW P, IsTree(P), NEW v \in P.values, NEW w \in P.values, v # w
  PROVE  /\ height(P)[v] \in Nat /\ height(P)[w] \in Nat
         /\ height(P)[v] >= height(P)[w] => v \notin Down(P)[w]
<1> DEFINE D == Down(P)
           h == CHOOSE g : IsHeight(P, g)
           Good(u) == h[u] \in Nat /\ \A x \in D[u] : x = u \/ (h[x] \in Nat /\ h[x] < h[u])
           Bad == {u \in P.values : ~Good(u)}
<1>1. /\ \A u \in P.values : D[u] = {u} \cup D[P.more_general[u]]
      /\ D[Bottom] = {Bottom}
  BY DownUnfolds
<1>2. IsHeight(P, h)
  BY SomeHeight
<1>3. /\ \A u \in P.values : h[u] = h[P.more_general[u]] + 1
      /\ h[Bottom] = 0
  <2> HIDE DEF h
  <2> QED
    BY <1>2 DEF IsHeight, IsTree
<1>4. \A u \in P.values : height(P)[u] = h[u]
  BY DEF height, IsHeight, IsTree, Names
<1> HIDE DEF D, h
<1>5. Good(Bottom)
  BY <1>1, <1>3
<1>6. ASSUME Bad # {} PROVE FALSE
  <2>1. PICK u \in Bad : P.more_general[u] \notin Bad
    <3>1. Bad \in SUBSET P.values
      OBVIOUS
    <3> HIDE DEF Bad
    <3> QED
      BY <1>6, <3>1 DEF IsTree
  <2>2. u \in P.values /\ P.more_general[u] \in Nodes(P)
    BY DEF IsTree, Nodes
  <2>3. Good(P.more_general[u])
    BY <1>5, <2>1, <2>2 DEF Nodes
  <2>4. /\ D[u] = {u} \cup D[P.more_general[u]]
        /\ h[u] = h[P.more_general[u]] + 1
    BY <1>1, <1>3, <2>2
  <2>5. Good(u)
    BY <2>3, <2>4
  <2> QED
    BY <2>1, <2>5
<1>7. Good(v) /\ Good(w)
  BY <1>6
<1> QED
  BY <1>4, <1>7 DEF D

\* What is below two values is below what the meet goes on with.
LEMMA LowerTogether ==
  ASSUME NEW P, IsTree(P), NEW x \in P.values, NEW y \in P.values, x # y,
         height(P)[x] >= height(P)[y], NEW u \in Names(P)
  PROVE  /\ Below(P, u, x) /\ Below(P, u, y) <=> Below(P, u, P.more_general[x]) /\ Below(P, u, y)
         /\ height(P)[y] >= height(P)[x] =>
              (/\ Below(P, u, x) /\ Below(P, u, y) <=>
                    /\ Below(P, u, P.more_general[x])
                    /\ Below(P, u, P.more_general[y]))
<1>1. \A a, b : Below(P, a, b) <=> (b = Top \/ (a # Top /\ a \in Down(P)[b]))
  BY DownUnfolds
<1>2. /\ Down(P)[x] = {x} \cup Down(P)[P.more_general[x]]
      /\ Down(P)[y] = {y} \cup Down(P)[P.more_general[y]]
  BY DownUnfolds
<1>3. /\ x \notin Down(P)[y]
      /\ height(P)[y] >= height(P)[x] => y \notin Down(P)[x]
  BY HeightsFall
<1>4. {x, y, P.more_general[x], P.more_general[y]} \cap {Top} = {}
  BY DEF IsTree
<1>5. /\ Below(P, u, x) <=> u # Top /\ u \in Down(P)[x]
      /\ Below(P, u, y) <=> u # Top /\ u \in Down(P)[y]
      /\ Below(P, u, P.more_general[x]) <=> u # Top /\ u \in Down(P)[P.more_general[x]]
      /\ Below(P, u, P.more_general[y]) <=> u # Top /\ u \in Down(P)[P.more_general[y]]
  <2>1. x # Top /\ y # Top /\ P.more_general[x] # Top /\ P.more_general[y] # Top
    BY <1>4
  <2> QED
    BY <1>1, <2>1
<1>6. /\ Below(P, u, x) /\ Below(P, u, y) <=> Below(P, u, P.more_general[x]) /\ Below(P, u, y)
  <2>1. u \in Down(P)[x] /\ u \in Down(P)[y] => u # x
    BY <1>3
  <2>2. u \in Down(P)[x] <=> u = x \/ u \in Down(P)[P.more_general[x]]
    BY <1>2
  <2> QED
    BY <1>5, <2>1, <2>2, Zenon
<1>7. ASSUME height(P)[y] >= height(P)[x]
      PROVE  /\ Below(P, u, x) /\ Below(P, u, y) <=>
                   /\ Below(P, u, P.more_general[x])
                   /\ Below(P, u, P.more_general[y])
  <2>1. u \in Down(P)[x] /\ u \in Down(P)[y] => u # x /\ u # y
    BY <1>3, <1>7
  <2>2. /\ u \in Down(P)[x] <=> u = x \/ u \in Down(P)[P.more_general[x]]
        /\ u \in Down(P)[y] <=> u = y \/ u \in Down(P)[P.more_general[y]]
    BY <1>2
  <2> QED
    BY <1>5, <2>1, <2>2, Zenon
<1> QED
  BY <1>6, <1>7

\* m is what meet makes of any two names.
IsMeet(P, m) ==
  m = [p \in Names(P) \X Names(P) |->
        LET x == p[1]
            y == p[2]
        IN  CASE Bottom \in {x, y} -> Bottom
              [] x = Top           -> y
              [] y = Top           -> x
              [] x = y             -> x
              [] OTHER -> m[<<IF height(P)[x] >= height(P)[y] THEN P.more_general[x] ELSE x,
                              IF height(P)[y] >= height(P)[x] THEN P.more_general[y] ELSE y>>]]

\* Where the meet of two values that differ goes on.
Left(P, x, y) == IF height(P)[x] >= height(P)[y] THEN P.more_general[x] ELSE x

\* The greatest name below two that differ is that below those it goes on with.
LEMMA GreatestMoves ==
  ASSUME NEW P, IsTree(P), NEW x \in P.values, NEW y \in P.values, x # y
  PROVE  /\ Left(P, x, y) \in Names(P) /\ Left(P, y, x) \in Names(P)
         /\ GreatestBelow(P, {x, y}) = GreatestBelow(P, {Left(P, x, y), Left(P, y, x)})
<1> DEFINE l == Left(P, x, y)
           r == Left(P, y, x)
<1>1. /\ l \in Names(P) /\ r \in Names(P)
      /\ {x, y} \in SUBSET Names(P) /\ {l, r} \in SUBSET Names(P)
  BY DEF Left, IsTree, Names
<1>2. height(P)[x] >= height(P)[y] \/ height(P)[y] >= height(P)[x]
  BY HeightsFall
<1>3. ASSUME NEW u \in Names(P)
      PROVE  Below(P, u, x) /\ Below(P, u, y) <=> Below(P, u, l) /\ Below(P, u, r)
  BY <1>2, LowerTogether DEF Left
<1> HIDE DEF l, r
<1>4. ASSUME NEW u PROVE IsGreatest(P, {x, y}, u) <=> IsGreatest(P, {l, r}, u)
  BY <1>1, <1>3 DEF IsGreatest
<1>5. GreatestBelow(P, {x, y}) = GreatestBelow(P, {l, r})
  BY <1>1, <1>4, GreatestExists
<1> QED
  BY <1>1, <1>5 DEF l, r

\* The greatest name below two that one of the first cases decides.
LEMMA GreatestOfTwo ==
  ASSUME NEW P, IsTree(P), NEW x \in Names(P), NEW y \in Names(P)
  PROVE  /\ Bottom \in {x, y} => GreatestBelow(P, {x, y}) = Bottom
         /\ x = Top => GreatestBelow(P, {x, y}) = y
         /\ y = Top => GreatestBelow(P, {x, y}) = x
         /\ x = y => GreatestBelow(P, {x, y}) = x
<1>1. Top \in Names(P) /\ Bottom \in Names(P) /\ {x, y} \in SUBSET Names(P)
  BY DEF Names
<1>2. Bottom \in {x, y} => IsGreatest(P, {x, y}, Bottom)
  BY <1>1, BelowOrder DEF IsGreatest
<1>3. x = Top => IsGreatest(P, {x, y}, y)
  BY <1>1, BelowOrder DEF IsGreatest
<1>4. y = Top => IsGreatest(P, {x, y}, x)
  BY <1>1, BelowOrder DEF IsGreatest
<1>5. x = y => IsGreatest(P, {x, y}, x)
  BY <1>1, BelowOrder DEF IsGreatest
<1> QED
  BY <1>1, <1>2, <1>3, <1>4, <1>5, GreatestExists

\* So the greatest names below two satisfy the equation of meet.
LEMMA SomeMeet == ASSUME NEW P, IsTree(P) PROVE \E m : IsMeet(P, m)
<1> DEFINE g == [p \in Names(P) \X Names(P) |-> GreatestBelow(P, {p[1], p[2]})]
           step(x, y) ==
             CASE Bottom \in {x, y} -> Bottom
               [] x = Top           -> y
               [] y = Top           -> x
               [] x = y             -> x
               [] OTHER -> g[<<Left(P, x, y), Left(P, y, x)>>]
<1>0. \A x \in Names(P), y \in Names(P) : g[<<x, y>>] = GreatestBelow(P, {x, y})
  OBVIOUS
<1> HIDE DEF g
<1>1. ASSUME NEW x \in Names(P), NEW y \in Names(P)
      PROVE  GreatestBelow(P, {x, y}) = step(x, y)
  <2>1. CASE x \in {Top, Bottom} \/ y \in {Top, Bottom} \/ x = y
    BY <2>1, GreatestOfTwo
  <2>2. CASE ~(x \in {Top, Bottom} \/ y \in {Top, Bottom} \/ x = y)
    <3>1. x \in P.values /\ y \in P.values /\ x # y
      BY <2>2 DEF Names
    <3>2. /\ Left(P, x, y) \in Names(P) /\ Left(P, y, x) \in Names(P)
          /\ GreatestBelow(P, {x, y}) = GreatestBelow(P, {Left(P, x, y), Left(P, y, x)})
      BY <3>1, GreatestMoves
    <3>3. GreatestBelow(P, {x, y}) = g[<<Left(P, x, y), Left(P, y, x)>>]
      BY <1>0, <3>2
    <3>4. step(x, y) = g[<<Left(P, x, y), Left(P, y, x)>>]
      BY <2>2
    <3> QED
      BY <3>3, <3>4
  <2> QED
    BY <2>1, <2>2
<1>2. g = [p \in Names(P) \X Names(P) |-> step(p[1], p[2])]
  <2>1. \A p \in Names(P) \X Names(P) :
          GreatestBelow(P, {p[1], p[2]}) = step(p[1], p[2])
    BY <1>1
  <2> HIDE DEF step
  <2> QED
    BY <2>1 DEF g
<1>3. IsMeet(P, g)
  BY <1>2 DEF IsMeet, Left
<1> QED
  BY <1>3

\* And nothing else does: the meet is the greatest name below both.
LEMMA MeetIsThis ==
  ASSUME NEW P, IsTree(P), NEW a \in Names(P), NEW b \in Names(P)
  PROVE  meet(P, a, b) = GreatestBelow(P, {a, b})
<1> DEFINE m == CHOOSE f : IsMeet(P, f)
           Good(x, y) == m[<<x, y>>] = GreatestBelow(P, {x, y})
           Bad == {x \in P.values : \E y \in Names(P) : ~Good(x, y)}
<1>0. meet(P, a, b) = m[<<a, b>>]
  BY DEF meet, IsMeet
<1>1. IsMeet(P, m)
  BY SomeMeet
<1> HIDE DEF m
<1>2. ASSUME NEW x \in Names(P), NEW y \in Names(P)
      PROVE  m[<<x, y>>] =
               CASE Bottom \in {x, y} -> Bottom
                 [] x = Top           -> y
                 [] y = Top           -> x
                 [] x = y             -> x
                 [] OTHER -> m[<<Left(P, x, y), Left(P, y, x)>>]
  BY <1>1, ZenonT(60) DEF IsMeet, Left
<1>3. ASSUME NEW x \in Names(P), NEW y \in Names(P),
             x \notin P.values \/ y \notin P.values \/ x = y
      PROVE  Good(x, y)
  <2>1. x \in {Top, Bottom} \/ y \in {Top, Bottom} \/ x = y
    BY <1>3 DEF Names
  <2> DEFINE g == GreatestBelow(P, {x, y})
  <2>2. /\ Bottom \in {x, y} => g = Bottom
        /\ x = Top => g = y
        /\ y = Top => g = x
        /\ x = y => g = x
    BY GreatestOfTwo
  <2> HIDE DEF g
  <2>3. m[<<x, y>>] = g
    <3>1. CASE Bottom \in {x, y}
      <4>0. Top # Bottom
        BY DEF IsTree
      <4>1. CASE x = Bottom
        BY <1>2, <2>2, <4>0, <4>1
      <4>2. CASE y = Bottom /\ x # Bottom
        BY <1>2, <2>2, <4>0, <4>2, ZenonT(60)
      <4> QED
        BY <3>1, <4>1, <4>2
    <3>2. CASE Bottom \notin {x, y} /\ x = Top
      BY <1>2, <2>2, <3>2
    <3>3. CASE Bottom \notin {x, y} /\ x # Top /\ y = Top
      BY <1>2, <2>2, <3>3
    <3>4. CASE Bottom \notin {x, y} /\ x # Top /\ y # Top
      BY <1>2, <2>1, <2>2, <3>4
    <3> QED
      BY <3>1, <3>2, <3>3, <3>4
  <2> QED
    BY <2>3 DEF g
<1>4. ASSUME NEW x \in P.values, NEW y \in P.values, x # y,
             Good(Left(P, x, y), Left(P, y, x))
      PROVE  Good(x, y)
  <2>1. x \in Names(P) /\ y \in Names(P) /\ {x, y} \cap {Top, Bottom} = {}
    BY DEF Names, IsTree
  <2>2. m[<<x, y>>] = m[<<Left(P, x, y), Left(P, y, x)>>]
    BY <1>2, <1>4, <2>1
  <2> QED
    BY <1>4, <2>2, GreatestMoves
<1>5. ASSUME Bad # {} PROVE FALSE
  <2>1. PICK x \in Bad : P.more_general[x] \notin Bad
    <3>1. Bad \in SUBSET P.values
      OBVIOUS
    <3> HIDE DEF Bad
    <3> QED
      BY <1>5, <3>1 DEF IsTree
  <2> DEFINE Worse == {y \in P.values : ~Good(x, y)}
  <2>2. Worse # {}
    BY <1>3, <2>1 DEF Names
  <2>3. PICK y \in Worse : P.more_general[y] \notin Worse
    <3>1. Worse \in SUBSET P.values
      OBVIOUS
    <3> HIDE DEF Worse
    <3> QED
      BY <2>2, <3>1 DEF IsTree
  <2>4. /\ x \in P.values /\ y \in P.values /\ ~Good(x, y)
        /\ P.more_general[x] \in Names(P) /\ P.more_general[y] \in Names(P)
        /\ x \in Names(P) /\ y \in Names(P)
    BY DEF IsTree, Names
  <2>5. x # y
    BY <1>3, <2>4
  <2>6. ASSUME NEW z \in Names(P) PROVE Good(P.more_general[x], z)
    BY <1>3, <2>1, <2>4
  <2>7. Good(x, P.more_general[y])
    BY <1>3, <2>3, <2>4
  <2>8. height(P)[x] >= height(P)[y] \/ height(P)[y] >= height(P)[x]
    BY <2>4, <2>5, HeightsFall
  <2>9. Good(Left(P, x, y), Left(P, y, x))
    <3> HIDE DEF Good, Bad, Worse
    <3>1. CASE height(P)[x] >= height(P)[y]
      BY <2>4, <2>6, <3>1 DEF Left
    <3>2. CASE ~(height(P)[x] >= height(P)[y])
      BY <2>7, <2>8, <3>2 DEF Left
    <3> QED
      BY <3>1, <3>2
  <2> QED
    BY <1>4, <2>4, <2>5, <2>9
<1>6. Good(a, b)
  BY <1>3, <1>5
<1> QED
  BY <1>0, <1>6

\* The meet as an operation on the names: a lower bound, and the greatest.
LEMMA MeetFacts ==
  ASSUME NEW P, IsTree(P), NEW a \in Names(P), NEW b \in Names(P)
  PROVE  /\ meet(P, a, b) \in Names(P)
         /\ Below(P, meet(P, a, b), a) /\ Below(P, meet(P, a, b), b)
         /\ \A u \in Names(P) : Below(P, u, a) /\ Below(P, u, b) => Below(P, u, meet(P, a, b))
<1>1. {a, b} \in SUBSET Names(P)
  OBVIOUS
<1>2. IsGreatest(P, {a, b}, meet(P, a, b))
  BY <1>1, MeetIsThis, GreatestExists
<1> QED
  BY <1>2 DEF IsGreatest

\* The meet of any two values is the greatest value below both, in every tree:
\* going down by heights never passes it (enum_property.cc:199-232).
THEOREM MeetGreatestBelow == ASSUME NEW P, IsTree(P) PROVE MeetIsGreatestBelow(P)
  BY MeetFacts DEF MeetIsGreatestBelow

-----------------------------------------------------------------------------
(* The merge of a set of values.                                           *)

\* it is what a merge makes of each subset of S.
IsMerge(P, S, it) ==
  it = [s \in SUBSET S |->
         IF s = {} THEN Top
         ELSE LET x == CHOOSE y \in s : TRUE IN meet(P, x, it[s \ {x}])]

\* One value more.
LEMMA GreatestOfMore ==
  ASSUME NEW P, IsTree(P), NEW S \in SUBSET Names(P), NEW x \in S
  PROVE  /\ GreatestBelow(P, S \ {x}) \in Names(P)
         /\ GreatestBelow(P, S) = meet(P, x, GreatestBelow(P, S \ {x}))
<1> DEFINE rest == GreatestBelow(P, S \ {x})
<1>1. S \ {x} \in SUBSET Names(P) /\ x \in Names(P)
  OBVIOUS
<1>2. IsGreatest(P, S \ {x}, rest)
  BY <1>1, GreatestExists
<1> HIDE DEF rest
<1>3. IsGreatest(P, S, meet(P, x, rest))
  <2>1. rest \in Names(P) /\ x \in Names(P) /\ meet(P, x, rest) \in Names(P)
    BY <1>1, <1>2, MeetFacts DEF IsGreatest
  <2>2. ASSUME NEW w \in S PROVE Below(P, meet(P, x, rest), w)
    <3>1. CASE w = x
      BY <2>1, <3>1, MeetFacts
    <3>2. CASE w # x
      <4>1. w \in Names(P) /\ Below(P, rest, w)
        BY <1>2, <3>2 DEF IsGreatest
      <4> QED
        BY <2>1, <4>1, MeetFacts, BelowOrder
    <3> QED
      BY <3>1, <3>2
  <2>3. ASSUME NEW u \in Names(P), \A w \in S : Below(P, u, w)
        PROVE  Below(P, u, meet(P, x, rest))
    <3>1. Below(P, u, x) /\ Below(P, u, rest)
      BY <1>2, <2>3 DEF IsGreatest
    <3> QED
      BY <2>1, <3>1, MeetFacts
  <2> QED
    BY <2>1, <2>2, <2>3 DEF IsGreatest
<1> QED
  BY <1>2, <1>3, GreatestExists DEF rest, IsGreatest

\* The merge of a set of values is the greatest value below all of them,
\* whichever the loop takes first (enum_property.cc:1933-1949).
THEOREM MergeIsGreatest ==
  ASSUME NEW P, IsTree(P), NEW S \in SUBSET Names(P)
  PROVE  IsGreatest(P, S, merge_enumvalue_set(P, S))
<1> DEFINE g == [s \in SUBSET S |-> GreatestBelow(P, s)]
           it == CHOOSE f : IsMerge(P, S, f)
           Bad == {s \in SUBSET S : it[s] # GreatestBelow(P, s)}
<1>0. merge_enumvalue_set(P, S) = it[S]
  BY DEF merge_enumvalue_set, FoldSet, MapThenFoldSet, IsMerge
<1>1. IsFiniteSet(S)
  <2>1. IsFiniteSet(Names(P))
    <3>1. IsFiniteSet(P.values \cup {Top})
      BY FS_AddElement DEF IsTree
    <3>2. Names(P) = (P.values \cup {Top}) \cup {Bottom}
      BY DEF Names
    <3> QED
      BY <3>1, <3>2, FS_AddElement
  <2> QED
    BY <2>1, FS_Subset
<1>2. ASSUME NEW s \in SUBSET S
      PROVE  g[s] = IF s = {} THEN Top
                    ELSE LET x == CHOOSE y \in s : TRUE IN meet(P, x, g[s \ {x}])
  <2>1. CASE s = {}
    <3>1. IsGreatest(P, {}, Top)
      BY BelowOrder DEF IsGreatest, Names
    <3> QED
      BY <2>1, <3>1, GreatestExists
  <2>2. CASE s # {}
    <3> DEFINE x == CHOOSE y \in s : TRUE
    <3>1. x \in s /\ s \in SUBSET Names(P)
      BY <2>2
    <3> HIDE DEF x
    <3>2. g[s] = meet(P, x, g[s \ {x}])
      BY <3>1, GreatestOfMore
    <3> QED
      BY <2>2, <3>2 DEF x
  <2> QED
    BY <2>1, <2>2
<1>3. IsMerge(P, S, g)
  <2> DEFINE step(s) == IF s = {} THEN Top
                        ELSE LET x == CHOOSE y \in s : TRUE IN meet(P, x, g[s \ {x}])
  <2>1. \A s \in SUBSET S : GreatestBelow(P, s) = step(s)
    BY <1>2
  <2>2. g = [s \in SUBSET S |-> step(s)]
    <3> HIDE DEF step
    <3> QED
      BY <2>1
  <2> HIDE DEF g
  <2> QED
    BY <2>2 DEF IsMerge
<1>4. IsMerge(P, S, it)
  <2> HIDE DEF g
  <2> QED
    BY <1>3
<1> HIDE DEF it, g
<1>5. ASSUME Bad # {} PROVE FALSE
  <2>1. Bad \subseteq FiniteSubsetsOf(S)
    BY <1>1, FS_Subset DEF FiniteSubsetsOf
  <2>2. PICK s \in Bad : \A t \in Bad : <<t, s>> \notin StrictSubsetOrdering(S)
    <3> HIDE DEF Bad
    <3> QED
      BY <1>5, <2>1, FS_StrictSubsetOrderingWellFounded, WFMin
  <2>3. s \in SUBSET S /\ it[s] # GreatestBelow(P, s)
    OBVIOUS
  <2>4. CASE s = {}
    <3>1. it[s] = Top /\ IsGreatest(P, {}, Top)
      BY <1>4, <2>4, BelowOrder DEF IsMerge, IsGreatest, Names
    <3> QED
      BY <2>3, <2>4, <3>1, GreatestExists
  <2>5. CASE s # {}
    <3> DEFINE x == CHOOSE y \in s : TRUE
    <3>1. x \in s /\ s \in SUBSET Names(P)
      BY <2>3, <2>5
    <3>2. it[s] = meet(P, x, it[s \ {x}])
      BY <1>4, <2>3, <2>5 DEF IsMerge
    <3> HIDE DEF x
    <3>3. <<s \ {x}, s>> \in StrictSubsetOrdering(S)
      BY <2>3, <3>1 DEF StrictSubsetOrdering
    <3>4. it[s \ {x}] = GreatestBelow(P, s \ {x})
      BY <2>2, <2>3, <3>3
    <3> QED
      BY <2>3, <3>1, <3>2, <3>4, GreatestOfMore
  <2> QED
    BY <2>4, <2>5
<1>6. it[S] = GreatestBelow(P, S)
  BY <1>5
<1> QED
  BY <1>0, <1>6, GreatestExists

-----------------------------------------------------------------------------
(* Sequences, repeated steps and the extremes of sets of positions.        *)

\* g are the results of a step that is repeated N times from base.
IsIteration(g, N, base, step) ==
  g = [n \in 0..N |-> IF n = 0 THEN base ELSE step[<<n, g[n - 1]>>]]

\* A step that is repeated N times has a result after each time.
LEMMA IterationExists ==
  ASSUME NEW X, NEW N \in Nat, NEW base \in X, NEW step \in [(1..N) \X X -> X]
  PROVE  \E g \in [0..N -> X] : IsIteration(g, N, base, step)
<1> DEFINE Is(k, g) ==
             g = [n \in 0..k |-> IF n = 0 THEN base ELSE step[<<n, g[n - 1]>>]]
           Bad == {k \in 0..N : ~\E g \in [0..k -> X] : Is(k, g)}
<1> SUFFICES ASSUME Bad # {} PROVE FALSE
  BY DEF IsIteration
<1>1. PICK k \in Bad : \A j \in Bad : ~(<<j, k>> \in OpToRel(<, Nat))
  <2>1. Bad \subseteq Nat
    OBVIOUS
  <2> HIDE DEF Bad
  <2> QED
    BY <2>1, NatLessThanWellFounded, WFMin
<1>2. CASE k = 0
  <2> DEFINE g == [n \in 0..0 |-> base]
  <2>1. g \in [0..0 -> X] /\ g = [n \in 0..0 |-> IF n = 0 THEN base ELSE step[<<n, g[n - 1]>>]]
    OBVIOUS
  <2> QED
    BY <1>1, <1>2, <2>1
<1>3. CASE k # 0
  <2>1. k \in 0..N /\ k \in Nat /\ k - 1 \in 0..N /\ k - 1 < k /\ k - 1 \in Nat /\ k \in 1..N
    BY <1>3
  <2>2. k - 1 \notin Bad
    <3> HIDE DEF Bad
    <3> QED
      BY <1>1, <2>1 DEF OpToRel
  <2>3. PICK g \in [0..(k - 1) -> X] : Is(k - 1, g)
    BY <2>1, <2>2
  <2> DEFINE last == step[<<k, g[k - 1]>>]
             h == [n \in 0..k |-> IF n = k THEN last ELSE g[n]]
  <2>4. g[k - 1] \in X /\ last \in X
    BY <2>1
  <2> HIDE DEF last
  <2>5. h \in [0..k -> X]
    BY <2>1, <2>4
  <2>6. ASSUME NEW n \in 0..k
        PROVE  h[n] = IF n = 0 THEN base ELSE step[<<n, h[n - 1]>>]
    <3>1. CASE n = k
      <4>1. h[n] = last /\ n - 1 \in 0..k /\ n - 1 # k
        BY <2>1, <3>1
      <4>2. h[n - 1] = g[k - 1]
        BY <3>1, <4>1
      <4> QED
        BY <2>1, <3>1, <4>1, <4>2 DEF last
    <3>2. CASE n # k
      <4>1. n \in 0..(k - 1) /\ (n # 0 => n - 1 \in 0..k /\ n - 1 # k)
        BY <2>1, <3>2
      <4>2. g[n] = IF n = 0 THEN base ELSE step[<<n, g[n - 1]>>]
        BY <2>3, <4>1
      <4> QED
        BY <3>2, <4>1, <4>2
    <3> QED
      BY <3>1, <3>2
  <2>7. Is(k, h)
    <3> HIDE DEF h
    <3>1. h = [n \in 0..k |-> h[n]]
      BY <2>5
    <3>2. [n \in 0..k |-> h[n]] = [n \in 0..k |-> IF n = 0 THEN base ELSE step[<<n, h[n - 1]>>]]
      BY <2>6
    <3> QED
      BY <3>1, <3>2
  <2> HIDE DEF h
  <2> QED
    BY <1>1, <2>5, <2>7
<1> QED
  BY <1>2, <1>3

\* A set of positions has a first and a last one.
LEMMA ExtremesExist ==
  ASSUME NEW n \in Nat, NEW S \in SUBSET (1..n), S # {}
  PROVE  Min(S) \in S /\ (\A j \in S : Min(S) <= j) /\ Max(S) \in S
<1>1. Min(S) \in S /\ \A j \in S : Min(S) <= j
  <2>1. S \subseteq Nat
    OBVIOUS
  <2>2. PICK k \in S : \A j \in S : ~(<<j, k>> \in OpToRel(<, Nat))
    BY <2>1, NatLessThanWellFounded, WFMin
  <2>3. ASSUME NEW j \in S PROVE k =< j
    <3>1. j \in Nat /\ k \in Nat
      BY <2>1
    <3>2. ~(j < k)
      BY <2>2, <3>1 DEF OpToRel
    <3> QED
      BY <3>1, <3>2
  <2> QED
    BY <2>3 DEF Min
<1>2. Max(S) \in S
  <2> DEFINE T == {n - k : k \in S}
  <2>1. \A k \in S : k \in Nat /\ n - k \in Nat
    OBVIOUS
  <2>2. T \subseteq Nat /\ T # {}
    BY <2>1
  <2>3. PICK t \in T : \A j \in T : ~(<<j, t>> \in OpToRel(<, Nat))
    <3> HIDE DEF T
    <3> QED
      BY <2>2, NatLessThanWellFounded, WFMin
  <2>4. PICK k \in S : t = n - k
    OBVIOUS
  <2>5. ASSUME NEW j \in S PROVE k >= j
    <3>1. n - j \in T /\ n - j \in Nat /\ t \in Nat /\ j \in Nat /\ k \in Nat
      BY <2>1, <2>4
    <3>2. ~(n - j < t)
      BY <2>3, <3>1 DEF OpToRel
    <3> QED
      BY <2>4, <3>1, <3>2
  <2> QED
    BY <2>5 DEF Max
<1> QED
  BY <1>1, <1>2

\* The first member of S in a sequence that has one is a member of S.
LEMMA FirstInHolds ==
  ASSUME NEW s, IsSequence(s), NEW S, S \cap ToSet(s) # {}
  PROVE  FirstIn(s, S) \in S \cap ToSet(s)
<1> DEFINE I == {i \in DOMAIN s : s[i] \in S}
<1>1. Len(s) \in Nat /\ DOMAIN s = 1..Len(s)
  BY DEF IsSequence
<1>2. I # {} /\ I \in SUBSET (1..Len(s))
  BY <1>1 DEF ToSet
<1>3. Min(I) \in I
  <2> HIDE DEF I
  <2> QED
    BY <1>1, <1>2, ExtremesExist
<1> QED
  BY <1>3 DEF FirstIn, ToSet

\* Two sequences put together have the members of both.
LEMMA ConcatHas ==
  ASSUME NEW S, NEW s \in Seq(S), NEW t \in Seq(S)
  PROVE  s \o t \in Seq(S) /\ ToSet(s) \subseteq ToSet(s \o t) /\ ToSet(t) \subseteq ToSet(s \o t)
<1>1. ASSUME NEW i \in DOMAIN s PROVE i \in DOMAIN (s \o t) /\ (s \o t)[i] = s[i]
  OBVIOUS
<1>2. ASSUME NEW i \in DOMAIN t
      PROVE  Len(s) + i \in DOMAIN (s \o t) /\ (s \o t)[Len(s) + i] = t[i]
  OBVIOUS
<1>3. s \o t \in Seq(S)
  OBVIOUS
<1>4. ToSet(s) \subseteq ToSet(s \o t)
  BY <1>1 DEF ToSet
<1>5. ToSet(t) \subseteq ToSet(s \o t)
  BY <1>2 DEF ToSet
<1> QED
  BY <1>3, <1>4, <1>5

\* Flattening sequences over S makes a sequence over S with all their members.
LEMMA FlattenOver ==
  ASSUME NEW S, NEW seqs \in Seq(Seq(S))
  PROVE  /\ FlattenSeq(seqs) \in Seq(S)
         /\ \A i \in DOMAIN seqs : ToSet(seqs[i]) \subseteq ToSet(FlattenSeq(seqs))
<1> DEFINE n == Len(seqs)
           Is(g) == g = [i \in 1..n |-> IF i = 1 THEN seqs[i] ELSE g[i - 1] \o seqs[i]]
           Good(x, i) == x \in Seq(S) /\ \A k \in 1..i : ToSet(seqs[k]) \subseteq ToSet(x)
<1>1. CASE n = 0
  BY <1>1 DEF FlattenSeq
<1>2. CASE n # 0
  <2>0. n \in Nat /\ n \in 1..n /\ \A i \in 1..n : seqs[i] \in Seq(S)
    BY <1>2
  <2> DEFINE step == [p \in (1..n) \X Seq(S) |-> IF p[1] = 1 THEN seqs[1] ELSE p[2] \o seqs[p[1]]]
  <2>1. step \in [(1..n) \X Seq(S) -> Seq(S)]
    BY <2>0
  <2>2. <<>> \in Seq(S)
    OBVIOUS
  <2>3. \E h \in [0..n -> Seq(S)] : IsIteration(h, n, <<>>, step)
    <3> DEFINE X == Seq(S)
               base == <<>>
    <3>1. base \in X /\ step \in [(1..n) \X X -> X] /\ n \in Nat
      BY <2>0, <2>1, <2>2
    <3> HIDE DEF step, n, X, base
    <3>2. \E h \in [0..n -> X] : IsIteration(h, n, base, step)
      BY <3>1, IterationExists
    <3> QED
      BY <3>2 DEF X, base
  <2>4. PICK h \in [0..n -> Seq(S)] : IsIteration(h, n, <<>>, step)
    BY <2>3
  <2>5. ASSUME NEW i \in 1..n
        PROVE  h[i] = IF i = 1 THEN seqs[i] ELSE h[i - 1] \o seqs[i]
    <3>1. i \in 0..n /\ i # 0 /\ i - 1 \in 0..n
      BY <2>0
    <3>2. h[i] = step[<<i, h[i - 1]>>]
      <4> HIDE DEF step, n
      <4> QED
        BY <2>4, <3>1 DEF IsIteration
    <3>3. h[i - 1] \in Seq(S)
      BY <3>1
    <3> QED
      BY <3>2, <3>3
  <2> DEFINE g == [i \in 1..n |-> h[i]]
  <2>6. ASSUME NEW i \in 1..n
        PROVE  h[i] = IF i = 1 THEN seqs[i] ELSE g[i - 1] \o seqs[i]
    <3>1. i # 1 => i - 1 \in 1..n
      BY <2>0
    <3> HIDE DEF n, step
    <3> QED
      BY <2>5, <3>1
  <2>7. Is(g)
    <3> DEFINE put(i) == IF i = 1 THEN seqs[i] ELSE g[i - 1] \o seqs[i]
    <3>1. \A i \in 1..n : h[i] = put(i)
      BY <2>6
    <3>2. g = [i \in 1..n |-> put(i)]
      <4> HIDE DEF put
      <4> QED
        BY <3>1
    <3> QED
      BY <3>2
  <2> HIDE DEF g, step, n
  <2> DEFINE f == CHOOSE x : Is(x)
  <2>8. Is(f)
    BY <2>7
  <2>9. FlattenSeq(seqs) = f[n]
    BY <1>2 DEF FlattenSeq, n
  <2> HIDE DEF f
  <2> DEFINE Bad == {i \in 1..n : ~Good(f[i], i)}
  <2>10. ASSUME Bad # {} PROVE FALSE
    <3>1. PICK i \in Bad : \A j \in Bad : ~(<<j, i>> \in OpToRel(<, Nat))
      <4>1. Bad \subseteq Nat
        BY <2>0
      <4> HIDE DEF Bad
      <4> QED
        BY <2>10, <4>1, NatLessThanWellFounded, WFMin
    <3>2. i \in 1..n /\ ~Good(f[i], i)
      OBVIOUS
    <3>3. f[i] = IF i = 1 THEN seqs[i] ELSE f[i - 1] \o seqs[i]
      BY <2>8, <3>2
    <3>4. i # 1
      BY <2>0, <3>2, <3>3
    <3> HIDE DEF Good
    <3>5. i - 1 \in 1..n /\ i - 1 \in Nat /\ i \in Nat /\ i - 1 < i
      BY <2>0, <3>2, <3>4
    <3>6. Good(f[i - 1], i - 1)
      BY <3>1, <3>5 DEF OpToRel
    <3> DEFINE before == f[i - 1]
               last   == seqs[i]
    <3>7. f[i] = before \o last
      BY <3>3, <3>4
    <3>8. before \in Seq(S) /\ last \in Seq(S)
      BY <2>0, <3>2, <3>6 DEF Good
    <3>9. \A k \in 1..i - 1 : ToSet(seqs[k]) \subseteq ToSet(before)
      BY <3>6 DEF Good
    <3> HIDE DEF before
    <3>10. /\ before \o last \in Seq(S) /\ ToSet(before) \subseteq ToSet(before \o last)
           /\ ToSet(last) \subseteq ToSet(before \o last)
      BY <3>8, ConcatHas
    <3>11. ASSUME NEW k \in 1..i PROVE ToSet(seqs[k]) \subseteq ToSet(before \o last)
      <4>1. CASE k = i
        BY <3>10, <4>1
      <4>2. CASE k # i
        <5>1. k \in 1..i - 1
          BY <3>5, <4>2
        <5> QED
          BY <3>9, <3>10, <5>1
      <4> QED
        BY <4>1, <4>2
    <3>12. Good(f[i], i)
      BY <3>7, <3>10, <3>11 DEF Good
    <3> QED
      BY <3>2, <3>12
  <2>11. Good(f[n], n)
    BY <2>0, <2>10
  <2>12. DOMAIN seqs = 1..n
    BY DEF n
  <2> QED
    BY <2>9, <2>11, <2>12
<1> QED
  BY <1>1, <1>2

-----------------------------------------------------------------------------
(* One call.  What an effect does to a map of values, and what it keeps.   *)

\* The maps from blocks to values.
Maps == UNION {[S -> Names(prop)] : S \in SUBSET MemBlock}

\* values lie below those of a map.
LowerThan(values, map) == \A m \in DOMAIN map : Below(prop, values[m], map[m])

\* No block loses its value or gets another than a lower one.
Fallen(map, new) ==
  \A m \in DOMAIN map : m \in DOMAIN new /\ Below(prop, new[m], map[m])

\* The memory blocks are all in the order of their addresses.
LEMMA AddressesComplete ==
  ASSUME addresses \in SetToSeqs(MemBlock)
  PROVE  IsSequence(addresses) /\ ToSet(addresses) = MemBlock
<1> DEFINE n == Cardinality(MemBlock)
           D == 1..n
<1>1. n \in Nat /\ IsFiniteSet(MemBlock)
  BY BlocksAssumption, FS_CardinalityType
<1>2. addresses \in [D -> MemBlock] /\ \A i, j \in D : i # j => addresses[i] # addresses[j]
  BY DEF SetToSeqs
<1>3. IsFiniteSet(D) /\ Cardinality(D) = n
  <2> HIDE DEF n
  <2> QED
    BY <1>1, FS_Interval
<1> HIDE DEF n
<1>4. addresses \in Injection(D, MemBlock)
  BY <1>2 DEF Injection, IsInjective
<1>5. addresses \in Surjection(D, MemBlock)
  BY <1>1, <1>3, <1>4, FS_Injection DEF n
<1>6. ToSet(addresses) = MemBlock
  BY <1>2, <1>5 DEF Surjection, ToSet
<1>7. addresses \in Seq(ToSet(addresses))
  BY <1>1, <1>2, <1>6
<1> QED
  BY <1>6, <1>7 DEF IsSequence

\* The map of a program's values.
LEMMA MapFacts ==
  ASSUME fn \in Programs, NEW map \in Maps
  PROVE  /\ IsTree(prop) /\ prop.default \in Names(prop)
         /\ DOMAIN map \subseteq MemBlock
         /\ \A m \in DOMAIN map : map[m] \in Names(prop)
         /\ \A m : ValueIn(map, m) \in Names(prop)
<1>1. IsTree(prop) /\ prop.default \in Names(prop)
  BY ProgramsAssumption DEF prop
<1>2. PICK S \in SUBSET MemBlock : map \in [S -> Names(prop)]
  BY DEF Maps
<1> QED
  BY <1>1, <1>2 DEF ValueIn

\* What an annotation means by a name are memory blocks.
LEMMA DenotedBlocks ==
  ASSUME fn \in Programs, NEW call \in Calls, call.proc \in DOMAIN fn.procedures, NEW name
  PROVE  Denoted(call, name) \subseteq MemBlock
<1>1. PICK b \in ToSet(fn.order) : call \in ToSet(fn.code[b])
  BY DEF Calls
<1>2. PICK i \in DOMAIN fn.code[b] : call = fn.code[b][i]
  BY <1>1 DEF ToSet
<1>3. /\ call.args \in Seq(SUBSET MemBlock)
      /\ Len(fn.procedures[call.proc].params) = Len(call.args)
      /\ IsSequence(fn.procedures[call.proc].params)
  BY <1>2, ProgramsAssumption
<1>4. \A j \in DOMAIN fn.procedures[call.proc].params : call.args[j] \subseteq MemBlock
  BY <1>3 DEF IsSequence
<1> QED
  BY <1>4 DEF Denoted

\* A declared name stands for all the blocks that the annotation means.
LEMMA DenotedStand ==
  ASSUME fn \in Programs, NEW call \in Calls, call.proc \in DOMAIN fn.procedures, NEW name,
         Declared(call, name), IsInjective(fn.procedures[call.proc].params)
  PROVE  Denoted(call, name) \subseteq lhsBlocks(call, name)
<1> DEFINE annotated == fn.procedures[call.proc]
           position == {i \in DOMAIN annotated.params :
                          /\ name \in DOMAIN annotated.entry
                          /\ annotated.params[i] = annotated.entry[name]}
<1> SUFFICES ASSUME NEW j \in DOMAIN annotated.params,
                    annotated.params[j] = annotated.entry[name]
             PROVE  call.args[j] \subseteq lhsBlocks(call, name)
  BY DEF Denoted
<1>1. j \in position
  BY DEF Declared
<1>2. Max(position) \in position
  <2>1. IsSequence(annotated.params)
    BY ProgramsAssumption
  <2>2. Len(annotated.params) \in Nat /\ position \in SUBSET (1..Len(annotated.params))
    BY <2>1 DEF IsSequence
  <2> HIDE DEF position
  <2> QED
    BY <1>1, <2>2, ExtremesExist
<1>3. Max(position) = j
  BY <1>1, <1>2 DEF IsInjective
<1> QED
  BY <1>1, <1>3 DEF lhsBlocks

\* A name of an effect stands for memory blocks, for a declared name among those
\* that the annotation means.
LEMMA BlocksFacts ==
  ASSUME fn \in Programs, NEW call \in Calls, call.proc \in DOMAIN fn.procedures,
         Effects(call) # {}, NEW name
  PROVE  /\ lhsBlocks(call, name) \subseteq MemBlock
         /\ (/\ name \in DOMAIN fn.procedures[call.proc].entry
             /\ fn.procedures[call.proc].entry[name] \in ToSet(fn.procedures[call.proc].params))
              => lhsBlocks(call, name) \subseteq Denoted(call, name)
<1> DEFINE annotated == fn.procedures[call.proc]
           position == {i \in DOMAIN annotated.params :
                          /\ name \in DOMAIN annotated.entry
                          /\ annotated.params[i] = annotated.entry[name]}
           n == Len(annotated.params)
<1>1. PICK b \in ToSet(fn.order) : call \in ToSet(fn.code[b])
  BY DEF Calls
<1>2. PICK i \in DOMAIN fn.code[b] : call = fn.code[b][i]
  BY <1>1 DEF ToSet
<1>3. /\ call.args \in Seq(SUBSET MemBlock)
      /\ Len(annotated.params) = Len(call.args)
      /\ annotated.rules # <<>> => call.args # <<>>
      /\ IsSequence(annotated.params) /\ IsSequence(annotated.rules)
  BY <1>2, ProgramsAssumption
<1>4. annotated.rules # <<>>
  BY DEF Effects
<1>5. n \in Nat /\ DOMAIN annotated.params = 1..n /\ DOMAIN call.args = 1..n
  BY <1>3 DEF IsSequence
<1>6. 1 \in 1..n
  BY <1>3, <1>4
<1>7. position # {} => Max(position) \in position
  <2>1. position \in SUBSET (1..n)
    BY <1>5
  <2> HIDE DEF position, n
  <2> QED
    BY <1>5, <2>1, ExtremesExist
<1>8. lhsBlocks(call, name) = call.args[IF position = {} THEN 1 ELSE Max(position)]
  BY DEF lhsBlocks
<1>9. lhsBlocks(call, name) \subseteq MemBlock
  <2>1. \A k \in 1..n : call.args[k] \subseteq MemBlock
    BY <1>3, <1>5
  <2>2. position # {} => Max(position) \in 1..n
    BY <1>5, <1>7
  <2> HIDE DEF position, n, annotated
  <2> QED
    BY <1>6, <1>8, <2>1, <2>2
<1>10. ASSUME name \in DOMAIN annotated.entry,
              annotated.entry[name] \in ToSet(annotated.params)
       PROVE  lhsBlocks(call, name) \subseteq Denoted(call, name)
  <2>1. position # {}
    BY <1>10 DEF ToSet
  <2>2. /\ Max(position) \in DOMAIN annotated.params
        /\ annotated.params[Max(position)] = annotated.entry[name]
    BY <1>7, <2>1
  <2>3. lhsBlocks(call, name) = call.args[Max(position)]
    BY <1>8, <2>1
  <2> HIDE DEF position
  <2> QED
    BY <2>2, <2>3 DEF Denoted
<1> QED
  BY <1>9, <1>10

\* The value of a set of blocks is a value, and not lower than needed.
LEMMA CopiedFacts ==
  ASSUME fn \in Programs, addresses \in SetToSeqs(MemBlock), NEW map \in Maps,
         NEW S \in SUBSET MemBlock, S # {}
  PROVE  /\ CopiedValue(map, S) \in Names(prop)
         /\ \A u \in Names(prop) :
              (\A m \in S : Below(prop, u, ValueIn(map, m))) => Below(prop, u, CopiedValue(map, S))
         /\ \A m \in S \cap DOMAIN map : Below(prop, CopiedValue(map, S), map[m])
<1> DEFINE first == FirstIn(addresses, S)
           merged == {ValueIn(map, first)} \cup {map[m] : m \in S \cap DOMAIN map}
<1>1. first \in S
  <2>1. S \cap ToSet(addresses) # {} /\ IsSequence(addresses)
    BY AddressesComplete
  <2> QED
    BY <2>1, FirstInHolds
<1>2. merged \in SUBSET Names(prop)
  BY MapFacts
<1>3. \A v \in merged : \E m \in S : v = ValueIn(map, m)
  BY <1>1 DEF ValueIn
<1>4. CopiedValue(map, S) = merge_enumvalue_set(prop, merged)
  BY DEF CopiedValue
<1>5. \A m \in S \cap DOMAIN map : map[m] \in merged
  OBVIOUS
<1> HIDE DEF merged
<1>6. IsGreatest(prop, merged, CopiedValue(map, S))
  BY <1>2, <1>4, MapFacts, MergeIsGreatest
<1> QED
  BY <1>3, <1>5, <1>6 DEF IsGreatest

\* Lowering the blocks S of a map to v.
LEMMA AssignedFacts ==
  ASSUME fn \in Programs, NEW map \in Maps, NEW S \in SUBSET MemBlock,
         NEW v \in Names(prop), NEW fresh \in Names(prop)
  PROVE  LET new == Assigned(map, S, v, fresh)
         IN  /\ new \in Maps
             /\ Fallen(map, new)
             /\ \A values \in [MemBlock -> Names(prop)] :
                  /\ LowerThan(values, map)
                  /\ \A m \in S : Below(prop, values[m], v) /\ Below(prop, values[m], fresh)
                  => LowerThan(values, new)
<1> DEFINE new == Assigned(map, S, v, fresh)
<1>1. DOMAIN new = DOMAIN map \cup S /\ DOMAIN map \cup S \in SUBSET MemBlock
  BY MapFacts DEF Assigned
<1>2. ASSUME NEW m \in DOMAIN map \cup S
      PROVE  /\ m \notin S => new[m] = map[m] /\ m \in DOMAIN map
             /\ m \in S /\ m \in DOMAIN map => new[m] = meet(prop, map[m], v)
             /\ m \in S /\ m \notin DOMAIN map => new[m] = fresh
  BY <1>2 DEF Assigned
<1>3. new = [m \in DOMAIN map \cup S |-> new[m]]
  BY DEF Assigned
<1> HIDE DEF new
<1>4. ASSUME NEW m \in DOMAIN map
      PROVE  map[m] \in Names(prop) /\ meet(prop, map[m], v) \in Names(prop)
             /\ Below(prop, meet(prop, map[m], v), map[m])
             /\ Below(prop, map[m], map[m])
  BY <1>4, MapFacts, MeetFacts, BelowOrder
<1>5. new \in Maps
  <2>1. \A m \in DOMAIN map \cup S : new[m] \in Names(prop)
    BY <1>2, <1>4
  <2>2. new \in [DOMAIN map \cup S -> Names(prop)]
    BY <1>3, <2>1
  <2> QED
    BY <1>1, <2>2 DEF Maps
<1>6. Fallen(map, new)
  BY <1>1, <1>2, <1>4 DEF Fallen
<1>7. ASSUME NEW values \in [MemBlock -> Names(prop)], LowerThan(values, map),
             \A m \in S : Below(prop, values[m], v) /\ Below(prop, values[m], fresh)
      PROVE  LowerThan(values, new)
  <2>1. ASSUME NEW m \in DOMAIN map \cup S PROVE Below(prop, values[m], new[m])
    <3>1. CASE m \in S /\ m \in DOMAIN map
      <4>1. values[m] \in Names(prop) /\ Below(prop, values[m], map[m])
            /\ Below(prop, values[m], v) /\ map[m] \in Names(prop)
        BY <1>1, <1>4, <1>7, <3>1 DEF LowerThan
      <4>2. Below(prop, values[m], meet(prop, map[m], v))
        BY <4>1, MapFacts, MeetFacts
      <4> QED
        BY <1>2, <3>1, <4>2
    <3>2. CASE ~(m \in S /\ m \in DOMAIN map)
      BY <1>2, <1>7, <3>2 DEF LowerThan
    <3> QED
      BY <3>1, <3>2
  <2> QED
    BY <1>1, <2>1 DEF LowerThan
<1> QED
  BY <1>5, <1>6, <1>7 DEF new

\* One effect lowers values only, and not below values that no call can lower.
LEMMA EffectFacts ==
  ASSUME fn \in Programs, addresses \in SetToSeqs(MemBlock), NEW map \in Maps,
         NEW call \in Calls, call.proc \in DOMAIN fn.procedures,
         NEW effect \in Effects(call)
  PROVE  LET new == Effect(map, call, effect)
         IN  /\ new \in Maps
             /\ Fallen(map, new)
             /\ \A values \in [MemBlock -> Names(prop)] :
                  NamesDeclared /\ FlowInsensitive(values) /\ LowerThan(values, map)
                    => LowerThan(values, new)
<1> DEFINE lhs == effect[1]
           rhs == effect[2]
           S == lhsBlocks(call, lhs)
           R == lhsBlocks(call, rhs)
           new == Effect(map, call, effect)
<1>1. S \in SUBSET MemBlock /\ R \in SUBSET MemBlock
  BY BlocksFacts
<1>2. IsTree(prop) /\ prop.default \in Names(prop)
  BY MapFacts
<1>3. ASSUME NamesDeclared
      PROVE  /\ S \subseteq Denoted(call, lhs)
             /\ rhs \notin Names(prop) => R \subseteq Denoted(call, rhs)
  <2>1. \A name \in {lhs} \cup ({rhs} \ Names(prop)) :
          /\ name \in DOMAIN fn.procedures[call.proc].entry
          /\ fn.procedures[call.proc].entry[name] \in ToSet(fn.procedures[call.proc].params)
    BY <1>3 DEF NamesDeclared, Declared
  <2> QED
    BY <2>1, BlocksFacts
<1>4. CASE rhs \in Names(prop)
  <2> DEFINE fresh == meet(prop, rhs, prop.default)
  <2>1. new = Assigned(map, S, rhs, fresh)
    BY <1>4 DEF Effect, AssignValue
  <2>2. fresh \in Names(prop)
    BY <1>2, <1>4, MeetFacts
  <2>3. ASSUME NEW values \in [MemBlock -> Names(prop)],
               NamesDeclared, FlowInsensitive(values), NEW m \in S
        PROVE  Below(prop, values[m], rhs) /\ Below(prop, values[m], fresh)
    <3>1. m \in MemBlock /\ m \in Denoted(call, lhs) /\ values[m] \in Names(prop)
      BY <1>1, <1>3, <2>3
    <3>2. Below(prop, values[m], rhs) /\ Below(prop, values[m], prop.default)
      BY <1>4, <2>3, <3>1 DEF FlowInsensitive
    <3> QED
      BY <1>2, <1>4, <3>1, <3>2, MeetFacts
  <2> HIDE DEF new, S, fresh, rhs
  <2> QED
    BY <1>1, <1>4, <2>1, <2>2, <2>3, AssignedFacts DEF new
<1>5. CASE rhs \notin Names(prop) /\ R = {}
  <2>1. new = map
    BY <1>5 DEF Effect
  <2>2. Fallen(map, map)
    BY <1>2, MapFacts, BelowOrder DEF Fallen
  <2> HIDE DEF new
  <2> QED
    BY <2>1, <2>2 DEF new
<1>6. CASE rhs \notin Names(prop) /\ R # {}
  <2> DEFINE v == CopiedValue(map, R)
  <2>1. new = Assigned(map, S, v, v)
    BY <1>6 DEF Effect
  <2>2. /\ v \in Names(prop)
        /\ \A u \in Names(prop) :
             (\A m \in R : Below(prop, u, ValueIn(map, m))) => Below(prop, u, v)
    <3> HIDE DEF R
    <3> QED
      BY <1>1, <1>6, CopiedFacts
  <2>3. ASSUME NEW values \in [MemBlock -> Names(prop)], NamesDeclared,
               FlowInsensitive(values), LowerThan(values, map), NEW m \in S
        PROVE  Below(prop, values[m], v)
    <3>1. m \in MemBlock /\ m \in Denoted(call, lhs) /\ values[m] \in Names(prop)
      BY <1>1, <1>3, <2>3
    <3>2. ASSUME NEW r \in R PROVE Below(prop, values[m], ValueIn(map, r))
      <4>1. r \in MemBlock /\ r \in Denoted(call, rhs) /\ values[r] \in Names(prop)
        BY <1>1, <1>3, <1>6, <2>3, <3>2
      <4>2. Below(prop, values[m], values[r])
        BY <1>6, <2>3, <3>1, <4>1 DEF FlowInsensitive
      <4>3. Below(prop, values[r], ValueIn(map, r))
        BY <2>3, <4>1 DEF LowerThan, ValueIn, FlowInsensitive
      <4>4. ValueIn(map, r) \in Names(prop)
        BY MapFacts
      <4> HIDE DEF R, S, lhs, rhs
      <4> QED
        BY <1>2, <3>1, <4>1, <4>2, <4>3, <4>4, BelowOrder
    <3> HIDE DEF v, R, S
    <3> QED
      BY <2>2, <3>1, <3>2
  <2> HIDE DEF new, S, v, R, rhs
  <2> QED
    BY <1>1, <2>1, <2>2, <2>3, AssignedFacts DEF new
<1> QED
  BY <1>4, <1>5, <1>6

\* Falling twice is falling.
LEMMA FallenTwice ==
  ASSUME fn \in Programs, NEW map \in Maps, NEW mid \in Maps, NEW new \in Maps,
         Fallen(map, mid), Fallen(mid, new)
  PROVE  Fallen(map, new)
<1> SUFFICES ASSUME NEW m \in DOMAIN map
             PROVE  m \in DOMAIN new /\ Below(prop, new[m], map[m])
  BY DEF Fallen
<1>1. /\ m \in DOMAIN mid /\ m \in DOMAIN new
      /\ Below(prop, mid[m], map[m]) /\ Below(prop, new[m], mid[m])
  BY DEF Fallen
<1>2. map[m] \in Names(prop) /\ mid[m] \in Names(prop) /\ new[m] \in Names(prop)
  BY <1>1, MapFacts
<1> QED
  BY <1>1, <1>2, MapFacts, BelowOrder

\* The effects chosen are effects of the call, all of them if there are no
\* conditions.
LEMMA EffectsChosen ==
  ASSUME fn \in Programs, NEW map, NEW call, call.proc \in DOMAIN fn.procedures
  PROVE  /\ readAnalysisRules(map, call) \in Seq(Effects(call))
         /\ Unconditional /\ call \in Calls =>
              Effects(call) \subseteq ToSet(readAnalysisRules(map, call))
<1> DEFINE rules == fn.procedures[call.proc].rules
           chosen == [i \in DOMAIN rules |->
                       LET rule == rules[i]
                       IN  IF Holds(map, call, rule.condition) THEN rule.effects ELSE <<>>]
<1>1. IsSequence(rules) /\ \A i \in DOMAIN rules : IsSequence(rules[i].effects)
  BY ProgramsAssumption
<1>2. \A i \in DOMAIN rules : ToSet(rules[i].effects) \subseteq Effects(call)
  BY DEF Effects
<1>3. ASSUME NEW i \in DOMAIN rules PROVE rules[i].effects \in Seq(Effects(call))
  <2> DEFINE s == rules[i].effects
  <2>1. s \in Seq(ToSet(s)) /\ ToSet(s) \subseteq Effects(call)
    BY <1>1, <1>2 DEF IsSequence
  <2> HIDE DEF s
  <2> QED
    BY <2>1 DEF s
<1>4. chosen \in Seq(Seq(Effects(call)))
  <2>1. Len(rules) \in Nat /\ DOMAIN rules = 1..Len(rules)
    BY <1>1 DEF IsSequence
  <2> DEFINE n == Len(rules)
             X == Seq(Effects(call))
  <2>2. \A i \in DOMAIN rules : chosen[i] \in X
    BY <1>3
  <2>3. chosen = [i \in 1..n |-> chosen[i]]
    BY <2>1
  <2> HIDE DEF chosen, rules, n, X
  <2>4. n \in Nat /\ \A i \in 1..n : chosen[i] \in X
    BY <2>1, <2>2 DEF n
  <2>5. chosen \in Seq(X)
    BY <2>3, <2>4
  <2> QED
    BY <2>5 DEF X
<1>5. readAnalysisRules(map, call) = FlattenSeq(chosen)
  BY DEF readAnalysisRules
<1>6. ASSUME Unconditional, call \in Calls, NEW i \in DOMAIN rules
      PROVE  chosen[i] = rules[i].effects
  <2>1. rules[i].condition = NoCondition
    BY <1>6 DEF Unconditional
  <2> QED
    BY <2>1 DEF Holds
<1>7. DOMAIN chosen = DOMAIN rules
  OBVIOUS
<1>8. Effects(call) = UNION {ToSet(rules[i].effects) : i \in DOMAIN rules}
  BY DEF Effects
<1> HIDE DEF chosen, rules
<1>9. /\ FlattenSeq(chosen) \in Seq(Effects(call))
      /\ \A i \in DOMAIN chosen : ToSet(chosen[i]) \subseteq ToSet(FlattenSeq(chosen))
  BY <1>4, FlattenOver
<1>10. ASSUME Unconditional, call \in Calls
       PROVE  Effects(call) \subseteq ToSet(FlattenSeq(chosen))
  BY <1>6, <1>7, <1>8, <1>9, <1>10
<1> QED
  BY <1>5, <1>9, <1>10

\* after are the maps that the effects of a call make one from another, as they
\* are chosen from the first.
IsTurns(after, map, call) ==
  LET effects == readAnalysisRules(map, call)
  IN  /\ after[0] = map /\ after[Len(effects)] = RulesApplied(map, call)
      /\ \A n \in 1..Len(effects) : after[n] = Effect(after[n - 1], call, effects[n])

\* The effects of a call take place one after the other.
LEMMA RulesTurns ==
  ASSUME fn \in Programs, addresses \in SetToSeqs(MemBlock), NEW map \in Maps,
         NEW call \in Calls, call.proc \in DOMAIN fn.procedures
  PROVE  /\ Len(readAnalysisRules(map, call)) \in Nat
         /\ \A n \in 1..Len(readAnalysisRules(map, call)) :
              readAnalysisRules(map, call)[n] \in Effects(call)
         /\ \E after : IsTurns(after, map, call)
<1> DEFINE effects == readAnalysisRules(map, call)
           N == Len(effects)
           step == [p \in (1..N) \X Maps |-> Effect(p[2], call, effects[p[1]])]
           Is(g) == g = [n \in 0..N |-> IF n = 0 THEN map ELSE Effect(g[n - 1], call, effects[n])]
           after == CHOOSE g : Is(g)
<1>1. N \in Nat /\ \A n \in 1..N : effects[n] \in Effects(call)
  <2>1. effects \in Seq(Effects(call))
    BY EffectsChosen
  <2> HIDE DEF effects
  <2> QED
    BY <2>1
<1> HIDE DEF effects, N
<1>2. step \in [(1..N) \X Maps -> Maps]
  BY <1>1, EffectFacts
<1>3. PICK h \in [0..N -> Maps] : IsIteration(h, N, map, step)
  <2> HIDE DEF step
  <2> QED
    BY <1>1, <1>2, IterationExists
<1>4. Is(h)
  <2>1. ASSUME NEW n \in 0..N
        PROVE  h[n] = IF n = 0 THEN map ELSE Effect(h[n - 1], call, effects[n])
    <3>1. h[n] = IF n = 0 THEN map ELSE step[<<n, h[n - 1]>>]
      <4> HIDE DEF step
      <4> QED
        BY <1>3 DEF IsIteration
    <3>2. n # 0 => n \in 1..N /\ h[n - 1] \in Maps
      BY <1>1
    <3> QED
      BY <3>1, <3>2
  <2>2. h = [n \in 0..N |-> h[n]]
    OBVIOUS
  <2>3. [n \in 0..N |-> h[n]]
        = [n \in 0..N |-> IF n = 0 THEN map ELSE Effect(h[n - 1], call, effects[n])]
    BY <2>1, Zenon
  <2> QED
    BY <2>2, <2>3
<1>5. Is(after)
  <2> HIDE DEF Is
  <2> QED
    BY <1>4
<1>6. RulesApplied(map, call) = after[N]
  BY DEF RulesApplied, effects, N
<1> HIDE DEF after
<1>7. ASSUME NEW n \in 0..N
      PROVE  after[n] = IF n = 0 THEN map ELSE Effect(after[n - 1], call, effects[n])
  BY <1>5
<1>8. IsTurns(after, map, call)
  <2>1. 0 \in 0..N /\ \A n \in 1..N : n \in 0..N /\ n # 0
    BY <1>1
  <2> QED
    BY <1>6, <1>7, <2>1 DEF IsTurns, effects, N
<1> QED
  BY <1>1, <1>8 DEF effects, N

\* The rules of a call: each effect in turn falls, and so do all together.
LEMMA RulesFacts ==
  ASSUME fn \in Programs, addresses \in SetToSeqs(MemBlock), NEW map \in Maps,
         NEW call \in Calls, call.proc \in DOMAIN fn.procedures
  PROVE  LET new == RulesApplied(map, call)
         IN  /\ new \in Maps
             /\ Fallen(map, new)
             /\ \A values \in [MemBlock -> Names(prop)] :
                  NamesDeclared /\ FlowInsensitive(values) /\ LowerThan(values, map)
                    => LowerThan(values, new)
<1> DEFINE effects == readAnalysisRules(map, call)
           N == Len(effects)
<1>1. N \in Nat /\ \A n \in 1..N : effects[n] \in Effects(call)
  BY RulesTurns
<1>2. PICK after : IsTurns(after, map, call)
  BY RulesTurns
<1>7. /\ after[0] = map /\ after[N] = RulesApplied(map, call)
      /\ \A n \in 1..N : after[n] = Effect(after[n - 1], call, effects[n])
  BY <1>2 DEF IsTurns
<1> HIDE DEF effects, N
<1> DEFINE Good(m) == /\ m \in Maps
                      /\ Fallen(map, m)
                      /\ \A values \in [MemBlock -> Names(prop)] :
                           NamesDeclared /\ FlowInsensitive(values) /\ LowerThan(values, map)
                             => LowerThan(values, m)
           Bad == {n \in 0..N : ~Good(after[n])}
<1>8. Good(map)
  BY MapFacts, BelowOrder DEF Fallen
<1>9. ASSUME NEW m \in Maps, Good(m), NEW n \in 1..N
      PROVE  Good(Effect(m, call, effects[n]))
  <2> DEFINE new == Effect(m, call, effects[n])
  <2>1. /\ new \in Maps
        /\ Fallen(m, new)
        /\ \A values \in [MemBlock -> Names(prop)] :
             NamesDeclared /\ FlowInsensitive(values) /\ LowerThan(values, m)
               => LowerThan(values, new)
    BY <1>1, EffectFacts
  <2> HIDE DEF new
  <2>2. Fallen(map, new)
    BY <1>9, <2>1, FallenTwice
  <2>3. Good(new)
    BY <1>9, <2>1, <2>2
  <2> QED
    BY <2>3 DEF new
<1> HIDE DEF Good
<1>10. Bad = {}
  <2> SUFFICES ASSUME Bad # {} PROVE FALSE
    OBVIOUS
  <2>1. PICK n \in Bad : \A j \in Bad : ~(<<j, n>> \in OpToRel(<, Nat))
    <3>1. Bad \subseteq Nat
      BY <1>1
    <3> HIDE DEF Bad
    <3> QED
      BY <3>1, NatLessThanWellFounded, WFMin
  <2>2. n \in 0..N /\ ~Good(after[n])
    OBVIOUS
  <2>3. n # 0
    BY <1>7, <1>8, <2>2
  <2>4. n \in 1..N /\ n - 1 \in 0..N /\ n - 1 \in Nat /\ n \in Nat /\ n - 1 < n
    BY <1>1, <2>2, <2>3
  <2>5. Good(after[n - 1])
    BY <2>1, <2>4 DEF OpToRel
  <2>6. after[n - 1] \in Maps
    BY <2>5 DEF Good
  <2>7. Good(Effect(after[n - 1], call, effects[n]))
    BY <1>9, <2>4, <2>5, <2>6
  <2> QED
    BY <1>7, <2>2, <2>3, <2>7
<1>11. Good(after[N])
  BY <1>1, <1>10
<1> QED
  BY <1>7, <1>11 DEF Good

\* Assigning to a block makes its value as low as what is assigned.
LEMMA AssignedReaches ==
  ASSUME fn \in Programs, NEW map \in Maps, NEW S \in SUBSET MemBlock,
         NEW v \in Names(prop), NEW fresh \in Names(prop), Below(prop, fresh, v), NEW m \in S
  PROVE  LET new == Assigned(map, S, v, fresh)
         IN  m \in DOMAIN new /\ Below(prop, new[m], v)
<1> DEFINE new == Assigned(map, S, v, fresh)
<1>1. DOMAIN new = DOMAIN map \cup S
  BY DEF Assigned
<1>2. new[m] = IF m \in DOMAIN map THEN meet(prop, map[m], v) ELSE fresh
  BY DEF Assigned
<1> HIDE DEF new
<1>3. m \in DOMAIN map => Below(prop, meet(prop, map[m], v), v)
  BY MapFacts, MeetFacts
<1> QED
  BY <1>1, <1>2, <1>3 DEF new

-----------------------------------------------------------------------------
(* An execution.  The map covers its values if each block with a value     *)
(* other than the default has one in the map that is not above it.         *)

Covers(map, values) ==
  \A m \in MemBlock :
    values[m] # prop.default => m \in DOMAIN map /\ Below(prop, map[m], values[m])

\* A map that has fallen covers no less.
LEMMA CoversFalls ==
  ASSUME fn \in Programs, NEW map \in Maps, NEW new \in Maps, Fallen(map, new),
         NEW values \in [MemBlock -> Names(prop)], Covers(map, values)
  PROVE  Covers(new, values)
<1> SUFFICES ASSUME NEW m \in MemBlock, values[m] # prop.default
             PROVE  m \in DOMAIN new /\ Below(prop, new[m], values[m])
  BY DEF Covers
<1>1. /\ m \in DOMAIN map /\ m \in DOMAIN new
      /\ Below(prop, map[m], values[m]) /\ Below(prop, new[m], map[m])
  BY DEF Covers, Fallen
<1>2. map[m] \in Names(prop) /\ new[m] \in Names(prop) /\ values[m] \in Names(prop)
  BY <1>1, MapFacts
<1> QED
  BY <1>1, <1>2, MapFacts, BelowOrder

\* Whatever value an effect gives a block in an execution, the analysis lowers
\* the value of the block to it.
LEMMA EffectReaches ==
  ASSUME fn \in Programs, addresses \in SetToSeqs(MemBlock), NEW map \in Maps,
         NEW call \in Calls, call.proc \in DOMAIN fn.procedures, NEW effect \in Effects(call),
         NamesDeclared, IsInjective(fn.procedures[call.proc].params),
         NEW values \in [MemBlock -> Names(prop)], Covers(map, values),
         NEW m \in Denoted(call, effect[1]), NEW v \in Given(call, effect, values),
         v # prop.default
  PROVE  LET new == Effect(map, call, effect)
         IN  m \in DOMAIN new /\ Below(prop, new[m], v)
<1> DEFINE lhs == effect[1]
           rhs == effect[2]
           S == lhsBlocks(call, lhs)
           R == lhsBlocks(call, rhs)
           new == Effect(map, call, effect)
<1>1. S \in SUBSET MemBlock /\ R \in SUBSET MemBlock
  BY BlocksFacts
<1>2. IsTree(prop) /\ prop.default \in Names(prop)
  BY MapFacts
<1>3. \A name \in {lhs} \cup ({rhs} \ Names(prop)) : Denoted(call, name) \subseteq lhsBlocks(call, name)
  <2>1. \A name \in {lhs} \cup ({rhs} \ Names(prop)) : Declared(call, name)
    BY DEF NamesDeclared
  <2> QED
    BY <2>1, DenotedStand
<1>4. m \in S
  BY <1>3
<1>5. CASE rhs \in Names(prop)
  <2> DEFINE fresh == meet(prop, rhs, prop.default)
  <2>1. new = Assigned(map, S, rhs, fresh) /\ v = rhs
    BY <1>5 DEF Effect, AssignValue, Given
  <2>2. fresh \in Names(prop) /\ Below(prop, fresh, rhs)
    BY <1>2, <1>5, MeetFacts
  <2> HIDE DEF new, S, fresh, rhs
  <2> QED
    BY <1>1, <1>4, <1>5, <2>1, <2>2, AssignedReaches DEF new
<1>6. CASE rhs \notin Names(prop)
  <2> DEFINE copied == CopiedValue(map, R)
  <2>1. PICK r \in Denoted(call, rhs) : v = values[r]
    BY <1>6 DEF Given
  <2>2. r \in R
    BY <1>3, <1>6, <2>1
  <2>3. r \in DOMAIN map /\ Below(prop, map[r], v) /\ r \in MemBlock
    BY <1>1, <2>1, <2>2 DEF Covers
  <2>4. new = Assigned(map, S, copied, copied)
    BY <1>6, <2>2 DEF Effect
  <2>5. copied \in Names(prop) /\ Below(prop, copied, map[r])
    <3> HIDE DEF R
    <3> QED
      BY <1>1, <2>2, <2>3, CopiedFacts
  <2>6. Below(prop, copied, copied)
    BY <1>2, <2>5, BelowOrder
  <2> HIDE DEF new, S, copied
  <2>7. m \in DOMAIN new /\ Below(prop, new[m], copied)
    BY <1>1, <1>4, <2>4, <2>5, <2>6, AssignedReaches
  <2>8. new \in Maps
    BY EffectFacts DEF new
  <2>9. new[m] \in Names(prop) /\ map[r] \in Names(prop) /\ v \in Names(prop)
    BY <2>1, <2>3, <2>7, <2>8, MapFacts
  <2>10. Below(prop, new[m], map[r])
    BY <1>2, <2>5, <2>7, <2>9, BelowOrder
  <2>11. Below(prop, new[m], v)
    BY <1>2, <2>3, <2>9, <2>10, BelowOrder
  <2> QED
    BY <2>7, <2>11 DEF new
<1> QED
  BY <1>5, <1>6

\* The rules of a call without conditions lower a block to whatever value some
\* effect gives it in an execution.
LEMMA RulesReach ==
  ASSUME fn \in Programs, addresses \in SetToSeqs(MemBlock), NEW map \in Maps,
         NEW call \in Calls, call.proc \in DOMAIN fn.procedures, NEW effect \in Effects(call),
         Unconditional, NamesDeclared, IsInjective(fn.procedures[call.proc].params),
         NEW values \in [MemBlock -> Names(prop)], Covers(map, values),
         NEW m \in Denoted(call, effect[1]), NEW v \in Given(call, effect, values),
         v # prop.default, v \in Names(prop)
  PROVE  LET new == RulesApplied(map, call)
         IN  m \in DOMAIN new /\ Below(prop, new[m], v)
<1> DEFINE effects == readAnalysisRules(map, call)
           N == Len(effects)
<1>1. N \in Nat /\ \A n \in 1..N : effects[n] \in Effects(call)
  BY RulesTurns
<1>2. PICK after : IsTurns(after, map, call)
  BY RulesTurns
<1>3. /\ after[0] = map /\ after[N] = RulesApplied(map, call)
      /\ \A n \in 1..N : after[n] = Effect(after[n - 1], call, effects[n])
  BY <1>2 DEF IsTurns
<1>4. PICK k \in 1..N : effects[k] = effect
  <2>1. effect \in ToSet(effects) /\ effects \in Seq(Effects(call))
    BY EffectsChosen
  <2> HIDE DEF effects
  <2> QED
    BY <2>1 DEF ToSet
<1> HIDE DEF effects, N
<1> DEFINE Good(n) == /\ after[n] \in Maps /\ Fallen(map, after[n])
                      /\ n >= k => m \in DOMAIN after[n] /\ Below(prop, after[n][m], v)
           Bad == {n \in 0..N : ~Good(n)}
<1>5. Good(0)
  <2>1. Fallen(map, map)
    BY MapFacts, BelowOrder DEF Fallen
  <2>2. ~(0 >= k)
    BY <1>1
  <2> QED
    BY <1>3, <2>1, <2>2
<1>6. ASSUME NEW n \in 1..N, Good(n - 1) PROVE Good(n)
  <2> DEFINE old == after[n - 1]
             new == after[n]
  <2>1. /\ old \in Maps /\ Fallen(map, old)
        /\ n - 1 >= k => m \in DOMAIN old /\ Below(prop, old[m], v)
    BY <1>6
  <2>2. new = Effect(old, call, effects[n]) /\ effects[n] \in Effects(call)
    BY <1>1, <1>3
  <2> HIDE DEF old, new, Good
  <2>3. new \in Maps /\ Fallen(old, new)
    BY <2>1, <2>2, EffectFacts
  <2>4. Fallen(map, new)
    BY <2>1, <2>3, FallenTwice
  <2>5. Covers(old, values)
    BY <2>1, CoversFalls
  <2>6. CASE n = k
    <3>1. new = Effect(old, call, effect)
      BY <1>4, <2>2, <2>6
    <3>2. m \in DOMAIN new /\ Below(prop, new[m], v)
      BY <2>1, <2>5, <3>1, EffectReaches
    <3> QED
      BY <2>3, <2>4, <3>2 DEF Good, new
  <2>7. CASE n > k
    <3>1. m \in DOMAIN old /\ Below(prop, old[m], v)
      BY <1>1, <2>1, <2>7
    <3>2. m \in DOMAIN new /\ Below(prop, new[m], old[m])
      BY <2>3, <3>1 DEF Fallen
    <3>3. Below(prop, new[m], v)
      BY <2>1, <2>3, <3>1, <3>2, MapFacts, BelowOrder
    <3> QED
      BY <2>3, <2>4, <3>2, <3>3 DEF Good, new
  <2>8. CASE n < k
    <3>1. ~(n >= k)
      BY <1>1, <2>8
    <3> QED
      BY <2>3, <2>4, <3>1 DEF Good, new
  <2>9. n < k \/ n = k \/ n > k
    BY <1>1
  <2> QED
    BY <2>6, <2>7, <2>8, <2>9
<1> HIDE DEF Good
<1>7. Bad = {}
  <2> SUFFICES ASSUME Bad # {} PROVE FALSE
    OBVIOUS
  <2>1. PICK n \in Bad : \A j \in Bad : ~(<<j, n>> \in OpToRel(<, Nat))
    <3>1. Bad \subseteq Nat
      BY <1>1
    <3> HIDE DEF Bad
    <3> QED
      BY <3>1, NatLessThanWellFounded, WFMin
  <2>2. n \in 0..N /\ ~Good(n)
    OBVIOUS
  <2>3. n # 0
    BY <1>5, <2>2
  <2>4. n \in 1..N /\ n - 1 \in 0..N /\ n - 1 \in Nat /\ n \in Nat /\ n - 1 < n
    BY <1>1, <2>2, <2>3
  <2>5. Good(n - 1)
    BY <2>1, <2>4 DEF OpToRel
  <2> QED
    BY <1>6, <2>2, <2>4, <2>5
<1>8. Good(N) /\ N >= k
  BY <1>1, <1>4, <1>7
<1> QED
  BY <1>3, <1>8 DEF Good

\* What a call with effects does in an execution is one of them.
LEMMA ExecutedBy ==
  ASSUME NEW call, NEW values, Effects(call) # {}, NEW after \in Executed(values, call)
  PROVE  \E effect \in Effects(call) :
           \E m \in Denoted(call, effect[1]), v \in Given(call, effect, values) :
             after = [values EXCEPT ![m] = v]
  BY DEF Executed

\* In an execution too the values are of the property, and what the names of an
\* annotation denote are memory blocks.
LEMMA ExecutedType ==
  ASSUME fn \in Programs, NEW call \in Calls, NEW values \in [MemBlock -> Names(prop)]
  PROVE  Executed(values, call) \subseteq [MemBlock -> Names(prop)]
<1>1. CASE Effects(call) = {}
  BY <1>1 DEF Executed
<1>2. CASE Effects(call) # {}
  <2>1. call.proc \in DOMAIN fn.procedures
    BY <1>2 DEF Effects
  <2>2. \A name : Denoted(call, name) \subseteq MemBlock
    BY <2>1, DenotedBlocks
  <2>3. ASSUME NEW effect \in Effects(call), NEW m \in Denoted(call, effect[1]),
               NEW v \in Given(call, effect, values)
        PROVE  [values EXCEPT ![m] = v] \in [MemBlock -> Names(prop)]
    <3>1. v \in Names(prop)
      BY <2>2 DEF Given
    <3> QED
      BY <3>1
  <2>4. ASSUME NEW after \in Executed(values, call)
        PROVE  after \in [MemBlock -> Names(prop)]
    <3>1. PICK effect \in Effects(call) :
            \E m \in Denoted(call, effect[1]), v \in Given(call, effect, values) :
              after = [values EXCEPT ![m] = v]
      BY <1>2, <2>4, ExecutedBy
    <3>2. PICK m \in Denoted(call, effect[1]), v \in Given(call, effect, values) :
            after = [values EXCEPT ![m] = v]
      BY <3>1
    <3> QED
      BY <2>3, <3>2
  <2> QED
    BY <2>4
<1> QED
  BY <1>1, <1>2

\* What covers the values before a call covers them behind it when the rules of
\* the call have been applied.
LEMMA ExecutedCovered ==
  ASSUME fn \in Programs, addresses \in SetToSeqs(MemBlock), NEW map \in Maps,
         NEW call \in Calls, call.proc \in DOMAIN fn.procedures,
         Unconditional, NamesDeclared, ReportsDeclared,
         NEW values \in [MemBlock -> Names(prop)], Covers(map, values),
         NEW after \in Executed(values, call)
  PROVE  Covers(RulesApplied(map, call), after)
<1> DEFINE new == RulesApplied(map, call)
<1>1. new \in Maps /\ Fallen(map, new)
  BY RulesFacts
<1> HIDE DEF new
<1>2. Covers(new, values)
  BY <1>1, CoversFalls
<1>3. CASE Effects(call) = {}
  BY <1>2, <1>3 DEF Executed, new
<1>4. CASE Effects(call) # {}
  <2>0. PICK effect \in Effects(call) :
          \E m \in Denoted(call, effect[1]), v \in Given(call, effect, values) :
            after = [values EXCEPT ![m] = v]
    BY <1>4, ExecutedBy
  <2>1. PICK m \in Denoted(call, effect[1]), v \in Given(call, effect, values) :
          after = [values EXCEPT ![m] = v]
    BY <2>0
  <2>2. after \in [MemBlock -> Names(prop)]
    BY ExecutedType
  <2>3. ASSUME NEW n \in MemBlock, after[n] # prop.default
        PROVE  n \in DOMAIN new /\ Below(prop, new[n], after[n])
    <3>1. CASE n = m
      <4>1. after[n] = v /\ v \in Names(prop)
        BY <2>1, <2>2, <3>1
      <4>2. IsInjective(fn.procedures[call.proc].params)
        BY DEF ReportsDeclared
      <4> QED
        BY <2>3, <3>1, <4>1, <4>2, RulesReach DEF new
    <3>2. CASE n # m
      <4>1. after[n] = values[n]
        BY <2>1, <3>2
      <4> QED
        BY <1>2, <2>3, <4>1 DEF Covers
    <3> QED
      BY <3>1, <3>2
  <2> QED
    BY <2>3 DEF Covers, new
<1> QED
  BY <1>3, <1>4

\* The reports of one kind of a call make a sequence.
LEMMA ReportsAre ==
  ASSUME fn \in Programs, NEW map, NEW call, call.proc \in DOMAIN fn.procedures, NEW error
  PROVE  /\ IsSequence(handleReports(map, call, error))
         /\ \A r \in ToSet(fn.procedures[call.proc].reports) :
              r.error = error /\ Holds(map, call, r.condition) =>
                r.text \in ToSet(handleReports(map, call, error))
<1> DEFINE reports == fn.procedures[call.proc].reports
           texts == {reports[i].text : i \in DOMAIN reports}
           chosen == [i \in DOMAIN reports |->
                       LET r == reports[i]
                       IN  IF r.error = error /\ Holds(map, call, r.condition)
                             THEN <<r.text>> ELSE <<>>]
           made == FlattenSeq(chosen)
<1>1. IsSequence(reports)
  BY ProgramsAssumption
<1>2. Len(reports) \in Nat /\ DOMAIN reports = 1..Len(reports)
  BY <1>1 DEF IsSequence
<1>3. chosen \in Seq(Seq(texts))
  <2> DEFINE n == Len(reports)
             X == Seq(texts)
  <2>1. ASSUME NEW i \in DOMAIN reports PROVE chosen[i] \in X
    <3>1. reports[i].text \in texts
      OBVIOUS
    <3>2. <<reports[i].text>> \in X /\ <<>> \in X
      <4> HIDE DEF reports, texts, chosen
      <4> QED
        BY <3>1
    <3> HIDE DEF X
    <3> QED
      BY <3>2
  <2>2. chosen = [i \in 1..n |-> chosen[i]]
    BY <1>2
  <2> HIDE DEF chosen, reports, n, X, texts
  <2>3. n \in Nat /\ \A i \in 1..n : chosen[i] \in X
    BY <1>2, <2>1 DEF n
  <2>4. chosen \in Seq(X)
    BY <2>2, <2>3
  <2> QED
    BY <2>4 DEF X
<1>4. handleReports(map, call, error) = made
  BY DEF handleReports
<1>5. DOMAIN chosen = DOMAIN reports
  OBVIOUS
<1>6. ASSUME NEW i \in DOMAIN reports, reports[i].error = error,
             Holds(map, call, reports[i].condition)
      PROVE  reports[i].text \in ToSet(chosen[i])
  <2>1. chosen[i] = <<reports[i].text>>
    BY <1>6
  <2> HIDE DEF chosen, reports
  <2> QED
    BY <2>1 DEF ToSet
<1> HIDE DEF chosen, texts
<1>7. made \in Seq(texts) /\ \A i \in DOMAIN chosen : ToSet(chosen[i]) \subseteq ToSet(made)
  BY <1>3, FlattenOver
<1>8. IsSequence(made)
  <2> HIDE DEF made
  <2> QED
    BY <1>7 DEF IsSequence, ToSet
<1>9. ASSUME NEW r \in ToSet(reports), r.error = error, Holds(map, call, r.condition)
      PROVE  r.text \in ToSet(made)
  <2>1. PICK i \in DOMAIN reports : r = reports[i]
    BY <1>9 DEF ToSet
  <2> HIDE DEF reports, made
  <2> QED
    BY <1>5, <1>6, <1>7, <1>9, <2>1
<1> QED
  BY <1>4, <1>8, <1>9

\* What a report asks for, if a block could have a value, is answered by a map
\* that covers the values.
LEMMA CouldBeFound ==
  ASSUME fn \in Programs, NEW map \in Maps,
         NEW call \in Calls, call.proc \in DOMAIN fn.procedures, ReportsDeclared,
         NEW values \in [MemBlock -> Names(prop)], Covers(map, values),
         NEW r \in ToSet(fn.procedures[call.proc].reports),
         r.condition # NoCondition, r.condition[2] = "could-be",
         NEW m \in Denoted(call, r.condition[1]),
         values[m] = r.condition[3], values[m] # prop.default
  PROVE  Holds(map, call, r.condition)
<1> DEFINE lhs == r.condition[1]
           rhs == r.condition[3]
           S == lhsBlocks(call, lhs)
<1>1. m \in S
  <2>1. Declared(call, lhs) /\ IsInjective(fn.procedures[call.proc].params)
    BY DEF ReportsDeclared
  <2> QED
    BY <2>1, DenotedStand
<1>2. m \in MemBlock /\ m \in DOMAIN map /\ Below(prop, map[m], rhs)
  BY DenotedBlocks DEF Covers
<1>3. map[m] \in Names(prop) /\ rhs \in Names(prop) /\ IsTree(prop)
  BY <1>2, MapFacts
<1>4. meet(prop, map[m], rhs) = map[m]
  <2> DEFINE it == meet(prop, map[m], rhs)
  <2>1. Below(prop, map[m], map[m])
    BY <1>3, BelowOrder
  <2>2. it \in Names(prop) /\ Below(prop, it, map[m]) /\ Below(prop, map[m], it)
    BY <1>2, <1>3, <2>1, MeetFacts
  <2> HIDE DEF it
  <2> QED
    BY <1>3, <2>2, BelowOrder DEF it
<1>5. map[m] \in possibleProps(map, S)
  BY <1>1, <1>2 DEF possibleProps, ValueIn
<1> HIDE DEF S
<1>6. evalCondition(map, call, r.condition)
  BY <1>3, <1>4, <1>5 DEF evalCondition, S
<1> QED
  BY <1>6 DEF Holds

-----------------------------------------------------------------------------
(* The executions are the least set that has the start and what follows.   *)

\* C closes sets of A under next.
IsClosure(C, A, next_of) ==
  C = [S \in SUBSET A |-> LET T == S \cup UNION {next_of[e] : e \in S}
                          IN  IF T = S THEN S ELSE C[T]]

Least(A, next_of, S) ==
  {e \in A : \A T \in SUBSET A : S \subseteq T /\ (\A x \in T : next_of[x] \subseteq T) => e \in T}

\* The least closed set is one that a step leads to or leaves alone.
LEMMA LeastFacts ==
  ASSUME NEW A, NEW next_of \in [A -> SUBSET A], NEW S \in SUBSET A
  PROVE  LET T == S \cup UNION {next_of[e] : e \in S}
         IN  /\ T \in SUBSET A
             /\ Least(A, next_of, S) = IF T = S THEN S ELSE Least(A, next_of, T)
<1> DEFINE T == S \cup UNION {next_of[e] : e \in S}
<1>1. T \in SUBSET A
  OBVIOUS
<1>2. ASSUME NEW U \in SUBSET A, \A x \in U : next_of[x] \subseteq U
      PROVE  S \subseteq U <=> T \subseteq U
  BY <1>2
<1>3. Least(A, next_of, S) = Least(A, next_of, T)
  <2> HIDE DEF T
  <2> QED
    BY <1>2 DEF Least
<1>4. T = S => Least(A, next_of, S) = S
  <2> SUFFICES ASSUME T = S PROVE Least(A, next_of, S) = S
    OBVIOUS
  <2>1. \A x \in S : next_of[x] \subseteq S
    OBVIOUS
  <2> QED
    BY <2>1 DEF Least
<1> QED
  BY <1>1, <1>3, <1>4

LEMMA ClosureExists ==
  ASSUME NEW A, NEW next_of \in [A -> SUBSET A]
  PROVE  \E C : IsClosure(C, A, next_of)
<1> DEFINE C == [S \in SUBSET A |-> Least(A, next_of, S)]
           grown(S) == S \cup UNION {next_of[e] : e \in S}
           put(S) == IF grown(S) = S THEN S ELSE C[grown(S)]
<1>1. ASSUME NEW S \in SUBSET A PROVE C[S] = put(S)
  <2>1. grown(S) \in SUBSET A
    OBVIOUS
  <2>2. Least(A, next_of, S) = IF grown(S) = S THEN S ELSE Least(A, next_of, grown(S))
    BY LeastFacts
  <2> HIDE DEF grown
  <2> QED
    BY <2>1, <2>2
<1>2. C = [S \in SUBSET A |-> C[S]]
  OBVIOUS
<1>3. [S \in SUBSET A |-> C[S]] = [S \in SUBSET A |-> put(S)]
  <2> HIDE DEF C, put
  <2> QED
    BY <1>1
<1>4. C = [S \in SUBSET A |-> put(S)]
  BY <1>2, <1>3
<1> QED
  BY <1>4 DEF IsClosure

\* On a finite set the recursion ends, at the least closed set.
LEMMA ClosureIsLeast ==
  ASSUME NEW A, IsFiniteSet(A), NEW next_of \in [A -> SUBSET A],
         NEW C, IsClosure(C, A, next_of), NEW S \in SUBSET A
  PROVE  C[S] = Least(A, next_of, S)
<1> DEFINE grown(U) == U \cup UNION {next_of[e] : e \in U}
           Bad == {A \ U : U \in {V \in SUBSET A : C[V] # Least(A, next_of, V)}}
<1>1. ASSUME NEW U \in SUBSET A PROVE C[U] = IF grown(U) = U THEN U ELSE C[grown(U)]
  BY DEF IsClosure
<1>2. ASSUME NEW U \in SUBSET A
      PROVE  /\ grown(U) \in SUBSET A /\ U \subseteq grown(U)
             /\ Least(A, next_of, U) = IF grown(U) = U THEN U ELSE Least(A, next_of, grown(U))
  BY LeastFacts
<1> HIDE DEF grown
<1>3. Bad = {}
  <2> SUFFICES ASSUME Bad # {} PROVE FALSE
    OBVIOUS
  <2>1. Bad \subseteq FiniteSubsetsOf(A)
    BY FS_Subset DEF FiniteSubsetsOf
  <2>2. PICK W \in Bad : \A V \in Bad : <<V, W>> \notin StrictSubsetOrdering(A)
    <3> HIDE DEF Bad
    <3> QED
      BY <2>1, FS_StrictSubsetOrderingWellFounded, WFMin
  <2>3. PICK U \in SUBSET A : W = A \ U /\ C[U] # Least(A, next_of, U)
    OBVIOUS
  <2>4. grown(U) # U /\ C[grown(U)] # Least(A, next_of, grown(U))
    BY <1>1, <1>2, <2>3
  <2>5. A \ grown(U) \in Bad
    BY <1>2, <2>4
  <2>6. <<A \ grown(U), W>> \in StrictSubsetOrdering(A)
    <3>1. A \ grown(U) \subseteq W /\ A \ grown(U) # W
      BY <1>2, <2>3, <2>4
    <3> QED
      BY <2>3, <3>1 DEF StrictSubsetOrdering
  <2> QED
    BY <2>2, <2>5, <2>6
<1>4. A \ S \notin Bad
  BY <1>3
<1> QED
  BY <1>4

\* What is in the least closed set was there at first or follows something in it.
LEMMA LeastFollows ==
  ASSUME NEW A, NEW next_of \in [A -> SUBSET A], NEW S \in SUBSET A,
         NEW e \in Least(A, next_of, S)
  PROVE  e \in S \/ \E d \in Least(A, next_of, S) : e \in next_of[d]
<1> DEFINE L == Least(A, next_of, S)
           T == S \cup UNION {next_of[d] : d \in L}
<1>1. L \subseteq A /\ S \subseteq L
  BY DEF Least
<1>2. \A x \in L : next_of[x] \subseteq L
  <2> SUFFICES ASSUME NEW x \in L, NEW y \in next_of[x],
                      NEW U \in SUBSET A, S \subseteq U, \A z \in U : next_of[z] \subseteq U
               PROVE  y \in U
    BY <1>1 DEF Least
  <2>1. x \in U
    BY DEF Least
  <2> QED
    BY <2>1
<1>3. T \subseteq L
  BY <1>1, <1>2
<1>4. \A x \in T : next_of[x] \subseteq T
  BY <1>3
<1>5. T \in SUBSET A /\ S \subseteq T
  BY <1>1, <1>3
<1> HIDE DEF T
<1>6. e \in T
  BY <1>4, <1>5 DEF Least
<1> QED
  BY <1>6 DEF T

\* The blocks after a block are in every set that no edge leaves and that has
\* its successors.
LEMMA ReachableWithin ==
  ASSUME fn \in Programs, NEW b, NEW O, fn.succ[b] \subseteq O,
         \A d \in O : fn.succ[d] \subseteq O
  PROVE  Reachable(fn, b) \subseteq O
<1> DEFINE N == Len(fn.order)
           X == SUBSET O
           Step(T) == UNION {{d} \cup fn.succ[d] : d \in T}
           step == [p \in (1..N) \X X |-> Step(p[2])]
           Is(g) == g = [n \in 0..N |-> IF n = 0 THEN fn.succ[b] ELSE Step(g[n - 1])]
           R == CHOOSE g : Is(g)
<1>1. N \in Nat /\ \A d \in O : fn.succ[d] \in X
  BY ProgramsAssumption
<1> HIDE DEF N
<1>2. \A T \in X : Step(T) \in X
  BY <1>1
<1>3. step \in [(1..N) \X X -> X] /\ fn.succ[b] \in X
  <2>1. fn.succ[b] \in X
    OBVIOUS
  <2> HIDE DEF X, Step
  <2> QED
    BY <1>2, <2>1
<1>4. PICK h \in [0..N -> X] : IsIteration(h, N, fn.succ[b], step)
  <2> HIDE DEF step, X
  <2> QED
    BY <1>1, <1>3, IterationExists
<1>5. Is(h)
  <2>1. ASSUME NEW n \in 0..N
        PROVE  h[n] = IF n = 0 THEN fn.succ[b] ELSE Step(h[n - 1])
    <3>1. h[n] = IF n = 0 THEN fn.succ[b] ELSE step[<<n, h[n - 1]>>]
      <4> HIDE DEF step, X
      <4> QED
        BY <1>4 DEF IsIteration
    <3>2. n # 0 => n \in 1..N /\ h[n - 1] \in X
      <4> HIDE DEF X
      <4> QED
        BY <1>1
    <3> HIDE DEF X, Step
    <3> QED
      BY <3>1, <3>2
  <2> HIDE DEF Step, X
  <2>2. h = [n \in 0..N |-> h[n]]
    OBVIOUS
  <2>3. [n \in 0..N |-> h[n]] = [n \in 0..N |-> IF n = 0 THEN fn.succ[b] ELSE Step(h[n - 1])]
    BY <2>1, Zenon
  <2> QED
    BY <2>2, <2>3
<1>6. Is(R)
  <2> HIDE DEF Is
  <2> QED
    BY <1>5
<1>7. Reachable(fn, b) = R[N]
  BY DEF Reachable, N
<1> HIDE DEF R
<1>8. \A n \in 0..N : R[n] = IF n = 0 THEN fn.succ[b] ELSE Step(R[n - 1])
  <2> HIDE DEF Step
  <2> QED
    BY <1>6
<1> DEFINE Bad == {n \in 0..N : R[n] \notin X}
<1> HIDE DEF Step, X
<1>9. Bad = {}
  <2> SUFFICES ASSUME Bad # {} PROVE FALSE
    OBVIOUS
  <2>1. PICK n \in Bad : \A j \in Bad : ~(<<j, n>> \in OpToRel(<, Nat))
    <3>1. Bad \subseteq Nat
      BY <1>1
    <3> HIDE DEF Bad
    <3> QED
      BY <3>1, NatLessThanWellFounded, WFMin
  <2>2. n # 0
    BY <1>3, <1>8
  <2>3. n - 1 \in 0..N /\ n - 1 \in Nat /\ n \in Nat /\ n - 1 < n
    BY <1>1, <2>2
  <2>4. R[n - 1] \in X
    BY <2>1, <2>3 DEF OpToRel
  <2> QED
    BY <1>2, <1>8, <2>2, <2>4
<1> QED
  BY <1>1, <1>7, <1>9 DEF X

\* They are blocks of the program.
LEMMA ReachableInOrder ==
  ASSUME fn \in Programs, NEW b \in ToSet(fn.order)
  PROVE  Reachable(fn, b) \subseteq ToSet(fn.order)
<1>1. \A d \in ToSet(fn.order) : fn.succ[d] \subseteq ToSet(fn.order)
  BY ProgramsAssumption
<1> QED
  BY <1>1, ReachableWithin

-----------------------------------------------------------------------------
(* The executions of a program are such a set: its places and values are   *)
(* finite in number.                                                       *)

States == Places \X [MemBlock -> Names(prop)]

\* The places at which an execution may be, with values for the blocks, are
\* finite in number.
LEMMA StatesFinite ==
  ASSUME fn \in Programs PROVE IsFiniteSet(States)
<1>1. IsFiniteSet(ToSet(fn.order))
  <2>1. fn.order \in Seq(Block) /\ Len(fn.order) \in Nat
    BY ProgramsAssumption
  <2>2. fn.order \in Surjection(1..Len(fn.order), ToSet(fn.order))
    BY <2>1 DEF Surjection, ToSet
  <2>3. IsFiniteSet(1..Len(fn.order))
    BY <2>1, FS_Interval
  <2> QED
    BY <2>2, <2>3, FS_Surjection
<1>2. IsFiniteSet(Places)
  <2> DEFINE at(b) == {b} \X (1..Len(fn.code[b]) + 1)
             T == {at(b) : b \in ToSet(fn.order)}
             g == [b \in ToSet(fn.order) |-> at(b)]
  <2>1. ASSUME NEW b \in ToSet(fn.order) PROVE IsFiniteSet(at(b))
    <3>1. Len(fn.code[b]) \in Nat
      BY ProgramsAssumption DEF IsSequence
    <3>2. IsFiniteSet(1..Len(fn.code[b]) + 1)
      <4>1. Len(fn.code[b]) + 1 \in Int /\ 1 \in Int
        BY <3>1
      <4> QED
        BY <4>1, FS_Interval
    <3>3. IsFiniteSet({b})
      BY FS_Singleton
    <3> QED
      BY <3>2, <3>3, FS_Product
  <2>2. g \in Surjection(ToSet(fn.order), T)
    <3> HIDE DEF at
    <3> QED
      BY DEF Surjection
  <2>3. IsFiniteSet(T)
    BY <1>1, <2>2, FS_Surjection
  <2>4. IsFiniteSet(UNION T)
    <3>1. \A U \in T : IsFiniteSet(U)
      BY <2>1
    <3> HIDE DEF T
    <3> QED
      BY <2>3, <3>1, FS_UNION
  <2> QED
    BY <2>4 DEF Places
<1>3. IsFiniteSet([MemBlock -> Names(prop)])
  <2> DEFINE F == [MemBlock -> Names(prop)]
             pairs(f) == {<<m, f[m]>> : m \in MemBlock}
             g == [f \in F |-> pairs(f)]
             T == SUBSET (MemBlock \X Names(prop))
  <2>1. IsFiniteSet(MemBlock) /\ IsFiniteSet(Names(prop))
    <3>1. IsTree(prop)
      BY ProgramsAssumption DEF prop
    <3> QED
      <4>1. IsFiniteSet(prop.values \cup {Top})
        BY <3>1, FS_AddElement DEF IsTree
      <4>2. IsFiniteSet(prop.values \cup {Top} \cup {Bottom})
        BY <4>1, FS_AddElement
      <4>3. Names(prop) = prop.values \cup {Top} \cup {Bottom}
        BY DEF Names
      <4> QED
        BY <4>2, <4>3, BlocksAssumption
  <2>2. IsFiniteSet(T)
    BY <2>1, FS_Product, FS_SUBSET
  <2>3. \A f \in F : pairs(f) \in T
    OBVIOUS
  <2>4. ASSUME NEW e \in F, NEW f \in F, pairs(e) = pairs(f) PROVE e = f
    <3>1. ASSUME NEW m \in MemBlock PROVE e[m] = f[m]
      <4>1. <<m, e[m]>> \in pairs(f)
        BY <2>4
      <4> QED
        BY <4>1
    <3> QED
      BY <3>1
  <2>5. g \in Injection(F, T)
    <3> HIDE DEF pairs, F, T
    <3> QED
      BY <2>3, <2>4 DEF Injection, IsInjective
  <2> QED
    BY <2>2, <2>5, FS_Injection
<1> QED
  BY <1>2, <1>3, FS_Product DEF States

\* The code of a block is a sequence of calls.
LEMMA CodeFacts ==
  ASSUME fn \in Programs, NEW b \in ToSet(fn.order)
  PROVE  IsSequence(fn.code[b]) /\ Len(fn.code[b]) \in Nat
<1>1. IsSequence(fn.code[b])
  BY ProgramsAssumption, Zenon
<1> QED
  BY <1>1 DEF IsSequence

\* An execution goes from a place of the program to another.
LEMMA FollowingIn ==
  ASSUME fn \in Programs, NEW e \in States
  PROVE  Following(e) \subseteq States
<1> DEFINE b == e[1][1]
           i == e[1][2]
<1>1. /\ e[1] \in Places /\ e[2] \in [MemBlock -> Names(prop)]
  BY DEF States
<1>2. /\ b \in ToSet(fn.order) /\ i \in 1..Len(fn.code[b]) + 1
      /\ e[1] = <<b, i>>
  BY <1>1 DEF Places
<1>3. IsSequence(fn.code[b]) /\ Len(fn.code[b]) \in Nat
  BY <1>2, CodeFacts
<1>4. CASE i <= Len(fn.code[b])
  <2>1. i \in DOMAIN fn.code[b] /\ i + 1 \in 1..Len(fn.code[b]) + 1
    BY <1>2, <1>3, <1>4 DEF IsSequence
  <2>2. fn.code[b][i] \in Calls
    BY <1>2, <2>1 DEF Calls, ToSet
  <2>3. Executed(e[2], fn.code[b][i]) \subseteq [MemBlock -> Names(prop)]
    BY <1>1, <2>2, ExecutedType
  <2>4. <<b, i + 1>> \in Places
    BY <1>2, <2>1 DEF Places
  <2> HIDE DEF b, i
  <2> QED
    BY <1>4, <2>3, <2>4 DEF Following, States, b, i
<1>5. CASE ~(i <= Len(fn.code[b]))
  <2>1. fn.succ[b] \subseteq ToSet(fn.order)
    BY <1>2, ProgramsAssumption
  <2>2. ASSUME NEW d \in fn.succ[b] PROVE <<d, 1>> \in Places
    <3>1. d \in ToSet(fn.order)
      BY <2>1
    <3>2. Len(fn.code[d]) \in Nat
      BY <3>1, CodeFacts
    <3> QED
      BY <3>1, <3>2 DEF Places
  <2> HIDE DEF b, i
  <2> QED
    BY <1>1, <1>5, <2>2 DEF Following, States, b, i
<1> QED
  BY <1>4, <1>5

\* Where an execution starts.
Start == <<<<fn.order[1], 1>>, [m \in MemBlock |-> prop.default]>>

\* It starts at a place of the program.
LEMMA StartIn == ASSUME fn \in Programs PROVE Start \in States
<1>1. 1 \in DOMAIN fn.order /\ fn.order[1] \in ToSet(fn.order)
  <2>1. fn.order \in Seq(Block) /\ fn.order # <<>>
    BY ProgramsAssumption
  <2> QED
    BY <2>1 DEF ToSet
<1>2. Len(fn.code[fn.order[1]]) \in Nat
  BY <1>1, ProgramsAssumption DEF IsSequence
<1>3. <<fn.order[1], 1>> \in Places
  BY <1>1, <1>2 DEF Places
<1>4. prop.default \in Names(prop)
  BY ProgramsAssumption DEF prop
<1> QED
  BY <1>3, <1>4 DEF Start, States

\* The executions, as the least set of states with their start.
LEMMA ExecutionsLeast ==
  fn \in Programs =>
    Executions = Least(States, [d \in States |-> Following(d)], {Start})
<1> SUFFICES ASSUME fn \in Programs
             PROVE  Executions = Least(States, [d \in States |-> Following(d)], {Start})
  OBVIOUS
<1> DEFINE next_of == [d \in States |-> Following(d)]
           Is(C) == C = [S \in SUBSET States |->
                      LET T == S \cup UNION {Following(d) : d \in S}
                      IN  IF T = S THEN S ELSE C[T]]
           C == CHOOSE C : Is(C)
<1>1. next_of \in [States -> SUBSET States]
  BY FollowingIn
<1>2. \A D : Is(D) <=> IsClosure(D, States, next_of)
  <2> SUFFICES ASSUME NEW D PROVE Is(D) <=> IsClosure(D, States, next_of)
    OBVIOUS
  <2> DEFINE one(S) == LET T == S \cup UNION {Following(d) : d \in S}
                       IN  IF T = S THEN S ELSE D[T]
             two(S) == LET T == S \cup UNION {next_of[d] : d \in S}
                       IN  IF T = S THEN S ELSE D[T]
  <2>1. ASSUME NEW S \in SUBSET States PROVE one(S) = two(S)
    <3>1. UNION {Following(d) : d \in S} = UNION {next_of[d] : d \in S}
      OBVIOUS
    <3> QED
      BY <3>1
  <2>2. [S \in SUBSET States |-> one(S)] = [S \in SUBSET States |-> two(S)]
    <3> HIDE DEF one, two
    <3> QED
      BY <2>1
  <2> QED
    BY <2>2 DEF IsClosure
<1>3. Is(C)
  <2>1. \E D : Is(D)
    <3> HIDE DEF Is, next_of
    <3> QED
      BY <1>1, <1>2, ClosureExists
  <2> HIDE DEF Is
  <2> QED
    BY <2>1
<1>4. Start \in States
  BY StartIn
<1>5. Executions = C[{Start}]
  BY DEF Executions, Start, States
<1>6. C[{Start}] = Least(States, next_of, {Start})
  <2> HIDE DEF C, Is, next_of
  <2> QED
    BY <1>1, <1>2, <1>3, <1>4, StatesFinite, ClosureIsLeast
<1> QED
  BY <1>5, <1>6

\* Where an execution is, with the values there, is the start or follows where
\* it is in an execution.
LEMMA ExecutionsFollow ==
  ASSUME fn \in Programs, NEW e \in Executions
  PROVE  /\ e \in States
         /\ e = Start \/ \E d \in Executions : e \in Following(d)
<1> DEFINE next_of == [d \in States |-> Following(d)]
           L == Least(States, next_of, {Start})
<1>1. next_of \in [States -> SUBSET States]
  BY FollowingIn
<1>2. Start \in States
  BY StartIn
<1>3. e \in L /\ L \subseteq States /\ L = Executions
  BY ExecutionsLeast DEF Least
<1>4. e \in {Start} \/ \E d \in L : e \in next_of[d]
  <2> HIDE DEF next_of
  <2> QED
    BY <1>1, <1>2, <1>3, LeastFollows
<1> QED
  BY <1>3, <1>4

\* A state of an execution is at a place of the program, and the blocks of a
\* program are blocks.
LEMMA StateFacts ==
  ASSUME fn \in Programs, NEW e \in States
  PROVE  /\ e[1][1] \in ToSet(fn.order) /\ e[1][1] # Null
         /\ e[1][2] \in 1..Len(fn.code[e[1][1]]) + 1 /\ Len(fn.code[e[1][1]]) \in Nat
         /\ IsSequence(fn.code[e[1][1]])
         /\ e[1] = <<e[1][1], e[1][2]>>
         /\ e[2] \in [MemBlock -> Names(prop)]
<1>1. e[1] \in Places /\ e[2] \in [MemBlock -> Names(prop)]
  BY DEF States
<1>2. /\ e[1][1] \in ToSet(fn.order) /\ e[1][2] \in 1..Len(fn.code[e[1][1]]) + 1
      /\ e[1] = <<e[1][1], e[1][2]>>
  BY <1>1 DEF Places
<1>3. fn.order \in Seq(Block)
  BY ProgramsAssumption
<1>4. e[1][1] \in Block
  BY <1>2, <1>3 DEF ToSet
<1>5. IsSequence(fn.code[e[1][1]]) /\ Len(fn.code[e[1][1]]) \in Nat
  BY <1>2, CodeFacts
<1> QED
  BY <1>1, <1>2, <1>4, <1>5, BlocksAssumption

\* An execution goes on in its block, or from the end of it to a block after it.
LEMMA FollowingWhere ==
  ASSUME fn \in Programs, NEW d \in States, NEW e \in Following(d)
  PROVE  LET b == d[1][1]
             i == d[1][2]
         IN  /\ b \in ToSet(fn.order) /\ i \in 1..Len(fn.code[b]) + 1 /\ Len(fn.code[b]) \in Nat
             /\ \/ /\ i <= Len(fn.code[b]) /\ fn.code[b][i] \in Calls
                   /\ e[1] = <<b, i + 1>> /\ e[2] \in Executed(d[2], fn.code[b][i])
                \/ /\ i = Len(fn.code[b]) + 1
                   /\ e[1][1] \in fn.succ[b] /\ e[1][2] = 1 /\ e[2] = d[2]
<1> DEFINE b == d[1][1]
           i == d[1][2]
<1>1. b \in ToSet(fn.order) /\ i \in 1..Len(fn.code[b]) + 1
  BY DEF States, Places
<1>2. IsSequence(fn.code[b]) /\ Len(fn.code[b]) \in Nat
  BY <1>1, CodeFacts
<1>3. CASE i <= Len(fn.code[b])
  <2>1. i \in DOMAIN fn.code[b]
    BY <1>1, <1>2, <1>3 DEF IsSequence
  <2>2. fn.code[b][i] \in Calls
    BY <1>1, <2>1 DEF Calls, ToSet
  <2>3. e \in {<<<<b, i + 1>>, v>> : v \in Executed(d[2], fn.code[b][i])}
    BY <1>3 DEF Following
  <2> QED
    BY <1>1, <1>2, <1>3, <2>2, <2>3
<1>4. CASE ~(i <= Len(fn.code[b]))
  <2>1. e \in {<<<<c, 1>>, d[2]>> : c \in fn.succ[b]}
    BY <1>4 DEF Following
  <2>2. i = Len(fn.code[b]) + 1
    BY <1>1, <1>2, <1>4
  <2> QED
    BY <1>1, <1>2, <2>1, <2>2
<1> QED
  BY <1>3, <1>4

\* The first block of the worklist comes after no other there, nor after itself,
\* in a program without loops.
LEMMA FirstOfWorklist ==
  ASSUME fn \in Programs, Acyclic, worklist \subseteq ToSet(fn.order), worklist # {}
  PROVE  LET b == FirstIn(fn.order, worklist)
         IN  b \in worklist /\ \A c \in worklist : b \notin fn.succ[c]
<1> DEFINE I == {i \in DOMAIN fn.order : fn.order[i] \in worklist}
           b == FirstIn(fn.order, worklist)
<1>1. Len(fn.order) \in Nat /\ DOMAIN fn.order = 1..Len(fn.order)
  BY ProgramsAssumption
<1>2. I \in SUBSET (1..Len(fn.order)) /\ I # {}
  BY <1>1 DEF ToSet
<1>3. Min(I) \in I /\ \A j \in I : Min(I) <= j
  <2> HIDE DEF I
  <2> QED
    BY <1>1, <1>2, ExtremesExist
<1>4. b = fn.order[Min(I)]
  BY DEF FirstIn
<1>5. ASSUME NEW c \in worklist PROVE b \notin fn.succ[c]
  <2>1. PICK j \in DOMAIN fn.order : fn.order[j] = c
    BY <1>5 DEF ToSet
  <2>2. j \in I
    BY <1>5, <2>1
  <2>3. c \notin Reachable(fn, c)
    BY <1>5 DEF Acyclic
  <2>4. Min(I) \in DOMAIN fn.order /\ Min(I) <= j
    BY <1>3, <2>2
  <2> HIDE DEF I, b
  <2> QED
    BY <1>4, <2>1, <2>3, <2>4, ProgramsAssumption
<1> QED
  BY <1>3, <1>4, <1>5

-----------------------------------------------------------------------------
(* The invariant: where the solver may stand, and that every value on the  *)
(* way lies above those that no call can lower.                            *)

TypeInv ==
  /\ fn \in Programs
  /\ addresses \in SetToSeqs(MemBlock)
  /\ worklist \subseteq ToSet(fn.order)
  /\ bb \in ToSet(fn.order) \cup {Null}
  /\ bb # Null => next \in Nat \ {0}
  /\ propMap \in Maps

KeptAbove ==
  NamesDeclared =>
    \A values \in [MemBlock -> Names(prop)] :
      FlowInsensitive(values) => LowerThan(values, propMap)

IInv == TypeInv /\ KeptAbove

\* The solver has arrived at the place of an execution, and has gone past it.
Arrived(e) == e[1][1] \notin worklist /\ (e[1][1] = bb => e[1][2] <= next)
Passed(e)  == e[1][1] \notin worklist /\ (e[1][1] = bb => e[1][2] < next)

Findable == Acyclic /\ Unconditional /\ NamesDeclared /\ ReportsDeclared

\* What is left to be visited is left in the right order: with a block all the
\* blocks after it.
Ordered ==
  /\ \A b \in worklist : fn.succ[b] \subseteq worklist
  /\ bb # Null => fn.succ[bb] \subseteq worklist

FoundSoFar ==
  /\ IsSequence(errors) /\ IsSequence(warnings)
  /\ done => worklist = {} /\ bb = Null
  /\ Findable =>
       /\ Ordered
       /\ \A e \in Executions : Arrived(e) => Covers(propMap, e[2])
       /\ \A e \in Executions : Passed(e) => Reported(e)

\* What the invariant says of the program depends on nothing that changes.
LEMMA ProgramKept ==
  ASSUME fn' = fn
  PROVE  /\ prop' = prop
         /\ Maps' = Maps
         /\ NamesDeclared' <=> NamesDeclared
         /\ \A values : FlowInsensitive(values)' <=> FlowInsensitive(values)
         /\ \A values, map : LowerThan(values, map)' <=> LowerThan(values, map)
<1>1. prop' = prop
  BY DEF prop
<1>2. Maps' = Maps
  BY <1>1 DEF Maps
<1>3. Calls' = Calls
  BY DEF Calls
<1>4. \A c : Effects(c)' = Effects(c)
  BY DEF Effects
<1>5. \A c, name : Denoted(c, name)' = Denoted(c, name)
  BY DEF Denoted
<1>6. NamesDeclared' <=> NamesDeclared
  BY <1>1, <1>3, <1>4 DEF NamesDeclared, Declared
<1>7. \A values : FlowInsensitive(values)' <=> FlowInsensitive(values)
  BY <1>1, <1>3, <1>4, <1>5 DEF FlowInsensitive
<1>8. \A values, map : LowerThan(values, map)' <=> LowerThan(values, map)
  BY <1>1 DEF LowerThan
<1> QED
  BY <1>1, <1>2, <1>6, <1>7, <1>8

\* Neither do the executions of the program.
LEMMA ExecutionsKept ==
  ASSUME fn' = fn, fn \in Programs
  PROVE  /\ Executions' = Executions
         /\ Findable' <=> Findable
         /\ \A map, values : Covers(map, values)' <=> Covers(map, values)
<1>1. prop' = prop /\ Calls' = Calls
  BY DEF prop, Calls
<1>2. \A c : Effects(c)' = Effects(c)
  BY DEF Effects
<1>3. \A c, name : Denoted(c, name)' = Denoted(c, name)
  BY DEF Denoted
<1>4. \A c, e, values : Given(c, e, values)' = Given(c, e, values)
  BY <1>1, <1>3 DEF Given
<1>5. \A values, c : Executed(values, c)' = Executed(values, c)
  BY <1>2, <1>3, <1>4 DEF Executed
<1>6. \A e : Following(e)' = Following(e)
  BY <1>5 DEF Following
<1>7. States' = States /\ Start' = Start
  BY <1>1 DEF States, Places, Start
<1>8. Executions' = Executions
  <2>1. (fn \in Programs =>
           Executions = Least(States, [d \in States |-> Following(d)], {Start}))'
    BY ExecutionsLeast, PTL
  <2>2. Executions' = Least(States', [d \in States' |-> Following(d)'], {Start'})
    BY <2>1
  <2>3. [d \in States' |-> Following(d)'] = [d \in States |-> Following(d)]
    BY <1>6, <1>7
  <2> QED
    BY <1>7, <2>2, <2>3, ExecutionsLeast
<1>9. \A c, name : Declared(c, name)' <=> Declared(c, name)
  BY DEF Declared
<1>10. Findable' <=> Findable
  <2>1. Acyclic' <=> Acyclic
    BY DEF Acyclic
  <2>2. Unconditional' <=> Unconditional
    BY <1>1 DEF Unconditional
  <2>3. NamesDeclared' <=> NamesDeclared
    BY ProgramKept
  <2>4. ReportsDeclared' <=> ReportsDeclared
    BY <1>1, <1>9 DEF ReportsDeclared
  <2> QED
    BY <2>1, <2>2, <2>3, <2>4 DEF Findable
<1>11. \A map, values : Covers(map, values)' <=> Covers(map, values)
  BY <1>1 DEF Covers
<1> QED
  BY <1>8, <1>10, <1>11

\* The invariant holds at the start.
LEMMA InitIInv == Init => IInv
<1> SUFFICES ASSUME Init PROVE IInv
  OBVIOUS
<1>1. propMap = <<>> /\ DOMAIN propMap = {}
  BY DEF Init
<1>2. propMap \in [{} -> Names(prop)]
  BY <1>1
<1>3. propMap \in Maps
  BY <1>2 DEF Maps
<1>4. TypeInv
  BY <1>3 DEF Init, TypeInv
<1>5. KeptAbove
  BY <1>1 DEF KeptAbove, LowerThan
<1> QED
  BY <1>4, <1>5 DEF IInv

\* A call the analysis stands at is one of the program.
LEMMA CallOfProgram ==
  ASSUME TypeInv, AtCall
  PROVE  Call \in Calls
<1>1. bb \in ToSet(fn.order) /\ next \in Nat \ {0} /\ next <= Len(fn.code[bb])
  BY DEF TypeInv, AtCall
<1>2. IsSequence(fn.code[bb])
  BY <1>1, ProgramsAssumption DEF TypeInv
<1>3. next \in DOMAIN fn.code[bb]
  BY <1>1, <1>2 DEF IsSequence
<1> QED
  BY <1>1, <1>3 DEF Call, Calls, ToSet

\* A step of the rules of a call.
LEMMA AtLibCallKeeps ==
  ASSUME IInv, at_lib_call
  PROVE  propMap' \in Maps /\ Fallen(propMap, propMap') /\ IInv'
<1> DEFINE new == RulesApplied(propMap, Call)
<1>1. TypeInv /\ KeptAbove /\ propMap' = new /\ fn' = fn
  BY DEF IInv, at_lib_call
<1>2. /\ new \in Maps
      /\ Fallen(propMap, new)
      /\ \A values \in [MemBlock -> Names(prop)] :
           NamesDeclared /\ FlowInsensitive(values) /\ LowerThan(values, propMap)
             => LowerThan(values, new)
  <2>1. /\ fn \in Programs /\ addresses \in SetToSeqs(MemBlock) /\ propMap \in Maps
        /\ Call.proc \in DOMAIN fn.procedures
    BY <1>1 DEF TypeInv, at_lib_call
  <2>2. Call \in Calls
    BY <1>1, CallOfProgram DEF at_lib_call
  <2> QED
    BY <2>1, <2>2, RulesFacts
<1> HIDE DEF new
<1>3. TypeInv'
  <2>1. /\ fn' = fn /\ addresses' = addresses /\ worklist' = worklist /\ bb' = bb
        /\ next' = next + 1 /\ bb # Null
    BY DEF at_lib_call, AtCall
  <2>2. propMap' \in Maps'
    BY <1>1, <1>2, ProgramKept
  <2> QED
    BY <1>1, <2>1, <2>2 DEF TypeInv
<1>4. KeptAbove'
  <2>1. NamesDeclared => \A values \in [MemBlock -> Names(prop)] :
          FlowInsensitive(values) => LowerThan(values, new)
    BY <1>1, <1>2 DEF KeptAbove
  <2>2. NamesDeclared' => \A values \in [MemBlock -> Names(prop')] :
          FlowInsensitive(values)' => LowerThan(values, propMap')
    BY <1>1, <2>1, ProgramKept
  <2>3. \A values : LowerThan(values, propMap)' <=> LowerThan(values, propMap')
    BY <1>1, ProgramKept DEF LowerThan
  <2> QED
    BY <2>2, <2>3 DEF KeptAbove
<1> QED
  BY <1>1, <1>2, <1>3, <1>4 DEF IInv

\* Every other step keeps the map, and the solver where it may stand.
LEMMA OtherStepsKeep ==
  ASSUME IInv, shift_worklist \/ lookupProcedure \/ endBlock \/ analysis_done
  PROVE  propMap' = propMap /\ IInv'
<1>1. TypeInv /\ KeptAbove
  BY DEF IInv
<1>2. fn' = fn /\ addresses' = addresses /\ propMap' = propMap
  BY DEF shift_worklist, lookupProcedure, endBlock, analysis_done, client, solver
<1>3. propMap' \in Maps'
  BY <1>1, <1>2, ProgramKept DEF TypeInv
<1>4. KeptAbove'
  <2>1. \A values : LowerThan(values, propMap)' <=> LowerThan(values, propMap)
    BY <1>2, ProgramKept DEF LowerThan
  <2> QED
    BY <1>1, <1>2, <2>1, ProgramKept DEF KeptAbove
<1>5. /\ worklist' \subseteq ToSet(fn.order)
      /\ bb' \in ToSet(fn.order) \cup {Null}
      /\ bb' # Null => next' \in Nat \ {0}
  <2>1. CASE shift_worklist
    <3>1. IsSequence(fn.order) /\ worklist \cap ToSet(fn.order) # {}
      <4>1. fn.order \in Seq(Block) /\ worklist \subseteq ToSet(fn.order) /\ worklist # {}
        BY <1>1, <2>1, ProgramsAssumption DEF TypeInv, shift_worklist
      <4>2. fn.order \in Seq(ToSet(fn.order))
        BY <4>1 DEF ToSet
      <4> QED
        BY <4>1, <4>2 DEF IsSequence
    <3>2. FirstIn(fn.order, worklist) \in worklist \cap ToSet(fn.order)
      BY <3>1, FirstInHolds
    <3> QED
      BY <1>1, <2>1, <3>2 DEF TypeInv, shift_worklist
  <2>2. CASE lookupProcedure
    BY <1>1, <2>2 DEF TypeInv, lookupProcedure, AtCall
  <2>3. CASE endBlock
    <3>1. bb \in ToSet(fn.order) /\ fn \in Programs
      BY <1>1, <2>3 DEF TypeInv, endBlock
    <3>2. Reachable(fn, bb) \subseteq ToSet(fn.order)
      BY <3>1, ReachableInOrder
    <3> QED
      BY <1>1, <2>3, <3>2 DEF TypeInv, endBlock
  <2>4. CASE analysis_done
    BY <1>1, <2>4 DEF TypeInv, analysis_done, solver
  <2> QED
    BY <2>1, <2>2, <2>3, <2>4
<1> QED
  BY <1>1, <1>2, <1>3, <1>4, <1>5 DEF IInv, TypeInv

\* A step that changes nothing.
LEMMA StutterKeeps ==
  ASSUME IInv, UNCHANGED vars
  PROVE  propMap' = propMap /\ IInv'
<1>1. /\ fn' = fn /\ addresses' = addresses /\ propMap' = propMap
      /\ worklist' = worklist /\ bb' = bb /\ next' = next
  BY DEF vars, solver, client
<1>2. propMap' \in Maps'
  BY <1>1, ProgramKept DEF IInv, TypeInv
<1>3. \A values : LowerThan(values, propMap)' <=> LowerThan(values, propMap)
  BY <1>1, ProgramKept DEF LowerThan
<1>4. KeptAbove'
  BY <1>1, <1>3, ProgramKept DEF IInv, KeptAbove
<1> QED
  BY <1>1, <1>2, <1>4 DEF IInv, TypeInv

\* Every step of the analysis keeps the invariant.
LEMMA NextKeeps == IInv /\ [Next]_vars => IInv'
  BY AtLibCallKeeps, OtherStepsKeep, StutterKeeps DEF Next

\* A block that has a value always keeps one, and no other than a lower one.
LEMMA NextFalls ==
  IInv /\ [Next]_vars =>
    \A m \in DOMAIN propMap : m \in DOMAIN propMap' /\ Below(prop, propMap'[m], propMap[m])
<1> SUFFICES ASSUME IInv, [Next]_vars PROVE Fallen(propMap, propMap')
  BY DEF Fallen
<1>1. CASE at_lib_call
  BY <1>1, AtLibCallKeeps
<1>2. CASE ~at_lib_call
  <2>1. propMap' = propMap
    BY <1>2, OtherStepsKeep, StutterKeeps DEF Next
  <2>2. fn \in Programs /\ propMap \in Maps
    BY DEF IInv, TypeInv
  <2>3. \A m \in DOMAIN propMap : Below(prop, propMap[m], propMap[m])
    BY <2>2, MapFacts, BelowOrder
  <2> QED
    BY <2>1, <2>3 DEF Fallen
<1> QED
  BY <1>1, <1>2

-----------------------------------------------------------------------------
(* What executions do is found, block after block.                         *)

\* What has been reported stays so.
LEMMA ReportedKept ==
  ASSUME fn' = fn, ToSet(errors) \subseteq ToSet(errors'), ToSet(warnings) \subseteq ToSet(warnings'),
         NEW e, Reported(e)
  PROVE  Reported(e)'
<1>1. \A c, name : Denoted(c, name)' = Denoted(c, name)
  BY DEF Denoted
<1>2. prop' = prop
  BY DEF prop
<1>3. \A error : ToSet(IF error THEN errors ELSE warnings) \subseteq
                   ToSet(IF error THEN errors' ELSE warnings')
  OBVIOUS
<1> QED
  BY <1>1, <1>2, <1>3 DEF Reported

\* What a step has to show, said of the program as it was before.
LEMMA FoundAfter ==
  ASSUME fn' = fn, fn \in Programs,
         IsSequence(errors)', IsSequence(warnings)', (done => worklist = {} /\ bb = Null)',
         Findable => /\ Ordered'
                     /\ \A e \in Executions : Arrived(e)' => Covers(propMap', e[2])
                     /\ \A e \in Executions : Passed(e)' => Reported(e)'
  PROVE  FoundSoFar'
<1>1. Executions' = Executions /\ (Findable' <=> Findable)
  BY ExecutionsKept
<1>2. \A values : Covers(propMap, values)' <=> Covers(propMap', values)
  BY DEF Covers, prop
<1> QED
  BY <1>1, <1>2 DEF FoundSoFar

\* The map covers the values at the start of an execution.
LEMMA StartCovered ==
  ASSUME NEW map PROVE Covers(map, Start[2])
BY DEF Covers, Start

\* A step that takes a block from the worklist.
LEMMA ShiftFinds ==
  ASSUME IInv, FoundSoFar, shift_worklist
  PROVE  FoundSoFar'
<1>1. /\ fn \in Programs /\ worklist \subseteq ToSet(fn.order) /\ worklist # {} /\ bb = Null
      /\ fn' = fn /\ bb' = FirstIn(fn.order, worklist) /\ worklist' = worklist \ {bb'}
      /\ next' = 1 /\ propMap' = propMap /\ errors' = errors /\ warnings' = warnings
      /\ done' = done
  BY DEF IInv, TypeInv, shift_worklist, client
<1>2. ~done
  BY <1>1 DEF FoundSoFar
<1>3. SUFFICES ASSUME Findable
               PROVE  /\ Ordered'
                      /\ \A e \in Executions : Arrived(e)' => Covers(propMap', e[2])
                      /\ \A e \in Executions : Passed(e)' => Reported(e)'
  BY <1>1, <1>2, FoundAfter DEF FoundSoFar
<1>4. bb' \in worklist /\ \A c \in worklist : bb' \notin fn.succ[c]
  BY <1>1, <1>3, FirstOfWorklist DEF Findable
<1>5. Ordered
  BY <1>3 DEF FoundSoFar
<1>6. Ordered'
  BY <1>1, <1>4, <1>5 DEF Ordered
<1>7. ASSUME NEW e \in Executions, Arrived(e)' PROVE Covers(propMap', e[2])
  <2>1. e \in States /\ (e = Start \/ \E d \in Executions : e \in Following(d))
    BY <1>1, ExecutionsFollow
  <2>2. CASE e[1][1] # bb'
    <3>1. e[1][1] \notin worklist /\ e[1][1] # Null
      BY <1>1, <1>7, <2>1, <2>2, StateFacts DEF Arrived
    <3>2. Arrived(e)
      BY <1>1, <3>1 DEF Arrived
    <3> QED
      BY <1>1, <1>3, <1>7, <3>2 DEF FoundSoFar
  <2>3. CASE e[1][1] = bb' /\ e # Start
    <3>1. PICK d \in Executions : e \in Following(d)
      BY <2>1, <2>3
    <3>2. d \in States
      BY <1>1, ExecutionsFollow
    <3> DEFINE b == d[1][1]
               i == d[1][2]
    <3>3. e[1][2] <= 1
      BY <1>1, <1>7, <2>3 DEF Arrived
    <3>4. /\ b \in ToSet(fn.order) /\ i \in 1..Len(fn.code[b]) + 1 /\ Len(fn.code[b]) \in Nat
          /\ \/ i <= Len(fn.code[b]) /\ e[1] = <<b, i + 1>>
             \/ i = Len(fn.code[b]) + 1 /\ e[1][1] \in fn.succ[b] /\ e[2] = d[2]
      BY <1>1, <3>1, <3>2, FollowingWhere
    <3>5. e[1][1] \in fn.succ[b] /\ e[2] = d[2]
      BY <3>3, <3>4
    <3>6. b \notin worklist /\ b # Null
      BY <1>1, <1>4, <2>3, <3>2, <3>5, StateFacts
    <3>7. Arrived(d)
      BY <1>1, <3>6 DEF Arrived
    <3> QED
      BY <1>1, <1>3, <3>5, <3>7 DEF FoundSoFar
  <2>4. CASE e = Start
    BY <2>4, StartCovered
  <2> QED
    BY <2>2, <2>3, <2>4
<1>8. ASSUME NEW e \in Executions, Passed(e)' PROVE Reported(e)'
  <2>1. e \in States
    BY <1>1, ExecutionsFollow
  <2>2. e[1][2] \in Nat \ {0} /\ e[1][1] # Null
    BY <1>1, <2>1, StateFacts
  <2>3. e[1][1] # bb' /\ e[1][1] \notin worklist
    BY <1>1, <1>8, <2>2 DEF Passed
  <2>4. Passed(e)
    BY <1>1, <2>2, <2>3 DEF Passed
  <2>5. Reported(e)
    BY <1>3, <1>8, <2>4 DEF FoundSoFar
  <2> QED
    BY <1>1, <2>5, ReportedKept
<1> QED
  BY <1>6, <1>7, <1>8

\* Going past a call.
LEMMA NextCallFinds ==
  ASSUME IInv, Findable, FoundSoFar, AtCall, next' = next + 1,
         fn' = fn, bb' = bb, worklist' = worklist,
         propMap' \in Maps, Fallen(propMap, propMap'),
         \A values \in [MemBlock -> Names(prop)] :
           Covers(propMap, values) =>
             \A after \in Executed(values, Call) : Covers(propMap', after)
  PROVE  /\ Ordered'
         /\ \A e \in Executions : Arrived(e)' => Covers(propMap', e[2])
<1>1. fn \in Programs /\ bb # Null /\ next \in Nat \ {0} /\ propMap \in Maps
  BY DEF IInv, TypeInv, AtCall
<1>2. Ordered'
  BY DEF FoundSoFar, Ordered
<1>3. ASSUME NEW e \in Executions, Arrived(e)' PROVE Covers(propMap', e[2])
  <2>1. e \in States /\ (e = Start \/ \E d \in Executions : e \in Following(d))
    BY <1>1, ExecutionsFollow
  <2>2. CASE Arrived(e)
    <3>1. Covers(propMap, e[2])
      BY <1>3, <2>2 DEF FoundSoFar
    <3>2. e[2] \in [MemBlock -> Names(prop)]
      BY <1>1, <2>1, StateFacts
    <3> QED
      BY <1>1, <3>1, <3>2, CoversFalls
  <2>3. CASE ~Arrived(e) /\ e # Start
    <3>1. e[1][1] = bb /\ bb \notin worklist /\ e[1][2] = next + 1
      <4>1. e[1][2] \in Nat
        BY <1>1, <2>1, StateFacts
      <4> QED
        BY <1>1, <1>3, <2>3, <4>1 DEF Arrived
    <3>2. PICK d \in Executions : e \in Following(d)
      BY <2>1, <2>3
    <3>3. d \in States
      BY <1>1, ExecutionsFollow
    <3> DEFINE b == d[1][1]
               i == d[1][2]
    <3>4. /\ i \in Nat /\ d[1] = <<b, i>> /\ d[2] \in [MemBlock -> Names(prop)]
          /\ \/ e[1] = <<b, i + 1>> /\ e[2] \in Executed(d[2], fn.code[b][i])
             \/ e[1][2] = 1
      <4>1. i \in Nat /\ d[1] = <<b, i>> /\ d[2] \in [MemBlock -> Names(prop)]
        BY <1>1, <3>3, StateFacts
      <4> QED
        BY <1>1, <3>2, <3>3, <4>1, FollowingWhere
    <3>5. b = bb /\ i = next /\ e[2] \in Executed(d[2], Call)
      BY <1>1, <3>1, <3>4 DEF Call
    <3>6. Covers(propMap, d[2])
      <4>1. Arrived(d)
        BY <1>1, <3>1, <3>5 DEF Arrived
      <4> QED
        BY <4>1 DEF FoundSoFar
    <3> QED
      BY <3>4, <3>5, <3>6
  <2>4. CASE e = Start
    BY <2>4, StartCovered
  <2> QED
    BY <2>2, <2>3, <2>4
<1> QED
  BY <1>2, <1>3

\* A step past a call without annotation.
LEMMA LookupFinds ==
  ASSUME IInv, FoundSoFar, lookupProcedure
  PROVE  FoundSoFar'
<1>1. /\ AtCall /\ Call.proc \notin DOMAIN fn.procedures /\ next' = next + 1
      /\ fn' = fn /\ bb' = bb /\ worklist' = worklist /\ done' = done
      /\ propMap' = propMap /\ errors' = errors /\ warnings' = warnings
  BY DEF lookupProcedure, client
<1>2. fn \in Programs /\ bb # Null /\ next \in Nat \ {0} /\ propMap \in Maps
  BY <1>1 DEF IInv, TypeInv, AtCall
<1>3. SUFFICES ASSUME Findable
               PROVE  /\ Ordered'
                      /\ \A e \in Executions : Arrived(e)' => Covers(propMap', e[2])
                      /\ \A e \in Executions : Passed(e)' => Reported(e)'
  BY <1>1, <1>2, FoundAfter DEF FoundSoFar
<1>4. \A values \in [MemBlock -> Names(prop)] :
        Covers(propMap, values) => \A after \in Executed(values, Call) : Covers(propMap', after)
  BY <1>1 DEF Executed, Effects
<1>5. propMap' \in Maps /\ Fallen(propMap, propMap')
  BY <1>1, <1>2, MapFacts, BelowOrder DEF Fallen
<1>6. Ordered' /\ \A e \in Executions : Arrived(e)' => Covers(propMap', e[2])
  BY <1>1, <1>3, <1>4, <1>5, NextCallFinds
<1>7. ASSUME NEW e \in Executions, Passed(e)' PROVE Reported(e)'
  <2>1. e[1][2] \in Nat
    BY <1>2, ExecutionsFollow, StateFacts
  <2>2. Reported(e)
    <3>1. CASE Passed(e)
      BY <1>3, <1>7, <3>1 DEF FoundSoFar
    <3>2. CASE ~Passed(e)
      <4>1. e[1][1] = bb /\ e[1][2] = next
        BY <1>1, <1>2, <1>7, <2>1, <3>2 DEF Passed
      <4> QED
        BY <1>1, <4>1 DEF Reported, Call
    <3> QED
      BY <3>1, <3>2
  <2> QED
    BY <1>1, <2>2, ReportedKept
<1> QED
  BY <1>6, <1>7

\* A step that applies the rules of a call and evaluates its reports.
LEMMA AtLibCallFinds ==
  ASSUME IInv, FoundSoFar, at_lib_call
  PROVE  FoundSoFar'
<1>1. /\ AtCall /\ Call.proc \in DOMAIN fn.procedures /\ next' = next + 1
      /\ fn' = fn /\ bb' = bb /\ worklist' = worklist /\ done' = done
      /\ propMap' = RulesApplied(propMap, Call)
      /\ errors' = errors \o handleReports(propMap', Call, TRUE)
      /\ warnings' = warnings \o handleReports(propMap', Call, FALSE)
  BY DEF at_lib_call
<1>2. /\ fn \in Programs /\ bb # Null /\ next \in Nat \ {0} /\ propMap \in Maps
      /\ addresses \in SetToSeqs(MemBlock)
  BY <1>1 DEF IInv, TypeInv, AtCall
<1>3. Call \in Calls
  BY <1>1, CallOfProgram DEF IInv
<1>4. propMap' \in Maps /\ Fallen(propMap, propMap')
  BY AtLibCallKeeps
<1>5. /\ IsSequence(errors') /\ ToSet(errors) \subseteq ToSet(errors')
      /\ ToSet(handleReports(propMap', Call, TRUE)) \subseteq ToSet(errors')
      /\ IsSequence(warnings') /\ ToSet(warnings) \subseteq ToSet(warnings')
      /\ ToSet(handleReports(propMap', Call, FALSE)) \subseteq ToSet(warnings')
  <2>1. ASSUME NEW s, IsSequence(s), NEW t, IsSequence(t)
        PROVE  /\ IsSequence(s \o t)
               /\ ToSet(s) \subseteq ToSet(s \o t) /\ ToSet(t) \subseteq ToSet(s \o t)
    <3> DEFINE S == ToSet(s) \cup ToSet(t)
               u == s \o t
    <3>1. s \in Seq(ToSet(s)) /\ t \in Seq(ToSet(t))
      BY <2>1 DEF IsSequence
    <3>2. s \in Seq(S) /\ t \in Seq(S)
      BY <3>1
    <3> HIDE DEF S
    <3>3. u \in Seq(S) /\ ToSet(s) \subseteq ToSet(u) /\ ToSet(t) \subseteq ToSet(u)
      BY <3>2, ConcatHas
    <3>4. IsSequence(u)
      <4> HIDE DEF u
      <4> QED
        BY <3>3 DEF IsSequence, ToSet
    <3> QED
      BY <3>3, <3>4
  <2>2. \A error : IsSequence(handleReports(propMap', Call, error))
    BY <1>1, <1>2, ReportsAre
  <2> QED
    BY <1>1, <2>1, <2>2 DEF FoundSoFar
<1>6. (done => worklist = {} /\ bb = Null)'
  BY <1>1 DEF FoundSoFar
<1>7. SUFFICES ASSUME Findable
               PROVE  /\ Ordered'
                      /\ \A e \in Executions : Arrived(e)' => Covers(propMap', e[2])
                      /\ \A e \in Executions : Passed(e)' => Reported(e)'
  BY <1>1, <1>2, <1>5, <1>6, FoundAfter DEF IsSequence
<1>8. ASSUME NEW values \in [MemBlock -> Names(prop)], Covers(propMap, values)
      PROVE  /\ Covers(propMap', values)
             /\ \A after \in Executed(values, Call) : Covers(propMap', after)
  BY <1>1, <1>2, <1>3, <1>4, <1>7, <1>8, CoversFalls, ExecutedCovered DEF Findable
<1>9. Ordered' /\ \A e \in Executions : Arrived(e)' => Covers(propMap', e[2])
  BY <1>1, <1>4, <1>7, <1>8, NextCallFinds
<1>10. ASSUME NEW e \in Executions, Passed(e)' PROVE Reported(e)'
  <2>1. /\ e[1][2] \in Nat /\ e[1] = <<e[1][1], e[1][2]>>
        /\ e[2] \in [MemBlock -> Names(prop)]
    BY <1>2, ExecutionsFollow, StateFacts
  <2>2. CASE Passed(e)
    <3>1. Reported(e)
      BY <1>7, <1>10, <2>2 DEF FoundSoFar
    <3> QED
      BY <1>1, <1>5, <3>1, ReportedKept
  <2>3. CASE ~Passed(e)
    <3>1. e[1][1] = bb /\ e[1][2] = next /\ bb \notin worklist
      BY <1>1, <1>2, <1>10, <2>1, <2>3 DEF Passed
    <3>2. Covers(propMap', e[2])
      <4>1. Arrived(e)
        BY <1>2, <3>1 DEF Arrived
      <4>2. Covers(propMap, e[2])
        BY <1>7, <1>10, <4>1 DEF FoundSoFar
      <4> QED
        BY <1>8, <2>1, <4>2
    <3>3. ASSUME NEW r \in ToSet(fn.procedures[Call.proc].reports),
                 r.condition # NoCondition, r.condition[2] = "could-be",
                 NEW m \in Denoted(Call, r.condition[1]),
                 e[2][m] = r.condition[3], e[2][m] # prop.default
          PROVE  r.text \in ToSet(IF r.error THEN errors' ELSE warnings')
      <4>1. Holds(propMap', Call, r.condition)
        BY <1>1, <1>2, <1>3, <1>4, <1>7, <2>1, <3>2, <3>3, CouldBeFound DEF Findable
      <4>2. r.text \in ToSet(handleReports(propMap', Call, r.error))
        BY <1>1, <1>2, <4>1, ReportsAre
      <4>3. r.error \in BOOLEAN
        BY <1>1, <1>2, ProgramsAssumption
      <4> QED
        BY <1>5, <4>2, <4>3
    <3>4. fn'.code[e[1][1]][e[1][2]] = Call
      BY <1>1, <3>1 DEF Call
    <3>5. prop' = prop /\ \A c, name : Denoted(c, name)' = Denoted(c, name)
      BY <1>1 DEF prop, Denoted
    <3> QED
      BY <1>1, <3>3, <3>4, <3>5 DEF Reported
  <2> QED
    BY <2>2, <2>3
<1> QED
  BY <1>9, <1>10

\* The end of a block.  All blocks after it are still in the worklist, so that
\* the solver does not go back.
LEMMA EndBlockFinds ==
  ASSUME IInv, FoundSoFar, endBlock
  PROVE  FoundSoFar'
<1>1. /\ bb # Null /\ next > Len(fn.code[bb]) /\ bb' = Null
      /\ fn' = fn /\ done' = done /\ propMap' = propMap
      /\ errors' = errors /\ warnings' = warnings
      /\ \/ worklist' = worklist
         \/ /\ ~(Reachable(fn, bb) \subseteq worklist)
            /\ worklist' = worklist \cup Reachable(fn, bb)
  BY DEF endBlock, client
<1>2. fn \in Programs /\ bb \in ToSet(fn.order) /\ next \in Nat \ {0}
  BY <1>1 DEF IInv, TypeInv
<1>3. ~done
  BY <1>1 DEF FoundSoFar
<1>4. SUFFICES ASSUME Findable
               PROVE  /\ Ordered'
                      /\ \A e \in Executions : Arrived(e)' => Covers(propMap', e[2])
                      /\ \A e \in Executions : Passed(e)' => Reported(e)'
  BY <1>1, <1>2, <1>3, FoundAfter DEF FoundSoFar
<1>5. Ordered
  BY <1>4 DEF FoundSoFar
<1>6. worklist' = worklist
  <2>1. Reachable(fn, bb) \subseteq worklist
    BY <1>1, <1>2, <1>5, ReachableWithin DEF Ordered
  <2> QED
    BY <1>1, <2>1
<1>7. Ordered'
  BY <1>1, <1>5, <1>6 DEF Ordered
<1>8. ASSUME NEW e \in Executions, e[1][1] \notin worklist
      PROVE  Arrived(e) /\ (e[1][2] <= Len(fn.code[e[1][1]]) => Passed(e))
  <2>1. /\ e[1][2] \in 1..Len(fn.code[e[1][1]]) + 1 /\ Len(fn.code[e[1][1]]) \in Nat
    BY <1>2, ExecutionsFollow, StateFacts
  <2> QED
    BY <1>1, <1>2, <1>8, <2>1 DEF Arrived, Passed
<1>9. ASSUME NEW e \in Executions, Arrived(e)' PROVE Covers(propMap', e[2])
  <2>1. Arrived(e)
    BY <1>6, <1>8, <1>9 DEF Arrived
  <2> QED
    BY <1>1, <1>4, <1>9, <2>1 DEF FoundSoFar
<1>10. ASSUME NEW e \in Executions, Passed(e)' PROVE Reported(e)'
  <2>1. Reported(e)
    <3>1. CASE e[1][2] <= Len(fn.code[e[1][1]])
      <4>1. Passed(e)
        BY <1>6, <1>8, <1>10, <3>1 DEF Passed
      <4> QED
        BY <1>4, <1>10, <4>1 DEF FoundSoFar
    <3>2. CASE ~(e[1][2] <= Len(fn.code[e[1][1]]))
      BY <3>2 DEF Reported
    <3> QED
      BY <3>1, <3>2
  <2> QED
    BY <1>1, <2>1, ReportedKept
<1> QED
  BY <1>7, <1>9, <1>10

\* The last step, and a step that changes nothing.
LEMMA OthersFind ==
  ASSUME IInv, FoundSoFar, analysis_done \/ UNCHANGED vars
  PROVE  FoundSoFar'
<1>1. /\ fn' = fn /\ bb' = bb /\ worklist' = worklist /\ next' = next /\ propMap' = propMap
      /\ errors' = errors /\ warnings' = warnings
      /\ done' => done \/ (bb = Null /\ worklist = {})
  BY DEF analysis_done, vars, solver, client
<1>2. fn \in Programs
  BY DEF IInv, TypeInv
<1>3. Ordered' <=> Ordered
  BY <1>1 DEF Ordered
<1>4. ASSUME NEW e
      PROVE  /\ Arrived(e)' <=> Arrived(e)
             /\ Passed(e)' <=> Passed(e)
             /\ Reported(e) => Reported(e)'
  <2>1. Reported(e) => Reported(e)'
    BY <1>1, ReportedKept
  <2>2. (Arrived(e)' <=> Arrived(e)) /\ (Passed(e)' <=> Passed(e))
    BY <1>1 DEF Arrived, Passed
  <2> QED
    BY <2>1, <2>2
<1>5. Findable => /\ Ordered'
                  /\ \A e \in Executions : Arrived(e)' => Covers(propMap', e[2])
                  /\ \A e \in Executions : Passed(e)' => Reported(e)'
  BY <1>1, <1>3, <1>4 DEF FoundSoFar
<1> QED
  BY <1>1, <1>2, <1>5, FoundAfter DEF FoundSoFar

\* At the start everything is to be visited.
LEMMA InitFinds == Init => FoundSoFar
<1> SUFFICES ASSUME Init PROVE FoundSoFar
  OBVIOUS
<1>1. /\ fn \in Programs /\ worklist = ToSet(fn.order) /\ bb = Null /\ ~done
      /\ errors = <<>> /\ warnings = <<>>
  BY DEF Init
<1>2. IsSequence(errors) /\ IsSequence(warnings)
  BY <1>1 DEF IsSequence
<1>3. Ordered
  BY <1>1, ProgramsAssumption DEF Ordered
<1>4. ASSUME NEW e \in Executions PROVE e[1][1] \in worklist
  BY <1>1, ExecutionsFollow, StateFacts
<1> QED
  BY <1>1, <1>2, <1>3, <1>4 DEF FoundSoFar, Arrived, Passed

-----------------------------------------------------------------------------
(* The theorems about every execution of the analysis.                     *)

\* The solver stands at a block and call of the program, the map gives values
\* to memory blocks, and no value has fallen below those that no call can lower.
THEOREM AlwaysInvariant == Spec => []IInv
<1>1. Init => IInv
  BY InitIInv
<1>2. IInv /\ [Next]_vars => IInv'
  BY NextKeeps
<1> QED
  BY <1>1, <1>2, PTL DEF Spec

\* The meet computed for a declared property, with heights and more_general
\* pointers, is the greatest value below both, for every tree a property can
\* declare (bdwy/enum_property.cc:139-232).
THEOREM AlwaysMeetIsGreatest == Spec => []MeetIsGreatest
<1>1. IInv => MeetIsGreatest
  <2>1. ASSUME IInv PROVE IsTree(prop)
    BY <2>1, ProgramsAssumption DEF IInv, TypeInv, prop
  <2> QED
    BY <2>1, MeetGreatestBelow DEF MeetIsGreatest
<1> QED
  BY <1>1, AlwaysInvariant, PTL

\* Whatever the program, the annotations and the order in which the solver
\* visits blocks and visits them again, no value falls further than the calls
\* give reason to (AnnotationAnalysis.cpp:73-133).
THEOREM AlwaysNothingInvented == Spec => []NothingInvented
<1>1. IInv => NothingInvented
  BY DEF IInv, KeptAbove, NothingInvented, LowerThan
<1> QED
  BY <1>1, AlwaysInvariant, PTL

\* In every step a block that has a value keeps it or gets a lower one, however
\* many rules apply at a call and copy values among the blocks they change
\* (AnnotationAnalysis.cpp:80-131).
THEOREM AlwaysValuesOnlyFall == Spec => ValuesOnlyFall
<1> DEFINE Falls ==
      \A m \in DOMAIN propMap : m \in DOMAIN propMap' /\ Below(prop, propMap'[m], propMap[m])
<1>1. IInv /\ [Next]_vars => Falls
  BY NextFalls
<1>2. ValuesOnlyFall <=> [][Falls]_vars
  BY DEF ValuesOnlyFall
<1> HIDE DEF Falls
<1> QED
  BY <1>1, <1>2, AlwaysInvariant, PTL DEF Spec

\* In a program without loops the analysis finds every value that annotations
\* without conditions assign in some execution, and every report of it, whatever
\* the blocks, the calls and their annotations: the solver takes each block once,
\* after all those before it (AnnotationAnalysis.cpp:59-133,
\* Main_DFA_Algo.cpp:275-291).
THEOREM AlwaysFoundWithoutLoops == Spec => []FoundWithoutLoops
<1>1. Init => IInv /\ FoundSoFar
  BY InitIInv, InitFinds
<1>2. IInv /\ FoundSoFar /\ [Next]_vars => (IInv /\ FoundSoFar)'
  BY NextKeeps, ShiftFinds, LookupFinds, AtLibCallFinds, EndBlockFinds, OthersFind DEF Next
<1>3. IInv /\ FoundSoFar => FoundWithoutLoops
  <2> SUFFICES ASSUME IInv, FoundSoFar, done,
                      Acyclic, Unconditional, NamesDeclared, ReportsDeclared
               PROVE  ValuesFound /\ ReportsFound
    BY DEF FoundWithoutLoops
  <2>1. fn \in Programs /\ worklist = {} /\ bb = Null /\ Findable
    BY DEF IInv, TypeInv, FoundSoFar, Findable
  <2>2. ASSUME NEW e \in Executions PROVE Covers(propMap, e[2]) /\ Reported(e)
    <3>1. e[1][1] # Null
      BY <2>1, ExecutionsFollow, StateFacts
    <3>2. Arrived(e) /\ Passed(e)
      BY <2>1, <3>1 DEF Arrived, Passed
    <3> QED
      BY <2>1, <3>2 DEF FoundSoFar
  <2> QED
    BY <2>2 DEF ValuesFound, ReportsFound, Covers, ValueIn
<1> QED
  BY <1>1, <1>2, <1>3, PTL DEF Spec
=============================================================================
