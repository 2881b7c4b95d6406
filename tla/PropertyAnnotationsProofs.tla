--------------------- MODULE PropertyAnnotationsProofs ---------------------
(***************************************************************************)
(* Theorems about the trees of property values that annotations declare,   *)
(* for texts of any size and depth, names used twice included.             *)
(***************************************************************************)
EXTENDS PropertyAnnotations, SequenceTheorems, WellFoundedInduction, TLAPS

-----------------------------------------------------------------------------
(* Flattening.  FlattenSeq is defined by recursion on the number of lists:  *)
(* first that its equation has a solution, then what the solution holds.   *)

\* g is the list of what the first 1, 2, ..., n lists make when flattened.
IsFlattening(g, seqs, n) ==
  g = [i \in 1..n |-> IF i = 1 THEN seqs[i] ELSE g[i - 1] \o seqs[i]]

\* There is a flattening of any number of lists, made of sequences over S.
LEMMA FlatteningExists ==
  ASSUME NEW S, NEW seqs \in Seq(Seq(S)), NEW n \in 1..Len(seqs)
  PROVE  \E g \in [1..n -> Seq(S)] : IsFlattening(g, seqs, n)
<1> DEFINE Good == {k \in 1..Len(seqs) :
                      \E g \in [1..k -> Seq(S)] : IsFlattening(g, seqs, k)}
           T == (1..Len(seqs)) \ Good
<1>0. Len(seqs) \in Nat
  OBVIOUS
<1> SUFFICES ASSUME T # {} PROVE FALSE
  BY <1>0
<1>1. PICK k \in T : \A j \in T : ~(<<j, k>> \in OpToRel(<, Nat))
  <2>1. T \subseteq Nat
    OBVIOUS
  <2> HIDE DEF T
  <2> QED
    BY <2>1, NatLessThanWellFounded, WFMin
<1>2. CASE k = 1
  <2> DEFINE g == [i \in 1..1 |-> seqs[i]]
  <2>1. g \in [1..1 -> Seq(S)]
    BY <1>2
  <2>2. IsFlattening(g, seqs, 1)
    BY DEF IsFlattening
  <2> QED
    BY <1>1, <1>2, <2>1, <2>2
<1>3. CASE k # 1
  <2>0. k \in 1..Len(seqs) /\ k \notin Good
    OBVIOUS
  <2>1. k - 1 \in 1..Len(seqs) /\ k - 1 \in Nat /\ k \in Nat /\ k - 1 < k
    <3> HIDE DEF T, Good
    <3> QED
      BY <1>0, <1>3, <2>0
  <2>2. k - 1 \in Good
    BY <1>1, <2>1 DEF OpToRel
  <2>3. PICK g \in [1..(k - 1) -> Seq(S)] : IsFlattening(g, seqs, k - 1)
    BY <2>2
  <2> DEFINE h == [i \in 1..k |-> IF i = k THEN g[k - 1] \o seqs[k] ELSE g[i]]
  <2>4. seqs[k] \in Seq(S) /\ g[k - 1] \in Seq(S)
    BY <2>1
  <2>5. g[k - 1] \o seqs[k] \in Seq(S)
    BY <2>4
  <2>6. h \in [1..k -> Seq(S)]
    BY <2>1, <2>5
  <2>7. ASSUME NEW i \in 1..k
        PROVE  h[i] = IF i = 1 THEN seqs[i] ELSE h[i - 1] \o seqs[i]
    <3>1. CASE i = k
      <4>1. k - 1 \in 1..k /\ k - 1 # k /\ k # 1 /\ k \in 1..k
        BY <1>3, <2>1
      <4>2. h[k] = g[k - 1] \o seqs[k] /\ h[k - 1] = g[k - 1]
        BY <4>1
      <4> QED
        BY <3>1, <4>1, <4>2
    <3>2. CASE i # k
      <4>1. i \in 1..(k - 1) /\ (i # 1 => i - 1 \in 1..k /\ i - 1 # k)
        BY <2>1, <3>2
      <4>2. g[i] = IF i = 1 THEN seqs[i] ELSE g[i - 1] \o seqs[i]
        BY <2>3, <4>1 DEF IsFlattening
      <4>3. h[i] = g[i] /\ (i # 1 => h[i - 1] = g[i - 1])
        BY <3>2, <4>1
      <4> QED
        BY <4>2, <4>3
    <3> QED
      BY <3>1, <3>2
  <2>8. IsFlattening(h, seqs, k)
    BY <2>7 DEF IsFlattening
  <2> QED
    BY <1>1, <2>6, <2>8
<1> QED
  BY <1>2, <1>3

\* A flattening holds what the lists hold, and is the only one.
LEMMA FlatteningHolds ==
  ASSUME NEW S, NEW seqs \in Seq(Seq(S)), NEW n \in 1..Len(seqs),
         NEW g, IsFlattening(g, seqs, n)
  PROVE  /\ g[n] \in Seq(S)
         /\ Range(g[n]) = UNION {Range(seqs[i]) : i \in 1..n}
<1> DEFINE Holds(k) == /\ g[k] \in Seq(S)
                       /\ Range(g[k]) = UNION {Range(seqs[i]) : i \in 1..k}
           T == {k \in 1..n : ~Holds(k)}
<1>0. n \in Nat /\ n \in 1..n
  OBVIOUS
<1> SUFFICES ASSUME T # {} PROVE FALSE
  BY <1>0
<1>1. PICK k \in T : \A j \in T : ~(<<j, k>> \in OpToRel(<, Nat))
  <2>1. T \subseteq Nat
    OBVIOUS
  <2> HIDE DEF T
  <2> QED
    BY <2>1, NatLessThanWellFounded, WFMin
<1>2. g[k] = IF k = 1 THEN seqs[k] ELSE g[k - 1] \o seqs[k]
  BY DEF IsFlattening
<1>3. seqs[k] \in Seq(S)
  OBVIOUS
<1>4. CASE k = 1
  <2>1. Range(g[k]) = UNION {Range(seqs[i]) : i \in 1..k}
    BY <1>2, <1>4
  <2>2. g[k] \in Seq(S)
    BY <1>2, <1>3, <1>4
  <2> QED
    BY <2>1, <2>2
<1>5. CASE k # 1
  <2>1. k - 1 \in 1..n /\ k - 1 \in Nat /\ k \in Nat /\ k - 1 < k
    BY <1>5
  <2>2. Holds(k - 1)
    BY <1>1, <2>1 DEF OpToRel
  <2>3. g[k] = g[k - 1] \o seqs[k]
    BY <1>2, <1>5
  <2>4. Range(g[k]) = Range(g[k - 1]) \cup Range(seqs[k])
    <3> HIDE DEF T
    <3> QED
      BY <1>3, <2>2, <2>3, RangeConcatenation
  <2>5. UNION {Range(seqs[i]) : i \in 1..k}
          = (UNION {Range(seqs[i]) : i \in 1..(k - 1)}) \cup Range(seqs[k])
    <3>1. \A i \in 1..k : i = k \/ i \in 1..(k - 1)
      OBVIOUS
    <3>2. \A i \in 1..(k - 1) : i \in 1..k
      OBVIOUS
    <3>3. k \in 1..k
      BY <2>1
    <3> QED
      BY <3>1, <3>2, <3>3
  <2>6. g[k] \in Seq(S)
    BY <1>3, <2>2, <2>3
  <2> QED
    BY <2>2, <2>4, <2>5, <2>6
<1> QED
  BY <1>4, <1>5

\* FlattenSeq loses no element of the lists, adds none and keeps one list.
LEMMA FlattenHolds ==
  ASSUME NEW S, NEW seqs \in Seq(Seq(S))
  PROVE  /\ FlattenSeq(seqs) \in Seq(S)
         /\ Range(FlattenSeq(seqs)) = UNION {Range(seqs[i]) : i \in DOMAIN seqs}
         /\ Len(seqs) = 1 => FlattenSeq(seqs) = seqs[1]
<1>1. CASE Len(seqs) = 0
  <2>1. FlattenSeq(seqs) = <<>> /\ seqs = <<>>
    BY <1>1, EmptySeq DEF FlattenSeq
  <2> QED
    BY <2>1 DEF Range
<1>2. CASE Len(seqs) # 0
  <2> DEFINE n == Len(seqs)
             g == CHOOSE f : IsFlattening(f, seqs, n)
  <2>1. n \in 1..n
    BY <1>2
  <2>2. IsFlattening(g, seqs, n)
    BY <2>1, FlatteningExists
  <2>3. FlattenSeq(seqs) = g[n]
    BY <1>2 DEF FlattenSeq, IsFlattening
  <2>4. n = 1 => g[n] = seqs[1]
    <3> HIDE DEF g
    <3> QED
      BY <2>2 DEF IsFlattening
  <2>5. DOMAIN seqs = 1..n
    OBVIOUS
  <2>6. g[n] \in Seq(S) /\ Range(g[n]) = UNION {Range(seqs[i]) : i \in 1..n}
    <3> HIDE DEF g, n
    <3> QED
      BY <2>1, <2>2, FlatteningHolds DEF n
  <2> HIDE DEF g
  <2> QED
    BY <2>3, <2>4, <2>5, <2>6
<1> QED
  BY <1>1, <1>2

-----------------------------------------------------------------------------
(* The inductive invariant.                                                *)

\* The values in the results of the parser.
AllValues == UNION {Range(results[i]) : i \in DOMAIN results}

\* Each result is a list of values in which the parent is missing for the last
\* one alone, and every parent is the name of a value in the same list.
ResultsOK ==
  /\ results \in Seq(Seq(LatticeValue))
  /\ \A i \in DOMAIN results :
       /\ results[i] # <<>>
       /\ Last(results[i]).parent = None
       /\ \A v \in Range(results[i]) :
            IF v.parent = None THEN v = Last(results[i])
            ELSE \E w \in Range(results[i]) : w.name = v.parent

\* The tree as it is written is the one the lists describe.
DeclaredOK ==
  IF pc = "parsing"
    THEN declared = {<<v.name, v.parent>> : v \in {w \in AllValues : w.parent # None}}
    ELSE declared = {<<v.name, ParentRead(v)>> : v \in AllValues}

\* What the pass has read or still has to read are the values of the lists.
ReadOK ==
  /\ DOMAIN parents = properties
  /\ \A q \in properties : \E v \in AllValues :
       v.name = q /\ parents[q] = ParentRead(v)
  /\ pc = "parsing" => properties = {}
  /\ pc = "reading" => lattice \in Seq(AllValues \cup {Nested})
  /\ pc = "reading" /\ OneRoot =>
       \A v \in AllValues : v \in Range(lattice) \/ v.name \in properties
  /\ pc \notin {"parsing", "reading"} /\ OneRoot =>
       \A v \in AllValues : v.name \in properties

ValueNames == {v.name : v \in AllValues}

\* The first climb is at a name that was read, if the default is a value.
ClimbOK ==
  /\ pc = "climbing" /\ OneRoot /\ initial \in ValueNames => climbing \in properties
  /\ pc = "thrown" /\ OneRoot => initial \notin ValueNames

IInv == ResultsOK /\ DeclaredOK /\ ReadOK /\ ClimbOK

\* The results with a value added: the last k lists have become one.
Joined(name, k) ==
  Append(WithParent(FlattenSeq(SubSeq(results, Len(results) - k + 1,
                                      Len(results) - k + k)), name),
         [name |-> name, parent |-> None])

\* A value as WithParent leaves it.
Completed(v, name) == IF v.parent = None THEN [v EXCEPT !.parent = name] ELSE v

\* A completed value is one that the enclosing value is the parent of, or one
\* that had a parent.
LEMMA CompletedValue ==
  ASSUME NEW v \in LatticeValue, NEW name \in Name
  PROVE  /\ Completed(v, name) \in LatticeValue
         /\ Completed(v, name).name = v.name
         /\ Completed(v, name).parent = IF v.parent = None THEN name ELSE v.parent
         /\ Completed(v, name).parent # None
  BY NamesAssumption DEF Completed, LatticeValue

\* What the new list holds: the completed values of the last k lists and the
\* enclosing value, which is the last one.
LEMMA JoinedHolds ==
  ASSUME ResultsOK, NEW name \in Name, NEW k \in 0..Len(results)
  PROVE  LET n    == Len(results) - k
             root == [name |-> name, parent |-> None]
         IN  /\ Joined(name, k) \in Seq(LatticeValue)
             /\ Joined(name, k) # <<>>
             /\ Last(Joined(name, k)) = root
             /\ Range(Joined(name, k)) =
                  {Completed(v, name) :
                     v \in UNION {Range(results[i]) : i \in (n + 1)..Len(results)}}
                    \cup {root}
<1> DEFINE n == Len(results) - k
           root == [name |-> name, parent |-> None]
           lists == SubSeq(results, n + 1, n + k)
           children == FlattenSeq(lists)
           completed == WithParent(children, name)
<1>0. /\ results \in Seq(Seq(LatticeValue)) /\ Len(results) \in Nat
      /\ n \in Nat /\ k \in Nat /\ n + k = Len(results)
  BY DEF ResultsOK
<1>1. /\ lists \in Seq(Seq(LatticeValue))
      /\ Len(lists) = k
      /\ \A i \in 1..k : lists[i] = results[n + i]
  <2> DEFINE a == n + 1
             b == n + k
  <2>1. a \in Int /\ b \in Int /\ b - a + 1 = k
    BY <1>0
  <2>2. \A i \in a..b : results[i] \in Seq(LatticeValue)
    BY <1>0
  <2>3. k > 0 => a <= b
    BY <1>0
  <2>4. k = 0 => ~(a <= b)
    BY <1>0
  <2>5. \A i \in 1..k : a + i - 1 = n + i
    BY <1>0
  <2>6. lists = SubSeq(results, a, b)
    OBVIOUS
  <2> HIDE DEF a, b, lists, n
  <2>7. /\ lists \in Seq(Seq(LatticeValue))
        /\ Len(lists) = IF a <= b THEN b - a + 1 ELSE 0
        /\ \A i \in 1..(b - a + 1) : lists[i] = results[a + i - 1]
    BY <2>1, <2>2, <2>6, SubSeqProperties
  <2>8. Len(lists) = k
    BY <1>0, <2>1, <2>3, <2>4, <2>7
  <2> QED
    BY <2>1, <2>5, <2>7, <2>8
<1>2. /\ children \in Seq(LatticeValue)
      /\ Range(children) = UNION {Range(lists[i]) : i \in DOMAIN lists}
  <2> HIDE DEF lists
  <2> QED
    BY <1>1, FlattenHolds
<1>3. UNION {Range(lists[i]) : i \in DOMAIN lists}
        = UNION {Range(results[i]) : i \in (n + 1)..Len(results)}
  <2>1. DOMAIN lists = 1..k
    BY <1>1
  <2>2. \A i \in (n + 1)..Len(results) : i - n \in 1..k /\ n + (i - n) = i
    BY <1>0
  <2>3. \A i \in 1..k : n + i \in (n + 1)..Len(results)
    BY <1>0
  <2> HIDE DEF lists, n
  <2>4. {Range(lists[i]) : i \in 1..k} = {Range(results[i]) : i \in (n + 1)..Len(results)}
    BY <1>1, <2>2, <2>3
  <2> QED
    BY <2>1, <2>4
<1>4. /\ completed \in Seq(LatticeValue)
      /\ Range(completed) = {Completed(v, name) : v \in Range(children)}
  <2> HIDE DEF children
  <2>1. completed = [i \in 1..Len(children) |-> Completed(children[i], name)]
    BY <1>2 DEF WithParent, Completed
  <2>2. \A i \in 1..Len(children) : Completed(children[i], name) \in LatticeValue
    BY <1>2, CompletedValue
  <2>3. DOMAIN children = 1..Len(children) /\ Len(children) \in Nat
    BY <1>2
  <2> QED
    BY <2>1, <2>2, <2>3 DEF Range
<1>5. root \in LatticeValue
  BY DEF LatticeValue
<1>6. Joined(name, k) = Append(completed, root)
  BY DEF Joined
<1>7. /\ Joined(name, k) \in Seq(LatticeValue)
      /\ Joined(name, k) # <<>>
      /\ Last(Joined(name, k)) = root
      /\ Range(Joined(name, k)) = Range(completed) \cup {root}
  <2> HIDE DEF completed, root
  <2>1. /\ Append(completed, root) \in Seq(LatticeValue)
        /\ Append(completed, root) # <<>>
        /\ Len(Append(completed, root)) = Len(completed) + 1
        /\ \A i \in 1..Len(completed) : Append(completed, root)[i] = completed[i]
        /\ Append(completed, root)[Len(completed) + 1] = root
    BY <1>4, <1>5, AppendProperties
  <2>2. Range(completed) = {completed[i] : i \in 1..Len(completed)}
    BY <1>4, RangeEquality
  <2>3. Range(Append(completed, root))
          = {Append(completed, root)[i] : i \in 1..(Len(completed) + 1)}
    BY <2>1, RangeEquality
  <2>4. Len(completed) \in Nat
    BY <1>4
  <2>5. Range(Append(completed, root)) = Range(completed) \cup {root}
    <3>1. \A i \in 1..(Len(completed) + 1) :
            i \in 1..Len(completed) \/ i = Len(completed) + 1
      BY <2>4
    <3>2. \A i \in 1..Len(completed) : i \in 1..(Len(completed) + 1)
      BY <2>4
    <3>3. Len(completed) + 1 \in 1..(Len(completed) + 1)
      BY <2>4
    <3> QED
      BY <2>1, <2>2, <2>3, <3>1, <3>2, <3>3
  <2> QED
    BY <1>6, <2>1, <2>5 DEF Last
<1> HIDE DEF completed, children, lists, root, n
<1>8. Range(Joined(name, k)) =
        {Completed(v, name) :
           v \in UNION {Range(results[i]) : i \in (n + 1)..Len(results)}} \cup {root}
  BY <1>2, <1>3, <1>4, <1>7
<1> QED
  BY <1>7, <1>8 DEF n, root

\* The end of a value replaces the last k lists by the new one.
LEMMA PropertyValueEffect ==
  ASSUME ResultsOK, NEW name \in Name, NEW k \in 0..Len(results),
         property_value(name, k)
  PROVE  LET n == Len(results) - k
         IN  /\ results' \in Seq(Seq(LatticeValue))
             /\ DOMAIN results' = 1..(n + 1)
             /\ \A i \in 1..n : results'[i] = results[i]
             /\ results'[n + 1] = Joined(name, k)
<1> DEFINE n == Len(results) - k
           kept == SubSeq(results, 1, n)
<1>0. /\ results \in Seq(Seq(LatticeValue)) /\ Len(results) \in Nat
      /\ n \in Nat /\ n <= Len(results)
  BY DEF ResultsOK
<1>1. results' = Append(kept, Joined(name, k))
  BY DEF property_value, Joined
<1>2. kept \in Seq(Seq(LatticeValue)) /\ Len(kept) = n
      /\ \A i \in 1..n : kept[i] = results[i]
  <2>1. \A i \in 1..n : results[i] \in Seq(LatticeValue)
    BY <1>0
  <2> HIDE DEF n
  <2>2. /\ kept \in Seq(Seq(LatticeValue))
        /\ Len(kept) = IF 1 <= n THEN n - 1 + 1 ELSE 0
        /\ \A i \in 1..(n - 1 + 1) : kept[i] = results[1 + i - 1]
    BY <1>0, <2>1, SubSeqProperties
  <2>3. Len(kept) = n /\ n - 1 + 1 = n
    BY <1>0, <2>2
  <2>4. \A i \in 1..n : 1 + i - 1 = i
    BY <1>0
  <2> QED
    BY <2>2, <2>3, <2>4
<1>3. Joined(name, k) \in Seq(LatticeValue)
  BY JoinedHolds
<1> HIDE DEF n, kept
<1>4. /\ results' \in Seq(Seq(LatticeValue))
      /\ Len(results') = n + 1
      /\ \A i \in 1..n : results'[i] = kept[i]
      /\ results'[n + 1] = Joined(name, k)
  BY <1>1, <1>2, <1>3, AppendProperties
<1>5. DOMAIN results' = 1..(n + 1)
  BY <1>4
<1> QED
  BY <1>2, <1>4, <1>5 DEF n

\* The parser keeps the shape of its results.
LEMMA ParserKeepsResults ==
  ASSUME ResultsOK, NEW name \in Name, NEW k \in 0..Len(results),
         property_value(name, k)
  PROVE  ResultsOK'
<1> DEFINE n == Len(results) - k
           r == Joined(name, k)
           root == [name |-> name, parent |-> None]
<1>0. results \in Seq(Seq(LatticeValue)) /\ n \in Nat /\ n <= Len(results)
  BY DEF ResultsOK
<1>1. /\ results' \in Seq(Seq(LatticeValue))
      /\ DOMAIN results' = 1..(n + 1)
      /\ \A i \in 1..n : results'[i] = results[i]
      /\ results'[n + 1] = r
  BY PropertyValueEffect
<1>2. /\ r # <<>>
      /\ Last(r) = root
      /\ Range(r) =
           {Completed(v, name) :
              v \in UNION {Range(results[i]) : i \in (n + 1)..Len(results)}}
             \cup {root}
  BY JoinedHolds
<1> HIDE DEF r
<1>3. ASSUME NEW u \in Range(r)
      PROVE  IF u.parent = None THEN u = Last(r)
             ELSE \E w \in Range(r) : w.name = u.parent
  <2>1. CASE u = root
    BY <1>2, <2>1
  <2>2. CASE u # root
    <3>1. PICK i \in (n + 1)..Len(results) : \E v \in Range(results[i]) :
            u = Completed(v, name)
      BY <1>2, <2>2
    <3>0. PICK v \in Range(results[i]) : u = Completed(v, name)
      BY <3>1
    <3>2. i \in DOMAIN results /\ i \in (n + 1)..Len(results)
      BY <1>0
    <3>3. results[i] \in Seq(LatticeValue)
      BY <1>0, <3>2
    <3>4. v \in LatticeValue
      BY <3>3 DEF Range
    <3>5. CASE v.parent = None
      <4>1. u.parent = name /\ u.parent # None
        BY <3>0, <3>4, <3>5, CompletedValue
      <4>2. root \in Range(r) /\ root.name = name
        BY <1>2
      <4> QED
        BY <4>1, <4>2
    <3>6. CASE v.parent # None
      <4>1. u.parent = v.parent /\ u.parent # None
        BY <3>0, <3>4, <3>6, CompletedValue
      <4>2. PICK w \in Range(results[i]) : w.name = v.parent
        BY <3>2, <3>6 DEF ResultsOK
      <4>3. w \in LatticeValue
        BY <3>3 DEF Range
      <4>4. Completed(w, name) \in Range(r) /\ Completed(w, name).name = w.name
        <5>1. w \in UNION {Range(results[l]) : l \in (n + 1)..Len(results)}
          BY <3>2
        <5> HIDE DEF root, n
        <5> QED
          BY <1>2, <4>3, <5>1, CompletedValue
      <4> QED
        BY <4>1, <4>2, <4>4
    <3> QED
      BY <3>5, <3>6
  <2> QED
    BY <2>1, <2>2
<1>4. ASSUME NEW i \in DOMAIN results'
      PROVE  /\ results'[i] # <<>>
             /\ Last(results'[i]).parent = None
             /\ \A v \in Range(results'[i]) :
                  IF v.parent = None THEN v = Last(results'[i])
                  ELSE \E w \in Range(results'[i]) : w.name = v.parent
  <2>1. CASE i = n + 1
    <3>1. results'[i] = r
      BY <1>1, <2>1
    <3>2. Last(r).parent = None
      BY <1>2
    <3> QED
      BY <1>2, <1>3, <3>1, <3>2
  <2>2. CASE i # n + 1
    <3>1. i \in 1..n /\ i \in DOMAIN results
      BY <1>0, <1>1, <2>2, SMTT(30)
    <3>2. results'[i] = results[i]
      BY <1>1, <3>1
    <3> QED
      BY <3>1, <3>2 DEF ResultsOK
  <2> QED
    BY <2>1, <2>2
<1> QED
  BY <1>1, <1>4 DEF ResultsOK

\* The pairs that a value's end adds to the tree are those the new list adds.
LEMMA ParserKeepsDeclared ==
  ASSUME ResultsOK, DeclaredOK, NEW name \in Name, NEW k \in 0..Len(results),
         property_value(name, k)
  PROVE  DeclaredOK'
<1> DEFINE n == Len(results) - k
           r == Joined(name, k)
           root == [name |-> name, parent |-> None]
           last == UNION {Range(results[i]) : i \in (n + 1)..Len(results)}
           first == UNION {Range(results[i]) : i \in 1..n}
           Pairs(S) == {<<v.name, v.parent>> : v \in {w \in S : w.parent # None}}
           added == {<<Last(results[i]).name, name>> : i \in (n + 1)..(n + k)}
<1>0. /\ results \in Seq(Seq(LatticeValue)) /\ n \in Nat /\ n <= Len(results)
      /\ n + k = Len(results) /\ DOMAIN results = 1..Len(results)
      /\ Len(results) \in Nat
  BY DEF ResultsOK
<1>1. AllValues = first \cup last
  <2>1. \A i \in DOMAIN results : i \in 1..n \/ i \in (n + 1)..Len(results)
    BY <1>0
  <2>2. \A i \in 1..n : i \in DOMAIN results
    BY <1>0
  <2>3. \A i \in (n + 1)..Len(results) : i \in DOMAIN results
    BY <1>0
  <2> HIDE DEF n
  <2> QED
    BY <2>1, <2>2, <2>3 DEF AllValues
<1>2. AllValues' = first \cup Range(r)
  <2>1. /\ DOMAIN results' = 1..(n + 1)
        /\ \A i \in 1..n : results'[i] = results[i]
        /\ results'[n + 1] = r
    BY PropertyValueEffect
  <2>2. \A i \in 1..(n + 1) : i \in 1..n \/ i = n + 1
    BY <1>0
  <2>3. n + 1 \in 1..(n + 1) /\ \A i \in 1..n : i \in 1..(n + 1)
    BY <1>0
  <2> HIDE DEF n, r
  <2> QED
    BY <2>1, <2>2, <2>3 DEF AllValues
<1>3. Range(r) = {Completed(v, name) : v \in last} \cup {root}
  BY JoinedHolds
<1>4. pc = "parsing" /\ pc' = "parsing" /\ declared' = declared \cup added
  BY DEF property_value
<1>5. declared = Pairs(first) \cup Pairs(last)
  <2> HIDE DEF first, last
  <2> QED
    BY <1>1, <1>4 DEF DeclaredOK
<1>6. ASSUME NEW v \in last PROVE v \in LatticeValue
  BY <1>0 DEF Range
<1>7. ASSUME NEW p
      PROVE  p \in Pairs(last) \cup added
               <=> \E v \in last : p = <<v.name, IF v.parent = None THEN name ELSE v.parent>>
  <2>1. ASSUME NEW v \in last, v.parent = None PROVE <<v.name, name>> \in added
    <3>1. PICK i \in (n + 1)..Len(results) : v \in Range(results[i])
      OBVIOUS
    <3>2. i \in DOMAIN results /\ i \in (n + 1)..(n + k)
      BY <1>0
    <3>3. v = Last(results[i])
      BY <2>1, <3>1, <3>2 DEF ResultsOK
    <3> QED
      BY <3>2, <3>3
  <2>2. ASSUME NEW i \in (n + 1)..(n + k)
        PROVE  /\ Last(results[i]) \in last
               /\ Last(results[i]).parent = None
    <3>1. i \in DOMAIN results /\ i \in (n + 1)..Len(results)
      BY <1>0
    <3>2. results[i] \in Seq(LatticeValue) /\ results[i] # <<>>
      BY <1>0, <3>1 DEF ResultsOK
    <3>3. Last(results[i]) \in Range(results[i])
      <4> DEFINE s == results[i]
      <4> HIDE DEF s
      <4>1. s \in Seq(LatticeValue) /\ s # <<>> => Len(s) \in DOMAIN s
        BY EmptySeq
      <4> QED
        BY <3>2, <4>1 DEF s, Last, Range
    <3> QED
      BY <3>1, <3>3 DEF ResultsOK
  <2> HIDE DEF last, n
  <2> QED
    BY <2>1, <2>2
<1>8. ASSUME NEW p
      PROVE  p \in Pairs(Range(r))
               <=> \E v \in last : p = <<v.name, IF v.parent = None THEN name ELSE v.parent>>
  <2>1. root.parent = None
    OBVIOUS
  <2>2. ASSUME NEW v \in last
        PROVE  /\ Completed(v, name).name = v.name
               /\ Completed(v, name).parent = IF v.parent = None THEN name ELSE v.parent
               /\ Completed(v, name).parent # None
    <3> HIDE DEF last
    <3> QED
      BY <1>6, CompletedValue
  <2> HIDE DEF last, root, r
  <2> QED
    BY <1>3, <2>1, <2>2
<1>9. declared' = Pairs(first) \cup Pairs(Range(r))
  <2> HIDE DEF Pairs, first, last, added, r, n
  <2> QED
    BY <1>4, <1>5, <1>7, <1>8
<1>10. declared' = Pairs(AllValues')
  <2> HIDE DEF first, r
  <2> QED
    BY <1>2, <1>9
<1> QED
  BY <1>4, <1>10 DEF DeclaredOK

\* Every value of the lists is a value of the annotation, and a parent is the
\* name of one.
LEMMA ValuesKnown ==
  ASSUME ResultsOK
  PROVE  /\ AllValues \subseteq LatticeValue
         /\ \A v \in AllValues : v.parent # None =>
              \E w \in AllValues : w.name = v.parent
<1>1. ASSUME NEW i \in DOMAIN results, NEW v \in Range(results[i])
      PROVE  v \in LatticeValue
  <2>1. results[i] \in Seq(LatticeValue)
    BY DEF ResultsOK
  <2> QED
    BY <2>1 DEF Range
<1> QED
  BY <1>1 DEF AllValues, ResultsOK

\* The list handed over is read to its end, and for one root it is the list of
\* all values.
LEMMA HandOver ==
  ASSUME ResultsOK, results # <<>>
  PROVE  /\ property_values(results) \in Seq(AllValues \cup {Nested})
         /\ OneRoot => Range(property_values(results)) = AllValues
<1> DEFINE S == AllValues \cup {Nested}
           head == results[1]
           rest == [i \in 1..(Len(results) - 1) |-> Nested]
<1>1. results \in Seq(Seq(LatticeValue)) /\ Len(results) \in Nat \ {0}
      /\ 1 \in DOMAIN results
  BY EmptySeq DEF ResultsOK
<1>2. head \in Seq(AllValues) /\ Head(results) = head
  <2>1. head \in Seq(LatticeValue)
    BY <1>1
  <2>2. head \in Seq(Range(head))
    BY <2>1, SeqOfRange
  <2>3. Range(head) \subseteq AllValues
    BY <1>1 DEF AllValues
  <2>4. \A j \in 1..Len(head) : head[j] \in AllValues
    BY <2>2, <2>3
  <2> QED
    BY <1>1, <2>2, <2>4
<1>3. head \in Seq(S)
  BY <1>2
<1>4. rest \in Seq(S) /\ Len(rest) = Len(results) - 1
  BY <1>1
<1>5. property_values(results) = head \o rest
  BY <1>2 DEF property_values
<1>6. property_values(results) \in Seq(S)
  BY <1>3, <1>4, <1>5, ConcatProperties
<1>7. ASSUME OneRoot PROVE Range(property_values(results)) = AllValues
  <2>1. rest = <<>>
    BY <1>7 DEF OneRoot
  <2>2. property_values(results) = head
    BY <1>3, <1>5, <2>1, ConcatEmptySeq
  <2>3. AllValues = Range(head)
    <3>1. DOMAIN results = {1}
      BY <1>1, <1>7 DEF OneRoot
    <3> QED
      BY <3>1 DEF AllValues
  <2> QED
    BY <2>2, <2>3
<1> QED
  BY <1>6, <1>7

\* The end of the property keeps the invariant.
LEMMA InvProperty ==
  ASSUME IInv, NEW default, property(default)
  PROVE  IInv'
<1>0. /\ ResultsOK /\ results # <<>> /\ pc = "parsing" /\ pc' = "reading"
      /\ UNCHANGED <<results, properties, parents, climbing>>
      /\ lattice' = property_values(results)
      /\ initial' = default
  BY DEF IInv, property
<1>1. ResultsOK' /\ AllValues' = AllValues /\ OneRoot' = OneRoot
  BY <1>0 DEF ResultsOK, AllValues, OneRoot
<1>2. DeclaredOK'
  <2> DEFINE roots == {<<Last(results[i]).name, Bottom>> : i \in DOMAIN results}
  <2>1. declared' = {<<v.name, v.parent>> : v \in {w \in AllValues : w.parent # None}}
                      \cup roots
    BY <1>0 DEF property, IInv, DeclaredOK
  <2>2. ASSUME NEW p
        PROVE  p \in roots <=> \E v \in AllValues : v.parent = None /\ p = <<v.name, Bottom>>
    <3>1. ASSUME NEW i \in DOMAIN results
          PROVE  Last(results[i]) \in AllValues /\ Last(results[i]).parent = None
      <4>1. results[i] \in Seq(LatticeValue) /\ results[i] # <<>>
        BY <1>0 DEF ResultsOK
      <4>2. Last(results[i]) \in Range(results[i])
        <5> DEFINE s == results[i]
        <5> HIDE DEF s
        <5>1. s \in Seq(LatticeValue) /\ s # <<>> => Len(s) \in DOMAIN s
          BY EmptySeq
        <5> QED
          BY <4>1, <5>1 DEF s, Last, Range
      <4> QED
        BY <1>0, <4>2 DEF AllValues, ResultsOK
    <3>2. ASSUME NEW v \in AllValues, v.parent = None
          PROVE  \E i \in DOMAIN results : v = Last(results[i])
      BY <1>0, <3>2 DEF AllValues, ResultsOK
    <3> QED
      BY <3>1, <3>2
  <2>3. declared' = {<<v.name, ParentRead(v)>> : v \in AllValues}
    <3> HIDE DEF roots
    <3> QED
      BY <2>1, <2>2 DEF ParentRead
  <2> QED
    BY <1>0, <1>1, <2>3 DEF DeclaredOK, ParentRead
<1>3. ReadOK'
  BY <1>0, <1>1, HandOver DEF IInv, ReadOK
<1>4. ClimbOK'
  BY <1>0 DEF ClimbOK
<1> QED
  BY <1>1, <1>2, <1>3, <1>4 DEF IInv

\* One turn of the loop over the list keeps the invariant.
LEMMA InvRead == ASSUME IInv, processLatticeValue PROVE IInv'
<1> DEFINE v == Head(lattice)
<1>0. /\ pc = "reading" /\ pc' = "reading" /\ lattice # <<>>
      /\ lattice' = Tail(lattice)
      /\ UNCHANGED <<results, declared, initial, climbing>>
      /\ IF v = Nested THEN UNCHANGED <<properties, parents>>
         ELSE /\ properties' = properties \cup {v.name}
              /\ parents' = [q \in properties' |->
                   IF q \in properties THEN parents[q] ELSE ParentRead(v)]
  BY DEF processLatticeValue
<1>1. ResultsOK' /\ DeclaredOK' /\ AllValues' = AllValues /\ OneRoot' = OneRoot
  BY <1>0 DEF IInv, ResultsOK, DeclaredOK, AllValues, OneRoot, ParentRead
<1>2. lattice \in Seq(AllValues \cup {Nested})
  BY <1>0 DEF IInv, ReadOK
<1>3. /\ v \in AllValues \cup {Nested}
      /\ Tail(lattice) \in Seq(AllValues \cup {Nested})
      /\ \A w \in Range(lattice) : w = v \/ w \in Range(Tail(lattice))
  <2> DEFINE S == AllValues \cup {Nested}
  <2>1. /\ Head(lattice) \in S
        /\ Tail(lattice) \in Seq(S)
        /\ Len(Tail(lattice)) = Len(lattice) - 1
        /\ \A i \in 1..Len(Tail(lattice)) : Tail(lattice)[i] = lattice[i + 1]
    <3> HIDE DEF S
    <3> QED
      BY <1>0, <1>2, HeadTailProperties DEF S
  <2>2. DOMAIN lattice = 1..Len(lattice) /\ Len(lattice) \in Nat
        /\ Head(lattice) = lattice[1]
    BY <1>0, <1>2
  <2>3. ASSUME NEW i \in DOMAIN lattice
        PROVE  lattice[i] = v \/ lattice[i] \in Range(Tail(lattice))
    <3>1. CASE i = 1
      BY <2>2, <3>1
    <3>2. CASE i # 1
      <4>1. i - 1 \in 1..Len(Tail(lattice)) /\ (i - 1) + 1 = i
        BY <2>1, <2>2, <3>2
      <4>2. DOMAIN Tail(lattice) = 1..Len(Tail(lattice))
        BY <2>1
      <4> QED
        BY <2>1, <4>1, <4>2 DEF Range
    <3> QED
      BY <3>1, <3>2
  <2> QED
    BY <2>1, <2>3 DEF Range
<1>4. AllValues \subseteq LatticeValue /\ Nested \notin AllValues
  BY ValuesKnown, NamesAssumption DEF IInv
<1> HIDE DEF v
<1>5. ReadOK'
  <2>1. CASE v = Nested
    BY <1>0, <1>1, <1>3, <1>4, <2>1 DEF IInv, ReadOK
  <2>2. CASE v # Nested
    <3>1. v \in AllValues
      BY <1>3, <2>2
    <3>2. /\ properties' = properties \cup {v.name}
          /\ parents' = [q \in properties' |->
               IF q \in properties THEN parents[q] ELSE ParentRead(v)]
      BY <1>0, <2>2
    <3>3. /\ DOMAIN parents' = properties'
          /\ \A q \in properties : parents'[q] = parents[q]
          /\ \A q \in properties' \ properties : parents'[q] = ParentRead(v)
      BY <3>2
    <3>4. ASSUME NEW q \in properties'
          PROVE  \E w \in AllValues : w.name = q /\ parents'[q] = ParentRead(w)
      <4>1. CASE q \in properties
        BY <3>3, <4>1 DEF IInv, ReadOK
      <4>2. CASE q \notin properties
        BY <3>1, <3>2, <3>3, <4>2
      <4> QED
        BY <4>1, <4>2
    <3>5. OneRoot => \A w \in AllValues : w \in Range(lattice') \/ w.name \in properties'
      BY <1>0, <1>3, <3>2 DEF IInv, ReadOK
    <3> QED
      BY <1>0, <1>1, <1>3, <3>3, <3>4, <3>5 DEF ReadOK, ParentRead
  <2> QED
    BY <2>1, <2>2
<1>6. ClimbOK'
  BY <1>0, <1>1 DEF IInv, ClimbOK, ValueNames
<1> QED
  BY <1>1, <1>5, <1>6 DEF IInv

\* The end of a value keeps the invariant.
LEMMA InvPropertyValue ==
  ASSUME IInv, NEW name \in Name, NEW k \in 0..Len(results), property_value(name, k)
  PROVE  IInv'
<1>1. /\ pc = "parsing" /\ pc' = "parsing"
      /\ UNCHANGED <<properties, parents, initial, climbing>>
  BY DEF property_value
<1>2. ResultsOK' /\ DeclaredOK'
  BY ParserKeepsResults, ParserKeepsDeclared DEF IInv
<1>3. ReadOK' /\ ClimbOK'
  BY <1>1 DEF IInv, ReadOK, ClimbOK
<1> QED
  BY <1>2, <1>3 DEF IInv

\* The steps of the first climb keep the invariant: the name above a name that
\* was read has been read.
LEMMA InvClimb == ASSUME IInv, addToParents PROVE IInv'
<1>0. /\ pc = "climbing" /\ pc' \in {"climbing", "thrown", "initialized"}
      /\ UNCHANGED <<results, declared, lattice, properties, parents, initial>>
  BY DEF addToParents
<1>1. /\ ResultsOK' /\ AllValues' = AllValues /\ OneRoot' = OneRoot
      /\ DeclaredOK' /\ ReadOK'
  BY <1>0 DEF IInv, ResultsOK, DeclaredOK, ReadOK, AllValues, OneRoot, ParentRead
<1>2. ASSUME pc' = "thrown", OneRoot PROVE initial' \notin ValueNames
  <2>1. climbing \notin properties
    BY <1>0, <1>2 DEF addToParents
  <2> QED
    BY <1>0, <1>2, <2>1 DEF IInv, ClimbOK
<1>3. ASSUME pc' = "climbing", OneRoot, initial' \in ValueNames
      PROVE  climbing' \in properties'
  <2>1. climbing \in properties /\ parents[climbing] # Bottom
        /\ climbing' = parents[climbing]
    BY <1>0, <1>3 DEF addToParents
  <2>2. PICK v \in AllValues : parents[climbing] = ParentRead(v)
    BY <2>1 DEF IInv, ReadOK
  <2>3. v.parent # None /\ climbing' = v.parent
    BY <2>1, <2>2 DEF ParentRead
  <2>4. PICK w \in AllValues : w.name = v.parent
    BY <2>3, ValuesKnown DEF IInv
  <2>5. w.name \in properties
    BY <1>0, <1>3, <2>4 DEF IInv, ReadOK
  <2> QED
    BY <1>0, <2>3, <2>4, <2>5
<1>4. ClimbOK'
  BY <1>0, <1>1, <1>2, <1>3 DEF IInv, ClimbOK, ValueNames
<1> QED
  BY <1>1, <1>4 DEF IInv

\* Every step keeps the invariant.
LEMMA InvStep == ASSUME IInv, [Next]_vars PROVE IInv'
<1>1. ASSUME NEW name \in Name, NEW k \in 0..Len(results), property_value(name, k)
      PROVE  IInv'
  BY <1>1, InvPropertyValue
<1>2. ASSUME NEW default \in Name \cup {None}, property(default) PROVE IInv'
  BY <1>2, InvProperty
<1>3. CASE processLatticeValue
  BY <1>3, InvRead
<1>4. CASE newDataFlow
  <2>1. /\ pc = "reading" /\ pc' = "read" /\ lattice = <<>>
        /\ UNCHANGED <<results, declared, lattice, properties, parents, initial, climbing>>
    BY <1>4 DEF newDataFlow
  <2>2. Range(lattice) = {}
    BY <2>1 DEF Range
  <2>3. /\ ResultsOK' /\ AllValues' = AllValues /\ OneRoot' = OneRoot
        /\ DeclaredOK'
    BY <2>1 DEF IInv, ResultsOK, DeclaredOK, AllValues, OneRoot, ParentRead
  <2>4. ReadOK'
    BY <2>1, <2>2, <2>3 DEF IInv, ReadOK, ParentRead
  <2>5. ClimbOK'
    BY <2>1 DEF ClimbOK
  <2> QED
    BY <2>3, <2>4, <2>5 DEF IInv
<1>5. CASE initializeState
  <2>1. /\ pc = "read" /\ pc' = "climbing" /\ climbing' = initial
        /\ UNCHANGED <<results, declared, lattice, properties, parents, initial>>
    BY <1>5 DEF initializeState
  <2>2. /\ ResultsOK' /\ AllValues' = AllValues /\ OneRoot' = OneRoot
        /\ DeclaredOK' /\ ReadOK'
    BY <2>1 DEF IInv, ResultsOK, DeclaredOK, ReadOK, AllValues, OneRoot, ParentRead
  <2>3. OneRoot /\ initial \in ValueNames => initial \in properties
    BY <2>1 DEF IInv, ReadOK, ValueNames
  <2>4. ClimbOK'
    BY <2>1, <2>2, <2>3 DEF ClimbOK, ValueNames
  <2> QED
    BY <2>2, <2>4 DEF IInv
<1>6. CASE addToParents
  BY <1>6, InvClimb
<1>7. CASE UNCHANGED vars
  BY <1>7 DEF vars, IInv, ResultsOK, DeclaredOK, ReadOK, ClimbOK, AllValues, ValueNames,
              OneRoot, ParentRead
<1> QED
  BY <1>1, <1>2, <1>3, <1>4, <1>5, <1>6, <1>7 DEF Next

\* Nothing is parsed or read at the start.
LEMMA InvInit == Init => IInv
<1> SUFFICES ASSUME Init PROVE IInv
  OBVIOUS
<1>1. results = <<>> /\ DOMAIN results = {} /\ results \in Seq(Seq(LatticeValue))
  BY DEF Init
<1>2. AllValues = {}
  BY <1>1 DEF AllValues
<1> QED
  BY <1>1, <1>2 DEF Init, IInv, ResultsOK, DeclaredOK, ReadOK, ClimbOK

-----------------------------------------------------------------------------
(* The theorems.                                                           *)

\* The lists of the parser are well formed, the pairs written are the pairs in
\* them, what was read comes from them, and the climb stays on names that were
\* read (broadway_semantics.py:67-79, BroadwayPass.cpp:147-160, Utils.h:68-74).
THEOREM AlwaysInvariant == Spec => []IInv
<1>1. IInv /\ [Next]_vars => IInv'
  BY InvStep
<1> QED
  BY InvInit, <1>1, PTL DEF Spec

\* The first climb throws only from a default that is none of the values or is
\* missing, whatever the annotation nests and however often it uses a name
\* (Utils.h:69, BroadwayPass.cpp:162).
THEOREM AlwaysAbortsOnlyIfUndeclared == Spec => []AbortsOnlyIfUndeclared
<1>1. ASSUME IInv PROVE AbortsOnlyIfUndeclared
  <2>1. Range(FlattenSeq(results)) = AllValues
    BY <1>1, FlattenHolds DEF IInv, ResultsOK, AllValues
  <2>2. ToSet(Values) = ValueNames
    <3> DEFINE flat == FlattenSeq(results)
    <3> HIDE DEF flat
    <3>1. Range(flat) = AllValues /\ Values = [i \in DOMAIN flat |-> flat[i].name]
      BY <2>1 DEF flat, Values
    <3>2. DOMAIN Values = DOMAIN flat /\ \A i \in DOMAIN flat : Values[i] = flat[i].name
      BY <3>1
    <3> QED
      BY <3>1, <3>2 DEF ToSet, Range, ValueNames
  <2> QED
    BY <1>1, <2>2 DEF IInv, ClimbOK, AbortsOnlyIfUndeclared, DefaultDeclared
<1> QED
  BY <1>1, AlwaysInvariant, PTL

\* The lattice object has the parents of the annotation's text, for texts of
\* any size and depth (broadway_semantics.py:67-79, BroadwayPass.cpp:147-160).
THEOREM AlwaysDeclaredTreeRead == Spec => []DeclaredTreeRead
<1>1. ASSUME IInv PROVE DeclaredTreeRead
  <2> SUFFICES ASSUME pc = "read", Distinct, OneRoot
               PROVE  {<<q, parents[q]>> : q \in properties} = declared
    BY DEF DeclaredTreeRead
  <2>1. /\ declared = {<<v.name, ParentRead(v)>> : v \in AllValues}
        /\ \A v \in AllValues : v.name \in properties
        /\ \A q \in properties : \E v \in AllValues :
             v.name = q /\ parents[q] = ParentRead(v)
    BY <1>1 DEF IInv, DeclaredOK, ReadOK
  <2>2. Range(FlattenSeq(results)) = AllValues
    BY <1>1, FlattenHolds DEF IInv, ResultsOK, AllValues
  <2>3. ASSUME NEW v \in AllValues, NEW w \in AllValues, v.name = w.name
        PROVE  v = w
    <3> DEFINE flat == FlattenSeq(results)
    <3> HIDE DEF flat
    <3>1. Range(flat) = AllValues /\ Values = [i \in DOMAIN flat |-> flat[i].name]
      BY <2>2 DEF flat, Values
    <3>2. PICK i \in DOMAIN flat, j \in DOMAIN flat : flat[i] = v /\ flat[j] = w
      BY <3>1 DEF Range
    <3>3. DOMAIN Values = DOMAIN flat /\ Values[i] = v.name /\ Values[j] = w.name
      BY <3>1, <3>2
    <3>4. i = j
      BY <2>3, <3>2, <3>3 DEF Distinct, IsInjective
    <3> QED
      BY <3>2, <3>4
  <2>4. ASSUME NEW v \in AllValues PROVE parents[v.name] = ParentRead(v)
    BY <2>1, <2>3
  <2> QED
    BY <2>1, <2>4
<1> QED
  BY <1>1, AlwaysInvariant, PTL
=============================================================================
