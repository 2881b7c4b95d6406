---------------------------- MODULE OrderedDefs ----------------------------
(***************************************************************************)
(* OrderedDefs of src/reference/ClientDriven/model/Defs.cpp: the list that *)
(* a memory block keeps of the locations where it is defined, searched     *)
(* from the front.  A definition is named by its location, of which the    *)
(* list has no two.                                                        *)
(*                                                                         *)
(* S stands for the locations l with Loc::strictly_dominates(l, loc).  The *)
(* mode "flow insensitive", in which one definition stands for all, is the *)
(* case of a single location that dominates itself.                        *)
(***************************************************************************)
EXTENDS Naturals, Sequences

CONSTANT NoDef    \* NULL

\* The search from the front stops at k, the first member of S or the end.
IsFirst(defs, S, k) ==
  /\ k \in 1..Len(defs) + 1
  /\ k <= Len(defs) => defs[k] \in S
  /\ \A j \in 1..k - 1 : defs[j] \notin S

First(defs, S) == CHOOSE k \in 1..Len(defs) + 1 : IsFirst(defs, S, k)

FirstDef(defs, S) ==
  LET k == First(defs, S) IN IF k <= Len(defs) THEN defs[k] ELSE NoDef

find_def(defs, loc) == FirstDef(defs, {loc})

find_strictly_dominating_def(defs, S) == FirstDef(defs, S)

find_dominating_def(defs, loc, S) == FirstDef(defs, S \cup {loc})

\* defs.insert, before the k-th element.
Insert(defs, k, loc) ==
  [i \in 1..Len(defs) + 1 |-> IF i < k THEN defs[i]
                              ELSE IF i = k THEN loc
                              ELSE defs[i - 1]]

\* as make_def_at, but the definition goes to the end of the list
make_def_at_end(defs, loc, S) ==
  IF find_def(defs, loc) # NoDef THEN defs ELSE Append(defs, loc)

make_def_at(defs, loc, S) ==
  IF find_def(defs, loc) # NoDef
    THEN defs
    ELSE Insert(defs, First(defs, S \cup {loc}), loc)

-----------------------------------------------------------------------------
\* "a def is never preceded by another def that dominates it", by the relation r.
Ordered(defs, r) ==
  \A i, j \in 1..Len(defs) : i < j => <<defs[i], defs[j]>> \notin r

\* What strict dominance is in a tree.
PartialOrder(r) ==
  /\ \A x, y, z : <<x, y>> \in r /\ <<y, z>> \in r => <<x, z>> \in r
  /\ \A x : <<x, x>> \notin r

\* The dominators of a location dominate one another.
TreeOrder(r) ==
  /\ PartialOrder(r)
  /\ \A x, y, z : <<x, z>> \in r /\ <<y, z>> \in r =>
       x = y \/ <<x, y>> \in r \/ <<y, x>> \in r

\* S are the locations before loc by r.
Before(r, loc, S) == \A x : x \in S <=> <<x, loc>> \in r
=============================================================================
