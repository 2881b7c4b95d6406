---------------------------- MODULE EnumProperty ----------------------------
(***************************************************************************)
(* The lattice of one property of an annotation file: enumValueAnn and     *)
(* enumPropertyAnn of src/reference/ClientDriven/AnnotationPass/bdwy.      *)
(*                                                                         *)
(* A property P is a record: values, the names declared; more_general, the *)
(* value below each of them, which is Bottom for the lowest; default, the  *)
(* value of what was not assigned one.                                     *)
(***************************************************************************)
EXTENDS Naturals, FiniteSets, FiniteSetsExt

CONSTANTS
  Top,       \* "(top)"
  Bottom     \* "(bottom)"

\* The values of a property are nested in one another, the outermost in Bottom:
\* each list of values is given the value around it as more_general.
IsTree(P) ==
  /\ IsFiniteSet(P.values) /\ Top # Bottom /\ {Top, Bottom} \cap P.values = {}
  /\ P.more_general \in [P.values -> P.values \cup {Bottom}]
  /\ \A S \in SUBSET P.values : S # {} => \E v \in S : P.more_general[v] \notin S

\* what enumPropertyAnn::lookup finds
Names(P) == P.values \cup {Top, Bottom}

\* Bottom has height 0 and Top lies above all other values.
height(P) ==
  LET h[v \in P.values \cup {Bottom}] ==
        IF v = Bottom THEN 0 ELSE h[P.more_general[v]] + 1
      below == {h[v] : v \in P.values \cup {Bottom}}
  IN  [v \in Names(P) |-> IF v = Top THEN Max(below) + 1 ELSE h[v]]

\* as meet, but only one of two values of the same height is lowered
MeetOneSided(P, a, b) ==
  LET h == height(P)
      m[p \in Names(P) \X Names(P)] ==
        LET left == p[1]
            right == p[2]
        IN  CASE Bottom \in {left, right} -> Bottom
              [] left = Top    -> right
              [] right = Top   -> left
              [] left = right  -> left
              [] OTHER -> IF h[left] >= h[right] THEN m[<<P.more_general[left], right>>]
                                                 ELSE right
  IN  m[<<a, b>>]

\* Down from the higher value, or from both, until they agree.
meet(P, a, b) ==
  LET h == height(P)
      m[p \in Names(P) \X Names(P)] ==
        LET left == p[1]
            right == p[2]
        IN  CASE Bottom \in {left, right} -> Bottom
              [] left = Top    -> right
              [] right = Top   -> left
              [] left = right  -> left
              [] OTHER -> m[<<IF h[left] >= h[right] THEN P.more_general[left] ELSE left,
                              IF h[right] >= h[left] THEN P.more_general[right] ELSE right>>]
  IN  m[<<a, b>>]

\* Top is not at least anything, "because it seems non-intuitive".
at_least(P, left, right) == meet(P, left, right) = right /\ left # Top

at_most(P, left, right) == meet(P, left, right) = left

merge_enumvalue_set(P, S) ==
  FoldSet(LAMBDA v, w : meet(P, v, w), Top, S)

-----------------------------------------------------------------------------
\* v lies below w: on the way from w down to the bottom.
Below(P, v, w) ==
  LET D[u \in P.values \cup {Bottom}] ==
        {u} \cup (IF u = Bottom THEN {} ELSE D[P.more_general[u]])
  IN  w = Top \/ (v # Top /\ v \in D[w])

MeetIsGreatestBelow(P) ==
  \A v, w \in Names(P) :
    LET common == {u \in Names(P) : Below(P, u, v) /\ Below(P, u, w)}
    IN  /\ meet(P, v, w) \in common
        /\ \A u \in common : Below(P, u, meet(P, v, w))
=============================================================================
