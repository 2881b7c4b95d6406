------------------------- MODULE MCBroadwayVisitor -------------------------
(* Small annotations for the call visitor.                                 *)
EXTENDS BroadwayVisitor

CONSTANT chunk

Pair == {"Error", "MaybeDeallocated"}
PairParent == [q \in Pair |-> IF q = "Error" THEN "bottom" ELSE "Error"]

Variables == {"ptr", "chunk", "field"}

\* The shapes of a pointer with up to three definitions: one in which each
\* follows from the one before, and one with two members.
Shapes == {<<0>>, <<0, 1>>, <<0, 1, 2>>, <<0, 1, 1>>}

\* The names of a shape may repeat.
Pointers ==
  UNION {{[i \in DOMAIN above |->
             [name |-> n[i], parent |-> n[IF i = 1 THEN 1 ELSE above[i]]]] :
           n \in [DOMAIN above -> Variables]} : above \in Shapes}

Effects == {[property |-> "MemoryLeak", conditional |-> FALSE, operator |-> o,
             lhs |-> l, rhs |-> "Error"] :
              l \in {"chunk", "field"}, o \in {"<-", "=="}}

\* A call with one entry pointer of any kind and up to another one before it.
AnyCalls ==
  {[arguments |-> <<"ptr">>, operands |-> <<chunk>>, effects |-> <<e>>,
    entryPointers |-> before \o <<p>>] :
      e \in Effects, p \in Pointers,
      before \in {<<>>, <<<<[name |-> "field", parent |-> "field"]>>>>}}

\* procedure free(ptr) { on_entry { ptr --> memory_chunk } ... } of memory.pal
FreeCalls ==
  {[arguments |-> <<"ptr">>, operands |-> <<v>>,
    effects |-> <<[property |-> "MemoryLeak", conditional |-> c, operator |-> "<-",
                   lhs |-> "chunk", rhs |-> q]>>,
    entryPointers |-> <<<<[name |-> "ptr", parent |-> "ptr"],
                          [name |-> "chunk", parent |-> "ptr"]>>>>] :
      v \in Value, c \in BOOLEAN, q \in Pair}
=============================================================================
