----------------------------- MODULE MCDataFlow -----------------------------
(* Small functions and the lattices of memory.pal for the worklist solver. *)
EXTENDS DataFlowRefinement, DataFlowReport

CONSTANTS b1, b2, b3, chunk, other

\* property HeapCount : { Error { Multiple { Single { Unused }}}}, shortened to
\* three names and to two
Chain == {"Error", "Single", "Unused"}
ChainOrder == <<"Error", "Single", "Unused">>
ChainParent == [q \in Chain |-> CASE q = "Error" -> "bottom"
                                  [] q = "Single" -> "Error"
                                  [] OTHER -> "Single"]

Pair == {"Error", "Unused"}
PairOrder == <<"Error", "Unused">>
PairParent == [q \in Pair |-> IF q = "Error" THEN "bottom" ELSE "Error"]

\* property MemoryLeak : @backward { Error { MaybeDeallocated {
\*                                     Deallocated, NotDeallocated }}}
Fork == {"Deallocated", "Error", "MaybeDeallocated", "NotDeallocated"}
ForkOrder == <<"Deallocated", "Error", "MaybeDeallocated", "NotDeallocated">>
ForkParent == [q \in Fork |-> CASE q = "Error" -> "bottom"
                                [] q = "MaybeDeallocated" -> "Error"
                                [] OTHER -> "MaybeDeallocated"]

\* Code is a sequence of the assignments the visitor performs; a backward
\* analysis visits it from the end.
Assign(c, L) == FoldLeft(LAMBDA M, a : AddToProperty(M, a[1], a[2]), L,
                         IF Forward THEN c ELSE Reverse(c))

\* The assumption under which SolverGivesAnswers derives StepsAreAnswers.
ASSUME AssignMonotone == Monotone

Assignments == Property \X Value

\* Blocks with one assignment at most, and one with two.
ShortCode == {<<>>} \cup {<<a>> : a \in Assignments}
LongCode(p, q, v) == <<<<p, v>>, <<q, v>>>>
ForkCode == ShortCode \cup {LongCode("Deallocated", "NotDeallocated", chunk)}

\* All graphs over a set of blocks whose entry block has no predecessor, as
\* LLVM demands.
Graphs(B, entry) == {s \in [Block -> SUBSET (B \ {entry})] :
                       \A b \in Block \ B : s[b] = {}}

Fns(B, entry, codes, V) ==
  {[blocks |-> B, succ |-> s, code |-> c, values |-> V] :
     s \in Graphs(B, entry),
     c \in {d \in [Block -> codes] : \A b \in Block \ B : d[b] = <<>>}}

\* One function whose second and third block form a cycle, the second with code.
Loops ==
  {{[blocks |-> {b1, b2, b3}, succ |-> (b1 :> {b2}) @@ (b2 :> {b3}) @@ (b3 :> s),
     code |-> c, values |-> {chunk}]} :
     s \in {{b2}, {b2, b3}}, c \in {d \in [{b1, b2, b3} -> Code] : d[b1] = <<>> /\ d[b3] = <<>>}}

\* Two functions of one module.  chunk is a value of the first only, other of
\* the second only, and the code of each may assign both.
TwoFunctions ==
  {{f, g} : f \in Fns({b1, b2}, b1, Code, {chunk}),
            g \in Fns({b3}, b3, Code, {other})}

\* Modules of either kind.
LoopsAndTwoFunctions == Loops \cup TwoFunctions

\* One function of two blocks, the first of which may not reach the second.
TwoBlocks == {{f} : f \in Fns({b1, b2}, b1, Code, {chunk})}
=============================================================================
