--------------------------- MODULE SparsePointers ---------------------------
(***************************************************************************)
(* The pointer analysis of src/reference/ClientDriven/Main_DFA_Algo.cpp,   *)
(* context-sensitive: the worklist of a procedure, stores, calls, and the  *)
(* merge points (phis) that changes place on the dominance frontier and    *)
(* behind the call.  The values are kept where they change, in the         *)
(* definitions of each memory block.                                       *)
(*                                                                         *)
(* A program has pointer variables, global or of main, that are stored to  *)
(* directly or through another pointer, and calls without arguments.  A    *)
(* call ends its block but for a branch, as SplitPass makes sure.          *)
(***************************************************************************)
EXTENDS OrderedDefs, Locations

CONSTANTS
  MemBlock,    \* pointer variables, which may point to one another
  Programs,    \* as in Locations
  Unset        \* the value of a pointer that was not stored to

\* Every block is reached from the entry of its procedure: a reverse post-order
\* has no others (model/ProcedureDB.cpp:184-199).
ASSUME ProgramsAssumption == \A f \in Programs :
  /\ IsFiniteSet(DOMAIN f.proc) /\ Null \notin DOMAIN f.proc
  /\ f.entry \in [{f.proc[b] : b \in DOMAIN f.proc} -> DOMAIN f.proc]
  /\ f.main \in DOMAIN f.entry
  /\ \A p \in DOMAIN f.entry : f.proc[f.entry[p]] = p
  /\ f.succ \in [DOMAIN f.proc -> SUBSET DOMAIN f.proc]
  /\ \A b \in DOMAIN f.proc : f.succ[b] \subseteq BlocksOf(f, f.proc[b])
  /\ \A b \in DOMAIN f.proc : b \in ReachFrom(f, {f.entry[f.proc[b]]}, {})
  /\ f.owner \in [MemBlock -> {f.main, Null}]
  /\ \A b \in DOMAIN f.proc : f.code[b] \in Seq(ToSet(f.code[b]))
  /\ \A b \in DOMAIN f.proc : \A i \in DOMAIN f.code[b] :
       \/ /\ f.code[b][i].kind \in {"address", "copy", "through"}
          /\ f.code[b][i].dst \in MemBlock /\ f.code[b][i].src \in MemBlock
       \/ /\ f.code[b][i].kind = "call"
          /\ f.code[b][i].dst \in DOMAIN f.entry
          /\ i = Len(f.code[b]) /\ f.succ[b] # {}

\* A program has finitely many variables, and NULL is no place to define one.
ASSUME MemBlockAssumption ==
  IsFiniteSet(MemBlock) /\ \A f \in Programs : NoDef \notin ProgramLocations(f)

VARIABLES
  fn,              \* the program
  info,            \* the ProcedureInfos: order, dom_tree, frontiers; and the
                   \* strict dominators of every location, which do not change
  flowSensitive,   \* ~ENABLE_FI
  worklist,        \* the bit vectors of all procedures, as a set of blocks
  stack,           \* the calls of analyze_proc in progress, main first
  phis,            \* BB_Loc::phis, by context and block
  defs,            \* Mem_Block::defs
  points_to,       \* Mem_Def::points_to, by memory block and location
  current          \* the memory blocks with a current_def

vars == <<fn, info, flowSensitive, worklist, stack, phis, defs, points_to, current>>

\* A call of analyze_proc: its context, the block in hand or Null, the next
\* statement, the changes of the block and what was defined so far.
Frame(ctx) ==
  [ctx |-> ctx, bb |-> Null, next |-> 0, changes |-> {}, defined |-> {}]

Top  == Last(stack)
here == <<Top.ctx, Top.bb, Top.next>>

-----------------------------------------------------------------------------
(* Definitions and what they point to.                                     *)

\* The flow-insensitive lists hold one definition, found wherever one looks.
Anywhere == Global

At(loc) == IF flowSensitive THEN loc ELSE Anywhere

StrictDominators(loc) ==
  IF flowSensitive THEN info.dominators[loc] ELSE {Anywhere}

PointsTo(m, d) == IF d = NoDef THEN {} ELSE points_to[m][d]

nearest_def_at(m, loc) ==
  find_strictly_dominating_def(defs[m], StrictDominators(loc))

\* The k-th of the calls that lead to loc, counted from main.
Callsite(loc, k) == <<SubSeq(loc[1], 1, k - 1), loc[1][k][1], loc[1][k][2]>>

\* If no definition dominates loc, the one found from the innermost callsite that
\* has one; it may lie in the call itself, which its callsite counts as dominated
\* by (Location.cpp:59).  The stop at a block local to the procedure has no case:
\* a procedure with a callsite is not main, and blocks are global or of main.
ci_nearest_def_at(m, loc) ==
  LET found == {k \in 1..Len(loc[1]) : nearest_def_at(m, Callsite(loc, k)) # NoDef}
  IN  IF nearest_def_at(m, loc) # NoDef \/ found = {}
        THEN nearest_def_at(m, loc)
        ELSE nearest_def_at(m, Callsite(loc, Max(found)))

last_def_at(list, ctx, b) ==
  LET loc == Terminator(fn, ctx, b)
  IN  find_dominating_def(list, At(loc), StrictDominators(loc))

\* What m may point to at loc: one level of dereference.
Dereference(m, loc) == PointsTo(m, ci_nearest_def_at(m, loc))

Predecessors(b) == {p \in DOMAIN fn.succ : b \in fn.succ[p]}

Init ==
  /\ fn \in Programs
  /\ info \in [order : {o \in [DOMAIN fn.entry -> UNION {WorklistOrders(fn, p) : p \in DOMAIN fn.entry}] :
                          \A p \in DOMAIN fn.entry : o[p] \in WorklistOrders(fn, p)},
               dom_tree : {DomTree(fn)},
               dominators : {[m \in ProgramLocations(fn) |->
                  {l \in ProgramLocations(fn) : StrictlyDominates(l, m, DomTree(fn))}]},
               frontiers : {[b \in DOMAIN fn.proc |-> Frontier(fn, b)]}]
  /\ flowSensitive \in BOOLEAN
  /\ worklist = BlocksOf(fn, fn.main)
  /\ stack = <<Frame(<<>>)>>
  /\ phis = [cb \in {<<l[1], l[2]>> : l \in ProgramLocations(fn)} |-> {}]
  /\ defs = [m \in MemBlock |-> IF fn.owner[m] = Null THEN <<Global>> ELSE <<>>]
  /\ points_to = [m \in MemBlock |-> [l \in ProgramLocations(fn) |-> {}]]
  /\ current = {m \in MemBlock : fn.owner[m] = Null}

\* The definition of m at loc, and the list of definitions with it.
def_at(m, loc) == make_def_at(defs[m], At(loc), StrictDominators(loc))

\* as Changed, but any definition is a change
ChangedAlways(m, loc, set) == TRUE

\* m has a new definition at loc, or a definition with another set.
Changed(m, loc, set) ==
  def_at(m, loc) # defs[m] \/ set # points_to[m][At(loc)]

\* The blocks in S are defined at loc, where m then points to set[m].  fr is
\* the frame in hand afterwards but for what it notes of them.
Define(S, loc, set, fr) ==
  \E new \in {set}, list \in {[m \in S |-> def_at(m, loc)]} :
    /\ defs' = [m \in MemBlock |-> IF m \in S THEN list[m] ELSE defs[m]]
    /\ points_to' = [m \in MemBlock |->
         IF m \in S THEN [points_to[m] EXCEPT ![At(loc)] = new[m]]
                    ELSE points_to[m]]
    /\ current' = current \cup S
    /\ stack' = Append(Front(stack),
         [fr EXCEPT !.changes = @ \cup {m \in S : Changed(m, loc, new[m])},
                    !.defined = @ \cup S])

-----------------------------------------------------------------------------
\* What a phi of m at the start of b merges: the last definitions of the
\* predecessors.  Its own set was cleared before, unless flow-insensitive.
eval_phi(m, ctx, b) ==
  LET loc   == <<ctx, b, 0>>
      old   == IF flowSensitive THEN {} ELSE points_to[m][At(loc)]
      lasts == {last_def_at(list, ctx, p) : list \in {def_at(m, loc)}, p \in Predecessors(b)}
  IN  old \cup UNION {PointsTo(m, d) : d \in lasts \ {At(loc)}}

Queued(ctx) == worklist \cap BlocksOf(fn, ProcOf(fn, ctx))

\* The first block of the worklist is taken and its phis are merged.
shift_worklist ==
  /\ Top.bb = Null
  /\ Queued(Top.ctx) # {}
  /\ LET order == info.order[ProcOf(fn, Top.ctx)]
         b     == order[First(order, worklist)]
         merge == phis[Top.ctx, b]
     IN  /\ worklist' = worklist \ {b}
         /\ Define(merge, <<Top.ctx, b, 0>>, [m \in merge |-> eval_phi(m, Top.ctx, b)],
                   [Top EXCEPT !.bb = b, !.next = 1])
  /\ UNCHANGED <<fn, info, flowSensitive, phis>>

Statement == fn.code[Top.bb][Top.next]

AtStatement == Top.bb # Null /\ Top.next <= Len(fn.code[Top.bb])

\* as handle_assign, but the update is always weak
handle_assign_weak(m, lhs, rhs, loc) ==
  points_to[m][At(loc)] \cup rhs \cup Dereference(m, loc)

\* What a store at loc makes m point to: a strong update replaces the set, a
\* weak one adds it to what reaches the store and to what was there.
handle_assign(m, lhs, rhs, loc) ==
  LET strong == Cardinality(lhs) = 1
      old    == IF strong /\ flowSensitive THEN {} ELSE points_to[m][At(loc)]
  IN  old \cup rhs \cup (IF strong THEN {} ELSE Dereference(m, loc))

handle_store ==
  /\ AtStatement
  /\ Statement.kind # "call"
  /\ LET s   == Statement
         lhs == IF s.kind = "through" THEN Dereference(s.dst, here) ELSE {s.dst}
         rhs == IF s.kind = "copy" THEN Dereference(s.src, here) ELSE {s.src}
     IN  Define(lhs, here, [m \in lhs |-> handle_assign(m, lhs, rhs, here)],
                [Top EXCEPT !.next = @ + 1])
  /\ UNCHANGED <<fn, info, flowSensitive, worklist, phis>>

\* A call that may be recursive is passed over.
skip_call ==
  /\ AtStatement
  /\ Statement.kind = "call"
  /\ is_current_call_recursive(AncestorSets(fn), Statement.dst, ProcOf(fn, Top.ctx))
  /\ stack' = Append(Front(stack), [Top EXCEPT !.next = @ + 1])
  /\ UNCHANGED <<fn, info, flowSensitive, worklist, phis, defs, points_to, current>>

\* Any other call analyses the procedure called, all of its blocks first.
handle_call ==
  /\ AtStatement
  /\ Statement.kind = "call"
  /\ ~is_current_call_recursive(AncestorSets(fn), Statement.dst, ProcOf(fn, Top.ctx))
  /\ stack' = Append(stack, Frame(Append(Top.ctx, <<Top.bb, Top.next>>)))
  /\ worklist' = worklist \cup BlocksOf(fn, Statement.dst)
  /\ UNCHANGED <<fn, info, flowSensitive, phis, defs, points_to, current>>

\* The worklist of a procedure called is empty: what it defined is noted by
\* its caller, and has no current_def until it is defined again.
record_extern_io ==
  /\ Top.bb = Null
  /\ Queued(Top.ctx) = {}
  /\ Len(stack) > 1
  /\ LET caller == stack[Len(stack) - 1]
         called == ProcOf(fn, Top.ctx)
         visible == {m \in Top.defined :
           /\ fn.owner[m] # called /\ is_in_scope(fn, called, m)
           /\ is_in_scope(fn, ProcOf(fn, caller.ctx), m)}
     IN  stack' = Append(SubSeq(stack, 1, Len(stack) - 2),
           [caller EXCEPT !.next = @ + 1, !.defined = @ \cup visible])
  /\ current' = current \ Top.defined
  /\ UNCHANGED <<fn, info, flowSensitive, worklist, phis, defs, points_to>>

\* as add_reachable_blocks, but only the successors
add_successors(b) == fn.succ[b]

\* The blocks that are analysed again after a change in b.
add_reachable_blocks(b) == ReachFrom(fn, fn.succ[b], {})

\* What the procedure in hand passes to its caller at the end of a block.
process_extern_changes(fr) ==
  {m \in fr.changes : is_in_scope(fn, ProcOf(fn, fr.ctx), m)}

\* The merges a block with changes needs at block b in context ctx: on its
\* frontier, and behind the call for what has a current definition.
place_phis(fr, ctx, b) ==
  (IF ctx = fr.ctx /\ b \in info.frontiers[fr.bb] THEN fr.changes ELSE {})
  \cup
  (IF /\ fr.ctx # <<>> /\ ctx = Front(fr.ctx)
      /\ b \in fn.succ[Last(fr.ctx)[1]]
     THEN fr.changes \cap current
     ELSE {})

endBlock ==
  /\ Top.bb # Null
  /\ Top.next > Len(fn.code[Top.bb])
  /\ phis' = [cb \in DOMAIN phis |-> phis[cb] \cup place_phis(Top, cb[1], cb[2])]
  /\ worklist' = IF Top.changes = {} THEN worklist
                                     ELSE worklist \cup add_reachable_blocks(Top.bb)
  /\ LET n    == Len(stack)
         done == [Top EXCEPT !.bb = Null, !.next = 0, !.changes = {}]
     IN  stack' = [i \in 1..n |->
           IF i = n THEN done
           ELSE IF i = n - 1
             THEN [stack[i] EXCEPT !.changes = @ \cup process_extern_changes(Top)]
             ELSE stack[i]]
  /\ UNCHANGED <<fn, info, flowSensitive, defs, points_to, current>>

Next ==
  \/ shift_worklist \/ handle_store \/ skip_call \/ handle_call
  \/ endBlock \/ record_extern_io

\* A sequential program that runs until the worklist of main is empty.
Spec == Init /\ [][Next]_vars /\ WF_vars(Next)

-----------------------------------------------------------------------------
(* What the program does when it runs: from a location, with the values of *)
(* the pointers there, to the next.                                        *)

\* The values after the store s, of which there are none if it goes through a
\* pointer that is not set.
Executed(values, s) ==
  CASE s.kind = "address" -> {[values EXCEPT ![s.dst] = s.src]}
    [] s.kind = "copy"    -> {[values EXCEPT ![s.dst] = values[s.src]]}
    [] s.kind = "through" -> IF values[s.dst] = Unset THEN {}
                             ELSE {[values EXCEPT ![values[s.dst]] = s.src]}

Run(f, e) ==
  LET ctx == e[1][1]
      b   == e[1][2]
      i   == e[1][3]
      next(c, d, j) == {<<<<c, d, j>>, e[2]>>}
  IN  IF i <= Len(f.code[b])
        THEN LET s == f.code[b][i]
             IN  IF s.kind # "call"
                   THEN {<<<<ctx, b, i + 1>>, v>> : v \in Executed(e[2], s)}
                   ELSE IF Append(ctx, <<b, i>>) \in Contexts(f)
                     THEN next(Append(ctx, <<b, i>>), f.entry[s.dst], 1)
                     ELSE {}
        ELSE IF f.succ[b] = {} /\ ctx # <<>>
          THEN next(Front(ctx), Last(ctx)[1], Last(ctx)[2] + 1)
          ELSE UNION {next(ctx, d, 1) : d \in f.succ[b]}

\* The locations of program f with the values that some execution has there.
\* Executions end at a recursive call, of which the analysis says nothing.
Executions(f) ==
  LET start == <<<<<<>>, f.entry[f.main], 1>>, [m \in MemBlock |-> Unset]>>
      all   == {l \in ProgramLocations(f) : l[3] # 0} \X [MemBlock -> MemBlock \cup {Unset}]
      Closure[S \in SUBSET all] ==
        LET T == S \cup UNION {Run(f, e) : e \in S}
        IN  IF T = S THEN S ELSE Closure[T]
  IN  Closure[{start}]

-----------------------------------------------------------------------------
(* Properties.                                                             *)

Converged == Len(stack) = 1 /\ Top.bb = Null /\ Queued(<<>>) = {}

Precedes(l, m) == ComesBefore(fn, l, m, info.dom_tree)

\* The list of every memory block promises (model/Blocks.h:55): "a def is never
\* preceded by another def that dominates it".
NeverPreceded ==
  \A m \in MemBlock : \A i, j \in DOMAIN defs[m] :
    i < j => ~Precedes(defs[m][i], defs[m][j])

\* l lies in block b of context ctx, or in a call there.
Inside(l, ctx, b) ==
  l # Global /\ IsStrictPrefix(ctx, Path(l)) /\ Path(l)[Len(ctx) + 1][1] = b

\* A definition is only ever preceded by one that comes before it if both are
\* in a merge point, whose merge was put in front of the latter
\* (Location.cpp:61, Defs.cpp:85-91).
DisorderOnlyByMerge ==
  \A m \in MemBlock : \A i, j \in DOMAIN defs[m] :
    (i < j /\ Precedes(defs[m][i], defs[m][j])) =>
      \E k \in 1..j - 1 :
        LET l == defs[m][k] IN
          /\ l # Global /\ l[3] = 0
          /\ Inside(defs[m][i], l[1], l[2]) /\ Inside(defs[m][j], l[1], l[2])

\* The search from behind a call finds what the procedure called has at its
\* exits: of the definitions in a call, which all dominate what follows it
\* (Location.cpp:59), the first in the list is the last at every exit.
CallEndsFound ==
  \A m \in MemBlock : \A ctx \in Contexts(fn) \ {<<>>} :
    LET within == {l \in Range(defs[m]) : l # Global /\ IsPrefix(ctx, l[1])}
    IN  within # {} =>
          \A e \in Exits(fn, ProcOf(fn, ctx)) :
            last_def_at(defs[m], ctx, e) = FirstDef(defs[m], within)

\* What a pointer holds at the end of a block in some execution is in the set
\* of its last definition there.
Sound ==
  \A e \in Executions(fn), m \in MemBlock :
    LET l == e[1]
    IN  (l[3] = Len(fn.code[l[2]]) + 1 /\ e[2][m] # Unset) =>
          e[2][m] \in PointsTo(m, last_def_at(defs[m], l[1], l[2]))

\* No block reaches itself.
LoopFree == \A b \in DOMAIN fn.proc : b \notin ReachFrom(fn, fn.succ[b], {})

\* The sparse analysis, which revisits only what a change can reach and merges
\* only on dominance frontiers and behind calls, has missed nothing when its
\* worklist is empty, provided that the definitions are in order and that the
\* ends of calls are found or, flow-insensitively, that there are no loops: the
\* one set of a pointer may have been changed first by a block that does not
\* reach its readers (Main_DFA_Algo.cpp:233-294, 342-357, 603-634).
SoundWhereOrdered ==
  (/\ Converged
   /\ IF flowSensitive THEN NeverPreceded /\ CallEndsFound ELSE LoopFree)
  => Sound

\* "At any Location, we can find the reaching def and get the correct flow
\* value" (report/report.tex:120).
FlowValueFound == (Converged /\ flowSensitive) => Sound

\* Flow-sensitive, without stores through pointers and recursive calls, it has
\* found nothing that no execution produces: a strong update forgets the values
\* before (Main_DFA_Algo.cpp:603-609).
ExactWhereOrdered ==
  (/\ Converged /\ NeverPreceded /\ flowSensitive /\ CallEndsFound
   /\ \A b \in DOMAIN fn.proc : \A i \in DOMAIN fn.code[b] : fn.code[b][i].kind # "through"
   /\ \A c \in CallSites(fn) : ~is_current_call_recursive(AncestorSets(fn), Callee(fn, c), fn.proc[c[1]]))
  => LET ends == {e \in Executions(fn) : e[1][3] = Len(fn.code[e[1][2]]) + 1}
     IN  \A cb \in DOMAIN phis, m \in MemBlock : cb[2] # Null =>
           \A v \in PointsTo(m, last_def_at(defs[m], cb[1], cb[2])) :
             \E e \in ends : <<e[1][1], e[1][2]>> = cb /\ e[2][m] = v

\* The worklist runs empty, although a strong update may take values away and
\* a definition out of order hides what others add.
WorklistRunsEmpty == <>Converged
=============================================================================
