----------------------------- MODULE Locations -----------------------------
(***************************************************************************)
(* The tree of locations of src/reference/ClientDriven/model/Location.cpp, *)
(* with what model/ProcedureDB.cpp and LLVM know of a program beforehand:  *)
(* who calls whom, dominators, frontiers and the order of the blocks.      *)
(*                                                                         *)
(* A location is <<ctx, b, i>>: a block b, the position i in it, and the   *)
(* call statements that lead to it from main, outermost first, each a      *)
(* pair of block and position.  Position 0 is the BB_Loc, i the Stmt_Loc   *)
(* of the i-th statement, the one after the last the terminator.  A        *)
(* Proc_Loc is the context.                                                *)
(*                                                                         *)
(* A program f is a record: main; proc, the procedure of every block;      *)
(* entry, the first block of every procedure; succ; code, the statements   *)
(* of a block; owner, the procedure a variable is local to, or Null.       *)
(***************************************************************************)
EXTENDS ProcedureDB, Sequences, SequencesExt, FiniteSetsExt

\* The procedure analysed in context ctx.
ProcOf(f, ctx) == IF ctx = <<>> THEN f.main ELSE Callee(f, Last(ctx))

\* The contexts: chains of calls that are not recursive.
Contexts(f) ==
  LET calls(ctx) == {Append(ctx, c) : c \in
        {s \in CallSites(f) : /\ f.proc[s[1]] = ProcOf(f, ctx)
                              /\ ~is_current_call_recursive(AncestorSets(f), Callee(f, s), ProcOf(f, ctx))}}
      C[n \in 1..Cardinality(DOMAIN f.entry)] ==
        IF n = 1 THEN {<<>>} ELSE UNION {{c} \cup calls(c) : c \in C[n - 1]}
  IN  C[Cardinality(DOMAIN f.entry)]

-----------------------------------------------------------------------------
(* What LLVM computes for a procedure.                                     *)

\* The blocks that S leads to without entering cut.
ReachFrom(f, S, cut) ==
  LET R[n \in 0..Cardinality(DOMAIN f.proc)] ==
        IF n = 0 THEN S \ cut ELSE UNION {{b} \cup (f.succ[b] \ cut) : b \in R[n - 1]}
  IN  R[Cardinality(DOMAIN f.proc)]

BlockDominates(f, a, b) ==
  /\ f.proc[a] = f.proc[b]
  /\ a = b \/ b \notin ReachFrom(f, {f.entry[f.proc[a]]}, {a})

Frontier(f, b) ==
  {y \in DOMAIN f.proc : /\ \E p \in DOMAIN f.proc : y \in f.succ[p] /\ BlockDominates(f, b, p)
                         /\ y = b \/ ~BlockDominates(f, b, y)}

\* Orders like the reverse post-orders of a procedure: a block comes after its
\* dominators, and an edge leads forward unless it closes a cycle.
WorklistOrders(f, p) ==
  {s \in SetToSeqs(BlocksOf(f, p)) :
     \A i, j \in DOMAIN s :
        /\ i < j => ~BlockDominates(f, s[j], s[i])
        /\ (i < j /\ s[i] \in f.succ[s[j]]) =>
             s[j] \in ReachFrom(f, f.succ[s[i]], {})}

DomTree(f) ==
  {e \in (DOMAIN f.proc) \X (DOMAIN f.proc) : BlockDominates(f, e[1], e[2])}

-----------------------------------------------------------------------------
(* Locations.                                                              *)

Global == <<<<>>, Null, 0>>    \* Global_Loc

\* The end of block b in context ctx.
Terminator(f, ctx, b) == <<ctx, b, Len(f.code[b]) + 1>>

ProgramLocations(f) ==
  LET blocks == UNION {{ctx} \X BlocksOf(f, ProcOf(f, ctx)) : ctx \in Contexts(f)}
  IN  {Global} \cup UNION {{<<cb[1], cb[2], i>> : i \in 0..Len(f.code[cb[2]]) + 1} :
                             cb \in blocks}

\* The way from main to a location.
Path(l) == Append(l[1], <<l[2], l[3]>>)

\* Where two paths part, or the end of the one that leads to the other.
find_common_ancestor(P, Q) ==
  LET shorter == 1..Min({Len(P), Len(Q)})
  IN  Min({k \in shorter : P[k] # Q[k]} \cup {Len(P), Len(Q)})

\* Loc::strictly_dominates.  Once both locations are taken up to the same
\* parent, LLVM compares statements of one block by their order and blocks by
\* dominance; both relations are reflexive.
StrictlyDominates(l, m, dom_tree) ==
  /\ l # m
  /\ m # Global
  /\ \/ l = Global
     \/ LET P == Path(l)
            Q == Path(m)
            k == find_common_ancestor(P, Q)
            a == P[k]
            b == Q[k]
        IN  IF a[1] = b[1] /\ a[2] # 0 /\ b[2] # 0 THEN a[2] <= b[2]
                                                  ELSE <<a[1], b[1]>> \in dom_tree

Exits(f, p) == {b \in BlocksOf(f, p) : f.succ[b] = {}}

\* What dominance of locations stands for: whatever execution reaches m has
\* been at l before, also if l is in a call that has returned.
ComesBefore(f, l, m, dom_tree) ==
  \/ l = Global /\ m # Global
  \/ /\ l # Global /\ m # Global
     /\ LET P == Path(l)
            Q == Path(m)
            k == find_common_ancestor(P, Q)
            a == P[k]
            b == Q[k]
        IN  /\ IF a[1] = b[1] THEN a[2] < b[2] \/ (a[2] = b[2] /\ Len(P) < Len(Q))
                              ELSE <<a[1], b[1]>> \in dom_tree
            /\ \A n \in k + 1..Len(P) : \A e \in Exits(f, f.proc[P[n][1]]) :
                 <<P[n][1], e>> \in dom_tree
=============================================================================
