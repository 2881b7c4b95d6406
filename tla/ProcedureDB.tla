---------------------------- MODULE ProcedureDB ----------------------------
(***************************************************************************)
(* What src/reference/ClientDriven/model/ProcedureDB.cpp knows of the      *)
(* calls of a program before the analysis starts.                          *)
(*                                                                         *)
(* A program f is a record of which this module uses: entry, the first     *)
(* block of every procedure; proc, the procedure of every block; code, the *)
(* statements of a block; owner, the procedure a variable is local to, or  *)
(* Null for a global.                                                      *)
(***************************************************************************)
EXTENDS Naturals, FiniteSets

CONSTANT Null

Procedures(f) == DOMAIN f.entry

BlocksOf(f, p) == {b \in DOMAIN f.proc : f.proc[b] = p}

\* A call statement is named by its block and its position there.
CallSites(f) ==
  UNION {{<<b, i>> : i \in {j \in DOMAIN f.code[b] : f.code[b][j].kind = "call"}} :
           b \in DOMAIN f.proc}

Callee(f, c) == f.code[c[1]][c[2]].dst

Callers(f, p) == {f.proc[c[1]] : c \in {s \in CallSites(f) : Callee(f, s) = p}}

\* The transitive callers of p, among them p if it is in a cycle: whatever is
\* in every set that has the callers of p and of its own members.
Ancestors(f, p) ==
  {a \in Procedures(f) :
     \A S \in SUBSET Procedures(f) :
       (Callers(f, p) \subseteq S /\ \A s \in S : Callers(f, s) \subseteq S) => a \in S}

\* ProcedureInfo::ancestors, as initialize leaves them.
AncestorSets(f) == [p \in Procedures(f) |-> Ancestors(f, p)]

\* as is_current_call_recursive, but only for direct recursion
is_call_to_itself(ancestors, called, caller) == called = caller

is_current_call_recursive(ancestors, called, caller) ==
  called = caller \/ called \in ancestors[caller]

\* globals are in scope everywhere, locals except below their procedure
is_in_scope(f, p, m) ==
  f.owner[m] \in {Null, p} \/ f.owner[m] \notin Ancestors(f, p)
=============================================================================
