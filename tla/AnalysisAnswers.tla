-------------------------- MODULE AnalysisAnswers --------------------------
(***************************************************************************)
(* What an analyzer promises its clients, without a worklist: a function   *)
(* that is begun is finished, and then the start state of each of its      *)
(* blocks is that of the greatest solution of the function's equations;    *)
(* the answers for the functions passed before stay as they are.           *)
(***************************************************************************)
EXTENDS FlowGraph

VARIABLES
  remaining,   \* functions still to analyse
  busy,        \* the function being analysed, or None
  base,        \* the lattice the states of the next answer start from
  answers      \* the start state of each block; Empty while it is computed

vars == <<remaining, busy, base, answers>>

Init ==
  /\ remaining \in Modules
  /\ busy = None
  /\ base = Empty
  /\ answers = [b \in Block |-> Empty]

Begin(f) ==
  /\ busy = None
  /\ busy' = f
  /\ remaining' = remaining \ {f}
  /\ base' = WithValues(base, f)
  /\ answers' = [b \in Block |-> IF b \in f.blocks THEN Empty ELSE answers[b]]

Finish ==
  /\ busy # None
  /\ busy' = None
  /\ answers' = [b \in Block |-> IF b \in busy.blocks THEN Greatest(busy, base)[b]
                                                      ELSE answers[b]]
  /\ UNCHANGED <<remaining, base>>

Next == (\E f \in remaining : Begin(f)) \/ Finish

Spec == Init /\ [][Next]_vars /\ WF_vars(Next)
=============================================================================
