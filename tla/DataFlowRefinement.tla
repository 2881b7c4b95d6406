------------------------- MODULE DataFlowRefinement -------------------------
(***************************************************************************)
(* The worklist solver implements AnalysisAnswers.  The answer for a       *)
(* function appears when run returns; until then its blocks have none.     *)
(***************************************************************************)
EXTENDS DataFlow

busy == IF pc = "idle" THEN None ELSE fn

answers == [b \in Block |-> IF pc # "idle" /\ b \in fn.blocks
                              THEN Empty ELSE startStates[b]]

Answers == INSTANCE AnalysisAnswers WITH base <- initial

\* The safety part: the steps of the solver are steps of AnalysisAnswers or
\* leave what a client sees alone.
StepsAreAnswers == Answers!Init /\ [][Answers!Next]_(Answers!vars)

\* Behind the worklist, the seen set and the two maps a client sees one step
\* per function that delivers the greatest solution, the same for every order
\* of visits, and sees it for every function (DataFlow.h:65-154).
ImplementsAnswers == Answers!Spec
=============================================================================
