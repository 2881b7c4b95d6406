--------------------------- MODULE ProcedureCalls ---------------------------
(***************************************************************************)
(* Calls in the analysis of src/reference/ClientDriven/Main_DFA_Algo.cpp,  *)
(* with one ProcedureInfo for every procedure, whatever calls it has in    *)
(* progress: callsites, the inputs and outputs that are not parameters,    *)
(* and, context-insensitively, which calls are skipped and what is marked  *)
(* for another analysis.  The loop of runOnModule starts over while main   *)
(* is marked.                                                              *)
(*                                                                         *)
(* A procedure is one run of statements without branches that uses and     *)
(* defines globals and calls procedures; one without statements to analyse *)
(* is a declaration.  What the pointers point to is left out: whether the  *)
(* value of an input has grown since it was passed last is left open.      *)
(* Definitions are strong, and flow-sensitive.                             *)
(***************************************************************************)
EXTENDS ProcedureDB, Sequences, SequencesExt, FiniteSetsExt

CONSTANTS
  Programs,     \* records as in ProcedureDB, with main, and with takes, the
                \* procedures that have parameters
  Procedure,    \* all of their procedures
  MemBlock      \* all of their globals

ASSUME ProgramsAssumption == \A f \in Programs :
  /\ Procedures(f) \subseteq Procedure
  /\ f.takes \subseteq Procedures(f)
  /\ f.main \in Procedures(f) /\ f.entry[f.main] # Null
  /\ f.proc \in [DOMAIN f.proc -> Procedures(f)]
  /\ \A p \in Procedures(f) : f.entry[p] # Null =>
       /\ f.entry[p] \in DOMAIN f.proc /\ f.proc[f.entry[p]] = p
       /\ f.code[f.entry[p]] \in
            Seq([kind : {"use", "define"}, dst : MemBlock]
                  \cup [kind : {"call"}, dst : Procedures(f)])

VARIABLES
  fn,                  \* the program
  ancestors,           \* of every ProcedureInfo
  ENABLE_CI,           \* only main is analysed context-sensitively
  running,             \* the loop of runOnModule goes on
  stack,               \* the calls of analyze_proc in progress, main first
  current_callsite,    \* of every ProcedureInfo, or Null
  callsites,           \* of every ProcedureInfo
  extern_inputs,       \* of every ProcedureInfo
  extern_outputs,      \* of every ProcedureInfo
  needs_reanalysis,    \* marked procedures
  defs                 \* the definitions made: in which Proc_Loc, of what, and
                       \* after which of its statements

vars == <<fn, ancestors, ENABLE_CI, running, stack, current_callsite, callsites, extern_inputs,
          extern_outputs, needs_reanalysis, defs>>

is_context_sensitive(p) == ~ENABLE_CI \/ p = fn.main

\* A call of analyze_proc: the procedure, its Proc_Loc, the next statement,
\* what was defined, and the uses, each with how much of the Proc_Loc it
\* shares with the definition that reaches it; 0 is a global's initial value.
Frame(p, loc) == [proc |-> p, loc |-> loc, next |-> 1, defs |-> {}, uses |-> {}]

Top      == stack[Len(stack)]
Below    == SubSeq(stack, 1, Len(stack) - 1)
With(fr) == Append(Below, fr)    \* the stack with fr for its top
Code(p)  == fn.code[fn.entry[p]]
here     == <<fn.entry[Top.proc], Top.next>>
Running  == stack # <<>> /\ Top.next <= Len(Code(Top.proc))

Statement == Code(Top.proc)[Top.next]

CallHere == Running /\ Statement.kind = "call"

\* A Proc_Loc is the chain of callsites from main, and the one ci_loc of a
\* procedure when it is not context-sensitive.
make_call_to(p) ==
  IF is_context_sensitive(p) THEN Append(Top.loc, here) ELSE <<p>>

Init ==
  /\ fn \in Programs
  /\ ancestors = AncestorSets(fn)
  /\ ENABLE_CI \in BOOLEAN
  /\ running = TRUE
  /\ stack = <<>>
  /\ current_callsite = [p \in Procedures(fn) |-> Null]
  /\ callsites = [p \in Procedures(fn) |-> {}]
  /\ extern_inputs = [p \in Procedures(fn) |-> {}]
  /\ extern_outputs = [p \in Procedures(fn) |-> {}]
  /\ needs_reanalysis = {}
  /\ defs = {}

\* One turn of the loop in runOnModule.
analyze_root ==
  /\ running
  /\ stack = <<>>
  /\ stack' = <<Frame(fn.main, <<fn.main>>)>>
  /\ UNCHANGED <<fn, ancestors, ENABLE_CI, running, current_callsite, callsites,
                 extern_inputs, extern_outputs, needs_reanalysis, defs>>

-----------------------------------------------------------------------------
(* Statements.                                                             *)

\* How much of the Proc_Loc in hand is shared by a definition of m that
\* reaches the next statement: the nearest one shares most.
Nearest(m) ==
  LET reaching == {d \in defs : d.mb = m /\ (d.loc = Top.loc => d.at < Top.next)}
  IN  Max({0} \cup {k \in 1..Len(Top.loc) :
                      \E d \in reaching : IsPrefix(SubSeq(Top.loc, 1, k), d.loc)})

handle_use ==
  /\ Running
  /\ Statement.kind = "use"
  /\ stack' = With([Top EXCEPT !.next = @ + 1,
                       !.uses = @ \cup {<<Statement.dst, Nearest(Statement.dst)>>}])
  /\ UNCHANGED <<fn, ancestors, ENABLE_CI, running, current_callsite, callsites,
                 extern_inputs, extern_outputs, needs_reanalysis, defs>>

handle_assign ==
  /\ Running
  /\ Statement.kind = "define"
  /\ defs' = defs \cup {[loc |-> Top.loc, mb |-> Statement.dst, at |-> Top.next]}
  /\ stack' = With([Top EXCEPT !.next = @ + 1, !.defs = @ \cup {Statement.dst}])
  /\ UNCHANGED <<fn, ancestors, ENABLE_CI, running, current_callsite, callsites,
                 extern_inputs, extern_outputs, needs_reanalysis>>

\* A call that may be recursive is passed over.
skip_recursive ==
  /\ CallHere
  /\ is_current_call_recursive(ancestors, Statement.dst, Top.proc)
  /\ stack' = With([Top EXCEPT !.next = @ + 1])
  /\ UNCHANGED <<fn, ancestors, ENABLE_CI, running, current_callsite, callsites,
                 extern_inputs, extern_outputs, needs_reanalysis, defs>>

-----------------------------------------------------------------------------
(* Calls.                                                                  *)

\* as setup_call, but a callsite is kept
setup_call_once(p, c) ==
  [current_callsite EXCEPT ![p] = IF callsites[p] = {} THEN c ELSE @]

setup_call(p, c) == [current_callsite EXCEPT ![p] = c]

\* The inputs of p, made uses at the call and merged at the start of p.
ExternalInputs(p) == IF is_context_sensitive(p) THEN {} ELSE extern_inputs[p]

Merge(p, m) == [loc |-> <<p>>, mb |-> m, at |-> 0]

\* A new definition is a change, and so may be one whose pointers have grown.
\* Context-insensitively the formals belong to the one ci_loc and are defined at
\* its NULL parent: they are new at the first call of all, whatever callsite it
\* has.  Context-sensitively the answer is not used.
changed_inputs(p) ==
  {changed \in BOOLEAN :
     \/ changed /\ (p \in fn.takes \/ ExternalInputs(p) # {})
     \/ /\ ~changed
        /\ p \in fn.takes => callsites[p] # {}
        /\ \A m \in ExternalInputs(p) : Merge(p, m) \in defs}

\* as skip_analysis, but context-sensitive procedures are skipped too
skip_analysis_always(p, changed) == p \notin needs_reanalysis /\ ~changed

skip_analysis(p, changed) ==
  ~is_context_sensitive(p) /\ p \notin needs_reanalysis /\ ~changed

\* The caller in hand when p was called.
Caller(p) ==
  [Top EXCEPT !.uses = @ \cup {<<m, Nearest(m)>> : m \in ExternalInputs(p)}]

\* What every call that is not recursive does first: the callsite is noted,
\* and parameters and inputs are passed.
passed(p) ==
  /\ CallHere
  /\ Statement.dst = p
  /\ ~is_current_call_recursive(ancestors, p, Top.proc)
  /\ callsites' = [callsites EXCEPT ![p] = @ \cup {here}]
  /\ defs' = defs \cup {Merge(p, m) : m \in ExternalInputs(p)}
  /\ UNCHANGED <<fn, ancestors, ENABLE_CI, running, extern_inputs, extern_outputs,
                 needs_reanalysis>>

\* Nothing has changed for p since it was analysed, or it takes nothing.
call_unchanged(p) ==
  /\ passed(p)
  /\ \E changed \in changed_inputs(p) : skip_analysis(p, changed)
  /\ current_callsite' = [current_callsite EXCEPT ![p] = Null]
  /\ stack' = With([Caller(p) EXCEPT !.next = @ + 1])

\* A call of a declaration is left to the client, and its callsite is kept.
call_library(p) ==
  /\ passed(p)
  /\ \E changed \in changed_inputs(p) : ~skip_analysis(p, changed)
  /\ fn.entry[p] = Null
  /\ current_callsite' = setup_call(p, here)
  /\ stack' = With([Caller(p) EXCEPT !.next = @ + 1])

analyze_proc(p) ==
  /\ passed(p)
  /\ \E changed \in changed_inputs(p) : ~skip_analysis(p, changed)
  /\ fn.entry[p] # Null
  /\ current_callsite' = setup_call(p, here)
  /\ stack' = Append(With(Caller(p)), Frame(p, make_call_to(p)))

-----------------------------------------------------------------------------
(* The end of a procedure.                                                 *)

\* as mark_for_reanalysis, but only the callers are added
mark_callers(p) == {p} \cup Callers(fn, p)

mark_for_reanalysis(p) == {p} \cup ancestors[p]

current_caller(p) ==
  IF current_callsite[p] = Null THEN Null ELSE fn.proc[current_callsite[p][1]]

\* The uses that a definition outside the procedure reaches, or none does.
ExternalUses == {u \in Top.uses : u[2] < Len(Top.loc)}

\* as PassedUp, but a use that is no new input is kept
PassedUpOnce(p) ==
  IF current_caller(p) = Null THEN {} ELSE {u \in ExternalUses : u[1] \in extern_inputs[p]}

\* The uses that the caller gets.
PassedUp(p) == IF current_caller(p) = Null THEN {} ELSE ExternalUses

return_from_call(p) == [current_callsite EXCEPT ![p] = Null]

\* record_extern_io: new inputs of a context-sensitive procedure mark it.
record_extern_io(p) ==
  LET inputs == {u[1] : u \in ExternalUses}
  IN  /\ Running = FALSE
      /\ stack # <<>>
      /\ Top.proc = p
      /\ extern_inputs' = [extern_inputs EXCEPT ![p] = @ \cup inputs]
      /\ extern_outputs' = [extern_outputs EXCEPT ![p] = @ \cup Top.defs]

FoundNewInputs(p) == extern_inputs'[p] # extern_inputs[p] /\ is_context_sensitive(p)

Marked(cond, p) == IF cond THEN mark_for_reanalysis(p) ELSE {}

\* main is analysed; the loop ends unless main is marked.
end_root ==
  /\ Len(stack) = 1
  /\ record_extern_io(fn.main)
  /\ needs_reanalysis' = needs_reanalysis \cup Marked(FoundNewInputs(fn.main), fn.main)
  /\ running' = (ENABLE_CI /\ fn.main \in needs_reanalysis')
  /\ stack' = <<>>
  /\ UNCHANGED <<fn, ancestors, ENABLE_CI, current_callsite, callsites, defs>>

\* p is analysed.  Context-insensitively, its outputs are merged where the
\* block of the callsite begins, after the last call before; a callsite of
\* another place has no definition to compare with, and p is marked.
return(p) ==
  LET c        == Len(stack) - 1
      caller   == stack[c]
      outputs  == IF is_context_sensitive(p) THEN {} ELSE extern_outputs'[p]
      calls    == {i \in 1..caller.next - 1 : Code(caller.proc)[i].kind = "call"}
      elsewhere == callsites[p] \ {current_callsite[p]}
      visible  == IF current_caller(p) = Null THEN {} ELSE Top.defs
      returned == [caller EXCEPT !.next = @ + 1, !.uses = @ \cup PassedUp(p),
                                 !.defs = @ \cup (visible \cup outputs)]
  IN  /\ Len(stack) > 1
      /\ record_extern_io(p)
      /\ needs_reanalysis' = needs_reanalysis \cup Marked(FoundNewInputs(p), p)
           \cup Marked(outputs # {} /\ elsewhere # {}, p)
      /\ defs' = defs \cup {[loc |-> caller.loc, mb |-> m, at |-> Max({0} \cup calls)] :
                              m \in outputs}
      /\ stack' = [Below EXCEPT ![c] = returned]
      /\ current_callsite' = return_from_call(p)
      /\ UNCHANGED <<fn, ancestors, ENABLE_CI, running, callsites>>

Next ==
  \/ analyze_root \/ handle_use \/ handle_assign \/ skip_recursive \/ end_root
  \/ \E p \in Procedure :
       call_unchanged(p) \/ call_library(p) \/ analyze_proc(p) \/ return(p)

\* A sequential program.
Spec == Init /\ [][Next]_vars /\ WF_vars(Next)

-----------------------------------------------------------------------------
(* Properties.                                                             *)

Bodies == {p \in Procedures(fn) : fn.entry[p] # Null}
Sites  == {<<fn.entry[p], i>> : p \in Bodies, i \in Nat}
Frames == [proc : Bodies, loc : Seq(Procedures(fn) \cup Sites), next : Nat \ {0},
           defs : SUBSET MemBlock, uses : SUBSET (MemBlock \X Nat)]

\* The procedures in progress have a body, and every current_callsite is NULL
\* or a statement of one that has (ProcedureDB.h:45-60).
TypeOK ==
  /\ fn \in Programs
  /\ ancestors = AncestorSets(fn)
  /\ stack \in Seq(Frames)
  /\ current_callsite \in [Procedures(fn) -> Sites \cup {Null}]
  /\ extern_inputs \in [Procedures(fn) -> SUBSET MemBlock]
  /\ extern_outputs \in [Procedures(fn) -> SUBSET MemBlock]

\* No procedure is analysed inside its own analysis: its one worklist, and its
\* one current_callsite, are never those of an outer call too
\* (Main_DFA_Algo.cpp:228-230, ProcedureDB.cpp:87-91,144-154).
NeverReentered ==
  \A i, j \in 1..Len(stack) : stack[i].proc = stack[j].proc => i = j

\* Whatever calls come and go, a procedure in progress finds the callsite it
\* was called from, through which uses and definitions are passed up and
\* climbing continues (ProcedureDB.cpp:87,106,281-283).
CallersFound ==
  \A i \in 2..Len(stack) :
    current_callsite[stack[i].proc] = <<fn.entry[stack[i - 1].proc], stack[i - 1].next>>

\* Procedures that main leads to by calls that are not recursive.
Leads(f) ==
  LET calls(p) == {Callee(f, c) : c \in {s \in CallSites(f) :
                     f.proc[s[1]] = p /\ ~is_current_call_recursive(AncestorSets(f), Callee(f, s), p)}}
  IN  {p \in Procedures(f) : \A S \in SUBSET Procedures(f) :
         (f.main \in S /\ \A s \in S : calls(s) \subseteq S) => p \in S}

Analysing(p) == stack # <<>> /\ Top.proc = p

\* Context-sensitively, every procedure that calls lead to is analysed, also
\* one that takes nothing (Main_DFA_Algo.cpp:1056).
CalledAnalysed ==
  \A p \in Procedure :
    (running /\ stack = <<>> /\ ~ENABLE_CI /\ fn.entry[p] # Null /\ p \in Leads(fn))
      ~> Analysing(p)

\* Marking the ancestors "to ensure we reach it again" (ProcedureDB.cpp:113)
\* does: in the next turn a marked procedure is analysed.
MarkedReached ==
  \A p \in Procedure :
    (stack = <<>> /\ p \in needs_reanalysis /\ ENABLE_CI /\ p \in Leads(fn)) ~> Analysing(p)

\* An input that is discovered only when a procedure is analysed, after its
\* inputs were passed, is passed in a later turn (Main_DFA_Algo.cpp:1175,1300,1341).
InputsPassed ==
  \A p \in Procedure : \A m \in MemBlock :
    (ENABLE_CI /\ p # fn.main /\ p \in Procedures(fn) /\ m \in extern_inputs[p])
      ~> (Merge(p, m) \in defs)

\* "apparently this is done until reanalysis is not required"
\* (Main_DFA_Algo.cpp:129).
AnalysisEnds == <>~running
=============================================================================
