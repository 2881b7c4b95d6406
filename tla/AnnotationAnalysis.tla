------------------------- MODULE AnnotationAnalysis -------------------------
(***************************************************************************)
(* The client AnnotationAnalysis of src/reference/ClientDriven/            *)
(* AnnotationPass: at every library call the pointer analysis visits, it   *)
(* applies the rules of the procedure called to the values of the memory   *)
(* blocks, and then evaluates the reports.  There is one value per block   *)
(* for the whole program.                                                  *)
(*                                                                         *)
(* A program has blocks of calls; the arguments of a call are the sets of  *)
(* memory blocks its pointers may point to.  Of the pointer analysis       *)
(* (Main_DFA_Algo.cpp) there is the worklist of main; which blocks have    *)
(* changes of points-to sets is left open, the sets are the final ones.    *)
(***************************************************************************)
EXTENDS EnumProperty, Sequences, SequencesExt, Functions

CONSTANTS
  MemBlock,
  Block,
  Null,
  Programs,      \* records: order, the blocks in reverse post-order, the first
                 \* of them the entry; succ; code, the calls of each block, as
                 \* records proc, args; property; procedures, by name records
                 \* params, entry (from target to source), rules (condition and
                 \* effects, each a pair) and reports (error, condition, text)
  MaxRevisits    \* how often changes may make the solver go back

NoCondition == <<>>

IsSequence(s) == s \in Seq(ToSet(s))

ASSUME BlocksAssumption == Null \notin Block /\ IsFiniteSet(MemBlock)

\* The blocks after b.
Reachable(f, b) ==
  LET R[n \in 0..Len(f.order)] ==
        IF n = 0 THEN f.succ[b] ELSE UNION {{d} \cup f.succ[d] : d \in R[n - 1]}
  IN  R[Len(f.order)]

\* In a reverse post-order an edge that does not lead forward closes a cycle
\* (model/ProcedureDB.cpp:184-199).  A call has the arguments that its
\* annotation names, one at least if there is a rule for them.
ASSUME ProgramsAssumption == \A f \in Programs :
  /\ f.order \in Seq(Block) /\ f.order # <<>>
  /\ f.succ \in [ToSet(f.order) -> SUBSET ToSet(f.order)]
  /\ \A i, j \in DOMAIN f.order :
       (i <= j /\ f.order[i] \in f.succ[f.order[j]]) => f.order[j] \in Reachable(f, f.order[j])
  /\ IsTree(f.property) /\ f.property.default \in Names(f.property)
  /\ \A p \in DOMAIN f.procedures :
       LET annotated == f.procedures[p]
       IN  /\ IsSequence(annotated.params) /\ IsSequence(annotated.rules)
           /\ IsSequence(annotated.reports)
           /\ \A r \in ToSet(annotated.reports) : r.error \in BOOLEAN
           /\ \A i \in DOMAIN annotated.rules : IsSequence(annotated.rules[i].effects)
  /\ \A b \in ToSet(f.order) :
       /\ IsSequence(f.code[b])
       /\ \A i \in DOMAIN f.code[b] :
            LET call == f.code[b][i]
            IN  /\ call.args \in Seq(SUBSET MemBlock)
                /\ call.proc \in DOMAIN f.procedures =>
                     LET annotated == f.procedures[call.proc]
                     IN  /\ Len(annotated.params) = Len(call.args)
                         /\ annotated.rules # <<>> => call.args # <<>>

VARIABLES
  fn,          \* the program
  addresses,   \* the memory blocks as a std::set of pointers orders them
  worklist, bb, next,    \* of the solver, as in SparsePointers
  revisits,    \* how often it went back
  propMap,     \* from the blocks with a value to their values
  errors, warnings,
  done

solver == <<fn, addresses, worklist, bb, next, revisits>>
client == <<propMap, errors, warnings>>
vars   == <<solver, client, done>>

prop == fn.property

-----------------------------------------------------------------------------
(* The rules and conditions of a call.                                     *)

\* as lhsBlocks, but every name stands for the first argument
FirstBlocks(call, name) == call.args[1]

\* The blocks a name of an annotation stands for: those the parameter points
\* to that has name as its target on entry.  operator[] of the two maps makes
\* every other name stand for the first argument.
lhsBlocks(call, name) ==
  LET annotated == fn.procedures[call.proc]
      position  == {i \in DOMAIN annotated.params :
                      /\ name \in DOMAIN annotated.entry
                      /\ annotated.params[i] = annotated.entry[name]}
  IN  call.args[IF position = {} THEN 1 ELSE Max(position)]

ValueIn(map, m) == IF m \in DOMAIN map THEN map[m] ELSE prop.default

\* The values of the blocks S, the default if there are none.
possibleProps(map, S) ==
  IF S = {} THEN {prop.default} ELSE {ValueIn(map, m) : m \in S}

evalCondition(map, call, condition) ==
  LET lhs == condition[1]
      op  == condition[2]
      rhs == condition[3]
      possible == possibleProps(map, lhsBlocks(call, lhs))
  IN  /\ rhs \in Names(prop)
      /\ CASE op = "is-exactly" -> \A v \in possible : v = rhs
           [] op = "is-atleast" -> \A v \in possible : at_least(prop, v, rhs)
           [] op = "could-be"   -> \E v \in possible : meet(prop, v, rhs) = v
           [] op = "is-atmost"  -> \A v \in possible : at_most(prop, v, rhs)

Holds(map, call, condition) ==
  condition = NoCondition \/ evalCondition(map, call, condition)

\* The effects of the rules that apply, chosen before any of them takes place.
readAnalysisRules(map, call) ==
  FlattenSeq([i \in DOMAIN fn.procedures[call.proc].rules |->
    LET rule == fn.procedures[call.proc].rules[i]
    IN  IF Holds(map, call, rule.condition) THEN rule.effects ELSE <<>>])

\* map with every block of S lowered to v, or given fresh if it has no value.
Assigned(map, S, v, fresh) ==
  [m \in DOMAIN map \cup S |->
     CASE m \notin S -> map[m]
       [] m \in S \cap DOMAIN map -> meet(prop, map[m], v)
       [] OTHER -> fresh]

\* as AssignValue, but the value replaces the one before
AssignAnew(map, S, v) ==
  [m \in DOMAIN map \cup S |-> IF m \in S THEN v ELSE map[m]]

AssignValue(map, S, v) == Assigned(map, S, v, meet(prop, v, prop.default))

\* The member of S that s has first.
FirstIn(s, S) == s[Min({i \in DOMAIN s : s[i] \in S})]

\* as CopiedValue, but the loop over the other blocks is missing
CopiedFirst(map, S) == ValueIn(map, FirstIn(addresses, S))

\* as CopiedValue, but starting from the bottom
CopiedFromBottom(map, S) ==
  merge_enumvalue_set(prop, {Bottom} \cup {map[m] : m \in S \cap DOMAIN map})

\* The value of the blocks S in the order of their addresses: of the first,
\* and of the others that have one.
CopiedValue(map, S) ==
  LET first == FirstIn(addresses, S)
  IN  merge_enumvalue_set(prop,
        {ValueIn(map, first)} \cup {map[m] : m \in S \cap DOMAIN map})

\* One effect of a "may" property: a value or the blocks of another name.
Effect(map, call, effect) ==
  LET lhs == effect[1]
      rhs == effect[2]
      S   == lhsBlocks(call, lhs)
      R   == lhsBlocks(call, rhs)
  IN  CASE rhs \in Names(prop) -> AssignValue(map, S, rhs)
        [] rhs \notin Names(prop) /\ R = {} -> map
        [] OTHER -> LET v == CopiedValue(map, R) IN Assigned(map, S, v, v)

\* The effects of the rules that apply, one after the other.
RulesApplied(map, call) ==
  LET effects == readAnalysisRules(map, call)
      after[n \in 0..Len(effects)] ==
        IF n = 0 THEN map ELSE Effect(after[n - 1], call, effects[n])
  IN  after[Len(effects)]

\* The texts of the reports of one kind whose conditions hold.
handleReports(map, call, error) ==
  FlattenSeq([i \in DOMAIN fn.procedures[call.proc].reports |->
    LET r == fn.procedures[call.proc].reports[i]
    IN  IF r.error = error /\ Holds(map, call, r.condition) THEN <<r.text>> ELSE <<>>])

-----------------------------------------------------------------------------
Init ==
  /\ fn \in Programs
  /\ addresses \in SetToSeqs(MemBlock)
  /\ worklist = ToSet(fn.order)
  /\ bb = Null
  /\ next = 0
  /\ revisits = 0
  /\ propMap = <<>>
  /\ errors = <<>>
  /\ warnings = <<>>
  /\ done = FALSE

shift_worklist ==
  /\ bb = Null
  /\ worklist # {}
  /\ bb' = FirstIn(fn.order, worklist)
  /\ worklist' = worklist \ {bb'}
  /\ next' = 1
  /\ UNCHANGED <<fn, addresses, revisits, client, done>>

AtCall == bb # Null /\ next <= Len(fn.code[bb])

Call == fn.code[bb][next]

\* A call of an annotated procedure: first the rules, then the reports, which
\* see what the rules have done.
at_lib_call ==
  /\ AtCall
  /\ Call.proc \in DOMAIN fn.procedures
  /\ propMap' = RulesApplied(propMap, Call)
  /\ errors' = errors \o handleReports(propMap', Call, TRUE)
  /\ warnings' = warnings \o handleReports(propMap', Call, FALSE)
  /\ next' = next + 1
  /\ UNCHANGED <<fn, addresses, worklist, bb, revisits, done>>

\* The procedure called has no annotation.
lookupProcedure ==
  /\ AtCall
  /\ Call.proc \notin DOMAIN fn.procedures
  /\ next' = next + 1
  /\ UNCHANGED <<fn, addresses, worklist, bb, revisits, client, done>>

\* The end of a block: if points-to sets changed in it the blocks after it are
\* queued again.  No change of propMap has that effect.
endBlock ==
  /\ bb # Null
  /\ next > Len(fn.code[bb])
  /\ bb' = Null
  /\ next' = 0
  /\ \/ UNCHANGED <<worklist, revisits>>
     \/ /\ revisits < MaxRevisits
        /\ ~(Reachable(fn, bb) \subseteq worklist)
        /\ worklist' = worklist \cup Reachable(fn, bb)
        /\ revisits' = revisits + 1
  /\ UNCHANGED <<fn, addresses, client, done>>

analysis_done ==
  /\ bb = Null
  /\ worklist = {}
  /\ ~done
  /\ done' = TRUE
  /\ UNCHANGED <<solver, client>>

Next == shift_worklist \/ at_lib_call \/ lookupProcedure \/ endBlock \/ analysis_done

Spec == Init /\ [][Next]_vars

-----------------------------------------------------------------------------
(* What the annotations mean for an execution, in which a pointer points   *)
(* to one block and a call replaces the values of blocks.                  *)

\* The blocks of the argument that points to name.
Denoted(call, name) ==
  LET annotated == fn.procedures[call.proc]
  IN  UNION {call.args[i] : i \in {j \in DOMAIN annotated.params :
                              annotated.params[j] = annotated.entry[name]}}

Effects(call) ==
  IF call.proc \notin DOMAIN fn.procedures THEN {}
  ELSE UNION {ToSet(fn.procedures[call.proc].rules[i].effects) :
                i \in DOMAIN fn.procedures[call.proc].rules}

\* The values that an effect may give.
Given(call, effect, values) ==
  IF effect[2] \in Names(prop) THEN {effect[2]}
                               ELSE {values[r] : r \in Denoted(call, effect[2])}

\* The values after a call of which there is one effect at most.
Executed(values, call) ==
  IF Effects(call) = {} THEN {values}
  ELSE UNION {
    {[values EXCEPT ![m] = v] : m \in Denoted(call, e[1]), v \in Given(call, e, values)} :
       e \in Effects(call)}

\* The positions before a call or at the end of a block.
Places == UNION {{b} \X (1..Len(fn.code[b]) + 1) : b \in ToSet(fn.order)}

\* Where an execution goes from a place with the values there.
Following(e) ==
  LET b == e[1][1]
      i == e[1][2]
  IN  IF i <= Len(fn.code[b])
        THEN {<<<<b, i + 1>>, v>> : v \in Executed(e[2], fn.code[b][i])}
        ELSE {<<<<d, 1>>, e[2]>> : d \in fn.succ[b]}

\* The places with the values that some execution has there.
Executions ==
  LET Closure[S \in SUBSET (Places \X [MemBlock -> Names(prop)])] ==
        LET T == S \cup UNION {Following(e) : e \in S}
        IN  IF T = S THEN S ELSE Closure[T]
  IN  Closure[{<<<<fn.order[1], 1>>, [m \in MemBlock |-> prop.default]>>}]

Calls == UNION {ToSet(fn.code[b]) : b \in ToSet(fn.order)}

\* A name that the annotation of a call gives to the target of a parameter.
Declared(call, name) ==
  LET annotated == fn.procedures[call.proc]
  IN  /\ name \in DOMAIN annotated.entry
      /\ annotated.entry[name] \in ToSet(annotated.params)

\* Every name in an effect is the target of a parameter on entry.
NamesDeclared ==
  \A c \in Calls : \A e \in Effects(c) : \A name \in {e[1]} \cup ({e[2]} \ Names(prop)) :
    Declared(c, name)

\* So is every name in the condition of a report, and no two parameters have the
\* same name.
ReportsDeclared ==
  \A c \in Calls : c.proc \in DOMAIN fn.procedures =>
    /\ IsInjective(fn.procedures[c.proc].params)
    /\ \A r \in ToSet(fn.procedures[c.proc].reports) :
         r.condition # NoCondition => Declared(c, r.condition[1])

\* One value for each block for the whole program, below the default, which no
\* effect can lower: whatever the order of the calls, and if every rule applies.
FlowInsensitive(values) ==
  /\ \A m \in MemBlock : Below(prop, values[m], prop.default)
  /\ \A c \in Calls : \A e \in Effects(c) : \A m \in Denoted(c, e[1]) :
       IF e[2] \in Names(prop) THEN Below(prop, values[m], e[2])
       ELSE \A r \in Denoted(c, e[2]) : Below(prop, values[m], values[r])

-----------------------------------------------------------------------------
(* Properties.                                                             *)

Unconditional == \A c \in Calls : c.proc \in DOMAIN fn.procedures =>
  \A i \in DOMAIN fn.procedures[c.proc].rules :
    fn.procedures[c.proc].rules[i].condition = NoCondition

Acyclic == \A b \in ToSet(fn.order) : b \notin Reachable(fn, b)

\* The value that some execution gives a block, other than the default, is one
\* the analysis says the block could have.
ValuesFound ==
  \A e \in Executions, m \in MemBlock :
    e[2][m] # prop.default => Below(prop, ValueIn(propMap, m), e[2][m])

\* What an execution would report of values other than the default, at the call
\* where it is, is reported.
Reported(e) ==
  LET b == e[1][1]
      i == e[1][2]
      call == fn.code[b][i]
  IN  (i <= Len(fn.code[b]) /\ call.proc \in DOMAIN fn.procedures) =>
        \A r \in ToSet(fn.procedures[call.proc].reports) :
          (/\ r.condition # NoCondition /\ r.condition[2] = "could-be"
           /\ \E m \in Denoted(call, r.condition[1]) :
                e[2][m] = r.condition[3] /\ e[2][m] # prop.default)
          => r.text \in ToSet(IF r.error THEN errors ELSE warnings)

ReportsFound == \A e \in Executions : Reported(e)

\* The meet of two values, down through heights and more_general pointers, is
\* the greatest value below both in every tree declared
\* (bdwy/enum_property.cc:139-232).
MeetIsGreatest == done => MeetIsGreatestBelow(prop)

\* Although blocks are visited as their pointers demand, never because of a
\* value, and whatever the order of addresses, the analysis of a program
\* without loops misses no value that annotations without conditions assign,
\* and none of its reports (AnnotationAnalysis.cpp:59-133,
\* Main_DFA_Algo.cpp:275-291).
FoundWithoutLoops ==
  (done /\ Acyclic /\ Unconditional /\ NamesDeclared /\ ReportsDeclared) =>
    ValuesFound /\ ReportsFound

\* The analysis lowers a value no further than the calls give reason to, taken
\* in any order and without their conditions (AnnotationAnalysis.cpp:73-133).
NothingInvented ==
  (done /\ NamesDeclared) =>
    \A values \in [MemBlock -> Names(prop)] : FlowInsensitive(values) =>
      \A m \in DOMAIN propMap : Below(prop, values[m], propMap[m])

\* A block that has a value never gets a more precise one or another: what was
\* reported of what it could be stays true (AnnotationAnalysis.cpp:80-131).
ValuesOnlyFall ==
  [][\A m \in DOMAIN propMap :
       m \in DOMAIN propMap' /\ Below(prop, propMap'[m], propMap[m])]_vars
=============================================================================
