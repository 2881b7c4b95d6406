------------------------ MODULE ProcedureCallsProofs ------------------------
(***************************************************************************)
(* For every program, whoever calls whom: the test for recursion keeps     *)
(* every procedure from being analysed inside its own analysis, and so its *)
(* one current_callsite is always that of the call in progress.            *)
(***************************************************************************)
EXTENDS ProcedureCalls, SequenceTheorems, WellFoundedInduction, TLAPS

\* A finite set of numbers has a maximum.
LEMMA MaxIsNat ==
  ASSUME NEW n \in Nat, NEW S \in SUBSET (0..n), S # {}
  PROVE  Max(S) \in Nat
<1> DEFINE T == {n - k : k \in S}
<1>1. S \subseteq 0..n /\ T \subseteq Nat /\ T # {}
  <2>1. \A k \in S : k \in 0..n /\ n - k \in Nat
    OBVIOUS
  <2> QED
    BY <2>1
<1>2. PICK t \in T : \A j \in T : ~(<<j, t>> \in OpToRel(<, Nat))
  <2> HIDE DEF T
  <2> QED
    BY <1>1, NatLessThanWellFounded, WFMin
<1>3. PICK k \in S : t = n - k
  OBVIOUS
<1>4. ASSUME NEW y \in S PROVE k >= y
  <2>1. n - y \in T /\ n - y \in Nat /\ t \in Nat
    BY <1>1
  <2>2. ~(n - y < t)
    BY <1>2, <2>1 DEF OpToRel
  <2> QED
    BY <1>3, <2>1, <2>2
<1>5. Max(S) \in S
  BY <1>4 DEF Max
<1>6. \A m \in S : m \in Nat
  <2> HIDE DEF T
  <2> QED
    BY <1>1
<1> QED
  BY <1>5, <1>6

\* The stack with another frame for its top, and with one frame less.
LEMMA Replaced ==
  ASSUME TypeOK, stack # <<>>, NEW fr \in Frames
  PROVE  /\ Len(stack) \in Nat \ {0} /\ Top \in Frames
         /\ Below \in Seq(Frames) /\ Len(Below) = Len(stack) - 1
         /\ \A i \in 1..Len(stack) - 1 : Below[i] = stack[i]
         /\ With(fr) \in Seq(Frames) /\ Len(With(fr)) = Len(stack)
         /\ \A i \in 1..Len(stack) - 1 : With(fr)[i] = stack[i]
         /\ With(fr)[Len(stack)] = fr
<1>1. stack \in Seq(Frames)
  BY DEF TypeOK, Frames, Bodies, Sites
<1>2. Len(stack) \in Nat \ {0}
  BY <1>1, EmptySeq
<1>3. \A i \in 1..Len(stack) : stack[i] \in Frames
  BY <1>1, ElementOfSeq
<1>4. /\ Below \in Seq(Frames) /\ Len(Below) = Len(stack) - 1
      /\ \A i \in 1..Len(stack) - 1 : Below[i] = stack[i]
  <2>1. \A i \in 1..Len(stack) - 1 : stack[i] \in Frames
    BY <1>2, <1>3
  <2> HIDE DEF Frames
  <2>2. /\ Below \in Seq(Frames)
        /\ Len(Below) = IF 1 <= Len(stack) - 1 THEN Len(stack) - 1 - 1 + 1 ELSE 0
        /\ \A i \in 1..(Len(stack) - 1) - 1 + 1 : Below[i] = stack[1 + i - 1]
    BY <1>2, <2>1, SubSeqProperties DEF Below
  <2>3. (Len(stack) - 1) - 1 + 1 = Len(stack) - 1
    BY <1>2
  <2>4. \A i \in 1..Len(stack) - 1 : 1 + i - 1 = i
    BY <1>2
  <2>5. Len(Below) = Len(stack) - 1
    <3>1. \A n \in Nat \ {0} : (IF 1 <= n - 1 THEN n - 1 - 1 + 1 ELSE 0) = n - 1
      OBVIOUS
    <3> QED
      BY <1>2, <2>2, <3>1
  <2> QED
    BY <2>2, <2>3, <2>4, <2>5
<1>5. /\ With(fr) \in Seq(Frames) /\ Len(With(fr)) = Len(Below) + 1
      /\ \A i \in 1..Len(Below) : With(fr)[i] = Below[i]
      /\ With(fr)[Len(Below) + 1] = fr
  BY <1>4, AppendProperties DEF With
<1> QED
  BY <1>2, <1>3, <1>4, <1>5 DEF Top

Chain ==
  \A i, j \in 1..Len(stack) : i < j => stack[i].proc \in ancestors[stack[j].proc]

IInv == TypeOK /\ Chain /\ NeverReentered /\ CallersFound

\* A procedure in progress is not called again: it is the caller or, as the
\* callers of a caller, among its ancestors.
LEMMA NotInProgress ==
  ASSUME IInv, stack # <<>>, NEW p, ~is_current_call_recursive(ancestors, p, Top.proc)
  PROVE  \A i \in 1..Len(stack) : stack[i].proc # p
<1>1. Len(stack) \in Nat \ {0}
  BY EmptySeq DEF IInv, TypeOK
<1>2. ASSUME NEW i \in 1..Len(stack) PROVE stack[i].proc # p
  <2>1. CASE i = Len(stack)
    BY <2>1 DEF is_current_call_recursive, Top
  <2>2. CASE i # Len(stack)
    <3>1. stack[i].proc \in ancestors[Top.proc]
      BY <1>1, <2>2 DEF IInv, Chain, Top
    <3> QED
      BY <3>1 DEF is_current_call_recursive
  <2> QED
    BY <2>1, <2>2
<1> QED
  BY <1>2

\* The ancestors of a caller are ancestors of what it calls, and so is it.
LEMMA CallersAreAncestors ==
  ASSUME NEW f \in Programs, NEW c \in CallSites(f)
  PROVE  {f.proc[c[1]]} \cup Ancestors(f, f.proc[c[1]]) \subseteq Ancestors(f, Callee(f, c))
<1> DEFINE q == f.proc[c[1]]
           p == Callee(f, c)
           Closed(S) == \A s \in S : Callers(f, s) \subseteq S
<1>1. q \in Callers(f, p)
  BY DEF Callers
<1>2. c[1] \in DOMAIN f.proc
  BY DEF CallSites
<1>3. q \in Procedures(f)
  BY <1>2, ProgramsAssumption
<1>4. ASSUME NEW S \in SUBSET Procedures(f), Callers(f, p) \subseteq S, Closed(S)
      PROVE  q \in S /\ Callers(f, q) \subseteq S
  BY <1>1, <1>4
<1>5. q \in Ancestors(f, p)
  BY <1>3, <1>4 DEF Ancestors
<1>6. ASSUME NEW a \in Ancestors(f, q) PROVE a \in Ancestors(f, p)
  BY <1>4, <1>6 DEF Ancestors
<1> QED
  BY <1>5, <1>6

\* What may change besides the stack.
Typed ==
  /\ fn' = fn /\ ancestors' = ancestors
  /\ current_callsite' \in [Procedures(fn) -> Sites \cup {Null}]
  /\ extern_inputs' \in [Procedures(fn) -> SUBSET MemBlock]
  /\ extern_outputs' \in [Procedures(fn) -> SUBSET MemBlock]

\* A step inside a procedure, or a call that does not enter one.
LEMMA Kept ==
  ASSUME IInv, stack # <<>>, Typed, NEW fr \in Frames, fr.proc = Top.proc, stack' = With(fr),
         \A i \in 1..Len(stack) :
           current_callsite'[stack[i].proc] = current_callsite[stack[i].proc]
  PROVE  IInv'
<1>1. /\ Len(stack) \in Nat \ {0} /\ stack' \in Seq(Frames) /\ Len(stack') = Len(stack)
      /\ \A i \in 1..Len(stack) - 1 : stack'[i] = stack[i]
      /\ stack'[Len(stack)] = fr
  BY Replaced DEF IInv
<1>2. \A i \in 1..Len(stack) : stack'[i].proc = stack[i].proc
  BY <1>1 DEF Top
<1>3. TypeOK'
  BY <1>1 DEF IInv, TypeOK, Typed, Frames, Bodies, Sites
<1>4. Chain'
  BY <1>1, <1>2 DEF IInv, Chain, Typed
<1>5. NeverReentered'
  BY <1>1, <1>2 DEF IInv, NeverReentered
<1>6. CallersFound'
  <2>1. ASSUME NEW i \in 2..Len(stack)
        PROVE  /\ current_callsite'[stack'[i].proc] = current_callsite[stack[i].proc]
               /\ stack'[i - 1] = stack[i - 1]
    BY <1>1, <1>2
  <2> QED
    BY <1>1, <2>1 DEF IInv, CallersFound, Typed
<1> QED
  BY <1>3, <1>4, <1>5, <1>6 DEF IInv

\* Facts about the next statement.
LEMMA StatementTyped ==
  ASSUME TypeOK, Running
  PROVE  /\ stack # <<>> /\ Top \in Frames /\ here \in Sites
         /\ Statement \in [kind : {"use", "define"}, dst : MemBlock]
                            \cup [kind : {"call"}, dst : Procedures(fn)]
         /\ Statement.kind = "call" => here \in CallSites(fn) /\ Callee(fn, here) = Statement.dst
         /\ fn.proc[here[1]] = Top.proc
<1> DEFINE b == fn.entry[Top.proc]
           Statements == [kind : {"use", "define"}, dst : MemBlock]
                            \cup [kind : {"call"}, dst : Procedures(fn)]
<1>1. stack # <<>> /\ stack \in Seq(Frames)
  BY DEF Running, TypeOK, Frames, Bodies, Sites
<1>2. Top \in Frames
  BY <1>1, EmptySeq, ElementOfSeq DEF Top
<1>3. Top.proc \in Bodies /\ Top.next \in Nat \ {0}
  BY <1>2 DEF Frames
<1>4. b \in DOMAIN fn.proc /\ fn.proc[b] = Top.proc /\ fn.code[b] \in Seq(Statements)
  <2>1. fn \in Programs /\ Top.proc \in Procedures(fn) /\ b # Null
    BY <1>3 DEF Bodies, TypeOK
  <2> QED
    BY <2>1, ProgramsAssumption
<1>5. here \in Sites
  BY <1>3 DEF here, Sites
<1>6. Top.next \in 1..Len(fn.code[b]) /\ Top.next \in DOMAIN fn.code[b]
  <2>1. Len(fn.code[b]) \in Nat /\ DOMAIN fn.code[b] = 1..Len(fn.code[b])
    <3> HIDE DEF Statements
    <3> QED
      BY <1>4, LenProperties
  <2> QED
    BY <1>3, <2>1 DEF Running, Code
<1>7. Statement \in Statements
  <2> HIDE DEF Statements
  <2> QED
    BY <1>4, <1>6, ElementOfSeq DEF Statement, Code
<1>8. ASSUME Statement.kind = "call"
      PROVE  here \in CallSites(fn) /\ Callee(fn, here) = Statement.dst
  BY <1>4, <1>6, <1>8 DEF CallSites, Callee, here, Statement, Code
<1> QED
  BY <1>1, <1>2, <1>4, <1>5, <1>7, <1>8 DEF here

LEMMA NearestIsNat ==
  ASSUME TypeOK, Running, NEW m
  PROVE  Nearest(m) \in Nat
<1>1. Top \in Frames
  BY StatementTyped
<1>2. Len(Top.loc) \in Nat
  BY <1>1, LenProperties DEF Frames
<1> DEFINE S(reaching) == {0} \cup {k \in 1..Len(Top.loc) :
             \E d \in reaching : IsPrefix(SubSeq(Top.loc, 1, k), d.loc)}
           reached == {d \in defs : d.mb = m /\ (d.loc = Top.loc => d.at < Top.next)}
<1>3. S(reached) \in SUBSET (0..Len(Top.loc)) /\ S(reached) # {}
  BY <1>2
<1>4. Nearest(m) = Max(S(reached))
  BY DEF Nearest
<1> QED
  <2> HIDE DEF S
  <2> QED
    BY <1>2, <1>3, <1>4, MaxIsNat

\* A call that enters a procedure.
LEMMA Pushed ==
  ASSUME IInv, Typed, CallHere, NEW p \in Bodies, Statement.dst = p,
         ~is_current_call_recursive(ancestors, p, Top.proc),
         NEW fr \in Frames, fr.proc = Top.proc, fr.next = Top.next,
         NEW new \in Frames, new.proc = p,
         stack' = Append(With(fr), new),
         current_callsite' = [current_callsite EXCEPT ![p] = here]
  PROVE  IInv'
<1> DEFINE n == Len(stack)
<1>1. /\ stack # <<>> /\ here \in CallSites(fn) /\ Callee(fn, here) = p
      /\ fn.proc[here[1]] = Top.proc
  BY StatementTyped DEF IInv, CallHere
<1>2. /\ n \in Nat \ {0} /\ With(fr) \in Seq(Frames) /\ Len(With(fr)) = n
      /\ \A i \in 1..n - 1 : With(fr)[i] = stack[i]
      /\ With(fr)[n] = fr
  BY <1>1, Replaced DEF IInv
<1>3. /\ stack' \in Seq(Frames) /\ Len(stack') = n + 1
      /\ \A i \in 1..n : stack'[i] = With(fr)[i]
      /\ stack'[n + 1] = new
  BY <1>2, AppendProperties
<1>4. \A i \in 1..n : stack'[i].proc = stack[i].proc /\ stack'[i].next = stack[i].next
  BY <1>2, <1>3 DEF Top
<1>5. TypeOK'
  BY <1>3 DEF IInv, TypeOK, Typed, Frames, Bodies, Sites
<1>6. \A i \in 1..n : stack[i].proc # p
  BY <1>1, NotInProgress
<1>7. Chain'
  <2>1. ASSUME NEW i \in 1..n PROVE stack[i].proc \in ancestors[p]
    <3>1. fn \in Programs /\ p \in Procedures(fn) /\ Top.proc \in Procedures(fn)
      BY <1>1, <1>2, ElementOfSeq, StatementTyped DEF IInv, TypeOK, Bodies, Frames, CallHere
    <3>2. ancestors[p] = Ancestors(fn, p) /\ ancestors[Top.proc] = Ancestors(fn, Top.proc)
      BY <3>1 DEF IInv, TypeOK, AncestorSets
    <3>3. {Top.proc} \cup ancestors[Top.proc] \subseteq ancestors[p]
      BY <1>1, <3>1, <3>2, CallersAreAncestors
    <3>4. stack[i].proc \in {Top.proc} \cup ancestors[Top.proc]
      BY <1>2 DEF IInv, Chain, Top
    <3> QED
      BY <3>3, <3>4
  <2>2. \A i, j \in 1..n : i < j => stack'[i].proc \in ancestors[stack'[j].proc]
    BY <1>4 DEF IInv, Chain
  <2>3. \A i \in 1..n : stack'[i].proc \in ancestors[stack'[n + 1].proc]
    BY <1>3, <1>4, <2>1
  <2>4. \A i, j \in 1..n + 1 : i < j => i \in 1..n /\ (j \in 1..n \/ j = n + 1)
    BY <1>2
  <2> QED
    BY <1>3, <2>2, <2>3, <2>4 DEF Chain, Typed
<1>8. NeverReentered'
  <2>1. \A i, j \in 1..n : stack'[i].proc = stack'[j].proc => i = j
    BY <1>4 DEF IInv, NeverReentered
  <2>2. \A i \in 1..n : stack'[i].proc # stack'[n + 1].proc
    BY <1>3, <1>4, <1>6
  <2>3. \A i \in 1..n + 1 : i \in 1..n \/ i = n + 1
    BY <1>2
  <2> QED
    BY <1>3, <2>1, <2>2, <2>3 DEF NeverReentered
<1>9. CallersFound'
  <2>1. ASSUME NEW i \in 2..n
        PROVE  current_callsite'[stack'[i].proc] =
                 <<fn.entry[stack'[i - 1].proc], stack'[i - 1].next>>
    <3>1. i \in 1..n /\ i - 1 \in 1..n
      BY <1>2
    <3>2. current_callsite'[stack[i].proc] = current_callsite[stack[i].proc]
      BY <1>6, <3>1 DEF IInv, TypeOK
    <3> QED
      BY <1>4, <3>1, <3>2 DEF IInv, CallersFound
  <2>2. current_callsite'[p] = <<fn.entry[stack'[n].proc], stack'[n].next>>
    <3>1. p \in DOMAIN current_callsite
      BY DEF IInv, TypeOK, Bodies
    <3> QED
      BY <1>2, <1>4, <3>1 DEF here, Top
  <2>3. ASSUME NEW i \in 2..n + 1
        PROVE  current_callsite'[stack'[i].proc] =
                 <<fn.entry[stack'[i - 1].proc], stack'[i - 1].next>>
    <3>1. CASE i \in 2..n
      BY <2>1, <3>1
    <3>2. CASE i = n + 1
      <4>1. i - 1 = n /\ stack'[i].proc = p
        BY <1>2, <1>3, <3>2
      <4> QED
        BY <2>2, <4>1
    <3> QED
      BY <1>2, <3>1, <3>2
  <2> QED
    BY <1>3, <2>3 DEF CallersFound, Typed
<1> QED
  BY <1>5, <1>7, <1>8, <1>9 DEF IInv

\* The end of a procedure other than main.
LEMMA Popped ==
  ASSUME IInv, Typed, Len(stack) > 1,
         NEW fr \in Frames, fr.proc = stack[Len(stack) - 1].proc,
         stack' = [Below EXCEPT ![Len(stack) - 1] = fr],
         current_callsite' = [current_callsite EXCEPT ![Top.proc] = Null]
  PROVE  IInv'
<1> DEFINE n == Len(stack)
<1>1. /\ n \in Nat \ {0} /\ n - 1 \in 1..n - 1 /\ stack # <<>>
      /\ Below \in Seq(Frames) /\ Len(Below) = n - 1
      /\ \A i \in 1..n - 1 : Below[i] = stack[i]
  <2>1. stack # <<>>
    BY EmptySeq
  <2> QED
    BY <2>1, Replaced DEF IInv
<1>2. /\ stack' \in Seq(Frames) /\ Len(stack') = n - 1
      /\ \A i \in 1..n - 1 : stack'[i] = IF i = n - 1 THEN fr ELSE stack[i]
  BY <1>1, ExceptSeq
<1>3. \A i \in 1..n - 1 : i \in 1..n /\ stack'[i].proc = stack[i].proc
  BY <1>1, <1>2
<1>4. TypeOK'
  BY <1>2 DEF IInv, TypeOK, Typed, Frames, Bodies, Sites
<1>5. Chain'
  BY <1>2, <1>3, ZenonT(30) DEF IInv, Chain, Typed
<1>6. NeverReentered'
  BY <1>2, <1>3 DEF IInv, NeverReentered
<1>7. CallersFound'
  <2>1. ASSUME NEW i \in 2..n - 1
        PROVE  current_callsite'[stack'[i].proc] =
                 <<fn.entry[stack'[i - 1].proc], stack'[i - 1].next>>
    <3>1. i \in 1..n - 1 /\ i - 1 \in 1..n - 1 /\ i - 1 # n - 1 /\ i \in 2..n /\ n \in 1..n /\ i # n
      BY <1>1
    <3>2. stack[i].proc # Top.proc
      BY <1>3, <3>1 DEF IInv, NeverReentered, Top
    <3>3. current_callsite'[stack[i].proc] = current_callsite[stack[i].proc]
      BY <3>2 DEF IInv, TypeOK
    <3>4. stack'[i - 1] = stack[i - 1] /\ stack'[i].proc = stack[i].proc
      BY <1>2, <1>3, <3>1
    <3> QED
      BY <3>1, <3>3, <3>4 DEF IInv, CallersFound
  <2> QED
    BY <1>2, <2>1 DEF CallersFound, Typed
<1> QED
  BY <1>4, <1>5, <1>6, <1>7 DEF IInv

\* The frame in hand, further on: with other uses, or with other definitions.
LEMMA NextUses ==
  ASSUME NEW r \in Frames, NEW n \in Nat \ {0}, NEW V \in SUBSET (MemBlock \X Nat)
  PROVE  /\ [r EXCEPT !.next = n, !.uses = V] \in Frames
         /\ [r EXCEPT !.next = n, !.uses = V].proc = r.proc
BY DEF Frames

LEMMA NextDefs ==
  ASSUME NEW r \in Frames, NEW n \in Nat \ {0}, NEW E \in SUBSET MemBlock
  PROVE  /\ [r EXCEPT !.next = n, !.defs = E] \in Frames
         /\ [r EXCEPT !.next = n, !.defs = E].proc = r.proc
BY DEF Frames

LEMMA InitInvariant == Init => IInv
<1> SUFFICES ASSUME Init PROVE IInv
  OBVIOUS
<1>1. stack \in Seq(Frames) /\ Len(stack) = 0
  BY EmptySeq DEF Init
<1>2. TypeOK
  BY <1>1 DEF Init, TypeOK, Frames, Bodies, Sites
<1> QED
  BY <1>1, <1>2 DEF IInv, Chain, NeverReentered, CallersFound

\* What a call step of the procedure in hand has to do with the rest.
LEMMA CallTyped ==
  ASSUME IInv, NEW p, passed(p)
  PROVE  /\ stack # <<>> /\ here \in Sites /\ p \in Procedures(fn)
         /\ Caller(p) \in Frames /\ Caller(p).proc = Top.proc /\ Caller(p).next = Top.next
         /\ [Caller(p) EXCEPT !.next = @ + 1] \in Frames
         /\ [Caller(p) EXCEPT !.next = @ + 1].proc = Top.proc
         /\ \A i \in 1..Len(stack) : stack[i].proc # p
<1>1. /\ stack # <<>> /\ Top \in Frames /\ here \in Sites
      /\ Statement \in [kind : {"use", "define"}, dst : MemBlock]
                         \cup [kind : {"call"}, dst : Procedures(fn)]
  BY StatementTyped DEF IInv, passed, CallHere
<1>2. p \in Procedures(fn)
  BY <1>1 DEF passed, CallHere
<1>3. ExternalInputs(p) \subseteq MemBlock
  BY <1>2 DEF ExternalInputs, IInv, TypeOK
<1>4. \A m : Nearest(m) \in Nat
  BY NearestIsNat DEF IInv, passed, CallHere
<1>5. {<<m, Nearest(m)>> : m \in ExternalInputs(p)} \in SUBSET (MemBlock \X Nat)
  BY <1>3, <1>4
<1>6. Caller(p) \in Frames /\ Caller(p).proc = Top.proc /\ Caller(p).next = Top.next
  BY <1>1, <1>5 DEF Caller, Frames
<1>7. /\ [Caller(p) EXCEPT !.next = @ + 1] \in Frames
      /\ [Caller(p) EXCEPT !.next = @ + 1].proc = Top.proc
  <2> DEFINE c == Caller(p)
             turned == [c EXCEPT !.next = @ + 1]
  <2>1. c \in Frames /\ c.proc = Top.proc
    BY <1>6
  <2> HIDE DEF c
  <2>2. turned = [proc |-> c.proc, loc |-> c.loc, next |-> c.next + 1,
                  defs |-> c.defs, uses |-> c.uses]
    BY <2>1 DEF Frames
  <2>3. c.next \in Nat \ {0} /\ c.next + 1 \in Nat \ {0}
    BY <2>1 DEF Frames
  <2>4. turned \in Frames /\ turned.proc = Top.proc
    <3> HIDE DEF turned
    <3> QED
      BY <2>1, <2>2, <2>3 DEF Frames
  <2> QED
    BY <2>4 DEF c
<1> QED
  BY <1>1, <1>2, <1>6, <1>7, NotInProgress DEF passed

LEMMA NextInvariant == IInv /\ [Next]_vars => IInv'
<1> SUFFICES ASSUME IInv, [Next]_vars PROVE IInv'
  OBVIOUS
<1> USE DEF IInv
<1>1. CASE analyze_root
  <2> DEFINE root == Frame(fn.main, <<fn.main>>)
  <2>1. fn.main \in Bodies
    <3>1. fn \in Programs
      BY DEF TypeOK
    <3> QED
      BY <3>1, ProgramsAssumption DEF Bodies
  <2>2. <<fn.main>> \in Seq(Procedures(fn) \cup Sites)
    BY <2>1 DEF Bodies
  <2>3. root \in Frames
    BY <2>1, <2>2 DEF Frame, Frames
  <2>4. stack' \in Seq(Frames) /\ Len(stack') = 1
    BY <1>1, <2>3 DEF analyze_root
  <2>5. TypeOK'
    BY <1>1, <2>4 DEF analyze_root, TypeOK, Frames, Bodies, Sites
  <2> QED
    BY <2>4, <2>5 DEF Chain, NeverReentered, CallersFound
<1>2. CASE handle_use
  <2> DEFINE fr == [Top EXCEPT !.next = @ + 1,
                      !.uses = @ \cup {<<Statement.dst, Nearest(Statement.dst)>>}]
  <2>1. /\ stack # <<>> /\ Top \in Frames /\ Statement.dst \in MemBlock
        /\ Nearest(Statement.dst) \in Nat
    BY <1>2, StatementTyped, NearestIsNat DEF handle_use
  <2>2. fr \in Frames /\ fr.proc = Top.proc
    <3>1. /\ Top.next + 1 \in Nat \ {0}
          /\ Top.uses \cup {<<Statement.dst, Nearest(Statement.dst)>>}
               \in SUBSET (MemBlock \X Nat)
      BY <2>1 DEF Frames
    <3> QED
      BY <2>1, <3>1, NextUses
  <2>3. Typed
    BY <1>2 DEF handle_use, Typed, TypeOK, Bodies, Sites
  <2>4. stack' = With(fr) /\ current_callsite' = current_callsite
    BY <1>2 DEF handle_use
  <2> QED
    BY <2>1, <2>2, <2>3, <2>4, Kept
<1>3. CASE handle_assign
  <2> DEFINE fr == [Top EXCEPT !.next = @ + 1, !.defs = @ \cup {Statement.dst}]
  <2>1. stack # <<>> /\ Top \in Frames /\ Statement.dst \in MemBlock
    BY <1>3, StatementTyped DEF handle_assign
  <2>2. fr \in Frames /\ fr.proc = Top.proc
    <3>1. Top.next + 1 \in Nat \ {0} /\ Top.defs \cup {Statement.dst} \in SUBSET MemBlock
      BY <2>1 DEF Frames
    <3> QED
      BY <2>1, <3>1, NextDefs
  <2>3. Typed
    BY <1>3 DEF handle_assign, Typed, TypeOK, Bodies, Sites
  <2>4. stack' = With(fr) /\ current_callsite' = current_callsite
    BY <1>3 DEF handle_assign
  <2> QED
    BY <2>1, <2>2, <2>3, <2>4, Kept
<1>4. CASE skip_recursive
  <2> DEFINE fr == [Top EXCEPT !.next = @ + 1]
  <2>1. stack # <<>> /\ Top \in Frames
    BY <1>4, StatementTyped DEF skip_recursive, CallHere
  <2>2. fr \in Frames /\ fr.proc = Top.proc
    BY <2>1 DEF Frames
  <2>3. Typed
    BY <1>4 DEF skip_recursive, Typed, TypeOK, Bodies, Sites
  <2>4. stack' = With(fr) /\ current_callsite' = current_callsite
    BY <1>4 DEF skip_recursive
  <2> QED
    BY <2>1, <2>2, <2>3, <2>4, Kept
<1>5. ASSUME NEW p \in Procedure, call_unchanged(p) PROVE IInv'
  <2>1. passed(p) /\ stack' = With([Caller(p) EXCEPT !.next = @ + 1])
    BY <1>5 DEF call_unchanged
  <2>2. current_callsite' = [current_callsite EXCEPT ![p] = Null]
    BY <1>5 DEF call_unchanged
  <2>3. Typed
    BY <2>1, <2>2 DEF passed, Typed, TypeOK
  <2>4. \A i \in 1..Len(stack) :
          current_callsite'[stack[i].proc] = current_callsite[stack[i].proc]
    BY <2>1, <2>2, CallTyped DEF TypeOK
  <2> QED
    BY <2>1, <2>3, <2>4, CallTyped, Kept
<1>6. ASSUME NEW p \in Procedure, call_library(p) PROVE IInv'
  <2>1. passed(p) /\ stack' = With([Caller(p) EXCEPT !.next = @ + 1])
    BY <1>6 DEF call_library
  <2>2. current_callsite' = [current_callsite EXCEPT ![p] = here] /\ here \in Sites
    BY <1>6, <2>1, CallTyped DEF call_library, setup_call
  <2>3. Typed
    BY <2>1, <2>2 DEF passed, Typed, TypeOK
  <2>4. \A i \in 1..Len(stack) :
          current_callsite'[stack[i].proc] = current_callsite[stack[i].proc]
    BY <2>1, <2>2, CallTyped DEF TypeOK
  <2> QED
    BY <2>1, <2>3, <2>4, CallTyped, Kept
<1>7. ASSUME NEW p \in Procedure, analyze_proc(p) PROVE IInv'
  <2> DEFINE new == Frame(p, make_call_to(p))
  <2>1. passed(p) /\ stack' = Append(With(Caller(p)), new)
    BY <1>7 DEF analyze_proc
  <2>2. current_callsite' = [current_callsite EXCEPT ![p] = here] /\ here \in Sites
    BY <1>7, <2>1, CallTyped DEF analyze_proc, setup_call
  <2>3. Typed
    BY <2>1, <2>2 DEF passed, Typed, TypeOK
  <2>4. p \in Bodies
    BY <1>7, <2>1, CallTyped DEF analyze_proc, Bodies
  <2>5. make_call_to(p) \in Seq(Procedures(fn) \cup Sites)
    <3>1. Top.loc \in Seq(Procedures(fn) \cup Sites)
      BY <2>1, StatementTyped DEF Frames, passed, CallHere
    <3>2. <<p>> \in Seq(Procedures(fn) \cup Sites)
      BY <2>4 DEF Bodies
    <3>3. Append(Top.loc, here) \in Seq(Procedures(fn) \cup Sites)
      BY <2>2, <3>1, AppendProperties
    <3> QED
      BY <3>2, <3>3 DEF make_call_to
  <2>6. new \in Frames /\ new.proc = p
    BY <2>4, <2>5 DEF Frame, Frames
  <2>7. Caller(p) \in Frames /\ Caller(p).proc = Top.proc /\ Caller(p).next = Top.next
    BY <2>1, CallTyped
  <2>8. /\ CallHere /\ Statement.dst = p
        /\ ~is_current_call_recursive(ancestors, p, Top.proc)
    BY <2>1 DEF passed
  <2> QED
    BY <2>1, <2>2, <2>3, <2>4, <2>6, <2>7, <2>8, Pushed
<1>8. CASE end_root
  <2>1. stack' \in Seq(Frames) /\ Len(stack') = 0
    BY <1>8, EmptySeq DEF end_root
  <2>2. Top \in Frames
    <3>1. Len(stack) = 1 /\ stack \in Seq(Frames)
      BY <1>8 DEF end_root, TypeOK
    <3> QED
      BY <3>1, ElementOfSeq DEF Top
  <2>3. ExternalUses \subseteq MemBlock \X Nat /\ Top.defs \subseteq MemBlock
    BY <2>2 DEF ExternalUses, Frames
  <2>4. {u[1] : u \in ExternalUses} \subseteq MemBlock
    BY <2>3
  <2>5. Typed
    BY <1>8, <2>3, <2>4 DEF end_root, record_extern_io, Typed, TypeOK
  <2>6. TypeOK'
    BY <2>1, <2>5 DEF TypeOK, Typed, Frames, Bodies, Sites
  <2> QED
    BY <2>1, <2>6 DEF Chain, NeverReentered, CallersFound
<1>9. ASSUME NEW p \in Procedure, return(p) PROVE IInv'
  <2> DEFINE c       == Len(stack) - 1
             outputs == IF is_context_sensitive(p) THEN {} ELSE extern_outputs'[p]
             visible == IF current_caller(p) = Null THEN {} ELSE Top.defs
             fr      == [stack[c] EXCEPT !.next = @ + 1, !.uses = @ \cup PassedUp(p),
                                         !.defs = @ \cup (visible \cup outputs)]
  <2>1. Len(stack) > 1 /\ record_extern_io(p) /\ stack # <<>> /\ Top.proc = p
    BY <1>9 DEF return, record_extern_io
  <2>2. stack \in Seq(Frames) /\ Len(stack) \in Nat
    BY EmptySeq DEF TypeOK
  <2>3. c \in 1..Len(stack) /\ stack[c] \in Frames /\ Top \in Frames
    BY <2>1, <2>2, ElementOfSeq DEF Top
  <2>4. ExternalUses \subseteq MemBlock \X Nat /\ Top.defs \subseteq MemBlock
    BY <2>3 DEF ExternalUses, Frames
  <2>5. {u[1] : u \in ExternalUses} \subseteq MemBlock
    BY <2>4
  <2>6. current_callsite' = [current_callsite EXCEPT ![Top.proc] = Null]
    BY <1>9, <2>1 DEF return, return_from_call
  <2>7. Typed
    BY <1>9, <2>4, <2>5, <2>6
    DEF return, record_extern_io, Typed, TypeOK
  <2>8. p \in Procedures(fn)
    BY <2>1, <2>3 DEF Frames, Bodies
  <2>9. outputs \subseteq MemBlock /\ visible \subseteq MemBlock
        /\ PassedUp(p) \subseteq MemBlock \X Nat
    BY <2>4, <2>7, <2>8 DEF Typed, PassedUp
  <2>10. fr \in Frames /\ fr.proc = stack[c].proc
    <3>1. /\ stack[c].next + 1 \in Nat \ {0}
          /\ stack[c].uses \cup PassedUp(p) \in SUBSET (MemBlock \X Nat)
          /\ stack[c].defs \cup (visible \cup outputs) \in SUBSET MemBlock
      <4> HIDE DEF outputs, visible
      <4> QED
        BY <2>3, <2>9 DEF Frames
    <3> DEFINE n == stack[c].next + 1
               V == stack[c].uses \cup PassedUp(p)
               E == stack[c].defs \cup (visible \cup outputs)
    <3>2. fr = [stack[c] EXCEPT !.next = n, !.uses = V, !.defs = E]
      OBVIOUS
    <3> HIDE DEF n, V, E, fr
    <3>3. n \in Nat \ {0} /\ V \in SUBSET (MemBlock \X Nat) /\ E \in SUBSET MemBlock
      BY <3>1 DEF n, V, E
    <3>4. stack[c] \in Frames
      BY <2>3
    <3> HIDE DEF c
    <3>5. /\ [stack[c] EXCEPT !.next = n, !.uses = V, !.defs = E] \in Frames
          /\ [stack[c] EXCEPT !.next = n, !.uses = V, !.defs = E].proc = stack[c].proc
      BY <3>3, <3>4 DEF Frames
    <3> QED
      BY <3>2, <3>5
  <2>11. stack' = [Below EXCEPT ![c] = fr]
    BY <1>9 DEF return
  <2> QED
    BY <2>1, <2>6, <2>7, <2>10, <2>11, Popped
<1>10. CASE UNCHANGED vars
  <2>1. TypeOK'
    BY <1>10 DEF vars, TypeOK, Frames, Bodies, Sites
  <2>2. Chain' /\ NeverReentered' /\ CallersFound'
    BY <1>10 DEF vars, Chain, NeverReentered, CallersFound
  <2> QED
    BY <2>1, <2>2
<1> QED
  BY <1>1, <1>2, <1>3, <1>4, <1>5, <1>6, <1>7, <1>8, <1>9, <1>10 DEF Next

LEMMA AlwaysInvariant == Spec => []IInv
<1>1. Init => IInv
  BY InitInvariant
<1>2. IInv /\ [Next]_vars => IInv'
  BY NextInvariant
<1> QED
  BY <1>1, <1>2, PTL DEF Spec

\* Only procedures with a body are analysed, and what is kept of them has its
\* type, for every program (ProcedureDB.h:45-60).
THEOREM TypeCorrect == Spec => []TypeOK
<1>1. IInv => TypeOK
  BY DEF IInv
<1> QED
  BY <1>1, AlwaysInvariant, PTL

\* Whatever the call graph, with cycles or without, no procedure is analysed
\* inside its own analysis (ProcedureDB.cpp:144-154).
THEOREM AlwaysNeverReentered == Spec => []NeverReentered
<1>1. IInv => NeverReentered
  BY DEF IInv
<1> QED
  BY <1>1, AlwaysInvariant, PTL

\* The one current_callsite of a procedure is that of the call in progress, in
\* both modes (ProcedureDB.cpp:87,106).
THEOREM AlwaysCallersFound == Spec => []CallersFound
<1>1. IInv => CallersFound
  BY DEF IInv
<1> QED
  BY <1>1, AlwaysInvariant, PTL
=============================================================================
