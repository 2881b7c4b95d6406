------------------------ MODULE MCAnnotationAnalysis ------------------------
(* The annotation files and test programs of AnnotationPass/test, and      *)
(* small programs of calls from taintedness.pal.                           *)
EXTENDS AnnotationAnalysis

CONSTANTS n1, n2, n3, n4, x, y, z

\* taintedness.pal
Taint == [values |-> {"Tainted", "Untainted"}, default |-> "Untainted",
          more_general |-> [v \in {"Tainted", "Untainted"} |-> Bottom]]

Always(effects) == <<[condition |-> NoCondition, effects |-> effects]>>

TaintProcedures ==
  [read   |-> [params |-> <<"buffer_ptr">>, entry |-> [buffer |-> "buffer_ptr"],
               rules |-> Always(<<<<"buffer", "Tainted">>>>), reports |-> <<>>],
   strcpy |-> [params |-> <<"src", "dst">>,
               entry |-> [string1 |-> "src", string2 |-> "dst"],
               rules |-> Always(<<<<"string2", "string1">>>>), reports |-> <<>>],
   syslog |-> [params |-> <<"msg">>, entry |-> [msg_string |-> "msg"], rules |-> <<>>,
               reports |-> <<[error |-> TRUE, text |-> "tainted msg string",
                              condition |-> <<"msg_string", "could-be", "Tainted">>]>>]]

\* matrix.pal, the procedures used here
MatrixForm ==
  [values |-> {"Dense", "Triangular", "Diagonal", "Identity", "Zero"}, default |-> Top,
   more_general |-> [v \in {"Dense", "Triangular", "Diagonal", "Identity", "Zero"} |->
     CASE v = "Diagonal" -> "Triangular" [] v \in {"Identity", "Zero"} -> "Diagonal"
       [] OTHER -> Bottom]]

Creates(v) == [params |-> <<"data">>, entry |-> [matrix1 |-> "data"],
               rules |-> Always(<<<<"matrix1", v>>>>), reports |-> <<>>]

If(name, v, effect) == [condition |-> <<name, "is-exactly", v>>, effects |-> <<effect>>]

MayBeDense(name) == [error |-> FALSE, text |-> "multiplication by a dense matrix",
                     condition |-> <<name, "could-be", "Dense">>]

MatrixProcedures ==
  [createZeroMatrix |-> Creates("Zero"), createIdentityMatrix |-> Creates("Identity"),
   createDenseMatrix |-> Creates("Dense"),
   copyMatrix |-> [params |-> <<"srcData", "destData">>,
                   entry |-> [matrix1 |-> "srcData", matrix2 |-> "destData"],
                   rules |-> Always(<<<<"matrix2", "matrix1">>>>), reports |-> <<>>],
   multMatrices |-> [params |-> <<"m1", "m2", "result">>,
     entry |-> [matrix1 |-> "m1", matrix2 |-> "m2", matrix3 |-> "result"],
     rules |-> <<If("matrix1", "Identity", <<"matrix3", "matrix2">>),
                 If("matrix2", "Identity", <<"matrix3", "matrix1">>),
                 If("matrix1", "Zero", <<"matrix3", "Zero">>),
                 If("matrix2", "Zero", <<"matrix3", "Zero">>)>>,
     reports |-> <<MayBeDense("matrix1"), MayBeDense("matrix2")>>],
   invertMatrix |-> [params |-> <<"m">>, entry |-> [matrix1 |-> "m"],
     rules |-> <<If("matrix1", "Identity", <<"matrix1", "Identity">>),
                 If("matrix1", "Triangular", <<"matrix1", "Triangular">>)>>,
     reports |-> <<[error |-> TRUE, text |-> "Inversion of Zero matrix!",
                    condition |-> <<"matrix1", "is-exactly", "Zero">>]>>]]

Called(p, args) == [proc |-> p, args |-> args]

Program(property, procedures, order, succ, code) ==
  [property |-> property, procedures |-> procedures, order |-> order,
   succ |-> succ, code |-> code]

\* taintedness-test1.c, -test2.c and -test3.c, without foo
Test1 == Program(Taint, TaintProcedures, <<n1>>, (n1 :> {}),
  (n1 :> <<Called("read", <<{x}>>), Called("syslog", <<{y}>>),
           Called("strcpy", <<{x}, {z}>>), Called("syslog", <<{z}>>)>>))

Test2 == Program(Taint, TaintProcedures, <<n1, n2, n3, n4>>,
  (n1 :> {n2, n3}) @@ (n2 :> {n4}) @@ (n3 :> {n4}) @@ (n4 :> {}),
  (n1 :> <<Called("read", <<{x}>>), Called("syslog", <<{y}>>)>>)
  @@ (n2 :> <<Called("strcpy", <<{x}, {z}>>)>>)
  @@ (n3 :> <<Called("strcpy", <<{x}, {y}>>)>>)
  @@ (n4 :> <<Called("syslog", <<{z}>>)>>))

Test3 == Program(Taint, TaintProcedures, <<n1>>, (n1 :> {}),
  (n1 :> <<Called("read", <<{x}>>), Called("syslog", <<{y, z}>>),
           Called("strcpy", <<{x, y}, {y, z}>>), Called("syslog", <<{y, z}>>)>>))

\* matrix-test2.c, and the dense and zero matrices of matrix-test3.c
MatrixTests ==
  {Program(MatrixForm, MatrixProcedures, <<n1, n2, n3>>,
     (n1 :> {n2, n3}) @@ (n2 :> {n3}) @@ (n3 :> {}), (n1 :> first) @@ (n2 :> <<>>) @@ (n3 :> then)) :
     first \in {<<Called("createIdentityMatrix", <<{x}>>), Called("createZeroMatrix", <<{y}>>),
                  Called("createZeroMatrix", <<{z}>>)>>,
                <<Called("createZeroMatrix", <<{x}>>), Called("createDenseMatrix", <<{y}>>)>>},
     then \in {<<Called("copyMatrix", <<{x, y}, {z}>>), Called("invertMatrix", <<{z}>>)>>,
               <<Called("multMatrices", <<{x}, {y}, {z}>>), Called("invertMatrix", <<{z}>>)>>,
               <<Called("multMatrices", <<{x, z}, {y}, {z}>>)>>}}

Pointers == {{x}, {y}, {x, y}}

TaintCalls == {Called("read", <<S>>) : S \in Pointers}
              \cup {Called("strcpy", <<S, T>>) : S \in Pointers, T \in Pointers}
              \cup {Called("syslog", <<S>>) : S \in {{x}, {y}}}

\* Two blocks, of which the second may repeat.
SmallPrograms ==
  {Program(Taint, TaintProcedures, <<n1, n2>>, (n1 :> {n2}) @@ (n2 :> s),
     (n1 :> c1) @@ (n2 :> c2)) :
     s \in {{}, {n2}}, c1 \in {<<Called("printf", <<{y}>>)>>, <<Called("read", <<{x}>>)>>},
     c2 \in BoundedSeq(TaintCalls, 2)}

AllPrograms == {Test1, Test2, Test3} \cup MatrixTests \cup SmallPrograms

CouldBeTainted == {m \in MemBlock : Below(Taint, ValueIn(propMap, m), "Tainted")}

\* What the comment at the head of each taintedness test says: the blocks that
\* are tainted, and that there is one error (taintedness-test1.c:1-5,
\* taintedness-test2.c:1-5, taintedness-test3.c:1-5).
TestsAnswered ==
  (done /\ fn \in {Test1, Test2, Test3}) =>
    /\ CouldBeTainted = IF fn = Test1 THEN {x, z} ELSE {x, y, z}
    /\ revisits = 0 => Len(errors) = 1
=============================================================================
