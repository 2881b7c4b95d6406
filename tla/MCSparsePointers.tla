-------------------------- MODULE MCSparsePointers --------------------------
(* Programs of three basic blocks with few stores to two pointers, and *)
(* programs that call a procedure with a branch.                       *)
EXTENDS SparsePointers

CONSTANTS b1, b2, b3, f1, f2, f3, p, q, main, f

Assigned(k, d, s) == [kind |-> k, dst |-> d, src |-> s]

\* p := &p, *p := &p and q := p
Stores == {Assigned("address", p, p), Assigned("through", p, p), Assigned("copy", q, p)}

SetsP == <<Assigned("address", p, q)>>
Call  == <<[kind |-> "call", dst |-> f]>>

MainBlocks == {b1, b2, b3}
MainOnly   == [b \in MainBlocks |-> main]
MainAndF   == [b \in MainBlocks \cup {f1, f2, f3} |-> IF b \in MainBlocks THEN main ELSE f]

\* All graphs whose entry block has no predecessor and leads to every block.
Graphs ==
  {s \in [MainBlocks -> SUBSET {b2, b3}] :
     ReachFrom([proc |-> MainOnly, succ |-> s], {b1}, {}) = MainBlocks}

\* The entry block sets p; two stores at most in b2, one in b3.
Codes ==
  {(b1 :> SetsP) @@ (b2 :> c2) @@ (b3 :> c3) :
     c2 \in BoundedSeq(Stores, 2), c3 \in BoundedSeq(Stores, 1)}

ThreeBlocks ==
  [main : {main}, proc : {MainOnly}, entry : {main :> b1}, succ : Graphs, code : Codes,
   owner : {[m \in {p, q} |-> main]}]

\* b1 and b2 may end in a call of f, b2 may repeat, b3 copies p; in f one
\* store at most in a block, or a call of itself, and p or both pointers are global.
CallGraphs == {(b1 :> {b2}) @@ (b2 :> s2) @@ (b3 :> s3) @@ (f1 :> {f2, f3}) @@ (f2 :> {f3}) @@ (f3 :> {}) :
                 s2 \in {{b3}, {b2, b3}}, s3 \in {{}, {b2}}}

Few == BoundedSeq({Assigned("address", p, p), Assigned("through", p, q)}, 1)

CallCodes ==
  {(b1 :> SetsP \o c1) @@ (b2 :> c2) @@ (b3 :> c3) @@ (f1 :> d1) @@ (f2 :> d2) @@ (f3 :> d3) :
     c1 \in {<<>>, Call}, c2 \in {<<>>, Call, <<Assigned("copy", q, p)>> \o Call},
     c3 \in {<<>>, <<Assigned("copy", q, p)>>},
     d1 \in Few, d2 \in Few \cup {Call}, d3 \in {<<>>}}

WithCalls ==
  [main : {main}, proc : {MainAndF}, entry : {(main :> b1) @@ (f :> f1)},
   succ : CallGraphs, code : CallCodes,
   owner : {[m \in {p, q} |-> IF m = p THEN Null ELSE o] : o \in {main, Null}}]

AllPrograms == ThreeBlocks \cup WithCalls
=============================================================================
