-------------------------- MODULE MCProcedureCalls --------------------------
(* Programs of main and three procedures, one of them a declaration, with *)
(* a global that is used and defined anywhere.                            *)
EXTENDS ProcedureCalls

CONSTANTS main, f, g, lib, x, m1, f1, g1

Stmt(k, d) == [kind |-> k, dst |-> d]
Call(p) == Stmt("call", p)

Entries == (main :> m1) @@ (f :> f1) @@ (g :> g1) @@ (lib :> Null)
Procs   == (m1 :> main) @@ (f1 :> f) @@ (g1 :> g)

Data == {Stmt("use", x), Stmt("define", x)}

\* main calls f once or twice, or f and g, and may use or define the global; f
\* and g use or define it and call each other, f itself and both the library.
MainCodes ==
  {<<Call(f)>>, <<Call(f), Call(g)>>} \cup {<<Call(f), s>> : s \in Data}
  \cup {<<s, Call(f), Call(f)>> : s \in Data}

Codes ==
  {(m1 :> a) @@ (f1 :> b) @@ (g1 :> c) :
     a \in MainCodes,
     b \in {<<Call(g), Call(g)>>} \cup {<<s>> : s \in Data \cup {Call(f), Call(g)}} \cup
           {<<s, Call(p)>> : s \in Data, p \in {g, lib}} \cup {<<Call(g), s>> : s \in Data},
     c \in {<<>>, <<Call(f)>>, <<Call(lib), Call(lib)>>} \cup {<<s>> : s \in Data}}

SmallPrograms ==
  [main : {main}, entry : {Entries}, proc : {Procs}, code : Codes,
   owner : {[m \in {x} |-> Null]}, takes : {{}, {f}, {g, lib}, {f, g, lib}}]
=============================================================================
