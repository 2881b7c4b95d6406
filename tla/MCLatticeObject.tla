-------------------------- MODULE MCLatticeObject --------------------------
(* A tree of memory.pal, for TLC.                                          *)
EXTENDS LatticeObject

\* property MemoryLeak : { Error { MaybeDeallocated { Deallocated,
\*                                                    NotDeallocated }}}
MemoryLeak == {"Error", "MaybeDeallocated", "Deallocated", "NotDeallocated"}

MemoryLeakParent ==
  [q \in MemoryLeak |->
     CASE q = "Error" -> "bottom"
       [] q = "MaybeDeallocated" -> "Error"
       [] OTHER -> "MaybeDeallocated"]
=============================================================================
