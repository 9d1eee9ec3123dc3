------------------------------ MODULE MCObjects ------------------------------
(* Small programs over two objects of up to two bytes.                     *)
EXTENDS Objects

Kind(ops, len, n, risky) ==
  [ops |-> ops, maxLen |-> len, maxStmts |-> n, risky |-> risky]

Accesses == {"write", "bitwrite", "read"}
LocalOps == Accesses \cup {"declare", "pushBlock", "popBlock", "sequencePoint"}
HeapOps == Accesses \cup {"malloc", "calloc", "realloc", "free", "memset"}
FillOps == {"declare", "pushBlock", "popBlock", "malloc", "free", "memset", "write", "read"}

(* Locals of nested blocks; the heap, where allocations fail; locals that  *)
(* are filled.                                                             *)
AllPrograms ==
  {Kind(LocalOps, 1, 5, {}), Kind(HeapOps, 2, 5, {"callocNull"}),
   Kind(FillOps, 1, 5, {"fillLocal"})}
=============================================================================
