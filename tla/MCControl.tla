------------------------------ MODULE MCControl ------------------------------
(* Programs of blocks, calls and jumps, which leave a block or need not;   *)
(* of jumps in and out of signal handlers; of jumps in and out of exit     *)
(* handlers.                                                               *)
EXTENDS Control

CONSTANTS b, c

Kind(ops, n, bufs, nested, returns) ==
  [ops |-> ops, objects |-> n, bufs |-> bufs, nested |-> nested, returns |-> returns]

AllPrograms ==
  {Kind({"block", "declare", "call", "setjmp"}, 4, {b}, TRUE, TRUE),
   Kind({"block", "declare", "call", "setjmp"}, 3, {b, c}, FALSE, TRUE),
   Kind({"call", "setjmp"}, 4, {b, c}, FALSE, TRUE),
   Kind({"call", "setjmp", "raise"}, 4, {b, c}, FALSE, TRUE),
   Kind({"call", "setjmp", "raise"}, 4, {b, c}, FALSE, FALSE),
   Kind({"call", "setjmp", "exit"}, 4, {b}, FALSE, TRUE)}
=============================================================================
