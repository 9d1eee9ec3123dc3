------------------------------ MODULE MCThreads ------------------------------
(* The main thread and one more; x is guarded by m, y (thread ids) by none. *)
EXTENDS Threads
CONSTANTS x, y, m, MainStmts, ThreadStmts
MCGuard == [l \in Locs |-> IF l = x THEN m ELSE NoMutex]
MCStmts == [t \in 0 .. MaxThread |-> IF t = 0 THEN MainStmts ELSE ThreadStmts]
=============================================================================
