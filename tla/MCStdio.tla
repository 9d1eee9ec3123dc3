------------------------------- MODULE MCStdio -------------------------------
(* stdout and one stream of the program's own, each on a file of its own.  *)
EXTENDS Stdio
CONSTANT a

OwnFile == [x \in Streams |-> x]

Kind(ops, ts, str, len, n, d) ==
  [ops |-> ops, threads |-> ts, maxString |-> str, maxFile |-> len,
   maxCalls |-> n, disciplined |-> d]

OutputOps == {"fputs", "setvbuf", "fflush", "fclose", "fopen", "exit"}
UpdateOps == {"fopen", "fputs", "fread", "ungetc", "fflush", "rewind",
              "fseekCur", "fseekEnd", "clearerr"}
ModeOps == {"fopen", "fputs", "fread", "setvbuf", "rewind", "fflush"}
ReopenOps == {"fopen", "fputs", "fread", "fclose"}
MixOps == {"fopen", "fputs", "fread", "fflush", "rewind", "abort"}
ThreadOps == {"fputs", "fflush", "fflushAll"}

(* Output under every buffer mode; a stream that is read, written and      *)
(* positioned; input under every buffer mode; a file that is written, then *)
(* read.                                                                   *)
SingleThreaded ==
  {Kind(OutputOps, {0}, 2, 3, 4, TRUE), Kind(UpdateOps, {0}, 1, 2, 6, TRUE),
   Kind(ModeOps, {0}, 1, 2, 5, TRUE), Kind(ReopenOps, {0}, 2, 3, 5, TRUE)}

(* Input that may follow output; two threads that print.                   *)
Shared ==
  {Kind(MixOps, {0}, 2, 3, 5, FALSE), Kind(ThreadOps, {0, 1}, 2, 4, 4, TRUE)}

OutputOnly == {Kind(OutputOps, {0}, 2, 3, 4, TRUE)}
=============================================================================
