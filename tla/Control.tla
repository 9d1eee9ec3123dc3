------------------------------- MODULE Control -------------------------------
(***************************************************************************)
(* Transfer of control in one thread: blocks, calls and returns            *)
(* (language/execution/stmt/block.k, stmt/return.k, expr/function-call.k), *)
(* setjmp and longjmp (library/setjmp.k), signal handlers that raise calls *)
(* (library/signal.k) and exit handlers (library/stdlib.k,                 *)
(* language/execution/init.k).                                             *)
(*                                                                         *)
(* Every activation of a function has an object of its own, its funLabel,  *)
(* by which longjmp knows whether the function still runs and where the    *)
(* unwinding must end.  The program may do anything between two steps of   *)
(* the semantics.  A function of the library is called like any other, but *)
(* its control, which holds its parameters only, is left out except for    *)
(* the one that _setjmp saves.  The handler of a signal is called from     *)
(* native code, which is external: here every signal has a handler.        *)
(***************************************************************************)
EXTENDS Integers, Sequences, SequencesExt, FiniteSets

CONSTANTS
  Programs,       \* the kinds of programs: ops, what they do; objects, how
                  \* many they make, and bufs, what they give to setjmp,
                  \* both bounds; nested, whether their jumps leave a block;
                  \* returns, whether signal handlers do not jump out
  JmpBufs,        \* the program's objects of type jmp_buf
  Computational,  \* signals for which isComputational, and the other ones
  OtherSignals,
  MaxCalls,       \* depth of calls, a bound
  MaxBlocks,      \* depth of blocks in a function, a bound
  MaxSaved,       \* calls of setjmp, a bound
  MaxHandlers     \* handlers in each list, a bound

Ops == {"block", "declare", "call", "setjmp", "raise", "exit"}
ASSUME ControlAssumption ==
  /\ Programs \subseteq [ops : SUBSET Ops, objects : Nat, bufs : SUBSET JmpBufs,
                          nested : BOOLEAN, returns : BOOLEAN]
  /\ MaxCalls \in Nat /\ MaxBlocks \in Nat /\ MaxSaved \in Nat /\ MaxHandlers \in Nat

Signals == Computational \cup OtherSignals
Lists == {"atexit", "at-quick-exit"}

VARIABLES
  program,     \* the kind of program that runs
  controls,    \* <call-stack> and, last, <function-control>
  mem,         \* <mem>: the automatic objects
  used,        \* the number of objects ever made
  jmpBufs,     \* <jmp-bufs>: saved <thread-local> and funLabel, by id
  env,         \* the id in each jmp_buf, 0 if never set
  k,           \* what <k> does next
  sigState,    \* <sig-handling-state>
  exits,       \* <atexit> and <at-quick-exit>, the handlers left
  status,      \* <status>
  error,       \* the error reported, or "none"
  registered,  \* history: how many handlers were registered
  ran          \* history: the handlers called

storage == <<controls, mem, used>>
saved == <<jmpBufs, env>>
exiting == <<exits, status, registered, ran>>
vars == <<program, storage, saved, k, sigState, exiting, error>>

-----------------------------------------------------------------------------
Run == [op |-> "run"]
longjmp(n) == [op |-> "longjmp", id |-> n]
callAtExit(l) == [op |-> "callAtExit", list |-> l]
Done(l) == [op |-> "done", list |-> l]
Halted == [op |-> "halted"]

(* What is left to do when a function returns.                             *)
Resume == [op |-> "resume"]
Revert(sig, state) == [op |-> "revert", sig |-> sig, state |-> state]
Handlers(l) == [op |-> "handlers", list |-> l]

(* A function's parameters and label are in its first block, its locals in *)
(* the blocks that are open, the innermost one last.                       *)
Activation(label, after) == [label |-> label, blocks |-> <<{label}, {}>>, after |-> after]
Library == [label |-> 0, blocks |-> <<{}>>, after |-> Resume]

Top == Last(controls)
localAddresses(c) == Last(c.blocks)
InTop(blocks) == [controls EXCEPT ![Len(controls)].blocks = blocks]

Init ==
  /\ program \in Programs
  /\ controls = <<Activation(1, Handlers("atexit"))>> /\ mem = {1} /\ used = 1
  /\ jmpBufs = <<>> /\ env = [v \in JmpBufs |-> 0]
  /\ k = Run /\ sigState = "none" /\ error = "none"
  /\ exits = [l \in Lists |-> <<>>] /\ status = "mainCalled"
  /\ registered = [l \in Lists |-> 0] /\ ran = [l \in Lists |-> <<>>]

(* The program goes on with op; an error ends the run.                     *)
Runs(op) == k = Run /\ op \in program.ops
Report(code) ==
  /\ error' = code /\ k' = Halted
  /\ UNCHANGED <<program, storage, saved, sigState, exiting>>

-----------------------------------------------------------------------------
(* Blocks and calls.                                                       *)

EnterBlock ==
  /\ Runs("block") /\ Len(Top.blocks) < MaxBlocks
  /\ controls' = InTop(Append(Top.blocks, {}))
  /\ UNCHANGED <<program, mem, used, saved, k, sigState, exiting, error>>

Declare ==
  /\ Runs("declare") /\ used < program.objects
  /\ used' = used + 1 /\ mem' = mem \cup {used + 1}
  /\ controls' = InTop(Front(Top.blocks) \o <<localAddresses(Top) \cup {used + 1}>>)
  /\ UNCHANGED <<program, saved, k, sigState, exiting, error>>

(* popBlock; the body of a function is left by Return.                     *)
LeaveBlock ==
  /\ Runs("block") /\ Len(Top.blocks) > 2
  /\ mem' = mem \ localAddresses(Top)
  /\ controls' = InTop(Front(Top.blocks))
  /\ UNCHANGED <<program, used, saved, k, sigState, exiting, error>>

Apply(after) ==
  /\ used < program.objects /\ Len(controls) < MaxCalls
  /\ used' = used + 1 /\ mem' = mem \cup {used + 1}
  /\ controls' = Append(controls, Activation(used + 1, after))

Call ==
  /\ Runs("call") /\ Apply(Resume)
  /\ UNCHANGED <<program, saved, k, sigState, exiting, error>>

(* revertSigHandlingState.                                                 *)
StateKept(state) == sigState
Reverted(state) == state

(* A return pops every block and the frame.  After a signal handler comes  *)
(* checkComputational and the old state, after main or an exit handler the *)
(* next exit handler.                                                      *)
Return ==
  /\ k = Run
  /\ LET after == Top.after IN
     /\ mem' = mem \ UNION ToSet(Top.blocks)
     /\ controls' = Front(controls)
     /\ IF after.op = "revert" /\ after.sig \in Computational
          THEN error' = "SIGNAL3" /\ k' = Halted /\ UNCHANGED sigState
          ELSE /\ k' = IF after.op = "handlers" THEN callAtExit(after.list) ELSE Run
               /\ sigState' = IF after.op = "revert" THEN Reverted(after.state) ELSE sigState
               /\ UNCHANGED error
  /\ UNCHANGED <<program, used, saved, exiting>>

-----------------------------------------------------------------------------
(* setjmp saves the <thread-local> cell of the library function itself,    *)
(* and the label of its caller.                                            *)
SetJmp(v) ==
  /\ Runs("setjmp") /\ v \in program.bufs /\ Len(jmpBufs) < MaxSaved
  /\ jmpBufs' = Append(jmpBufs, [controls |-> Append(controls, Library), label |-> Top.label])
  /\ env' = [env EXCEPT ![v] = Len(jmpBufs) + 1]
  /\ UNCHANGED <<program, storage, k, sigState, exiting, error>>

(* The place of the activation that a jump returns to.                     *)
Target(buf) == SelectInSeq(controls, LAMBDA c : c.label = buf.label)

(* The jumps of a program that is nested leave at least one block of the   *)
(* function that called setjmp, and none that was open at that call has    *)
(* been left; a program that returns does not jump out of a handler.       *)
MayJump(buf) ==
  LET t == Target(buf) IN
  t # 0 =>
    /\ program.nested =>
         /\ Len(controls[t].blocks) > Len(buf.controls[t].blocks)
         /\ UNION ToSet(buf.controls[t].blocks) \subseteq mem
    /\ program.returns => \A i \in t + 1 .. Len(controls) : controls[i].after.op # "revert"

LongJmp(v) ==
  /\ Runs("setjmp") /\ v \in program.bufs
  /\ \/ env[v] = 0 /\ Report("SETJMP1")
     \/ /\ env[v] # 0 /\ MayJump(jmpBufs[env[v]])
        /\ k' = longjmp(env[v])
        /\ UNCHANGED <<program, storage, saved, sigState, exiting, error>>

AnyFunction(buf) == TRUE
StillRuns(buf) == buf.label \in mem
LandsAnywhere(c, buf) == TRUE
Lands(c, buf) == c.label = buf.label

UnwindBlock(buf) ==
  /\ StillRuns(buf) /\ controls # <<>> /\ ~Lands(Top, buf) /\ Len(Top.blocks) > 1
  /\ mem' = mem \ localAddresses(Top)
  /\ controls' = InTop(Front(Top.blocks))
  /\ UNCHANGED <<program, used, saved, k, sigState, exiting, error>>

(* The last block of a function goes with its frame, and what was left to  *)
(* do after it is forgotten.                                               *)
KeepObjects(c) == mem
DropObjects(c) == mem \ localAddresses(c)
UnwindCall(buf) ==
  /\ StillRuns(buf) /\ controls # <<>> /\ ~Lands(Top, buf) /\ Len(Top.blocks) = 1
  /\ mem' = DropObjects(Top)
  /\ controls' = Front(controls)
  /\ UNCHANGED <<program, used, saved, k, sigState, exiting, error>>

(* deleteLocals: of the block in which the jump arrives, what is not local *)
(* to the library function that setjmp was.                                *)
AllEnded(c, lib) == UNION ToSet(c.blocks)
Ended(c, lib) == localAddresses(c) \ localAddresses(lib)

(* The saved cell is put back; then the library function returns again.    *)
Arrive(buf) ==
  /\ StillRuns(buf) /\ controls # <<>> /\ Lands(Top, buf)
  /\ mem' = mem \ (Ended(Top, Last(buf.controls)) \cup UNION ToSet(Last(buf.controls).blocks))
  /\ controls' = Front(buf.controls)
  /\ k' = Run
  /\ UNCHANGED <<program, used, saved, sigState, exiting, error>>

Jump ==
  /\ k.op = "longjmp"
  /\ LET buf == jmpBufs[k.id] IN
     \/ UnwindBlock(buf) \/ UnwindCall(buf) \/ Arrive(buf)
     \/ ~StillRuns(buf) /\ Report("SETJMP2")

-----------------------------------------------------------------------------
(* raise: the handler is called in state raiseOrAbort.                     *)
Raise(sig) ==
  /\ Runs("raise")
  /\ \/ /\ sigState = "raiseOrAbort" /\ Report("SIGNAL2")
     \/ /\ sigState # "raiseOrAbort"
        /\ Apply(Revert(sig, sigState)) /\ sigState' = "raiseOrAbort"
        /\ UNCHANGED <<program, saved, k, exiting, error>>

(* atexit and at_quick_exit put a handler before the others.               *)
LastOfAll(l, h) == Append(exits[l], h)
FirstOfAll(l, h) == <<h>> \o exits[l]
AtExit(l) ==
  /\ Runs("exit")
  /\ \/ /\ status = "mainExited" /\ Report(IF l = "atexit" THEN "STDLIB3" ELSE "STDLIB6")
     \/ /\ status = "mainCalled" /\ registered[l] < MaxHandlers
        /\ registered' = [registered EXCEPT ![l] = @ + 1]
        /\ exits' = [exits EXCEPT ![l] = FirstOfAll(l, registered[l] + 1)]
        /\ UNCHANGED <<program, storage, saved, k, sigState, status, ran, error>>

(* exit and quick_exit: what was left to do in <k> is dropped, the call    *)
(* stack stays.                                                            *)
Exit(l) ==
  /\ Runs("exit")
  /\ \/ /\ status = "mainExited" /\ Report(IF l = "atexit" THEN "STDLIB4" ELSE "STDLIB5")
     \/ /\ status = "mainCalled" /\ status' = "mainExited" /\ k' = callAtExit(l)
        /\ UNCHANGED <<program, storage, saved, sigState, exits, registered, ran, error>>

(* The next handler is called, or the thread ends.  The flushes of stdout  *)
(* and stderr at the end of <atexit> are in Stdio.                         *)
CallAtExit ==
  /\ k.op = "callAtExit" /\ status' = "mainExited"
  /\ LET l == k.list IN
     \/ /\ exits[l] # <<>> /\ Apply(Handlers(l)) /\ k' = Run
        /\ exits' = [exits EXCEPT ![l] = Tail(@)]
        /\ ran' = [ran EXCEPT ![l] = Append(@, Head(exits[l]))]
        /\ UNCHANGED <<program, saved, sigState, registered, error>>
     \/ /\ exits[l] = <<>> /\ k' = Done(l)
        /\ UNCHANGED <<program, storage, saved, sigState, exits, registered, ran, error>>

Next ==
  \/ EnterBlock \/ Declare \/ LeaveBlock \/ Call \/ Return
  \/ \E v \in JmpBufs : SetJmp(v) \/ LongJmp(v)
  \/ Jump
  \/ \E sig \in Signals : Raise(sig)
  \/ \E l \in Lists : AtExit(l) \/ Exit(l)
  \/ CallAtExit

Spec == Init /\ [][Next]_vars

(* The interpreter applies a rule as long as there is one.                 *)
FairSpec == Spec /\ WF_vars(Next)

-----------------------------------------------------------------------------
(* The label object decides rightly: it is in <mem> exactly as long as the *)
(* activation that called setjmp is on the stack, whether that was left by *)
(* return, by a jump over it, or is still there under exit handlers.       *)
LabelDecides ==
  \A n \in DOMAIN jmpBufs : jmpBufs[n].label \in mem <=> Target(jmpBufs[n]) # 0

(* A jump puts back a <thread-local> cell that was saved long ago: when it *)
(* arrives, all calls below are as they were then, so only the function    *)
(* that called setjmp goes back in time.                                   *)
StackKept ==
  [][k.op = "longjmp" /\ k' = Run =>
       /\ Len(controls') = Len(controls)
       /\ Top.label = Last(controls').label
       /\ \A i \in 1 .. Len(controls) - 1 : controls'[i] = controls[i]]_vars

(* The locals of all open blocks live, as long as jumps leave a block of   *)
(* the function that they return to.  (A jump from the block itself ends   *)
(* also the objects that were declared there before setjmp.)               *)
LocalsLive ==
  program.nested =>
    \A i \in DOMAIN controls : UNION ToSet(controls[i].blocks) \subseteq mem

(* SIGNAL2 is reported of a raise in a handler only, unless the program    *)
(* has left one by a jump.                                                 *)
SignalReports ==
  program.returns /\ error = "SIGNAL2" =>
    \E i \in DOMAIN controls : controls[i].after.op = "revert"

(* A program that ends has called every handler of its list once, the last *)
(* one first, although handlers may jump back into the program, which then *)
(* ends again.                                                             *)
HandlersRun ==
  k.op = "done" =>
    LET n == registered[k.list] IN ran[k.list] = [i \in 1..n |-> n + 1 - i]

(* A jump ends: it arrives, or is reported.                                *)
JumpEnds == k.op = "longjmp" ~> k.op # "longjmp"
=============================================================================
