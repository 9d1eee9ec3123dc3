# TLA+ verification of the C semantics and its tools

This directory models the parts of the repository whose behaviour depends on
the order in which things happen: the threads, the store buffer, the streams and
the transfers of control of the C *execution semantics* (`src/semantics/c`), the
native code server (`src/native-server`) that runs code the semantics cannot
interpret, the Clang tools (`src/clang-tools`) whose handlers together print one
tree, and the C functions that a profile adds to a program
(`src/profiles/x86-gcc-limited-libc/src`). TLC checks the models on small
instances; TLAPS proves the central properties of the threads, of memory, of the
streams, of the native server, of the transfers of control and of the string
functions for instances of every size.

`PROJECT.json` maps each definition to the source lines it stands for, and lists
the runs, the mutants that show each property can fail, the hazards and the
theorems.

## The system and its components

`kcc` parses a C program, translates and links it into one K configuration and
packs that with a runner. At run time the K interpreter rewrites the
configuration with the rules of the execution semantics until no rule applies.
A program's state is a configuration: a bag of `<thread>` cells (each with its
computation `<k>`, its store buffer `<buffer>`, its locks, environment and
blocks) beside global cells (`<mem>`, `<mutexes>`, `<glocks>`,
`<thread-status>`, the `<file>` cells, `<malloced>`, `<atexit>`, `<status>`).

| Component | State | Operations | Modelled by |
|---|---|---|---|
| Threads, mutexes, races (`library/threads.k`, `execution/races.k`) | `<thread>`, `<thread-status>`, `<mutexes>`, `<glocks>`, `<locks>` | `thrd_create`, `thrd_join`, `mtx_init`, `mtx_lock`, `mtx_unlock`, the race rules, the end of main | `Threads`, `ThreadsProofs` |
| Memory (`execution/io.k`, `common/memory`, `common/execution/io-buffered.k`, `delete-object.k`) | `<mem>`, `<buffer>`, `<malloced>`, `<local-addresses>`, `<locs-written>` | declarations, blocks, read, write, bit-field write, `memset`, `malloc`, `calloc`, `realloc`, `free`, flush of a buffered write | `Objects`, refining `Memory`; `ObjectsProofs` |
| Streams (`library/io.k`, `library/stdio.k`, `stdlib.k`) | `<file>` cells, `<open-files>`, `<atexit>`, `<status>` | `fputs`, `fread`, `ungetc`, `fflush`, `fseek`, `rewind`, `clearerr`, `setvbuf`, `fopen`, `fclose`, `exit`, `abort` | `Stdio`, refining `ByteStream`; `StdioProofs`, `StdioRefinement` |
| Native server (`native-server`, `profiles/.../native/platform.c`) | `native_memory`, the dirty buffer, two stdio pipes | invoke, symbol table, alloc, sync read, exit | `NativeServer`, `NativeServerProofs` |
| Sequence points, restrict, effective types | `<locs-written>`, `<restrict>`, `<effective-types>` | checks on each access | `<locs-written>` in `Objects`; the rest not yet |
| Control (`stmt/block.k`, `stmt/return.k`, `expr/function-call.k`, `library/setjmp.k`) | `<block-stack>`, `<local-addresses>`, `<call-stack>`, `<jmp-bufs>` | blocks, declarations, call, return, `setjmp`, `longjmp` | `Control`, `ControlProofs` |
| Signals and exit handlers (`library/signal.k`, `stdlib.k`, `execution/init.k`) | `<sig-handling-state>`, `<atexit>`, `<at-quick-exit>`, `<status>` | `raise`, `atexit`, `at_quick_exit`, `exit`, `quick_exit`, the calls of the handlers | `Control`; flushing at exit in `Stdio` |
| Clang front end for C++ (`clang-tools/ClangKast`) | `Kast::Nodes`, the position of `Kast::print` | one handler per kind of AST node, then printing | `Kast`, `AstVisitor`, `KastDecls`, `KastTypes`, `KastStmts`, `KastExprs`, `ClangTools` |
| Call site collector (`clang-tools/CallSites`) | the line being written | one handler per type | `CallSites`, `ClangTools` |
| Reference extractor (`scripts/extract-references.cpp`) | none | a function of the file tree | `References`, `ClangTools` |
| C sources of the profile (`string.c`, `stdlib.c`, `math.c`, `builtins.c`) | the program's buffers, the static pointer of `strtok` | searches, comparisons, copies, tokenizing, arithmetic | `CString`, refining `Tokenizer`; `CStringProofs` |
| Linking (`semantics/linking`) | `<external-decls>`, `<external-defs>`, `<linkings>` | merging of objects, resolution | planned |
| C and C++ translation, typing, C++ execution | symbol tables of a unit | elaboration | not modelled |
| Parser, `kcc`, `program-runner`, generators | files | none with interesting state | not modelled |

How they interact. A write of a thread goes into its own `<buffer>` and reaches
`<mem>` later; a read of the same thread waits until no entry of its buffer
concerns the byte; a library function waits until its parameters have been
flushed, and with them everything before them. The rules that flush have
priority 80 while nearly all others have priority 50, so a buffer drains only
when no thread has anything else to do. Mutexes, joins and deletion of objects
therefore all have to say what becomes of the buffer. The streams share `<k>`
with the rest of a thread: a `flush` becomes one step per character, between
which other threads run. A native call leaves the configuration: the runtime
sends the objects to the server, waits, and takes the changed objects back.
A `longjmp` replaces a thread's whole `<thread-local>` cell while `<mem>`, the
handlers and the lists of exit handlers stay as they are. In `clang-kast` no
handler sees another's output: each adds nodes to one list, and the printer
finds out afterwards whether they make a tree.

What is hard here: two threads with buffered writes and a mutex; an object that
ends with writes to it still buffered; read-ahead and write buffers against
positioning, pushing back and changes of the buffer mode; the end of a program
with data in buffers; a request that arrives in pieces from a client that may
die, through pipes that may break; a jump over activations, handlers and blocks
into a state saved long ago; a list counted in one place and visited in another;
two tokenizations that share a function with a static variable. Correct means: the buffers are invisible to a program that follows the
rules of C (`GuardedReadsSeeLatest`, `MemorySpec`, `StreamSpec`,
`ArgumentsArrive`, `MemoryReturned`, `TakesTokens`), jumps touch only what they
leave (`StackKept`, `LocalsLive`, `LabelDecides`), no program is accused wrongly
(`NoFalseRace`, `SignalReports`), nothing waits for ever
(`BuffersDrain`, `StuckOnlyOnFill`, `CallsReturn`, `Answered`, `JumpEnds`),
nothing is lost at the end (`StdoutComplete`, `NothingLost`, `HandlersRun`), and
the parts of an output fit together (`PrintsWholeTree`, `ChildrenFit`).

## The modules

A definition with a second form beside it (`CutOff` and `KeepWhole`, `Lands` and
`LandsAnywhere`) is one that `PROJECT.json` mutates: the other form is a mistake
the code might contain, is used nowhere, and shows that a property notices it.

### Threads, MCThreads, ThreadsProofs

One K rule is one action. `k[t]` is the list of items left in a thread's `<k>`,
and only the items of `threads.k`, of reading and of writing occur in it. `Busy`
says that some thread has a rule of default priority; `Flush` (priority 80) and
`MainEnd` (75) need `~Busy`. `ThrdCreate` and `ThrdJoin` are the whole rules,
with the removal of the joined thread's cell; `MtxLock` and `MtxUnlock` include
the changes of `<locks>` (a list, here a multiset: `removeListItem` removes
nothing if the item is absent) and `<glocks>`. `Race` is the rule of `races.k`
on two threads whose next items conflict on one object. The program is the
environment: between two statements a thread picks any member of `Statements`.
With `LockDiscipline` the choice is limited to `MayIssue`: an object with a
`Guard` is touched only while that mutex is held, a thread unlocks what it holds
and locks what it does not, and returns holding nothing. `latest` is a history
variable, the last value written to each object in execution order.

The `mtx_*` rules match `tv(Loc:Int, _)` although `types.k` declares a pointer
parameter; the model takes a mutex argument as an opaque name, which covers
both.

### Memory, Objects, MCObjects, ObjectsProofs

`Objects` is one thread. A byte has two halves, so that a bit-field write is a
read-modify-write; `uninit` is a byte nothing was stored in and `trap` the
indeterminate value it is read as. With one thread, the rules between two waits
are one step. `filterBuffer`, applied at the end of a block, by `free` and by
`realloc`, drops the `bwrite` entries of an object and leaves its `bfill`
entries, as `delete-object.k` does. `DeadUse`, `NotMalloced` and the branches of
`BufferedWrite` are the reported errors, after which a `HALT` item stays at the
head. `Memory` is the promise: no buffer, every write immediate. `Seen` maps the
state of `Objects` to it: a byte is what the youngest buffered entry that
concerns it stores, or what `<mem>` has if there is none.

A variable `program`, chosen in `Init` from the constant `Programs`, says which
statements a program uses and how long it is, so one run covers several kinds of
program. A bit-field that is written lies inside its object.

### ByteStream, Stdio, MCStdio, StdioProofs, StdioRefinement

A `<file>` cell is a record; the descriptor's offset and the file's characters
are the operating system, which is external (`Overwrite`). A call rewrites
`k[t]` into the same items as the rules: `fclose` into `flush` and `close`, a
seek into `flush`, `seek` and perhaps `clearerr`, a `flush` into `sendString`
(one character a step) and `sent`. Reading fills `<read-buffer>` through
`<next-byte>`, which is empty, a character, or -1 (`EOF`). `ByteStream` is the
promise: output is in the file at once, at the stream's position. The mapping
takes a file's contents with what is pending at its place (`Contents`), and what
the next reads give (`Upcoming`). `fopen` may fail (`FopenFails`); a descriptor
once open takes every write.

The programs of the model use streams that are open, push back only after input,
seek inside the file, do not abort once stdout is closed, and have one stream
for each file. Those with `disciplined` also separate output from input and
clear a stream's error indicator before they read it. Again a variable `program`
selects the kind.

### NativeServer, MCNativeServer, NativeServerProofs

The server is a process with a program counter at each blocking `__recv_message`;
a field of fixed width is one element of a pipe and a byte of an object is one
element. `ReceiveDirty` receives one piece of at most `BufferSize` bytes
(`dirty_buffer`), `SendReply` fills the stdio buffer and `FlushMessage` moves it
into the pipe. The client, the runtime of the interpreter, is external: it sends
a request in pieces of any size, waits for as many elements as the answer must
have, and may die at any point. Native functions change only the objects that
were passed to them. The faults are steps of their own: `main` is not given two
names, the pipes cannot be opened (`InitMessages`), `fwrite` passes a part of an
answer on before the flush (`WriteEarly`), a read fails wherever the server waits,
also between two requests (`ReadFails`, the `ferror` branch of
`__recv_message`), a write or the flush fails (`WriteFails`), the pipe ends in
the middle of a request because the client died (`ShortRead`), closing fails
(`DeinitMessages`). A failed read or write aborts the server, with a living
client too; `rejected` is where `__error` ends it after a request it does not
accept.

### Control, MCControl, ControlProofs

One thread's call stack with the running `<function-control>` last; an
activation has the object `funLabel` that identifies it, its open blocks with
their local objects, and what its caller's continuation does after it: go on,
`checkComputational` and `revertSigHandlingState` after a signal handler, or the
next exit handler. `SetJmp` saves that stack with the library function itself on
top and the label of its caller. `LongJmp` starts a jump, whose steps are the
three rules of `setjmp.k`: a block is left, a frame is left, and, once the label
of the running function is the saved one, the whole saved cell is put back and
`deleteLocals` ends the objects of the block the jump came from. Calls of library
functions are one step, since their control holds only their parameters. A
handler is called by native code, which is external; here every signal has one.
A `program` field `nested` restricts jumps to those that leave a block of the
function they return to, `returns` to those that do not leave a signal handler;
`bufs` and `objects` are bounds.

### Kast, AstVisitor, KastDecls, KastTypes, KastStmts, KastExprs, CallSites, References, ClangTools

`GetKastVisitor` never builds a tree: its handlers append nodes to a list, and
`Kast::print` reads the list from left to right, taking as many children as each
node's signature asks for. `Kast` keeps, of the nodes so far, the stack of calls
of `print` that still wait for a child and the depth of the open brackets.
`AstVisitor` is the walk: `todo` is what is still to be visited, and a handler
replaces its entry by its *script*, the nodes it adds and the children it
visits, in the code's order; what a `Visit` handler leaves to Clang's default
traversal (external) comes after it. There is one action per handler. The AST is
not given beforehand: a handler chooses the answers Clang gives, and each answer
other than the simplest costs one of `MaxBudget`, so that all ASTs with that many
unusual constructs are covered. Labels, names and numbers are abstract; sorts,
counts, order, brackets, the escapes of tokens and the coding of labels are not.

A node carries two lists of sorts: the signature that the handler gives it, which
decides how `print` injects the children, and the production of the K grammar
that it means. `Subsorts` is the subsort relation that the files under
`semantics` declare, and a child fits if its sort is the one of the production or
below it; a list takes anything, in K as here. The two lists are the same except
for `KApplyAs`. `WhileAStmt`, `IfAStmt` and `SwitchAStmt` are overloaded on an
expression and a declaration. In six places the visitor departs from the grammar,
which K does not check in terms it is given as kast: `DeclLoc` around enumerators
and template parameters, `FriendDecl` of a type, `NNS` of a type, the default of
a template template parameter (a template argument, not a type), the template of
a dependent specialization (a name, not an identifier), and a constructor's body
(an abstract statement). There the model asks for exactly what the visitor means
to put in.

Strings and labels are read back by definitions of their own: K's string literals
(external) and the table of codes of the repository's other printer of kore,
`kPrinter.ml`. All codes but `And` have four letters; how K itself reads that one
is outside the repository.

`CallSites` uses the same walk for the lines of `call-sites`. `References` is the
function `extract-references` computes from a file tree. `ClangTools` chooses one
input of one tool; `RunFails` is the return of `main` when Clang met an error.

Shapes that Clang can build and for which the handlers do not print a whole tree
are marked: a walk that meets one ends with the status `garbled`, and the
properties speak of all others. They are listed under the disagreements below.

### CString, Tokenizer, MCCString, CStringProofs

A pointer is a buffer and an offset, memory a function; a loop over characters
is the distance to the first place where its condition ends. The search and
comparison functions are operators; the copies and the tokenizers are actions of
a program that calls them in any order with arguments the C standard allows. A
buffer that is being tokenized is a client: one uses `strtok` with its static
pointer, the other `strtok_r`. `Tokenizer` is the promise: a client takes the
tokens of its string one by one, and those it has stay as they are. `exp`, `log`,
`malloc` and the conversions are external; a real number is kept as a sign, a
base and a doubled exponent, which is how `pow` makes it. `CharValues`, the number
of values of `char`, is 256 in the code and even in any case; memory is extended
by the object `tmp` during `memmove`.

## Runs and what they show

| Run | Program or bounds | Properties |
|---|---|---|
| `threads_locked` | main and one thread, x guarded by m, y unguarded; 5 and 3 statements | `MutualExclusion`, `GuardedReadsSeeLatest`, `NoFalseRace`, `LockInv` |
| `threads_any` | any program, 3 and 2 statements | `TypeOK`, `RunningHasCell`, `BuffersDrain` |
| `threads_join` (violation) | as `threads_any` | `JoinedThreadDrained` |
| `objects` | locals of nested blocks; the heap with allocations that fail; filled locals; 5 statements each | `TypeOK`, `BufferedWritesLand`, `MemorySpec`, `StuckOnlyOnFill` |
| `stdio_streams` | one thread: output under every buffer mode, an update stream, input under every buffer mode, a file written, closed and read; 4 to 6 calls | `TypeOK`, `StdoutComplete`, `StreamSpec`, `CallsReturn` |
| `stdio_shared` | two printing threads; input that may follow output | `NothingLost`, `CallsReturn` |
| `stdio_exit` (violation) | output, then exit | `FilesComplete` |
| `native_calls` | up to three objects of two or three bytes, pieces of two, a table of two; 4 requests; reads and writes that fail at any time | `InStep`, `ArgumentsArrive`, `MemoryReturned`, `TableInBounds`, `Answered` |
| `native_eof` (violation) | a client that dies | `ReceivesInFull` |
| `control` | six kinds of program: blocks, calls and jumps; signal handlers that jump or return; exit handlers | `LabelDecides`, `LocalsLive`, `SignalReports`, `HandlersRun`, `StackKept`, `JumpEnds` |
| `clang_tools` | every AST with two unusual constructs, lists of up to two, both formats; calls; short tokens, labels and file trees | `TypeOK`, `PrintsWholeTree`, `ChildrenFit`, `TextReadsBack`, `ReferencesFound` |
| `libc` | buffers of four and two bytes, characters 0, '1' and -1, a literal; a grid of numbers | `TypeOK`, `SearchesAgree`, `ComparisonsAgree`, `CopiesAgree`, `NumbersAgree`, `TakesTokens` |

- `threads_locked`: mutexes exclude; a read in a critical section finds in
  `<mem>` the latest write of any thread although writes are buffered, because
  `mtx_unlock` waits for the holder's buffer; the race rules never accuse a
  guarded object. `LockInv` is the invariant of the proofs.
- `threads_any`: without any discipline the cells keep their types, a thread
  recorded as running has a cell (so a valid join can succeed and a second one
  is reported), and no entry stays in a buffer for ever.
- `objects`: `MemorySpec` is the refinement of `Memory`. `BufferedWritesLand`
  says that what is in the buffer can be flushed; `StuckOnlyOnFill` that the only
  ways for a statement never to end are the two described below.
- `stdio_streams`: `StreamSpec` is the refinement of `ByteStream`; `TypeOK`
  includes the equation between `<pos>`, the descriptor's offset and the
  buffers; `CallsReturn` that a read beyond the end ends.
- `stdio_shared`: two flushes of one stream may interleave their characters
  (`stdio.k` says that output can be interleaved), but none is lost or sent
  twice and each thread finds its own entry in `<sending>`.
- `native_calls`: the two processes agree after each request that pipes and
  buffers are empty, and the server rejects only a call with too many objects,
  so it never takes one field for another; arguments arrive and come back whatever their sizes and
  dirty flags; a call with too many objects is refused before the table
  overflows; each request is answered, or the server rejected it or a pipe failed.
- `control`: the label object is in `<mem>` exactly as long as its activation is
  on the stack, so a jump to a function that ended is always reported and one to
  a function that runs never is; the jump ends; the activations below the one it
  returns to are the same before and after, although the cell that is put back
  is old; no object of an open block is gone. SIGNAL2 is reported under a
  handler only; a program that ends has called each exit handler of its list
  once, in the reverse order, also if handlers jump back into the program.
- `clang_tools`: in 130,000 states every handler, whatever Clang answers, leaves
  the list of nodes so that it prints as one whole tree, with all brackets
  closed and each child of a sort that the K grammar allows in its place. A token
  in the kast format and a label are read back as what was given.
- `libc`: `SearchesAgree`, `ComparisonsAgree` and `CopiesAgree` compare the loops
  with definitions over whole strings in each memory a program can make;
  `TakesTokens` is the refinement of `Tokenizer`.

### Where the code and its documentation disagree

1. `thrd_join` (`threads_join`): the rule waits for the joiner's buffer but
   removes the joined thread's cell together with that thread's buffer, so writes
   the thread made before it returned can be lost.
2. `exit` (`stdio_exit`): only stdout and stderr are flushed, so what is
   buffered for a stream the program opened and did not close is lost.
3. `__recv_message` (`native_eof`): "Guaranteed to receive exactly len
   characters" does not hold at the end of the pipe; the server goes on with
   values it did not receive.

Others were met and have no run of their own. In the semantics:

- A fill of an object that ended: `filterBuffer` (`delete-object.k:32`) keeps
  `bfill` entries, for which there is no rule once the object is gone; the buffer
  never drains again and the next read waits for ever. A local aggregate with an
  initialiser whose block ends before any read is enough. This is the `StaleFill`
  that `StuckOnlyOnFill` admits; without it the property fails.
- `calloc` beyond `maxHeapBound` goes on to zero the object of a null pointer,
  for which there is no rule: the `zeroObject` case of `StuckOnlyOnFill`.
- `fflush(NULL)` flushes every stream but, unlike `fflush` of one stream, does
  not change `<last-op>` (`stdio.k:45`), so a read of an update stream after it is
  reported as IO2, an input "without an intervening call to fflush" (`io.k:202`).
- A read of a stream whose error indicator is set returns what is buffered and
  nothing more, although the file has more (`io.k:174`, `ferror` ends the read as
  `feof` does); an `fputs` that failed is enough to set it. This is why
  `StreamSpec` is about programs that clear errors before they read.
- A `longjmp` made in the block in which `setjmp` was called ends all objects of
  that block, also those declared before: `deleteLocals` (`setjmp.k:184`)
  subtracts the locals of the library function `_setjmp`, not its caller's. Every
  test jumps from a nested block. This is why `LocalsLive` is about `nested`
  programs. And of several nested blocks a jump leaves in the function it returns
  to, only the innermost one's objects are ended.
- A `raise` after a handler was left by `longjmp` is reported as SIGNAL2, "A
  signal handler ... calls the raise function", although no handler runs: the
  state is not reverted. This is why `SignalReports` is about programs with
  `returns`.
- The cell that `longjmp` puts back holds `<locks>`, which goes back, while
  `<glocks>` does not.

In the Clang tools:

- Shapes that print too few or too many nodes: a namespace alias with a qualifier
  (visited twice), a defaulted function for which Clang made a body, a
  `static_assert` without a message, explicit template arguments on a
  `DeclRefExpr` or `DependentScopeDeclRefExpr`, `sizeof` of a variable length
  array, a `PredefinedExpr` in a dependent context.
- `Kast::Nodes` is static and never cleared, so of several files on the command
  line only the first tree is printed. The comment at `ClangKast.h:67` says
  breadth-first; the list is in depth-first order.
- With `-kore` a string token is escaped twice (`ClangKast.cc:226` and `266`), as
  in the kast format, although nothing quotes it inside; what K reads is the
  escaped string. `kPrinter.ml` (177, 211) escapes it once. `TextReadsBack` is
  therefore about the kast format.
- Template arguments that are integers are printed unsigned
  (`GetKastVisitor.h:749`), and `toKString(unsigned)` formats with `%d`.
- The instantiations of variable templates (`GetKastVisitor.h:631`) are code that
  nothing reaches.
- `extract-references` returns 0 after an error that kept it from printing.

In the C sources: the loop of `strchr` looks for the int converted to `char`, the
return compares with the int itself (`string.c:116`), so a byte above 127 that is
given as its unsigned value is never found, by `strrchr` neither; `SearchesAgree`
gives them values of `char`, and `memchr`, which converts, any int. `atoi` knows neither signs nor white space; `pow` of zero and a negative exponent
is 0; `memmove` does not check its `malloc`.

## Bounds and why they are enough

Every bound is a constant or a field of `program`. Two threads and one mutex
show each pairwise interleaving of the thread rules, none of which mentions more
than two threads. `ThreadsProofs`, `ObjectsProofs`, `StdioProofs`,
`StdioRefinement`, `NativeServerProofs`, `ControlProofs` and `CStringProofs`
remove the bounds for what they prove. Two
objects of up to two bytes let an entry of the buffer concern the same byte,
another byte of the object, or another object, and a write end inside or one
past the end; with `maxHeapBound = 1`, allocations both fit and fail. Five
statements are enough for create, write, end, create again and read. Buffers of
size two (reduced to one by `setvbuf`), strings up to two characters and files
up to three make a buffer empty, partly full, exactly full and overfull, and a
file shorter than, equal to and longer than the read-ahead. Objects of two
and three bytes with pieces of two make the last piece shorter than, equal to, and
the remainder of, the dirty buffer; three objects exceed a table of two. Three activations, four objects and two
saved environments let a jump cross an activation, arrive in one that called
`setjmp` twice, meet a buffer whose function has ended, and happen inside a
handler. Two unusual constructs per AST put each construct inside each other one
and beside each other one (three were tried once, with 2.0 million states);
lists of up to two members are empty, single and longer. Buffers of four and two
bytes hold strings with two tokens, overlap under `memmove`, and are exactly
filled; the byte swaps are checked with bytes of two values, which suffices as
they only move bytes. Deadlock
checking is off because a program that has ended, or halted on a reported error,
takes no step; progress is stated by the liveness properties instead.

## Fairness and why the code justifies it

The interpreter applies rules as long as one applies, so `Threads` and `Objects`
assume weak fairness of `Next` as a whole and nothing about which thread moves:
`BuffersDrain` holds because programs are finite and flushing is what remains. It
does not say that a thread which spins for ever lets others' writes be flushed.
`Stdio` assumes weak fairness of each thread's steps, not of the program's next
call: a thread in a call always has a step unless its stream is closed by
another, so an interpreter that works on both threads gets there.
`Control` assumes weak fairness of `Next`, as for `Threads`; `JumpEnds` needs
nothing more because during a jump the program does nothing else.
`NativeServer` assumes weak fairness of each of the two processes, that is that
the operating system runs both; neither a new request, nor the client's death,
nor the failure of a pipe (`PipeFails` is no part of `Server`) is assumed to
happen. The Clang tools and the library functions have no liveness
property: they stop when their input ends.

## Proofs

`ThreadsProofs` proves, from `ThreadsAssumption` alone (any `MaxThread`, any sets
of objects and mutexes, values that are naturals, any `Guard`, any length of the
program):

- `TypeCorrect`: `Spec => []TypeOK`, for every program;
- `LockInvariant`: if `LockDiscipline`, `Spec => []LockInv`;
- `LocksExclude`, `GuardedReadsLatest`, `GuardedNeverRace`: `MutualExclusion`,
  `GuardedReadsSeeLatest` and `NoFalseRace`, consequences of `LockInv`;
- `RunningThreadsExist`: `RunningHasCell`, for every program.

None of the three about locks is inductive. That a guarded read finds the latest value
depends on where that value can be: `Coherent` says that only the holder of the
guard has entries for the object in its buffer, that the last of them is the
latest write, and that without any `<mem>` has it. `MtxUnlock` preserves this
because it waits for an empty buffer, `Flush` because entries leave in order.
That only the holder writes needs `AllWellFormed`: each item still to be done in
a thread's `<k>` is covered by the locks the thread holds now, and an item that
changes what is held is alone there (apart from `HALT`). `LocksAtMostOnce` makes
one unlock give the mutex up. The proof has one lemma for each action, and
lemmas on what pushing and popping an item does to a well-formed computation.

`ObjectsProofs` proves, from `ObjectsAssumption` alone (objects, offsets, lengths
and programs of any number):

- `ObjectsInvariant`: `Spec => []ObjectsInv`;
- `CellsTyped` and `BufferedWritesAlwaysLand`: `TypeOK` and `BufferedWritesLand`;
- `BufferInvisible`: `Spec => MemorySpec`, the refinement of `Memory`.

`ObjectsInv` says of an entry of the buffer that its object was created before,
that a `bwrite` has a live object, since `filterBuffer` ran when one ended, and
that the entry lies inside it; that a live object belongs to one block or to
`<malloced>`, without which the end of a block could take away an object that
something else still writes to; and which items `<k>` can hold, so that an
initialisation still to be done concerns a live object. The refinement follows one action at a time. A flush
leaves each byte as it was seen, because the entry it takes is the oldest and
`Latest` picks the youngest; a write adds the youngest; and what `filterBuffer`
drops concerns objects that `Memory` no longer has either.

`StdioProofs` proves, from `StdioAssumption` (streams, characters, sizes of
buffers, lengths of strings and of programs of any number):

- `StdioInvariant`, `PositionsFit` and `StdoutIsComplete`: if there is one thread
  (`OneThread`), `Spec => []StdioInv`, `Spec => []TypeOK` and
  `Spec => []StdoutComplete`, whatever the program calls.

That `<pos>` is where the next character goes is preserved by no rule alone: a
seek sets it to the offset and empties the buffers, which is right only because
a flush has come before and nothing was written in between. `StdioInv` therefore
says what `<k>` is made of: `A`, items that send characters, and then `R`, the
rest of the one call under way. What `R` does next relies on `A`: a `seek` or
`close` of a stream has nothing to lose or its `flush` is still in `A`
(`Flushes`), a `flush` of stdout stands before `end`, a relative seek ends inside
the file as it will be (`Reaches`). `GoodCell` adds for each stream the equation
of the position, that a character is in `<next-byte>` only while `fillBuffer` is
next, that input is buffered only after input and output only after output or
before a flush, and that the end was met only at the end of the file. One thread
is a hypothesis because two make the equation false: while one sends characters
the other may seek, or close the stream and open it again.

It also proves `NothingIsLost`: `Spec => []NothingLost`, for any
number of threads, if programs that open no file only print to stdout, flush it
and end (`PrintsOnly`). Several threads may be sending at once, each with a string it took
from the buffer, and their characters reach the file in any order, so no equation
between sequences is preserved. `PrintInv` counts instead: for every set of
characters, those in the file and those the threads have still to send (`Owed`, a
set of pairs of a thread and an index, whose cardinality is taken) are together
as many as those in `<done>` and `<sending>` (`Balance`); each announced string
has one thread that sends it; the offset is the end of the file; and `<pos>` is
the length of what was recorded, announced and buffered. With the set of all
characters this gives the length of the file, with a set of one character its
occurrences.

`StdioRefinement` proves `StreamsUnbuffered`: `Spec => StreamSpec`, for one
thread (`OneThread`) and programs that separate output from input and clear
errors before they read (`Disciplined`). Six rules are actions of `ByteStream`,
when they report no error: `writeFD` is `Output`, `readFD` `Input`, `unget`
`PushBack`, `seek` `Seek`, and opening and closing are themselves; every other
step leaves what the program sees as it was. The three ideas are these.

- The characters a stream still has to send (`Waiting`) count as written, so a
  flush that sends them one by one changes nothing: to overwrite with one piece
  and then with another behind it is to overwrite with both (`OverwriteTwice`).
  The same fact makes a write that is only buffered an `Output` at `<pos>`.
- Filling moves a character from what follows the offset into `<next-byte>` and
  from there into `<read-buffer>`; the three together stay the same. This needs
  that nothing waits on the stream, the first half of `Disciplined`.
- A read that gets less than it asked for is one at the end: `feof`, not
  `ferror` (the second half), ended it, and by `StdioInv` the offset is then the
  file's length, so nothing follows the buffer. `seek` and `close` have nothing to lose because
  `StdioInv` has the flush before them.

`NativeServerProofs` proves, from the assumptions on the constants alone (any
objects, sizes of the dirty buffer and of the table, numbers of requests; the
client may die, and a read or a write may fail, at any point):

- `ProtocolInvariant`: `Spec => []Protocol`;
- `ProcessesInStep`, `ArgumentsAlwaysArrive`, `MemoryAlwaysReturned` and
  `TableStaysInBounds`: `InStep`, `ArgumentsArrive`, `MemoryReturned` and
  `TableInBounds`.

These speak of moments between requests, and say nothing of the long stretch in
between. `Protocol` says for each place of the server what has still to come: the
elements in the pipe followed by those the client has not sent yet are exactly
the rest of the encoding of the request from that place on (`Asked`), or the
answer so far and what the server will add make the encoding of the reply
(`Replied`). A dead client leaves some rest that would have completed it. A server
that aborted while it read leaves the rest of the request unexplained, one that
aborted while it wrote leaves an answer in the pipe and the buffer; between two
requests both are empty in any case. One that rejected had a call with more
objects than the table holds. The
server's memory and table agree with the objects received so far. The encodings
are `FlattenSeq` of one part per object; receiving a field or a piece takes it
from the front.

`ControlProofs` proves, from the assumptions on the constants alone (any number
of activations, blocks, objects, jump buffers, handlers and signals):

- `ControlInvariant`: `Spec => []ControlInv`;
- `LabelsDecide`, `LocalsStayLive`, `SignalReportsRight`, `HandlersAllRun`:
  `LabelDecides`, `LocalsLive`, `SignalReports` and `HandlersRun`;
- `StackIsKept`: `Spec => StackKept`, an action property.

`BufsOK` is what makes a jump safe: as long as the label of the function that
called `setjmp` lives, that activation is on the stack, at the height it had, on
the activations that are saved below it; so putting the old cell back changes
nothing below. It holds because objects are never used twice and belong to one
block of one activation, in the running stack and in every saved one (`Placed`).
`JumpOK` keeps what was required when a jump began until it lands; `ExitsOK` says
that the handlers called and those left are together all that were registered.

`CStringProofs` proves, from the four assumptions of `CString` (any buffers and
sizes, any literal that ends in 0, an even number of values of `char`, any bounds
on offsets and counts):

- `TypeCorrect`: `Spec => []TypeOK`;
- `CopiesCorrect`, `ComparisonsCorrect` and `SearchesCorrect`: `CopiesAgree`,
  `ComparisonsAgree` and `SearchesAgree`;
- `TokensTaken`: `Spec => TakesTokens`, the refinement of `Tokenizer`.

`StringInv` is `MemInv`, that each buffer has its size and holds characters, and
for each client that takes a string apart: what is left is a string that ends in
its buffer, or the empty literal (`RestOK`), and the tokens it has been given are
strings that end before what is left (`TokensOK`). Without the second part a cut
could join what the first part keeps. The other three theorems need only
`MemInv`, but for loops of any length. `FirstInIs` says that a loop that counts up
stops at the least number of the set of its stops, if there is one; the stops that
a 0 guarantees are `Str`, those a count guarantees `Within` and `Cut`. A copying
loop is a fold, and `MemcpyIs` gives memory after each number of its steps by
induction (`StepInduction`), which is where the overlap of source and destination
matters. `strrchr` and `strstr` go on with what follows a hit: a
closed form satisfies the equation of the recursive function, and whatever
satisfies it is that closed form, by induction from the end of the string down
(`Descent`). A comparison is settled at
the first place where the strings differ or end (`CompareIs`), which is what
`Before` asks for.

`TokensTaken` uses the whole of `StringInv`. A call of `strtok_r` parts what is left
at its first character that is no delimiter and then at the next delimiter
(`SplitIs`), the places where `Tokenizer` parts the abstract string. The cut
writes one 0, where the token ends, so the token and what is left after it are the
bytes they were before, and so are the earlier tokens, which end before
(`CutGives`); another client's string is in another buffer (`OthersSee`). The
calls that write go to buffers nobody is taking apart and are stutters
(`WriteHidden`).

`DataInduction` holds the facts on sequences that these proofs share.
The library's induction theorems take an operator as parameter; `Induction` and
`BoundedInduction` state induction for a set of numbers instead, proved from the
existence of a least element, and from them follow what `FlattenSeq` returns
(`FlattenConcat`, `FlattenCons`, `FlattenAt`) and how sequences are cut and joined.

Only model-checked: liveness (`BuffersDrain`, `StuckOnlyOnFill`, `CallsReturn`,
`Answered`, `JumpEnds`; TLAPS 1.4.5 does not prove liveness under fairness); the
properties of the Clang tools, which compare the code with reference definitions on
every input of a bounded size; `NumbersAgree`, whose powers and products are beyond
the arithmetic of the provers.

## Not modelled

- Typed aspects of memory: effective types, const, volatile, restrict, flexible
  array members, native and hardware objects.
- Formatting and scanning (`printf`, `scanf`), append mode, `freopen`,
  `tmpfile`, string streams, streams that share a file; the report STDIO8 of an
  `fopen` with a mode that does not exist (`stdio.k:417`), and the option
  `NoIO`, under which `sendString` writes nothing (`io.k:352`).
- The sequence point before and after a library call (`function-call.k:70`,
  `return.k:80`): `<locs-written>` is kept across `Memset` and the allocations. A
  program of `Objects` may pass a sequence point there but need not, so it meets
  more reports of unsequenced writes than the code makes; none of its properties
  is about those.
- Expressions and their order of evaluation; goto, loops and switches; `va_list`;
  arguments of calls and the environment of names; the table of signal handlers,
  which is in native code; the set-up of `argc`, `argv` and the globals.
- The store buffer during a jump: a library call waits until its parameters are
  flushed, so the buffer is empty when `setjmp` and `longjmp` run.
- The walk that finds the calls for `call-sites`, and Clang itself.
- The C and C++ translation semantics, typing and conversion, and the parser:
  deterministic functions on syntax trees, where a model would repeat the code.
  Drivers and generators: text processing.

## Plan

1. `Restrict` and `Sequencing`: conflicts found when scopes merge against a
   definition over the whole list of accesses; unsequenced side effects under
   every order of evaluation.
2. `Linking`: the result under every order of the units.
3. C++ exceptions: unwinding and destruction of temporaries.
4. goto in `Control`, with the blocks it enters and leaves, and `va_list`.
