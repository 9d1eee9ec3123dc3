-------------------------------- MODULE Stdio --------------------------------
(***************************************************************************)
(* Streams: the <file> cells with their read and write buffers, the        *)
(* functions of stdio.h that use them, and exit and abort                  *)
(* (semantics/c/library/io.k, stdio.k, stdlib.k).  A rule is a step, so    *)
(* that the threads of a program interleave between any two characters     *)
(* that a flush sends.                                                     *)
(*                                                                         *)
(* The operating system's files and K's #getc, #putc, #seek, #tell, #open  *)
(* and #close are external: a descriptor has one offset into its file.     *)
(***************************************************************************)
EXTENDS Integers, Sequences, SequencesExt

CONSTANTS
  Streams,      \* file descriptors
  stdout,       \* one of them, open from the start
  uri,          \* [Streams -> files]
  Chars, nl,    \* characters, among them the newline
  Threads,      \* threads of the program
  bufSiz,       \* buffer size of a new stream
  BufSizes,     \* sizes given to setvbuf
  MaxString,    \* longest string written, largest read
  MaxFile,      \* longest file, a bound
  Programs      \* the kinds of programs: ops, the functions they call;
                \* threads, which threads they have; maxString, maxFile and
                \* maxCalls, bounds; disciplined, whether they separate
                \* output from input on a stream and clear errors first

EOF == "EOF"    \* -1, what #getc gives at the end of a file

ASSUME StdioAssumption ==
  /\ stdout \in Streams /\ nl \in Chars /\ Streams \subseteq Nat
  /\ EOF \notin Chars /\ \A x, y \in Streams : uri[x] = uri[y] => x = y
  /\ bufSiz \in Nat /\ BufSizes \subseteq Nat \ {0}
  /\ MaxString \in Nat \ {0} /\ MaxFile \in Nat
  /\ \A p \in Programs :
       /\ p.threads \subseteq Threads /\ p.disciplined \in BOOLEAN
       /\ p.maxString \in 1 .. MaxString /\ p.maxFile \in 0 .. MaxFile
       /\ p.maxCalls \in Nat

VARIABLES
  k,        \* <k> of every thread
  files,    \* <file>: [open streams -> cells]; the domain is <open-files>
  os,       \* external: contents of the files, [URIs -> characters]
  offset,   \* external: offset of every descriptor
  status,   \* <status>
  result,   \* the string the last read returned
  errors,   \* reported error codes
  program,  \* the kind of program that runs
  calls     \* calls made (bound)

vars == <<k, files, os, offset, status, result, errors, program, calls>>

Strings == SeqOf(Chars, MaxString) \ {<<>>}
URIs == {uri[x] : x \in Streams}
Modes == {"r", "w", "r+"}
BufModes == {"fullBuf", "lineBuf", "noBuf"}
LastOps == {"noLastOp", "outputOp", "flushOp", "seekOp", "inputOp"}

isReadable(mode) == mode \in {"r", "r+"}
isWritable(mode) == mode \in {"w", "r+"}

call(op, x)         == [op |-> op, fd |-> x]
callWith(op, x, a)  == [op |-> op, fd |-> x, arg |-> a]
setvbuf(x, mode, n) == [op |-> "setvbuf", fd |-> x, arg |-> mode, size |-> n]

Statements ==
  {call(op, x) : op \in {"fflush", "clearerr", "rewind", "fclose"}, x \in Streams}
    \cup {callWith("fputs", x, s) : x \in Streams, s \in Strings}
    \cup {callWith("fread", x, n) : x \in Streams, n \in 1 .. MaxString}
    \cup {callWith("ungetc", x, c) : x \in Streams, c \in Chars}
    \cup {callWith("fseekCur", x, n) : x \in Streams, n \in {-1, 1}}
    \cup {call("fseekEnd", x) : x \in Streams}
    \cup {callWith("fopen", x, m) : x \in Streams, m \in Modes}
    \cup {setvbuf(x, m, n) : x \in Streams, m \in BufModes, n \in BufSizes}
    \cup {call(op, stdout) : op \in {"fflushAll", "exit", "abort"}}

AtHead(t, op) == k[t] # <<>> /\ Head(k[t]).op = op
Fd(t) == Head(k[t]).fd
Open(x) == x \in DOMAIN files
(* The thread's next item is replaced by the items ks.                     *)
Becomes(t, ks) == k' = [k EXCEPT ![t] = ks \o Tail(@)]
Halts(t, code) ==
  /\ k' = [k EXCEPT ![t] = <<[op |-> "HALT"]>> \o @]
  /\ errors' = errors \cup {code}

newFile(mode, buf) ==
  [pos |-> 0, mode |-> mode, nextByte |-> <<>>, readBuffer |-> <<>>,
   writeBuffer |-> <<>>, bufMode |-> buf, bufSize |-> bufSiz,
   sending |-> <<>>, done |-> <<>>, feof |-> FALSE, ferror |-> FALSE,
   lastOp |-> "noLastOp"]

Init ==
  /\ k = [t \in Threads |-> <<>>]
  /\ files = [x \in {stdout} |-> newFile("w", "lineBuf")]
  /\ os = [u \in URIs |-> <<>>]
  /\ offset = [x \in Streams |-> 0]
  /\ status = "mainCalled"
  /\ result = <<>>
  /\ errors = {}
  /\ program \in Programs
  /\ calls = 0

-----------------------------------------------------------------------------
(* What is written and not yet in the file: the characters being sent,     *)
(* then the write buffer.                                                  *)
Unsent(x) ==
  FoldSet(LAMBDA t, s : s \o FlattenSeq([i \in DOMAIN k[t] |->
             IF k[t][i].op = "sendString" /\ k[t][i].fd = x THEN k[t][i].arg ELSE <<>>]),
          <<>>, Threads)
Pending(x) == Unsent(x) \o files[x].writeBuffer

Overwrite(file, p, s) ==
  SubSeq(file, 1, p) \o s \o SubSeq(file, p + Len(s) + 1, Len(file))

(* The file as the program sees it.                                        *)
Contents(x) == Overwrite(os[uri[x]], offset[x], Pending(x))

(* The program calls a function.  It pushes back only after it read, seeks *)
(* inside the file, uses streams that are open, opens those that are not,  *)
(* and does not abort once stdout is closed.                               *)
Call(t, s) ==
  /\ k[t] = <<>>
  /\ status = "mainCalled"
  /\ t \in program.threads
  /\ calls < program.maxCalls
  /\ s.op \in program.ops
  /\ s.op \in {"fflushAll", "exit"} \/ (s.op = "fopen" <=> ~Open(s.fd))
  /\ s.op = "fputs" =>
       /\ Len(s.arg) <= program.maxString
       /\ Len(Contents(s.fd)) + Len(s.arg) <= program.maxFile
  /\ s.op = "fread" => s.arg <= program.maxString
  /\ s.op = "fread" /\ program.disciplined =>
       files[s.fd].lastOp # "outputOp" /\ ~files[s.fd].ferror
  /\ s.op = "ungetc" => files[s.fd].lastOp = "inputOp" /\ files[s.fd].pos > 0
  /\ s.op = "fseekCur" => files[s.fd].pos + s.arg \in 0 .. Len(Contents(s.fd))
  /\ k' = [k EXCEPT ![t] = <<s>>]
  /\ calls' = calls + 1
  /\ UNCHANGED <<files, os, offset, status, result, errors, program>>

-----------------------------------------------------------------------------
(* Output.                                                                 *)

(* fputs, fputc, fprintf, fwrite.                                          *)
Fputs(t) ==
  /\ AtHead(t, "fputs")
  /\ \/ /\ isWritable(files[Fd(t)].mode)
        /\ Becomes(t, <<callWith("writeFD", Fd(t), Head(k[t]).arg)>>)
        /\ UNCHANGED files
     \/ /\ ~isWritable(files[Fd(t)].mode)
        /\ files' = [files EXCEPT ![Fd(t)].ferror = TRUE]
        /\ Becomes(t, <<>>)
  /\ UNCHANGED <<os, offset, status, result, errors, program, calls>>

(* Input, not at the end of the file, was the last operation (IO1).        *)
AfterInput(f) == f.lastOp = "inputOp" /\ (f.feof => f.readBuffer # <<>>)

(* Whether a stream whose write buffer is now s, after piece was added,    *)
(* has to be flushed.                                                      *)
MustFlush(f, s, piece) ==
  \/ f.bufMode = "lineBuf" /\ Contains(piece, nl)
  \/ f.bufMode = "fullBuf" /\ Len(s) >= f.bufSize
  \/ f.bufMode = "noBuf"

WriteFD(t) ==
  /\ AtHead(t, "writeFD")
  /\ Open(Fd(t))
  /\ LET f == files[Fd(t)]
         piece == Head(k[t]).arg
         s == f.writeBuffer \o piece
     IN
     \/ /\ ~AfterInput(f)
        /\ files' = [files EXCEPT ![Fd(t)] =
                       [f EXCEPT !.writeBuffer = s, !.pos = f.pos + Len(piece),
                                 !.lastOp = "outputOp"]]
        /\ Becomes(t, IF MustFlush(f, s, piece) THEN <<call("flush", Fd(t))>> ELSE <<>>)
        /\ UNCHANGED errors
     \/ /\ AfterInput(f)
        /\ Halts(t, "IO1")
        /\ UNCHANGED files
  /\ UNCHANGED <<os, offset, status, result, program, calls>>

(* The string leaves <write-buffer> and is announced in <sending>.         *)
moveNotEmptied(f) == [f EXCEPT !.sending = Append(@, f.writeBuffer)]
moveUnannounced(f) == [f EXCEPT !.writeBuffer = <<>>]
moveToSending(f) ==
  [f EXCEPT !.writeBuffer = <<>>, !.sending = Append(@, f.writeBuffer)]

Flush(t) ==
  /\ AtHead(t, "flush")
  /\ \/ /\ Open(Fd(t))
        /\ LET s == files[Fd(t)].writeBuffer IN
           /\ files' = [files EXCEPT ![Fd(t)] = moveToSending(@)]
           /\ Becomes(t, <<callWith("sendString", Fd(t), s), callWith("sent", Fd(t), s)>>)
     \/ /\ ~Open(Fd(t))
        /\ Becomes(t, <<>>)
        /\ UNCHANGED files
  /\ UNCHANGED <<os, offset, status, result, errors, program, calls>>

SendString(t) ==
  /\ AtHead(t, "sendString")
  /\ LET s == Head(k[t]).arg
         x == Fd(t)
     IN
     \/ /\ s # <<>>
        /\ os' = [os EXCEPT ![uri[x]] = Overwrite(@, offset[x], <<Head(s)>>)]
        /\ offset' = [offset EXCEPT ![x] = @ + 1]
        /\ Becomes(t, <<callWith("sendString", x, Tail(s))>>)
     \/ /\ s = <<>>
        /\ Becomes(t, <<>>)
        /\ UNCHANGED <<os, offset>>
  /\ UNCHANGED <<files, status, result, errors, program, calls>>

Sent(t) ==
  /\ AtHead(t, "sent")
  /\ Open(Fd(t))
  /\ LET s == Head(k[t]).arg
         f == files[Fd(t)]
     IN
     /\ f.sending # <<>> /\ Head(f.sending) = s
     /\ files' = [files EXCEPT ![Fd(t)] =
                    [f EXCEPT !.sending = Tail(f.sending), !.done = f.done \o s]]
  /\ Becomes(t, <<>>)
  /\ UNCHANGED <<os, offset, status, result, errors, program, calls>>

(* flushAll: every open stream, in any order.                              *)
FlushAll(t) ==
  /\ AtHead(t, "flushAll") \/ AtHead(t, "fflushAll")
  /\ \E order \in SetToSeqs(DOMAIN files) :
       Becomes(t, [i \in DOMAIN order |-> call("flush", order[i])])
  /\ UNCHANGED <<files, os, offset, status, result, errors, program, calls>>

(* fflush of one stream (STDIO7).                                          *)
FflushDone(x) == [files EXCEPT ![x].lastOp = "flushOp"]
Fflush(t) ==
  /\ AtHead(t, "fflush")
  /\ LET f == files[Fd(t)]
         allowed == isWritable(f.mode) /\ f.lastOp # "inputOp"
     IN
     \/ /\ allowed
        /\ files' = FflushDone(Fd(t))
        /\ Becomes(t, <<call("flush", Fd(t))>>)
        /\ UNCHANGED errors
     \/ /\ ~allowed
        /\ Halts(t, "STDIO7")
        /\ UNCHANGED files
  /\ UNCHANGED <<os, offset, status, result, program, calls>>

-----------------------------------------------------------------------------
(* Input.                                                                  *)

(* fread, fgetc.                                                           *)
Fread(t) ==
  /\ AtHead(t, "fread")
  /\ LET f == files[Fd(t)]
         read == callWith("readFD", Fd(t), Head(k[t]).arg)
     IN
     \/ /\ isReadable(f.mode)
        /\ Becomes(t, IF f.bufMode = "noBuf" THEN <<call("flushAll", Fd(t)), read>>
                      ELSE <<read>>)
        /\ UNCHANGED files
     \/ /\ ~isReadable(f.mode)
        /\ files' = [files EXCEPT ![Fd(t)].ferror = TRUE]
        /\ Becomes(t, <<>>)
  /\ UNCHANGED <<os, offset, status, result, errors, program, calls>>

AfterOutput(f) == f.lastOp = "outputOp"
(* feof and ferror end a read that the buffer cannot satisfy.              *)
Ended(f) == f.feof \/ f.ferror

(* readFD'.  After output it is IO2, before or after the buffer is filled. *)
ReadFD(t) ==
  /\ AtHead(t, "readFD")
  /\ Open(Fd(t))
  /\ LET f == files[Fd(t)]
         n == Head(k[t]).arg
         got == SubSeq(f.readBuffer, 1, IF n < Len(f.readBuffer) THEN n ELSE Len(f.readBuffer))
     IN
     \/ /\ Len(f.readBuffer) >= n \/ Ended(f)
        /\ ~AfterOutput(f)
        /\ result' = got
        /\ files' = [files EXCEPT ![Fd(t)] =
                       [f EXCEPT !.pos = f.pos + Len(got), !.lastOp = "inputOp",
                                 !.readBuffer = SubSeq(f.readBuffer, Len(got) + 1,
                                                       Len(f.readBuffer))]]
        /\ Becomes(t, <<>>)
        /\ UNCHANGED errors
     \/ /\ Len(f.readBuffer) < n /\ ~Ended(f)
        /\ k' = [k EXCEPT ![t] =
                   (IF f.bufMode = "lineBuf" THEN <<call("flushAll", Fd(t))>> ELSE <<>>)
                   \o <<call("fillBuffer", Fd(t))>> \o @]
        /\ UNCHANGED <<files, result, errors>>
     \/ /\ AfterOutput(f)
        /\ Halts(t, "IO2")
        /\ UNCHANGED <<files, result>>
  /\ UNCHANGED <<os, offset, status, program, calls>>

(* fillBuffer', the #getc: <next-byte> is empty, a character or -1.        *)
Getc(t) ==
  /\ AtHead(t, "fillBuffer")
  /\ Open(Fd(t))
  /\ files[Fd(t)].nextByte = <<>>
  /\ LET x == Fd(t)
         atEnd == offset[x] >= Len(os[uri[x]])
     IN
     /\ files' = [files EXCEPT ![x].nextByte =
                    IF atEnd THEN <<EOF>> ELSE <<os[uri[x]][offset[x] + 1]>>]
     /\ offset' = [offset EXCEPT ![x] = IF atEnd THEN @ ELSE @ + 1]
  /\ UNCHANGED <<k, os, status, result, errors, program, calls>>

(* The buffer has enough once byte was added.                              *)
Filled(f, byte) ==
  \/ f.bufMode = "lineBuf" /\ byte = nl
  \/ f.bufMode = "fullBuf" /\ Len(f.readBuffer) + 1 >= f.bufSize
  \/ f.bufMode = "noBuf"

setEofNever(f) == f
setEof(f) == [f EXCEPT !.feof = TRUE]

FillBuffer(t) ==
  /\ AtHead(t, "fillBuffer")
  /\ Open(Fd(t))
  /\ LET f == files[Fd(t)] IN
     /\ f.nextByte # <<>>
     /\ \/ /\ f.nextByte = <<EOF>>
           /\ files' = [files EXCEPT ![Fd(t)] = setEof(@)]
           /\ Becomes(t, <<>>)
        \/ /\ f.nextByte # <<EOF>>
           /\ files' = [files EXCEPT ![Fd(t)] =
                          [f EXCEPT !.nextByte = <<>>,
                                    !.readBuffer = f.readBuffer \o f.nextByte]]
           /\ k' = IF Filled(f, f.nextByte[1]) THEN [k EXCEPT ![t] = Tail(@)] ELSE k
  /\ UNCHANGED <<os, offset, status, result, errors, program, calls>>

ungetKeepsPos(f, c) ==
  [f EXCEPT !.readBuffer = <<c>> \o @, !.nextByte = <<>>]
unget(f, c) ==
  [f EXCEPT !.readBuffer = <<c>> \o @, !.nextByte = <<>>, !.pos = @ - 1]

(* unget, then cleareof.                                                   *)
Ungetc(t) ==
  /\ AtHead(t, "ungetc")
  /\ files' = [files EXCEPT ![Fd(t)] =
                 [unget(@, Head(k[t]).arg) EXCEPT !.feof = FALSE]]
  /\ Becomes(t, <<>>)
  /\ UNCHANGED <<os, offset, status, result, errors, program, calls>>

Clearerr(t) ==
  /\ AtHead(t, "clearerr")
  /\ files' = [files EXCEPT ![Fd(t)] = [@ EXCEPT !.ferror = FALSE, !.feof = FALSE]]
  /\ Becomes(t, <<>>)
  /\ UNCHANGED <<os, offset, status, result, errors, program, calls>>

-----------------------------------------------------------------------------
(* Positioning: flush, then seek with seek' and cleareof.                  *)
SeekNoFlush(x) == <<>>
SeekFlush(x) == <<call("flush", x)>>

Fseek(t) ==
  /\ k[t] # <<>> /\ Head(k[t]).op \in {"fseekCur", "fseekEnd", "rewind"}
  /\ LET s == Head(k[t]) IN
     Becomes(t, SeekFlush(s.fd)
                \o <<callWith("seek", s.fd,
                       CASE s.op = "fseekCur" -> <<"cur", s.arg>>
                         [] s.op = "fseekEnd" -> <<"end", 0>>
                         [] s.op = "rewind"   -> <<"set", 0>>)>>
                \o (IF s.op = "rewind" THEN <<call("clearerr", s.fd)>> ELSE <<>>))
  /\ UNCHANGED <<files, os, offset, status, result, errors, program, calls>>

Seek(t) ==
  /\ AtHead(t, "seek")
  /\ LET x == Fd(t)
         whence == Head(k[t]).arg
         p == CASE whence[1] = "cur" -> files[x].pos + whence[2]
                [] whence[1] = "end" -> Len(os[uri[x]])
                [] whence[1] = "set" -> whence[2]
     IN
     /\ offset' = [offset EXCEPT ![x] = p]
     /\ files' = [files EXCEPT ![x] =
                    [@ EXCEPT !.pos = p, !.nextByte = <<>>, !.readBuffer = <<>>,
                              !.writeBuffer = <<>>, !.lastOp = "seekOp", !.feof = FALSE]]
  /\ Becomes(t, <<>>)
  /\ UNCHANGED <<os, status, result, errors, program, calls>>

-----------------------------------------------------------------------------
Fopen(t) ==
  /\ AtHead(t, "fopen")
  /\ LET x == Fd(t)
         mode == Head(k[t]).arg
     IN
     /\ files' = [y \in DOMAIN files \cup {x} |->
                    IF y = x THEN newFile(mode, "fullBuf") ELSE files[y]]
     /\ os' = IF mode = "w" THEN [os EXCEPT ![uri[x]] = <<>>] ELSE os
     /\ offset' = [offset EXCEPT ![x] = 0]
  /\ Becomes(t, <<>>)
  /\ UNCHANGED <<status, result, errors, program, calls>>

(* The file cannot be opened: a null pointer, and no <file> cell.          *)
FopenFails(t) ==
  /\ AtHead(t, "fopen")
  /\ Becomes(t, <<>>)
  /\ UNCHANGED <<files, os, offset, status, result, errors, program, calls>>

fclose(x) == <<call("flush", x), call("close", x)>>

Fclose(t) ==
  /\ AtHead(t, "fclose")
  /\ Becomes(t, fclose(Fd(t)))
  /\ UNCHANGED <<files, os, offset, status, result, errors, program, calls>>

Close(t) ==
  /\ AtHead(t, "close")
  /\ Open(Fd(t))
  /\ files' = [y \in DOMAIN files \ {Fd(t)} |-> files[y]]
  /\ Becomes(t, <<>>)
  /\ UNCHANGED <<os, offset, status, result, errors, program, calls>>

Setvbuf(t) ==
  /\ AtHead(t, "setvbuf")
  /\ files' = [files EXCEPT ![Fd(t)] =
                 [@ EXCEPT !.bufMode = Head(k[t]).arg, !.bufSize = Head(k[t]).size]]
  /\ Becomes(t, <<>>)
  /\ UNCHANGED <<os, offset, status, result, errors, program, calls>>

(* <atexit> starts with the flush of stdout (and of stderr, which has no   *)
(* buffer); what a program registers itself is not modelled here.          *)
AtExitEmpty == <<>>
AtExit == <<call("flush", stdout)>>

Exit(t) ==
  /\ AtHead(t, "exit")
  /\ status = "mainCalled"
  /\ status' = "mainExited"
  /\ k' = [k EXCEPT ![t] = AtExit \o <<[op |-> "end"]>>]
  /\ UNCHANGED <<files, os, offset, result, errors, program, calls>>

(* abort prints "Aborted" and does not call what was registered.           *)
Abort(t) ==
  /\ AtHead(t, "abort")
  /\ k' = [k EXCEPT ![t] = <<callWith("writeFD", stdout, <<nl>>), call("flush", stdout),
                             [op |-> "end"]>>]
  /\ UNCHANGED <<files, os, offset, status, result, errors, program, calls>>

End(t) ==
  /\ AtHead(t, "end")
  /\ status' = "terminated"
  /\ Becomes(t, <<>>)
  /\ UNCHANGED <<files, os, offset, result, errors, program, calls>>

Step(t) ==
  \/ Fputs(t) \/ WriteFD(t) \/ Flush(t) \/ SendString(t) \/ Sent(t)
  \/ FlushAll(t) \/ Fflush(t)
  \/ Fread(t) \/ ReadFD(t) \/ Getc(t) \/ FillBuffer(t) \/ Ungetc(t) \/ Clearerr(t)
  \/ Fseek(t) \/ Seek(t)
  \/ Fopen(t) \/ FopenFails(t) \/ Fclose(t) \/ Close(t) \/ Setvbuf(t)
  \/ Exit(t) \/ Abort(t) \/ End(t)

Next ==
  \E t \in Threads :
    \/ \E s \in Statements : Call(t, s)
    \/ Step(t)

Spec == Init /\ [][Next]_vars

(* Every thread the interpreter can rewrite is rewritten in the end.       *)
FairSpec == Spec /\ \A t \in Threads : WF_vars(Step(t))

-----------------------------------------------------------------------------
Codes == {"IO1", "IO2", "STDIO7"}

(* A file's position, its buffers and the descriptor's offset fit          *)
(* together: ftell is where the next character is read or written.         *)
TypeOK ==
  /\ \A x \in DOMAIN files :
       LET f == files[x] IN
       /\ f.mode \in Modes /\ f.bufMode \in BufModes /\ f.lastOp \in LastOps
       /\ f.feof \in BOOLEAN /\ f.ferror \in BOOLEAN
       /\ f.pos = offset[x] + Len(Pending(x)) - Len(f.readBuffer)
                    - (IF f.nextByte \in {<<>>, <<EOF>>} THEN 0 ELSE 1)
  /\ status \in {"mainCalled", "mainExited", "terminated"}
  /\ errors \subseteq Codes

(* What the next reads of a stream would give.                             *)
Upcoming(x) ==
  LET f == files[x] IN
  f.readBuffer \o (IF f.nextByte = <<EOF>> THEN <<>> ELSE f.nextByte)
    \o SubSeq(Contents(x), offset[x] + Len(Pending(x)) + 1, Len(Contents(x)))

Unbuffered == INSTANCE ByteStream WITH
  contents <- [x \in Streams |-> IF Open(x) THEN Contents(x) ELSE os[uri[x]]],
  input    <- [x \in DOMAIN files |-> Upcoming(x)],
  position <- [x \in DOMAIN files |-> files[x].pos]

(* Streams on different files behave as if nothing was buffered, whatever  *)
(* the buffer modes and wherever they are changed, as long as the program  *)
(* separates output from input: otherwise a read may fill its buffer       *)
(* before IO2 is reported.                                                 *)
StreamSpec == Unbuffered!Spec

(* When a program ended, by exit or abort, everything it wrote to stdout   *)
(* is in the file.                                                         *)
StdoutComplete ==
  status = "terminated" /\ Open(stdout) => Pending(stdout) = <<>>

(* When a program ended by exit, everything it wrote to its streams is in  *)
(* their files.                                                            *)
FilesComplete ==
  status = "terminated" => \A x \in DOMAIN files : Pending(x) = <<>>

(* Every call returns, or an error is reported, or the program ends.       *)
CallsReturn ==
  \A t \in Threads : k[t] # <<>> ~> (k[t] = <<>> \/ AtHead(t, "HALT") \/ status = "terminated")

Occurrences(s, c) == Cardinality({i \in DOMAIN s : s[i] = c})

(* Threads of a program that opens no file print to stdout and flush it:   *)
(* when no flush is under way, the file and the write buffer hold as much  *)
(* as was written, and the file has the characters <done> records, each    *)
(* once.                                                                   *)
NothingLost ==
  "fopen" \notin program.ops /\ files[stdout].sending = <<>> =>
    LET f == files[stdout]
        sent == os[uri[stdout]]
    IN
    /\ Len(sent) + Len(f.writeBuffer) = f.pos
    /\ \A c \in Chars : Occurrences(sent, c) = Occurrences(f.done, c)
=============================================================================
