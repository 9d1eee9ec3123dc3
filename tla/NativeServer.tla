---------------------------- MODULE NativeServer ----------------------------
(***************************************************************************)
(* The native code server (native-server/server.c) with its stdio pipes    *)
(* (profiles/x86-gcc-limited-libc/native/platform.c), and the RV-Match     *)
(* runtime that is its client, which is external: it writes requests in    *)
(* the format the server reads and waits for the whole answer to each.     *)
(*                                                                         *)
(* A field of fixed width (an opcode, an address, a length) is one element *)
(* of a pipe, a byte of an object's contents is one element.               *)
(***************************************************************************)
EXTENDS Naturals, Sequences, SequencesExt

CONSTANTS
  MaxAddr,             \* native objects ever allocated, a bound
  ObjectSizes,         \* sizes of the objects that the client allocates
  Bytes,               \* contents of a byte
  BufferSize,          \* sizeof(dirty_buffer)
  NATIVE_MEMORY_SIZE,  \* entries of native_memory
  Symbols,             \* entries of symbols
  MaxRequests          \* requests of the client, a bound

ASSUME ServerAssumption ==
  /\ MaxAddr \in Nat /\ ObjectSizes \subseteq Nat \ {0} /\ BufferSize \in Nat \ {0}
  /\ NATIVE_MEMORY_SIZE \in Nat /\ Symbols \in Nat /\ MaxRequests \in Nat
  /\ 0 \in Bytes

VARIABLES
  pc,         \* where the server is
  table,      \* native_memory, the entries received so far
  count,      \* size_native_memory
  current,    \* the object being received: address, is_dirty, size, remaining
  native,     \* native memory: [allocated addresses -> bytes]
  inPipe,     \* written by the client, not yet read
  outBuffer,  \* stdio buffer of write_file
  outPipe,    \* flushed by the server, not yet read
  client,     \* "idle", "waiting" for an answer, "dead"
  toSend,     \* the rest of the client's request
  request,    \* its last request
  memory,     \* its copy of the native objects
  requests    \* requests made (bound)

serverVars == <<pc, table, count, current, native, outBuffer>>
clientVars == <<client, toSend, request, memory, requests>>
vars == <<serverVars, clientVars, inPipe, outPipe>>

NoObject == [addr |-> 0, dirty |-> FALSE, size |-> 0, remaining |-> 0]
Plain(cmd) == [cmd |-> cmd, objs |-> <<>>, dirty |-> {}, addr |-> 0, size |-> 0]

Init ==
  /\ pc = "main" /\ table = <<>> /\ count = 0 /\ current = NoObject
  /\ native = [a \in {} |-> <<>>]
  /\ inPipe = <<>> /\ outBuffer = <<>> /\ outPipe = <<>>
  /\ client = "idle" /\ toSend = <<>> /\ request = Plain("none") /\ requests = 0
  /\ memory = [a \in {} |-> <<>>]

-----------------------------------------------------------------------------
(* The client.                                                             *)

Encoded(r, m) ==
  CASE r.cmd = "_INVOKE" ->
         <<r.cmd, "function", Len(r.objs)>>
           \o FlattenSeq([i \in DOMAIN r.objs |->
                LET a == r.objs[i] IN <<a, a \in r.dirty, Len(m[a])>> \o m[a]])
    [] r.cmd = "_ALLOC" -> <<r.cmd, r.size>>
    [] r.cmd = "_SYNC_READ" -> <<r.cmd, r.addr, r.size>>
    [] OTHER -> <<r.cmd>>

Requests ==
  (UNION {{[Plain("_INVOKE") EXCEPT !.objs = as, !.dirty = d] : d \in SUBSET ToSet(as)} :
            as \in SetToAllKPermutations(DOMAIN memory)})
    \cup {[Plain("_ALLOC") EXCEPT !.size = n] : n \in ObjectSizes}
    \cup {[Plain("_SYNC_READ") EXCEPT !.addr = a, !.size = Len(memory[a])] : a \in DOMAIN memory}
    \cup {Plain("_GET_SYMBOL_TABLE"), Plain("_EXIT")}

(* The interpreter may have stored to the objects that it passes.          *)
ClientRequest ==
  /\ client = "idle"
  /\ requests < MaxRequests
  /\ request.cmd # "_EXIT"
  /\ \E r \in Requests :
       /\ r.cmd = "_ALLOC" => Cardinality(DOMAIN native) < MaxAddr
       /\ \E v \in Bytes :
            memory' = [a \in DOMAIN memory |->
                         IF r.cmd = "_INVOKE" /\ a \in ToSet(r.objs)
                           THEN [memory[a] EXCEPT ![Len(memory[a])] = v] ELSE memory[a]]
       /\ request' = r
       /\ toSend' = Encoded(r, memory')
  /\ client' = "waiting"
  /\ requests' = requests + 1
  /\ UNCHANGED <<serverVars, inPipe, outPipe>>

(* A pipe without a reader takes nothing more.                             *)
ClientSends ==
  /\ client = "waiting" /\ toSend # <<>>
  /\ pc \notin {"exited", "aborted", "rejected"}
  /\ \E n \in 1 .. Len(toSend) :
       /\ inPipe' = inPipe \o SubSeq(toSend, 1, n)
       /\ toSend' = SubSeq(toSend, n + 1, Len(toSend))
  /\ UNCHANGED <<serverVars, outPipe, client, request, memory, requests>>

(* What the first n objects take of an answer to _INVOKE: each a length,   *)
(* its contents and an address.                                            *)
Slots(n) ==
  FlattenSeq([i \in 1 .. n |->
    LET a == request.objs[i] IN <<a>> \o memory[a] \o <<a>>])

(* How long the answer to its request is.                                  *)
AnswerLength ==
  CASE request.cmd = "_INVOKE" -> 1 + Len(Slots(Len(request.objs)))
    [] request.cmd = "_GET_SYMBOL_TABLE" -> 1 + 3 * Symbols
    [] request.cmd = "_SYNC_READ" -> request.size
    [] OTHER -> 1

(* Where the contents of the i-th object are in an answer to _INVOKE.      *)
ContentsAt(i) == 2 + Len(Slots(i - 1))

ClientReceives ==
  /\ client = "waiting" /\ toSend = <<>>
  /\ Len(outPipe) >= AnswerLength
  /\ client' = "idle"
  /\ outPipe' = SubSeq(outPipe, AnswerLength + 1, Len(outPipe))
  /\ memory' =
       CASE request.cmd = "_INVOKE" ->
              [a \in DOMAIN memory |->
                 IF a \notin ToSet(request.objs) THEN memory[a]
                 ELSE LET i == CHOOSE i \in DOMAIN request.objs : request.objs[i] = a
                      IN SubSeq(outPipe, ContentsAt(i) + 1, ContentsAt(i) + Len(memory[a]))]
         [] request.cmd = "_ALLOC" /\ outPipe[1] # 0 ->
              [a \in DOMAIN memory \cup {outPipe[1]} |->
                 IF a = outPipe[1] THEN [i \in 1 .. request.size |-> 0] ELSE memory[a]]
         [] request.cmd = "_SYNC_READ" ->
              [memory EXCEPT ![request.addr] = SubSeq(outPipe, 1, request.size)]
         [] OTHER -> memory
  /\ UNCHANGED <<serverVars, toSend, request, requests, inPipe>>

(* It ends at any point and its end of the pipe is closed.                 *)
ClientDies ==
  /\ client # "dead"
  /\ client' = "dead"
  /\ toSend' = <<>>
  /\ UNCHANGED <<serverVars, request, memory, requests, inPipe, outPipe>>

-----------------------------------------------------------------------------
(* main wants the names of two pipes, and ends if it has not got them.     *)
main ==
  /\ pc = "main"
  /\ pc' \in {"open", "aborted"}
  /\ UNCHANGED <<table, count, current, native, outBuffer, clientVars, inPipe, outPipe>>

(* The server opens both pipes, or gives up.                               *)
InitMessages ==
  /\ pc = "open"
  /\ pc' \in {"opcode", "aborted"}
  /\ UNCHANGED <<table, count, current, native, outBuffer, clientVars, inPipe, outPipe>>

(* __recv_message blocks until it has len elements or the client's end is  *)
(* closed; it does not look at what fread returned.                        *)

Received(n) == Len(inPipe) >= n
Got(n) == SubSeq(inPipe, 1, n)
Consume(n) == inPipe' = SubSeq(inPipe, n + 1, Len(inPipe))

(* How many elements the server waits for where it is.                     *)
Chunk == IF current.remaining > BufferSize THEN BufferSize ELSE current.remaining
Awaited ==
  CASE pc = "opcode" -> 1
    [] pc = "invoke" -> 2
    [] pc = "object" -> 3
    [] pc = "dirty"  -> Chunk
    [] pc = "clean"  -> current.size
    [] pc = "alloc"  -> 1
    [] pc = "sync_read" -> 2
    [] OTHER -> 0

(* The pipe was closed in the middle: from here on the server uses values  *)
(* that it never received.                                                 *)
ShortRead ==
  /\ client = "dead"
  /\ ~Received(Awaited)
  /\ pc' = "garbage"
  /\ UNCHANGED <<table, count, current, native, outBuffer, clientVars, inPipe, outPipe>>

(* A read of the pipe may fail wherever the server waits, also between two *)
(* requests; the server aborts.                                            *)
ReadFails ==
  /\ Awaited > 0
  /\ pc' = "aborted"
  /\ UNCHANGED <<table, count, current, native, outBuffer, clientVars, inPipe, outPipe>>

Opcode ==
  /\ pc = "opcode"
  /\ Received(1)
  /\ pc' = CASE Got(1)[1] = "_INVOKE" -> "invoke"
             [] Got(1)[1] = "_GET_SYMBOL_TABLE" -> "get_symbol_table"
             [] Got(1)[1] = "_ALLOC" -> "alloc"
             [] Got(1)[1] = "_SYNC_READ" -> "sync_read"
             [] Got(1)[1] = "_EXIT" -> "exit"
             [] OTHER -> "rejected"
  /\ Consume(1)
  /\ UNCHANGED <<table, count, current, native, outBuffer, clientVars, outPipe>>

TooManyNever(n) == FALSE
TooMany(n) == n > NATIVE_MEMORY_SIZE

(* The loop over native_memory continues, or the function is called.       *)
AfterObject(n) == IF n < count' THEN "object" ELSE "call"

Invoke ==
  /\ pc = "invoke"
  /\ Received(2)
  /\ Consume(2)
  /\ count' = Got(2)[2]
  /\ table' = <<>>
  /\ pc' = IF TooMany(Got(2)[2]) THEN "rejected" ELSE AfterObject(0)
  /\ UNCHANGED <<current, native, outBuffer, clientVars, outPipe>>

ReceiveHeader ==
  /\ pc = "object"
  /\ Received(3)
  /\ Consume(3)
  /\ current' = [addr |-> Got(3)[1], dirty |-> Got(3)[2], size |-> Got(3)[3],
                 remaining |-> Got(3)[3]]
  /\ table' = Append(table, [address |-> Got(3)[1], size |-> Got(3)[3]])
  /\ pc' = IF Got(3)[2] THEN "dirty" ELSE "clean"
  /\ UNCHANGED <<count, native, outBuffer, clientVars, outPipe>>

(* write_dirty at an offset of the object.                                 *)
ReplaceFrom(o, at, s) == SubSeq(o, 1, at) \o s \o SubSeq(o, at + Len(s) + 1, Len(o))
writeAtStart(a, at, s) == [native EXCEPT ![a] = ReplaceFrom(@, 0, s)]
writeDirty(a, at, s) == [native EXCEPT ![a] = ReplaceFrom(@, at, s)]

(* One piece of at most BufferSize bytes.                                  *)
ReceiveDirty ==
  /\ pc = "dirty"
  /\ Received(Chunk)
  /\ Consume(Chunk)
  /\ native' = writeDirty(current.addr, current.size - current.remaining, Got(Chunk))
  /\ current' = [current EXCEPT !.remaining = @ - Chunk]
  /\ count' = count
  /\ pc' = IF current.remaining > BufferSize THEN "dirty" ELSE AfterObject(Len(table))
  /\ UNCHANGED <<table, outBuffer, clientVars, outPipe>>

ReceiveClean ==
  /\ pc = "clean"
  /\ Received(current.size)
  /\ Consume(current.size)
  /\ native' = [native EXCEPT ![current.addr] = Got(current.size)]
  /\ count' = count
  /\ pc' = AfterObject(Len(table))
  /\ UNCHANGED <<table, current, outBuffer, clientVars, outPipe>>

(* The lengths, contents and addresses of native_memory.                   *)
ReplyBackwards(tbl) ==
  <<Len(tbl)>> \o FlattenSeq([i \in DOMAIN tbl |->
     LET e == tbl[Len(tbl) + 1 - i] IN <<e.size>> \o native[e.address] \o <<e.address>>])
Reply(tbl) ==
  <<Len(tbl)>> \o FlattenSeq([i \in DOMAIN tbl |->
     LET e == tbl[i] IN <<e.size>> \o native[e.address] \o <<e.address>>])

(* trampoline: the function may change a byte of an object it was given.   *)
Trampoline ==
  /\ pc = "call"
  /\ \/ UNCHANGED native
     \/ \E e \in ToSet(table), v \in Bytes :
          native' = [native EXCEPT ![e.address] = [@ EXCEPT ![1] = v]]
  /\ pc' = "reply"
  /\ UNCHANGED <<table, count, current, outBuffer, clientVars, inPipe, outPipe>>

SendReply ==
  /\ pc = "reply"
  /\ outBuffer' = outBuffer \o Reply(table)
  /\ pc' = "flush"
  /\ UNCHANGED <<table, count, current, native, clientVars, inPipe, outPipe>>

(* Their number; the length, name and address of each.                     *)
GetSymbolTable ==
  /\ pc = "get_symbol_table"
  /\ outBuffer' = outBuffer \o <<Symbols>>
                    \o FlattenSeq([i \in 1 .. Symbols |-> <<1, "name", "function">>])
  /\ pc' = "flush"
  /\ UNCHANGED <<table, count, current, native, clientVars, inPipe, outPipe>>

(* calloc gives zeroed memory or a null pointer.                           *)
Alloc ==
  /\ pc = "alloc"
  /\ Received(1)
  /\ Consume(1)
  /\ LET a == Cardinality(DOMAIN native) + 1 IN
     \/ /\ native' = [x \in DOMAIN native \cup {a} |->
                        IF x = a THEN [i \in 1 .. Got(1)[1] |-> 0] ELSE native[x]]
        /\ outBuffer' = Append(outBuffer, a)
     \/ /\ outBuffer' = Append(outBuffer, 0)
        /\ UNCHANGED native
  /\ pc' = "flush"
  /\ UNCHANGED <<table, count, current, clientVars, outPipe>>

syncAnswerLong(a, n) == SubSeq(native[a], 1, n) \o <<0>>
syncAnswer(a, n) == SubSeq(native[a], 1, n)

SyncRead ==
  /\ pc = "sync_read"
  /\ Received(2)
  /\ Consume(2)
  /\ outBuffer' = outBuffer \o syncAnswer(Got(2)[1], Got(2)[2])
  /\ pc' = "flush"
  /\ UNCHANGED <<table, count, current, native, clientVars, outPipe>>

ExitCommand ==
  /\ pc = "exit"
  /\ outBuffer' = Append(outBuffer, "")
  /\ pc' = "last_flush"
  /\ UNCHANGED <<table, count, current, native, clientVars, inPipe, outPipe>>

(* __send_message leaves an answer in the buffer of write_file, and stdio  *)
(* may write a part of it, or all, before it is flushed.                   *)
WriteEarly ==
  /\ pc \in {"flush", "last_flush"}
  /\ \E n \in 1 .. Len(outBuffer) :
       /\ outPipe' = outPipe \o SubSeq(outBuffer, 1, n)
       /\ outBuffer' = SubSeq(outBuffer, n + 1, Len(outBuffer))
  /\ UNCHANGED <<pc, table, count, current, native, clientVars, inPipe>>

(* A write, of __send_message or of __flush_message, may fail whether the  *)
(* client is there or not; the server aborts with what it had written.     *)
WriteFails ==
  /\ pc \in {"flush", "last_flush"}
  /\ pc' = "aborted"
  /\ UNCHANGED <<table, count, current, native, outBuffer, clientVars, inPipe, outPipe>>

flushNothing == outPipe
flushedPipe == outPipe \o outBuffer

FlushMessage ==
  /\ pc \in {"flush", "last_flush"}
  /\ outPipe' = flushedPipe
  /\ outBuffer' = <<>>
  /\ pc' = IF pc = "flush" THEN "opcode" ELSE "deinit"
  /\ UNCHANGED <<table, count, current, native, clientVars, inPipe>>

DeinitMessages ==
  /\ pc = "deinit"
  /\ pc' \in {"exited", "aborted"}
  /\ UNCHANGED <<table, count, current, native, outBuffer, clientVars, inPipe, outPipe>>

Server ==
  \/ main \/ InitMessages \/ Opcode \/ Invoke \/ ReceiveHeader \/ ReceiveDirty \/ ReceiveClean
  \/ Trampoline \/ SendReply \/ GetSymbolTable \/ Alloc \/ SyncRead \/ ExitCommand
  \/ WriteEarly \/ FlushMessage \/ DeinitMessages \/ ShortRead

PipeFails == ReadFails \/ WriteFails

Client == ClientSends \/ ClientReceives

Next == ClientRequest \/ Client \/ ClientDies \/ Server \/ PipeFails

Spec == Init /\ [][Next]_vars

(* Both processes run; the client need not make requests, or die, and the  *)
(* pipes need not fail.                                                    *)
FairSpec == Spec /\ WF_vars(Server) /\ WF_vars(Client)

-----------------------------------------------------------------------------
Alive == client # "dead"

(* Between two requests the two processes agree on the protocol: nothing   *)
(* is left in a pipe or buffer, so no answer is taken for another one's,   *)
(* although the client may have an answer before the server's flush ends.  *)
(* The server never takes a request for another one: it rejects (__error)  *)
(* only a call with more objects than native_memory holds.  A failing pipe *)
(* may end it anywhere.                                                    *)
InStep ==
  /\ client = "idle" =>
       /\ inPipe = <<>> /\ outBuffer = <<>> /\ outPipe = <<>>
       /\ pc \in {"main", "open", "opcode", "flush", "last_flush", "deinit", "exited", "aborted"}
  /\ pc = "rejected" =>
       request.cmd = "_INVOKE" /\ Len(request.objs) > NATIVE_MEMORY_SIZE

(* A native function is called with the contents that the interpreter's    *)
(* objects had when it made the call, whatever their sizes and flags.      *)
ArgumentsArrive ==
  pc = "call" /\ Alive =>
    \A i \in DOMAIN request.objs : native[request.objs[i]] = memory[request.objs[i]]

(* After the call, or a sync read, the interpreter has what is in native   *)
(* memory.                                                                 *)
MemoryReturned ==
  client = "idle" =>
    /\ \A i \in DOMAIN request.objs : memory[request.objs[i]] = native[request.objs[i]]
    /\ request.cmd = "_SYNC_READ" => memory[request.addr] = native[request.addr]

(* No object is stored behind the end of native_memory.                    *)
TableInBounds == Len(table) <= NATIVE_MEMORY_SIZE

(* Every request is answered, unless the server rejected it, a pipe failed *)
(* or the client died.                                                     *)
Answered ==
  client = "waiting" ~> (client # "waiting" \/ pc \in {"rejected", "aborted"})

(* The server uses only values that it received in full.                   *)
ReceivesInFull == pc # "garbage"
=============================================================================
