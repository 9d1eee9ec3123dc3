------------------------- MODULE NativeServerProofs -------------------------
(***************************************************************************)
(* Theorems about NativeServer, for objects of any number and size, pieces *)
(* of any size and any number of requests: the two processes agree on the  *)
(* protocol, a native function gets the contents that the interpreter's    *)
(* objects have and the interpreter gets back what it left, and            *)
(* native_memory does not overflow.                                        *)
(***************************************************************************)
EXTENDS NativeServer, DataInduction, FiniteSetTheorems

-----------------------------------------------------------------------------
(* The inductive invariant.                                                *)

Commands == {"none", "_INVOKE", "_ALLOC", "_SYNC_READ", "_GET_SYMBOL_TABLE", "_EXIT"}
Elements == Nat \cup Bytes \cup BOOLEAN \cup Commands \cup {"function", "name", ""}

(* Native memory is one object per address, and the interpreter's copy     *)
(* differs from it in the objects of the request at most.                  *)
MemoryOK ==
  /\ \E n \in Nat : native \in [1 .. n -> Seq(Bytes)]
  /\ \A a \in DOMAIN native : Len(native[a]) # 0
  /\ memory \in [DOMAIN memory -> Seq(Bytes)]
  /\ DOMAIN memory \subseteq DOMAIN native
  /\ \A a \in DOMAIN memory : Len(memory[a]) = Len(native[a])
  /\ \A a \in DOMAIN memory : a \notin ToSet(request.objs) => memory[a] = native[a]

RequestOK ==
  /\ request.cmd \in Commands
  /\ request.objs \in Seq(DOMAIN memory)
  /\ \A i, j \in DOMAIN request.objs : request.objs[i] = request.objs[j] => i = j
  /\ request.cmd # "_INVOKE" => request.objs = <<>>
  /\ request.cmd = "_ALLOC" => request.size \in Nat \ {0}
  /\ request.cmd = "_SYNC_READ" =>
       request.addr \in DOMAIN memory /\ request.size = Len(memory[request.addr])

PipesOK ==
  /\ inPipe \in Seq(Elements) /\ outPipe \in Seq(Elements)
  /\ outBuffer \in Seq(Elements) /\ toSend \in Seq(Elements)

(* The objects of a call as the client writes them, one part each.         *)
Part(r, m, a) == <<a, a \in r.dirty, Len(m[a])>> \o m[a]
Parts == [i \in DOMAIN request.objs |-> Part(request, memory, request.objs[i])]
PartsFrom(i) == FlattenSeq(SubSeq(Parts, i, Len(Parts)))

Entry(a) == [address |-> a, size |-> Len(memory[a])]

(* The server is at a call, and has received n objects.                    *)
Invoking(n) ==
  /\ request.cmd = "_INVOKE"
  /\ count = Len(request.objs) /\ count <= NATIVE_MEMORY_SIZE
  /\ Len(table) <= Len(request.objs)
  /\ \A j \in 1 .. Len(table) : table[j] = Entry(request.objs[j])
  /\ \A j \in 1 .. n : native[request.objs[j]] = memory[request.objs[j]]

(* It is in the middle of the last object of the table.                    *)
Receiving ==
  /\ Len(table) >= 1
  /\ Invoking(Len(table) - 1)
  /\ current.addr = request.objs[Len(table)]
  /\ current.size = Len(memory[current.addr])
  /\ current.remaining \in 0 .. current.size
  /\ \A j \in 1 .. current.size - current.remaining :
       native[current.addr][j] = memory[current.addr][j]

Called ==
  /\ request.cmd = "_INVOKE"
  /\ Len(table) = Len(request.objs)
  /\ \A j \in 1 .. Len(table) : table[j] = Entry(request.objs[j])

(* The server still has s to read, and where it is it reads just that.     *)
Reads(s) ==
  \/ /\ pc \in {"main", "open", "opcode", "flush"} /\ request.cmd # "none"
     /\ s = Encoded(request, memory)
  \/ /\ pc = "invoke" /\ request.cmd = "_INVOKE"
     /\ s = <<"function", Len(request.objs)>> \o PartsFrom(1)
  \/ /\ pc = "object" /\ Invoking(Len(table))
     /\ Len(table) < Len(request.objs)
     /\ s = PartsFrom(Len(table) + 1)
  \/ /\ pc = "dirty" /\ Receiving
     /\ s = SubSeq(memory[current.addr], current.size - current.remaining + 1, current.size)
              \o PartsFrom(Len(table) + 1)
  \/ /\ pc = "clean" /\ Receiving
     /\ s = memory[current.addr] \o PartsFrom(Len(table) + 1)
  \/ /\ pc = "call" /\ Invoking(Len(request.objs)) /\ Called
     /\ s = <<>>
  \/ pc = "reply" /\ Called /\ s = <<>>
  \/ pc = "alloc" /\ request.cmd = "_ALLOC" /\ s = <<request.size>>
  \/ /\ pc = "sync_read" /\ request.cmd = "_SYNC_READ"
     /\ s = <<request.addr, request.size>>
  \/ pc = "get_symbol_table" /\ request.cmd = "_GET_SYMBOL_TABLE" /\ s = <<>>
  \/ pc = "exit" /\ request.cmd = "_EXIT" /\ s = <<>>
  \/ pc = "rejected" /\ request.cmd = "_INVOKE" /\ Len(request.objs) > NATIVE_MEMORY_SIZE
  \/ pc \in {"aborted", "garbage"}

(* o answers the request.                                                  *)
Answer(o) ==
  \/ Called /\ o = Reply(table)
  \/ /\ request.cmd = "_GET_SYMBOL_TABLE"
     /\ o = <<Symbols>> \o FlattenSeq([i \in 1 .. Symbols |-> <<1, "name", "function">>])
  \/ /\ request.cmd = "_ALLOC"
     /\ \/ o = <<0>>
        \/ \E a \in DOMAIN native \ DOMAIN memory :
             o = <<a>> /\ native[a] = [i \in 1 .. request.size |-> 0]
  \/ request.cmd = "_SYNC_READ" /\ o = native[request.addr]
  \/ request.cmd = "_EXIT" /\ o = <<"">>

(* Nothing is asked; the server rests, or has ended.                       *)
Quiet(s) ==
  /\ client \in {"idle", "dead"}
  /\ s = <<>> /\ outPipe = <<>> /\ outBuffer = <<>>
  /\ \A j \in DOMAIN request.objs : native[request.objs[j]] = memory[request.objs[j]]
  /\ \/ pc \in {"main", "open"} /\ request.cmd = "none"
     \/ pc \in {"opcode", "flush"}
     \/ pc \in {"last_flush", "deinit", "exited"} /\ request.cmd = "_EXIT"
     \/ pc = "aborted"
     \/ pc = "garbage" /\ client = "dead"

Asked(s) ==
  /\ client \in {"waiting", "dead"}
  /\ outPipe = <<>> /\ outBuffer = <<>>
  /\ Reads(s)

Replied(s) ==
  /\ client \in {"waiting", "dead"}
  /\ s = <<>>
  /\ Answer(outPipe \o outBuffer)
  /\ \/ pc = "flush"
     \/ pc = "last_flush" /\ request.cmd = "_EXIT"
     \/ pc = "opcode" /\ outBuffer = <<>>
     \/ pc \in {"deinit", "exited"} /\ request.cmd = "_EXIT" /\ outBuffer = <<>>
     \/ pc = "aborted"
     \/ pc = "garbage" /\ client = "dead"

(* What a dead client did not send is gone: some r.                        *)
Rests == Seq(Elements)
InProtocol ==
  \E r \in Rests :
    /\ Alive => r = toSend
    /\ Quiet(inPipe \o r) \/ Asked(inPipe \o r) \/ Replied(inPipe \o r)

Protocol ==
  /\ MemoryOK /\ RequestOK /\ PipesOK
  /\ table \in Seq([address : Nat, size : Nat]) /\ TableInBounds
  /\ client \in {"idle", "waiting", "dead"}
  /\ client = "idle" => toSend = <<>>
  /\ InProtocol

-----------------------------------------------------------------------------
(* The encoding of a request.                                              *)

LEMMA AddressesAreNumbers ==
  ASSUME MemoryOK
  PROVE  /\ DOMAIN native \subseteq Nat /\ DOMAIN memory \subseteq Nat
         /\ \A a \in DOMAIN memory : a \in DOMAIN native
         /\ \A a \in DOMAIN native : native[a] \in Seq(Bytes) /\ Len(native[a]) \in Nat \ {0}
         /\ \A a \in DOMAIN memory : memory[a] \in Seq(Bytes) /\ Len(memory[a]) \in Nat \ {0}
<1>1. PICK n \in Nat : native \in [1 .. n -> Seq(Bytes)]
  BY DEF MemoryOK
<1>2. DOMAIN native = 1 .. n
  BY <1>1
<1>3. DOMAIN native \subseteq Nat /\ DOMAIN memory \subseteq Nat
  BY <1>2 DEF MemoryOK
<1>4. \A a \in DOMAIN native : native[a] \in Seq(Bytes) /\ Len(native[a]) \in Nat \ {0}
  BY <1>1, <1>2 DEF MemoryOK
<1>5. \A a \in DOMAIN memory : memory[a] \in Seq(Bytes) /\ Len(memory[a]) \in Nat \ {0}
  BY <1>4 DEF MemoryOK
<1> QED
  BY <1>3, <1>4, <1>5 DEF MemoryOK

LEMMA WiderSeq ==
  ASSUME NEW S, NEW T, S \subseteq T, NEW s \in Seq(S)
  PROVE  s \in Seq(T)
OBVIOUS

LEMMA BytesAreElements ==
  ASSUME NEW s \in Seq(Bytes)
  PROVE  s \in Seq(Elements)
BY WiderSeq DEF Elements

LEMMA PartType ==
  ASSUME MemoryOK, NEW a \in DOMAIN memory
  PROVE  /\ <<a, a \in request.dirty, Len(memory[a])>> \in Seq(Elements)
         /\ memory[a] \in Seq(Elements)
         /\ Part(request, memory, a) \in Seq(Elements)
<1>1. a \in Elements /\ Len(memory[a]) \in Elements /\ memory[a] \in Seq(Elements)
  BY AddressesAreNumbers, BytesAreElements DEF Elements
<1>2. (a \in request.dirty) \in BOOLEAN
  <2>1. CASE a \in request.dirty
    BY <2>1
  <2>2. CASE a \notin request.dirty
    BY <2>2
  <2> QED
    BY <2>1, <2>2
<1>3. (a \in request.dirty) \in Elements
  BY <1>2 DEF Elements
<1> DEFINE d == a \in request.dirty
<1> HIDE DEF d
<1>4. <<a, d, Len(memory[a])>> \in Seq(Elements)
  BY <1>1, <1>3 DEF d
<1>5. <<a, d, Len(memory[a])>> \o memory[a] \in Seq(Elements)
  BY <1>1, <1>4, ConcatLaws
<1> QED
  BY <1>1, <1>4, <1>5 DEF Part, d

LEMMA PartsType ==
  ASSUME MemoryOK, RequestOK
  PROVE  /\ Parts \in Seq(Seq(Elements))
         /\ Len(Parts) = Len(request.objs)
         /\ Len(request.objs) \in Nat
         /\ \A i \in 1 .. Len(request.objs) :
              /\ request.objs[i] \in DOMAIN memory
              /\ Parts[i] = Part(request, memory, request.objs[i])
<1>1. /\ Len(request.objs) \in Nat /\ DOMAIN request.objs = 1 .. Len(request.objs)
      /\ \A i \in 1 .. Len(request.objs) : request.objs[i] \in DOMAIN memory
  BY DEF RequestOK
<1>2. \A i \in 1 .. Len(request.objs) : Part(request, memory, request.objs[i]) \in Seq(Elements)
  BY <1>1, PartType
<1>3. Parts \in [1 .. Len(request.objs) -> Seq(Elements)]
  BY <1>1, <1>2 DEF Parts
<1>4. Parts \in Seq(Seq(Elements)) /\ Len(Parts) = Len(request.objs)
  BY <1>1, <1>3
<1> QED
  BY <1>1, <1>4 DEF Parts

LEMMA PartsFromFacts ==
  ASSUME MemoryOK, RequestOK
  PROVE  /\ \A i \in 1 .. Len(request.objs) + 1 : PartsFrom(i) \in Seq(Elements)
         /\ PartsFrom(Len(request.objs) + 1) = <<>>
         /\ \A i \in 1 .. Len(request.objs) :
              PartsFrom(i) = Part(request, memory, request.objs[i]) \o PartsFrom(i + 1)
         /\ PartsFrom(1) = FlattenSeq(Parts)
<1>1. /\ Parts \in Seq(Seq(Elements)) /\ Len(Parts) = Len(request.objs)
      /\ Len(request.objs) \in Nat
  BY PartsType
<1>2. ASSUME NEW i \in 1 .. Len(request.objs) + 1
      PROVE  PartsFrom(i) \in Seq(Elements)
  <2>1. SubSeq(Parts, i, Len(Parts)) \in Seq(Seq(Elements))
    BY <1>1
  <2> QED
    BY <2>1, FlattenType DEF PartsFrom
<1>3. PartsFrom(Len(request.objs) + 1) = <<>>
  <2>1. SubSeq(Parts, Len(Parts) + 1, Len(Parts)) = <<>>
    BY <1>1, WholeSeq
  <2>2. FlattenSeq(<<>>) = <<>>
    BY DEF FlattenSeq
  <2> QED
    BY <1>1, <2>1, <2>2 DEF PartsFrom
<1>4. ASSUME NEW i \in 1 .. Len(request.objs)
      PROVE  PartsFrom(i) = Part(request, memory, request.objs[i]) \o PartsFrom(i + 1)
  <2>1. FlattenSeq(SubSeq(Parts, i, Len(Parts)))
          = Parts[i] \o FlattenSeq(SubSeq(Parts, i + 1, Len(Parts)))
    BY <1>1, FlattenCons
  <2>2. Parts[i] = Part(request, memory, request.objs[i])
    BY PartsType
  <2> QED
    BY <2>1, <2>2 DEF PartsFrom
<1>5. PartsFrom(1) = FlattenSeq(Parts)
  BY <1>1, WholeSeq DEF PartsFrom
<1> QED
  BY <1>2, <1>3, <1>4, <1>5

(* What a request is on the pipe, by its command.                          *)
LEMMA EncodedFacts ==
  ASSUME MemoryOK, RequestOK
  PROVE  /\ request.cmd = "_INVOKE" =>
              Encoded(request, memory)
                = <<request.cmd, "function", Len(request.objs)>> \o PartsFrom(1)
         /\ request.cmd = "_ALLOC" => Encoded(request, memory) = <<request.cmd, request.size>>
         /\ request.cmd = "_SYNC_READ" =>
              Encoded(request, memory) = <<request.cmd, request.addr, request.size>>
         /\ request.cmd \in {"none", "_GET_SYMBOL_TABLE", "_EXIT"} =>
              Encoded(request, memory) = <<request.cmd>>
         /\ Encoded(request, memory) \in Seq(Elements)
<1>1. FlattenSeq([i \in DOMAIN request.objs |->
        LET a == request.objs[i] IN
          <<a, a \in request.dirty, Len(memory[a])>> \o memory[a]]) = PartsFrom(1)
  BY PartsFromFacts DEF Parts, Part
<1>2. request.cmd = "_INVOKE" =>
        Encoded(request, memory)
          = <<request.cmd, "function", Len(request.objs)>> \o PartsFrom(1)
  BY <1>1 DEF Encoded
<1>3. request.cmd = "_ALLOC" => Encoded(request, memory) = <<request.cmd, request.size>>
  BY DEF Encoded
<1>4. request.cmd = "_SYNC_READ" =>
        Encoded(request, memory) = <<request.cmd, request.addr, request.size>>
  BY DEF Encoded
<1>5. request.cmd \in {"none", "_GET_SYMBOL_TABLE", "_EXIT"} =>
        Encoded(request, memory) = <<request.cmd>>
  BY DEF Encoded
<1>6. request.cmd \in Elements /\ "function" \in Elements
  BY DEF RequestOK, Commands, Elements
<1>7. Encoded(request, memory) \in Seq(Elements)
  <2>1. CASE request.cmd = "_INVOKE"
    <3>1. <<request.cmd, "function", Len(request.objs)>> \in Seq(Elements)
      <4>1. Len(request.objs) \in Elements
        BY PartsType DEF Elements
      <4> QED
        BY <1>6, <4>1, ShortSeqs
    <3>2. PartsFrom(1) \in Seq(Elements)
      BY PartsFromFacts, PartsType
    <3>3. <<request.cmd, "function", Len(request.objs)>> \o PartsFrom(1) \in Seq(Elements)
      BY <3>1, <3>2, ConcatLaws
    <3> QED
      BY <1>2, <2>1, <3>3
  <2>2. CASE request.cmd = "_ALLOC"
    <3>1. request.size \in Elements
      BY <2>2 DEF RequestOK, Elements
    <3> QED
      BY <1>3, <1>6, <2>2, <3>1, ShortSeqs, Zenon
  <2>3. CASE request.cmd = "_SYNC_READ"
    <3>1. request.size \in Elements /\ request.addr \in Elements
      BY <2>3, AddressesAreNumbers DEF RequestOK, Elements
    <3> QED
      BY <1>4, <1>6, <2>3, <3>1, ShortSeqs, Zenon
  <2>4. CASE request.cmd \in {"none", "_GET_SYMBOL_TABLE", "_EXIT"}
    BY <1>5, <1>6, <2>4, ShortSeqs, Zenon
  <2> QED
    BY <2>1, <2>2, <2>3, <2>4 DEF RequestOK, Commands
<1> QED
  BY <1>2, <1>3, <1>4, <1>5, <1>7

-----------------------------------------------------------------------------
(* The steps of the server.                                                *)

LEMMA Frame ==
  ASSUME UNCHANGED <<request, memory>>
  PROVE  /\ RequestOK => RequestOK'
         /\ \A i : PartsFrom(i)' = PartsFrom(i)
         /\ Encoded(request, memory)' = Encoded(request, memory)
         /\ \A a : Entry(a)' = Entry(a)
<1>1. RequestOK => RequestOK'
  BY DEF RequestOK
<1>2. Parts' = Parts
  BY DEF Parts
<1>3. \A i : PartsFrom(i)' = PartsFrom(i)
  BY <1>2 DEF PartsFrom
<1> QED
  BY <1>1, <1>3 DEF Entry

(* What a step of the server that leaves native memory alone keeps.        *)
LEMMA MemoryFrame ==
  ASSUME MemoryOK, UNCHANGED <<native, request, memory>>
  PROVE  MemoryOK'
BY DEF MemoryOK

(* A step that leaves the client alone keeps the invariant if the pipes    *)
(* are in one of the three phases.                                         *)
LEMMA ServerStep ==
  ASSUME Protocol, UNCHANGED clientVars, MemoryOK',
         inPipe' \in Seq(Elements), outPipe' \in Seq(Elements),
         outBuffer' \in Seq(Elements),
         table' \in Seq([address : Nat, size : Nat]), TableInBounds',
         NEW r \in Seq(Elements), Alive => r = toSend,
         \/ Quiet(inPipe \o r)'
         \/ Asked(inPipe \o r)'
         \/ Replied(inPipe \o r)'
  PROVE  Protocol'
<1>1. /\ client' = client /\ toSend' = toSend /\ request' = request /\ memory' = memory
      /\ RequestOK'
  BY Frame DEF clientVars, Protocol
<1>2. PipesOK'
  BY <1>1 DEF Protocol, PipesOK
<1>3. InProtocol'
  BY <1>1 DEF InProtocol, Rests, Alive
<1> QED
  BY <1>1, <1>2, <1>3 DEF Protocol

LEMMA ProtocolFacts ==
  ASSUME Protocol
  PROVE  /\ MemoryOK /\ RequestOK
         /\ inPipe \in Seq(Elements) /\ outPipe \in Seq(Elements)
         /\ outBuffer \in Seq(Elements) /\ toSend \in Seq(Elements)
         /\ table \in Seq([address : Nat, size : Nat]) /\ TableInBounds
         /\ client \in {"idle", "waiting", "dead"} /\ (client = "idle" => toSend = <<>>)
         /\ \E r \in Seq(Elements) :
              /\ Alive => r = toSend
              /\ Quiet(inPipe \o r) \/ Asked(inPipe \o r) \/ Replied(inPipe \o r)
BY DEF Protocol, PipesOK, InProtocol, Rests

(* main, init_messages and deinit_messages.                                *)
LEMMA OpenKeeps ==
  ASSUME Protocol, main \/ InitMessages \/ DeinitMessages
  PROVE  Protocol'
<1>1. /\ MemoryOK /\ RequestOK /\ table \in Seq([address : Nat, size : Nat]) /\ TableInBounds
      /\ inPipe \in Seq(Elements) /\ outPipe \in Seq(Elements) /\ outBuffer \in Seq(Elements)
  BY ProtocolFacts
<1>2. PICK r \in Seq(Elements) :
        /\ Alive => r = toSend
        /\ Quiet(inPipe \o r) \/ Asked(inPipe \o r) \/ Replied(inPipe \o r)
  BY ProtocolFacts
<1>3. /\ UNCHANGED clientVars
      /\ UNCHANGED <<table, native, outBuffer, inPipe, outPipe>>
      /\ \/ pc = "main" /\ pc' \in {"open", "aborted"}
         \/ pc = "open" /\ pc' \in {"opcode", "aborted"}
         \/ pc = "deinit" /\ pc' \in {"exited", "aborted"}
  BY DEF main, InitMessages, DeinitMessages
<1>4. UNCHANGED <<client, request, memory, native, table, outBuffer, outPipe, inPipe>>
  BY <1>3 DEF clientVars
<1>5. MemoryOK' /\ TableInBounds'
  BY <1>1, <1>4, MemoryFrame DEF TableInBounds
<1> DEFINE s == inPipe \o r
<1> HIDE DEF s
<1>s. s' = s /\ (inPipe \o r)' = s
  BY <1>4 DEF s
<1>6. Encoded(request, memory)' = Encoded(request, memory)
  BY <1>4
<1>7. CASE Quiet(s)
  <2>1. Quiet(s)'
    BY <1>3, <1>4, <1>s, <1>7 DEF Quiet
  <2> QED
    BY <1>1, <1>2, <1>3, <1>4, <1>5, <1>s, <2>1, ServerStep DEF s
<1>8. CASE Asked(s)
  <2>1. Asked(s)'
    BY <1>3, <1>4, <1>6, <1>s, <1>8 DEF Asked, Reads
  <2> QED
    BY <1>1, <1>2, <1>3, <1>4, <1>5, <1>s, <2>1, ServerStep DEF s
<1>9. CASE Replied(s)
  <2>1. pc = "deinit" /\ request.cmd = "_EXIT" /\ outBuffer = <<>>
    BY <1>3, <1>9 DEF Replied
  <2>2. Replied(s)'
    BY <1>3, <1>4, <1>s, <1>9, <2>1 DEF Replied, Answer, Called, Entry, Reply
  <2> QED
    BY <1>1, <1>2, <1>3, <1>4, <1>5, <1>s, <2>2, ServerStep DEF s
<1> QED
  BY <1>2, <1>7, <1>8, <1>9 DEF s

LEMMA AnswerFrame ==
  ASSUME UNCHANGED <<request, memory, native, table>>, NEW o, Answer(o)
  PROVE  Answer(o)'
BY DEF Answer, Called, Entry, Reply

(* The pipe is closed or fails, while the server reads or while it writes. *)
LEMMA ClosedKeeps ==
  ASSUME Protocol, ShortRead \/ PipeFails
  PROVE  Protocol'
<1>1. /\ MemoryOK /\ RequestOK /\ table \in Seq([address : Nat, size : Nat]) /\ TableInBounds
      /\ inPipe \in Seq(Elements) /\ outPipe \in Seq(Elements) /\ outBuffer \in Seq(Elements)
  BY ProtocolFacts
<1>2. PICK r \in Seq(Elements) :
        /\ Alive => r = toSend
        /\ Quiet(inPipe \o r) \/ Asked(inPipe \o r) \/ Replied(inPipe \o r)
  BY ProtocolFacts
<1>3. /\ UNCHANGED clientVars
      /\ UNCHANGED <<table, native, outBuffer, inPipe, outPipe>>
      /\ pc' = "aborted" \/ (pc' = "garbage" /\ client = "dead")
  BY DEF ShortRead, PipeFails, ReadFails, WriteFails
<1>4. UNCHANGED <<client, request, memory, native, table, outBuffer, outPipe, inPipe>>
  BY <1>3 DEF clientVars
<1>5. MemoryOK' /\ TableInBounds'
  BY <1>1, <1>4, MemoryFrame DEF TableInBounds
<1> DEFINE s == inPipe \o r
<1> HIDE DEF s
<1>s. s' = s /\ (inPipe \o r)' = s
  BY <1>4 DEF s
<1>6. CASE Quiet(s)
  <2>1. Quiet(s)'
    BY <1>3, <1>4, <1>s, <1>6 DEF Quiet
  <2> QED
    BY <1>1, <1>2, <1>3, <1>4, <1>5, <1>s, <2>1, ServerStep DEF s
<1>7. CASE Asked(s)
  <2>1. Asked(s)'
    BY <1>3, <1>4, <1>s, <1>7 DEF Asked, Reads
  <2> QED
    BY <1>1, <1>2, <1>3, <1>4, <1>5, <1>s, <2>1, ServerStep DEF s
<1>8. CASE Replied(s)
  <2>1. Answer(outPipe \o outBuffer)'
    BY <1>4, <1>8, AnswerFrame DEF Replied
  <2>2. Replied(s)'
    BY <1>3, <1>4, <1>s, <1>8, <2>1 DEF Replied
  <2> QED
    BY <1>1, <1>2, <1>3, <1>4, <1>5, <1>s, <2>2, ServerStep DEF s
<1> QED
  BY <1>2, <1>6, <1>7, <1>8 DEF s

(* stdio writes a part of the answer.                                      *)
LEMMA WriteEarlyKeeps ==
  ASSUME Protocol, WriteEarly
  PROVE  Protocol'
<1>1. /\ MemoryOK /\ RequestOK /\ table \in Seq([address : Nat, size : Nat]) /\ TableInBounds
      /\ inPipe \in Seq(Elements) /\ outPipe \in Seq(Elements) /\ outBuffer \in Seq(Elements)
  BY ProtocolFacts
<1>2. PICK r \in Seq(Elements) :
        /\ Alive => r = toSend
        /\ Quiet(inPipe \o r) \/ Asked(inPipe \o r) \/ Replied(inPipe \o r)
  BY ProtocolFacts
<1>3. PICK n \in 1 .. Len(outBuffer) :
        /\ outPipe' = outPipe \o SubSeq(outBuffer, 1, n)
        /\ outBuffer' = SubSeq(outBuffer, n + 1, Len(outBuffer))
  BY DEF WriteEarly
<1>4. /\ UNCHANGED clientVars
      /\ UNCHANGED <<pc, client, request, memory, native, table, inPipe>>
      /\ pc \in {"flush", "last_flush"}
  BY DEF WriteEarly, clientVars
<1>5. MemoryOK' /\ TableInBounds'
  BY <1>1, <1>4, MemoryFrame DEF TableInBounds
<1> DEFINE s == inPipe \o r
<1> HIDE DEF s
<1>s. s' = s /\ (inPipe \o r)' = s
  BY <1>4 DEF s
<1>6. outBuffer # <<>>
  BY <1>1, <1>3
<1>7. Replied(s)
  BY <1>2, <1>6 DEF Quiet, Asked, s
<1>8. /\ outPipe' \in Seq(Elements) /\ outBuffer' \in Seq(Elements)
      /\ outPipe' \o outBuffer' = outPipe \o outBuffer
  <2> DEFINE a == SubSeq(outBuffer, 0 + 1, n)
             b == SubSeq(outBuffer, n + 1, Len(outBuffer))
  <2>1. Len(outBuffer) \in Nat /\ n \in Nat /\ n <= Len(outBuffer)
    BY <1>1
  <2>2. /\ SubSeq(outBuffer, 0 + 1, Len(outBuffer)) = a \o b
        /\ a \in Seq(Elements) /\ b \in Seq(Elements)
    BY <1>1, <2>1, SplitSubSeq DEF Splits
  <2>3. SubSeq(outBuffer, 0 + 1, Len(outBuffer)) = outBuffer
    BY <1>1, WholeSeq
  <2>4. outPipe' = outPipe \o a /\ outBuffer' = b
    BY <1>3
  <2> HIDE DEF a, b
  <2>5. outPipe \o a \in Seq(Elements) /\ (outPipe \o a) \o b = outPipe \o (a \o b)
    <3>1. outPipe \in Seq(Elements) /\ a \in Seq(Elements) /\ b \in Seq(Elements)
      BY <1>1, <2>2
    <3>2. outPipe \o a \in Seq(Elements)
      BY <3>1, ConcatLaws
    <3>3. (outPipe \o a) \o b = outPipe \o (a \o b)
      BY <3>1, ConcatAssoc, SMTT(30)
    <3> QED
      BY <3>2, <3>3
  <2> QED
    BY <2>2, <2>3, <2>4, <2>5, Zenon
<1>9. Answer(outPipe \o outBuffer)'
  BY <1>4, <1>7, <1>8, AnswerFrame DEF Replied
<1>10. Replied(s)'
  BY <1>4, <1>s, <1>7, <1>9 DEF Replied
<1> QED
  BY <1>1, <1>2, <1>4, <1>5, <1>8, <1>s, <1>10, ServerStep DEF s

LEMMA FlushKeeps ==
  ASSUME Protocol, FlushMessage
  PROVE  Protocol'
<1>1. /\ MemoryOK /\ RequestOK /\ table \in Seq([address : Nat, size : Nat]) /\ TableInBounds
      /\ inPipe \in Seq(Elements) /\ outPipe \in Seq(Elements) /\ outBuffer \in Seq(Elements)
  BY ProtocolFacts
<1>2. PICK r \in Seq(Elements) :
        /\ Alive => r = toSend
        /\ Quiet(inPipe \o r) \/ Asked(inPipe \o r) \/ Replied(inPipe \o r)
  BY ProtocolFacts
<1>3. /\ outPipe' = outPipe \o outBuffer /\ outBuffer' = <<>>
      /\ pc \in {"flush", "last_flush"}
      /\ pc' = IF pc = "flush" THEN "opcode" ELSE "deinit"
  BY DEF FlushMessage, flushedPipe
<1>4. /\ UNCHANGED clientVars
      /\ UNCHANGED <<client, request, memory, native, table, inPipe>>
  BY DEF FlushMessage, clientVars
<1>5. MemoryOK' /\ TableInBounds'
  BY <1>1, <1>4, MemoryFrame DEF TableInBounds
<1> DEFINE s == inPipe \o r
<1> HIDE DEF s
<1>s. s' = s /\ (inPipe \o r)' = s
  BY <1>4 DEF s
<1>6. /\ outPipe' \in Seq(Elements) /\ outBuffer' \in Seq(Elements)
      /\ outPipe' \o outBuffer' = outPipe \o outBuffer
      /\ outBuffer = <<>> => outPipe' = outPipe
  BY <1>1, <1>3, EmptyLaws, ConcatLaws
<1>7. CASE Quiet(s)
  <2>1. Quiet(s)'
    BY <1>3, <1>4, <1>6, <1>s, <1>7 DEF Quiet
  <2> QED
    BY <1>1, <1>2, <1>4, <1>5, <1>6, <1>s, <2>1, ServerStep DEF s
<1>8. CASE Asked(s)
  <2>1. pc = "flush" /\ request.cmd # "none" /\ s = Encoded(request, memory)
    BY <1>3, <1>8 DEF Asked, Reads
  <2>2. Reads(s)'
    BY <1>3, <1>4, <1>s, <2>1 DEF Reads
  <2>3. Asked(s)'
    BY <1>3, <1>4, <1>6, <1>s, <1>8, <2>2 DEF Asked
  <2> QED
    BY <1>1, <1>2, <1>4, <1>5, <1>6, <1>s, <2>3, ServerStep DEF s
<1>9. CASE Replied(s)
  <2>1. Answer(outPipe \o outBuffer)'
    BY <1>4, <1>6, <1>9, AnswerFrame DEF Replied
  <2>2. Replied(s)'
    BY <1>3, <1>4, <1>s, <1>9, <2>1 DEF Replied
  <2> QED
    BY <1>1, <1>2, <1>4, <1>5, <1>6, <1>s, <2>2, ServerStep DEF s
<1> QED
  BY <1>2, <1>7, <1>8, <1>9 DEF s

(* The server reads: p is what it wants, q is what follows.                *)
FrontRead(n) ==
  \A r, p, q \in Seq(Elements) :
    n = Len(p) /\ inPipe \o r = p \o q =>
      Got(n) = p /\ inPipe' \in Seq(Elements) /\ inPipe' \o r = q

LEMMA ReadFront ==
  ASSUME NEW n, Received(n), Consume(n), inPipe \in Seq(Elements)
  PROVE  FrontRead(n)
<1> SUFFICES ASSUME NEW r \in Seq(Elements), NEW p \in Seq(Elements), NEW q \in Seq(Elements),
                    n = Len(p), inPipe \o r = p \o q
             PROVE  /\ Got(n) = p
                    /\ inPipe' \in Seq(Elements) /\ inPipe' \o r = q
  BY Zenon DEF FrontRead
<1>1. Len(p) <= Len(inPipe)
  BY DEF Received
<1>2. SubSeq(inPipe, 1, Len(p)) = p
  BY <1>1, TakePrefix
<1>3. After(inPipe, Len(p)) \in Seq(Elements) /\ After(inPipe, Len(p)) \o r = q
  BY <1>1, TakeRest, ZenonT(40)
<1>4. Got(n) = p
  BY <1>2 DEF Got
<1>5. inPipe' = After(inPipe, Len(p))
  BY DEF Consume, After
<1> QED
  BY <1>3, <1>4, <1>5, Zenon

LEMMA NothingToRead ==
  ASSUME NEW r \in Seq(Elements), inPipe \in Seq(Elements), inPipe \o r = <<>>,
         NEW n \in Nat \ {0}
  PROVE  ~Received(n)
<1>1. Len(inPipe) + Len(r) = 0 /\ Len(inPipe) \in Nat /\ Len(r) \in Nat
  BY ConcatLaws, EmptyLaws
<1> QED
  BY <1>1 DEF Received

(* After the opcode, the request's own fields follow.                      *)
LEMMA OpcodeFront ==
  ASSUME MemoryOK, RequestOK
  PROVE  \E q \in Seq(Elements) :
           /\ Encoded(request, memory) = <<request.cmd>> \o q
           /\ request.cmd = "_INVOKE" => q = <<"function", Len(request.objs)>> \o PartsFrom(1)
           /\ request.cmd = "_ALLOC" => q = <<request.size>>
           /\ request.cmd = "_SYNC_READ" => q = <<request.addr, request.size>>
           /\ request.cmd \in {"none", "_GET_SYMBOL_TABLE", "_EXIT"} => q = <<>>
<1>1. request.cmd \in Elements /\ request.cmd \in Commands /\ "function" \in Elements
  BY DEF RequestOK, Elements
<1> DEFINE c == request.cmd
<1>2. CASE request.cmd = "_INVOKE"
  <2> DEFINE q == <<"function", Len(request.objs)>> \o PartsFrom(1)
  <2>1. Len(request.objs) \in Elements
    BY PartsType DEF Elements
  <2>2. <<"function", Len(request.objs)>> \in Seq(Elements) /\ <<c>> \in Seq(Elements)
    BY <1>1, <2>1, ShortSeqs
  <2>3. PartsFrom(1) \in Seq(Elements)
    BY PartsFromFacts, PartsType
  <2>4. q \in Seq(Elements)
    BY <2>2, <2>3, ConcatLaws
  <2>5. Encoded(request, memory) = <<c, "function", Len(request.objs)>> \o PartsFrom(1)
    BY <1>2, EncodedFacts
  <2>6. <<c, "function", Len(request.objs)>> = <<c>> \o <<"function", Len(request.objs)>>
    OBVIOUS
  <2>7. Encoded(request, memory) = <<c>> \o q
    <3>1. (<<c>> \o <<"function", Len(request.objs)>>) \o PartsFrom(1) = <<c>> \o q
      <4>1. \A x, y, z \in Seq(Elements) : (x \o y) \o z = x \o (y \o z)
        BY ConcatAssoc
      <4> QED
        BY <2>2, <2>3, <4>1, Zenon
    <3> QED
      BY <2>5, <2>6, <3>1, Zenon
  <2> QED
    BY <1>2, <2>4, <2>7
<1>3. CASE request.cmd = "_ALLOC"
  <2>1. request.size \in Elements
    BY <1>3 DEF RequestOK, Elements
  <2>2. <<request.size>> \in Seq(Elements)
    BY <2>1, ShortSeqs
  <2>3. Encoded(request, memory) = <<c>> \o <<request.size>>
    BY <1>3, EncodedFacts
  <2> QED
    BY <1>3, <2>2, <2>3
<1>4. CASE request.cmd = "_SYNC_READ"
  <2>1. request.size \in Elements /\ request.addr \in Elements
    BY <1>4, AddressesAreNumbers DEF RequestOK, Elements
  <2>2. <<request.addr, request.size>> \in Seq(Elements)
    BY <2>1, ShortSeqs
  <2>3. Encoded(request, memory) = <<c>> \o <<request.addr, request.size>>
    BY <1>4, EncodedFacts
  <2> QED
    BY <1>4, <2>2, <2>3
<1>5. CASE request.cmd \in {"none", "_GET_SYMBOL_TABLE", "_EXIT"}
  <2>1. <<>> \in Seq(Elements)
    BY EmptyLaws
  <2>2. Encoded(request, memory) = <<c>> \o <<>>
    BY <1>1, <1>5, EncodedFacts, ShortSeqs, EmptyLaws
  <2> QED
    BY <1>5, <2>1, <2>2
<1> QED
  BY <1>1, <1>2, <1>3, <1>4, <1>5 DEF Commands

LEMMA OpcodeKeeps ==
  ASSUME Protocol, Opcode
  PROVE  Protocol'
<1>1. /\ MemoryOK /\ RequestOK /\ table \in Seq([address : Nat, size : Nat]) /\ TableInBounds
      /\ inPipe \in Seq(Elements) /\ outPipe \in Seq(Elements) /\ outBuffer \in Seq(Elements)
  BY ProtocolFacts
<1>2. PICK r \in Seq(Elements) :
        /\ Alive => r = toSend
        /\ Quiet(inPipe \o r) \/ Asked(inPipe \o r) \/ Replied(inPipe \o r)
  BY ProtocolFacts
<1>3. /\ UNCHANGED clientVars
      /\ UNCHANGED <<client, request, memory, native, table, outBuffer, outPipe>>
      /\ pc = "opcode" /\ Received(1) /\ Consume(1)
  BY DEF Opcode, clientVars
<1>4. MemoryOK' /\ TableInBounds'
  BY <1>1, <1>3, MemoryFrame DEF TableInBounds
<1>5. inPipe \o r # <<>>
  BY <1>1, <1>3, NothingToRead
<1>6. /\ Asked(inPipe \o r) /\ inPipe \o r = Encoded(request, memory)
      /\ request.cmd # "none"
  BY <1>2, <1>3, <1>5 DEF Quiet, Replied, Asked, Reads
<1>7. PICK q \in Seq(Elements) :
        /\ Encoded(request, memory) = <<request.cmd>> \o q
        /\ request.cmd = "_INVOKE" => q = <<"function", Len(request.objs)>> \o PartsFrom(1)
        /\ request.cmd = "_ALLOC" => q = <<request.size>>
        /\ request.cmd = "_SYNC_READ" => q = <<request.addr, request.size>>
        /\ request.cmd \in {"none", "_GET_SYMBOL_TABLE", "_EXIT"} => q = <<>>
  BY <1>1, OpcodeFront
<1>8. <<request.cmd>> \in Seq(Elements) /\ 1 = Len(<<request.cmd>>)
  <2>1. request.cmd \in Elements
    BY <1>1 DEF RequestOK, Elements
  <2> QED
    BY <2>1, ShortSeqs
<1>9. Got(1) = <<request.cmd>> /\ inPipe' \in Seq(Elements) /\ inPipe' \o r = q
  <2>1. inPipe \o r = <<request.cmd>> \o q
    BY <1>6, <1>7, Zenon
  <2>2. FrontRead(1)
    BY <1>1, <1>3, ReadFront
  <2> QED
    BY <1>8, <2>1, <2>2, Zenon DEF FrontRead
<1>10. Got(1)[1] = request.cmd
  BY <1>9
<1>11. pc' = CASE request.cmd = "_INVOKE" -> "invoke"
             [] request.cmd = "_GET_SYMBOL_TABLE" -> "get_symbol_table"
             [] request.cmd = "_ALLOC" -> "alloc"
             [] request.cmd = "_SYNC_READ" -> "sync_read"
             [] request.cmd = "_EXIT" -> "exit"
             [] OTHER -> "rejected"
  BY <1>10 DEF Opcode
<1>12. PartsFrom(1)' = PartsFrom(1)
  BY <1>3, Frame
<1> DEFINE s == inPipe \o r
<1>13. Reads(s)'
  <2>1. s' = q
    BY <1>9
  <2> HIDE DEF s
  <2>2. CASE request.cmd = "_INVOKE"
    BY <1>3, <1>7, <1>11, <1>12, <2>1, <2>2 DEF Reads
  <2>3. CASE request.cmd = "_ALLOC"
    BY <1>3, <1>7, <1>11, <2>1, <2>3 DEF Reads
  <2>4. CASE request.cmd = "_SYNC_READ"
    BY <1>3, <1>7, <1>11, <2>1, <2>4 DEF Reads
  <2>5. CASE request.cmd = "_GET_SYMBOL_TABLE"
    BY <1>3, <1>7, <1>11, <2>1, <2>5 DEF Reads
  <2>6. CASE request.cmd = "_EXIT"
    BY <1>3, <1>7, <1>11, <2>1, <2>6 DEF Reads
  <2> QED
    BY <1>1, <1>6, <2>2, <2>3, <2>4, <2>5, <2>6 DEF RequestOK, Commands
<1>14. Asked(s)'
  BY <1>3, <1>6, <1>13 DEF Asked
<1> QED
  BY <1>1, <1>2, <1>3, <1>4, <1>9, <1>14, ServerStep

(* Where the server is in the middle of a request.                         *)
Busy == {"invoke", "object", "dirty", "clean", "call", "reply", "alloc", "sync_read",
         "get_symbol_table", "exit"}

LEMMA BusyAsked ==
  ASSUME Protocol, pc \in Busy
  PROVE  \E r \in Seq(Elements) :
           /\ Alive => r = toSend
           /\ client # "idle" /\ outPipe = <<>> /\ outBuffer = <<>>
           /\ Reads(inPipe \o r)
<1>1. PICK r \in Seq(Elements) :
        /\ Alive => r = toSend
        /\ Quiet(inPipe \o r) \/ Asked(inPipe \o r) \/ Replied(inPipe \o r)
  BY ProtocolFacts
<1>2. Asked(inPipe \o r)
  BY <1>1 DEF Busy, Quiet, Replied
<1> QED
  BY <1>1, <1>2 DEF Asked

(* The server goes on with the request.                                    *)
LEMMA StillAsked ==
  ASSUME Protocol, UNCHANGED clientVars, UNCHANGED <<outPipe, outBuffer>>, MemoryOK',
         inPipe' \in Seq(Elements),
         table' \in Seq([address : Nat, size : Nat]), TableInBounds',
         client # "idle", outPipe = <<>>, outBuffer = <<>>,
         NEW r \in Seq(Elements), Alive => r = toSend,
         Reads(inPipe \o r)'
  PROVE  Protocol'
<1>1. client' = client /\ outPipe' = <<>> /\ outBuffer' = <<>>
  BY DEF clientVars
<1>2. client \in {"waiting", "dead"} /\ outPipe \in Seq(Elements) /\ outBuffer \in Seq(Elements)
  BY ProtocolFacts
<1>3. Asked(inPipe \o r)'
  BY <1>1, <1>2 DEF Asked
<1> QED
  BY <1>1, <1>2, <1>3, ServerStep

(* The server answers with o.                                              *)
LEMMA NowReplied ==
  ASSUME Protocol, UNCHANGED clientVars, UNCHANGED <<outPipe, table>>, MemoryOK',
         inPipe' \in Seq(Elements),
         client # "idle", outPipe = <<>>,
         NEW r \in Seq(Elements), Alive => r = toSend, inPipe' \o r = <<>>,
         NEW o \in Seq(Elements), outBuffer' = o, Answer(o)',
         pc' = "flush" \/ (pc' = "last_flush" /\ request.cmd = "_EXIT")
  PROVE  Protocol'
<1>1. client' = client /\ outPipe' = <<>> /\ request' = request
  BY DEF clientVars
<1>2. client \in {"waiting", "dead"} /\ outPipe \in Seq(Elements)
  BY ProtocolFacts
<1>3. outPipe' \o outBuffer' = o
  BY <1>1, EmptyLaws
<1>4. Answer(outPipe \o outBuffer)'
  BY <1>3 DEF Answer
<1>5. Replied(inPipe \o r)'
  BY <1>1, <1>2, <1>4 DEF Replied
<1>6. table' \in Seq([address : Nat, size : Nat]) /\ TableInBounds'
  BY ProtocolFacts DEF TableInBounds
<1> QED
  BY <1>1, <1>2, <1>5, <1>6, ServerStep

LEMMA InvokeKeeps ==
  ASSUME Protocol, Invoke
  PROVE  Protocol'
<1>1. /\ MemoryOK /\ RequestOK /\ inPipe \in Seq(Elements)
      /\ Len(request.objs) \in Nat
  BY ProtocolFacts, PartsType
<1>2. PICK r \in Seq(Elements) :
        /\ Alive => r = toSend
        /\ client # "idle" /\ outPipe = <<>> /\ outBuffer = <<>>
        /\ Reads(inPipe \o r)
  BY BusyAsked DEF Invoke, Busy
<1>3. /\ UNCHANGED clientVars /\ UNCHANGED <<outPipe, outBuffer, native, request, memory>>
      /\ pc = "invoke" /\ Received(2) /\ Consume(2) /\ table' = <<>>
      /\ count' = Got(2)[2]
      /\ pc' = IF TooMany(Got(2)[2]) THEN "rejected" ELSE AfterObject(0)
  BY DEF Invoke, clientVars
<1> DEFINE n == Len(request.objs)
           p == <<"function", n>>
<1>4. PICK q \in Seq(Elements) : q = PartsFrom(1)
  BY <1>1, PartsFromFacts
<1>5. request.cmd = "_INVOKE" /\ inPipe \o r = p \o q
  BY <1>2, <1>3, <1>4 DEF Reads
<1>6. p \in Seq(Elements) /\ 2 = Len(p)
  <2>1. n \in Elements /\ "function" \in Elements
    BY <1>1 DEF Elements
  <2> QED
    BY <2>1, ShortSeqs
<1>7. Got(2) = p /\ inPipe' \in Seq(Elements) /\ inPipe' \o r = q
  <2> HIDE DEF p
  <2>2. FrontRead(2)
    BY <1>1, <1>3, ReadFront
  <2> QED
    BY <1>5, <1>6, <2>2, Zenon DEF FrontRead
<1>8. Got(2)[2] = n
  BY <1>7
<1>9. MemoryOK' /\ TableInBounds' /\ table' \in Seq([address : Nat, size : Nat])
  <2>1. MemoryOK'
    BY <1>1, <1>3, MemoryFrame
  <2>2. table' \in Seq([address : Nat, size : Nat]) /\ Len(table') = 0
    BY <1>3, EmptyLaws
  <2> QED
    BY <2>1, <2>2, ServerAssumption DEF TableInBounds
<1>10. Len(table)' = 0 /\ Len(request.objs)' = n /\ request.cmd' = "_INVOKE"
  BY <1>3, <1>5, EmptyLaws
<1>11. PartsFrom(1)' = q /\ PartsFrom(n + 1) = <<>>
  BY <1>1, <1>3, <1>4, Frame, PartsFromFacts
<1> DEFINE s == inPipe \o r
<1>12. Reads(s)'
  <2>0. s' = q
    BY <1>7
  <2> HIDE DEF s
  <2>1. CASE TooMany(n)
    <3>1. pc' = "rejected" /\ Len(request.objs)' > NATIVE_MEMORY_SIZE
      BY <1>3, <1>8, <1>10, <2>1 DEF TooMany
    <3> QED
      BY <1>10, <3>1 DEF Reads
  <2>2. CASE ~TooMany(n) /\ 0 < n
    <3>1. pc' = "object" /\ n <= NATIVE_MEMORY_SIZE
      BY <1>1, <1>3, <1>8, <2>2, ServerAssumption DEF AfterObject, TooMany
    <3>2. Invoking(Len(table))'
      BY <1>1, <1>3, <1>8, <1>10, <3>1 DEF Invoking
    <3>3. q = PartsFrom(Len(table) + 1)'
      BY <1>10, <1>11
    <3> QED
      BY <1>10, <2>0, <2>2, <3>1, <3>2, <3>3 DEF Reads
  <2>3. CASE ~TooMany(n) /\ n = 0
    <3>1. pc' = "call" /\ n <= NATIVE_MEMORY_SIZE
      BY <1>1, <1>3, <1>8, <2>3, ServerAssumption DEF AfterObject, TooMany
    <3>2. Invoking(Len(request.objs))' /\ Called'
      BY <1>1, <1>3, <1>8, <1>10, <2>3, <3>1 DEF Invoking, Called
    <3>3. q = <<>>
      BY <1>4, <1>11, <2>3
    <3> QED
      BY <2>0, <3>1, <3>2, <3>3 DEF Reads
  <2> QED
    BY <1>1, <2>1, <2>2, <2>3
<1> QED
  BY <1>1, <1>2, <1>3, <1>7, <1>9, <1>12, StillAsked

(* The part of the i-th object is its header and its contents.             *)
LEMMA PartFront ==
  ASSUME MemoryOK, RequestOK, NEW i \in 1 .. Len(request.objs),
         NEW a, a = request.objs[i]
  PROVE  /\ PartsFrom(i) = <<a, a \in request.dirty, Len(memory[a])>>
                             \o (memory[a] \o PartsFrom(i + 1))
         /\ <<a, a \in request.dirty, Len(memory[a])>> \in Seq(Elements)
         /\ memory[a] \o PartsFrom(i + 1) \in Seq(Elements)
<1>1. a \in DOMAIN memory /\ Len(request.objs) \in Nat
  BY PartsType
<1>2. /\ PartsFrom(i + 1) \in Seq(Elements)
      /\ PartsFrom(i) = Part(request, memory, a) \o PartsFrom(i + 1)
  BY <1>1, PartsFromFacts
<1> DEFINE h == <<a, a \in request.dirty, Len(memory[a])>>
<1>3. /\ h \in Seq(Elements) /\ memory[a] \in Seq(Elements)
      /\ Part(request, memory, a) = h \o memory[a]
  BY <1>1, PartType DEF Part
<1> HIDE DEF h
<1>4. \A x, y, z \in Seq(Elements) : (x \o y) \o z = x \o (y \o z) /\ y \o z \in Seq(Elements)
  BY ConcatAssoc, ConcatLaws
<1>5. PartsFrom(i) = h \o (memory[a] \o PartsFrom(i + 1))
  <2>1. (h \o memory[a]) \o PartsFrom(i + 1) = h \o (memory[a] \o PartsFrom(i + 1))
    BY <1>2, <1>3, <1>4, Zenon
  <2> QED
    BY <1>2, <1>3, <2>1, Zenon
<1>6. memory[a] \o PartsFrom(i + 1) \in Seq(Elements)
  BY <1>2, <1>3, <1>4, Zenon
<1> QED
  BY <1>3, <1>5, <1>6 DEF h

LEMMA HeaderKeeps ==
  ASSUME Protocol, ReceiveHeader
  PROVE  Protocol'
<1>1. /\ MemoryOK /\ RequestOK /\ inPipe \in Seq(Elements)
      /\ table \in Seq([address : Nat, size : Nat])
      /\ Len(request.objs) \in Nat
  BY ProtocolFacts, PartsType
<1>2. PICK r \in Seq(Elements) :
        /\ Alive => r = toSend
        /\ client # "idle" /\ outPipe = <<>> /\ outBuffer = <<>>
        /\ Reads(inPipe \o r)
  BY BusyAsked DEF ReceiveHeader, Busy
<1>3. /\ UNCHANGED clientVars /\ UNCHANGED <<outPipe, outBuffer, native, request, memory, count>>
      /\ pc = "object" /\ Received(3) /\ Consume(3)
      /\ current' = [addr |-> Got(3)[1], dirty |-> Got(3)[2], size |-> Got(3)[3],
                     remaining |-> Got(3)[3]]
      /\ table' = Append(table, [address |-> Got(3)[1], size |-> Got(3)[3]])
      /\ pc' = IF Got(3)[2] THEN "dirty" ELSE "clean"
  BY DEF ReceiveHeader, clientVars
<1>i. PICK i, n : i = Len(table) + 1 /\ n = Len(request.objs)
  OBVIOUS
<1>a. PICK a : a = request.objs[i]
  OBVIOUS
<1> DEFINE p == <<a, a \in request.dirty, Len(memory[a])>>
<1>4. Invoking(Len(table)) /\ Len(table) < n /\ inPipe \o r = PartsFrom(i)
  BY <1>2, <1>3, <1>i DEF Reads
<1>5. Len(table) \in Nat /\ i \in 1 .. n /\ i \in Nat
  BY <1>1, <1>4, <1>i
<1>6. a \in DOMAIN memory /\ a \in Nat /\ Len(memory[a]) \in Nat /\ memory[a] \in Seq(Bytes)
  <2>1. a \in DOMAIN memory
    BY <1>1, <1>5, <1>a, <1>i, PartsType
  <2> QED
    BY <1>1, <2>1, AddressesAreNumbers
<1>7. /\ p \in Seq(Elements)
      /\ memory[a] \o PartsFrom(i + 1) \in Seq(Elements)
      /\ PartsFrom(i) = p \o (memory[a] \o PartsFrom(i + 1))
  BY <1>1, <1>5, <1>a, <1>i, PartFront
<1>8. PICK q \in Seq(Elements) : q = memory[a] \o PartsFrom(i + 1)
  BY <1>7, Zenon
<1>9. 3 = Len(p)
  OBVIOUS
<1>10. Got(3) = p /\ inPipe' \in Seq(Elements) /\ inPipe' \o r = q
  <2>1. inPipe \o r = p \o q
    BY <1>4, <1>7, <1>8, Zenon
  <2> HIDE DEF p
  <2>2. FrontRead(3)
    BY <1>1, <1>3, ReadFront
  <2> QED
    BY <1>7, <1>9, <2>1, <2>2, Zenon DEF FrontRead
<1>11. Got(3)[1] = a /\ Got(3)[2] = (a \in request.dirty) /\ Got(3)[3] = Len(memory[a])
  BY <1>10
<1>12. /\ table' = Append(table, Entry(a))
       /\ current'.addr = a /\ current'.size = Len(memory[a])
       /\ current'.remaining = Len(memory[a])
       /\ pc' \in {"dirty", "clean"}
  BY <1>3, <1>11 DEF Entry
<1>13. Entry(a) \in [address : Nat, size : Nat]
  BY <1>6 DEF Entry
<1> HIDE DEF p
<1>14. /\ table' \in Seq([address : Nat, size : Nat]) /\ Len(table') = i
       /\ \A j \in 1 .. Len(table) : table'[j] = table[j]
       /\ table'[i] = Entry(a)
  BY <1>1, <1>12, <1>13, <1>i
<1>15. MemoryOK' /\ TableInBounds'
  <2>1. MemoryOK'
    BY <1>1, <1>3, MemoryFrame
  <2>2. n <= NATIVE_MEMORY_SIZE
    BY <1>4, <1>i DEF Invoking
  <2> QED
    BY <1>1, <1>5, <1>14, <1>i, <2>1, <2>2, ServerAssumption DEF TableInBounds
<1>16. /\ PartsFrom(i + 1)' = PartsFrom(i + 1)
       /\ \A x : Entry(x)' = Entry(x)
  BY <1>3, Frame
<1>17. Invoking(i - 1)'
  <2>1. \A j \in 1 .. i : table'[j] = Entry(request.objs[j])
    <3> TAKE j \in 1 .. i
    <3>1. CASE j = i
      BY <1>14, <1>a, <3>1
    <3>2. CASE j # i
      <4>1. j \in 1 .. Len(table)
        BY <1>5, <1>i, <3>2
      <4> QED
        BY <1>4, <1>14, <4>1 DEF Invoking
    <3> QED
      BY <3>1, <3>2
  <2>2. i - 1 = Len(table)
    BY <1>5, <1>i
  <2> QED
    BY <1>3, <1>4, <1>5, <1>14, <1>16, <1>i, <2>1, <2>2, SMTT(30) DEF Invoking
<1>18. Receiving'
  <2>1. Len(table)' = i /\ i >= 1 /\ request' = request /\ memory' = memory
    BY <1>3, <1>5, <1>14
  <2>2. current.addr' = request.objs[i]
    BY <1>12, <1>a
  <2>3. current.size' = Len(memory[a]) /\ current.remaining' \in 0 .. Len(memory[a])
    BY <1>6, <1>12
  <2>4. current.size' - current.remaining' = 0
    BY <1>6, <1>12
  <2> QED
    BY <1>12, <1>17, <2>1, <2>2, <2>3, <2>4 DEF Receiving
<1> DEFINE s == inPipe \o r
<1>19. Reads(s)'
  <2>0. s' = q
    BY <1>10
  <2>1. PartsFrom(Len(table) + 1)' = PartsFrom(i + 1) /\ memory[current.addr]' = memory[a]
    BY <1>3, <1>12, <1>14, <1>16
  <2> HIDE DEF s
  <2>2. SubSeq(memory[current.addr], current.size - current.remaining + 1, current.size)'
          = memory[a]
    <3>1. current.size' - current.remaining' + 1 = 1
      BY <1>6, <1>12
    <3>2. SubSeq(memory[a], 1, Len(memory[a])) = memory[a]
      BY <1>6, WholeSeq
    <3> QED
      BY <1>12, <2>1, <3>1, <3>2
  <2>3. CASE pc' = "dirty"
    BY <1>8, <1>18, <2>0, <2>1, <2>2, <2>3 DEF Reads
  <2>4. CASE pc' = "clean"
    BY <1>8, <1>18, <2>0, <2>1, <2>4 DEF Reads
  <2> QED
    BY <1>12, <2>3, <2>4
<1> QED
  BY <1>1, <1>2, <1>3, <1>10, <1>14, <1>15, <1>19, StillAsked

(* The server stores the contents t of an object of the call.              *)
LEMMA MemoryStored ==
  ASSUME MemoryOK, UNCHANGED <<request, memory>>,
         NEW a \in DOMAIN memory, a \in ToSet(request.objs),
         NEW t \in Seq(Bytes), Len(t) = Len(native[a]), native' = [native EXCEPT ![a] = t]
  PROVE  MemoryOK'
<1>1. PICK n \in Nat : native \in [1 .. n -> Seq(Bytes)]
  BY DEF MemoryOK
<1>2. a \in 1 .. n /\ DOMAIN native = 1 .. n
  BY <1>1 DEF MemoryOK
<1>3. native' \in [1 .. n -> Seq(Bytes)] /\ DOMAIN native' = 1 .. n
  BY <1>1, <1>2
<1>4. \A x \in 1 .. n : x # a => native'[x] = native[x]
  BY <1>2
<1>5. native'[a] = t
  BY <1>2
<1>6. \A x \in 1 .. n : Len(native'[x]) = Len(native[x])
  BY <1>4, <1>5
<1>7. \A x \in DOMAIN native' : Len(native'[x]) # 0
  BY <1>2, <1>3, <1>6 DEF MemoryOK
<1>8. \A x \in DOMAIN memory : Len(memory[x]) = Len(native'[x])
  BY <1>2, <1>6 DEF MemoryOK
<1>9. \A x \in DOMAIN memory : x \notin ToSet(request.objs) => memory[x] = native'[x]
  BY <1>2, <1>4 DEF MemoryOK
<1> QED
  BY <1>2, <1>3, <1>7, <1>8, <1>9 DEF MemoryOK

(* The object being received is one of the call's.                         *)
LEMMA ReceivingObject ==
  ASSUME MemoryOK, RequestOK, table \in Seq([address : Nat, size : Nat]), Receiving
  PROVE  /\ current.addr \in DOMAIN memory /\ current.addr \in ToSet(request.objs)
         /\ current.size = Len(memory[current.addr])
         /\ PartsFrom(Len(table) + 1) \in Seq(Elements)
<1>1. /\ Len(table) \in Nat /\ Len(request.objs) \in Nat
      /\ Len(table) >= 1 /\ Len(table) <= Len(request.objs)
      /\ current.addr = request.objs[Len(table)]
  BY PartsType DEF Receiving, Invoking
<1>2. Len(table) \in 1 .. Len(request.objs) /\ Len(table) + 1 \in 1 .. Len(request.objs) + 1
  BY <1>1
<1>3. current.addr \in DOMAIN memory
  BY <1>1, <1>2, PartsType
<1>4. current.addr \in ToSet(request.objs)
  <2>1. DOMAIN request.objs = 1 .. Len(request.objs)
    BY DEF RequestOK
  <2> QED
    BY <1>1, <1>2, <2>1 DEF ToSet
<1>5. PartsFrom(Len(table) + 1) \in Seq(Elements)
  BY <1>2, PartsFromFacts
<1> QED
  BY <1>3, <1>4, <1>5 DEF Receiving

(* What is stored to the object being received is not stored to those      *)
(* before it.                                                              *)
LEMMA StoreKeepsInvoking ==
  ASSUME MemoryOK, RequestOK, table \in Seq([address : Nat, size : Nat]), Receiving,
         UNCHANGED <<request, memory, table, count>>,
         NEW t, native' = [native EXCEPT ![current.addr] = t]
  PROVE  Invoking(Len(table) - 1)'
<1>i. PICK i, n, a : i = Len(table) /\ n = Len(request.objs) /\ a = current.addr
  OBVIOUS
<1>1. /\ i \in Nat /\ n \in Nat /\ i >= 1 /\ i <= n
      /\ a = request.objs[i] /\ Invoking(i - 1)
  BY <1>i, PartsType DEF Receiving, Invoking
<1>2. DOMAIN request.objs = 1 .. n
  BY <1>i DEF RequestOK
<1>3. \A j \in 1 .. i - 1 : native'[request.objs[j]] = memory[request.objs[j]]
  <2> TAKE j \in 1 .. i - 1
  <2>1. j \in 1 .. n /\ i \in 1 .. n /\ j # i
    BY <1>1
  <2>2. request.objs[j] # a
    BY <1>1, <1>2, <2>1 DEF RequestOK
  <2>3. request.objs[j] \in DOMAIN native
    <3>1. request.objs[j] \in DOMAIN memory
      BY <1>i, <2>1, PartsType
    <3> QED
      BY <3>1 DEF MemoryOK
  <2>4. native[request.objs[j]] = memory[request.objs[j]]
    BY <1>1 DEF Invoking
  <2> QED
    BY <1>i, <2>2, <2>3, <2>4
<1>4. \A x : Entry(x)' = Entry(x)
  BY Frame
<1>5. Invoking(i - 1)'
  BY <1>1, <1>3, <1>4 DEF Invoking
<1> QED
  BY <1>5, <1>i

(* The last object of the table has been received in full.                 *)
LEMMA ObjectDone ==
  ASSUME MemoryOK, RequestOK, table \in Seq([address : Nat, size : Nat]),
         Receiving, UNCHANGED <<request, memory, table, count>>,
         native' = [native EXCEPT ![current.addr] = memory[current.addr]],
         pc' = AfterObject(Len(table)),
         NEW r, inPipe' \o r = PartsFrom(Len(table) + 1)
  PROVE  Reads(inPipe \o r)'
<1>i. PICK i, n, a : i = Len(table) /\ n = Len(request.objs) /\ a = current.addr
  OBVIOUS
<1>1. /\ i \in Nat /\ n \in Nat /\ i >= 1 /\ i <= n
      /\ a = request.objs[i] /\ Invoking(i - 1) /\ count = n
  BY <1>i, PartsType DEF Receiving, Invoking
<1>2. /\ \A j \in 1 .. n : request.objs[j] \in DOMAIN memory
      /\ DOMAIN memory \subseteq DOMAIN native
      /\ DOMAIN request.objs = 1 .. n
  <2>1. \A j \in 1 .. n : request.objs[j] \in DOMAIN memory
    BY <1>i, PartsType
  <2>2. DOMAIN memory \subseteq DOMAIN native
    BY DEF MemoryOK
  <2>3. DOMAIN request.objs = 1 .. n
    BY <1>i DEF RequestOK
  <2> QED
    BY <2>1, <2>2, <2>3
<1>3. \A j \in 1 .. i : native'[request.objs[j]] = memory[request.objs[j]]
  <2> TAKE j \in 1 .. i
  <2>1. request.objs[j] \in DOMAIN native
    BY <1>1, <1>2
  <2>2. CASE j = i
    BY <1>1, <1>i, <2>1, <2>2
  <2>3. CASE j # i
    <3>0. j \in 1 .. i - 1 /\ j \in 1 .. n /\ i \in 1 .. n
      BY <1>1, <2>3
    <3>1. request.objs[j] # a
      BY <1>1, <1>2, <2>3, <3>0 DEF RequestOK
    <3>2. native[request.objs[j]] = memory[request.objs[j]]
      BY <1>1, <3>0 DEF Invoking
    <3> QED
      BY <1>i, <2>1, <3>1, <3>2
  <2> QED
    BY <2>2, <2>3
<1>4. /\ Len(table)' = i /\ Len(request.objs)' = n /\ request.cmd' = "_INVOKE" /\ count' = n
      /\ n <= NATIVE_MEMORY_SIZE
  BY <1>1, <1>i DEF Invoking
<1>5. \A x : Entry(x)' = Entry(x)
  BY Frame
<1>6. \A j \in 1 .. i : table[j] = Entry(request.objs[j])
  BY <1>1, <1>i DEF Invoking
<1>7. Invoking(i)'
  BY <1>1, <1>3, <1>4, <1>5, <1>6 DEF Invoking
<1> DEFINE s == inPipe \o r
<1> HIDE DEF s
<1>8. PartsFrom(Len(table) + 1)' = PartsFrom(i + 1) /\ s' = PartsFrom(i + 1)
  <2>1. PartsFrom(i + 1)' = PartsFrom(i + 1)
    BY Frame
  <2> QED
    BY <1>4, <1>i, <2>1 DEF s
<1>9. CASE i < n
  <2>1. pc' = "object"
    BY <1>4, <1>9, <1>i DEF AfterObject
  <2>2. Invoking(Len(table))'
    BY <1>4, <1>7
  <2> QED
    BY <1>4, <1>8, <1>9, <2>1, <2>2 DEF Reads, s
<1>10. CASE i = n
  <2>1. pc' = "call"
    BY <1>1, <1>4, <1>10, <1>i DEF AfterObject
  <2>2. s' = <<>>
    BY <1>8, <1>10, <1>i, PartsFromFacts
  <2>3. Called' /\ Invoking(Len(request.objs))'
    BY <1>4, <1>5, <1>6, <1>7, <1>10 DEF Called
  <2> QED
    BY <2>1, <2>2, <2>3 DEF Reads, s
<1> QED
  BY <1>1, <1>9, <1>10

LEMMA CleanKeeps ==
  ASSUME Protocol, ReceiveClean
  PROVE  Protocol'
<1>1. /\ MemoryOK /\ RequestOK /\ inPipe \in Seq(Elements)
      /\ table \in Seq([address : Nat, size : Nat]) /\ TableInBounds
  BY ProtocolFacts
<1>2. PICK r \in Seq(Elements) :
        /\ Alive => r = toSend
        /\ client # "idle" /\ outPipe = <<>> /\ outBuffer = <<>>
        /\ Reads(inPipe \o r)
  BY BusyAsked DEF ReceiveClean, Busy
<1>3. /\ UNCHANGED clientVars /\ UNCHANGED <<outPipe, outBuffer, request, memory, table, count>>
      /\ pc = "clean" /\ Received(current.size) /\ Consume(current.size)
      /\ native' = [native EXCEPT ![current.addr] = Got(current.size)]
      /\ pc' = AfterObject(Len(table))
  BY DEF ReceiveClean, clientVars
<1>4. /\ Receiving
      /\ inPipe \o r = memory[current.addr] \o PartsFrom(Len(table) + 1)
  BY <1>2, <1>3 DEF Reads
<1>5. /\ current.addr \in DOMAIN memory /\ current.addr \in ToSet(request.objs)
      /\ current.size = Len(memory[current.addr])
  BY <1>1, <1>4, ReceivingObject
<1>6. /\ memory[current.addr] \in Seq(Bytes) /\ memory[current.addr] \in Seq(Elements)
      /\ Len(memory[current.addr]) = Len(native[current.addr])
  BY <1>1, <1>5, AddressesAreNumbers, BytesAreElements DEF MemoryOK
<1>7. PartsFrom(Len(table) + 1) \in Seq(Elements)
  BY <1>1, <1>4, ReceivingObject
<1>8. /\ Got(current.size) = memory[current.addr]
      /\ inPipe' \in Seq(Elements) /\ inPipe' \o r = PartsFrom(Len(table) + 1)
  <2>1. FrontRead(current.size)
    BY <1>1, <1>3, ReadFront
  <2>2. PICK p, q, n : /\ p = memory[current.addr] /\ q = PartsFrom(Len(table) + 1)
                       /\ n = current.size
    OBVIOUS
  <2>3. p \in Seq(Elements) /\ q \in Seq(Elements) /\ n = Len(p) /\ inPipe \o r = p \o q
    BY <1>4, <1>5, <1>6, <1>7, <2>2, Zenon
  <2>4. FrontRead(n)
    BY <2>1, <2>2
  <2>5. Got(n) = p /\ inPipe' \in Seq(Elements) /\ inPipe' \o r = q
    BY <2>3, <2>4, Zenon DEF FrontRead
  <2> QED
    BY <2>2, <2>5, Zenon
<1>9. native' = [native EXCEPT ![current.addr] = memory[current.addr]]
  BY <1>3, <1>8
<1>10. MemoryOK' /\ TableInBounds'
  <2>1. MemoryOK'
    BY <1>1, <1>3, <1>5, <1>6, <1>9, MemoryStored
  <2> QED
    BY <1>1, <1>3, <2>1 DEF TableInBounds
<1>11. Reads(inPipe \o r)'
  BY <1>1, <1>3, <1>4, <1>8, <1>9, ObjectDone
<1> QED
  BY <1>1, <1>2, <1>3, <1>8, <1>10, <1>11, StillAsked

(* One piece of a dirty object: what the server writes at the offset is    *)
(* what comes next of the client's contents.                               *)
PieceWritten(m, o, at, c, p, t) ==
  /\ p \in Seq(Bytes) /\ Len(p) = c
  /\ SubSeq(m, at + c + 1, Len(m)) \in Seq(Bytes)
  /\ SubSeq(m, at + 1, Len(m)) = p \o SubSeq(m, at + c + 1, Len(m))
  /\ t \in Seq(Bytes) /\ Len(t) = Len(o)
  /\ \A j \in 1 .. at + c : t[j] = m[j]

LEMMA DirtyPiece ==
  ASSUME NEW m \in Seq(Bytes), NEW o \in Seq(Bytes), Len(o) = Len(m),
         NEW rem \in 0 .. Len(m), NEW at, at = Len(m) - rem,
         NEW c \in 0 .. rem,
         \A j \in 1 .. at : o[j] = m[j],
         NEW p, p = SubSeq(m, at + 1, at + c),
         NEW t, t = ReplaceFrom(o, at, p)
  PROVE  PieceWritten(m, o, at, c, p, t)
<1>1. Len(m) \in Nat /\ at \in Nat /\ c \in Nat /\ at + c \in Nat /\ at + c <= Len(m)
  OBVIOUS
<1>2. Piece(Bytes, m, at, c, p)
  BY <1>1, TakePiece
<1>3. /\ p \in Seq(Bytes) /\ Len(p) = c /\ \A x \in 1 .. c : p[x] = m[at + x]
      /\ SubSeq(m, at + c + 1, Len(m)) \in Seq(Bytes)
      /\ SubSeq(m, at + 1, Len(m)) = p \o SubSeq(m, at + c + 1, Len(m))
  BY <1>2, Zenon DEF Piece
<1>4. at + Len(p) <= Len(o)
  BY <1>1, <1>3
<1>5. /\ t \in Seq(Bytes) /\ Len(t) = Len(o)
      /\ \A j \in 1 .. at : t[j] = o[j]
      /\ \A j \in 1 .. Len(p) : t[at + j] = p[j]
  <2>1. t = SubSeq(o, 1, at) \o p \o SubSeq(o, at + Len(p) + 1, Len(o))
    BY DEF ReplaceFrom
  <2>2. Replaced(Bytes, o, at, p, SubSeq(o, 1, at) \o p \o SubSeq(o, at + Len(p) + 1, Len(o)))
    BY <1>1, <1>3, <1>4, ReplacePart
  <2>3. Replaced(Bytes, o, at, p, t)
    BY <2>1, <2>2
  <2> QED
    BY <2>3, Zenon DEF Replaced
<1>6. ASSUME NEW j \in 1 .. at + c
      PROVE  t[j] = m[j]
  <2>1. CASE j <= at
    BY <1>1, <1>5, <2>1
  <2>2. CASE j > at
    <3>1. j - at \in 1 .. c /\ at + (j - at) = j
      BY <1>1, <2>2
    <3>2. t[at + (j - at)] = p[j - at] /\ p[j - at] = m[at + (j - at)]
      BY <1>3, <1>5, <3>1
    <3> QED
      BY <3>1, <3>2, Zenon
  <2> QED
    BY <1>1, <2>1, <2>2
<1> QED
  BY <1>3, <1>5, <1>6, Zenon DEF PieceWritten

LEMMA DirtyKeeps ==
  ASSUME Protocol, ReceiveDirty
  PROVE  Protocol'
<1>1. /\ MemoryOK /\ RequestOK /\ inPipe \in Seq(Elements)
      /\ table \in Seq([address : Nat, size : Nat]) /\ TableInBounds
  BY ProtocolFacts
<1>2. PICK r \in Seq(Elements) :
        /\ Alive => r = toSend
        /\ client # "idle" /\ outPipe = <<>> /\ outBuffer = <<>>
        /\ Reads(inPipe \o r)
  BY BusyAsked DEF ReceiveDirty, Busy
<1>3. /\ UNCHANGED clientVars /\ UNCHANGED <<outPipe, outBuffer, request, memory, table, count>>
      /\ pc = "dirty" /\ Received(Chunk) /\ Consume(Chunk)
      /\ native' = [native EXCEPT ![current.addr] =
                      ReplaceFrom(@, current.size - current.remaining, Got(Chunk))]
      /\ current' = [current EXCEPT !.remaining = @ - Chunk]
      /\ pc' = IF current.remaining > BufferSize THEN "dirty" ELSE AfterObject(Len(table))
  BY DEF ReceiveDirty, clientVars, writeDirty
<1>4. /\ Receiving
      /\ inPipe \o r = SubSeq(memory[current.addr], current.size - current.remaining + 1,
                              current.size) \o PartsFrom(Len(table) + 1)
  BY <1>2, <1>3 DEF Reads
<1>5. /\ current.addr \in DOMAIN memory /\ current.addr \in ToSet(request.objs)
      /\ current.size = Len(memory[current.addr])
      /\ PartsFrom(Len(table) + 1) \in Seq(Elements)
  BY <1>1, <1>4, ReceivingObject
<1>6. PICK a, m, o, L, rem, c, at, q :
        /\ a = current.addr /\ m = memory[a] /\ o = native[a] /\ L = current.size
        /\ rem = current.remaining /\ c = Chunk /\ at = L - rem
        /\ q = PartsFrom(Len(table) + 1)
  OBVIOUS
<1>7. /\ m \in Seq(Bytes) /\ o \in Seq(Bytes) /\ Len(o) = Len(m) /\ L = Len(m)
      /\ a \in DOMAIN native
  BY <1>1, <1>5, <1>6, AddressesAreNumbers DEF MemoryOK
<1>8. rem \in 0 .. L /\ \A j \in 1 .. at : o[j] = m[j]
  BY <1>4, <1>6 DEF Receiving
<1>9. /\ L \in Nat /\ rem \in Nat /\ c \in 0 .. rem /\ at \in Nat /\ at + c \in 0 .. L
      /\ rem > BufferSize => c = BufferSize /\ c \in Nat \ {0}
      /\ ~(rem > BufferSize) => c = rem /\ at + c = L
      /\ L - (rem - c) = at + c /\ rem - c \in 0 .. L
  <2>1. L \in Nat /\ BufferSize \in Nat \ {0}
    BY <1>7, ServerAssumption
  <2>2. c = IF rem > BufferSize THEN BufferSize ELSE rem
    BY <1>6 DEF Chunk
  <2>3. at = L - rem
    BY <1>6
  <2> QED
    BY <1>8, <2>1, <2>2, <2>3
<1>10. PICK p, t : p = SubSeq(m, at + 1, at + c) /\ t = ReplaceFrom(o, at, p)
  OBVIOUS
<1>11. /\ p \in Seq(Bytes) /\ Len(p) = c
       /\ SubSeq(m, at + c + 1, Len(m)) \in Seq(Bytes)
       /\ SubSeq(m, at + 1, Len(m)) = p \o SubSeq(m, at + c + 1, Len(m))
       /\ t \in Seq(Bytes) /\ Len(t) = Len(o)
       /\ \A j \in 1 .. at + c : t[j] = m[j]
  <2>1. rem \in 0 .. Len(m) /\ at = Len(m) - rem /\ c \in 0 .. rem
    BY <1>6, <1>7, <1>8, <1>9
  <2>2. PieceWritten(m, o, at, c, p, t)
    BY <1>7, <1>8, <1>10, <2>1, DirtyPiece
  <2> QED
    BY <2>2, Zenon DEF PieceWritten
<1>12. PICK rest : rest = SubSeq(m, at + c + 1, L) \o q
  OBVIOUS
<1>13. /\ p \in Seq(Elements) /\ rest \in Seq(Elements) /\ q \in Seq(Elements)
       /\ inPipe \o r = p \o rest
  <2>1. PICK u : u = SubSeq(m, at + c + 1, Len(m))
    OBVIOUS
  <2>2. u \in Seq(Elements) /\ p \in Seq(Elements) /\ q \in Seq(Elements)
    BY <1>5, <1>6, <1>11, <2>1, BytesAreElements
  <2>3. rest = u \o q
    BY <1>7, <1>12, <2>1, Zenon
  <2>4. inPipe \o r = (p \o u) \o q
    BY <1>4, <1>6, <1>7, <1>11, <2>1, Zenon
  <2>5. (p \o u) \o q = p \o (u \o q) /\ u \o q \in Seq(Elements)
    BY <2>2, ConcatAssoc, ConcatLaws, SMTT(30)
  <2> QED
    BY <2>2, <2>3, <2>4, <2>5, Zenon
<1>14. Got(c) = p /\ inPipe' \in Seq(Elements) /\ inPipe' \o r = rest
  <2>1. FrontRead(c)
    BY <1>1, <1>3, <1>6, ReadFront
  <2> QED
    BY <1>11, <1>13, <2>1, Zenon DEF FrontRead
<1>15. native' = [native EXCEPT ![a] = t]
  BY <1>3, <1>6, <1>10, <1>14
<1>16. MemoryOK' /\ TableInBounds'
  <2>1. MemoryOK'
    BY <1>1, <1>3, <1>5, <1>6, <1>11, <1>15, MemoryStored
  <2> QED
    BY <1>1, <1>3, <2>1 DEF TableInBounds
<1>17. CASE rem > BufferSize
  <2>1. /\ pc' = "dirty" /\ current'.addr = a /\ current'.size = L
        /\ current'.remaining = rem - c
    BY <1>3, <1>6, <1>17
  <2>2. PartsFrom(Len(table) + 1)' = q
    BY <1>3, <1>6, Frame
  <2>3. Receiving'
    <3>1. Invoking(Len(table) - 1)'
      BY <1>1, <1>3, <1>4, <1>6, <1>15, StoreKeepsInvoking
    <3>2. \A j \in 1 .. at + c : native'[a][j] = m[j]
      BY <1>7, <1>11, <1>15
    <3> QED
      BY <1>3, <1>4, <1>6, <1>7, <1>9, <2>1, <3>1, <3>2, ZenonT(60) DEF Receiving
  <2>4. Reads(inPipe \o r)'
    BY <1>3, <1>6, <1>9, <1>12, <1>14, <2>1, <2>2, <2>3 DEF Reads
  <2> QED
    BY <1>1, <1>2, <1>3, <1>14, <1>16, <2>4, StillAsked
<1>18. CASE ~(rem > BufferSize)
  <2>1. pc' = AfterObject(Len(table)) /\ at + c = L
    BY <1>3, <1>6, <1>9, <1>18
  <2>2. t = m
    BY <1>7, <1>11, <2>1, SeqEqual
  <2>3. rest = q
    <3>1. SubSeq(m, L + 1, L) = <<>>
      BY <1>7, WholeSeq
    <3>2. <<>> \o q = q
      BY <1>13, EmptyLaws
    <3> QED
      BY <1>12, <2>1, <3>1, <3>2
  <2>4. native' = [native EXCEPT ![current.addr] = memory[current.addr]]
    BY <1>6, <1>15, <2>2
  <2>5. Reads(inPipe \o r)'
    BY <1>1, <1>3, <1>4, <1>6, <1>14, <2>1, <2>3, <2>4, ObjectDone
  <2> QED
    BY <1>1, <1>2, <1>3, <1>14, <1>16, <2>5, StillAsked
<1> QED
  BY <1>17, <1>18

(* The native function stores to an object of the table.                   *)
LEMMA TrampolineKeeps ==
  ASSUME Protocol, Trampoline
  PROVE  Protocol'
<1>1. /\ MemoryOK /\ RequestOK /\ inPipe \in Seq(Elements)
      /\ table \in Seq([address : Nat, size : Nat]) /\ TableInBounds
  BY ProtocolFacts
<1>2. PICK r \in Seq(Elements) :
        /\ Alive => r = toSend
        /\ client # "idle" /\ outPipe = <<>> /\ outBuffer = <<>>
        /\ Reads(inPipe \o r)
  BY BusyAsked DEF Trampoline, Busy
<1>3. /\ UNCHANGED clientVars
      /\ UNCHANGED <<inPipe, outPipe, outBuffer, request, memory, table, count>>
      /\ pc = "call" /\ pc' = "reply"
  BY DEF Trampoline, clientVars
<1>4. Called /\ inPipe \o r = <<>>
  BY <1>2, <1>3 DEF Reads
<1>5. MemoryOK'
  <2>1. CASE UNCHANGED native
    BY <1>1, <1>3, <2>1, MemoryFrame
  <2>2. ASSUME NEW e \in ToSet(table), NEW v \in Bytes,
               native' = [native EXCEPT ![e.address] = [@ EXCEPT ![1] = v]]
        PROVE  MemoryOK'
    <3>1. PICK j \in 1 .. Len(table) : e = table[j]
      BY <1>1 DEF ToSet
    <3>2. j \in 1 .. Len(request.objs) /\ e.address = request.objs[j]
      <4>1. j \in 1 .. Len(request.objs)
        BY <1>4, <3>1 DEF Called
      <4>2. table[j] = Entry(request.objs[j])
        BY <1>4, <3>1 DEF Called
      <4> QED
        BY <3>1, <4>1, <4>2 DEF Entry
    <3>3. PICK a : a = e.address
      OBVIOUS
    <3>4. a \in DOMAIN memory /\ a \in ToSet(request.objs)
      <4>1. DOMAIN request.objs = 1 .. Len(request.objs)
        BY <1>1 DEF RequestOK
      <4> QED
        BY <1>1, <3>2, <3>3, <4>1, PartsType DEF ToSet
    <3>5. native[a] \in Seq(Bytes) /\ a \in DOMAIN native /\ Len(native[a]) \in Nat \ {0}
      BY <1>1, <3>4, AddressesAreNumbers
    <3>6. PICK t : t = [native[a] EXCEPT ![1] = v]
      OBVIOUS
    <3>7. t \in Seq(Bytes) /\ Len(t) = Len(native[a])
      <4>1. 1 \in 1 .. Len(native[a])
        BY <3>5
      <4> QED
        BY <3>5, <3>6, <4>1, ExceptSeq
    <3>8. native' = [native EXCEPT ![a] = t]
      BY <2>2, <3>3, <3>5, <3>6
    <3> QED
      BY <1>1, <1>3, <3>4, <3>7, <3>8, MemoryStored
  <2> QED
    BY <2>1, <2>2 DEF Trampoline
<1>6. TableInBounds'
  BY <1>1, <1>3 DEF TableInBounds
<1>7. Called'
  BY <1>3, <1>4 DEF Called, Entry
<1>8. Reads(inPipe \o r)'
  BY <1>3, <1>4, <1>7 DEF Reads
<1> QED
  BY <1>1, <1>2, <1>3, <1>5, <1>6, <1>8, StillAsked

-----------------------------------------------------------------------------
(* The answers.                                                            *)

AnswerPart(e) == <<e.size>> \o native[e.address] \o <<e.address>>
AnswerParts == [i \in DOMAIN table |-> AnswerPart(table[i])]

LEMMA AnswerPartType ==
  ASSUME MemoryOK, NEW a \in DOMAIN native, NEW n \in Nat,
         NEW e, e = [address |-> a, size |-> n]
  PROVE  /\ AnswerPart(e) = <<n>> \o native[a] \o <<a>>
         /\ AnswerPart(e) \in Seq(Elements)
         /\ Len(AnswerPart(e)) = Len(native[a]) + 2
<1>1. native[a] \in Seq(Elements) /\ n \in Elements /\ a \in Elements
  BY AddressesAreNumbers, BytesAreElements DEF Elements
<1>2. <<n>> \in Seq(Elements) /\ <<a>> \in Seq(Elements) /\ Len(<<n>>) = 1 /\ Len(<<a>>) = 1
  BY <1>1, ShortSeqs
<1>3. AnswerPart(e) = <<n>> \o native[a] \o <<a>>
  BY DEF AnswerPart
<1>4. /\ (<<n>> \o native[a]) \o <<a>> \in Seq(Elements)
      /\ Len((<<n>> \o native[a]) \o <<a>>) = Len(<<n>>) + Len(native[a]) + Len(<<a>>)
  BY <1>1, <1>2, ConcatThree
<1>5. Len(<<n>>) + Len(native[a]) + Len(<<a>>) = Len(native[a]) + 2
  <2>1. Len(native[a]) \in Nat
    BY <1>1
  <2> QED
    BY <1>2, <2>1
<1> QED
  BY <1>3, <1>4, <1>5, Zenon

LEMMA ReplyType ==
  ASSUME MemoryOK, RequestOK, table \in Seq([address : Nat, size : Nat]), Called
  PROVE  /\ AnswerParts \in Seq(Seq(Elements))
         /\ Len(AnswerParts) = Len(request.objs)
         /\ \A i \in 1 .. Len(request.objs) :
              /\ AnswerParts[i] = <<Len(memory[request.objs[i]])>>
                                    \o native[request.objs[i]] \o <<request.objs[i]>>
              /\ Len(AnswerParts[i]) = Len(memory[request.objs[i]]) + 2
         /\ Reply(table) = <<Len(request.objs)>> \o FlattenSeq(AnswerParts)
         /\ FlattenSeq(AnswerParts) \in Seq(Elements)
         /\ Reply(table) \in Seq(Elements)
<1>i. PICK n : n = Len(request.objs)
  OBVIOUS
<1>1. n \in Nat /\ Len(table) = n /\ DOMAIN table = 1 .. n
  BY <1>i, PartsType DEF Called
<1>2. ASSUME NEW i \in 1 .. n
      PROVE  /\ AnswerParts[i] = <<Len(memory[request.objs[i]])>>
                                    \o native[request.objs[i]] \o <<request.objs[i]>>
             /\ Len(AnswerParts[i]) = Len(memory[request.objs[i]]) + 2
             /\ AnswerParts[i] \in Seq(Elements)
  <2>1. PICK a : a = request.objs[i]
    OBVIOUS
  <2>2. a \in DOMAIN memory /\ a \in DOMAIN native /\ Len(memory[a]) = Len(native[a])
        /\ Len(memory[a]) \in Nat
    <3>1. a \in DOMAIN memory
      BY <1>i, <2>1, PartsType
    <3> QED
      BY <3>1, AddressesAreNumbers DEF MemoryOK
  <2>3. table[i] = [address |-> a, size |-> Len(memory[a])]
    BY <1>1, <2>1 DEF Called, Entry
  <2>4. AnswerParts[i] = AnswerPart(table[i])
    BY <1>1 DEF AnswerParts
  <2>5. /\ AnswerPart(table[i]) = <<Len(memory[a])>> \o native[a] \o <<a>>
        /\ AnswerPart(table[i]) \in Seq(Elements)
        /\ Len(AnswerPart(table[i])) = Len(native[a]) + 2
    BY <2>2, <2>3, AnswerPartType
  <2> QED
    BY <2>1, <2>2, <2>4, <2>5, Zenon
<1>3. AnswerParts \in [1 .. n -> Seq(Elements)]
  BY <1>1, <1>2 DEF AnswerParts
<1>4. AnswerParts \in Seq(Seq(Elements)) /\ Len(AnswerParts) = n
  BY <1>1, <1>3
<1>5. FlattenSeq(AnswerParts) \in Seq(Elements)
  BY <1>4, FlattenType
<1>6. Reply(table) = <<Len(request.objs)>> \o FlattenSeq(AnswerParts)
  BY <1>1, <1>i DEF Reply, AnswerParts, AnswerPart
<1>7. Reply(table) \in Seq(Elements)
  <2>1. n \in Elements
    BY <1>1 DEF Elements
  <2>2. <<n>> \in Seq(Elements)
    BY <2>1, ShortSeqs
  <2>3. <<n>> \o FlattenSeq(AnswerParts) \in Seq(Elements)
    BY <1>5, <2>2, ConcatLaws
  <2> QED
    BY <1>6, <1>i, <2>3
<1> QED
  BY <1>2, <1>4, <1>5, <1>6, <1>7, <1>i

LEMMA SendReplyKeeps ==
  ASSUME Protocol, SendReply
  PROVE  Protocol'
<1>1. /\ MemoryOK /\ RequestOK /\ inPipe \in Seq(Elements)
      /\ table \in Seq([address : Nat, size : Nat])
  BY ProtocolFacts
<1>2. PICK r \in Seq(Elements) :
        /\ Alive => r = toSend
        /\ client # "idle" /\ outPipe = <<>> /\ outBuffer = <<>>
        /\ Reads(inPipe \o r)
  BY BusyAsked DEF SendReply, Busy
<1>3. /\ UNCHANGED clientVars
      /\ UNCHANGED <<inPipe, outPipe, native, request, memory, table>>
      /\ pc = "reply" /\ pc' = "flush" /\ outBuffer' = outBuffer \o Reply(table)
  BY DEF SendReply, clientVars
<1>4. Called /\ inPipe \o r = <<>>
  BY <1>2, <1>3 DEF Reads
<1>5. PICK o \in Seq(Elements) : o = Reply(table)
  BY <1>1, <1>4, ReplyType
<1>6. outBuffer' = o
  BY <1>2, <1>3, <1>5, EmptyLaws
<1>7. MemoryOK'
  BY <1>1, <1>3, MemoryFrame
<1>8. Answer(o)
  BY <1>4, <1>5 DEF Answer
<1>9. Answer(o)'
  BY <1>3, <1>8, AnswerFrame
<1> QED
  BY <1>1, <1>2, <1>3, <1>4, <1>6, <1>7, <1>9, NowReplied

SymbolEntries == [i \in 1 .. Symbols |-> <<1, "name", "function">>]

LEMMA SymbolTableType ==
  /\ SymbolEntries \in Seq(Seq(Elements)) /\ Len(SymbolEntries) = Symbols
  /\ \A i \in 1 .. Symbols : SymbolEntries[i] = <<1, "name", "function">>
  /\ <<Symbols>> \in Seq(Elements)
  /\ FlattenSeq(SymbolEntries) \in Seq(Elements)
  /\ <<Symbols>> \o FlattenSeq(SymbolEntries) \in Seq(Elements)
<1>1. 1 \in Elements /\ "name" \in Elements /\ "function" \in Elements /\ Symbols \in Elements
  BY ServerAssumption DEF Elements
<1>2. <<1, "name", "function">> \in Seq(Elements) /\ <<Symbols>> \in Seq(Elements)
  BY <1>1, ShortSeqs
<1>3. Symbols \in Nat
  BY ServerAssumption
<1>4. PICK x : x = <<1, "name", "function">>
  OBVIOUS
<1>5. SymbolEntries = [i \in 1 .. Symbols |-> x] /\ x \in Seq(Elements)
  BY <1>2, <1>4 DEF SymbolEntries
<1>6. SymbolEntries \in [1 .. Symbols -> Seq(Elements)]
  BY <1>5
<1>7. SymbolEntries \in Seq(Seq(Elements)) /\ Len(SymbolEntries) = Symbols
  BY <1>3, <1>6
<1>8. FlattenSeq(SymbolEntries) \in Seq(Elements)
  BY <1>7, FlattenType
<1>9. <<Symbols>> \o FlattenSeq(SymbolEntries) \in Seq(Elements)
  BY <1>2, <1>8, ConcatLaws
<1> QED
  BY <1>2, <1>4, <1>5, <1>7, <1>8, <1>9

LEMMA SymbolTableKeeps ==
  ASSUME Protocol, GetSymbolTable
  PROVE  Protocol'
<1>1. /\ MemoryOK /\ RequestOK /\ inPipe \in Seq(Elements)
      /\ table \in Seq([address : Nat, size : Nat])
  BY ProtocolFacts
<1>2. PICK r \in Seq(Elements) :
        /\ Alive => r = toSend
        /\ client # "idle" /\ outPipe = <<>> /\ outBuffer = <<>>
        /\ Reads(inPipe \o r)
  BY BusyAsked DEF GetSymbolTable, Busy
<1>3. /\ UNCHANGED clientVars
      /\ UNCHANGED <<inPipe, outPipe, native, request, memory, table>>
      /\ pc = "get_symbol_table" /\ pc' = "flush"
      /\ outBuffer' = outBuffer \o <<Symbols>> \o FlattenSeq(SymbolEntries)
  BY DEF GetSymbolTable, clientVars, SymbolEntries
<1>4. request.cmd = "_GET_SYMBOL_TABLE" /\ inPipe \o r = <<>>
  BY <1>2, <1>3 DEF Reads
<1>5. PICK o \in Seq(Elements) : o = <<Symbols>> \o FlattenSeq(SymbolEntries)
  BY SymbolTableType
<1>6. outBuffer' = o
  <2>1. outBuffer \o <<Symbols>> = <<Symbols>>
    BY <1>2, SymbolTableType, EmptyLaws
  <2> QED
    BY <1>3, <1>5, <2>1
<1>7. MemoryOK'
  BY <1>1, <1>3, MemoryFrame
<1>8. Answer(o)
  BY <1>4, <1>5 DEF Answer, SymbolEntries
<1>9. Answer(o)'
  BY <1>3, <1>8, AnswerFrame
<1> QED
  BY <1>1, <1>2, <1>3, <1>4, <1>6, <1>7, <1>9, NowReplied

LEMMA ExitKeeps ==
  ASSUME Protocol, ExitCommand
  PROVE  Protocol'
<1>1. /\ MemoryOK /\ RequestOK /\ inPipe \in Seq(Elements)
      /\ table \in Seq([address : Nat, size : Nat])
  BY ProtocolFacts
<1>2. PICK r \in Seq(Elements) :
        /\ Alive => r = toSend
        /\ client # "idle" /\ outPipe = <<>> /\ outBuffer = <<>>
        /\ Reads(inPipe \o r)
  BY BusyAsked DEF ExitCommand, Busy
<1>3. /\ UNCHANGED clientVars
      /\ UNCHANGED <<inPipe, outPipe, native, request, memory, table>>
      /\ pc = "exit" /\ pc' = "last_flush" /\ outBuffer' = Append(outBuffer, "")
  BY DEF ExitCommand, clientVars
<1>4. request.cmd = "_EXIT" /\ inPipe \o r = <<>>
  BY <1>2, <1>3 DEF Reads
<1>5. PICK o \in Seq(Elements) : o = <<"">>
  <2>1. "" \in Elements
    BY DEF Elements
  <2> QED
    BY <2>1, ShortSeqs
<1>6. outBuffer' = o
  <2>1. Append(<<>>, "") = <<"">>
    BY FirstAppend
  <2> QED
    BY <1>2, <1>3, <1>5, <2>1, Zenon
<1>7. MemoryOK'
  BY <1>1, <1>3, MemoryFrame
<1>8. Answer(o)
  BY <1>4, <1>5 DEF Answer
<1>9. Answer(o)'
  BY <1>3, <1>8, AnswerFrame
<1> QED
  BY <1>1, <1>2, <1>3, <1>4, <1>6, <1>7, <1>9, NowReplied

LEMMA SyncReadKeeps ==
  ASSUME Protocol, SyncRead
  PROVE  Protocol'
<1>1. /\ MemoryOK /\ RequestOK /\ inPipe \in Seq(Elements)
      /\ table \in Seq([address : Nat, size : Nat])
  BY ProtocolFacts
<1>2. PICK r \in Seq(Elements) :
        /\ Alive => r = toSend
        /\ client # "idle" /\ outPipe = <<>> /\ outBuffer = <<>>
        /\ Reads(inPipe \o r)
  BY BusyAsked DEF SyncRead, Busy
<1>3. /\ UNCHANGED clientVars
      /\ UNCHANGED <<outPipe, native, request, memory, table>>
      /\ pc = "sync_read" /\ pc' = "flush" /\ Received(2) /\ Consume(2)
      /\ outBuffer' = outBuffer \o SubSeq(native[Got(2)[1]], 1, Got(2)[2])
  BY DEF SyncRead, clientVars, syncAnswer
<1>4. request.cmd = "_SYNC_READ" /\ inPipe \o r = <<request.addr, request.size>>
  BY <1>2, <1>3 DEF Reads
<1>5. PICK a, n, p : a = request.addr /\ n = request.size /\ p = <<a, n>>
  OBVIOUS
<1>6. /\ a \in DOMAIN memory /\ a \in DOMAIN native /\ n = Len(native[a])
      /\ a \in Nat /\ n \in Nat /\ native[a] \in Seq(Bytes)
  <2>1. a \in DOMAIN memory /\ n = Len(memory[a])
    BY <1>1, <1>4, <1>5 DEF RequestOK
  <2> QED
    BY <1>1, <2>1, AddressesAreNumbers DEF MemoryOK
<1>7. p \in Seq(Elements) /\ 2 = Len(p) /\ inPipe \o r = p \o <<>> /\ <<>> \in Seq(Elements)
  <2>1. a \in Elements /\ n \in Elements
    BY <1>6 DEF Elements
  <2>2. p \in Seq(Elements) /\ 2 = Len(p)
    BY <1>5, <2>1, ShortSeqs
  <2>3. p \o <<>> = p /\ <<>> \in Seq(Elements)
    BY <2>2, EmptyLaws
  <2> QED
    BY <1>4, <1>5, <2>2, <2>3, Zenon
<1>8. Got(2) = p /\ inPipe' \in Seq(Elements) /\ inPipe' \o r = <<>>
  <2>1. FrontRead(2)
    BY <1>1, <1>3, ReadFront
  <2> QED
    BY <1>7, <2>1, Zenon DEF FrontRead
<1>9. Got(2)[1] = a /\ Got(2)[2] = n
  BY <1>5, <1>8
<1>10. PICK o \in Seq(Elements) : o = native[a]
  BY <1>6, BytesAreElements
<1>11. outBuffer' = o
  <2>1. SubSeq(native[a], 1, n) = native[a]
    BY <1>6, WholeSeq
  <2>2. <<>> \o o = o
    BY EmptyLaws
  <2> QED
    BY <1>2, <1>3, <1>9, <1>10, <2>1, <2>2
<1>12. MemoryOK'
  BY <1>1, <1>3, MemoryFrame
<1>13. Answer(o)
  BY <1>4, <1>5, <1>10 DEF Answer
<1>14. Answer(o)'
  BY <1>3, <1>13, AnswerFrame
<1> QED
  BY <1>1, <1>2, <1>3, <1>8, <1>11, <1>12, <1>14, NowReplied

(* calloc: the new object has the next address, which no one has yet.      *)
LEMMA MemoryGrows ==
  ASSUME MemoryOK, UNCHANGED <<request, memory>>,
         NEW z \in Seq(Bytes), Len(z) # 0,
         NEW a, a = Cardinality(DOMAIN native) + 1,
         native' = [x \in DOMAIN native \cup {a} |-> IF x = a THEN z ELSE native[x]]
  PROVE  /\ MemoryOK' /\ a \in Nat
         /\ a \in DOMAIN native' \ DOMAIN memory /\ native'[a] = z
<1>1. PICK n \in Nat : native \in [1 .. n -> Seq(Bytes)]
  BY DEF MemoryOK
<1>2. DOMAIN native = 1 .. n
  BY <1>1
<1>3. a = n + 1
  <2>1. Cardinality(1 .. n) = n
    BY FS_Interval
  <2> QED
    BY <1>2, <2>1
<1>4. DOMAIN native' = 1 .. n + 1 /\ a \notin 1 .. n /\ a \in Nat
  BY <1>2, <1>3
<1>5. /\ native'[a] = z
      /\ \A x \in 1 .. n : native'[x] = native[x]
  BY <1>2, <1>3, <1>4
<1>6. native' \in [1 .. n + 1 -> Seq(Bytes)]
  <2>1. \A x \in 1 .. n + 1 : x \in 1 .. n \/ x = a
    BY <1>3
  <2>2. \A x \in 1 .. n + 1 : native'[x] \in Seq(Bytes)
    BY <1>1, <1>5, <2>1
  <2>3. native' = [x \in 1 .. n + 1 |-> native'[x]]
    BY <1>4
  <2> QED
    BY <2>2, <2>3
<1>7. \A x \in DOMAIN native' : Len(native'[x]) # 0
  <2> TAKE x \in DOMAIN native'
  <2>1. x \in 1 .. n \/ x = a
    BY <1>3, <1>4
  <2> QED
    BY <1>2, <1>5, <2>1 DEF MemoryOK
<1>8. DOMAIN memory \subseteq 1 .. n
  BY <1>2 DEF MemoryOK
<1>9. \A x \in DOMAIN memory : Len(memory[x]) = Len(native'[x])
  BY <1>5, <1>8 DEF MemoryOK
<1>10. \A x \in DOMAIN memory : x \notin ToSet(request.objs) => memory[x] = native'[x]
  BY <1>5, <1>8 DEF MemoryOK
<1>11. DOMAIN memory \subseteq DOMAIN native'
  BY <1>4, <1>8
<1>12. MemoryOK'
  <2>1. \E k \in Nat : native' \in [1 .. k -> Seq(Bytes)]
    <3>1. n + 1 \in Nat
      OBVIOUS
    <3> QED
      BY <1>6, <3>1, Zenon
  <2> QED
    BY <1>7, <1>9, <1>10, <1>11, <2>1 DEF MemoryOK
<1> QED
  BY <1>3, <1>4, <1>5, <1>8, <1>12

LEMMA AllocKeeps ==
  ASSUME Protocol, Alloc
  PROVE  Protocol'
<1>1. /\ MemoryOK /\ RequestOK /\ inPipe \in Seq(Elements)
      /\ table \in Seq([address : Nat, size : Nat])
  BY ProtocolFacts
<1>2. PICK r \in Seq(Elements) :
        /\ Alive => r = toSend
        /\ client # "idle" /\ outPipe = <<>> /\ outBuffer = <<>>
        /\ Reads(inPipe \o r)
  BY BusyAsked DEF Alloc, Busy
<1>a. PICK a : a = Cardinality(DOMAIN native) + 1
  OBVIOUS
<1>3. /\ UNCHANGED clientVars
      /\ UNCHANGED <<outPipe, request, memory, table>>
      /\ pc = "alloc" /\ pc' = "flush" /\ Received(1) /\ Consume(1)
      /\ \/ /\ native' = [x \in DOMAIN native \cup {a} |->
                            IF x = a THEN [i \in 1 .. Got(1)[1] |-> 0] ELSE native[x]]
            /\ outBuffer' = Append(outBuffer, a)
         \/ outBuffer' = Append(outBuffer, 0) /\ UNCHANGED native
  BY <1>a DEF Alloc, clientVars
<1>4. request.cmd = "_ALLOC" /\ inPipe \o r = <<request.size>>
  BY <1>2, <1>3 DEF Reads
<1>5. PICK n \in Nat \ {0} : n = request.size
  BY <1>1, <1>4 DEF RequestOK
<1>6. PICK p : p = <<n>>
  OBVIOUS
<1>7. p \in Seq(Elements) /\ 1 = Len(p) /\ inPipe \o r = p \o <<>> /\ <<>> \in Seq(Elements)
  <2>1. n \in Elements
    BY <1>5 DEF Elements
  <2>2. p \in Seq(Elements) /\ 1 = Len(p)
    BY <1>6, <2>1, ShortSeqs
  <2>3. p \o <<>> = p /\ <<>> \in Seq(Elements)
    BY <2>2, EmptyLaws
  <2> QED
    BY <1>4, <1>5, <1>6, <2>2, <2>3, Zenon
<1>8. Got(1) = p /\ inPipe' \in Seq(Elements) /\ inPipe' \o r = <<>>
  <2>1. FrontRead(1)
    BY <1>1, <1>3, ReadFront
  <2> QED
    BY <1>7, <2>1, Zenon DEF FrontRead
<1>9. Got(1)[1] = n
  BY <1>6, <1>8
<1>10. PICK z : z = [i \in 1 .. n |-> 0]
  OBVIOUS
<1>11. z \in Seq(Bytes) /\ Len(z) # 0
  <2>1. z \in [1 .. n -> Bytes] /\ 0 \in Bytes
    BY <1>10, ServerAssumption
  <2> QED
    BY <1>5, <2>1
<1>12. \A x : Append(<<>>, x) = <<x>>
  BY FirstAppend
<1>13. CASE outBuffer' = Append(outBuffer, a)
            /\ native' = [x \in DOMAIN native \cup {a} |-> IF x = a THEN z ELSE native[x]]
  <2>1. /\ MemoryOK' /\ a \in Nat
        /\ a \in DOMAIN native' \ DOMAIN memory /\ native'[a] = z
    BY <1>1, <1>3, <1>11, <1>13, <1>a, MemoryGrows
  <2>2. PICK o \in Seq(Elements) : o = <<a>>
    <3>1. a \in Elements
      BY <2>1 DEF Elements
    <3> QED
      BY <3>1, ShortSeqs
  <2>3. outBuffer' = o
    BY <1>2, <1>12, <1>13, <2>2, Zenon
  <2>4. Answer(o)'
    <3>1. a \in DOMAIN native' \ DOMAIN memory' /\ native'[a] = [i \in 1 .. request'.size |-> 0]
      BY <1>3, <1>5, <1>10, <2>1
    <3>2. request'.cmd = "_ALLOC"
      BY <1>3, <1>4
    <3> QED
      BY <2>2, <3>1, <3>2 DEF Answer
  <2> QED
    BY <1>1, <1>2, <1>3, <1>8, <2>1, <2>3, <2>4, NowReplied
<1>14. CASE outBuffer' = Append(outBuffer, 0) /\ UNCHANGED native
  <2>1. PICK o \in Seq(Elements) : o = <<0>>
    <3>1. 0 \in Elements
      BY DEF Elements
    <3> QED
      BY <3>1, ShortSeqs
  <2>2. outBuffer' = o
    BY <1>2, <1>12, <1>14, <2>1, Zenon
  <2>3. Answer(o)
    BY <1>4, <2>1 DEF Answer
  <2>4. Answer(o)'
    BY <1>3, <1>14, <2>3, AnswerFrame
  <2>5. MemoryOK'
    BY <1>1, <1>3, <1>14, MemoryFrame
  <2> QED
    BY <1>1, <1>2, <1>3, <1>8, <2>2, <2>4, <2>5, NowReplied
<1> QED
  BY <1>3, <1>9, <1>10, <1>13, <1>14

-----------------------------------------------------------------------------
(* The steps of the client.                                                *)

(* Its requests: objects that it has, none of them twice.                  *)
LEMMA PermutationType ==
  ASSUME NEW D, IsFiniteSet(D), NEW as \in SetToAllKPermutations(D)
  PROVE  /\ as \in Seq(D)
         /\ \A i, j \in DOMAIN as : as[i] = as[j] => i = j
<1>1. PICK s \in SUBSET D : as \in SetToSeqs(s)
  BY DEF SetToAllKPermutations
<1>2. PICK n : n = Cardinality(s)
  OBVIOUS
<1>3. n \in Nat
  <2>1. IsFiniteSet(s)
    BY FS_Subset
  <2> QED
    BY <1>2, <2>1, FS_CardinalityType
<1>4. as \in [1 .. n -> s] /\ \A i, j \in 1 .. n : i # j => as[i] # as[j]
  BY <1>1, <1>2, Zenon DEF SetToSeqs
<1>5. as \in [1 .. n -> D] /\ DOMAIN as = 1 .. n
  BY <1>4
<1>6. as \in Seq(D)
  BY <1>3, <1>5, SeqDef, Zenon
<1>7. \A i, j \in DOMAIN as : as[i] = as[j] => i = j
  BY <1>4, <1>5, Zenon
<1> QED
  BY <1>6, <1>7

LEMMA RequestsType ==
  ASSUME MemoryOK, NEW q \in Requests
  PROVE  /\ q.cmd \in Commands \ {"none"}
         /\ q.objs \in Seq(DOMAIN memory)
         /\ \A i, j \in DOMAIN q.objs : q.objs[i] = q.objs[j] => i = j
         /\ q.cmd # "_INVOKE" => q.objs = <<>>
         /\ q.cmd = "_ALLOC" => q.size \in Nat \ {0}
         /\ q.cmd = "_SYNC_READ" => q.addr \in DOMAIN memory /\ q.size = Len(memory[q.addr])
<1>1. IsFiniteSet(DOMAIN memory)
  <2>1. PICK n \in Nat : native \in [1 .. n -> Seq(Bytes)]
    BY DEF MemoryOK
  <2>2. DOMAIN memory \subseteq 1 .. n
    BY <2>1 DEF MemoryOK
  <2>3. IsFiniteSet(1 .. n)
    BY FS_Interval
  <2> QED
    BY <2>2, <2>3, FS_Subset
<1>2. /\ <<>> \in Seq(DOMAIN memory)
      /\ \A i, j \in DOMAIN <<>> : <<>>[i] = <<>>[j] => i = j
  BY EmptyLaws
<1>3. ASSUME NEW as \in SetToAllKPermutations(DOMAIN memory), NEW d,
             q = [Plain("_INVOKE") EXCEPT !.objs = as, !.dirty = d]
      PROVE  /\ q.cmd = "_INVOKE" /\ q.objs \in Seq(DOMAIN memory)
             /\ \A i, j \in DOMAIN q.objs : q.objs[i] = q.objs[j] => i = j
  <2>1. q.cmd = "_INVOKE" /\ q.objs = as
    BY <1>3 DEF Plain
  <2> QED
    BY <1>1, <2>1, PermutationType
<1>4. ASSUME NEW n \in ObjectSizes, q = [Plain("_ALLOC") EXCEPT !.size = n]
      PROVE  q.cmd = "_ALLOC" /\ q.objs = <<>> /\ q.size \in Nat \ {0}
  BY <1>4, ServerAssumption DEF Plain
<1>5. ASSUME NEW a \in DOMAIN memory,
             q = [Plain("_SYNC_READ") EXCEPT !.addr = a, !.size = Len(memory[a])]
      PROVE  /\ q.cmd = "_SYNC_READ" /\ q.objs = <<>>
             /\ q.addr \in DOMAIN memory /\ q.size = Len(memory[q.addr])
  BY <1>5 DEF Plain
<1>6. ASSUME q \in {Plain("_GET_SYMBOL_TABLE"), Plain("_EXIT")}
      PROVE  q.cmd \in {"_GET_SYMBOL_TABLE", "_EXIT"} /\ q.objs = <<>>
  BY <1>6 DEF Plain
<1>7. \/ \E as \in SetToAllKPermutations(DOMAIN memory) : \E d \in SUBSET ToSet(as) :
           q = [Plain("_INVOKE") EXCEPT !.objs = as, !.dirty = d]
      \/ \E n \in ObjectSizes : q = [Plain("_ALLOC") EXCEPT !.size = n]
      \/ \E a \in DOMAIN memory :
           q = [Plain("_SYNC_READ") EXCEPT !.addr = a, !.size = Len(memory[a])]
      \/ q \in {Plain("_GET_SYMBOL_TABLE"), Plain("_EXIT")}
  <2> DEFINE Call(as, d) == [Plain("_INVOKE") EXCEPT !.objs = as, !.dirty = d]
             Size(n) == [Plain("_ALLOC") EXCEPT !.size = n]
             Sync(a) == [Plain("_SYNC_READ") EXCEPT !.addr = a, !.size = Len(memory[a])]
             Calls == UNION {{Call(as, d) : d \in SUBSET ToSet(as)} :
                               as \in SetToAllKPermutations(DOMAIN memory)}
             Sizes == {Size(n) : n \in ObjectSizes}
             Syncs == {Sync(a) : a \in DOMAIN memory}
             Others == {Plain("_GET_SYMBOL_TABLE"), Plain("_EXIT")}
  <2>1. Requests = Calls \cup Sizes \cup Syncs \cup Others
    BY Zenon DEF Requests
  <2> HIDE DEF Call, Size, Sync, Calls, Sizes, Syncs, Others
  <2>2. q \in Calls =>
          \E as \in SetToAllKPermutations(DOMAIN memory) : \E d \in SUBSET ToSet(as) :
            q = Call(as, d)
    BY Zenon DEF Calls
  <2>3. q \in Sizes => \E n \in ObjectSizes : q = Size(n)
    BY Zenon DEF Sizes
  <2>4. q \in Syncs => \E a \in DOMAIN memory : q = Sync(a)
    BY Zenon DEF Syncs
  <2>5. q \in Calls \/ q \in Sizes \/ q \in Syncs \/ q \in Others
    BY <2>1, Zenon
  <2> QED
    BY <2>2, <2>3, <2>4, <2>5, Zenon DEF Call, Size, Sync, Others
<1>8. CASE \E as \in SetToAllKPermutations(DOMAIN memory) : \E d \in SUBSET ToSet(as) :
             q = [Plain("_INVOKE") EXCEPT !.objs = as, !.dirty = d]
  <2>1. /\ q.cmd = "_INVOKE" /\ q.objs \in Seq(DOMAIN memory)
        /\ \A i, j \in DOMAIN q.objs : q.objs[i] = q.objs[j] => i = j
    BY <1>3, <1>8, Zenon
  <2> QED
    BY <2>1 DEF Commands
<1>9. CASE \E n \in ObjectSizes : q = [Plain("_ALLOC") EXCEPT !.size = n]
  <2>1. q.cmd = "_ALLOC" /\ q.objs = <<>> /\ q.size \in Nat \ {0}
    BY <1>4, <1>9, Zenon
  <2> QED
    BY <1>2, <2>1 DEF Commands
<1>10. CASE \E a \in DOMAIN memory :
              q = [Plain("_SYNC_READ") EXCEPT !.addr = a, !.size = Len(memory[a])]
  <2>1. /\ q.cmd = "_SYNC_READ" /\ q.objs = <<>>
        /\ q.addr \in DOMAIN memory /\ q.size = Len(memory[q.addr])
    BY <1>5, <1>10, Zenon
  <2> QED
    BY <1>2, <2>1 DEF Commands
<1>11. CASE q \in {Plain("_GET_SYMBOL_TABLE"), Plain("_EXIT")}
  <2>1. q.cmd \in {"_GET_SYMBOL_TABLE", "_EXIT"} /\ q.objs = <<>>
    BY <1>6, <1>11
  <2> QED
    BY <1>2, <2>1 DEF Commands
<1> QED
  BY <1>7, <1>8, <1>9, <1>10, <1>11

LEMMA EncodedType ==
  ASSUME NEW D, D \subseteq Nat, NEW m, NEW q, q.cmd \in Commands, q.objs \in Seq(D),
         \A a \in D : m[a] \in Seq(Bytes),
         q.cmd = "_ALLOC" => q.size \in Nat,
         q.cmd = "_SYNC_READ" => q.addr \in D /\ q.size \in Nat
  PROVE  Encoded(q, m) \in Seq(Elements)
<1>1. q.cmd \in Elements /\ "function" \in Elements
  BY DEF Elements
<1>2. CASE q.cmd = "_INVOKE"
  <2>0. PICK n \in Nat : n = Len(q.objs)
    OBVIOUS
  <2>1. n = Len(q.objs) /\ DOMAIN q.objs = 1 .. n /\ \A i \in 1 .. n : q.objs[i] \in D
    BY <2>0
  <2> DEFINE P == [i \in DOMAIN q.objs |-> Part(q, m, q.objs[i])]
  <2>2. ASSUME NEW i \in 1 .. n
        PROVE  Part(q, m, q.objs[i]) \in Seq(Elements)
    <3>1. PICK a, d : a = q.objs[i] /\ d = (a \in q.dirty)
      OBVIOUS
    <3>2. a \in D /\ a \in Nat
      BY <2>1, <3>1
    <3>3. m[a] \in Seq(Elements) /\ Len(m[a]) \in Nat
      BY <3>2, BytesAreElements
    <3>4. d \in BOOLEAN
      BY <3>1
    <3>5. a \in Elements /\ d \in Elements /\ Len(m[a]) \in Elements
      BY <3>2, <3>3, <3>4 DEF Elements
    <3>6. <<a, d, Len(m[a])>> \in Seq(Elements)
      BY <3>5, ShortSeqs
    <3>7. <<a, d, Len(m[a])>> \o m[a] \in Seq(Elements)
      BY <3>3, <3>6, ConcatLaws
    <3> QED
      BY <3>1, <3>7 DEF Part
  <2>3. P \in [1 .. n -> Seq(Elements)]
    BY <2>1, <2>2
  <2>4. P \in Seq(Seq(Elements))
    <3> HIDE DEF P
    <3> QED
      BY <2>3, FunctionSeq
  <2>5. FlattenSeq(P) \in Seq(Elements)
    <3> HIDE DEF P
    <3> QED
      BY <2>4, FlattenType
  <2>6. n \in Elements
    BY DEF Elements
  <2>7. <<q.cmd, "function", n>> \in Seq(Elements)
    BY <1>1, <2>6, ShortSeqs
  <2>8. Encoded(q, m) = <<q.cmd, "function", n>> \o FlattenSeq(P)
    BY <1>2, <2>1 DEF Encoded, Part
  <2>9. <<q.cmd, "function", n>> \o FlattenSeq(P) \in Seq(Elements)
    <3> HIDE DEF P
    <3> QED
      BY <2>5, <2>7, ConcatLaws
  <2> QED
    BY <2>8, <2>9
<1>3. CASE q.cmd = "_ALLOC"
  <2>1. Encoded(q, m) = <<q.cmd, q.size>>
    BY <1>3 DEF Encoded
  <2>2. q.size \in Elements
    BY <1>3 DEF Elements
  <2> QED
    BY <1>1, <2>1, <2>2, ShortSeqs, Zenon
<1>4. CASE q.cmd = "_SYNC_READ"
  <2>1. Encoded(q, m) = <<q.cmd, q.addr, q.size>>
    BY <1>4 DEF Encoded
  <2>2. q.size \in Elements /\ q.addr \in Elements
    BY <1>4 DEF Elements
  <2> QED
    BY <1>1, <2>1, <2>2, ShortSeqs, Zenon
<1>5. CASE q.cmd \in {"none", "_GET_SYMBOL_TABLE", "_EXIT"}
  <2>1. Encoded(q, m) = <<q.cmd>>
    BY <1>5 DEF Encoded
  <2> QED
    BY <1>1, <2>1, ShortSeqs, Zenon
<1> QED
  BY <1>2, <1>3, <1>4, <1>5 DEF Commands

(* Before a request the two copies of the objects agree.                   *)
LEMMA Agreement ==
  ASSUME MemoryOK, \A j \in DOMAIN request.objs : native[request.objs[j]] = memory[request.objs[j]]
  PROVE  \A a \in DOMAIN memory : memory[a] = native[a]
<1> TAKE a \in DOMAIN memory
<1>1. CASE a \in ToSet(request.objs)
  BY <1>1 DEF ToSet
<1>2. CASE a \notin ToSet(request.objs)
  BY <1>2 DEF MemoryOK
<1> QED
  BY <1>1, <1>2

LEMMA RequestKeeps ==
  ASSUME Protocol, ClientRequest
  PROVE  Protocol'
<1>1. /\ MemoryOK /\ RequestOK /\ table \in Seq([address : Nat, size : Nat]) /\ TableInBounds
      /\ inPipe \in Seq(Elements) /\ outPipe \in Seq(Elements) /\ outBuffer \in Seq(Elements)
  BY ProtocolFacts
<1>2. /\ client = "idle" /\ client' = "waiting" /\ request.cmd # "_EXIT"
      /\ UNCHANGED <<pc, table, native, outBuffer, inPipe, outPipe>>
  BY DEF ClientRequest, serverVars
<1>3. PICK q \in Requests, v \in Bytes :
        /\ memory' = [a \in DOMAIN memory |->
                        IF q.cmd = "_INVOKE" /\ a \in ToSet(q.objs)
                          THEN [memory[a] EXCEPT ![Len(memory[a])] = v] ELSE memory[a]]
        /\ request' = q /\ toSend' = Encoded(q, memory')
  BY DEF ClientRequest
<1>4. Quiet(<<>>) /\ inPipe = <<>>
  <2>1. toSend = <<>> /\ Alive
    BY <1>2, ProtocolFacts DEF Alive
  <2>2. PICK r \in Seq(Elements) :
          /\ Alive => r = toSend
          /\ Quiet(inPipe \o r) \/ Asked(inPipe \o r) \/ Replied(inPipe \o r)
    BY ProtocolFacts
  <2>3. inPipe \o r = inPipe
    BY <1>1, <2>1, <2>2, EmptyLaws
  <2>4. Quiet(inPipe)
    BY <1>2, <2>2, <2>3 DEF Asked, Replied
  <2> QED
    BY <2>4 DEF Quiet
<1>5. \A a \in DOMAIN memory : memory[a] = native[a]
  BY <1>1, <1>4, Agreement DEF Quiet
<1>6. /\ q.cmd \in Commands \ {"none"}
      /\ q.objs \in Seq(DOMAIN memory)
      /\ \A i, j \in DOMAIN q.objs : q.objs[i] = q.objs[j] => i = j
      /\ q.cmd # "_INVOKE" => q.objs = <<>>
      /\ q.cmd = "_ALLOC" => q.size \in Nat \ {0}
      /\ q.cmd = "_SYNC_READ" => q.addr \in DOMAIN memory /\ q.size = Len(memory[q.addr])
  BY <1>1, RequestsType
<1>7. DOMAIN memory' = DOMAIN memory
  BY <1>3
<1>8. ASSUME NEW a \in DOMAIN memory
      PROVE  /\ memory'[a] \in Seq(Bytes) /\ Len(memory'[a]) = Len(memory[a])
             /\ ~(q.cmd = "_INVOKE" /\ a \in ToSet(q.objs)) => memory'[a] = memory[a]
  <2>1. memory[a] \in Seq(Bytes) /\ Len(memory[a]) \in Nat \ {0}
    BY <1>1, AddressesAreNumbers
  <2>2. Len(memory[a]) \in 1 .. Len(memory[a])
    BY <2>1
  <2>3. /\ [memory[a] EXCEPT ![Len(memory[a])] = v] \in Seq(Bytes)
        /\ Len([memory[a] EXCEPT ![Len(memory[a])] = v]) = Len(memory[a])
    BY <2>1, <2>2, ExceptSeq
  <2>4. memory'[a] = IF q.cmd = "_INVOKE" /\ a \in ToSet(q.objs)
                       THEN [memory[a] EXCEPT ![Len(memory[a])] = v] ELSE memory[a]
    BY <1>3
  <2> QED
    BY <2>1, <2>3, <2>4
<1>9. MemoryOK'
  <2>1. memory' \in [DOMAIN memory' -> Seq(Bytes)]
    <3>1. memory' = [a \in DOMAIN memory' |-> memory'[a]]
      BY <1>3
    <3> QED
      BY <1>7, <1>8, <3>1
  <2>2. \A a \in DOMAIN memory' : Len(memory'[a]) = Len(native[a])
    BY <1>1, <1>7, <1>8 DEF MemoryOK
  <2>3. \A a \in DOMAIN memory' : a \notin ToSet(request'.objs) => memory'[a] = native[a]
    BY <1>3, <1>5, <1>7, <1>8
  <2> QED
    BY <1>1, <1>2, <1>7, <2>1, <2>2, <2>3 DEF MemoryOK
<1>10. RequestOK'
  <2>1. q.cmd = "_SYNC_READ" => q.size = Len(memory'[q.addr])
    BY <1>6, <1>8
  <2> QED
    BY <1>3, <1>6, <1>7, <2>1 DEF RequestOK
<1>11. toSend' \in Seq(Elements)
  <2>1. DOMAIN memory \subseteq Nat /\ \A a \in DOMAIN memory : memory'[a] \in Seq(Bytes)
    BY <1>1, <1>8, AddressesAreNumbers
  <2>2. q.cmd = "_SYNC_READ" => q.size \in Nat
    BY <1>1, <1>6, AddressesAreNumbers
  <2>3. Encoded(q, memory') \in Seq(Elements)
    BY <1>6, <2>1, <2>2, EncodedType
  <2> QED
    BY <1>3, <2>3
<1>12. PICK r \in Seq(Elements) : r = toSend'
  BY <1>11
<1>13. Asked(inPipe \o r)'
  <2> DEFINE s == inPipe \o r
  <2>1. s' = toSend'
    BY <1>2, <1>4, <1>12, EmptyLaws
  <2> HIDE DEF s
  <2>2. s' = Encoded(request, memory)'
    BY <1>3, <2>1
  <2>3. pc \in {"main", "open", "opcode", "flush", "aborted"}
    BY <1>2, <1>4 DEF Quiet
  <2>4. Reads(s)'
    BY <1>2, <1>3, <1>6, <2>2, <2>3 DEF Reads
  <2>5. outPipe' = <<>> /\ outBuffer' = <<>>
    BY <1>2, <1>4 DEF Quiet
  <2> QED
    BY <1>2, <2>4, <2>5 DEF Asked, s
<1>14. InProtocol'
  BY <1>12, <1>13 DEF InProtocol, Rests
<1>15. PipesOK'
  BY <1>1, <1>2, <1>11 DEF PipesOK
<1> QED
  BY <1>1, <1>2, <1>9, <1>10, <1>14, <1>15 DEF Protocol, TableInBounds

LEMMA ReadsFrame ==
  ASSUME UNCHANGED <<pc, table, count, current, native, request, memory>>, NEW s
  PROVE  Reads(s) => Reads(s)'
<1>1. Encoded(request, memory)' = Encoded(request, memory) /\ \A i : PartsFrom(i)' = PartsFrom(i)
  BY Frame
<1>2. \A n : Invoking(n)' = Invoking(n)
  BY DEF Invoking, Entry
<1>3. Receiving => Receiving'
  BY <1>2 DEF Receiving
<1>4. Called => Called'
  BY DEF Called, Entry
<1>5. UNCHANGED <<pc, table, count, current, native, request, memory>>
  OBVIOUS
<1> QED
  BY <1>1, <1>2, <1>3, <1>4, <1>5 DEF Reads

(* The pipes hold s, before and after.                                     *)
LEMMA PhaseFrame ==
  ASSUME UNCHANGED <<serverVars, outPipe, client, request, memory>>, NEW s
  PROVE  /\ Quiet(s) => Quiet(s)'
         /\ Asked(s) => Asked(s)'
         /\ Replied(s) => Replied(s)'
<1>1. UNCHANGED <<pc, table, count, current, native, outBuffer, outPipe, client, request, memory>>
  BY DEF serverVars
<1>2. Quiet(s) => Quiet(s)'
  BY <1>1 DEF Quiet
<1>3. Reads(s) => Reads(s)'
  BY <1>1, ReadsFrame
<1>4. Asked(s) => Asked(s)'
  BY <1>1, <1>3 DEF Asked
<1>5. Answer(outPipe \o outBuffer) => Answer(outPipe \o outBuffer)'
  BY <1>1, AnswerFrame
<1>6. Replied(s) => Replied(s)'
  BY <1>1, <1>5 DEF Replied
<1> QED
  BY <1>2, <1>4, <1>6

LEMMA SendsKeeps ==
  ASSUME Protocol, ClientSends
  PROVE  Protocol'
<1>1. /\ MemoryOK /\ RequestOK /\ table \in Seq([address : Nat, size : Nat]) /\ TableInBounds
      /\ inPipe \in Seq(Elements) /\ outPipe \in Seq(Elements) /\ outBuffer \in Seq(Elements)
      /\ toSend \in Seq(Elements)
  BY ProtocolFacts
<1>2. /\ client = "waiting" /\ UNCHANGED <<serverVars, outPipe, client, request, memory>>
      /\ UNCHANGED <<table, native, outBuffer>>
  BY DEF ClientSends, serverVars
<1>3. PICK n \in 1 .. Len(toSend) :
        /\ inPipe' = inPipe \o SubSeq(toSend, 1, n)
        /\ toSend' = SubSeq(toSend, n + 1, Len(toSend))
  BY DEF ClientSends
<1>4. PICK s : /\ s = inPipe \o toSend
               /\ Quiet(s) \/ Asked(s) \/ Replied(s)
  <2>1. Alive
    BY <1>2 DEF Alive
  <2>2. PICK r \in Seq(Elements) :
          /\ Alive => r = toSend
          /\ Quiet(inPipe \o r) \/ Asked(inPipe \o r) \/ Replied(inPipe \o r)
    BY ProtocolFacts
  <2> QED
    BY <2>1, <2>2
<1>5. PICK r : r = toSend'
  OBVIOUS
<1>6. inPipe' \in Seq(Elements) /\ r \in Seq(Elements) /\ inPipe' \o r = s
  <2> DEFINE a == SubSeq(toSend, 0 + 1, n)
             b == SubSeq(toSend, n + 1, Len(toSend))
  <2>1. Len(toSend) \in Nat /\ n \in Nat /\ n <= Len(toSend)
    BY <1>1
  <2>2. SubSeq(toSend, 0 + 1, Len(toSend)) = a \o b /\ a \in Seq(Elements) /\ b \in Seq(Elements)
    <3>1. Splits(Elements, toSend, 0, n, Len(toSend))
      BY <1>1, <2>1, SplitSubSeq
    <3> QED
      BY <3>1, Zenon DEF Splits
  <2>3. SubSeq(toSend, 0 + 1, Len(toSend)) = toSend
    BY <1>1, WholeSeq
  <2>4. inPipe' = inPipe \o a /\ r = b
    BY <1>3, <1>5
  <2> HIDE DEF a, b
  <2>5. inPipe \o a \in Seq(Elements) /\ (inPipe \o a) \o b = inPipe \o (a \o b)
    <3>1. inPipe \in Seq(Elements) /\ a \in Seq(Elements) /\ b \in Seq(Elements)
      BY <1>1, <2>2
    <3>2. inPipe \o a \in Seq(Elements)
      BY <3>1, ConcatLaws
    <3>3. (inPipe \o a) \o b = inPipe \o (a \o b)
      BY <3>1, ConcatAssoc, SMTT(30)
    <3> QED
      BY <3>2, <3>3
  <2> QED
    BY <1>4, <2>2, <2>3, <2>4, <2>5, Zenon
<1>7. Quiet(s)' \/ Asked(s)' \/ Replied(s)'
  BY <1>2, <1>4, PhaseFrame
<1>8. Quiet(inPipe \o r)' \/ Asked(inPipe \o r)' \/ Replied(inPipe \o r)'
  BY <1>6, <1>7
<1>9. InProtocol'
  BY <1>5, <1>6, <1>8 DEF InProtocol, Rests
<1>10. MemoryOK' /\ RequestOK'
  BY <1>1, <1>2, MemoryFrame, Frame
<1>11. PipesOK'
  BY <1>1, <1>2, <1>5, <1>6 DEF PipesOK
<1> QED
  BY <1>1, <1>2, <1>9, <1>10, <1>11 DEF Protocol, TableInBounds

(* What a client that dies has not sent is not sent any more.              *)
LEMMA DiesKeeps ==
  ASSUME Protocol, ClientDies
  PROVE  Protocol'
<1>1. /\ MemoryOK /\ RequestOK /\ table \in Seq([address : Nat, size : Nat]) /\ TableInBounds
      /\ inPipe \in Seq(Elements) /\ outPipe \in Seq(Elements) /\ outBuffer \in Seq(Elements)
      /\ toSend \in Seq(Elements)
  BY ProtocolFacts
<1>2. /\ client' = "dead" /\ toSend' = <<>>
      /\ UNCHANGED <<pc, table, count, current, native, outBuffer, outPipe, inPipe, request, memory>>
  BY DEF ClientDies, serverVars
<1>3. PICK r \in Seq(Elements) :
        /\ Alive => r = toSend
        /\ Quiet(inPipe \o r) \/ Asked(inPipe \o r) \/ Replied(inPipe \o r)
  BY ProtocolFacts
<1>4. PICK s : s = inPipe \o r
  OBVIOUS
<1>5. Quiet(s) => Quiet(s)'
  BY <1>2 DEF Quiet
<1>6. Asked(s) => Asked(s)'
  <2>1. Reads(s) => Reads(s)'
    BY <1>2, ReadsFrame
  <2> QED
    BY <1>2, <2>1 DEF Asked
<1>7. Replied(s) => Replied(s)'
  <2>1. Answer(outPipe \o outBuffer) => Answer(outPipe \o outBuffer)'
    BY <1>2, AnswerFrame
  <2> QED
    BY <1>2, <2>1 DEF Replied
<1>8. Quiet(inPipe \o r)' \/ Asked(inPipe \o r)' \/ Replied(inPipe \o r)'
  BY <1>2, <1>3, <1>4, <1>5, <1>6, <1>7
<1>9. InProtocol'
  BY <1>2, <1>8 DEF InProtocol, Rests, Alive
<1>10. MemoryOK' /\ RequestOK'
  BY <1>1, <1>2, MemoryFrame, Frame
<1>11. PipesOK'
  BY <1>1, <1>2, EmptyLaws DEF PipesOK
<1> QED
  BY <1>1, <1>2, <1>9, <1>10, <1>11 DEF Protocol, TableInBounds

-----------------------------------------------------------------------------
(* The client finds each object where the server put it.                   *)

SlotPart(a) == <<a>> \o memory[a] \o <<a>>
SlotParts(n) == [i \in 1 .. n |-> SlotPart(request.objs[i])]

LEMMA SlotPartType ==
  ASSUME MemoryOK, NEW a \in DOMAIN memory
  PROVE  SlotPart(a) \in Seq(Elements) /\ Len(SlotPart(a)) = Len(memory[a]) + 2
<1>1. memory[a] \in Seq(Elements) /\ a \in Elements
  BY AddressesAreNumbers, BytesAreElements DEF Elements
<1>2. <<a>> \in Seq(Elements) /\ Len(<<a>>) = 1
  BY <1>1, ShortSeqs
<1>3. /\ (<<a>> \o memory[a]) \o <<a>> \in Seq(Elements)
      /\ Len((<<a>> \o memory[a]) \o <<a>>) = Len(<<a>>) + Len(memory[a]) + Len(<<a>>)
  BY <1>1, <1>2, ConcatThree
<1>4. Len(<<a>>) + Len(memory[a]) + Len(<<a>>) = Len(memory[a]) + 2
  <2>1. Len(memory[a]) \in Nat
    BY <1>1
  <2> QED
    BY <1>2, <2>1
<1> QED
  BY <1>3, <1>4, Zenon DEF SlotPart

LEMMA SlotsType ==
  ASSUME MemoryOK, RequestOK, NEW n \in 0 .. Len(request.objs)
  PROVE  /\ SlotParts(n) \in Seq(Seq(Elements)) /\ Len(SlotParts(n)) = n
         /\ \A i \in 1 .. n : Len(SlotParts(n)[i]) = Len(memory[request.objs[i]]) + 2
         /\ Slots(n) = FlattenSeq(SlotParts(n))
         /\ Slots(n) \in Seq(Elements)
<1>1. n \in Nat /\ \A i \in 1 .. n : request.objs[i] \in DOMAIN memory
  BY PartsType
<1>2. \A i \in 1 .. n : /\ SlotPart(request.objs[i]) \in Seq(Elements)
                        /\ Len(SlotPart(request.objs[i])) = Len(memory[request.objs[i]]) + 2
  BY <1>1, SlotPartType
<1>3. \A i \in 1 .. n : SlotParts(n)[i] = SlotPart(request.objs[i])
  BY DEF SlotParts
<1>4. SlotParts(n) \in [1 .. n -> Seq(Elements)]
  BY <1>2 DEF SlotParts
<1>5. SlotParts(n) \in Seq(Seq(Elements)) /\ Len(SlotParts(n)) = n
  BY <1>1, <1>4, FunctionSeq
<1>6. Slots(n) = FlattenSeq(SlotParts(n))
  BY DEF Slots, SlotParts, SlotPart
<1>7. Slots(n) \in Seq(Elements)
  BY <1>5, <1>6, FlattenType
<1> QED
  BY <1>2, <1>3, <1>5, <1>6, <1>7

(* As long as what the server answers for the first n objects.             *)
LEMMA SlotsLength ==
  ASSUME MemoryOK, RequestOK, table \in Seq([address : Nat, size : Nat]), Called,
         NEW n \in 0 .. Len(request.objs), NEW ss \in Seq(Seq(Elements)),
         Len(ss) = n, \A i \in 1 .. n : ss[i] = AnswerParts[i]
  PROVE  Len(Slots(n)) = Len(FlattenSeq(ss))
<1>1. PICK tt : tt = SlotParts(n)
  OBVIOUS
<1>2. /\ tt \in Seq(Seq(Elements)) /\ Len(tt) = n
      /\ \A i \in 1 .. n : Len(tt[i]) = Len(memory[request.objs[i]]) + 2
      /\ Slots(n) = FlattenSeq(tt)
  BY <1>1, SlotsType
<1>3. \A i \in 1 .. n : Len(tt[i]) = Len(ss[i])
  <2>1. \A i \in 1 .. n : i \in 1 .. Len(request.objs)
    BY PartsType
  <2> QED
    BY <1>2, <2>1, ReplyType
<1>4. Len(FlattenSeq(tt)) = Len(FlattenSeq(ss))
  BY <1>2, <1>3, FlattenLength
<1> QED
  BY <1>2, <1>4

LEMMA ContentsFound ==
  ASSUME MemoryOK, RequestOK, table \in Seq([address : Nat, size : Nat]), Called,
         NEW i \in 1 .. Len(request.objs), NEW a, a = request.objs[i]
  PROVE  SubSeq(Reply(table), ContentsAt(i) + 1, ContentsAt(i) + Len(memory[a])) = native[a]
<1>1. PICK ap : ap = AnswerParts
  OBVIOUS
<1>2. /\ ap \in Seq(Seq(Elements)) /\ Len(ap) = Len(request.objs)
      /\ ap[i] = <<Len(memory[a])>> \o native[a] \o <<a>>
      /\ Reply(table) = <<Len(request.objs)>> \o FlattenSeq(ap)
  BY <1>1, ReplyType
<1>3. PICK p \in Seq(Seq(Elements)), y \in Seq(Elements) :
        /\ Len(p) = i - 1
        /\ \A j \in 1 .. i - 1 : p[j] = ap[j]
        /\ FlattenSeq(ap) = FlattenSeq(p) \o (ap[i] \o y)
  <2>1. i \in 1 .. Len(ap)
    BY <1>2
  <2>2. FlattensAt(Elements, ap, i)
    BY <1>2, <2>1, FlattenAt
  <2> QED
    BY <2>2, Zenon DEF FlattensAt
<1>4. PICK x \in Seq(Elements) : x = FlattenSeq(p)
  BY <1>3, FlattenType
<1>5. Len(Slots(i - 1)) = Len(x)
  <2>1. i - 1 \in 0 .. Len(request.objs)
    BY PartsType
  <2>2. PICK n \in 0 .. Len(request.objs) : n = i - 1
    BY <2>1
  <2>3. Len(p) = n /\ \A j \in 1 .. n : p[j] = AnswerParts[j]
    BY <1>1, <1>3, <2>2
  <2>4. Len(Slots(n)) = Len(FlattenSeq(p))
    BY <1>3, <2>3, SlotsLength
  <2> QED
    BY <1>4, <2>2, <2>4
<1>6. /\ a \in DOMAIN memory /\ a \in DOMAIN native /\ Len(memory[a]) = Len(native[a])
      /\ Len(request.objs) \in Nat
  BY PartsType, AddressesAreNumbers DEF MemoryOK
<1>7. PICK n \in Seq(Elements), k \in Seq(Elements), m \in Seq(Elements), b \in Seq(Elements) :
        /\ n = <<Len(request.objs)>> /\ k = <<Len(memory[a])>> /\ m = native[a] /\ b = <<a>>
        /\ Len(n) = 1 /\ Len(k) = 1
  <2>1. native[a] \in Seq(Elements) /\ Len(memory[a]) \in Elements /\ a \in Elements
        /\ Len(request.objs) \in Elements
    BY <1>6, AddressesAreNumbers, BytesAreElements DEF Elements
  <2>2. /\ <<Len(request.objs)>> \in Seq(Elements) /\ Len(<<Len(request.objs)>>) = 1
        /\ <<Len(memory[a])>> \in Seq(Elements) /\ Len(<<Len(memory[a])>>) = 1
        /\ <<a>> \in Seq(Elements)
    BY <2>1, ShortSeqs
  <2> QED
    BY <2>1, <2>2, Zenon
<1>8. PICK t : t = Reply(table)
  OBVIOUS
<1>9. t = n \o (x \o (((k \o m) \o b) \o y))
  BY <1>2, <1>3, <1>4, <1>7, <1>8, Zenon
<1>10. PICK h \in Seq(Elements), z \in Seq(Elements) :
         h = n \o (x \o k) /\ z = b \o y /\ Len(h) = 2 + Len(x)
  <2>1. x \o k \in Seq(Elements) /\ Len(x \o k) = Len(x) + Len(k) /\ b \o y \in Seq(Elements)
    BY ConcatLaws
  <2>2. PICK u \in Seq(Elements) : u = x \o k /\ Len(u) = Len(x) + 1
    BY <1>7, <2>1, Zenon
  <2>3. n \o u \in Seq(Elements) /\ Len(n \o u) = Len(n) + Len(u)
    BY ConcatLaws
  <2>4. Len(n) + Len(u) = 2 + Len(x)
    BY <1>7, <2>2
  <2> QED
    BY <2>1, <2>2, <2>3, <2>4, Zenon
<1>11. t = (h \o m) \o z
  <2>1. Regrouped(n, x, k, m, b, y)
    BY Regroup
  <2> QED
    BY <1>9, <1>10, <2>1, Zenon DEF Regrouped
<1>12. SubSeq(t, Len(h) + 1, Len(h) + Len(m)) = m
  BY <1>11, MiddlePart, SMTT(30)
<1>13. ContentsAt(i) = Len(h) /\ Len(memory[a]) = Len(m)
  BY <1>5, <1>6, <1>7, <1>10, Zenon DEF ContentsAt
<1> QED
  BY <1>7, <1>8, <1>12, <1>13, Zenon

(* The length that the client waits for is that of the answer.             *)
LEMMA AnswerFits ==
  ASSUME MemoryOK, RequestOK, table \in Seq([address : Nat, size : Nat]), NEW o, Answer(o)
  PROVE  o \in Seq(Elements) /\ Len(o) = AnswerLength
<1>1. CASE Called /\ o = Reply(table)
  <2>1. PICK ap : ap = AnswerParts
    OBVIOUS
  <2>2. PICK n \in Nat : n = Len(request.objs) /\ n \in 0 .. Len(request.objs)
    BY PartsType
  <2>3. /\ ap \in Seq(Seq(Elements)) /\ Len(ap) = n
        /\ o = <<n>> \o FlattenSeq(ap) /\ o \in Seq(Elements)
        /\ FlattenSeq(ap) \in Seq(Elements)
    BY <1>1, <2>1, <2>2, ReplyType
  <2>4. Len(Slots(n)) = Len(FlattenSeq(ap))
    BY <1>1, <2>1, <2>2, <2>3, SlotsLength
  <2>5. <<n>> \in Seq(Elements) /\ Len(<<n>>) = 1
    BY ShortSeqs DEF Elements
  <2>6. Len(o) = 1 + Len(FlattenSeq(ap))
    <3>1. Len(<<n>> \o FlattenSeq(ap)) = Len(<<n>>) + Len(FlattenSeq(ap))
      BY <2>3, <2>5, ConcatLaws
    <3> QED
      BY <2>3, <2>5, <3>1, Zenon
  <2>7. AnswerLength = 1 + Len(Slots(n))
    BY <1>1, <2>2 DEF AnswerLength, Called
  <2> QED
    BY <2>3, <2>4, <2>6, <2>7, Zenon
<1>2. CASE /\ request.cmd = "_GET_SYMBOL_TABLE"
           /\ o = <<Symbols>> \o FlattenSeq([i \in 1 .. Symbols |-> <<1, "name", "function">>])
  <2>1. PICK ss : ss = SymbolEntries
    OBVIOUS
  <2>2. Symbols \in Nat /\ Symbols \in Elements
    BY ServerAssumption DEF Elements
  <2>3. ss \in [1 .. Symbols -> Seq(Elements)] /\ \A i \in 1 .. Symbols : Len(ss[i]) = 3
    <3>1. 1 \in Elements /\ "name" \in Elements /\ "function" \in Elements
      BY DEF Elements
    <3>2. <<1, "name", "function">> \in Seq(Elements) /\ Len(<<1, "name", "function">>) = 3
      BY <3>1, ShortSeqs
    <3> QED
      BY <2>1, <3>2 DEF SymbolEntries
  <2>4. ss \in Seq(Seq(Elements)) /\ Len(ss) = Symbols
    BY <2>2, <2>3, FunctionSeq
  <2>5. Len(FlattenSeq(ss)) = 3 * Symbols /\ FlattenSeq(ss) \in Seq(Elements)
    <3>1. Len(FlattenSeq(ss)) = 3 * Len(ss)
      BY <2>3, <2>4, FlattenTriples
    <3> QED
      BY <2>4, <3>1, FlattenType
  <2>6. <<Symbols>> \in Seq(Elements) /\ Len(<<Symbols>>) = 1
    BY <2>2, ShortSeqs
  <2>7. /\ <<Symbols>> \o FlattenSeq(ss) \in Seq(Elements)
        /\ Len(<<Symbols>> \o FlattenSeq(ss)) = Len(<<Symbols>>) + Len(FlattenSeq(ss))
    BY <2>5, <2>6, ConcatLaws
  <2>8. o = <<Symbols>> \o FlattenSeq(ss)
    BY <1>2, <2>1 DEF SymbolEntries
  <2>9. AnswerLength = 1 + 3 * Symbols
    BY <1>2 DEF AnswerLength
  <2> QED
    BY <2>5, <2>6, <2>7, <2>8, <2>9, Zenon
<1>3. CASE request.cmd = "_SYNC_READ" /\ o = native[request.addr]
  <2>1. /\ request.addr \in DOMAIN memory /\ request.size = Len(memory[request.addr])
    BY <1>3 DEF RequestOK
  <2>2. native[request.addr] \in Seq(Elements) /\ Len(native[request.addr]) = request.size
    BY <2>1, AddressesAreNumbers, BytesAreElements DEF MemoryOK
  <2>3. AnswerLength = request.size
    BY <1>3 DEF AnswerLength
  <2> QED
    BY <1>3, <2>2, <2>3
<1>4. CASE request.cmd \in {"_ALLOC", "_EXIT"}
  <2>1. PICK x \in Elements : o = <<x>>
    <3>1. 0 \in Elements /\ "" \in Elements /\ DOMAIN native \subseteq Elements
      BY AddressesAreNumbers DEF Elements
    <3> QED
      BY <1>4, <3>1 DEF Answer, Called
  <2>2. o \in Seq(Elements) /\ Len(o) = 1
    BY <2>1, ShortSeqs
  <2>3. AnswerLength = 1
    BY <1>4 DEF AnswerLength
  <2> QED
    BY <2>2, <2>3
<1> QED
  BY <1>1, <1>2, <1>3, <1>4 DEF Answer

LEMMA AnswerLengthType ==
  ASSUME MemoryOK, RequestOK
  PROVE  AnswerLength \in Nat \ {0}
<1>1. CASE request.cmd = "_INVOKE"
  <2>1. PICK n : n = Len(Slots(Len(request.objs)))
    OBVIOUS
  <2>2. n \in Nat
    <3>1. Len(request.objs) \in 0 .. Len(request.objs)
      BY PartsType
    <3>2. Slots(Len(request.objs)) \in Seq(Elements)
      BY <3>1, SlotsType
    <3> QED
      BY <2>1, <3>2
  <2>3. AnswerLength = 1 + n
    BY <1>1, <2>1 DEF AnswerLength
  <2> QED
    BY <2>2, <2>3
<1>2. CASE request.cmd = "_GET_SYMBOL_TABLE"
  BY <1>2, ServerAssumption DEF AnswerLength
<1>3. CASE request.cmd = "_SYNC_READ"
  BY <1>3, AddressesAreNumbers DEF AnswerLength, RequestOK
<1>4. CASE request.cmd \in {"none", "_ALLOC", "_EXIT"}
  BY <1>4 DEF AnswerLength
<1> QED
  BY <1>1, <1>2, <1>3, <1>4 DEF RequestOK, Commands

(* The client has all of the answer, and the server has nothing more.      *)
LEMMA WholeAnswer ==
  ASSUME Protocol, ClientReceives
  PROVE  /\ Replied(<<>>) /\ inPipe = <<>> /\ outBuffer = <<>>
         /\ Answer(outPipe) /\ outPipe \in Seq(Elements)
         /\ Len(outPipe) = AnswerLength /\ outPipe' = <<>>
<1>1. /\ MemoryOK /\ RequestOK /\ table \in Seq([address : Nat, size : Nat])
      /\ inPipe \in Seq(Elements) /\ outPipe \in Seq(Elements) /\ outBuffer \in Seq(Elements)
  BY ProtocolFacts
<1>2. /\ client = "waiting" /\ toSend = <<>> /\ AnswerLength <= Len(outPipe)
      /\ outPipe' = SubSeq(outPipe, AnswerLength + 1, Len(outPipe))
  <2>1. Len(outPipe) >= AnswerLength
    BY DEF ClientReceives
  <2>2. Len(outPipe) \in Nat /\ AnswerLength \in Nat
    BY <1>1, AnswerLengthType
  <2> QED
    BY <2>1, <2>2 DEF ClientReceives
<1>3. PICK l \in Nat \ {0} : l = AnswerLength
  BY <1>1, AnswerLengthType
<1>4. Replied(<<>>) /\ inPipe = <<>>
  <2>1. Alive
    BY <1>2 DEF Alive
  <2>2. PICK r \in Seq(Elements) :
          /\ Alive => r = toSend
          /\ Quiet(inPipe \o r) \/ Asked(inPipe \o r) \/ Replied(inPipe \o r)
    BY ProtocolFacts
  <2>3. inPipe \o r = inPipe
    BY <1>1, <1>2, <2>1, <2>2, EmptyLaws
  <2>4. outPipe # <<>>
    <3>1. Len(outPipe) # 0
      BY <1>1, <1>2, <1>3
    <3> QED
      BY <3>1, EmptyLaws
  <2>5. Replied(inPipe)
    BY <1>2, <2>2, <2>3, <2>4 DEF Quiet, Asked
  <2> QED
    BY <2>5 DEF Replied
<1>5. PICK o : o = outPipe \o outBuffer
  OBVIOUS
<1>6. Answer(o)
  BY <1>4, <1>5 DEF Replied
<1>7. Len(o) = l
  BY <1>1, <1>3, <1>6, AnswerFits
<1>8. Len(o) = Len(outPipe) + Len(outBuffer)
  BY <1>1, <1>5, ConcatLaws
<1>9. Len(outBuffer) = 0 /\ Len(outPipe) = l
  BY <1>1, <1>2, <1>3, <1>7, <1>8
<1>10. outBuffer = <<>>
  BY <1>1, <1>9
<1>11. o = outPipe
  BY <1>1, <1>5, <1>10, EmptyLaws
<1>12. outPipe' = <<>>
  <2>1. SubSeq(outPipe, Len(outPipe) + 1, Len(outPipe)) = <<>>
    BY <1>1, WholeSeq
  <2> QED
    BY <1>2, <1>3, <1>9, <2>1, Zenon
<1> QED
  BY <1>1, <1>3, <1>4, <1>6, <1>9, <1>10, <1>11, <1>12

(* It takes over what is in native memory, for every object it knows.      *)
LEMMA TakesOver ==
  ASSUME Protocol, ClientReceives
  PROVE  /\ DOMAIN memory \subseteq DOMAIN memory' /\ DOMAIN memory' \subseteq DOMAIN native
         /\ \A a \in DOMAIN memory' : memory'[a] = native[a]
         /\ memory' \in [DOMAIN memory' -> Seq(Bytes)]
<1>1. MemoryOK /\ RequestOK /\ table \in Seq([address : Nat, size : Nat])
  BY ProtocolFacts
<1>2. Answer(outPipe) /\ outPipe \in Seq(Elements) /\ Len(outPipe) = AnswerLength
  BY WholeAnswer
<1>3. /\ DOMAIN memory \subseteq DOMAIN native
      /\ \A a \in DOMAIN memory : Len(memory[a]) = Len(native[a])
      /\ \A a \in DOMAIN native : native[a] \in Seq(Bytes)
      /\ \A a \in DOMAIN memory : a \notin ToSet(request.objs) => memory[a] = native[a]
      /\ memory = [a \in DOMAIN memory |-> memory[a]]
  BY <1>1, AddressesAreNumbers DEF MemoryOK
<1> DEFINE Takes == /\ DOMAIN memory \subseteq DOMAIN memory' /\ DOMAIN memory' \subseteq DOMAIN native
                    /\ \A a \in DOMAIN memory' : memory'[a] = native[a]
                    /\ memory' = [a \in DOMAIN memory' |-> memory'[a]]
<1> SUFFICES Takes
  BY <1>3
<1>4. CASE request.cmd = "_INVOKE"
  <2>1. memory' = [a \in DOMAIN memory |->
                 IF a \notin ToSet(request.objs) THEN memory[a]
                 ELSE LET i == CHOOSE i \in DOMAIN request.objs : request.objs[i] = a
                      IN SubSeq(outPipe, ContentsAt(i) + 1, ContentsAt(i) + Len(memory[a]))]
    BY <1>4 DEF ClientReceives
  <2>2. Called /\ outPipe = Reply(table)
    BY <1>2, <1>4 DEF Answer
  <2>3. DOMAIN memory' = DOMAIN memory
    BY <2>1
  <2>4. ASSUME NEW a \in DOMAIN memory, a \in ToSet(request.objs)
        PROVE  memory'[a] = native[a]
    <3>1. PICK i : i = CHOOSE j \in DOMAIN request.objs : request.objs[j] = a
      OBVIOUS
    <3>2. i \in DOMAIN request.objs /\ a = request.objs[i]
      BY <2>4, <3>1 DEF ToSet
    <3>3. i \in 1 .. Len(request.objs)
      BY <1>1, <3>2 DEF RequestOK
    <3>4. SubSeq(Reply(table), ContentsAt(i) + 1, ContentsAt(i) + Len(memory[a])) = native[a]
      BY <1>1, <2>2, <3>2, <3>3, ContentsFound
    <3>5. memory'[a] = SubSeq(outPipe, ContentsAt(i) + 1, ContentsAt(i) + Len(memory[a]))
      BY <2>1, <2>4, <3>1, Zenon
    <3> QED
      BY <2>2, <3>4, <3>5, Zenon
  <2>5. ASSUME NEW a \in DOMAIN memory, a \notin ToSet(request.objs)
        PROVE  memory'[a] = native[a]
    <3>1. memory'[a] = memory[a]
      BY <2>1, <2>5, Zenon
    <3> QED
      BY <1>3, <2>5, <3>1
  <2>6. memory' = [a \in DOMAIN memory' |-> memory'[a]]
    BY <2>1
  <2> QED
    BY <1>3, <2>3, <2>4, <2>5, <2>6
<1>5. ASSUME request.cmd # "_INVOKE"
      PROVE  \A a \in DOMAIN memory : memory[a] = native[a]
  <2>1. request.objs = <<>>
    BY <1>1, <1>5 DEF RequestOK
  <2>2. ToSet(request.objs) = {}
    BY <2>1 DEF ToSet
  <2> QED
    BY <1>3, <2>2
<1>6. CASE request.cmd = "_ALLOC"
  <2>1. CASE outPipe = <<0>>
    <3>1. outPipe[1] = 0
      BY <2>1
    <3>2. memory' = memory
      BY <1>6, <3>1 DEF ClientReceives
    <3> QED
      BY <1>3, <1>5, <1>6, <3>2
  <2>2. ASSUME NEW b \in DOMAIN native \ DOMAIN memory,
               outPipe = <<b>>, native[b] = [i \in 1 .. request.size |-> 0]
        PROVE  Takes
    <3>1. outPipe[1] = b /\ b # 0
      <4>1. PICK n \in Nat : native \in [1 .. n -> Seq(Bytes)]
        BY <1>1 DEF MemoryOK
      <4> QED
        BY <2>2, <4>1
    <3>2. memory' = [a \in DOMAIN memory \cup {b} |->
                       IF a = b THEN [i \in 1 .. request.size |-> 0] ELSE memory[a]]
      BY <1>6, <3>1 DEF ClientReceives
    <3>3. DOMAIN memory' = DOMAIN memory \cup {b}
      BY <3>2
    <3>4. memory'[b] = native[b]
      BY <2>2, <3>2
    <3>5. \A a \in DOMAIN memory : memory'[a] = memory[a]
      BY <3>2
    <3>6. memory' = [a \in DOMAIN memory' |-> memory'[a]]
      BY <3>2
    <3> QED
      BY <1>3, <1>5, <1>6, <3>3, <3>4, <3>5, <3>6
  <2> QED
    BY <1>2, <1>6, <2>1, <2>2 DEF Answer, Called
<1>7. CASE request.cmd = "_SYNC_READ"
  <2>1. PICK b : b = request.addr
    OBVIOUS
  <2>2. b \in DOMAIN memory /\ request.size = Len(memory[b])
    BY <1>1, <1>7, <2>1 DEF RequestOK
  <2>3. outPipe = native[b]
    BY <1>2, <1>7, <2>1 DEF Answer, Called
  <2>4. SubSeq(outPipe, 1, request.size) = native[b]
    <3>1. SubSeq(outPipe, 1, Len(outPipe)) = outPipe
      BY <1>2, WholeSeq
    <3>2. Len(outPipe) = request.size
      BY <1>3, <2>2, <2>3
    <3> QED
      BY <2>3, <3>1, <3>2, Zenon
  <2>5. memory' = [memory EXCEPT ![b] = SubSeq(outPipe, 1, request.size)]
    BY <1>7, <2>1 DEF ClientReceives
  <2>6. memory' = [memory EXCEPT ![b] = native[b]]
    BY <2>4, <2>5, Zenon
  <2> QED
    BY <1>3, <1>5, <1>7, <2>2, <2>6
<1>8. CASE request.cmd \in {"none", "_GET_SYMBOL_TABLE", "_EXIT"}
  <2>1. memory' = memory
    BY <1>8 DEF ClientReceives
  <2> QED
    BY <1>3, <1>5, <1>8, <2>1
<1> QED
  BY <1>1, <1>4, <1>6, <1>7, <1>8 DEF RequestOK, Commands

LEMMA ReceivesKeeps ==
  ASSUME Protocol, ClientReceives
  PROVE  Protocol'
<1>1. /\ MemoryOK /\ RequestOK /\ table \in Seq([address : Nat, size : Nat]) /\ TableInBounds
      /\ inPipe \in Seq(Elements) /\ outPipe \in Seq(Elements) /\ outBuffer \in Seq(Elements)
  BY ProtocolFacts
<1>2. /\ client = "waiting" /\ toSend = <<>> /\ client' = "idle"
      /\ UNCHANGED <<pc, table, native, outBuffer, toSend, request, inPipe>>
  BY DEF ClientReceives, serverVars
<1>3. /\ Replied(<<>>) /\ inPipe = <<>> /\ outBuffer = <<>> /\ outPipe' = <<>>
  BY WholeAnswer
<1>4. /\ DOMAIN memory \subseteq DOMAIN memory' /\ DOMAIN memory' \subseteq DOMAIN native
      /\ \A a \in DOMAIN memory' : memory'[a] = native[a]
      /\ memory' \in [DOMAIN memory' -> Seq(Bytes)]
  BY TakesOver
<1>5. MemoryOK'
  BY <1>1, <1>2, <1>4 DEF MemoryOK
<1>6. RequestOK'
  <2>1. request.objs \in Seq(DOMAIN memory')
    BY <1>1, <1>4, WiderSeq DEF RequestOK
  <2>2. request.cmd = "_SYNC_READ" =>
          request.addr \in DOMAIN memory' /\ request.size = Len(memory'[request.addr])
    BY <1>1, <1>4 DEF RequestOK, MemoryOK
  <2> QED
    BY <1>1, <1>2, <2>1, <2>2 DEF RequestOK
<1>7. PipesOK'
  BY <1>1, <1>2, <1>3, EmptyLaws DEF PipesOK
<1>8. PICK r \in Seq(Elements) : r = <<>>
  BY EmptyLaws
<1>9. Quiet(inPipe \o r)'
  <2>1. inPipe' \o r = <<>>
    BY <1>1, <1>2, <1>3, <1>8, EmptyLaws
  <2>2. \A j \in DOMAIN request.objs : native[request.objs[j]] = memory'[request.objs[j]]
    BY <1>1, <1>4 DEF RequestOK
  <2>3. \/ pc = "flush" \/ pc = "opcode" \/ pc = "aborted"
        \/ pc \in {"last_flush", "deinit", "exited"} /\ request.cmd = "_EXIT"
    BY <1>2, <1>3 DEF Replied
  <2>4. \/ pc' \in {"opcode", "flush"}
        \/ pc' \in {"last_flush", "deinit", "exited"} /\ request'.cmd = "_EXIT"
        \/ pc' = "aborted"
    BY <1>2, <2>3
  <2>5. outBuffer' = <<>>
    BY <1>2, <1>3
  <2> QED
    BY <1>2, <1>3, <2>1, <2>2, <2>4, <2>5 DEF Quiet
<1>10. InProtocol'
  BY <1>2, <1>8, <1>9 DEF InProtocol, Rests
<1> QED
  BY <1>1, <1>2, <1>5, <1>6, <1>7, <1>10 DEF Protocol, TableInBounds

-----------------------------------------------------------------------------
(* The theorems.                                                           *)

LEMMA InitProtocol ==
  ASSUME Init
  PROVE  Protocol
<1>1. /\ pc = "main" /\ table = <<>> /\ native = [a \in {} |-> <<>>]
      /\ inPipe = <<>> /\ outBuffer = <<>> /\ outPipe = <<>>
      /\ client = "idle" /\ toSend = <<>> /\ request = Plain("none")
      /\ memory = [a \in {} |-> <<>>]
  BY DEF Init
<1>2. DOMAIN native = {} /\ DOMAIN memory = {} /\ 1 .. 0 = {} /\ 0 \in Nat
  BY <1>1
<1>3. request.objs = <<>> /\ request.cmd = "none" /\ ToSet(request.objs) = {}
      /\ DOMAIN request.objs = {}
  BY <1>1 DEF Plain, ToSet
<1>4. MemoryOK
  <2>1. native \in [1 .. 0 -> Seq(Bytes)] /\ memory \in [DOMAIN memory -> Seq(Bytes)]
    BY <1>1, <1>2
  <2> QED
    BY <1>2, <2>1 DEF MemoryOK
<1>5. RequestOK
  BY <1>3, EmptyLaws DEF RequestOK, Commands
<1>6. PipesOK
  BY <1>1, EmptyLaws DEF PipesOK
<1>7. table \in Seq([address : Nat, size : Nat]) /\ TableInBounds
  <2>1. Len(<<>>) = 0 /\ <<>> \in Seq([address : Nat, size : Nat])
    OBVIOUS
  <2> QED
    BY <1>1, <2>1, ServerAssumption DEF TableInBounds
<1>8. PICK r \in Seq(Elements) : r = <<>>
  BY EmptyLaws
<1>9. inPipe \o r = <<>>
  BY <1>1, <1>6, <1>8, EmptyLaws DEF PipesOK
<1>10. Quiet(inPipe \o r)
  BY <1>1, <1>3, <1>9 DEF Quiet
<1>11. InProtocol
  BY <1>1, <1>8, <1>10 DEF InProtocol, Rests
<1> QED
  BY <1>1, <1>4, <1>5, <1>6, <1>7, <1>11 DEF Protocol

LEMMA StutterKeeps ==
  ASSUME Protocol, UNCHANGED vars
  PROVE  Protocol'
<1>1. /\ MemoryOK /\ RequestOK /\ table \in Seq([address : Nat, size : Nat]) /\ TableInBounds
      /\ client \in {"idle", "waiting", "dead"} /\ (client = "idle" => toSend = <<>>)
      /\ PipesOK
  BY DEF Protocol
<1>2. /\ UNCHANGED <<serverVars, outPipe, client, request, memory>>
      /\ UNCHANGED <<table, native, outBuffer, inPipe, outPipe, toSend, client, request, memory>>
  BY DEF vars, serverVars, clientVars
<1>3. PICK r \in Seq(Elements) :
        /\ Alive => r = toSend
        /\ Quiet(inPipe \o r) \/ Asked(inPipe \o r) \/ Replied(inPipe \o r)
  BY ProtocolFacts
<1>4. PICK s : s = inPipe \o r
  OBVIOUS
<1>5. Quiet(s)' \/ Asked(s)' \/ Replied(s)'
  BY <1>2, <1>3, <1>4, PhaseFrame
<1>6. Quiet(inPipe \o r)' \/ Asked(inPipe \o r)' \/ Replied(inPipe \o r)'
  BY <1>2, <1>4, <1>5
<1>7. Alive' => r = toSend'
  BY <1>2, <1>3 DEF Alive
<1>8. InProtocol'
  BY <1>6, <1>7 DEF InProtocol, Rests
<1>9. MemoryOK' /\ RequestOK'
  BY <1>1, <1>2, MemoryFrame, Frame
<1> QED
  BY <1>1, <1>2, <1>8, <1>9 DEF Protocol, PipesOK, TableInBounds

LEMMA NextKeeps ==
  ASSUME Protocol, [Next]_vars
  PROVE  Protocol'
<1>1. CASE ClientRequest
  BY <1>1, RequestKeeps
<1>2. CASE ClientSends
  BY <1>2, SendsKeeps
<1>3. CASE ClientReceives
  BY <1>3, ReceivesKeeps
<1>4. CASE ClientDies
  BY <1>4, DiesKeeps
<1>5. CASE main \/ InitMessages \/ DeinitMessages
  BY <1>5, OpenKeeps
<1>6. CASE ShortRead \/ PipeFails
  BY <1>6, ClosedKeeps
<1>7. CASE Opcode
  BY <1>7, OpcodeKeeps
<1>8. CASE Invoke
  BY <1>8, InvokeKeeps
<1>9. CASE ReceiveHeader
  BY <1>9, HeaderKeeps
<1>10. CASE ReceiveDirty
  BY <1>10, DirtyKeeps
<1>11. CASE ReceiveClean
  BY <1>11, CleanKeeps
<1>12. CASE Trampoline
  BY <1>12, TrampolineKeeps
<1>13. CASE SendReply
  BY <1>13, SendReplyKeeps
<1>14. CASE GetSymbolTable
  BY <1>14, SymbolTableKeeps
<1>15. CASE Alloc
  BY <1>15, AllocKeeps
<1>16. CASE SyncRead
  BY <1>16, SyncReadKeeps
<1>17. CASE ExitCommand
  BY <1>17, ExitKeeps
<1>18. CASE WriteEarly
  BY <1>18, WriteEarlyKeeps
<1>19. CASE FlushMessage
  BY <1>19, FlushKeeps
<1>20. CASE UNCHANGED vars
  BY <1>20, StutterKeeps
<1> QED
  BY <1>1, <1>2, <1>3, <1>4, <1>5, <1>6, <1>7, <1>8, <1>9, <1>10, <1>11, <1>12, <1>13, <1>14,
     <1>15, <1>16, <1>17, <1>18, <1>19, <1>20 DEF Next, Client, Server

(* At every step the server's place in its loop, what is on its way in the *)
(* pipes and the buffer, and what the client waits for belong to one       *)
(* request: the rest of it is read exactly as it was written, for objects  *)
(* of any number, order and size and pieces of any length.                 *)
THEOREM ProtocolInvariant == Spec => []Protocol
<1>1. Init => Protocol
  BY InitProtocol
<1>2. Protocol /\ [Next]_vars => Protocol'
  BY NextKeeps
<1> QED
  BY <1>1, <1>2, PTL DEF Spec

(* No answer, or part of one, is left over for the next request, and the   *)
(* server takes no request for another: what it rejects is a call with     *)
(* more objects than native_memory holds.  Every read and write may fail.  *)
THEOREM ProcessesInStep == Spec => []InStep
<1>1. Protocol => InStep
  <2> SUFFICES ASSUME Protocol
               PROVE  InStep
    OBVIOUS
  <2>1. PICK r \in Seq(Elements) :
          /\ Alive => r = toSend
          /\ Quiet(inPipe \o r) \/ Asked(inPipe \o r) \/ Replied(inPipe \o r)
    BY ProtocolFacts
  <2>2. ASSUME client = "idle"
        PROVE  /\ inPipe = <<>> /\ outBuffer = <<>> /\ outPipe = <<>>
               /\ pc \in {"main", "open", "opcode", "flush", "last_flush", "deinit",
                          "exited", "aborted"}
    <3>1. toSend = <<>> /\ Alive /\ inPipe \in Seq(Elements)
      BY <2>2, ProtocolFacts DEF Alive, Protocol
    <3>2. inPipe \o r = inPipe
      BY <2>1, <3>1, EmptyLaws
    <3>3. Quiet(inPipe)
      BY <2>1, <2>2, <3>2 DEF Asked, Replied
    <3> QED
      BY <2>2, <3>3 DEF Quiet
  <2>3. ASSUME pc = "rejected"
        PROVE  request.cmd = "_INVOKE" /\ Len(request.objs) > NATIVE_MEMORY_SIZE
    <3>1. Asked(inPipe \o r)
      BY <2>1, <2>3 DEF Quiet, Replied
    <3> QED
      BY <2>3, <3>1 DEF Asked, Reads
  <2> QED
    BY <2>2, <2>3 DEF InStep
<1> QED
  BY <1>1, ProtocolInvariant, PTL

(* Whatever the order, sizes and flags of the objects, and however their   *)
(* contents were cut into pieces, a native function sees what the          *)
(* interpreter's objects held when it made the call.                       *)
THEOREM ArgumentsAlwaysArrive == Spec => []ArgumentsArrive
<1>1. Protocol => ArgumentsArrive
  <2> SUFFICES ASSUME Protocol, pc = "call", NEW i \in DOMAIN request.objs
               PROVE  native[request.objs[i]] = memory[request.objs[i]]
    BY DEF ArgumentsArrive
  <2>1. PICK r \in Seq(Elements) :
          Quiet(inPipe \o r) \/ Asked(inPipe \o r) \/ Replied(inPipe \o r)
    BY ProtocolFacts
  <2>2. Asked(inPipe \o r)
    BY <2>1 DEF Quiet, Replied
  <2>3. Invoking(Len(request.objs))
    BY <2>2 DEF Asked, Reads
  <2>4. i \in 1 .. Len(request.objs)
    BY ProtocolFacts DEF RequestOK
  <2> QED
    BY <2>3, <2>4 DEF Invoking
<1> QED
  BY <1>1, ProtocolInvariant, PTL

(* When the client has its answer, its copy of every object of the call,   *)
(* or of the one it asked for, is what is in native memory.                *)
THEOREM MemoryAlwaysReturned == Spec => []MemoryReturned
<1>1. Protocol => MemoryReturned
  <2> SUFFICES ASSUME Protocol, client = "idle"
               PROVE  /\ \A i \in DOMAIN request.objs :
                           memory[request.objs[i]] = native[request.objs[i]]
                      /\ request.cmd = "_SYNC_READ" => memory[request.addr] = native[request.addr]
    BY DEF MemoryReturned
  <2>1. PICK r \in Seq(Elements) :
          Quiet(inPipe \o r) \/ Asked(inPipe \o r) \/ Replied(inPipe \o r)
    BY ProtocolFacts
  <2>2. Quiet(inPipe \o r)
    BY <2>1 DEF Asked, Replied
  <2>3. MemoryOK /\ RequestOK
    BY ProtocolFacts
  <2>4. \A i \in DOMAIN request.objs : memory[request.objs[i]] = native[request.objs[i]]
    BY <2>2 DEF Quiet
  <2>5. \A a \in DOMAIN memory : memory[a] = native[a]
    BY <2>3, <2>4, Agreement
  <2> QED
    BY <2>3, <2>4, <2>5 DEF RequestOK
<1> QED
  BY <1>1, ProtocolInvariant, PTL

(* The entries that are received fit into native_memory, for any size of   *)
(* it and any number of objects that a request announces.                  *)
THEOREM TableStaysInBounds == Spec => []TableInBounds
<1>1. Protocol => TableInBounds
  BY DEF Protocol
<1> QED
  BY <1>1, ProtocolInvariant, PTL
=============================================================================
