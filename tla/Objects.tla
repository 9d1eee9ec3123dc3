------------------------------- MODULE Objects -------------------------------
(***************************************************************************)
(* The objects of one thread: declarations and blocks, malloc, calloc,     *)
(* realloc and free, reads, writes, bit-field writes and memset, and the   *)
(* store buffer that holds a write until some rule waits for it            *)
(* (semantics/c/language/execution/io.k, common/memory, stmt/block.k,      *)
(* library/stdlib.k, library/string.k, common/execution/delete-object.k).  *)
(*                                                                         *)
(* The rules that move a buffered write to <mem> have priority 80: they    *)
(* apply only when the thread's computation waits.  With one thread, the   *)
(* rules between two waits are one step here.                              *)
(***************************************************************************)
EXTENDS Naturals, Sequences, SequencesExt

CONSTANTS
  MaxBase,       \* objects ever created, a bound on the fresh ids
  MaxLen,        \* largest object the program asks for
  maxHeapBound,  \* cfg:maxHeapBound
  Bits,          \* values of one half of a byte (a bit-field each)
  trap, uninit,  \* an indeterminate half; a byte nothing was stored in
  Programs       \* the kinds of programs: ops, the statements they use;
                 \* maxLen, their largest object; maxStmts, a bound on their
                 \* length; risky, which of "fillLocal" (a local aggregate
                 \* with an initialiser, a memset of a local) and
                 \* "callocNull" (a calloc beyond maxHeapBound) they use

ASSUME ObjectsAssumption ==
  /\ MaxBase \in Nat /\ MaxLen \in Nat \ {0} /\ maxHeapBound \in Nat
  /\ {0, 1} \subseteq Bits /\ trap \notin Bits
  /\ uninit \notin [1 .. 2 -> Bits \cup {trap}]
  /\ \A p \in Programs : p.maxLen \in 1 .. MaxLen /\ p.maxStmts \in Nat

VARIABLES
  k,            \* <k>: what is left of the current statement
  mem,          \* <mem>: the live objects, [bases -> [offsets -> byte]]
  buffer,       \* <buffer>
  blocks,       \* <local-addresses> of the current block and of <block-stack>
  malloced,     \* <malloced>: base |-> length
  locsWritten,  \* <locs-written>
  nextBase,     \* the next fresh object id
  result,       \* the last value read or returned
  errors,       \* reported error codes
  program,      \* the kind of program that runs
  stmts         \* statements issued (bound)

vars == <<k, mem, buffer, blocks, malloced, locsWritten, nextBase, result,
          errors, program, stmts>>

Bases == 1 .. MaxBase
Lens == 1 .. MaxLen
Offsets == 0 .. MaxLen - 1
MemByte == [1 .. 2 -> Bits \cup {trap}]
TrapByte == [h \in 1 .. 2 |-> trap]
Whole(v) == [h \in 1 .. 2 |-> v]

-----------------------------------------------------------------------------
(* Statements and the computations they become.                            *)

declare(n, zero, init) == [op |-> "declare", len |-> n, zero |-> zero, init |-> init]
access(op, b, o, w, v) == [op |-> op, base |-> b, off |-> o, wid |-> w, val |-> v]
heap(op, b, n)         == [op |-> op, base |-> b, len |-> n]
plain(op)              == [op |-> op]
HALT                   == plain("HALT")

Statements ==
  {declare(n, z, i) : n \in Lens, z \in BOOLEAN, i \in BOOLEAN}
    \cup {access(op, b, o, w, v) : op \in {"write", "memset"}, b \in Bases,
             o \in Offsets, w \in 1 .. 2, v \in Bits}
    \cup {access("bitwrite", b, o, h, v) : b \in Bases, o \in Offsets,
             h \in 1 .. 2, v \in Bits}
    \cup {access("read", b, o, 1, 0) : b \in Bases, o \in Offsets}
    \cup {heap(op, 0, n) : op \in {"malloc", "calloc"}, n \in Lens}
    \cup {heap("realloc", b, n) : b \in Bases, n \in Lens}
    \cup {heap("free", b, 0) : b \in Bases}
    \cup {plain(op) : op \in {"pushBlock", "popBlock", "sequencePoint"}}

Idle == k = <<>>
AtHead(op) == k # <<>> /\ Head(k).op = op
Live(b) == b \in DOMAIN mem

-----------------------------------------------------------------------------
(* The store buffer.  A buffered write gives the bytes at some offsets.    *)

Entry(kind, b, o, n, byte) ==
  [kind |-> kind, base |-> b, at |-> [x \in o .. o + n - 1 |-> byte]]
bwrite(b, o, n, byte) == Entry("bwrite", b, o, n, byte)
bfill(b, o, n, byte)  == Entry("bfill", b, o, n, byte)

(* locations(L) is not defined on a bfill: a read waits for those too.     *)
NoFill(buf) == \A i \in DOMAIN buf : buf[i].kind = "bwrite"
locationsIgnored(b, o) == TRUE
Settled(b, o) ==
  /\ NoFill(buffer)
  /\ \A i \in DOMAIN buffer : ~(buffer[i].base = b /\ o \in DOMAIN buffer[i].at)

(* A library function reads its parameters, the youngest buffered writes.  *)
Drained == buffer = <<>>

(* bufferWrite and bufferFill are defined on the object of a live base.    *)
bufferWrite(m, e) ==
  [m EXCEPT ![e.base] = [o \in DOMAIN @ |-> IF o \in DOMAIN e.at THEN e.at[o] ELSE @[o]]]

(* deleteObject drops the buffered writes of an object; here, of objects bs. *)
filterNothing(buf, bs) == buf
filterBuffer(buf, bs) ==
  FlattenSeq([i \in DOMAIN buf |->
    IF buf[i].kind = "bwrite" /\ buf[i].base \in bs THEN <<>> ELSE <<buf[i]>>])

deleteObject(b) == Restrict(mem, DOMAIN mem \ {b})

allocOneMore(b, n, byte) ==
  [x \in DOMAIN mem \cup {b} |->
     IF x = b THEN [o \in 0 .. n |-> byte] ELSE mem[x]]
alloc(b, n, byte) ==
  [x \in DOMAIN mem \cup {b} |->
     IF x = b THEN [o \in 0 .. n - 1 |-> byte] ELSE mem[x]]

-----------------------------------------------------------------------------
Init ==
  /\ k = <<>>
  /\ mem = [b \in {} |-> {}]
  /\ buffer = <<>>
  /\ blocks = <<{}>>
  /\ malloced = [b \in {} |-> 0]
  /\ locsWritten = {}
  /\ nextBase = 1
  /\ result = TrapByte
  /\ errors = {}
  /\ program \in Programs
  /\ stmts = 0

UndefSteps(code) ==
  /\ k' = <<HALT>> \o k
  /\ errors' = errors \cup {code}

(* The program reaches its next statement.  It can name any object it ever *)
(* had, and a bit-field it names is inside its object.                     *)
Issue(s) ==
  /\ Idle
  /\ stmts < program.maxStmts
  /\ s.op \in program.ops
  /\ s.op \in {"write", "memset", "bitwrite", "read"} => s.off < program.maxLen
  /\ s.op \in {"declare", "malloc", "calloc", "realloc"} => s.len <= program.maxLen
  /\ s.op \in {"write", "memset", "bitwrite", "read", "realloc", "free"} => s.base < nextBase
  /\ s.op \in {"declare", "malloc", "calloc", "realloc"} => nextBase <= MaxBase
  /\ s.op = "bitwrite" /\ Live(s.base) => s.off \in DOMAIN mem[s.base]
  /\ s.op = "popBlock" => Len(blocks) > 1
  /\ s.op = "declare" /\ s.zero => "fillLocal" \in program.risky
  /\ s.op = "memset" /\ Live(s.base) /\ s.base \notin DOMAIN malloced => "fillLocal" \in program.risky
  /\ s.op = "calloc" /\ s.len > maxHeapBound => "callocNull" \in program.risky
  /\ k' = <<s>>
  /\ stmts' = stmts + 1
  /\ UNCHANGED <<mem, buffer, blocks, malloced, locsWritten, nextBase, result, errors,
                 program>>

(* checkLoc: a pointer to an object that ended (CEE4).  errorLocInvalid is *)
(* not an Error, so HALT stays.                                            *)
DeadUse ==
  /\ k # <<>>
  /\ Head(k).op \in {"write", "memset", "bitwrite", "read", "realloc", "free"}
  /\ ~Live(Head(k).base)
  /\ UndefSteps("CEE4")
  /\ UNCHANGED <<mem, buffer, blocks, malloced, locsWritten, nextBase, result, program, stmts>>

-----------------------------------------------------------------------------
PushBlock ==
  /\ AtHead("pushBlock")
  /\ blocks' = <<{}>> \o blocks
  /\ k' = Tail(k)
  /\ UNCHANGED <<mem, buffer, malloced, locsWritten, nextBase, result, errors, program, stmts>>

(* deleteObjects of the block's locals, with their buffered writes.        *)
PopBlock ==
  /\ AtHead("popBlock")
  /\ mem' = Restrict(mem, DOMAIN mem \ Head(blocks))
  /\ buffer' = filterBuffer(buffer, Head(blocks))
  /\ blocks' = Tail(blocks)
  /\ k' = Tail(k)
  /\ UNCHANGED <<malloced, locsWritten, nextBase, result, errors, program, stmts>>

(* defineAndInit: the object, then Zero of an aggregate, then the          *)
(* initialisers that were given, then a sequence point.                    *)
DeclareLocal ==
  /\ AtHead("declare")
  /\ mem' = alloc(nextBase, Head(k).len, uninit)
  /\ blocks' = <<Head(blocks) \cup {nextBase}>> \o Tail(blocks)
  /\ nextBase' = nextBase + 1
  /\ k' = (IF Head(k).zero
             THEN <<access("zero", nextBase, 0, Head(k).len, 0)>> ELSE <<>>)
          \o (IF Head(k).init THEN <<access("init", nextBase, 0, 1, 1)>> ELSE <<>>)
          \o <<plain("sequencePoint")>> \o Tail(k)
  /\ UNCHANGED <<buffer, malloced, locsWritten, result, errors, program, stmts>>

(* initBytesFill and initBytes check nothing.                              *)
Zero ==
  /\ AtHead("zero")
  /\ buffer' = Append(buffer, bfill(Head(k).base, 0, Head(k).wid, Whole(0)))
  /\ k' = Tail(k)
  /\ UNCHANGED <<mem, blocks, malloced, locsWritten, nextBase, result, errors, program, stmts>>

Initializer ==
  /\ AtHead("init")
  /\ buffer' = Append(buffer, bwrite(Head(k).base, 0, 1, Whole(Head(k).val)))
  /\ k' = Tail(k)
  /\ UNCHANGED <<mem, blocks, malloced, locsWritten, nextBase, result, errors, program, stmts>>

SequencePoint ==
  /\ AtHead("sequencePoint")
  /\ locsWritten' = {}
  /\ k' = Tail(k)
  /\ UNCHANGED <<mem, buffer, blocks, malloced, nextBase, result, errors, program, stmts>>

-----------------------------------------------------------------------------
(* checkSeq and checkBounds.                                               *)
Unsequenced(b, o) == <<b, o>> \in locsWritten
InBounds(b, o, n) == o + n - 1 \in DOMAIN mem[b]

(* writeBytes and writeBytesFill: the checks, then the buffer.             *)
BufferedWrite(b, o, n, e) ==
  \/ /\ Unsequenced(b, o)
     /\ UndefSteps("EIO8")
     /\ UNCHANGED <<buffer, locsWritten>>
  \/ /\ ~Unsequenced(b, o)
     /\ locsWritten' = locsWritten \cup {<<b, o>>}
     /\ \/ /\ ~InBounds(b, o, n)
           /\ UndefSteps("EIO2")
           /\ UNCHANGED buffer
        \/ /\ InBounds(b, o, n)
           /\ buffer' = Append(buffer, e)
           /\ k' = Tail(k)
           /\ UNCHANGED errors

Write ==
  /\ AtHead("write")
  /\ LET s == Head(k) IN
     /\ Live(s.base)
     /\ BufferedWrite(s.base, s.off, s.wid,
                      bwrite(s.base, s.off, s.wid, Whole(s.val)))
  /\ UNCHANGED <<mem, blocks, malloced, nextBase, result, program, stmts>>

(* memset, a library function.                                             *)
Memset ==
  /\ AtHead("memset")
  /\ Drained
  /\ LET s == Head(k) IN
     /\ Live(s.base)
     /\ BufferedWrite(s.base, s.off, s.wid,
                      bfill(s.base, s.off, s.wid, Whole(s.val)))
  /\ UNCHANGED <<mem, blocks, malloced, nextBase, result, program, stmts>>

(* writeUnalignedBits: read the byte (an uninitialised one becomes a trap  *)
(* in <mem>), replace some of its bits, write the byte.                    *)
BitWrite ==
  /\ AtHead("bitwrite")
  /\ LET s == Head(k)
         old == IF mem[s.base][s.off] = uninit THEN TrapByte ELSE mem[s.base][s.off]
     IN
     /\ Live(s.base)
     /\ s.off \in DOMAIN mem[s.base]
     /\ Settled(s.base, s.off)
     /\ mem' = [mem EXCEPT ![s.base][s.off] = old]
     /\ BufferedWrite(s.base, s.off, 1,
                      bwrite(s.base, s.off, 1, [old EXCEPT ![s.wid] = s.val]))
  /\ UNCHANGED <<blocks, malloced, nextBase, result, program, stmts>>

(* readBytes.  EIO8 and EIO7 leave an Error behind HALT, so the read goes  *)
(* on; an uninitialised byte, or one outside the object, reads as a trap   *)
(* and is not checked against <locs-written>.                              *)
Read ==
  /\ AtHead("read")
  /\ LET s == Head(k)
         inside == s.off \in DOMAIN mem[s.base]
         set == inside /\ mem[s.base][s.off] # uninit
     IN
     /\ Live(s.base)
     /\ Settled(s.base, s.off)
     /\ result' = IF set THEN mem[s.base][s.off] ELSE TrapByte
     /\ errors' = errors
          \cup {c \in {"EIO8"} : set /\ Unsequenced(s.base, s.off)}
          \cup {c \in {"EIO7"} : ~inside}
  /\ k' = Tail(k)
  /\ UNCHANGED <<mem, buffer, blocks, malloced, locsWritten, nextBase, program, stmts>>

-----------------------------------------------------------------------------
(* cfg:maxHeapBound bytes still fit.                                       *)
FitsStrictly(n) == n < maxHeapBound
Fits(n) == n <= maxHeapBound

(* alignedAlloc, and calloc's zeroObject, for which there is no rule when  *)
(* malloc returned a null pointer.                                         *)
Malloc ==
  /\ AtHead("malloc") \/ AtHead("calloc")
  /\ Drained
  /\ LET n == Head(k).len
         zeroed == AtHead("calloc")
     IN
     \/ /\ Fits(n)
        /\ mem' = alloc(nextBase, n, IF zeroed THEN Whole(0) ELSE uninit)
        /\ malloced' = [b \in DOMAIN malloced \cup {nextBase} |->
                          IF b = nextBase THEN n ELSE malloced[b]]
        /\ nextBase' = nextBase + 1
        /\ k' = Tail(k)
     \/ /\ n > maxHeapBound
        /\ k' = (IF zeroed THEN <<plain("zeroObject")>> ELSE <<>>) \o Tail(k)
        /\ UNCHANGED <<mem, malloced, nextBase>>
  /\ UNCHANGED <<buffer, blocks, locsWritten, result, errors, program, stmts>>

(* realloc: alloc, copyBytes (the initialised ones), deleteObject.         *)
Realloc ==
  /\ AtHead("realloc")
  /\ Drained
  /\ LET b == Head(k).base
         n == Head(k).len
     IN
     /\ b \in DOMAIN malloced
     /\ mem' = [x \in (DOMAIN mem \ {b}) \cup {nextBase} |->
                  IF x # nextBase THEN mem[x]
                  ELSE [o \in 0 .. n - 1 |->
                          IF o < malloced[b] THEN mem[b][o] ELSE uninit]]
     /\ buffer' = filterBuffer(buffer, {b})
     /\ malloced' = [x \in (DOMAIN malloced \ {b}) \cup {nextBase} |->
                       IF x = nextBase THEN n ELSE malloced[x]]
     /\ nextBase' = nextBase + 1
  /\ k' = Tail(k)
  /\ UNCHANGED <<blocks, locsWritten, result, errors, program, stmts>>

Free ==
  /\ AtHead("free")
  /\ Drained
  /\ Head(k).base \in DOMAIN malloced
  /\ mem' = deleteObject(Head(k).base)
  /\ buffer' = filterBuffer(buffer, {Head(k).base})
  /\ malloced' = Restrict(malloced, DOMAIN malloced \ {Head(k).base})
  /\ k' = Tail(k)
  /\ UNCHANGED <<blocks, locsWritten, nextBase, result, errors, program, stmts>>

(* STDLIB1 and STDLIB2: an object that malloc did not return.              *)
NotMalloced ==
  /\ AtHead("realloc") \/ AtHead("free")
  /\ Drained
  /\ Live(Head(k).base)
  /\ Head(k).base \notin DOMAIN malloced
  /\ UndefSteps(IF AtHead("free") THEN "STDLIB2" ELSE "STDLIB1")
  /\ UNCHANGED <<mem, buffer, blocks, malloced, locsWritten, nextBase, result, program, stmts>>

-----------------------------------------------------------------------------
(* No rule but those of the buffer applies to the configuration.           *)
Waiting ==
  \/ AtHead("HALT") \/ AtHead("zeroObject")
  \/ /\ k # <<>> /\ Head(k).op \in {"read", "bitwrite"}
     /\ Live(Head(k).base) /\ ~Settled(Head(k).base, Head(k).off)
  \/ /\ AtHead("malloc") \/ AtHead("calloc") \/
          (k # <<>> /\ Head(k).op \in {"memset", "realloc", "free"} /\ Live(Head(k).base))
     /\ ~Drained

(* The oldest buffered write reaches its object, if that is still there.   *)
Flush ==
  /\ Waiting
  /\ buffer # <<>>
  /\ Live(Head(buffer).base)
  /\ mem' = bufferWrite(mem, Head(buffer))
  /\ buffer' = Tail(buffer)
  /\ UNCHANGED <<k, blocks, malloced, locsWritten, nextBase, result, errors, program, stmts>>

Next ==
  \/ \E s \in Statements : Issue(s)
  \/ DeadUse
  \/ PushBlock \/ PopBlock
  \/ DeclareLocal \/ Zero \/ Initializer \/ SequencePoint
  \/ Write \/ Memset \/ BitWrite \/ Read
  \/ Malloc \/ Realloc \/ Free \/ NotMalloced
  \/ Flush

Spec == Init /\ [][Next]_vars

(* The interpreter rewrites until no rule applies.                         *)
FairSpec == Spec /\ WF_vars(Next)

-----------------------------------------------------------------------------
Codes == {"CEE4", "EIO2", "EIO7", "EIO8", "STDLIB1", "STDLIB2"}
ObjectBytes(n) == [0 .. n - 1 -> MemByte \cup {uninit}]

(* The cells hold what the rules put there; a block's locals and the       *)
(* objects of <malloced> are different objects, the latter of the length   *)
(* recorded there.                                                         *)
TypeOK ==
  /\ \A b \in DOMAIN mem : b < nextBase /\ \E n \in Lens : mem[b] \in ObjectBytes(n)
  /\ \A i \in DOMAIN buffer :
       /\ buffer[i].kind \in {"bwrite", "bfill"}
       /\ \A o \in DOMAIN buffer[i].at : buffer[i].at[o] \in MemByte
  /\ \A b \in DOMAIN malloced :
       /\ b \in DOMAIN mem /\ DOMAIN mem[b] = 0 .. malloced[b] - 1
       /\ \A i \in DOMAIN blocks : b \notin blocks[i]
  /\ \A i \in DOMAIN blocks : blocks[i] \subseteq DOMAIN mem
  /\ nextBase \in 1 .. MaxBase + 1
  /\ result \in MemByte
  /\ errors \subseteq Codes

(* What the program sees of a byte: the youngest buffered write to it, or  *)
(* else <mem>, and indeterminate where nothing was stored.                 *)
Hits(e, b, o) == e.base = b /\ o \in DOMAIN e.at
Latest(buf, n, b, o, byte) ==
  LET hits == {i \in 1 .. n : Hits(buf[i], b, o)}
  IN IF hits = {} THEN byte ELSE buf[Max(hits)].at[o]
Stored(byte) == IF byte = uninit THEN TrapByte ELSE byte
Seen ==
  [b \in DOMAIN mem |->
     [o \in DOMAIN mem[b] |-> Stored(Latest(buffer, Len(buffer), b, o, mem[b][o]))]]

Buffered == INSTANCE Memory WITH objs <- Seen

(* The store buffer is invisible: reads, bit-field writes, realloc and the *)
(* end of objects behave as in Memory, where every write is immediate.     *)
MemorySpec == Buffered!Spec

(* Every buffered bwrite is to an object that still exists, and every      *)
(* entry to bytes inside its object, so that it can leave the buffer       *)
(* (filterBuffer, checkBounds).                                            *)
BufferedWritesLand ==
  \A i \in DOMAIN buffer :
    LET e == buffer[i] IN
    /\ e.kind = "bwrite" => Live(e.base)
    /\ Live(e.base) => DOMAIN e.at \subseteq DOMAIN mem[e.base]

(* The oldest buffered entry is a fill of an object that ended.            *)
StaleFill ==
  buffer # <<>> /\ Head(buffer).kind = "bfill" /\ ~Live(Head(buffer).base)

(* Every statement ends, or an error is reported for it, unless a stale    *)
(* fill blocks the buffer or calloc is left with a null pointer: nothing   *)
(* else makes a rule wait for a buffer that never drains.                  *)
StuckOnlyOnFill ==
  ~Idle ~> (Idle \/ AtHead("HALT") \/ StaleFill \/ AtHead("zeroObject"))
=============================================================================
