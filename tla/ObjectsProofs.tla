---------------------------- MODULE ObjectsProofs ----------------------------
(***************************************************************************)
(* Theorems about Objects, for any number of objects of any length and     *)
(* programs of any length: the cells keep their types, a buffered write is *)
(* never left without its object, and the store buffer is invisible, that  *)
(* is, Objects implements Memory.                                          *)
(***************************************************************************)
EXTENDS Objects, DataInduction

-----------------------------------------------------------------------------
(* The inductive invariant.                                                *)

Object(m) == \E n \in Lens : m \in ObjectBytes(n)

MemOK ==
  /\ nextBase \in 1 .. MaxBase + 1
  /\ DOMAIN mem \subseteq 1 .. nextBase - 1
  /\ mem = [b \in DOMAIN mem |-> mem[b]]
  /\ \A b \in DOMAIN mem : Object(mem[b])

Ats == UNION {[os -> MemByte] : os \in SUBSET Offsets}
Entries == [kind : {"bwrite", "bfill"}, base : Nat, at : Ats]

(* The object of an entry may be gone, but no later one has its id.        *)
BufferOK ==
  /\ buffer \in Seq(Entries)
  /\ \A i \in 1 .. Len(buffer) :
       LET e == buffer[i] IN
       /\ e.base < nextBase
       /\ e.kind = "bwrite" => e.base \in DOMAIN mem
       /\ e.base \in DOMAIN mem => DOMAIN e.at \subseteq DOMAIN mem[e.base]

(* An object belongs to one block, or to <malloced>.                       *)
BlocksOK ==
  /\ blocks \in Seq(SUBSET DOMAIN mem) /\ Len(blocks) # 0
  /\ \A i, j \in 1 .. Len(blocks) : i # j => blocks[i] \cap blocks[j] = {}

MallocedOK ==
  /\ \A b \in DOMAIN malloced :
       /\ b \in DOMAIN mem /\ malloced[b] \in Lens /\ DOMAIN mem[b] = 0 .. malloced[b] - 1
       /\ \A i \in 1 .. Len(blocks) : b \notin blocks[i]

(* A statement at the head of <k>; the objects that it names were created, *)
(* and the one it creates may be.                                          *)
Ready(s) ==
  /\ s.op \in {"write", "memset", "bitwrite", "read", "realloc", "free"} => s.base < nextBase
  /\ s.op \in {"declare", "malloc", "calloc", "realloc"} => nextBase <= MaxBase
  /\ s.op = "popBlock" => Len(blocks) # 1

zero(b, n) == access("zero", b, 0, n, 0)
init(b) == access("init", b, 0, 1, 1)
Initialising(b) ==
  \/ \E n \in Lens :
       /\ DOMAIN mem[b] = 0 .. n - 1
       /\ \/ k = <<zero(b, n), init(b), plain("sequencePoint")>>
          \/ k = <<zero(b, n), plain("sequencePoint")>>
  \/ k = <<init(b), plain("sequencePoint")>>

KOK ==
  \/ k = <<>>
  \/ \E s \in Statements : k = <<s>> /\ Ready(s)
  \/ \E b \in DOMAIN mem : Initialising(b)
  \/ k # <<>> /\ Head(k).op \in {"HALT", "zeroObject"}

ObjectsInv ==
  /\ MemOK /\ BufferOK /\ BlocksOK /\ MallocedOK
  /\ result \in MemByte /\ errors \subseteq Codes
  /\ KOK

-----------------------------------------------------------------------------
LEMMA StatementType ==
  ASSUME NEW s \in Statements
  PROVE  /\ s.op = "declare" =>
              s.len \in Lens /\ s.zero \in BOOLEAN /\ s.init \in BOOLEAN
         /\ s.op \in {"write", "memset", "bitwrite"} =>
              s.base \in Bases /\ s.off \in Offsets /\ s.wid \in 1 .. 2 /\ s.val \in Bits
         /\ s.op = "read" => s.base \in Bases /\ s.off \in Offsets
         /\ s.op \in {"malloc", "calloc", "realloc"} => s.len \in Lens
         /\ s.op \in {"realloc", "free"} => s.base \in Bases
         /\ s.op \in {"declare", "write", "memset", "bitwrite", "read", "malloc", "calloc",
                      "realloc", "free", "pushBlock", "popBlock", "sequencePoint"}
<1>1. CASE s \in {declare(n, z, i) : n \in Lens, z \in BOOLEAN, i \in BOOLEAN}
  BY <1>1 DEF declare
<1>2. CASE s \in {access(op, b, o, w, v) : op \in {"write", "memset"}, b \in Bases,
             o \in Offsets, w \in 1 .. 2, v \in Bits}
  BY <1>2 DEF access
<1>3. CASE s \in {access("bitwrite", b, o, h, v) : b \in Bases, o \in Offsets,
             h \in 1 .. 2, v \in Bits}
  BY <1>3 DEF access
<1>4. CASE s \in {access("read", b, o, 1, 0) : b \in Bases, o \in Offsets}
  BY <1>4 DEF access
<1>5. CASE s \in {heap(op, 0, n) : op \in {"malloc", "calloc"}, n \in Lens}
  BY <1>5 DEF heap
<1>6. CASE s \in {heap("realloc", b, n) : b \in Bases, n \in Lens}
  BY <1>6 DEF heap
<1>7. CASE s \in {heap("free", b, 0) : b \in Bases}
  BY <1>7 DEF heap
<1>8. CASE s \in {plain(op) : op \in {"pushBlock", "popBlock", "sequencePoint"}}
  BY <1>8 DEF plain
<1> QED
  BY <1>1, <1>2, <1>3, <1>4, <1>5, <1>6, <1>7, <1>8 DEF Statements

(* Where <k> has a statement at its head, it has nothing else.             *)
LEMMA AtStatement ==
  ASSUME KOK, k # <<>>, Head(k).op \notin {"zero", "init", "HALT", "zeroObject"}
  PROVE  Head(k) \in Statements /\ k = <<Head(k)>> /\ Tail(k) = <<>> /\ Ready(Head(k))
<1>1. \A b \in DOMAIN mem : ~Initialising(b)
  <2> SUFFICES ASSUME NEW b \in DOMAIN mem, Initialising(b)
               PROVE  FALSE
    OBVIOUS
  <2>1. zero(b, 1).op = "zero" /\ init(b).op = "init" /\ \A n : zero(b, n).op = "zero"
    BY DEF zero, init, access
  <2> QED
    BY <2>1 DEF Initialising
<1>2. PICK s \in Statements : k = <<s>> /\ Ready(s)
  BY <1>1 DEF KOK
<1>3. Head(k) = s /\ Tail(k) = <<>>
  BY <1>2
<1> QED
  BY <1>2, <1>3

LEMMA WholeByte ==
  ASSUME NEW v \in Bits \cup {trap}
  PROVE  Whole(v) \in MemByte /\ TrapByte \in MemByte
BY DEF Whole, MemByte, TrapByte

LEMMA ObjectDomain ==
  ASSUME NEW m, Object(m)
  PROVE  \E n \in Lens : /\ DOMAIN m = 0 .. n - 1 /\ m = [o \in 0 .. n - 1 |-> m[o]]
                         /\ \A o \in DOMAIN m : m[o] \in MemByte \cup {uninit}
BY DEF Object, ObjectBytes

LEMMA NewObject ==
  ASSUME NEW n \in Lens, NEW byte \in MemByte \cup {uninit}
  PROVE  Object([o \in 0 .. n - 1 |-> byte])
BY DEF Object, ObjectBytes

-----------------------------------------------------------------------------
(* filterBuffer, of each beginning of the buffer.                          *)

Dropped(e, bs) == e.kind = "bwrite" /\ e.base \in bs

Filters(T, buf, bs, n) ==
  \E F \in [0 .. n -> Seq(T)] :
    /\ F[0] = <<>>
    /\ \A i \in 1 .. n :
         F[i] = IF Dropped(buf[i], bs) THEN F[i - 1] ELSE Append(F[i - 1], buf[i])
    /\ filterBuffer(buf, bs) = F[n]

LEMMA FilterPrefixes ==
  ASSUME NEW T, NEW buf \in Seq(T), NEW bs
  PROVE  Filters(T, buf, bs, Len(buf))
<1>1. PICK n \in Nat : n = Len(buf) /\ DOMAIN buf = 1 .. n /\ \A i \in 1 .. n : buf[i] \in T
  OBVIOUS
<1> DEFINE ss == [i \in 1 .. n |-> IF Dropped(buf[i], bs) THEN <<>> ELSE <<buf[i]>>]
<1>2. ss \in [1 .. n -> Seq(T)]
  <2>1. \A i \in 1 .. n : <<buf[i]>> \in Seq(T) /\ <<>> \in Seq(T)
    BY <1>1
  <2> QED
    BY <2>1
<1>3. filterBuffer(buf, bs) = FlattenSeq(ss)
  BY <1>1 DEF filterBuffer, Dropped
<1>4. \A i \in 1 .. n : ss[i] = IF Dropped(buf[i], bs) THEN <<>> ELSE <<buf[i]>>
  OBVIOUS
<1> HIDE DEF ss
<1>5. ss \in Seq(Seq(T)) /\ Len(ss) = n
  BY <1>2, FunctionSeq
<1>6. PICK F \in [0 .. n -> Seq(T)] :
        /\ F[0] = <<>>
        /\ \A i \in 1 .. n : F[i] = F[i - 1] \o ss[i]
        /\ FlattenSeq(ss) = F[n]
  BY <1>5, FlattenPrefixes
<1>7. ASSUME NEW i \in 1 .. n
      PROVE  F[i] = IF Dropped(buf[i], bs) THEN F[i - 1] ELSE Append(F[i - 1], buf[i])
  <2>1. i - 1 \in 0 .. n
    OBVIOUS
  <2>2. PICK g \in Seq(T) : g = F[i - 1]
    BY <1>6, <2>1
  <2>3. F[i] = g \o ss[i]
    BY <1>6, <2>2
  <2>4. CASE Dropped(buf[i], bs)
    <3>1. ss[i] = <<>>
      BY <1>4, <2>4
    <3>2. g \o <<>> = g
      BY EmptyLaws
    <3> QED
      BY <2>2, <2>3, <2>4, <3>1, <3>2
  <2>5. CASE ~Dropped(buf[i], bs)
    <3>1. ss[i] = <<buf[i]>>
      BY <1>4, <2>5
    <3>2. g \o <<buf[i]>> = Append(g, buf[i])
      BY <1>1
    <3> QED
      BY <2>2, <2>3, <2>5, <3>1, <3>2
  <2> QED
    BY <2>4, <2>5
<1>8. Filters(T, buf, bs, n)
  BY <1>3, <1>6, <1>7, Zenon DEF Filters
<1> QED
  BY <1>1, <1>8

(* What is left was in the buffer, and was not dropped.                    *)
LEMMA FilterType ==
  ASSUME NEW T, NEW buf \in Seq(T), NEW bs
  PROVE  /\ filterBuffer(buf, bs) \in Seq(T)
         /\ \A j \in 1 .. Len(filterBuffer(buf, bs)) :
              \E i \in 1 .. Len(buf) :
                filterBuffer(buf, bs)[j] = buf[i] /\ ~Dropped(buf[i], bs)
<1>1. PICK n \in Nat : n = Len(buf) /\ \A i \in 1 .. n : buf[i] \in T
  OBVIOUS
<1>2. PICK F \in [0 .. n -> Seq(T)] :
           /\ F[0] = <<>>
           /\ \A i \in 1 .. n :
                F[i] = IF Dropped(buf[i], bs) THEN F[i - 1] ELSE Append(F[i - 1], buf[i])
           /\ filterBuffer(buf, bs) = F[n]
  <2>1. Filters(T, buf, bs, n)
    BY <1>1, FilterPrefixes
  <2> QED
    BY <2>1, Zenon DEF Filters
<1> DEFINE C == {m \in 0 .. n : \A j \in 1 .. Len(F[m]) :
                   \E i \in 1 .. n : F[m][j] = buf[i] /\ ~Dropped(buf[i], bs)}
<1>3. 0 \in C
  BY <1>1, <1>2
<1>4. ASSUME NEW m \in 0 .. n, m \in C, m < n
      PROVE  m + 1 \in C
  <2>1. m + 1 \in 1 .. n /\ (m + 1) - 1 = m /\ m + 1 \in 0 .. n
    BY <1>4
  <2>2. PICK g \in Seq(T) : g = F[m]
    BY <1>2
  <2>3. F[m + 1] = IF Dropped(buf[m + 1], bs) THEN g ELSE Append(g, buf[m + 1])
    BY <1>2, <2>1, <2>2
  <2>4. \A j \in 1 .. Len(g) : \E i \in 1 .. n : g[j] = buf[i] /\ ~Dropped(buf[i], bs)
    BY <1>4, <2>2
  <2>5. CASE Dropped(buf[m + 1], bs)
    BY <2>1, <2>3, <2>4, <2>5
  <2>6. CASE ~Dropped(buf[m + 1], bs)
    <3>1. PICK h : h = Append(g, buf[m + 1])
      OBVIOUS
    <3>2. Len(h) = Len(g) + 1 /\ h[Len(g) + 1] = buf[m + 1] /\ \A j \in 1 .. Len(g) : h[j] = g[j]
      BY <1>1, <2>1, <3>1
    <3>3. \A j \in 1 .. Len(h) : j \in 1 .. Len(g) \/ j = Len(g) + 1
      BY <3>2
    <3>4. F[m + 1] = h
      BY <2>3, <2>6, <3>1
    <3>5. \A j \in 1 .. Len(h) : \E i \in 1 .. n : h[j] = buf[i] /\ ~Dropped(buf[i], bs)
      BY <2>1, <2>4, <2>6, <3>2, <3>3, SMTT(30)
    <3> QED
      BY <2>1, <3>4, <3>5
  <2> QED
    BY <2>5, <2>6
<1>5. 0 .. n \subseteq C
  <2> HIDE DEF C
  <2> QED
    BY <1>3, <1>4, BoundedInduction
<1>6. n \in C /\ n \in 0 .. n
  BY <1>5
<1> QED
  BY <1>1, <1>2, <1>6

-----------------------------------------------------------------------------
(* Steps that create and end no object.                                    *)

SameShape ==
  /\ DOMAIN mem' = DOMAIN mem /\ nextBase' = nextBase
  /\ \A b \in DOMAIN mem : DOMAIN mem'[b] = DOMAIN mem[b]

LEMMA ShapeKept ==
  ASSUME BlocksOK, MallocedOK, SameShape, UNCHANGED <<blocks, malloced>>
  PROVE  BlocksOK' /\ MallocedOK'
<1>1. BlocksOK'
  BY DEF BlocksOK, SameShape
<1>2. MallocedOK'
  BY DEF MallocedOK, SameShape
<1> QED
  BY <1>1, <1>2

LEMMA BufferKept ==
  ASSUME BufferOK, SameShape, UNCHANGED buffer
  PROVE  BufferOK'
BY DEF BufferOK, SameShape

LEMMA BufferAppended ==
  ASSUME BufferOK, SameShape, NEW e \in Entries, e.base \in DOMAIN mem, e.base < nextBase,
         DOMAIN e.at \subseteq DOMAIN mem[e.base], buffer' = Append(buffer, e)
  PROVE  BufferOK'
<1>1. buffer \in Seq(Entries)
  BY DEF BufferOK
<1>2. /\ buffer' \in Seq(Entries) /\ Len(buffer') = Len(buffer) + 1
      /\ buffer'[Len(buffer) + 1] = e
      /\ \A i \in 1 .. Len(buffer) : buffer'[i] = buffer[i]
  BY <1>1
<1>3. \A i \in 1 .. Len(buffer') : i \in 1 .. Len(buffer) \/ buffer'[i] = e
  BY <1>1, <1>2
<1> QED
  BY <1>2, <1>3 DEF BufferOK, SameShape

LEMMA EntryType ==
  ASSUME NEW kind \in {"bwrite", "bfill"}, NEW b \in DOMAIN mem, MemOK, NEW o \in Nat,
         NEW n \in Nat \ {0}, NEW byte \in MemByte, o + n - 1 \in DOMAIN mem[b],
         NEW e, e = Entry(kind, b, o, n, byte)
  PROVE  /\ e \in Entries /\ e.kind = kind /\ e.base = b
         /\ DOMAIN e.at = o .. o + n - 1 /\ \A x \in o .. o + n - 1 : e.at[x] = byte
         /\ DOMAIN e.at \subseteq DOMAIN mem[b]
         /\ b < nextBase /\ b \in Bases
<1>1. PICK m \in Lens : DOMAIN mem[b] = 0 .. m - 1
  BY ObjectDomain DEF MemOK
<1>2. o + n - 1 \in Offsets /\ o \in Offsets /\ o .. o + n - 1 \subseteq 0 .. m - 1
  BY <1>1, ObjectsAssumption DEF Lens, Offsets
<1>3. [x \in o .. o + n - 1 |-> byte] \in Ats
  <2>1. o .. o + n - 1 \in SUBSET Offsets
    BY <1>1, <1>2, ObjectsAssumption DEF Offsets, Lens
  <2>2. PICK os \in SUBSET Offsets : os = o .. o + n - 1
    BY <2>1
  <2>3. [x \in os |-> byte] \in [os -> MemByte]
    OBVIOUS
  <2>4. PICK f : f = [x \in os |-> byte]
    OBVIOUS
  <2> QED
    BY <2>2, <2>3, <2>4 DEF Ats
<1>4. b \in Nat /\ b < nextBase /\ b \in Bases
  BY ObjectsAssumption DEF MemOK, Bases
<1> QED
  BY <1>1, <1>2, <1>3, <1>4 DEF Entry, Entries

-----------------------------------------------------------------------------
(* The steps, one lemma for each action or group of actions.               *)

LEMMA IssueStep ==
  ASSUME ObjectsInv, NEW s \in Statements, Issue(s)
  PROVE  ObjectsInv'
<1>1. SameShape
  BY DEF Issue, SameShape
<1>2. BlocksOK' /\ MallocedOK' /\ BufferOK'
  BY <1>1, ShapeKept, BufferKept DEF Issue, ObjectsInv
<1>3. MemOK' /\ (result \in MemByte)' /\ (errors \subseteq Codes)'
  BY DEF Issue, ObjectsInv, MemOK
<1>4. k' = <<s>> /\ Ready(s)'
  <2>1. Len(blocks) > 1 => Len(blocks) # 1
    BY SMTT(30) DEF ObjectsInv, BlocksOK
  <2> QED
    BY <2>1 DEF Issue, Ready
<1>5. KOK'
  BY <1>4 DEF KOK
<1> QED
  BY <1>2, <1>3, <1>5 DEF ObjectsInv

(* A step that only reports an error, or changes <locs-written>.           *)
LEMMA UndefStep ==
  ASSUME ObjectsInv, k # <<>>, Head(k).op \notin {"zero", "init", "HALT", "zeroObject"},
         NEW code \in Codes, UndefSteps(code), SameShape, MemOK',
         UNCHANGED <<buffer, blocks, malloced, result>>
  PROVE  ObjectsInv'
<1>1. BlocksOK' /\ MallocedOK' /\ BufferOK'
  BY ShapeKept, BufferKept DEF ObjectsInv
<1>2. (result \in MemByte)' /\ (errors \subseteq Codes)'
  BY DEF UndefSteps, ObjectsInv
<1>3. k = <<Head(k)>>
  BY AtStatement DEF ObjectsInv
<1>4. HALT.op = "HALT"
  BY DEF HALT, plain
<1>5. KOK'
  <2>1. PICK s, t : k = <<s>> /\ t = HALT
    BY <1>3
  <2>2. k' = <<t>> \o <<s>>
    BY <2>1 DEF UndefSteps
  <2>3. k' # <<>> /\ Head(k') = t
    BY <2>2
  <2> QED
    BY <1>4, <2>1, <2>3 DEF KOK
<1> QED
  BY <1>1, <1>2, <1>5 DEF ObjectsInv

LEMMA DeadUseStep ==
  ASSUME ObjectsInv, DeadUse
  PROVE  ObjectsInv'
<1>1. SameShape /\ MemOK'
  BY DEF DeadUse, SameShape, ObjectsInv, MemOK
<1>2. "CEE4" \in Codes
  BY DEF Codes
<1> QED
  BY <1>1, <1>2, UndefStep DEF DeadUse

LEMMA NotMallocedStep ==
  ASSUME ObjectsInv, NotMalloced
  PROVE  ObjectsInv'
<1>1. SameShape /\ MemOK'
  BY DEF NotMalloced, SameShape, ObjectsInv, MemOK
<1>2. "STDLIB1" \in Codes /\ "STDLIB2" \in Codes
  BY DEF Codes
<1>3. PICK code \in Codes : UndefSteps(code)
  BY <1>2 DEF NotMalloced
<1> QED
  BY <1>1, <1>3, UndefStep DEF NotMalloced, AtHead

(* A statement that ends.                                                  *)
LEMMA StatementEnds ==
  ASSUME KOK, k # <<>>, Head(k).op \notin {"zero", "init", "HALT", "zeroObject"}, k' = Tail(k)
  PROVE  KOK'
BY AtStatement DEF KOK

LEMMA PushBlockStep ==
  ASSUME ObjectsInv, PushBlock
  PROVE  ObjectsInv'
<1>1. KOK'
  BY StatementEnds DEF ObjectsInv, PushBlock, AtHead
<1>2. SameShape
  BY DEF PushBlock, SameShape
<1>3. BufferOK' /\ MemOK' /\ (result \in MemByte)' /\ (errors \subseteq Codes)'
  BY <1>2, BufferKept DEF PushBlock, ObjectsInv, MemOK
<1>4. /\ blocks' \in Seq(SUBSET DOMAIN mem) /\ Len(blocks') = Len(blocks) + 1
      /\ blocks'[1] = {} /\ \A i \in 2 .. Len(blocks') : blocks'[i] = blocks[i - 1]
  <2>1. blocks \in Seq(SUBSET DOMAIN mem) /\ <<{}>> \in Seq(SUBSET DOMAIN mem)
    BY DEF ObjectsInv, BlocksOK
  <2> QED
    BY <2>1 DEF PushBlock
<1>5. Len(blocks) \in Nat
  BY DEF ObjectsInv, BlocksOK
<1>6. \A i \in 1 .. Len(blocks') :
        blocks'[i] = {} \/ (i - 1 \in 1 .. Len(blocks) /\ blocks'[i] = blocks[i - 1])
  BY <1>4, <1>5
<1>7. BlocksOK'
  <2>1. \A i, j \in 1 .. Len(blocks) : i # j => blocks[i] \cap blocks[j] = {}
    BY DEF ObjectsInv, BlocksOK
  <2>2. ASSUME NEW i \in 1 .. Len(blocks'), NEW j \in 1 .. Len(blocks'), i # j
        PROVE  blocks'[i] \cap blocks'[j] = {}
    <3>1. i - 1 # j - 1
      BY <1>4, <1>5, <2>2
    <3> QED
      BY <1>6, <2>1, <3>1
  <2>3. mem' = mem /\ Len(blocks') # 0
    BY <1>4, <1>5 DEF PushBlock
  <2> QED
    BY <1>4, <2>2, <2>3 DEF BlocksOK
<1>8. MallocedOK'
  BY <1>6 DEF MallocedOK, PushBlock, ObjectsInv
<1> QED
  BY <1>1, <1>3, <1>7, <1>8 DEF ObjectsInv

LEMMA SequencePointStep ==
  ASSUME ObjectsInv, SequencePoint
  PROVE  ObjectsInv'
<1>1. KOK'
  BY StatementEnds DEF ObjectsInv, SequencePoint, AtHead
<1>2. SameShape
  BY DEF SequencePoint, SameShape
<1>3. BlocksOK' /\ MallocedOK' /\ BufferOK'
  BY <1>2, ShapeKept, BufferKept DEF SequencePoint, ObjectsInv
<1> QED
  BY <1>1, <1>3 DEF SequencePoint, ObjectsInv, MemOK

LEMMA ReadStep ==
  ASSUME ObjectsInv, Read
  PROVE  ObjectsInv'
<1>1. KOK'
  BY StatementEnds DEF ObjectsInv, Read, AtHead
<1>2. SameShape
  BY DEF Read, SameShape
<1>3. BlocksOK' /\ MallocedOK' /\ BufferOK'
  BY <1>2, ShapeKept, BufferKept DEF Read, ObjectsInv
<1>4. result' \in MemByte
  <2>1. Head(k).base \in DOMAIN mem
    BY DEF Read, Live
  <2>2. \A o \in DOMAIN mem[Head(k).base] : mem[Head(k).base][o] \in MemByte \cup {uninit}
    BY <2>1, ObjectDomain DEF ObjectsInv, MemOK
  <2>3. TrapByte \in MemByte
    BY WholeByte
  <2> QED
    BY <2>2, <2>3 DEF Read
<1>5. errors' \subseteq Codes
  BY DEF Read, ObjectsInv, Codes
<1> QED
  BY <1>1, <1>3, <1>4, <1>5 DEF Read, ObjectsInv, MemOK

(* The three computations that DeclareLocal starts.                        *)
LEMMA InitialisingFacts ==
  ASSUME NEW b, NEW n
  PROVE  /\ zero(b, n).op = "zero" /\ zero(b, n).base = b /\ zero(b, n).wid = n
         /\ init(b).op = "init" /\ init(b).base = b /\ init(b).val = 1
         /\ plain("sequencePoint").op = "sequencePoint" /\ plain("sequencePoint") \in Statements
BY DEF zero, init, access, plain, Statements

LEMMA AtZero ==
  ASSUME KOK, AtHead("zero")
  PROVE  \E b \in DOMAIN mem, n \in Lens :
           /\ DOMAIN mem[b] = 0 .. n - 1 /\ Head(k) = zero(b, n)
           /\ Tail(k) = <<init(b), plain("sequencePoint")>> \/ Tail(k) = <<plain("sequencePoint")>>
<1>1. \A s \in Statements : k # <<s>>
  BY StatementType DEF AtHead
<1>2. PICK b \in DOMAIN mem : Initialising(b)
  BY <1>1 DEF KOK, AtHead
<1>3. k # <<init(b), plain("sequencePoint")>>
  BY InitialisingFacts DEF AtHead
<1>4. PICK n \in Lens :
        /\ DOMAIN mem[b] = 0 .. n - 1
        /\ \/ k = <<zero(b, n), init(b), plain("sequencePoint")>>
           \/ k = <<zero(b, n), plain("sequencePoint")>>
  BY <1>2, <1>3 DEF Initialising
<1>5. PICK x, y, z : x = zero(b, n) /\ y = init(b) /\ z = plain("sequencePoint")
  OBVIOUS
<1>6. k = <<x, y, z>> \/ k = <<x, z>>
  BY <1>4, <1>5
<1>7. Head(k) = x /\ (Tail(k) = <<y, z>> \/ Tail(k) = <<z>>)
  <2>1. CASE k = <<x, y, z>>
    <3>1. Tail(<<x, y, z>>) = <<y, z>>
      OBVIOUS
    <3> QED
      BY <2>1, <3>1
  <2>2. CASE k = <<x, z>>
    <3>1. Tail(<<x, z>>) = <<z>>
      OBVIOUS
    <3> QED
      BY <2>2, <3>1
  <2> QED
    BY <1>6, <2>1, <2>2
<1> QED
  BY <1>4, <1>5, <1>7

LEMMA AtInit ==
  ASSUME KOK, AtHead("init")
  PROVE  \E b \in DOMAIN mem : Head(k) = init(b) /\ Tail(k) = <<plain("sequencePoint")>>
<1>1. \A s \in Statements : k # <<s>>
  BY StatementType DEF AtHead
<1>2. PICK b \in DOMAIN mem : Initialising(b)
  BY <1>1 DEF KOK, AtHead
<1>3. \A n : /\ k # <<zero(b, n), init(b), plain("sequencePoint")>>
             /\ k # <<zero(b, n), plain("sequencePoint")>>
  BY InitialisingFacts DEF AtHead
<1>4. k = <<init(b), plain("sequencePoint")>>
  BY <1>2, <1>3 DEF Initialising
<1>5. \A x, y : Head(<<x, y>>) = x /\ Tail(<<x, y>>) = <<y>>
  OBVIOUS
<1> QED
  BY <1>4, <1>5

LEMMA SequencePointLeft ==
  ASSUME k' = <<plain("sequencePoint")>>
  PROVE  KOK'
<1>1. Ready(plain("sequencePoint"))'
  BY InitialisingFacts DEF Ready
<1> QED
  BY <1>1, InitialisingFacts DEF KOK

LEMMA ZeroStep ==
  ASSUME ObjectsInv, Zero
  PROVE  ObjectsInv'
<1>1. PICK b \in DOMAIN mem, n \in Lens :
        /\ DOMAIN mem[b] = 0 .. n - 1 /\ Head(k) = zero(b, n)
        /\ Tail(k) = <<init(b), plain("sequencePoint")>> \/ Tail(k) = <<plain("sequencePoint")>>
  BY AtZero DEF ObjectsInv, Zero
<1>2. SameShape
  BY DEF Zero, SameShape
<1>3. PICK e : e = bfill(b, 0, n, Whole(0))
  OBVIOUS
<1>4. buffer' = Append(buffer, e)
  BY <1>1, <1>3, InitialisingFacts DEF Zero
<1>5. Whole(0) \in MemByte
  BY WholeByte, ObjectsAssumption
<1>6. /\ e \in Entries /\ e.base = b /\ DOMAIN e.at = 0 .. n - 1 /\ b < nextBase
  <2>1. 0 + n - 1 = n - 1 /\ n - 1 \in DOMAIN mem[b] /\ n \in Nat \ {0} /\ 0 \in Nat
    BY <1>1 DEF Lens
  <2> QED
    BY <1>3, <1>5, <2>1, EntryType DEF bfill, ObjectsInv
<1>7. BufferOK'
  BY <1>1, <1>2, <1>4, <1>6, BufferAppended DEF ObjectsInv
<1>8. BlocksOK' /\ MallocedOK'
  BY <1>2, ShapeKept DEF Zero, ObjectsInv
<1>9. KOK'
  <2>1. CASE Tail(k) = <<init(b), plain("sequencePoint")>>
    BY <2>1 DEF KOK, Zero, Initialising
  <2>2. CASE Tail(k) = <<plain("sequencePoint")>>
    BY <2>2, SequencePointLeft DEF Zero
  <2> QED
    BY <1>1, <2>1, <2>2
<1> QED
  BY <1>7, <1>8, <1>9 DEF Zero, ObjectsInv, MemOK

LEMMA InitializerStep ==
  ASSUME ObjectsInv, Initializer
  PROVE  ObjectsInv'
<1>1. PICK b \in DOMAIN mem : Head(k) = init(b) /\ Tail(k) = <<plain("sequencePoint")>>
  BY AtInit DEF ObjectsInv, Initializer
<1>2. SameShape
  BY DEF Initializer, SameShape
<1>3. PICK e : e = bwrite(b, 0, 1, Whole(1))
  OBVIOUS
<1>4. buffer' = Append(buffer, e)
  BY <1>1, <1>3, InitialisingFacts DEF Initializer
<1>5. Whole(1) \in MemByte
  BY WholeByte, ObjectsAssumption
<1>6. /\ e \in Entries /\ e.base = b /\ DOMAIN e.at \subseteq DOMAIN mem[b] /\ b < nextBase
  <2>1. 0 + 1 - 1 = 0 /\ 1 \in Nat \ {0} /\ 0 \in Nat
    OBVIOUS
  <2>2. 0 \in DOMAIN mem[b]
    BY ObjectDomain DEF ObjectsInv, MemOK, Lens
  <2> QED
    BY <1>3, <1>5, <2>1, <2>2, EntryType DEF bwrite, ObjectsInv
<1>7. BufferOK'
  BY <1>1, <1>2, <1>4, <1>6, BufferAppended DEF ObjectsInv
<1>8. BlocksOK' /\ MallocedOK'
  BY <1>2, ShapeKept DEF Initializer, ObjectsInv
<1>9. KOK'
  BY <1>1, SequencePointLeft DEF Initializer
<1> QED
  BY <1>7, <1>8, <1>9 DEF Initializer, ObjectsInv, MemOK

(* A write that a statement makes, with its checks.                        *)
LEMMA BufferedWriteStep ==
  ASSUME ObjectsInv, SameShape, MemOK', k # <<>>,
         Head(k).op \notin {"zero", "init", "HALT", "zeroObject"},
         NEW kind \in {"bwrite", "bfill"}, NEW b \in DOMAIN mem, NEW o \in Nat,
         NEW n \in Nat \ {0}, NEW byte \in MemByte,
         BufferedWrite(b, o, n, Entry(kind, b, o, n, byte)),
         UNCHANGED <<blocks, malloced, result>>
  PROVE  ObjectsInv'
<1>1. CASE UndefSteps("EIO8") /\ UNCHANGED buffer
  BY <1>1, UndefStep DEF Codes
<1>2. CASE UndefSteps("EIO2") /\ UNCHANGED buffer
  BY <1>2, UndefStep DEF Codes
<1>3. CASE /\ o + n - 1 \in DOMAIN mem[b] /\ buffer' = Append(buffer, Entry(kind, b, o, n, byte))
           /\ k' = Tail(k) /\ UNCHANGED errors
  <2>1. PICK e : e = Entry(kind, b, o, n, byte)
    OBVIOUS
  <2>2. e \in Entries /\ e.base = b /\ DOMAIN e.at \subseteq DOMAIN mem[b] /\ b < nextBase
    BY <1>3, <2>1, EntryType DEF ObjectsInv
  <2>3. BufferOK'
    BY <1>3, <2>1, <2>2, BufferAppended DEF ObjectsInv
  <2>4. BlocksOK' /\ MallocedOK'
    BY ShapeKept DEF ObjectsInv
  <2>5. KOK'
    BY <1>3, StatementEnds DEF ObjectsInv
  <2> QED
    BY <1>3, <2>3, <2>4, <2>5 DEF ObjectsInv
<1> QED
  BY <1>1, <1>2, <1>3 DEF BufferedWrite, InBounds

LEMMA AccessFacts ==
  ASSUME ObjectsInv, k # <<>>, Head(k).op \in {"write", "memset", "bitwrite"}
  PROVE  /\ Head(k).off \in Nat /\ Head(k).wid \in 1 .. 2 /\ Head(k).wid \in Nat \ {0}
         /\ Head(k).base \in Bases /\ Head(k).off \in Offsets
         /\ Head(k).val \in Bits /\ Whole(Head(k).val) \in MemByte
<1>1. Head(k) \in Statements
  BY AtStatement DEF ObjectsInv
<1>2. /\ Head(k).off \in Offsets /\ Head(k).wid \in 1 .. 2 /\ Head(k).val \in Bits
      /\ Head(k).base \in Bases
  BY <1>1, StatementType
<1> QED
  BY <1>2, WholeByte, ObjectsAssumption DEF Offsets

LEMMA WriteStep ==
  ASSUME ObjectsInv, Write
  PROVE  ObjectsInv'
<1>1. SameShape /\ MemOK'
  BY DEF Write, SameShape, ObjectsInv, MemOK
<1> QED
  BY <1>1, AccessFacts, BufferedWriteStep DEF Write, AtHead, Live, bwrite

LEMMA MemsetStep ==
  ASSUME ObjectsInv, Memset
  PROVE  ObjectsInv'
<1>1. SameShape /\ MemOK'
  BY DEF Memset, SameShape, ObjectsInv, MemOK
<1> QED
  BY <1>1, AccessFacts, BufferedWriteStep DEF Memset, AtHead, Live, bfill

(* One object gets other contents.                                         *)
LEMMA ContentsChanged ==
  ASSUME MemOK, NEW b \in DOMAIN mem, NEW m, Object(m), DOMAIN m = DOMAIN mem[b],
         mem' = [mem EXCEPT ![b] = m], UNCHANGED nextBase
  PROVE  MemOK' /\ SameShape
BY DEF MemOK, SameShape

LEMMA BitWriteStep ==
  ASSUME ObjectsInv, BitWrite
  PROVE  ObjectsInv'
<1> DEFINE s == Head(k)
           old == IF mem[s.base][s.off] = uninit THEN TrapByte ELSE mem[s.base][s.off]
<1>1. s.base \in DOMAIN mem /\ s.off \in DOMAIN mem[s.base]
  BY DEF BitWrite, Live
<1>2. old \in MemByte
  BY <1>1, WholeByte, ObjectDomain DEF ObjectsInv, MemOK
<1>3. [old EXCEPT ![s.wid] = s.val] \in MemByte
  BY <1>2, AccessFacts DEF MemByte, BitWrite, AtHead
<1>4. PICK m : m = [mem[s.base] EXCEPT ![s.off] = old]
  OBVIOUS
<1>5. Object(m) /\ DOMAIN m = DOMAIN mem[s.base]
  <2>1. PICK n \in Lens : mem[s.base] \in ObjectBytes(n)
    BY <1>1 DEF ObjectsInv, MemOK, Object
  <2>2. m \in ObjectBytes(n) /\ DOMAIN m = DOMAIN mem[s.base]
    BY <1>2, <1>4, <2>1 DEF ObjectBytes
  <2> QED
    BY <2>2 DEF Object
<1>6. mem' = [mem EXCEPT ![s.base] = m]
  BY <1>4 DEF BitWrite
<1>7. MemOK' /\ SameShape
  BY <1>1, <1>5, <1>6, ContentsChanged DEF BitWrite, ObjectsInv
<1>8. PICK byte \in MemByte : byte = [old EXCEPT ![s.wid] = s.val]
  BY <1>3
<1>9. BufferedWrite(s.base, s.off, 1, Entry("bwrite", s.base, s.off, 1, byte))
  BY <1>8 DEF BitWrite, bwrite
<1>10. /\ s.off \in Nat /\ k # <<>> /\ s.op \notin {"zero", "init", "HALT", "zeroObject"}
       /\ UNCHANGED <<blocks, malloced, result>>
  BY AccessFacts DEF BitWrite, AtHead
<1> HIDE DEF old
<1> QED
  BY <1>1, <1>7, <1>9, <1>10, BufferedWriteStep

(* The object of a flushed write.                                          *)
Overwritten(m, e) == [o \in DOMAIN m |-> IF o \in DOMAIN e.at THEN e.at[o] ELSE m[o]]

LEMMA OverwrittenObject ==
  ASSUME NEW m, Object(m), NEW e \in Entries
  PROVE  Object(Overwritten(m, e)) /\ DOMAIN Overwritten(m, e) = DOMAIN m
<1>1. PICK n \in Lens : m \in [0 .. n - 1 -> MemByte \cup {uninit}]
  BY DEF Object, ObjectBytes
<1>2. \A o \in DOMAIN e.at : e.at[o] \in MemByte
  BY DEF Entries, Ats
<1>3. Overwritten(m, e) \in [0 .. n - 1 -> MemByte \cup {uninit}]
  BY <1>1, <1>2 DEF Overwritten
<1> QED
  BY <1>1, <1>3 DEF Object, ObjectBytes, Overwritten

LEMMA FlushStep ==
  ASSUME ObjectsInv, Flush
  PROVE  ObjectsInv'
<1>1. buffer \in Seq(Entries) /\ buffer # <<>>
  BY DEF ObjectsInv, BufferOK, Flush
<1>2. PICK e \in Entries : e = Head(buffer)
  BY <1>1
<1>3. /\ buffer' \in Seq(Entries) /\ Len(buffer') = Len(buffer) - 1 /\ Len(buffer) \in Nat
      /\ \A i \in 1 .. Len(buffer') : i + 1 \in 1 .. Len(buffer) /\ buffer'[i] = buffer[i + 1]
  BY <1>1 DEF Flush
<1>4. e.base \in DOMAIN mem
  BY <1>2 DEF Flush, Live
<1>5. PICK m : m = Overwritten(mem[e.base], e)
  OBVIOUS
<1>6. Object(m) /\ DOMAIN m = DOMAIN mem[e.base]
  BY <1>4, <1>5, OverwrittenObject DEF ObjectsInv, MemOK
<1>7. mem' = [mem EXCEPT ![e.base] = m]
  BY <1>2, <1>5 DEF Flush, bufferWrite, Overwritten
<1>8. MemOK' /\ SameShape
  BY <1>4, <1>6, <1>7, ContentsChanged DEF Flush, ObjectsInv
<1>9. BlocksOK' /\ MallocedOK'
  BY <1>8, ShapeKept DEF Flush, ObjectsInv
<1>10. BufferOK'
  BY <1>3, <1>8 DEF BufferOK, ObjectsInv, SameShape
<1>11. KOK'
  <2>1. \A s \in Statements : Ready(s) => Ready(s)'
    BY DEF Ready, Flush
  <2>2. \A b \in DOMAIN mem : Initialising(b) => Initialising(b)'
    BY <1>8 DEF Initialising, Flush, SameShape
  <2> QED
    BY <1>8, <2>1, <2>2 DEF KOK, ObjectsInv, Flush, SameShape
<1> QED
  BY <1>8, <1>9, <1>10, <1>11 DEF Flush, ObjectsInv

-----------------------------------------------------------------------------
(* Steps that create or end objects.                                       *)

LEMMA ObjectCreated ==
  ASSUME MemOK, BufferOK, NEW m, Object(m), nextBase <= MaxBase, nextBase' = nextBase + 1,
         mem' = [x \in DOMAIN mem \cup {nextBase} |-> IF x = nextBase THEN m ELSE mem[x]],
         UNCHANGED buffer
  PROVE  /\ MemOK' /\ BufferOK' /\ nextBase \notin DOMAIN mem
         /\ DOMAIN mem' = DOMAIN mem \cup {nextBase} /\ mem'[nextBase] = m
         /\ \A x \in DOMAIN mem : mem'[x] = mem[x]
<1>1. nextBase \notin DOMAIN mem /\ nextBase \in Nat
  BY DEF MemOK
<1>2. /\ DOMAIN mem' = DOMAIN mem \cup {nextBase} /\ mem'[nextBase] = m
      /\ \A x \in DOMAIN mem : mem'[x] = mem[x]
  BY <1>1
<1>3. MemOK'
  <2>1. nextBase' \in 1 .. MaxBase + 1
    BY <1>1, ObjectsAssumption DEF MemOK
  <2>2. DOMAIN mem' \subseteq 1 .. nextBase' - 1
    BY <1>1, <1>2 DEF MemOK
  <2>3. \A b \in DOMAIN mem' : Object(mem'[b])
    BY <1>2 DEF MemOK
  <2>4. mem' = [b \in DOMAIN mem' |-> mem'[b]]
    OBVIOUS
  <2> QED
    BY <2>1, <2>2, <2>3, <2>4 DEF MemOK
<1>4. BufferOK'
  <2>1. \A i \in 1 .. Len(buffer) : buffer[i].base \in Nat
    <3>1. \A i \in 1 .. Len(buffer) : buffer[i] \in Entries
      BY DEF BufferOK
    <3> QED
      BY <3>1 DEF Entries
  <2>2. \A i \in 1 .. Len(buffer) : buffer[i].base # nextBase /\ buffer[i].base < nextBase + 1
    BY <1>1, <2>1 DEF BufferOK
  <2> QED
    BY <1>1, <1>2, <2>2 DEF BufferOK
<1> QED
  BY <1>1, <1>2, <1>3, <1>4

(* The objects bs end, and the others keep their contents; new objects     *)
(* may be there.                                                           *)
LEMMA BufferFiltered ==
  ASSUME BufferOK, NEW bs, buffer' = filterBuffer(buffer, bs),
         nextBase \in Nat, nextBase' \in Nat, nextBase <= nextBase',
         \A x \in DOMAIN mem : x \notin bs => x \in DOMAIN mem' /\ mem'[x] = mem[x],
         \A x \in DOMAIN mem' : x \in Nat => x \in DOMAIN mem \/ nextBase <= x
  PROVE  /\ buffer' \in Seq(Entries)
         /\ \A i \in 1 .. Len(buffer') :
              /\ buffer'[i].base < nextBase'
              /\ buffer'[i].kind = "bwrite" => buffer'[i].base \in DOMAIN mem'
              /\ buffer'[i].base \in DOMAIN mem' =>
                   \/ buffer'[i].base \in bs
                   \/ DOMAIN buffer'[i].at \subseteq DOMAIN mem'[buffer'[i].base]
<1>1. buffer \in Seq(Entries)
  BY DEF BufferOK
<1>2. buffer' \in Seq(Entries)
  BY <1>1, FilterType
<1>3. ASSUME NEW j \in 1 .. Len(buffer')
      PROVE  /\ buffer'[j].base < nextBase'
             /\ buffer'[j].kind = "bwrite" => buffer'[j].base \in DOMAIN mem'
             /\ buffer'[j].base \in DOMAIN mem' =>
                   \/ buffer'[j].base \in bs
                   \/ DOMAIN buffer'[j].at \subseteq DOMAIN mem'[buffer'[j].base]
  <2>1. PICK i \in 1 .. Len(buffer) : buffer'[j] = buffer[i] /\ ~Dropped(buffer[i], bs)
    BY <1>1, FilterType
  <2>2. PICK e \in Entries : e = buffer[i]
    BY <1>1
  <2>3. e.base \in Nat
    BY DEF Entries
  <2>4. /\ e.base < nextBase
        /\ e.kind = "bwrite" => e.base \in DOMAIN mem
        /\ e.base \in DOMAIN mem => DOMAIN e.at \subseteq DOMAIN mem[e.base]
    BY <2>2 DEF BufferOK
  <2>5. e.base < nextBase'
    BY <2>3, <2>4
  <2>6. e.kind = "bwrite" => e.base \in DOMAIN mem'
    BY <2>1, <2>2, <2>4 DEF Dropped
  <2>7. e.base \in DOMAIN mem' /\ e.base \notin bs => DOMAIN e.at \subseteq DOMAIN mem'[e.base]
    BY <2>3, <2>4
  <2> QED
    BY <2>1, <2>2, <2>5, <2>6, <2>7
<1> QED
  BY <1>2, <1>3

(* What DeclareLocal leaves in <k>.                                        *)
LEMMA DeclaredComputation ==
  ASSUME MemOK, NEW b, NEW n, NEW s, Tail(k) = <<>>,
         s.zero \in BOOLEAN, s.init \in BOOLEAN,
         k' = (IF s.zero THEN <<zero(b, n)>> ELSE <<>>)
              \o (IF s.init THEN <<init(b)>> ELSE <<>>)
              \o <<plain("sequencePoint")>> \o Tail(k)
  PROVE  \/ k' = <<zero(b, n), init(b), plain("sequencePoint")>>
         \/ k' = <<zero(b, n), plain("sequencePoint")>>
         \/ k' = <<init(b), plain("sequencePoint")>>
         \/ k' = <<plain("sequencePoint")>>
<1>1. PICK x, y, z : x = zero(b, n) /\ y = init(b) /\ z = plain("sequencePoint")
  OBVIOUS
<1>2. k' = (IF s.zero THEN <<x>> ELSE <<>>) \o (IF s.init THEN <<y>> ELSE <<>>)
           \o <<z>> \o <<>>
  BY <1>1
<1>3. PICK S : x \in S /\ y \in S /\ z \in S
  <2>1. x \in {x, y, z} /\ y \in {x, y, z} /\ z \in {x, y, z}
    OBVIOUS
  <2> QED
    BY <2>1
<1>4. /\ <<x>> \o <<y>> = <<x, y>> /\ <<x, y>> \o <<z>> = <<x, y, z>>
      /\ <<x>> \o <<z>> = <<x, z>> /\ <<y>> \o <<z>> = <<y, z>>
  BY <1>3, ShortConcats
<1>5. /\ <<x>> \o <<>> = <<x>> /\ <<>> \o <<y>> = <<y>> /\ <<>> \o <<>> = <<>>
      /\ <<>> \o <<z>> = <<z>> /\ <<z>> \o <<>> = <<z>> /\ <<x, z>> \o <<>> = <<x, z>>
      /\ <<y, z>> \o <<>> = <<y, z>> /\ <<x, y, z>> \o <<>> = <<x, y, z>>
  BY <1>3, ShortSeqs, EmptyLaws
<1>6. \/ k' = <<x, y, z>> \/ k' = <<x, z>> \/ k' = <<y, z>> \/ k' = <<z>>
  <2>1. CASE s.zero /\ s.init
    BY <1>2, <1>4, <1>5, <2>1, Zenon
  <2>2. CASE s.zero /\ ~s.init
    BY <1>2, <1>4, <1>5, <2>2, Zenon
  <2>3. CASE ~s.zero /\ s.init
    BY <1>2, <1>4, <1>5, <2>3, Zenon
  <2>4. CASE ~s.zero /\ ~s.init
    BY <1>2, <1>4, <1>5, <2>4, Zenon
  <2> QED
    BY <2>1, <2>2, <2>3, <2>4
<1> QED
  BY <1>1, <1>6

LEMMA DeclareLocalStep ==
  ASSUME ObjectsInv, DeclareLocal
  PROVE  ObjectsInv'
<1>1. Head(k) \in Statements /\ Tail(k) = <<>> /\ Ready(Head(k)) /\ Head(k).op = "declare"
  BY AtStatement DEF ObjectsInv, DeclareLocal, AtHead
<1>2. PICK n \in Lens : n = Head(k).len /\ nextBase <= MaxBase
  BY <1>1, StatementType DEF Ready
<1>3. PICK m : m = [o \in 0 .. n - 1 |-> uninit]
  OBVIOUS
<1>4. Object(m)
  BY <1>3, NewObject
<1>5. mem' = [x \in DOMAIN mem \cup {nextBase} |-> IF x = nextBase THEN m ELSE mem[x]]
  BY <1>2, <1>3 DEF DeclareLocal, alloc
<1>6. /\ MemOK' /\ BufferOK' /\ nextBase \notin DOMAIN mem
      /\ DOMAIN mem' = DOMAIN mem \cup {nextBase} /\ mem'[nextBase] = m
      /\ \A x \in DOMAIN mem : mem'[x] = mem[x]
  BY <1>2, <1>4, <1>5, ObjectCreated DEF ObjectsInv, DeclareLocal
<1>7. blocks \in Seq(SUBSET DOMAIN mem) /\ Len(blocks) # 0
  BY DEF ObjectsInv, BlocksOK
<1>8. /\ blocks' \in Seq(SUBSET DOMAIN mem') /\ Len(blocks') = Len(blocks)
      /\ blocks'[1] = blocks[1] \cup {nextBase}
      /\ \A i \in 2 .. Len(blocks) : blocks'[i] = blocks[i]
  <2>1. PICK T : T = SUBSET DOMAIN mem'
    OBVIOUS
  <2>2. blocks \in Seq(T) /\ Head(blocks) \cup {nextBase} \in T
    BY <1>6, <1>7, <2>1
  <2>3. PICK h \in T : h = Head(blocks) \cup {nextBase}
    BY <2>2
  <2>4. blocks' = <<h>> \o Tail(blocks)
    BY <2>3 DEF DeclareLocal
  <2>5. /\ blocks' \in Seq(T) /\ Len(blocks') = Len(blocks) /\ blocks'[1] = h
        /\ \A i \in 2 .. Len(blocks) : blocks'[i] = blocks[i]
    BY <1>7, <2>2, <2>4
  <2>6. Head(blocks) = blocks[1]
    BY <1>7
  <2> QED
    BY <2>1, <2>3, <2>5, <2>6
<1>9. \A i \in 1 .. Len(blocks) :
        \/ i # 1 /\ blocks'[i] = blocks[i]
        \/ i = 1 /\ blocks'[i] = blocks[i] \cup {nextBase}
  BY <1>7, <1>8
<1>10. \A i \in 1 .. Len(blocks) : nextBase \notin blocks[i]
  BY <1>6, <1>7
<1>11. BlocksOK'
  <2>1. \A i, j \in 1 .. Len(blocks) : i # j => blocks'[i] \cap blocks'[j] = {}
    BY <1>9, <1>10 DEF ObjectsInv, BlocksOK
  <2> QED
    BY <1>7, <1>8, <2>1 DEF BlocksOK
<1>12. MallocedOK'
  BY <1>6, <1>8, <1>9 DEF ObjectsInv, MallocedOK, DeclareLocal
<1>13. KOK'
  <2>1. Head(k).zero \in BOOLEAN /\ Head(k).init \in BOOLEAN
    BY <1>1, StatementType
  <2>2. \/ k' = <<zero(nextBase, n), init(nextBase), plain("sequencePoint")>>
        \/ k' = <<zero(nextBase, n), plain("sequencePoint")>>
        \/ k' = <<init(nextBase), plain("sequencePoint")>>
        \/ k' = <<plain("sequencePoint")>>
    BY <1>1, <1>2, <2>1, DeclaredComputation DEF DeclareLocal, zero, init, ObjectsInv
  <2>3. CASE k' = <<plain("sequencePoint")>>
    BY <2>3, SequencePointLeft
  <2>4. CASE k' # <<plain("sequencePoint")>>
    <3>1. PICK b \in DOMAIN mem' : b = nextBase
      BY <1>6
    <3>2. DOMAIN mem'[b] = 0 .. n - 1
      BY <1>3, <1>6, <3>1
    <3>3. Initialising(b)'
      BY <2>2, <2>4, <3>1, <3>2 DEF Initialising
    <3> QED
      BY <3>3 DEF KOK
  <2> QED
    BY <2>3, <2>4
<1> QED
  BY <1>6, <1>11, <1>12, <1>13 DEF ObjectsInv, DeclareLocal

LEMMA PopBlockStep ==
  ASSUME ObjectsInv, PopBlock
  PROVE  ObjectsInv'
<1>1. Head(k).op = "popBlock" /\ Ready(Head(k))
  BY AtStatement DEF ObjectsInv, PopBlock, AtHead
<1>2. PICK n \in Nat : n = Len(blocks) /\ n # 0 /\ n # 1 /\ blocks \in Seq(SUBSET DOMAIN mem)
  <2>1. Len(blocks) # 1 /\ Len(blocks) # 0 /\ blocks \in Seq(SUBSET DOMAIN mem)
    BY <1>1 DEF ObjectsInv, BlocksOK, Ready
  <2>2. Len(blocks) \in Nat
    BY <2>1
  <2> QED
    BY <2>1, <2>2
<1>3. PICK bs : bs = blocks[1] /\ bs = Head(blocks)
  BY <1>2
<1>4. mem' = [x \in DOMAIN mem \ bs |-> mem[x]]
  BY <1>3 DEF PopBlock, Restrict
<1>5. MemOK'
  BY <1>4 DEF PopBlock, ObjectsInv, MemOK
<1>6. BufferOK'
  <2>1. nextBase \in Nat /\ nextBase' = nextBase
    BY DEF ObjectsInv, MemOK, PopBlock
  <2>2. DOMAIN mem' = DOMAIN mem \ bs
    BY <1>4
  <2>3. buffer' = filterBuffer(buffer, bs)
    BY <1>3 DEF PopBlock
  <2>4. /\ buffer' \in Seq(Entries)
        /\ \A i \in 1 .. Len(buffer') :
              /\ buffer'[i].base < nextBase'
              /\ buffer'[i].kind = "bwrite" => buffer'[i].base \in DOMAIN mem'
              /\ buffer'[i].base \in DOMAIN mem' =>
                   \/ buffer'[i].base \in bs
                   \/ DOMAIN buffer'[i].at \subseteq DOMAIN mem'[buffer'[i].base]
    <3>1. \A x \in DOMAIN mem : x \notin bs => x \in DOMAIN mem' /\ mem'[x] = mem[x]
      BY <1>4
    <3>2. \A x \in DOMAIN mem' : x \in Nat => x \in DOMAIN mem \/ nextBase <= x
      BY <2>2
    <3>3. nextBase' \in Nat /\ nextBase <= nextBase'
      BY <2>1
    <3> QED
      BY <2>1, <2>3, <3>1, <3>2, <3>3, BufferFiltered DEF ObjectsInv
  <2> QED
    BY <2>2, <2>4 DEF BufferOK
<1>7. /\ Len(blocks') = n - 1 /\ blocks' \in Seq(SUBSET DOMAIN mem)
      /\ \A i \in 1 .. n - 1 : i + 1 \in 1 .. n /\ blocks'[i] = blocks[i + 1]
  BY <1>2 DEF PopBlock
<1>8. \A i \in 1 .. n - 1 : blocks'[i] \in SUBSET DOMAIN mem'
  <2>1. \A i \in 1 .. n - 1 : i + 1 # 1 /\ 1 \in 1 .. n
    BY <1>2
  <2>2. \A i \in 1 .. n - 1 : blocks'[i] \cap bs = {}
    BY <1>2, <1>3, <1>7, <2>1 DEF ObjectsInv, BlocksOK
  <2>3. \A i \in 1 .. n - 1 : blocks'[i] \in SUBSET DOMAIN mem
    BY <1>2, <1>7
  <2> QED
    BY <1>4, <2>2, <2>3
<1>9. BlocksOK'
  <2>1. blocks' \in Seq(SUBSET DOMAIN mem')
    <3>1. blocks' = [i \in 1 .. n - 1 |-> blocks'[i]]
      BY <1>7
    <3>2. blocks' \in [1 .. n - 1 -> SUBSET DOMAIN mem'] /\ n - 1 \in Nat
      BY <1>2, <1>8, <3>1
    <3> QED
      BY <3>2, FunctionSeq
  <2>2. ASSUME NEW i \in 1 .. n - 1, NEW j \in 1 .. n - 1, i # j
        PROVE  blocks'[i] \cap blocks'[j] = {}
    <3>1. i + 1 # j + 1
      BY <1>2, <2>2
    <3> QED
      BY <1>2, <1>7, <3>1 DEF ObjectsInv, BlocksOK
  <2> QED
    BY <1>2, <1>7, <2>1, <2>2 DEF BlocksOK
<1>10. MallocedOK'
  <2>1. 1 \in 1 .. Len(blocks)
    BY <1>2
  <2>2. \A b \in DOMAIN malloced : b \notin bs
    BY <1>3, <2>1 DEF ObjectsInv, MallocedOK
  <2> QED
    BY <1>2, <1>4, <1>7, <2>2 DEF ObjectsInv, MallocedOK, PopBlock
<1>11. KOK'
  BY StatementEnds DEF ObjectsInv, PopBlock, AtHead
<1> QED
  BY <1>5, <1>6, <1>9, <1>10, <1>11 DEF ObjectsInv, PopBlock

LEMMA NothingFiltered ==
  ASSUME NEW bs
  PROVE  filterBuffer(<<>>, bs) = <<>>
<1>1. PICK buf \in Seq({}) : buf = <<>> /\ Len(buf) = 0
  BY EmptyLaws
<1>2. PICK f : f = filterBuffer(buf, bs)
  OBVIOUS
<1>3. /\ f \in Seq({})
      /\ \A j \in 1 .. Len(f) : \E i \in 1 .. Len(buf) : f[j] = buf[i] /\ ~Dropped(buf[i], bs)
  BY <1>2, FilterType, Zenon
<1>4. \A j \in 1 .. Len(f) : FALSE
  BY <1>1, <1>3
<1>5. Len(f) = 0
  BY <1>3, <1>4
<1> QED
  BY <1>1, <1>2, <1>3, <1>5, EmptyLaws

LEMMA MallocStep ==
  ASSUME ObjectsInv, Malloc
  PROVE  ObjectsInv'
<1>1. k # <<>> /\ Head(k).op \in {"malloc", "calloc"}
  BY DEF Malloc, AtHead
<1>2. Head(k) \in Statements /\ Tail(k) = <<>> /\ Ready(Head(k))
  BY <1>1, AtStatement DEF ObjectsInv
<1>3. PICK n \in Lens : n = Head(k).len /\ nextBase <= MaxBase
  BY <1>1, <1>2, StatementType DEF Ready
<1>4. CASE k' = Tail(k) /\ mem' # mem
  <2>1. PICK byte \in MemByte \cup {uninit} :
          byte = IF AtHead("calloc") THEN Whole(0) ELSE uninit
    BY WholeByte, ObjectsAssumption
  <2>2. PICK m : m = [o \in 0 .. n - 1 |-> byte]
    OBVIOUS
  <2>3. Object(m) /\ DOMAIN m = 0 .. n - 1
    BY <2>2, NewObject
  <2>4. /\ mem' = [x \in DOMAIN mem \cup {nextBase} |-> IF x = nextBase THEN m ELSE mem[x]]
        /\ malloced' = [b \in DOMAIN malloced \cup {nextBase} |->
                          IF b = nextBase THEN n ELSE malloced[b]]
        /\ nextBase' = nextBase + 1
    BY <1>3, <1>4, <2>1, <2>2 DEF Malloc, alloc
  <2>5. /\ MemOK' /\ BufferOK' /\ nextBase \notin DOMAIN mem
        /\ DOMAIN mem' = DOMAIN mem \cup {nextBase} /\ mem'[nextBase] = m
        /\ \A x \in DOMAIN mem : mem'[x] = mem[x]
    BY <1>3, <2>3, <2>4, ObjectCreated DEF ObjectsInv, Malloc
  <2>6. blocks' = blocks /\ blocks \in Seq(SUBSET DOMAIN mem)
    BY DEF ObjectsInv, BlocksOK, Malloc
  <2>7. BlocksOK'
    <3>1. blocks \in Seq(SUBSET DOMAIN mem')
      BY <2>5, <2>6
    <3> QED
      BY <2>6, <3>1 DEF ObjectsInv, BlocksOK
  <2>8. MallocedOK'
    <3>1. \A i \in 1 .. Len(blocks) : nextBase \notin blocks[i]
      BY <2>5, <2>6
    <3>2. DOMAIN malloced' = DOMAIN malloced \cup {nextBase} /\ malloced'[nextBase] = n
      BY <2>4
    <3>3. nextBase \notin DOMAIN malloced
      BY <2>5 DEF ObjectsInv, MallocedOK
    <3>4. \A b \in DOMAIN malloced : malloced'[b] = malloced[b]
      BY <2>4, <3>3
    <3> QED
      BY <2>3, <2>5, <2>6, <3>1, <3>2, <3>4 DEF ObjectsInv, MallocedOK
  <2>9. KOK'
    BY <1>1, <1>4, StatementEnds DEF ObjectsInv
  <2> QED
    BY <2>5, <2>7, <2>8, <2>9 DEF ObjectsInv, Malloc
<1>5. CASE /\ k' = (IF AtHead("calloc") THEN <<plain("zeroObject")>> ELSE <<>>) \o Tail(k)
           /\ UNCHANGED <<mem, malloced, nextBase>>
  <2>1. SameShape
    BY <1>5 DEF SameShape
  <2>2. BlocksOK' /\ MallocedOK' /\ BufferOK'
    BY <1>5, <2>1, ShapeKept, BufferKept DEF ObjectsInv, Malloc
  <2>3. KOK'
    <3>0. plain("zeroObject").op = "zeroObject"
      BY DEF plain
    <3>1. PICK z : z = plain("zeroObject") /\ z.op = "zeroObject"
      BY <3>0
    <3>2. <<>> \o <<>> = <<>>
      OBVIOUS
    <3>3. <<z>> \o <<>> = <<z>>
      OBVIOUS
    <3>4. k' = <<>> \/ k' = <<z>>
      BY <1>2, <1>5, <3>1, <3>2, <3>3
    <3> QED
      BY <3>1, <3>4 DEF KOK
  <2> QED
    BY <1>5, <2>2, <2>3 DEF ObjectsInv, Malloc, MemOK
<1>6. nextBase \notin DOMAIN mem
  BY DEF ObjectsInv, MemOK
<1>7. \A byte : alloc(nextBase, Head(k).len, byte) # mem
  BY <1>6 DEF alloc
<1> QED
  BY <1>4, <1>5, <1>7 DEF Malloc

LEMMA ReallocStep ==
  ASSUME ObjectsInv, Realloc
  PROVE  ObjectsInv'
<1>1. Head(k) \in Statements /\ Tail(k) = <<>> /\ Ready(Head(k)) /\ Head(k).op = "realloc"
  BY AtStatement DEF ObjectsInv, Realloc, AtHead
<1>2. PICK n \in Lens, b \in DOMAIN malloced :
        n = Head(k).len /\ nextBase <= MaxBase /\ b = Head(k).base
  BY <1>1, StatementType DEF Ready, Realloc
<1>3. b \in DOMAIN mem /\ malloced[b] \in Lens /\ DOMAIN mem[b] = 0 .. malloced[b] - 1
  BY DEF ObjectsInv, MallocedOK
<1>4. PICK m : m = [o \in 0 .. n - 1 |-> IF o < malloced[b] THEN mem[b][o] ELSE uninit]
  OBVIOUS
<1>5. Object(m) /\ DOMAIN m = 0 .. n - 1
  <2>1. \A o \in 0 .. n - 1 : o < malloced[b] => o \in DOMAIN mem[b]
    BY <1>3 DEF Lens
  <2>2. \A o \in DOMAIN mem[b] : mem[b][o] \in MemByte \cup {uninit}
    BY <1>3, ObjectDomain DEF ObjectsInv, MemOK
  <2>3. m \in [0 .. n - 1 -> MemByte \cup {uninit}]
    BY <1>4, <2>1, <2>2
  <2> QED
    BY <2>3 DEF Object, ObjectBytes
<1>6. /\ mem' = [x \in (DOMAIN mem \ {b}) \cup {nextBase} |->
                   IF x # nextBase THEN mem[x] ELSE m]
      /\ malloced' = [x \in (DOMAIN malloced \ {b}) \cup {nextBase} |->
                        IF x = nextBase THEN n ELSE malloced[x]]
      /\ nextBase' = nextBase + 1 /\ buffer = <<>> /\ buffer' = filterBuffer(buffer, {b})
  BY <1>2, <1>4 DEF Realloc, Drained
<1>7. nextBase \notin DOMAIN mem /\ nextBase \in Nat /\ b # nextBase
  BY <1>3 DEF ObjectsInv, MemOK
<1>8. /\ DOMAIN mem' = (DOMAIN mem \ {b}) \cup {nextBase} /\ mem'[nextBase] = m
      /\ \A x \in DOMAIN mem : x # b => mem'[x] = mem[x]
  BY <1>6, <1>7
<1>9. MemOK'
  <2>1. nextBase' \in 1 .. MaxBase + 1
    BY <1>2, <1>6, <1>7, ObjectsAssumption DEF MemOK, ObjectsInv
  <2>2. DOMAIN mem' \subseteq 1 .. nextBase' - 1
    BY <1>6, <1>7, <1>8 DEF MemOK, ObjectsInv
  <2>3. \A x \in DOMAIN mem' : Object(mem'[x])
    BY <1>5, <1>8 DEF MemOK, ObjectsInv
  <2>4. mem' = [x \in DOMAIN mem' |-> mem'[x]]
    BY <1>6
  <2> QED
    BY <2>1, <2>2, <2>3, <2>4 DEF MemOK
<1>10. BufferOK'
  <2>1. buffer' = <<>>
    BY <1>6, NothingFiltered
  <2> QED
    BY <2>1 DEF BufferOK
<1>11. blocks' = blocks /\ blocks \in Seq(SUBSET DOMAIN mem) /\ Len(blocks) \in Nat
  BY DEF ObjectsInv, BlocksOK, Realloc
<1>12. BlocksOK'
  <2>1. \A i \in 1 .. Len(blocks) : b \notin blocks[i]
    BY DEF ObjectsInv, MallocedOK
  <2>2. \A i \in 1 .. Len(blocks) : blocks[i] \in SUBSET DOMAIN mem
    BY <1>11
  <2>3. \A i \in 1 .. Len(blocks) : blocks[i] \in SUBSET DOMAIN mem'
    BY <1>8, <2>1, <2>2
  <2>4. blocks \in Seq(SUBSET DOMAIN mem')
    <3>1. blocks = [i \in 1 .. Len(blocks) |-> blocks[i]]
      BY <1>11
    <3>2. blocks \in [1 .. Len(blocks) -> SUBSET DOMAIN mem']
      BY <2>3, <3>1
    <3> QED
      BY <1>11, <3>2, FunctionSeq
  <2> QED
    BY <1>11, <2>4 DEF ObjectsInv, BlocksOK
<1>13. MallocedOK'
  <2>1. \A i \in 1 .. Len(blocks) : nextBase \notin blocks[i]
    BY <1>7, <1>11
  <2>2. /\ DOMAIN malloced' = (DOMAIN malloced \ {b}) \cup {nextBase}
        /\ malloced'[nextBase] = n
    BY <1>6
  <2>3. nextBase \notin DOMAIN malloced
    BY <1>7 DEF ObjectsInv, MallocedOK
  <2>4. \A x \in DOMAIN malloced : x # b => malloced'[x] = malloced[x]
    BY <1>6, <2>3
  <2> QED
    BY <1>5, <1>8, <1>11, <2>1, <2>2, <2>4 DEF ObjectsInv, MallocedOK
<1>14. KOK'
  BY StatementEnds DEF ObjectsInv, Realloc, AtHead
<1> QED
  BY <1>9, <1>10, <1>12, <1>13, <1>14 DEF ObjectsInv, Realloc

LEMMA FreeStep ==
  ASSUME ObjectsInv, Free
  PROVE  ObjectsInv'
<1>1. PICK b \in DOMAIN malloced : b = Head(k).base
  BY DEF Free
<1>2. /\ mem' = [x \in DOMAIN mem \ {b} |-> mem[x]]
      /\ malloced' = [x \in DOMAIN malloced \ {b} |-> malloced[x]]
      /\ nextBase' = nextBase /\ buffer = <<>> /\ buffer' = filterBuffer(buffer, {b})
  BY <1>1 DEF Free, Drained, deleteObject, Restrict
<1>3. MemOK'
  BY <1>2 DEF ObjectsInv, MemOK
<1>4. BufferOK'
  <2>1. buffer' = <<>>
    BY <1>2, NothingFiltered
  <2> QED
    BY <2>1 DEF BufferOK
<1>5. blocks' = blocks /\ blocks \in Seq(SUBSET DOMAIN mem) /\ Len(blocks) \in Nat
  BY DEF ObjectsInv, BlocksOK, Free
<1>6. BlocksOK'
  <2>1. \A i \in 1 .. Len(blocks) : b \notin blocks[i]
    BY DEF ObjectsInv, MallocedOK
  <2>2. \A i \in 1 .. Len(blocks) : blocks[i] \in SUBSET DOMAIN mem
    BY <1>5
  <2>3. \A i \in 1 .. Len(blocks) : blocks[i] \in SUBSET DOMAIN mem'
    BY <1>2, <2>1, <2>2
  <2>4. blocks \in Seq(SUBSET DOMAIN mem')
    <3>1. blocks = [i \in 1 .. Len(blocks) |-> blocks[i]]
      BY <1>5
    <3>2. blocks \in [1 .. Len(blocks) -> SUBSET DOMAIN mem']
      BY <2>3, <3>1
    <3> QED
      BY <1>5, <3>2, FunctionSeq
  <2> QED
    BY <1>5, <2>4 DEF ObjectsInv, BlocksOK
<1>7. MallocedOK'
  BY <1>2, <1>5 DEF ObjectsInv, MallocedOK
<1>8. KOK'
  BY StatementEnds DEF ObjectsInv, Free, AtHead
<1> QED
  BY <1>3, <1>4, <1>6, <1>7, <1>8 DEF ObjectsInv, Free

-----------------------------------------------------------------------------
LEMMA InitialInvariant ==
  ASSUME Init
  PROVE  ObjectsInv
<1>1. MemOK
  BY ObjectsAssumption DEF Init, MemOK
<1>2. BufferOK
  BY DEF Init, BufferOK
<1>3. BlocksOK
  BY DEF Init, BlocksOK
<1>4. MallocedOK
  BY DEF Init, MallocedOK
<1>5. result \in MemByte /\ errors \subseteq Codes /\ KOK
  BY WholeByte DEF Init, KOK
<1> QED
  BY <1>1, <1>2, <1>3, <1>4, <1>5 DEF ObjectsInv

LEMMA StepInvariant ==
  ASSUME ObjectsInv, [Next]_vars
  PROVE  ObjectsInv'
<1>1. CASE UNCHANGED vars
  <2>1. MemOK' /\ BufferOK' /\ BlocksOK' /\ MallocedOK'
    BY <1>1 DEF vars, ObjectsInv, MemOK, BufferOK, BlocksOK, MallocedOK
  <2>2. KOK'
    <3>1. \A s \in Statements : Ready(s) => Ready(s)'
      BY <1>1 DEF Ready, vars
    <3>2. \A b \in DOMAIN mem : Initialising(b) => Initialising(b)'
      BY <1>1 DEF Initialising, vars
    <3> QED
      BY <1>1, <3>1, <3>2 DEF KOK, vars, ObjectsInv
  <2> QED
    BY <1>1, <2>1, <2>2 DEF vars, ObjectsInv
<1>2. CASE Next
  BY <1>2, IssueStep, DeadUseStep, PushBlockStep, PopBlockStep, DeclareLocalStep, ZeroStep,
     InitializerStep, SequencePointStep, WriteStep, MemsetStep, BitWriteStep, ReadStep,
     MallocStep, ReallocStep, FreeStep, NotMallocedStep, FlushStep DEF Next
<1> QED
  BY <1>1, <1>2

(* The inductive invariant holds in every reachable state.                 *)
THEOREM ObjectsInvariant == Spec => []ObjectsInv
<1>1. Init => ObjectsInv
  BY InitialInvariant
<1>2. ObjectsInv /\ [Next]_vars => ObjectsInv'
  BY StepInvariant
<1> QED
  BY <1>1, <1>2, PTL DEF Spec

(* The cells keep their types, <malloced> records the lengths, and no      *)
(* object is both a local and malloced (TypeOK).                           *)
THEOREM CellsTyped == Spec => []TypeOK
<1>1. ObjectsInv => TypeOK
  <2> SUFFICES ASSUME ObjectsInv
               PROVE  TypeOK
    OBVIOUS
  <2>1. \A b \in DOMAIN mem : b < nextBase /\ \E n \in Lens : mem[b] \in ObjectBytes(n)
    BY DEF ObjectsInv, MemOK, Object
  <2>2. buffer \in Seq(Entries) /\ DOMAIN buffer = 1 .. Len(buffer)
    BY DEF ObjectsInv, BufferOK
  <2>3. \A e \in Entries : /\ e.kind \in {"bwrite", "bfill"}
                           /\ \A o \in DOMAIN e.at : e.at[o] \in MemByte
    BY DEF Entries, Ats
  <2>4. \A i \in DOMAIN buffer : buffer[i] \in Entries
    BY <2>2
  <2>5. blocks \in Seq(SUBSET DOMAIN mem) /\ DOMAIN blocks = 1 .. Len(blocks)
    BY DEF ObjectsInv, BlocksOK
  <2>6. \A i \in DOMAIN blocks : blocks[i] \subseteq DOMAIN mem
    BY <2>5
  <2>7. \A b \in DOMAIN malloced :
          /\ b \in DOMAIN mem /\ DOMAIN mem[b] = 0 .. malloced[b] - 1
          /\ \A i \in DOMAIN blocks : b \notin blocks[i]
    BY <2>5 DEF ObjectsInv, MallocedOK
  <2> QED
    BY <2>1, <2>3, <2>4, <2>6, <2>7 DEF TypeOK, ObjectsInv, MemOK
<1> QED
  BY <1>1, ObjectsInvariant, PTL

(* A buffered write keeps its object until it leaves the buffer, and is    *)
(* inside of it (BufferedWritesLand): filterBuffer drops the others.       *)
THEOREM BufferedWritesAlwaysLand == Spec => []BufferedWritesLand
<1>1. ObjectsInv => BufferedWritesLand
  <2> SUFFICES ASSUME ObjectsInv
               PROVE  BufferedWritesLand
    OBVIOUS
  <2>1. DOMAIN buffer = 1 .. Len(buffer)
    BY DEF ObjectsInv, BufferOK
  <2> QED
    BY <2>1 DEF BufferedWritesLand, ObjectsInv, BufferOK, Live
<1> QED
  BY <1>1, ObjectsInvariant, PTL

-----------------------------------------------------------------------------
(* The youngest of the first n buffered writes to a byte.                  *)

NoHit(buf, n, b, o) == \A j \in 1 .. n : ~Hits(buf[j], b, o)
LastHit(buf, n, b, o, i) ==
  /\ i \in 1 .. n /\ Hits(buf[i], b, o)
  /\ \A j \in 1 .. n : i < j => ~Hits(buf[j], b, o)

LEMMA HitOrNot ==
  ASSUME NEW n \in Nat, NEW buf, NEW b, NEW o
  PROVE  NoHit(buf, n, b, o) \/ \E i \in 1 .. n : LastHit(buf, n, b, o, i)
<1> DEFINE C == {m \in 0 .. n : NoHit(buf, m, b, o) \/ \E i \in 1 .. m : LastHit(buf, m, b, o, i)}
<1>1. 0 \in C
  BY DEF NoHit
<1>2. ASSUME NEW m \in 0 .. n, m \in C, m < n
      PROVE  m + 1 \in C
  <2>1. m + 1 \in 0 .. n /\ m + 1 \in 1 .. m + 1
    BY <1>2
  <2>2. \A j \in 1 .. m + 1 : j \in 1 .. m \/ j = m + 1
    OBVIOUS
  <2>3. CASE Hits(buf[m + 1], b, o)
    <3>1. \A j \in 1 .. m + 1 : ~(m + 1 < j)
      OBVIOUS
    <3>2. LastHit(buf, m + 1, b, o, m + 1)
      BY <2>1, <2>3, <3>1 DEF LastHit
    <3> QED
      BY <2>1, <3>2
  <2>4. CASE ~Hits(buf[m + 1], b, o)
    <3>1. NoHit(buf, m, b, o) => NoHit(buf, m + 1, b, o)
      BY <2>2, <2>4 DEF NoHit
    <3>2. \A i \in 1 .. m : LastHit(buf, m, b, o, i) => LastHit(buf, m + 1, b, o, i)
      <4> SUFFICES ASSUME NEW i \in 1 .. m, LastHit(buf, m, b, o, i)
                   PROVE  LastHit(buf, m + 1, b, o, i)
        OBVIOUS
      <4>1. i \in 1 .. m + 1
        OBVIOUS
      <4> QED
        BY <2>2, <2>4, <4>1 DEF LastHit
    <3>3. \A i \in 1 .. m : i \in 1 .. m + 1
      OBVIOUS
    <3> QED
      BY <1>2, <2>1, <3>1, <3>2, <3>3
  <2> QED
    BY <2>3, <2>4
<1>3. 0 .. n \subseteq C
  <2> HIDE DEF C
  <2> QED
    BY <1>1, <1>2, BoundedInduction
<1>4. n \in C
  BY <1>3
<1> QED
  BY <1>4

LEMMA LatestValue ==
  ASSUME NEW n \in Nat, NEW buf, NEW b, NEW o, NEW byte
  PROVE  /\ NoHit(buf, n, b, o) => Latest(buf, n, b, o, byte) = byte
         /\ \A i \in 1 .. n :
              LastHit(buf, n, b, o, i) => Latest(buf, n, b, o, byte) = buf[i].at[o]
<1>1. PICK hits : hits = {i \in 1 .. n : Hits(buf[i], b, o)}
  OBVIOUS
<1>2. Latest(buf, n, b, o, byte) = IF hits = {} THEN byte ELSE buf[Max(hits)].at[o]
  BY <1>1 DEF Latest
<1>3. NoHit(buf, n, b, o) => hits = {}
  BY <1>1 DEF NoHit
<1>4. ASSUME NEW i \in 1 .. n, LastHit(buf, n, b, o, i)
      PROVE  hits # {} /\ Max(hits) = i
  <2>1. i \in hits /\ hits \subseteq 1 .. n
    BY <1>1, <1>4 DEF LastHit
  <2>2. \A j \in hits : ~(i < j)
    BY <1>1, <1>4 DEF LastHit
  <2>3. \A j \in hits : i >= j
    BY <2>1, <2>2
  <2>4. Max(hits) \in hits /\ \A j \in hits : Max(hits) >= j
    BY <2>1, <2>3 DEF Max
  <2>5. PICK x : x = Max(hits)
    OBVIOUS
  <2>6. x \in 1 .. n /\ x >= i /\ i >= x
    BY <2>1, <2>3, <2>4, <2>5
  <2>7. x = i
    BY <2>6
  <2> QED
    BY <2>1, <2>5, <2>7
<1> QED
  BY <1>2, <1>3, <1>4

(* It depends on these n writes only.                                      *)
LEMMA LatestSame ==
  ASSUME NEW n \in Nat, NEW buf, NEW other, NEW b, NEW o, NEW byte,
         \A i \in 1 .. n : other[i] = buf[i]
  PROVE  Latest(other, n, b, o, byte) = Latest(buf, n, b, o, byte)
<1>1. CASE NoHit(buf, n, b, o)
  <2>1. NoHit(other, n, b, o)
    BY <1>1 DEF NoHit
  <2> QED
    BY <1>1, <2>1, LatestValue
<1>2. ASSUME NEW i \in 1 .. n, LastHit(buf, n, b, o, i)
      PROVE  Latest(other, n, b, o, byte) = Latest(buf, n, b, o, byte)
  <2>1. LastHit(other, n, b, o, i)
    BY <1>2 DEF LastHit
  <2> QED
    BY <1>2, <2>1, LatestValue
<1> QED
  BY <1>1, <1>2, HitOrNot

(* A buffer that grew by e, to n writes.                                   *)
Younger(new, n, buf, m, e, b, o, byte) ==
  /\ Hits(e, b, o) => Latest(new, n, b, o, byte) = e.at[o]
  /\ ~Hits(e, b, o) => Latest(new, n, b, o, byte) = Latest(buf, m, b, o, byte)

LEMMA LatestStep ==
  ASSUME NEW n \in Nat, NEW buf, NEW b, NEW o, NEW byte
  PROVE  Younger(buf, n + 1, buf, n, buf[n + 1], b, o, byte)
<1>1. n + 1 \in Nat /\ n + 1 \in 1 .. n + 1
  OBVIOUS
<1>2. \A j \in 1 .. n + 1 : (j \in 1 .. n \/ j = n + 1) /\ ~(n + 1 < j)
  OBVIOUS
<1>3. \A i \in 1 .. n : i \in 1 .. n + 1
  OBVIOUS
<1>4. CASE Hits(buf[n + 1], b, o)
  <2>1. LastHit(buf, n + 1, b, o, n + 1)
    BY <1>1, <1>2, <1>4 DEF LastHit
  <2> QED
    BY <1>1, <1>4, <2>1, LatestValue DEF Younger
<1>5. CASE ~Hits(buf[n + 1], b, o)
  <2> SUFFICES Latest(buf, n + 1, b, o, byte) = Latest(buf, n, b, o, byte)
    BY <1>5 DEF Younger
  <2>1. CASE NoHit(buf, n, b, o)
    <3>1. NoHit(buf, n + 1, b, o)
      BY <1>2, <1>5, <2>1 DEF NoHit
    <3> QED
      BY <1>1, <1>5, <2>1, <3>1, LatestValue
  <2>2. ASSUME NEW i \in 1 .. n, LastHit(buf, n, b, o, i)
        PROVE  Latest(buf, n + 1, b, o, byte) = Latest(buf, n, b, o, byte)
    <3>1. LastHit(buf, n + 1, b, o, i)
      BY <1>2, <1>3, <1>5, <2>2 DEF LastHit
    <3> QED
      BY <1>1, <1>3, <2>2, <3>1, LatestValue
  <2> QED
    BY <1>5, <2>1, <2>2, HitOrNot
<1> QED
  BY <1>4, <1>5 DEF Younger

LEMMA LatestAppend ==
  ASSUME NEW T, NEW buf \in Seq(T), NEW e \in T, NEW b, NEW o, NEW byte
  PROVE  Younger(Append(buf, e), Len(Append(buf, e)), buf, Len(buf), e, b, o, byte)
<1>1. PICK n \in Nat : n = Len(buf)
  OBVIOUS
<1>2. PICK other : other = Append(buf, e)
  OBVIOUS
<1>3. Len(other) = n + 1 /\ other[n + 1] = e /\ \A i \in 1 .. n : other[i] = buf[i]
  BY <1>1, <1>2
<1>4. Latest(other, n, b, o, byte) = Latest(buf, n, b, o, byte)
  BY <1>3, LatestSame
<1>5. Younger(other, n + 1, buf, n, e, b, o, byte)
  <2>1. Younger(other, n + 1, other, n, other[n + 1], b, o, byte)
    BY LatestStep
  <2> QED
    BY <1>3, <1>4, <2>1 DEF Younger
<1> QED
  BY <1>1, <1>2, <1>3, <1>5

(* deleteObject does not change what is seen of the other objects.         *)
LEMMA LatestFiltered ==
  ASSUME NEW T, NEW buf \in Seq(T), NEW bs, NEW b, b \notin bs, NEW o, NEW byte
  PROVE  Latest(filterBuffer(buf, bs), Len(filterBuffer(buf, bs)), b, o, byte) =
           Latest(buf, Len(buf), b, o, byte)
<1>1. PICK n \in Nat : n = Len(buf) /\ \A i \in 1 .. n : buf[i] \in T
  OBVIOUS
<1>2. PICK F \in [0 .. n -> Seq(T)] :
           /\ F[0] = <<>>
           /\ \A i \in 1 .. n :
                F[i] = IF Dropped(buf[i], bs) THEN F[i - 1] ELSE Append(F[i - 1], buf[i])
           /\ filterBuffer(buf, bs) = F[n]
  <2>1. Filters(T, buf, bs, n)
    BY <1>1, FilterPrefixes
  <2> QED
    BY <2>1, Zenon DEF Filters
<1> DEFINE C == {m \in 0 .. n :
                   Latest(F[m], Len(F[m]), b, o, byte) = Latest(buf, m, b, o, byte)}
<1>3. 0 \in C
  <2>1. NoHit(F[0], 0, b, o) /\ NoHit(buf, 0, b, o)
    BY DEF NoHit
  <2>2. Len(F[0]) = 0
    BY <1>2
  <2> QED
    BY <1>1, <2>1, <2>2, LatestValue
<1>4. ASSUME NEW m \in 0 .. n, m \in C, m < n
      PROVE  m + 1 \in C
  <2>1. m + 1 \in 1 .. n /\ (m + 1) - 1 = m /\ m + 1 \in 0 .. n /\ m \in Nat
    BY <1>4
  <2>2. PICK g \in Seq(T) : g = F[m]
    BY <1>2
  <2>3. F[m + 1] = IF Dropped(buf[m + 1], bs) THEN g ELSE Append(g, buf[m + 1])
    BY <1>2, <2>1, <2>2
  <2>4. Younger(buf, m + 1, buf, m, buf[m + 1], b, o, byte)
    BY <2>1, LatestStep, Zenon
  <2>5. Latest(g, Len(g), b, o, byte) = Latest(buf, m, b, o, byte)
    BY <1>4, <2>2
  <2>6. CASE Dropped(buf[m + 1], bs)
    <3>1. ~Hits(buf[m + 1], b, o)
      BY <2>6 DEF Dropped, Hits
    <3> QED
      BY <2>1, <2>3, <2>4, <2>5, <2>6, <3>1 DEF Younger
  <2>7. CASE ~Dropped(buf[m + 1], bs)
    <3>1. PICK e \in T : e = buf[m + 1]
      BY <1>1, <2>1
    <3>2. Younger(Append(g, e), Len(Append(g, e)), g, Len(g), e, b, o, byte)
      BY LatestAppend, Zenon
    <3>3. F[m + 1] = Append(g, e)
      BY <2>3, <2>7, <3>1
    <3> QED
      BY <2>1, <2>4, <2>5, <3>1, <3>2, <3>3 DEF Younger
  <2> QED
    BY <2>6, <2>7
<1>5. 0 .. n \subseteq C
  <2> HIDE DEF C
  <2> QED
    BY <1>3, <1>4, BoundedInduction
<1>6. n \in C
  BY <1>5
<1> QED
  BY <1>1, <1>2, <1>6

(* The oldest buffered write reaches the byte.                             *)
LEMMA LatestFlushed ==
  ASSUME NEW T, NEW buf \in Seq(T), buf # <<>>, NEW b, NEW o, NEW byte, NEW new,
         new = IF Hits(Head(buf), b, o) THEN Head(buf).at[o] ELSE byte
  PROVE  Latest(Tail(buf), Len(Tail(buf)), b, o, new) = Latest(buf, Len(buf), b, o, byte)
<1>1. PICK n \in Nat : Len(buf) = n + 1
  <2>1. Len(buf) \in Nat /\ Len(buf) # 0
    BY EmptyLaws
  <2>2. Len(buf) - 1 \in Nat /\ Len(buf) = (Len(buf) - 1) + 1
    BY <2>1
  <2> QED
    BY <2>2
<1>2. PICK rest : rest = Tail(buf)
  OBVIOUS
<1>3. Len(rest) = n /\ (\A i \in 1 .. n : rest[i] = buf[i + 1]) /\ Head(buf) = buf[1]
  BY <1>1, <1>2
<1>4. /\ n + 1 \in Nat /\ 1 \in 1 .. n + 1 /\ \A i \in 1 .. n : i + 1 \in 1 .. n + 1
      /\ \A j \in 1 .. n + 1 : j = 1 \/ (j - 1 \in 1 .. n /\ (j - 1) + 1 = j)
  BY <1>1
<1>5. CASE NoHit(rest, n, b, o)
  <2>1. \A j \in 1 .. n + 1 : j # 1 => ~Hits(buf[j], b, o)
    BY <1>3, <1>4, <1>5 DEF NoHit
  <2>2. CASE Hits(buf[1], b, o)
    <3>1. \A j \in 1 .. n + 1 : 1 < j => j # 1
      OBVIOUS
    <3>2. LastHit(buf, n + 1, b, o, 1)
      BY <1>4, <2>1, <2>2, <3>1 DEF LastHit
    <3> QED
      BY <1>1, <1>2, <1>3, <1>4, <1>5, <2>2, <3>2, LatestValue
  <2>3. CASE ~Hits(buf[1], b, o)
    <3>1. NoHit(buf, n + 1, b, o)
      BY <2>1, <2>3 DEF NoHit
    <3> QED
      BY <1>1, <1>2, <1>3, <1>4, <1>5, <2>3, <3>1, LatestValue
  <2> QED
    BY <2>2, <2>3
<1>6. ASSUME NEW i \in 1 .. n, LastHit(rest, n, b, o, i)
      PROVE  Latest(rest, n, b, o, new) = Latest(buf, n + 1, b, o, byte)
  <2>1. \A j \in 1 .. n + 1 : i + 1 < j => j - 1 \in 1 .. n /\ i < j - 1 /\ (j - 1) + 1 = j
    OBVIOUS
  <2>2. \A j \in 1 .. n + 1 : i + 1 < j => ~Hits(buf[j], b, o)
    BY <1>3, <1>6, <2>1 DEF LastHit
  <2>3. LastHit(buf, n + 1, b, o, i + 1)
    BY <1>3, <1>4, <1>6, <2>2 DEF LastHit
  <2> QED
    BY <1>3, <1>4, <1>6, <2>3, LatestValue
<1> QED
  BY <1>1, <1>2, <1>3, <1>5, <1>6, HitOrNot

-----------------------------------------------------------------------------
(* What the program sees, and the steps of Memory.                         *)

View(b, o) == Stored(Latest(buffer, Len(buffer), b, o, mem[b][o]))

LEMMA SeenIsView == Seen = [b \in DOMAIN mem |-> [o \in DOMAIN mem[b] |-> View(b, o)]]
BY DEF Seen, View

LEMMA SeenNext ==
  Seen' = [b \in DOMAIN mem' |-> [o \in DOMAIN mem'[b] |-> View(b, o)']]
BY DEF Seen, View

LEMMA StoredByte ==
  ASSUME NEW byte \in MemByte
  PROVE  Stored(byte) = byte /\ Stored(uninit) = TrapByte /\ Stored(TrapByte) = TrapByte
BY WholeByte, ObjectsAssumption DEF Stored, MemByte

LEMMA ViewCases ==
  ASSUME ObjectsInv, NEW b \in DOMAIN mem, NEW o \in DOMAIN mem[b]
  PROVE  /\ View(b, o) \in MemByte
         /\ NoHit(buffer, Len(buffer), b, o) => View(b, o) = Stored(mem[b][o])
<1>1. PICK n \in Nat : n = Len(buffer) /\ \A i \in 1 .. n : buffer[i] \in Entries
  BY DEF ObjectsInv, BufferOK
<1>2. NoHit(buffer, n, b, o) => View(b, o) = Stored(mem[b][o])
  BY <1>1, LatestValue DEF View
<1>3. Stored(mem[b][o]) \in MemByte
  <2>1. mem[b][o] \in MemByte \cup {uninit}
    BY ObjectDomain DEF ObjectsInv, MemOK
  <2> QED
    BY <2>1, WholeByte DEF Stored
<1>4. ASSUME NEW i \in 1 .. n, LastHit(buffer, n, b, o, i)
      PROVE  View(b, o) \in MemByte
  <2>1. View(b, o) = Stored(buffer[i].at[o])
    BY <1>1, <1>4, LatestValue DEF View
  <2>2. buffer[i] \in Entries /\ o \in DOMAIN buffer[i].at
    BY <1>1, <1>4 DEF LastHit, Hits
  <2>3. buffer[i].at[o] \in MemByte
    BY <2>2 DEF Entries, Ats
  <2> QED
    BY <2>1, <2>3, StoredByte
<1> QED
  BY <1>1, <1>2, <1>3, <1>4, HitOrNot

LEMMA SeenDomains ==
  /\ DOMAIN Seen = DOMAIN mem
  /\ \A b \in DOMAIN mem : DOMAIN Seen[b] = DOMAIN mem[b]
  /\ \A b \in DOMAIN mem : \A o \in DOMAIN mem[b] : Seen[b][o] = View(b, o)
BY SeenIsView

LEMMA SeenUnchanged ==
  ASSUME SameShape, \A b \in DOMAIN mem : \A o \in DOMAIN mem[b] : View(b, o)' = View(b, o)
  PROVE  Seen' = Seen
<1>1. Seen' = [b \in DOMAIN mem' |-> [o \in DOMAIN mem'[b] |-> View(b, o)']]
  BY SeenNext
<1> QED
  BY <1>1, SeenIsView DEF SameShape

(* A write that reaches the buffer is a Store of Memory.                   *)
LEMMA SeenStored ==
  ASSUME ObjectsInv, SameShape, UNCHANGED result,
         NEW b \in DOMAIN mem, NEW os, os \subseteq DOMAIN mem[b], NEW hs, NEW v,
         \A x \in DOMAIN mem : \A o \in DOMAIN mem[x] :
           ~(x = b /\ o \in os) => View(x, o)' = View(x, o),
         \A o \in os : View(b, o)' = [h \in 1 .. 2 |-> IF h \in hs THEN v ELSE View(b, o)[h]]
  PROVE  Buffered!Store(b, os, hs, v)
<1>1. Seen' = [x \in DOMAIN mem' |-> [o \in DOMAIN mem'[x] |-> View(x, o)']]
  BY SeenNext
<1>2. Seen' = [x \in DOMAIN mem |-> [o \in DOMAIN mem[x] |-> View(x, o)']]
  BY <1>1 DEF SameShape
<1>3. PICK new : new = [o \in DOMAIN Seen[b] |->
                          [h \in 1 .. 2 |-> IF o \in os /\ h \in hs THEN v ELSE Seen[b][o][h]]]
  OBVIOUS
<1>4. new = [o \in DOMAIN mem[b] |-> View(b, o)']
  <2>1. ASSUME NEW o \in DOMAIN mem[b]
        PROVE  View(b, o)' = [h \in 1 .. 2 |->
                                IF o \in os /\ h \in hs THEN v ELSE View(b, o)[h]]
    <3>1. CASE o \in os
      BY <3>1
    <3>2. CASE o \notin os
      <4>1. View(b, o)' = View(b, o)
        BY <3>2
      <4>2. View(b, o) = [h \in 1 .. 2 |-> View(b, o)[h]]
        BY ViewCases DEF MemByte
      <4> QED
        BY <3>2, <4>1, <4>2
    <3> QED
      BY <3>1, <3>2
  <2>2. \A o \in DOMAIN mem[b] : Seen[b][o] = View(b, o)
    BY SeenDomains
  <2>3. DOMAIN Seen[b] = DOMAIN mem[b]
    BY SeenDomains
  <2> QED
    BY <1>3, <2>1, <2>2, <2>3
<1>5. Seen' = [Seen EXCEPT ![b] = new]
  <2>1. \A x \in DOMAIN mem : x # b =>
          Seen[x] = [o \in DOMAIN mem[x] |-> View(x, o)']
    BY SeenIsView
  <2>2. DOMAIN Seen = DOMAIN mem /\ Seen = [x \in DOMAIN mem |-> Seen[x]]
    BY SeenIsView
  <2> QED
    BY <1>2, <1>4, <2>1, <2>2
<1> QED
  BY <1>3, <1>5, SeenDomains DEF Buffered!Store

(* Every step of Objects is a step of Memory, or leaves its state alone.   *)
Maps == Buffered!Next \/ UNCHANGED <<Seen, result>>

LEMMA StutterMaps ==
  ASSUME UNCHANGED <<mem, buffer, result>>
  PROVE  Maps
BY DEF Maps, Seen

LEMMA StoreMaps ==
  ASSUME NEW b \in Bases, NEW os \in SUBSET Offsets, NEW hs \in SUBSET (1 .. 2), NEW v \in Bits,
         Buffered!Store(b, os, hs, v)
  PROVE  Maps
<1>1. b \in Buffered!Bases /\ os \in SUBSET (0 .. MaxLen - 1)
  BY DEF Bases, Buffered!Bases, Offsets
<1> QED
  BY <1>1 DEF Maps, Buffered!Next

LEMMA StoredLatest ==
  ASSUME NEW n \in Nat, NEW buf, NEW b, NEW o, NEW d, NEW e, Stored(d) = Stored(e)
  PROVE  Stored(Latest(buf, n, b, o, d)) = Stored(Latest(buf, n, b, o, e))
<1>1. CASE NoHit(buf, n, b, o)
  BY <1>1, LatestValue
<1>2. ASSUME NEW i \in 1 .. n, LastHit(buf, n, b, o, i)
      PROVE  Stored(Latest(buf, n, b, o, d)) = Stored(Latest(buf, n, b, o, e))
  BY <1>2, LatestValue
<1> QED
  BY <1>1, <1>2, HitOrNot

LEMMA AppendedView ==
  ASSUME ObjectsInv, NEW e \in Entries, buffer' = Append(buffer, e),
         NEW x, NEW o, Stored(mem'[x][o]) = Stored(mem[x][o])
  PROVE  /\ Hits(e, x, o) => View(x, o)' = e.at[o]
         /\ ~Hits(e, x, o) => View(x, o)' = View(x, o)
<1>1. PICK d : d = mem'[x][o]
  OBVIOUS
<1>2. View(x, o)' = Stored(Latest(buffer', Len(buffer'), x, o, d))
  BY <1>1 DEF View
<1>3. buffer \in Seq(Entries) /\ Len(buffer) \in Nat
  BY DEF ObjectsInv, BufferOK
<1>4. Younger(buffer', Len(buffer'), buffer, Len(buffer), e, x, o, d)
  BY <1>3, LatestAppend
<1>5. CASE Hits(e, x, o)
  <2>1. e.at[o] \in MemByte
    BY <1>5 DEF Hits, Entries, Ats
  <2> QED
    BY <1>2, <1>4, <1>5, <2>1, StoredByte DEF Younger
<1>6. CASE ~Hits(e, x, o)
  <2>1. View(x, o)' = Stored(Latest(buffer, Len(buffer), x, o, d))
    BY <1>2, <1>4, <1>6 DEF Younger
  <2>2. Stored(Latest(buffer, Len(buffer), x, o, d)) = View(x, o)
    BY <1>1, <1>3, StoredLatest DEF View
  <2> QED
    BY <1>6, <2>1, <2>2
<1> QED
  BY <1>5, <1>6

(* One value in whole bytes: a write, a memset, an initialiser.            *)
LEMMA WholeStore ==
  ASSUME ObjectsInv, NEW kind \in {"bwrite", "bfill"}, NEW b \in DOMAIN mem, NEW o \in Nat,
         NEW n \in Nat \ {0}, NEW v \in Bits, o + n - 1 \in DOMAIN mem[b],
         buffer' = Append(buffer, Entry(kind, b, o, n, Whole(v))),
         UNCHANGED <<mem, nextBase, result>>
  PROVE  Maps
<1>1. Whole(v) \in MemByte
  BY WholeByte
<1>2. PICK e : e = Entry(kind, b, o, n, Whole(v))
  OBVIOUS
<1>3. /\ e \in Entries /\ e.base = b /\ DOMAIN e.at = o .. o + n - 1
      /\ \A x \in o .. o + n - 1 : e.at[x] = Whole(v)
      /\ DOMAIN e.at \subseteq DOMAIN mem[b] /\ b \in Bases
  BY <1>1, <1>2, EntryType DEF ObjectsInv
<1>4. PICK os : os = o .. o + n - 1
  OBVIOUS
<1>5. \A x \in DOMAIN mem : \A p \in DOMAIN mem[x] :
        /\ Hits(e, x, p) => View(x, p)' = e.at[p]
        /\ ~Hits(e, x, p) => View(x, p)' = View(x, p)
  BY <1>2, <1>3, AppendedView
<1>6. \A x, p : Hits(e, x, p) <=> x = b /\ p \in os
  BY <1>3, <1>4 DEF Hits
<1>7. \A x \in DOMAIN mem : \A p \in DOMAIN mem[x] :
        ~(x = b /\ p \in os) => View(x, p)' = View(x, p)
  BY <1>5, <1>6
<1>8. ASSUME NEW p \in os
      PROVE  View(b, p)' = [h \in 1 .. 2 |-> IF h \in 1 .. 2 THEN v ELSE View(b, p)[h]]
  <2>1. View(b, p)' = Whole(v)
    BY <1>3, <1>4, <1>5, <1>6
  <2>2. Whole(v) = [h \in 1 .. 2 |-> IF h \in 1 .. 2 THEN v ELSE View(b, p)[h]]
    BY DEF Whole
  <2> QED
    BY <2>1, <2>2
<1>9. SameShape
  BY DEF SameShape
<1>10. os \subseteq DOMAIN mem[b]
  BY <1>3, <1>4
<1>11. Buffered!Store(b, os, 1 .. 2, v)
  BY <1>7, <1>8, <1>9, <1>10, SeenStored
<1>12. os \in SUBSET Offsets
  <2>1. PICK m \in Lens : DOMAIN mem[b] = 0 .. m - 1
    BY ObjectDomain DEF ObjectsInv, MemOK
  <2>2. DOMAIN mem[b] \subseteq Offsets
    BY <2>1, ObjectsAssumption DEF Lens, Offsets
  <2> QED
    BY <1>10, <2>2
<1> QED
  BY <1>3, <1>11, <1>12, StoreMaps

LEMMA ZeroMaps ==
  ASSUME ObjectsInv, Zero
  PROVE  Maps
<1>1. PICK b \in DOMAIN mem, n \in Lens : DOMAIN mem[b] = 0 .. n - 1 /\ Head(k) = zero(b, n)
  BY AtZero DEF ObjectsInv, Zero
<1>2. buffer' = Append(buffer, Entry("bfill", b, 0, n, Whole(0)))
  BY <1>1, InitialisingFacts DEF Zero, bfill
<1>3. 0 + n - 1 \in DOMAIN mem[b] /\ n \in Nat \ {0} /\ 0 \in Nat /\ 0 \in Bits
  BY <1>1, ObjectsAssumption DEF Lens
<1> QED
  BY <1>2, <1>3, WholeStore DEF Zero

LEMMA InitializerMaps ==
  ASSUME ObjectsInv, Initializer
  PROVE  Maps
<1>1. PICK b \in DOMAIN mem : Head(k) = init(b)
  BY AtInit DEF ObjectsInv, Initializer
<1>2. buffer' = Append(buffer, Entry("bwrite", b, 0, 1, Whole(1)))
  <2>1. Head(k).base = b /\ Head(k).val = 1
    BY <1>1, InitialisingFacts
  <2> QED
    BY <2>1 DEF Initializer, bwrite
<1>3. 0 \in DOMAIN mem[b]
  BY ObjectDomain DEF ObjectsInv, MemOK, Lens
<1>4. 0 + 1 - 1 \in DOMAIN mem[b] /\ 1 \in Nat \ {0} /\ 0 \in Nat /\ 1 \in Bits
  BY <1>3, ObjectsAssumption
<1> QED
  BY <1>2, <1>4, WholeStore DEF Initializer

LEMMA WriteMaps ==
  ASSUME ObjectsInv, Write \/ Memset
  PROVE  Maps
<1>1. k # <<>> /\ Head(k).op \in {"write", "memset", "bitwrite"}
  BY DEF Write, Memset, AtHead
<1>2. PICK b \in DOMAIN mem, o \in Nat, n \in Nat \ {0}, v \in Bits :
        b = Head(k).base /\ o = Head(k).off /\ n = Head(k).wid /\ v = Head(k).val
  BY <1>1, AccessFacts DEF Write, Memset, Live
<1>3. PICK kind \in {"bwrite", "bfill"} :
        BufferedWrite(b, o, n, Entry(kind, b, o, n, Whole(v)))
  BY <1>2 DEF Write, Memset, bwrite, bfill
<1>4. UNCHANGED <<mem, nextBase, result>>
  BY DEF Write, Memset
<1>5. CASE UNCHANGED buffer
  BY <1>4, <1>5, StutterMaps
<1>6. CASE o + n - 1 \in DOMAIN mem[b] /\ buffer' = Append(buffer, Entry(kind, b, o, n, Whole(v)))
  BY <1>4, <1>6, WholeStore
<1> QED
  BY <1>3, <1>5, <1>6 DEF BufferedWrite, InBounds

LEMMA BitWriteMaps ==
  ASSUME ObjectsInv, BitWrite
  PROVE  Maps
<1> DEFINE s == Head(k)
           old == IF mem[s.base][s.off] = uninit THEN TrapByte ELSE mem[s.base][s.off]
<1>1. s.base \in DOMAIN mem /\ s.off \in DOMAIN mem[s.base]
  BY DEF BitWrite, Live
<1>2. PICK b \in DOMAIN mem : b = s.base
  BY <1>1
<1>3. PICK o \in DOMAIN mem[b] : o = s.off
  BY <1>1, <1>2
<1>4. PICK byte : byte = old
  OBVIOUS
<1>5. byte = Stored(mem[b][o])
  BY <1>2, <1>3, <1>4 DEF Stored
<1>6. NoHit(buffer, Len(buffer), b, o)
  <2>1. DOMAIN buffer = 1 .. Len(buffer)
    BY DEF ObjectsInv, BufferOK
  <2> QED
    BY <1>2, <1>3, <2>1 DEF BitWrite, Settled, NoHit, Hits
<1>7. View(b, o) = byte /\ byte \in MemByte
  BY <1>5, <1>6, ViewCases
<1>8. mem' = [mem EXCEPT ![b][o] = byte]
  BY <1>2, <1>3, <1>4 DEF BitWrite
<1>9. PICK h \in 1 .. 2, v \in Bits : h = s.wid /\ v = s.val /\ b \in Bases /\ o \in Offsets
                                      /\ o \in Nat
  BY <1>2, <1>3, AccessFacts DEF BitWrite, AtHead
<1>10. BufferedWrite(b, o, 1, Entry("bwrite", b, o, 1, [byte EXCEPT ![h] = v]))
  BY <1>2, <1>3, <1>4, <1>9 DEF BitWrite, bwrite
<1>11. UNCHANGED <<nextBase, result>>
  BY DEF BitWrite
<1> HIDE DEF old, s
<1>12. SameShape
  <2>1. DOMAIN mem' = DOMAIN mem
    BY <1>8
  <2>2. \A x \in DOMAIN mem : DOMAIN mem'[x] = DOMAIN mem[x]
    BY <1>8
  <2> QED
    BY <1>11, <2>1, <2>2 DEF SameShape
<1>13. \A x \in DOMAIN mem : \A p \in DOMAIN mem[x] : Stored(mem'[x][p]) = Stored(mem[x][p])
  <2>1. \A x \in DOMAIN mem : \A p \in DOMAIN mem[x] :
          mem'[x][p] = mem[x][p] \/ (x = b /\ p = o /\ mem'[x][p] = byte)
    BY <1>8
  <2>2. Stored(byte) = byte
    BY <1>7, StoredByte
  <2> QED
    BY <1>5, <2>1, <2>2
<1>14. CASE UNCHANGED buffer
  <2>1. Len(buffer) \in Nat
    BY DEF ObjectsInv, BufferOK
  <2>2. \A x \in DOMAIN mem : \A p \in DOMAIN mem[x] : View(x, p)' = View(x, p)
    BY <1>13, <1>14, <2>1, StoredLatest DEF View
  <2> QED
    BY <1>11, <1>12, <2>2, SeenUnchanged DEF Maps
<1>15. CASE buffer' = Append(buffer, Entry("bwrite", b, o, 1, [byte EXCEPT ![h] = v]))
  <2>1. PICK new \in MemByte : new = [byte EXCEPT ![h] = v]
    BY <1>7 DEF MemByte
  <2>2. PICK e : e = Entry("bwrite", b, o, 1, new)
    OBVIOUS
  <2>3. o + 1 - 1 = o /\ 1 \in Nat \ {0}
    BY <1>9
  <2>4. o + 1 - 1 \in DOMAIN mem[b]
    BY <2>3
  <2>5. /\ e \in Entries /\ e.base = b /\ DOMAIN e.at = o .. o + 1 - 1
        /\ \A x \in o .. o + 1 - 1 : e.at[x] = new
    BY <1>9, <2>2, <2>3, <2>4, EntryType DEF ObjectsInv
  <2>6. DOMAIN e.at = {o} /\ e.at[o] = new
    <3>1. o .. o = {o}
      BY <1>9
    <3> QED
      BY <2>3, <2>5, <3>1
  <2>7. buffer' = Append(buffer, e)
    BY <1>15, <2>1, <2>2
  <2>8. \A x \in DOMAIN mem : \A p \in DOMAIN mem[x] :
          /\ Hits(e, x, p) => View(x, p)' = e.at[p]
          /\ ~Hits(e, x, p) => View(x, p)' = View(x, p)
    BY <1>13, <2>5, <2>7, AppendedView
  <2>9. \A x, p : Hits(e, x, p) <=> x = b /\ p \in {o}
    BY <2>5, <2>6 DEF Hits
  <2>10. \A x \in DOMAIN mem : \A p \in DOMAIN mem[x] :
           ~(x = b /\ p \in {o}) => View(x, p)' = View(x, p)
    BY <2>8, <2>9
  <2>11. ASSUME NEW p \in {o}
         PROVE  View(b, p)' = [i \in 1 .. 2 |-> IF i \in {h} THEN v ELSE View(b, p)[i]]
    <3>1. View(b, o)' = new
      BY <2>6, <2>8, <2>9
    <3>2. new = [i \in 1 .. 2 |-> IF i \in {h} THEN v ELSE byte[i]]
      BY <1>7, <2>1 DEF MemByte
    <3> QED
      BY <1>7, <3>1, <3>2
  <2>12. Buffered!Store(b, {o}, {h}, v)
    <3>1. {o} \subseteq DOMAIN mem[b]
      OBVIOUS
    <3> QED
      BY <1>11, <1>12, <2>10, <2>11, <3>1, SeenStored
  <2>13. {o} \in SUBSET Offsets /\ {h} \in SUBSET (1 .. 2)
    BY <1>9
  <2> QED
    BY <1>9, <2>12, <2>13, StoreMaps
<1> QED
  BY <1>10, <1>14, <1>15 DEF BufferedWrite

LEMMA ReadMaps ==
  ASSUME ObjectsInv, Read
  PROVE  Maps
<1> DEFINE s == Head(k)
<1>1. PICK b \in DOMAIN mem : b = s.base
  BY DEF Read, Live
<1>2. s \in Statements /\ s.op = "read"
  BY AtStatement DEF Read, AtHead, ObjectsInv
<1>3. PICK o \in Offsets : o = s.off /\ b \in Bases
  BY <1>1, <1>2, StatementType
<1>4. o \in DOMAIN mem[b] => Seen[b][o] = Stored(mem[b][o])
  <2>1. DOMAIN buffer = 1 .. Len(buffer)
    BY DEF ObjectsInv, BufferOK
  <2>2. NoHit(buffer, Len(buffer), b, o)
    BY <1>1, <1>3, <2>1 DEF Read, Settled, NoHit, Hits
  <2> QED
    BY <2>2, ViewCases, SeenDomains
<1>5. result' = IF o \in DOMAIN mem[b] THEN Stored(mem[b][o]) ELSE TrapByte
  BY <1>1, <1>3 DEF Read, Stored
<1>6. Seen' = Seen
  BY DEF Read, Seen
<1>7. Buffered!Load(b, o)
  <2>1. Buffered!TrapByte = TrapByte
    BY DEF Buffered!TrapByte, TrapByte
  <2>2. b \in DOMAIN Seen /\ DOMAIN Seen[b] = DOMAIN mem[b]
    BY SeenDomains
  <2> QED
    BY <1>4, <1>5, <1>6, <2>1, <2>2 DEF Buffered!Load
<1>8. b \in Buffered!Bases /\ o \in 0 .. MaxLen
  BY <1>3, ObjectsAssumption DEF Bases, Buffered!Bases, Offsets
<1> QED
  BY <1>7, <1>8 DEF Maps, Buffered!Next

LEMMA FlushMaps ==
  ASSUME ObjectsInv, Flush
  PROVE  Maps
<1>1. buffer \in Seq(Entries) /\ buffer # <<>>
  BY DEF ObjectsInv, BufferOK, Flush
<1>2. PICK e \in Entries : e = Head(buffer)
  BY <1>1
<1>3. e.base \in DOMAIN mem
  BY <1>2 DEF Flush, Live
<1>4. PICK m : m = Overwritten(mem[e.base], e)
  OBVIOUS
<1>5. Object(m) /\ DOMAIN m = DOMAIN mem[e.base]
  BY <1>3, <1>4, OverwrittenObject DEF ObjectsInv, MemOK
<1>6. mem' = [mem EXCEPT ![e.base] = m]
  BY <1>2, <1>4 DEF Flush, bufferWrite, Overwritten
<1>7. SameShape
  BY <1>3, <1>5, <1>6, ContentsChanged DEF Flush, ObjectsInv
<1>8. ASSUME NEW b \in DOMAIN mem, NEW o \in DOMAIN mem[b]
      PROVE  View(b, o)' = View(b, o)
  <2>1. PICK new : new = mem'[b][o]
    OBVIOUS
  <2>2. new = IF Hits(e, b, o) THEN e.at[o] ELSE mem[b][o]
    BY <1>4, <1>6, <2>1 DEF Hits, Overwritten
  <2>3. Latest(Tail(buffer), Len(Tail(buffer)), b, o, new) =
          Latest(buffer, Len(buffer), b, o, mem[b][o])
    BY <1>1, <1>2, <2>2, LatestFlushed
  <2>4. buffer' = Tail(buffer)
    BY DEF Flush
  <2> QED
    BY <2>1, <2>3, <2>4 DEF View
<1> QED
  BY <1>7, <1>8, SeenUnchanged DEF Maps, Flush

(* The buffer has no write to an object that is created.                   *)
LEMMA FreshObject ==
  ASSUME ObjectsInv, NEW b \in Nat, nextBase <= b, NEW o
  PROVE  NoHit(buffer, Len(buffer), b, o)
<1>1. \A i \in 1 .. Len(buffer) : buffer[i] \in Entries /\ buffer[i].base < nextBase
  BY DEF ObjectsInv, BufferOK
<1>2. \A i \in 1 .. Len(buffer) : buffer[i].base \in Nat
  BY <1>1 DEF Entries
<1>3. nextBase \in Nat
  BY DEF ObjectsInv, MemOK
<1>4. \A i \in 1 .. Len(buffer) : buffer[i].base # b
  BY <1>1, <1>2, <1>3
<1> QED
  BY <1>4 DEF NoHit, Hits

LEMMA CreateMaps ==
  ASSUME ObjectsInv, nextBase <= MaxBase, NEW n \in Lens, NEW v \in {trap, 0},
         NEW byte, Stored(byte) = Whole(v), NEW m, m = [o \in 0 .. n - 1 |-> byte],
         mem' = [x \in DOMAIN mem \cup {nextBase} |-> IF x = nextBase THEN m ELSE mem[x]],
         UNCHANGED <<buffer, result>>
  PROVE  Maps
<1>1. PICK b \in Bases : b = nextBase /\ b \notin DOMAIN mem /\ b \in Nat
  BY ObjectsAssumption DEF ObjectsInv, MemOK, Bases
<1>2. /\ DOMAIN mem' = DOMAIN mem \cup {b} /\ mem'[b] = m
      /\ \A x \in DOMAIN mem : mem'[x] = mem[x]
  BY <1>1
<1>3. \A x \in DOMAIN mem : \A o \in DOMAIN mem[x] : View(x, o)' = View(x, o)
  BY <1>2 DEF View
<1>4. \A o \in 0 .. n - 1 : View(b, o)' = Whole(v)
  <2> SUFFICES ASSUME NEW o \in 0 .. n - 1
               PROVE  View(b, o)' = Whole(v)
    OBVIOUS
  <2>1. mem'[b][o] = byte
    BY <1>2
  <2>2. NoHit(buffer, Len(buffer), b, o) /\ Len(buffer) \in Nat
    BY <1>1, FreshObject DEF ObjectsInv, BufferOK
  <2>3. Latest(buffer, Len(buffer), b, o, byte) = byte
    BY <2>2, LatestValue
  <2> QED
    BY <2>1, <2>3 DEF View
<1>5. \A x \in DOMAIN mem : Seen[x] = [o \in DOMAIN mem[x] |-> View(x, o)']
  BY <1>3, SeenIsView
<1>6. DOMAIN m = 0 .. n - 1
  OBVIOUS
<1>7. Seen' = [x \in DOMAIN Seen \cup {b} |->
                 IF x # b THEN Seen[x] ELSE [o \in 0 .. n - 1 |-> [h \in 1 .. 2 |-> v]]]
  <2>1. [o \in DOMAIN mem'[b] |-> View(b, o)'] = [o \in 0 .. n - 1 |-> [h \in 1 .. 2 |-> v]]
    BY <1>2, <1>4, <1>6 DEF Whole
  <2>2. Seen' = [x \in DOMAIN mem \cup {b} |-> [o \in DOMAIN mem'[x] |-> View(x, o)']]
    BY <1>2, SeenNext
  <2>3. DOMAIN Seen = DOMAIN mem
    BY SeenDomains
  <2>4. \A x \in DOMAIN mem : Seen[x] = [o \in DOMAIN mem'[x] |-> View(x, o)']
    BY <1>2, <1>5
  <2>5. PICK new : new = [o \in 0 .. n - 1 |-> [h \in 1 .. 2 |-> v]]
    OBVIOUS
  <2>6. \A x \in DOMAIN mem \cup {b} :
          [o \in DOMAIN mem'[x] |-> View(x, o)'] = IF x # b THEN Seen[x] ELSE new
    BY <1>1, <2>1, <2>4, <2>5
  <2>7. Seen' = [x \in DOMAIN mem \cup {b} |-> IF x # b THEN Seen[x] ELSE new]
    BY <2>2, <2>6, ZenonT(60)
  <2> QED
    BY <2>3, <2>5, <2>7
<1>8. Buffered!Create(b, n, v)
  BY <1>1, <1>7, SeenDomains DEF Buffered!Create
<1>9. b \in Buffered!Bases /\ n \in 0 .. MaxLen
  BY DEF Bases, Buffered!Bases, Lens
<1> QED
  BY <1>8, <1>9 DEF Maps, Buffered!Next

LEMMA TrapWhole == Stored(uninit) = Whole(trap) /\ Stored(Whole(0)) = Whole(0)
<1>1. Whole(0) \in MemByte
  BY WholeByte, ObjectsAssumption
<1> QED
  BY <1>1, StoredByte DEF TrapByte, Whole

LEMMA DeclareLocalMaps ==
  ASSUME ObjectsInv, DeclareLocal
  PROVE  Maps
<1>1. Head(k) \in Statements /\ Ready(Head(k)) /\ Head(k).op = "declare"
  BY AtStatement DEF ObjectsInv, DeclareLocal, AtHead
<1>2. PICK n \in Lens : n = Head(k).len /\ nextBase <= MaxBase
  BY <1>1, StatementType DEF Ready
<1>3. PICK m : m = [o \in 0 .. n - 1 |-> uninit]
  OBVIOUS
<1>4. mem' = [x \in DOMAIN mem \cup {nextBase} |-> IF x = nextBase THEN m ELSE mem[x]]
  BY <1>2, <1>3 DEF DeclareLocal, alloc
<1>5. PICK v \in {trap, 0}, byte \in {uninit, Whole(0)} :
        v = trap /\ byte = uninit /\ Stored(byte) = Whole(v)
  BY TrapWhole
<1>6. UNCHANGED <<buffer, result>> /\ m = [o \in 0 .. n - 1 |-> byte]
  BY <1>3, <1>5 DEF DeclareLocal
<1> QED
  BY <1>2, <1>4, <1>5, <1>6, CreateMaps

LEMMA MallocMaps ==
  ASSUME ObjectsInv, Malloc
  PROVE  Maps
<1>1. k # <<>> /\ Head(k).op \in {"malloc", "calloc"}
  BY DEF Malloc, AtHead
<1>2. Head(k) \in Statements /\ Ready(Head(k))
  BY <1>1, AtStatement DEF ObjectsInv
<1>3. PICK n \in Lens : n = Head(k).len /\ nextBase <= MaxBase
  BY <1>1, <1>2, StatementType DEF Ready
<1>4. UNCHANGED <<buffer, result>>
  BY DEF Malloc
<1>5. CASE UNCHANGED mem
  BY <1>4, <1>5, StutterMaps
<1>6. CASE mem' = alloc(nextBase, n, IF AtHead("calloc") THEN Whole(0) ELSE uninit)
  <2>1. PICK v \in {trap, 0}, byte \in {uninit, Whole(0)} :
          /\ Stored(byte) = Whole(v)
          /\ byte = IF AtHead("calloc") THEN Whole(0) ELSE uninit
    BY TrapWhole
  <2>2. PICK m : m = [o \in 0 .. n - 1 |-> byte]
    OBVIOUS
  <2>3. mem' = [x \in DOMAIN mem \cup {nextBase} |-> IF x = nextBase THEN m ELSE mem[x]]
    BY <1>6, <2>1, <2>2 DEF alloc
  <2> QED
    BY <1>3, <1>4, <2>1, <2>2, <2>3, CreateMaps
<1> QED
  BY <1>3, <1>5, <1>6 DEF Malloc

(* The objects bs end, with their buffered writes.                         *)
LEMMA EndMaps ==
  ASSUME ObjectsInv, NEW bs, bs \subseteq DOMAIN mem, mem' = [x \in DOMAIN mem \ bs |-> mem[x]],
         buffer' = filterBuffer(buffer, bs), UNCHANGED result
  PROVE  Maps
<1>1. buffer \in Seq(Entries)
  BY DEF ObjectsInv, BufferOK
<1>2. ASSUME NEW x \in DOMAIN mem \ bs, NEW o
      PROVE  View(x, o)' = View(x, o)
  <2>1. PICK d : d = mem[x][o]
    OBVIOUS
  <2>2. Latest(buffer', Len(buffer'), x, o, d) = Latest(buffer, Len(buffer), x, o, d)
    BY <1>1, LatestFiltered
  <2>3. mem'[x][o] = d
    BY <2>1
  <2> QED
    BY <2>1, <2>2, <2>3 DEF View
<1>3. Seen' = [x \in DOMAIN mem \ bs |-> [o \in DOMAIN mem'[x] |-> View(x, o)']]
  BY SeenNext
<1>4. \A x \in DOMAIN mem \ bs : Seen[x] = [o \in DOMAIN mem'[x] |-> View(x, o)']
  BY <1>2, SeenIsView
<1>5. Seen' = [x \in DOMAIN Seen \ bs |-> Seen[x]]
  BY <1>3, <1>4, SeenDomains
<1>6. Buffered!End(bs)
  BY <1>5, SeenDomains DEF Buffered!End, Restrict, Buffered!Restrict
<1>7. bs \in SUBSET Buffered!Bases
  BY ObjectsAssumption DEF ObjectsInv, MemOK, Buffered!Bases
<1> QED
  BY <1>6, <1>7 DEF Maps, Buffered!Next

LEMMA PopBlockMaps ==
  ASSUME ObjectsInv, PopBlock
  PROVE  Maps
<1>1. blocks \in Seq(SUBSET DOMAIN mem) /\ Len(blocks) # 0
  BY DEF ObjectsInv, BlocksOK
<1>2. PICK bs : bs = Head(blocks) /\ bs \subseteq DOMAIN mem
  BY <1>1
<1> QED
  BY <1>2, EndMaps DEF PopBlock, Restrict

LEMMA FreeMaps ==
  ASSUME ObjectsInv, Free
  PROVE  Maps
<1>1. PICK bs : bs = {Head(k).base} /\ bs \subseteq DOMAIN mem
  BY DEF Free, ObjectsInv, MallocedOK
<1> QED
  BY <1>1, EndMaps DEF Free, deleteObject, Restrict

LEMMA EmptyView ==
  ASSUME buffer = <<>>, NEW b, NEW o
  PROVE  View(b, o) = Stored(mem[b][o])
<1>1. NoHit(buffer, 0, b, o) /\ Len(buffer) = 0
  BY DEF NoHit
<1> QED
  BY <1>1, LatestValue DEF View

LEMMA EmptyViewNext ==
  ASSUME buffer' = <<>>, NEW b, NEW o
  PROVE  View(b, o)' = Stored(mem'[b][o])
<1>1. NoHit(buffer', 0, b, o) /\ Len(buffer') = 0
  BY DEF NoHit
<1>2. PICK d : d = mem'[b][o]
  OBVIOUS
<1>3. Latest(buffer', Len(buffer'), b, o, d) = d
  BY <1>1, LatestValue
<1> QED
  BY <1>2, <1>3 DEF View

LEMMA ReallocMaps ==
  ASSUME ObjectsInv, Realloc
  PROVE  Maps
<1>1. Head(k) \in Statements /\ Ready(Head(k)) /\ Head(k).op = "realloc"
  BY AtStatement DEF ObjectsInv, Realloc, AtHead
<1>2. PICK n \in Lens, b \in DOMAIN malloced :
        n = Head(k).len /\ nextBase <= MaxBase /\ b = Head(k).base
  BY <1>1, StatementType DEF Ready, Realloc
<1>3. b \in DOMAIN mem /\ malloced[b] \in Lens /\ DOMAIN mem[b] = 0 .. malloced[b] - 1
  BY DEF ObjectsInv, MallocedOK
<1>4. PICK c \in Bases : c = nextBase /\ c \notin DOMAIN mem /\ b # c /\ b \in Bases
  BY <1>2, <1>3, ObjectsAssumption DEF ObjectsInv, MemOK, Bases
<1>5. PICK m : m = [o \in 0 .. n - 1 |-> IF o < malloced[b] THEN mem[b][o] ELSE uninit]
  OBVIOUS
<1>6. /\ mem' = [x \in (DOMAIN mem \ {b}) \cup {c} |-> IF x # c THEN mem[x] ELSE m]
      /\ buffer = <<>> /\ buffer' = <<>> /\ result' = result
  BY <1>2, <1>4, <1>5, NothingFiltered DEF Realloc, Drained
<1>7. /\ DOMAIN mem' = (DOMAIN mem \ {b}) \cup {c} /\ mem'[c] = m
      /\ \A x \in DOMAIN mem \ {b} : mem'[x] = mem[x]
  BY <1>4, <1>6
<1>8. PICK new : new = [o \in 0 .. n - 1 |->
                          IF o \in DOMAIN Seen[b] THEN Seen[b][o] ELSE TrapByte]
  OBVIOUS
<1>9. [o \in DOMAIN mem'[c] |-> View(c, o)'] = new
  <2>1. DOMAIN mem'[c] = 0 .. n - 1
    BY <1>5, <1>7
  <2>2. ASSUME NEW o \in 0 .. n - 1
        PROVE  View(c, o)' = IF o \in DOMAIN Seen[b] THEN Seen[b][o] ELSE TrapByte
    <3>1. View(c, o)' = Stored(m[o])
      BY <1>6, <1>7, EmptyViewNext
    <3>2. DOMAIN Seen[b] = DOMAIN mem[b]
      BY <1>3, SeenDomains
    <3>3. o \in DOMAIN mem[b] <=> o < malloced[b]
      BY <1>3 DEF Lens
    <3>4. CASE o \in DOMAIN mem[b]
      <4>1. m[o] = mem[b][o]
        BY <1>5, <3>3, <3>4
      <4>2. Seen[b][o] = Stored(mem[b][o])
        BY <1>3, <1>6, <3>4, SeenDomains, EmptyView
      <4> QED
        BY <3>1, <3>2, <3>4, <4>1, <4>2
    <3>5. CASE o \notin DOMAIN mem[b]
      <4>1. m[o] = uninit
        BY <1>5, <3>3, <3>5
      <4> QED
        BY <3>1, <3>2, <3>5, <4>1 DEF Stored
    <3> QED
      BY <3>4, <3>5
  <2> QED
    BY <1>8, <2>1, <2>2
<1>10. \A x \in DOMAIN mem \ {b} : Seen[x] = [o \in DOMAIN mem'[x] |-> View(x, o)']
  <2>1. ASSUME NEW x \in DOMAIN mem \ {b}, NEW o \in DOMAIN mem[x]
        PROVE  View(x, o)' = View(x, o)
    <3>1. View(x, o)' = Stored(mem'[x][o])
      BY <1>6, EmptyViewNext
    <3>2. View(x, o) = Stored(mem[x][o])
      BY <1>6, EmptyView
    <3> QED
      BY <1>7, <3>1, <3>2
  <2> QED
    BY <1>7, <2>1, SeenIsView
<1>11. Seen' = [x \in (DOMAIN Seen \ {b}) \cup {c} |-> IF x # c THEN Seen[x] ELSE new]
  <2>1. Seen' = [x \in (DOMAIN mem \ {b}) \cup {c} |-> [o \in DOMAIN mem'[x] |-> View(x, o)']]
    BY <1>7, SeenNext
  <2>2. \A x \in (DOMAIN mem \ {b}) \cup {c} :
          [o \in DOMAIN mem'[x] |-> View(x, o)'] = IF x # c THEN Seen[x] ELSE new
    BY <1>4, <1>9, <1>10
  <2>3. Seen' = [x \in (DOMAIN mem \ {b}) \cup {c} |-> IF x # c THEN Seen[x] ELSE new]
    BY <2>1, <2>2
  <2> QED
    BY <2>3, SeenDomains
<1>12. Buffered!Move(b, c, n)
  <2>1. Buffered!TrapByte = TrapByte
    BY DEF Buffered!TrapByte, TrapByte
  <2>2. b \in DOMAIN Seen /\ c \notin DOMAIN Seen
    BY <1>3, <1>4, SeenDomains
  <2> QED
    BY <1>6, <1>8, <1>11, <2>1, <2>2 DEF Buffered!Move
<1>13. b \in Buffered!Bases /\ c \in Buffered!Bases /\ n \in 0 .. MaxLen
  BY <1>4 DEF Bases, Buffered!Bases, Lens
<1> QED
  BY <1>12, <1>13 DEF Maps, Buffered!Next

-----------------------------------------------------------------------------
LEMMA StepMaps ==
  ASSUME ObjectsInv, [Next]_vars
  PROVE  Maps
<1>1. CASE UNCHANGED vars \/ DeadUse \/ PushBlock \/ SequencePoint \/ NotMalloced
  BY <1>1, StutterMaps DEF vars, DeadUse, PushBlock, SequencePoint, NotMalloced
<1>2. CASE \E s \in Statements : Issue(s)
  BY <1>2, StutterMaps DEF Issue
<1>3. CASE Next
  BY <1>1, <1>2, <1>3, PopBlockMaps, DeclareLocalMaps, ZeroMaps, InitializerMaps, WriteMaps,
     BitWriteMaps, ReadMaps, MallocMaps, ReallocMaps, FreeMaps, FlushMaps DEF Next
<1> QED
  BY <1>1, <1>3

(* The store buffer is invisible (MemorySpec): what the program reads,     *)
(* copies with realloc and rewrites with a bit-field is what Memory, where *)
(* every write is immediate, gives it.                                     *)
THEOREM BufferInvisible == Spec => MemorySpec
<1>1. Init => Buffered!Init
  <2> SUFFICES ASSUME Init
               PROVE  Buffered!Init
    OBVIOUS
  <2>1. DOMAIN mem = {}
    BY DEF Init
  <2>2. Seen = [b \in {} |-> {}]
    BY <2>1 DEF Seen
  <2> QED
    BY <2>2 DEF Init, Buffered!Init, TrapByte, Buffered!TrapByte
<1>2. ObjectsInv /\ [Next]_vars => [Buffered!Next]_<<Seen, result>>
  BY StepMaps DEF Maps
<1> QED
  BY <1>1, <1>2, ObjectsInvariant, PTL DEF Spec, MemorySpec, Buffered!Spec
====
