----------------------------- MODULE StdioProofs -----------------------------
(***************************************************************************)
(* Theorems about Stdio, for any streams, characters, buffer sizes and     *)
(* lengths of the program: threads that print lose nothing, however many   *)
(* they are; and for a program of one thread, the position of a stream     *)
(* fits its buffers and stdout is complete at the end.                     *)
(***************************************************************************)
EXTENDS Stdio, FiniteSetTheorems, DataInduction

-----------------------------------------------------------------------------
(* The inductive invariant of a program of one thread.                     *)

OneThread == \E t : Threads = {t}
Here == CHOOSE t : Threads = {t}

Texts == Seq(Chars)
NextBytes == {<<>>, <<EOF>>} \cup {<<c>> : c \in Chars}
FileCell ==
  [pos : Int, mode : Modes, nextByte : NextBytes, readBuffer : Texts,
   writeBuffer : Texts, bufMode : BufModes, bufSize : Nat,
   sending : Seq(Texts), done : Texts, feof : BOOLEAN, ferror : BOOLEAN,
   lastOp : LastOps]

(* What <k> can hold: first what sends characters, then the rest.          *)
Wheres == {<<"cur", -1>>, <<"cur", 1>>, <<"end", 0>>, <<"set", 0>>}
FlushItems ==
  [op : {"flush"}, fd : Streams]
    \cup [op : {"sendString", "sent"}, fd : Streams, arg : Texts]
RestItems ==
  Statements \cup [op : {"flush", "flushAll", "fillBuffer", "close"}, fd : Streams]
    \cup [op : {"writeFD"}, fd : Streams, arg : Strings]
    \cup [op : {"readFD"}, fd : Streams, arg : 1 .. MaxString]
    \cup [op : {"seek"}, fd : Streams, arg : Wheres]
    \cup {[op |-> "HALT"], [op |-> "end"]}
Items == FlushItems \cup RestItems

halt == [op |-> "HALT"]
end == [op |-> "end"]

(* What the head of A still sends to x.                                    *)
Sending(A, x) ==
  IF A # <<>> /\ A[1].op = "sendString" /\ A[1].fd = x THEN A[1].arg ELSE <<>>
InFlush(A, x) == \E i \in 1 .. Len(A) : A[i] = call("flush", x)
ReadsLast(R, x) == R # <<>> /\ R[Len(R)].op = "readFD" /\ R[Len(R)].fd = x

(* A character is ahead of the read buffer.                                *)
Ahead(f) == IF f.nextByte \in {<<>>, <<EOF>>} THEN 0 ELSE 1

(* The cell f of an open stream x, whose descriptor is at o in a file of n *)
(* characters, while <k> is A and then R.                                  *)
GoodCell(f, o, n, x, A, R) ==
  /\ f \in FileCell
  /\ f.pos = o + Len(Sending(A, x)) + Len(f.writeBuffer) - Len(f.readBuffer) - Ahead(f)
  /\ Ahead(f) = 1 => A = <<>> /\ R # <<>> /\ R[1] = call("fillBuffer", x)
  /\ f.readBuffer # <<>> => f.lastOp = "inputOp" \/ ReadsLast(R, x)
  /\ f.writeBuffer # <<>> => f.lastOp = "outputOp" \/ InFlush(A, x)
  /\ f.feof \/ f.nextByte = <<EOF>> => o = n
CellOK(x, A, R) == GoodCell(files[x], offset[x], Len(os[uri[x]]), x, A, R)

(* The length of the file once everything is sent.                         *)
Extent(x, A) ==
  LET e == offset[x] + Len(Sending(A, x)) + Len(files[x].writeBuffer)
      n == Len(os[uri[x]])
  IN  IF e > n THEN e ELSE n

(* Nothing is left to send to x after A.                                   *)
Flushes(A, x) == files[x].writeBuffer = <<>> \/ InFlush(A, x)

(* A call that may be made.                                                *)
MayRead(x) ==
  program.disciplined => files[x].lastOp # "outputOp" /\ ~files[x].ferror
Reaches(x, A, n) == files[x].pos + n \in 0 .. Extent(x, A)
Issued(s) ==
  /\ s.op \in {"fflushAll", "exit"} \/ (s.op = "fopen" <=> ~Open(s.fd))
  /\ s.op = "fread" => MayRead(s.fd)
  /\ s.op = "ungetc" => files[s.fd].lastOp = "inputOp" /\ files[s.fd].pos > 0
  /\ s.op = "fseekCur" => Reaches(s.fd, <<>>, s.arg)

Calling(A, R) == A = <<>> /\ \E s \in Statements : R = <<s>> /\ Issued(s)
Writing(A, R) ==
  /\ A = <<>>
  /\ \/ \E x \in DOMAIN files, s \in Strings : R = <<callWith("writeFD", x, s)>>
     \/ /\ Open(stdout)
        /\ R = <<callWith("writeFD", stdout, <<nl>>), call("flush", stdout), end>>
Reading(A, R) ==
  \E x \in DOMAIN files, n \in 1 .. MaxString :
    /\ MayRead(x)
    /\ LET read == callWith("readFD", x, n)
           fill == call("fillBuffer", x)
           all == call("flushAll", x)
       IN
       \/ R = <<read>> \/ R = <<fill, read>>
       \/ A = <<>> /\ (R = <<all, read>> \/ R = <<all, fill, read>>)
Seeking(A, R) ==
  \E x \in DOMAIN files, w \in Wheres :
    /\ R = <<callWith("seek", x, w)>> \/ R = <<callWith("seek", x, w), call("clearerr", x)>>
    /\ w[1] = "cur" => Reaches(x, A, w[2])
    /\ Flushes(A, x)
Closing(A, R) == \E x \in DOMAIN files : R = <<call("close", x)>> /\ Flushes(A, x)
Ending(A, R) == R = <<end>> /\ (Open(stdout) => Flushes(A, stdout))
Halting(A, R) == A = <<>> /\ R # <<>> /\ R[1] = halt

RestOK(A, R) ==
  \/ R = <<>> \/ Calling(A, R) \/ Writing(A, R) \/ Reading(A, R) \/ Seeking(A, R)
  \/ Closing(A, R) \/ Ending(A, R) \/ Halting(A, R)

(* <k> is A and then R.                                                    *)
Doing(A, R) ==
  /\ k[Here] = A \o R
  /\ \A i \in 1 .. Len(A) : A[i].op = "sendString" => i = 1 /\ Open(A[i].fd)
  /\ RestOK(A, R)
  /\ \A x \in DOMAIN files : CellOK(x, A, R)
  /\ status = "terminated" =>
       /\ A = <<>> /\ R = <<>>
       /\ Open(stdout) => files[stdout].writeBuffer = <<>>

Openable(D) == D \subseteq Streams /\ IsFiniteSet(D)
OsOK ==
  /\ os \in [URIs -> Texts] /\ offset \in [Streams -> Nat]
  /\ \A x \in Streams : offset[x] <= Len(os[uri[x]])

StdioInv ==
  /\ k \in [Threads -> Seq(Items)] /\ Openable(DOMAIN files) /\ OsOK
  /\ program \in Programs /\ errors \subseteq Codes
  /\ status \in {"mainCalled", "mainExited", "terminated"}
  /\ \E A \in Seq(FlushItems), R \in Seq(RestItems) : Doing(A, R)

-----------------------------------------------------------------------------
(* What is being sent: the fold of Unsent over one thread.                 *)

SentPart(kk, t, x) ==
  FlattenSeq([i \in DOMAIN kk[t] |->
    IF kk[t][i].op = "sendString" /\ kk[t][i].fd = x THEN kk[t][i].arg ELSE <<>>])
UnsentIn(kk, x) ==
  FoldSet(LAMBDA t, s : s \o SentPart(kk, t, x), <<>>, Threads)

LEMMA UnsentOne ==
  ASSUME NEW h, Threads = {h}, NEW kk, NEW x
  PROVE  UnsentIn(kk, x) = <<>> \o SentPart(kk, h, x)
<1> DEFINE p(t) == SentPart(kk, t, x)
           G(f) == [s \in SUBSET Threads |->
                      IF s = {} THEN <<>>
                      ELSE f[s \ {CHOOSE z \in s : TRUE}] \o p(CHOOSE z \in s : TRUE)]
           g == [s \in SUBSET Threads |-> IF s = {} THEN <<>> ELSE <<>> \o p(h)]
           iter == CHOOSE f : f = G(f)
<1> HIDE DEF p
<1>1. g = G(g)
  <2>1. ASSUME NEW s \in SUBSET Threads, s # {}
        PROVE  (CHOOSE z \in s : TRUE) = h /\ s \ {h} = {}
    BY <2>1
  <2>2. \A s \in SUBSET Threads :
          g[s] = IF s = {} THEN <<>>
                 ELSE g[s \ {CHOOSE z \in s : TRUE}] \o p(CHOOSE z \in s : TRUE)
    BY <2>1
  <2> QED
    BY <2>2
<1>2. iter = G(iter)
  <2>1. \E f : f = G(f)
    <3> HIDE DEF g
    <3> QED
      BY <1>1
  <2> QED
    BY <2>1
<1>3. UnsentIn(kk, x) = iter[Threads]
  BY DEF UnsentIn, FoldSet, MapThenFoldSet, p
<1> HIDE DEF iter
<1>4. iter[{}] = <<>>
  BY <1>2
<1>5. iter[Threads] = iter[Threads \ {CHOOSE z \in Threads : TRUE}] \o p(CHOOSE z \in Threads : TRUE)
  BY <1>2
<1>6. (CHOOSE z \in Threads : TRUE) = h /\ Threads \ {h} = {}
  OBVIOUS
<1> QED
  BY <1>3, <1>4, <1>5, <1>6 DEF p

-----------------------------------------------------------------------------
(* Statements and items.                                                   *)

StatementOps ==
  {"fflush", "clearerr", "rewind", "fclose", "fputs", "fread", "ungetc", "fseekCur",
   "fseekEnd", "fopen", "setvbuf", "fflushAll", "exit", "abort"}

LEMMA StatementFacts ==
  ASSUME NEW s \in Statements
  PROVE  /\ s.op \in StatementOps /\ s.fd \in Streams
         /\ s.op = "fputs" => s.arg \in Strings
         /\ s.op = "fread" => s.arg \in 1 .. MaxString
         /\ s.op = "ungetc" => s.arg \in Chars
         /\ s.op = "fseekCur" => s.arg \in {-1, 1}
         /\ s.op = "fopen" => s.arg \in Modes
         /\ s.op = "setvbuf" => s.arg \in BufModes /\ s.size \in BufSizes
         /\ s.op \in {"fflushAll", "exit", "abort"} => s.fd = stdout
<1>1. CASE \E op \in {"fflush", "clearerr", "rewind", "fclose"}, x \in Streams : s = call(op, x)
  BY <1>1 DEF call, StatementOps
<1>2. CASE \E x \in Streams, c \in Strings : s = callWith("fputs", x, c)
  BY <1>2 DEF callWith, StatementOps
<1>3. CASE \E x \in Streams, n \in 1 .. MaxString : s = callWith("fread", x, n)
  BY <1>3 DEF callWith, StatementOps
<1>4. CASE \E x \in Streams, c \in Chars : s = callWith("ungetc", x, c)
  BY <1>4 DEF callWith, StatementOps
<1>5. CASE \E x \in Streams, n \in {-1, 1} : s = callWith("fseekCur", x, n)
  BY <1>5 DEF callWith, StatementOps
<1>6. CASE \E x \in Streams : s = call("fseekEnd", x)
  BY <1>6 DEF call, StatementOps
<1>7. CASE \E x \in Streams, m \in Modes : s = callWith("fopen", x, m)
  BY <1>7 DEF callWith, StatementOps
<1>8. CASE \E x \in Streams, m \in BufModes, n \in BufSizes : s = setvbuf(x, m, n)
  BY <1>8 DEF setvbuf, StatementOps
<1>9. CASE \E op \in {"fflushAll", "exit", "abort"} : s = call(op, stdout)
  BY <1>9, StdioAssumption DEF call, StatementOps
<1> QED
  BY <1>1, <1>2, <1>3, <1>4, <1>5, <1>6, <1>7, <1>8, <1>9 DEF Statements

LEMMA StringFacts ==
  ASSUME NEW s \in Strings
  PROVE  s \in Texts /\ s # <<>> /\ Len(s) \in 1 .. MaxString
<1>1. PICK m \in 0 .. MaxString : s \in [1 .. m -> Chars]
  BY DEF Strings, SeqOf
<1>2. s \in Texts /\ Len(s) = m
  BY <1>1, StdioAssumption, FunctionSeq DEF Texts
<1> QED
  BY <1>2, StdioAssumption DEF Strings, Texts

(* What an item of the rest is.                                            *)
LEMMA RestItemFacts ==
  ASSUME NEW r \in RestItems
  PROVE  r.op \notin {"sendString", "sent"}
<1>1. CASE r \in Statements
  BY <1>1, StatementFacts DEF StatementOps
<1>2. CASE r \notin Statements
  BY <1>2 DEF RestItems
<1> QED
  BY <1>1, <1>2

LEMMA FlushItemFacts ==
  ASSUME NEW r \in FlushItems
  PROVE  /\ r.op \in {"flush", "sendString", "sent"} /\ r.fd \in Streams
         /\ r.op \in {"sendString", "sent"} => r.arg \in Texts
         /\ r.op = "flush" => r = call("flush", r.fd)
         /\ r.op = "sendString" => r = callWith("sendString", r.fd, r.arg)
         /\ r.op = "sent" => r = callWith("sent", r.fd, r.arg)
BY DEF FlushItems, call, callWith

LEMMA MakeItems ==
  ASSUME NEW x \in Streams
  PROVE  /\ call("flush", x) \in FlushItems
         /\ \A s \in Texts : /\ callWith("sendString", x, s) \in FlushItems
                             /\ callWith("sent", x, s) \in FlushItems
         /\ \A op \in {"flush", "flushAll", "fillBuffer", "close"} : call(op, x) \in RestItems
         /\ \A s \in Strings : callWith("writeFD", x, s) \in RestItems
         /\ \A n \in 1 .. MaxString : callWith("readFD", x, n) \in RestItems
         /\ \A w \in Wheres : callWith("seek", x, w) \in RestItems
         /\ call("clearerr", x) \in Statements /\ call("clearerr", x) \in RestItems
         /\ halt \in RestItems /\ end \in RestItems
<1>1. call("clearerr", x) \in Statements
  BY DEF Statements
<1> QED
  BY <1>1 DEF FlushItems, RestItems, call, callWith, halt, end

OnlyFirst(A) == \A i \in 1 .. Len(A) : A[i].op = "sendString" => i = 1

LEMMA SendingType ==
  ASSUME NEW A \in Seq(FlushItems), NEW x
  PROVE  Sending(A, x) \in Texts /\ Len(Sending(A, x)) \in Nat
<1>1. CASE A # <<>>
  <2>1. A[1] \in FlushItems
    BY <1>1
  <2> QED
    BY <2>1, FlushItemFacts DEF Sending, Texts
<1>2. CASE A = <<>>
  BY <1>2 DEF Sending, Texts
<1> QED
  BY <1>1, <1>2

LEMMA SentHead ==
  ASSUME NEW A \in Seq(FlushItems), NEW R \in Seq(RestItems), OnlyFirst(A),
         NEW h, NEW kk, kk[h] = A \o R, NEW x
  PROVE  SentPart(kk, h, x) = Sending(A, x)
<1>1. PICK K \in Seq(Items) : K = A \o R
  <2>1. A \in Seq(Items) /\ R \in Seq(Items)
    BY DEF Items
  <2> QED
    BY <2>1, ConcatLaws
<1>2. /\ Len(K) = Len(A) + Len(R) /\ Len(A) \in Nat /\ Len(R) \in Nat
      /\ \A i \in 1 .. Len(A) : K[i] = A[i]
      /\ \A i \in 1 .. Len(R) : K[Len(A) + i] = R[i]
  <2>1. A \in Seq(Items) /\ R \in Seq(Items)
    BY DEF Items
  <2> QED
    BY <1>1, <2>1, ConcatLaws
<1>3. PICK n \in Nat : n = Len(K) /\ DOMAIN K = 1 .. n
  BY <1>1
<1>4. PICK ss : ss = [i \in 1 .. n |->
                        IF K[i].op = "sendString" /\ K[i].fd = x THEN K[i].arg ELSE <<>>]
  OBVIOUS
<1>5. SentPart(kk, h, x) = FlattenSeq(ss)
  BY <1>1, <1>3, <1>4 DEF SentPart
<1>6. \A i \in 1 .. n : i > 1 => ss[i] = <<>>
  <2> TAKE i \in 1 .. n
  <2> HAVE i > 1
  <2>1. CASE i <= Len(A)
    BY <1>2, <1>4, <2>1 DEF OnlyFirst
  <2>2. CASE i > Len(A)
    <3>1. PICK j \in 1 .. Len(R) : Len(A) + j = i
      <4>1. i - Len(A) \in 1 .. Len(R) /\ Len(A) + (i - Len(A)) = i
        BY <1>2, <1>3, <2>2
      <4> QED
        BY <4>1
    <3>2. K[i] = R[j] /\ R[j] \in RestItems
      BY <1>2, <3>1
    <3>3. K[i].op # "sendString"
      BY <3>2, RestItemFacts
    <3> QED
      BY <1>4, <3>3
  <2> QED
    BY <1>2, <2>1, <2>2
<1>7. n > 0 => ss[1] = Sending(A, x)
  <2>1. CASE A # <<>>
    <3>1. 1 \in 1 .. Len(A) /\ K[1] = A[1]
      BY <1>2, <2>1
    <3> QED
      BY <1>4, <2>1, <3>1 DEF Sending
  <2>2. CASE A = <<>> /\ n > 0
    <3>1. 1 \in 1 .. Len(R) /\ K[1] = R[1] /\ R[1] \in RestItems
      BY <1>2, <1>3, <2>2
    <3> QED
      BY <1>3, <1>4, <2>2, <3>1, RestItemFacts DEF Sending
  <2> QED
    BY <2>1, <2>2
<1>8. n = 0 => Sending(A, x) = <<>>
  BY <1>2, <1>3 DEF Sending
<1>9. PICK s \in Texts : s = Sending(A, x)
  BY SendingType
<1>10. ss \in Seq(Texts) /\ Len(ss) = n
  <2>1. ss = [i \in 1 .. n |-> ss[i]]
    BY <1>4
  <2>2. \A i \in 1 .. n : ss[i] \in Texts
    <3> TAKE i \in 1 .. n
    <3>1. <<>> \in Texts
      BY DEF Texts
    <3>2. i = 1 \/ i > 1
      OBVIOUS
    <3> QED
      BY <1>6, <1>7, <1>9, <3>1, <3>2
  <2> QED
    BY <2>1, <2>2, FunctionSeq
<1>11. PICK G : G = [i \in 0 .. n |-> IF i = 0 THEN <<>> ELSE s]
  OBVIOUS
<1>12. \A i \in 1 .. n : G[i] = G[i - 1] \o ss[i]
  <2> TAKE i \in 1 .. n
  <2>1. G[i] = s /\ (i = 1 => G[i - 1] = <<>>) /\ (i > 1 => G[i - 1] = s)
    BY <1>11
  <2>2. s \o <<>> = s /\ <<>> \o s = s
    BY EmptyLaws DEF Texts
  <2>3. CASE i = 1
    <3>1. ss[i] = s /\ G[i - 1] = <<>>
      BY <1>7, <1>9, <2>1, <2>3
    <3> QED
      BY <2>1, <2>2, <3>1, Zenon
  <2>4. CASE i > 1
    <3>1. ss[i] = <<>> /\ G[i - 1] = s
      BY <1>6, <2>1, <2>4
    <3> QED
      BY <2>1, <2>2, <3>1, Zenon
  <2>5. i = 1 \/ i > 1
    OBVIOUS
  <2> QED
    BY <2>3, <2>4, <2>5, Zenon
<1>13. G[n] = <<>> \o FlattenSeq(ss)
  <2>1. <<>> \in Texts /\ G[0] = <<>>
    BY <1>11 DEF Texts
  <2> QED
    BY <1>10, <1>12, <2>1, FlattenUnique DEF Texts
<1>14. FlattenSeq(ss) \in Texts /\ G[n] = s
  BY <1>8, <1>9, <1>10, <1>11, FlattenType DEF Texts
<1> QED
  BY <1>5, <1>9, <1>13, <1>14, EmptyLaws DEF Texts

(* The definition of the module Stdio, for one thread.                     *)
LEMMA UnsentIs ==
  ASSUME OneThread, NEW A \in Seq(FlushItems), NEW R \in Seq(RestItems), OnlyFirst(A),
         NEW kk, kk[Here] = A \o R, NEW x
  PROVE  UnsentIn(kk, x) = Sending(A, x)
<1>1. Threads = {Here}
  BY DEF OneThread, Here
<1>2. UnsentIn(kk, x) = <<>> \o SentPart(kk, Here, x)
  BY <1>1, UnsentOne
<1>3. SentPart(kk, Here, x) = Sending(A, x)
  BY SentHead
<1> QED
  BY <1>2, <1>3, SendingType, EmptyLaws DEF Texts

LEMMA UnsentDef ==
  ASSUME NEW x
  PROVE  Unsent(x) = UnsentIn(k, x) /\ Unsent(x)' = UnsentIn(k', x)
<1>1. Unsent(x) = UnsentIn(k, x)
  BY Zenon DEF Unsent, UnsentIn, SentPart, FoldSet, MapThenFoldSet
<1>2. Unsent(x)' = UnsentIn(k', x)
  BY Zenon DEF Unsent, UnsentIn, SentPart, FoldSet, MapThenFoldSet
<1> QED
  BY <1>1, <1>2

-----------------------------------------------------------------------------
(* Writing into a file.                                                    *)

Overwritten(file, p, s, r) ==
  /\ r \in Texts
  /\ Len(r) = IF p + Len(s) > Len(file) THEN p + Len(s) ELSE Len(file)
  /\ \A i \in 1 .. p : r[i] = file[i]
  /\ \A i \in 1 .. Len(s) : r[p + i] = s[i]
  /\ \A i \in p + Len(s) + 1 .. Len(file) : r[i] = file[i]

LEMMA OverwriteFacts ==
  ASSUME NEW file \in Texts, NEW s \in Texts, NEW p \in Nat, p <= Len(file)
  PROVE  Overwritten(file, p, s, Overwrite(file, p, s))
<1> DEFINE a == SubSeq(file, 1, p)
           b == SubSeq(file, p + Len(s) + 1, Len(file))
           r == a \o s \o b
<1>0. Len(file) \in Nat /\ Len(s) \in Nat /\ s \in Seq(Chars) /\ file \in Seq(Chars)
  BY DEF Texts
<1>1. a \in Seq(Chars) /\ Len(a) = p /\ \A i \in 1 .. p : a[i] = file[i]
  <2>1. \A i \in 1 .. p : file[i] \in Chars
    BY <1>0
  <2> QED
    BY <2>1, SubSeqProperties
<1>2. /\ b \in Seq(Chars)
      /\ Len(b) = IF p + Len(s) + 1 <= Len(file) THEN Len(file) - (p + Len(s)) ELSE 0
      /\ \A i \in 1 .. Len(b) : b[i] = file[p + Len(s) + i]
  <2>1. \A i \in p + Len(s) + 1 .. Len(file) : file[i] \in Chars
    BY <1>0
  <2>2. p + Len(s) + 1 \in Int /\ Len(file) \in Int
    BY <1>0
  <2>3. /\ b \in Seq(Chars)
        /\ Len(b) = IF p + Len(s) + 1 <= Len(file) THEN Len(file) - (p + Len(s) + 1) + 1 ELSE 0
        /\ \A i \in 1 .. Len(file) - (p + Len(s) + 1) + 1 : b[i] = file[p + Len(s) + 1 + i - 1]
    BY <2>1, <2>2, SubSeqProperties
  <2> HIDE DEF b
  <2> QED
    BY <1>0, <2>3
<1> HIDE DEF a, b
<1>3. /\ r \in Seq(Chars) /\ Len(r) = Len(a) + Len(s) + Len(b)
      /\ \A j \in 1 .. Len(a) : r[j] = a[j]
      /\ \A j \in 1 .. Len(s) : r[Len(a) + j] = s[j]
      /\ \A j \in 1 .. Len(b) : r[Len(a) + Len(s) + j] = b[j]
  <2>1. a \in Seq(Chars) /\ b \in Seq(Chars)
    BY <1>1, <1>2
  <2> QED
    BY <1>0, <2>1, ConcatThree, SMTT(30)
<1>4. Overwrite(file, p, s) = r
  BY DEF Overwrite, a, b
<1> HIDE DEF r
<1>5. Len(r) = IF p + Len(s) > Len(file) THEN p + Len(s) ELSE Len(file)
  <2>1. Len(b) \in Int /\ Len(r) = p + Len(s) + Len(b)
    BY <1>0, <1>1, <1>2, <1>3
  <2>2. Len(b) = IF p + Len(s) + 1 <= Len(file) THEN Len(file) - (p + Len(s)) ELSE 0
    BY <1>2
  <2>3. PICK n \in Nat, m \in Nat, l \in Int, c \in Int :
          n = Len(file) /\ m = Len(s) /\ l = Len(b) /\ c = Len(r)
    BY <1>0, <2>1
  <2>4. c = p + m + l /\ l = IF p + m + 1 <= n THEN n - (p + m) ELSE 0
    BY <2>1, <2>2, <2>3
  <2>5. c = IF p + m > n THEN p + m ELSE n
    BY <2>4
  <2> QED
    BY <2>3, <2>5
<1>6. \A i \in p + Len(s) + 1 .. Len(file) : r[i] = file[i]
  <2> TAKE i \in p + Len(s) + 1 .. Len(file)
  <2>1. PICK j : j = i - (p + Len(s))
    OBVIOUS
  <2>2. j \in 1 .. Len(b) /\ Len(a) + Len(s) + j = i /\ p + Len(s) + j = i
    BY <1>0, <1>1, <1>2, <2>1
  <2>3. r[i] = b[j] /\ b[j] = file[i]
    BY <1>2, <1>3, <2>2
  <2> QED
    BY <2>3
<1> QED
  BY <1>1, <1>3, <1>4, <1>5, <1>6 DEF Overwritten, Texts

-----------------------------------------------------------------------------
(* The computation of the only thread.                                     *)

LEMMA Alone ==
  ASSUME OneThread
  PROVE  Threads = {Here} /\ Here \in Threads
BY DEF OneThread, Here

LEMMA ItemSeqs ==
  ASSUME NEW A \in Seq(FlushItems), NEW R \in Seq(RestItems)
  PROVE  A \in Seq(Items) /\ R \in Seq(Items) /\ A \o R \in Seq(Items)
<1>1. A \in Seq(Items) /\ R \in Seq(Items)
  BY DEF Items
<1> QED
  BY <1>1, ConcatLaws

(* The first item of A is replaced by the items ks.                        *)
LEMMA InA ==
  ASSUME NEW A \in Seq(FlushItems), NEW R \in Seq(RestItems), A # <<>>,
         NEW ks \in Seq(FlushItems)
  PROVE  /\ A \o R # <<>> /\ Head(A \o R) = A[1] /\ A[1] \in FlushItems
         /\ ks \o Tail(A) \in Seq(FlushItems)
         /\ ks \o Tail(A \o R) = (ks \o Tail(A)) \o R
<1>1. PICK K \in Seq(Items) : K = A \o R
  BY ItemSeqs
<1>2. /\ Len(K) = Len(A) + Len(R) /\ Len(A) \in Nat \ {0} /\ Len(R) \in Nat
      /\ \A i \in 1 .. Len(A) : K[i] = A[i]
      /\ \A i \in 1 .. Len(R) : K[Len(A) + i] = R[i]
  BY <1>1, ItemSeqs, ConcatLaws
<1>3. K # <<>> /\ Head(K) = A[1] /\ A[1] \in FlushItems
  BY <1>2
<1>4. PICK B \in Seq(FlushItems) :
        /\ B = Tail(A) /\ Len(B) = Len(A) - 1
        /\ \A i \in 1 .. Len(B) : B[i] = A[i + 1]
  BY HeadTailProperties
<1>5. PICK T \in Seq(Items) :
        /\ T = Tail(K) /\ Len(T) = Len(K) - 1
        /\ \A i \in 1 .. Len(T) : T[i] = K[i + 1]
  <2>1. /\ Tail(K) \in Seq(Items) /\ Len(Tail(K)) = Len(K) - 1
        /\ \A i \in 1 .. Len(Tail(K)) : Tail(K)[i] = K[i + 1]
    BY <1>3, HeadTailProperties
  <2> QED
    BY <2>1, Zenon
<1>6. T = B \o R
  <2>1. PICK C \in Seq(Items) : C = B \o R
    BY ItemSeqs
  <2>2. /\ Len(C) = Len(B) + Len(R)
        /\ \A i \in 1 .. Len(B) : C[i] = B[i]
        /\ \A i \in 1 .. Len(R) : C[Len(B) + i] = R[i]
    BY <2>1, ItemSeqs, ConcatLaws
  <2>3. Len(T) = Len(C)
    BY <1>2, <1>4, <1>5, <2>2
  <2>4. \A i \in 1 .. Len(T) : T[i] = C[i]
    <3> TAKE i \in 1 .. Len(T)
    <3>1. T[i] = K[i + 1]
      BY <1>5
    <3>2. CASE i <= Len(B)
      <4>1. i \in 1 .. Len(B) /\ i + 1 \in 1 .. Len(A)
        BY <1>2, <1>4, <3>2
      <4> QED
        BY <1>2, <1>4, <2>2, <3>1, <4>1
    <3>3. CASE i > Len(B)
      <4>1. PICK j : j = i - Len(B)
        OBVIOUS
      <4>2. j \in 1 .. Len(R) /\ Len(B) + j = i /\ Len(A) + j = i + 1
        BY <1>2, <1>4, <1>5, <3>3, <4>1
      <4>3. K[i + 1] = R[j] /\ C[i] = R[j]
        BY <1>2, <2>2, <4>2
      <4> QED
        BY <3>1, <4>3
    <3> QED
      BY <1>2, <1>4, <3>2, <3>3
  <2> QED
    BY <2>1, <2>3, <2>4, SeqEqual
<1>7. ks \o B \in Seq(FlushItems)
  BY ConcatLaws
<1>8. ks \o (B \o R) = (ks \o B) \o R
  <2>1. ks \in Seq(Items) /\ B \in Seq(Items) /\ R \in Seq(Items)
    BY ItemSeqs
  <2> QED
    BY <2>1, ConcatAssoc, SMTT(30)
<1> QED
  BY <1>1, <1>3, <1>4, <1>5, <1>6, <1>7, <1>8, Zenon

-----------------------------------------------------------------------------
(* What <k> is, by its first item.                                         *)

FlushOps == {"flush", "sendString", "sent"}

LEMMA RestKinds ==
  ASSUME NEW A, NEW R, RestOK(A, R), R # <<>>
  PROVE  /\ R[1].op \notin FlushOps
         /\ R[1].op \in StatementOps => Calling(A, R)
         /\ R[1].op = "writeFD" => Writing(A, R)
         /\ R[1].op \in {"readFD", "fillBuffer", "flushAll"} => Reading(A, R)
         /\ R[1].op = "seek" => Seeking(A, R)
         /\ R[1].op = "close" => Closing(A, R)
         /\ R[1].op = "end" => Ending(A, R)
<1> USE DEF FlushOps
<1>1. CASE Calling(A, R)
  <2>1. PICK s \in Statements : R = <<s>>
    BY <1>1 DEF Calling
  <2>2. R[1].op \in StatementOps
    BY <2>1, StatementFacts
  <2> QED
    BY <1>1, <2>2 DEF StatementOps
<1>2. CASE Writing(A, R)
  <2>1. R[1].op = "writeFD"
    BY <1>2 DEF Writing, callWith
  <2> QED
    BY <1>2, <2>1 DEF StatementOps
<1>3. CASE Reading(A, R)
  <2>1. R[1].op \in {"readFD", "fillBuffer", "flushAll"}
    BY <1>3 DEF Reading, callWith, call
  <2> QED
    BY <1>3, <2>1 DEF StatementOps
<1>4. CASE Seeking(A, R)
  <2>1. R[1].op = "seek"
    BY <1>4 DEF Seeking, callWith
  <2> QED
    BY <1>4, <2>1 DEF StatementOps
<1>5. CASE Closing(A, R)
  <2>1. R[1].op = "close"
    BY <1>5 DEF Closing, call
  <2> QED
    BY <1>5, <2>1 DEF StatementOps
<1>6. CASE Ending(A, R)
  <2>1. R[1].op = "end"
    BY <1>6 DEF Ending, end
  <2> QED
    BY <1>6, <2>1 DEF StatementOps
<1>7. CASE Halting(A, R)
  <2>1. R[1].op = "HALT"
    BY <1>7 DEF Halting, halt
  <2> QED
    BY <2>1 DEF StatementOps
<1> QED
  BY <1>1, <1>2, <1>3, <1>4, <1>5, <1>6, <1>7 DEF RestOK

LEMMA AtA ==
  ASSUME OneThread, StdioInv, NEW t \in Threads, k[t] # <<>>, Head(k[t]).op \in FlushOps
  PROVE  \E A \in Seq(FlushItems), R \in Seq(RestItems) :
           t = Here /\ Doing(A, R) /\ A # <<>> /\ Head(k[t]) = A[1]
<1>1. t = Here
  BY Alone
<1>2. PICK A \in Seq(FlushItems), R \in Seq(RestItems) : Doing(A, R)
  BY DEF StdioInv
<1>3. A # <<>>
  <2> SUFFICES ASSUME A = <<>> PROVE FALSE
    OBVIOUS
  <2>1. k[t] = R /\ R # <<>> /\ RestOK(A, R)
    BY <1>1, <1>2, EmptyLaws DEF Doing
  <2>2. Head(k[t]) = R[1]
    BY <2>1
  <2> QED
    BY <2>1, <2>2, RestKinds
<1>4. Head(k[t]) = A[1]
  BY <1>1, <1>2, <1>3, InA DEF Doing
<1> QED
  BY <1>1, <1>2, <1>3, <1>4

LEMMA AtR ==
  ASSUME OneThread, StdioInv, NEW t \in Threads, k[t] # <<>>, Head(k[t]).op \notin FlushOps
  PROVE  \E R \in Seq(RestItems) :
           t = Here /\ Doing(<<>>, R) /\ k[t] = R /\ R # <<>> /\ R[1] = Head(k[t])
<1>1. t = Here
  BY Alone
<1>2. PICK A \in Seq(FlushItems), R \in Seq(RestItems) : Doing(A, R)
  BY DEF StdioInv
<1>3. A = <<>>
  <2> SUFFICES ASSUME A # <<>> PROVE FALSE
    OBVIOUS
  <2>1. Head(k[t]) = A[1] /\ A[1] \in FlushItems
    BY <1>1, <1>2, InA DEF Doing
  <2> QED
    BY <2>1, FlushItemFacts DEF FlushOps
<1>4. k[t] = R
  BY <1>1, <1>2, <1>3, EmptyLaws DEF Doing
<1> QED
  BY <1>1, <1>2, <1>3, <1>4

(* The next state, once <k> is known.                                      *)
LEMMA Arrived ==
  ASSUME OneThread, StdioInv, NEW A \in Seq(FlushItems), NEW R \in Seq(RestItems),
         k' = [k EXCEPT ![Here] = A \o R], Openable(DOMAIN files'), OsOK',
         program' = program, errors' \subseteq Codes,
         status' \in {"mainCalled", "mainExited", "terminated"},
         \A i \in 1 .. Len(A) : A[i].op = "sendString" => i = 1 /\ Open(A[i].fd)',
         RestOK(A, R)', \A x \in DOMAIN files' : CellOK(x, A, R)',
         status' = "terminated" =>
           A = <<>> /\ R = <<>> /\ (Open(stdout)' => files'[stdout].writeBuffer = <<>>)
  PROVE  StdioInv'
<1>1. A \o R \in Seq(Items)
  BY ItemSeqs
<1>2. k' \in [Threads -> Seq(Items)] /\ k'[Here] = A \o R
  BY <1>1, Alone DEF StdioInv
<1>3. Doing(A, R)'
  BY <1>2 DEF Doing
<1> QED
  BY <1>2, <1>3 DEF StdioInv

(* A step that leaves the operating system's files alone.                  *)
AllFlush(A) == \A i \in 1 .. Len(A) : A[i].op = "flush"

LEMMA RestStep ==
  ASSUME OneThread, StdioInv, NEW A \in Seq(FlushItems), NEW R \in Seq(RestItems),
         AllFlush(A), NEW K, K = A \o R, k' = [k EXCEPT ![Here] = K],
         UNCHANGED <<os, offset, status, program>>, status # "terminated",
         Openable(DOMAIN files'), errors' \subseteq Codes,
         RestOK(A, R)', \A x \in DOMAIN files' : CellOK(x, A, R)'
  PROVE  StdioInv'
<1>1. OsOK' /\ program' = program /\ status' # "terminated"
  BY DEF StdioInv, OsOK
<1>2. status' \in {"mainCalled", "mainExited", "terminated"}
  BY DEF StdioInv
<1>3. \A i \in 1 .. Len(A) : A[i].op # "sendString"
  BY DEF AllFlush
<1> QED
  BY <1>1, <1>2, <1>3, Arrived

(* A stream that a step leaves alone.                                      *)

SameCell(x) ==
  files'[x] = files[x] /\ offset'[x] = offset[x] /\ os'[uri[x]] = os[uri[x]]

LEMMA CellKept ==
  ASSUME NEW x, NEW A, NEW R, NEW B, NEW Q, CellOK(x, A, R), SameCell(x),
         Sending(B, x) = Sending(A, x),
         Ahead(files[x]) = 1 => B = <<>> /\ Q # <<>> /\ Q[1] = call("fillBuffer", x),
         ReadsLast(R, x) => \/ ReadsLast(Q, x) \/ files[x].readBuffer = <<>>
                            \/ files[x].lastOp = "inputOp",
         InFlush(A, x) => InFlush(B, x) \/ files[x].writeBuffer = <<>>
  PROVE  CellOK(x, B, Q)'
BY DEF CellOK, GoodCell, SameCell, Ahead, Sending, ReadsLast, InFlush

LEMMA NoneSent ==
  ASSUME NEW A \in Seq(FlushItems), AllFlush(A)
  PROVE  /\ \A x : Sending(A, x) = <<>>
         /\ \A i \in 1 .. Len(A) : A[i].op # "sendString"
BY DEF AllFlush, Sending

LEMMA RestCellKept ==
  ASSUME NEW x, NEW R, NEW B \in Seq(FlushItems), NEW Q, CellOK(x, <<>>, R), SameCell(x),
         AllFlush(B),
         Ahead(files[x]) = 1 => B = <<>> /\ Q # <<>> /\ Q[1] = call("fillBuffer", x),
         ReadsLast(R, x) => \/ ReadsLast(Q, x) \/ files[x].readBuffer = <<>>
                            \/ files[x].lastOp = "inputOp"
  PROVE  CellOK(x, B, Q)'
<1>1. Sending(B, x) = <<>> /\ Sending(<<>>, x) = <<>> /\ ~InFlush(<<>>, x)
  BY NoneSent DEF Sending, InFlush
<1> QED
  BY <1>1, CellKept

LEMMA AtNothing ==
  ASSUME OneThread, StdioInv, NEW t \in Threads, k[t] = <<>>
  PROVE  t = Here /\ Doing(<<>>, <<>>)
<1>1. t = Here
  BY Alone
<1>2. PICK A \in Seq(FlushItems), R \in Seq(RestItems) : Doing(A, R)
  BY DEF StdioInv
<1>3. A \o R = <<>> /\ Len(A \o R) = Len(A) + Len(R)
  BY <1>1, <1>2, ItemSeqs, ConcatLaws DEF Doing
<1>4. Len(A) = 0 /\ Len(R) = 0
  BY <1>3
<1>5. A = <<>> /\ R = <<>>
  BY <1>4, EmptyLaws
<1> QED
  BY <1>1, <1>2, <1>5

(* What is pending, and how long the file is with it.                      *)
LEMMA CellFacts ==
  ASSUME StdioInv, NEW x \in DOMAIN files, NEW A, NEW R, CellOK(x, A, R)
  PROVE  /\ x \in Streams /\ uri[x] \in URIs
         /\ os[uri[x]] \in Texts /\ Len(os[uri[x]]) \in Nat
         /\ offset[x] \in Nat /\ offset[x] <= Len(os[uri[x]])
         /\ files[x] \in FileCell
         /\ files[x].pos \in Int
         /\ files[x].writeBuffer \in Texts /\ Len(files[x].writeBuffer) \in Nat
         /\ files[x].readBuffer \in Texts /\ Len(files[x].readBuffer) \in Nat
         /\ files[x].nextByte \in NextBytes
<1>1. x \in Streams /\ uri[x] \in URIs
  BY DEF StdioInv, Openable, URIs
<1>2. /\ os[uri[x]] \in Texts /\ Len(os[uri[x]]) \in Nat
      /\ offset[x] \in Nat /\ offset[x] <= Len(os[uri[x]])
  BY <1>1 DEF StdioInv, OsOK, Texts
<1>3. files[x] \in FileCell
  BY DEF CellOK, GoodCell
<1>4. /\ files[x].pos \in Int /\ files[x].writeBuffer \in Texts
      /\ files[x].readBuffer \in Texts /\ files[x].nextByte \in NextBytes
  BY <1>3 DEF FileCell
<1> QED
  BY <1>1, <1>2, <1>3, <1>4 DEF Texts

LEMMA PendingIs ==
  ASSUME OneThread, NEW A \in Seq(FlushItems), NEW R \in Seq(RestItems), Doing(A, R), NEW x
  PROVE  Pending(x) = Sending(A, x) \o files[x].writeBuffer
<1>1. OnlyFirst(A) /\ k[Here] = A \o R
  BY DEF Doing, OnlyFirst
<1>2. Unsent(x) = Sending(A, x)
  BY <1>1, UnsentIs, UnsentDef
<1> QED
  BY <1>2 DEF Pending

LEMMA ContentsLength ==
  ASSUME OneThread, StdioInv, NEW A \in Seq(FlushItems), NEW R \in Seq(RestItems),
         Doing(A, R), NEW x \in DOMAIN files
  PROVE  /\ Pending(x) \in Texts
         /\ Len(Pending(x)) = Len(Sending(A, x)) + Len(files[x].writeBuffer)
         /\ Contents(x) \in Texts /\ Len(Contents(x)) = Extent(x, A)
<1>1. CellOK(x, A, R)
  BY DEF Doing
<1>2. PICK s \in Texts : s = Sending(A, x) /\ Len(s) \in Nat
  BY SendingType
<1>3. PICK w \in Texts : w = files[x].writeBuffer /\ Len(w) \in Nat
  BY <1>1, CellFacts
<1>4. PICK p \in Texts : p = Pending(x) /\ Len(p) = Len(s) + Len(w)
  <2>1. Pending(x) = s \o w
    BY <1>2, <1>3, PendingIs
  <2>2. s \o w \in Texts /\ Len(s \o w) = Len(s) + Len(w)
    BY ConcatLaws DEF Texts
  <2> QED
    BY <2>1, <2>2
<1>5. PICK f \in Texts, n \in Nat, o \in Nat :
        f = os[uri[x]] /\ n = Len(f) /\ o = offset[x] /\ o <= n
  BY <1>1, CellFacts
<1>6. PICK r : r = Overwrite(f, o, p)
  OBVIOUS
<1>7. r \in Texts /\ Len(r) = IF o + Len(p) > n THEN o + Len(p) ELSE n
  <2>1. Overwritten(f, o, p, r)
    BY <1>5, <1>6, OverwriteFacts
  <2> QED
    BY <1>5, <2>1 DEF Overwritten
<1>8. Contents(x) = r
  BY <1>4, <1>5, <1>6 DEF Contents
<1>9. Extent(x, A) = IF o + Len(s) + Len(w) > n THEN o + Len(s) + Len(w) ELSE n
  BY <1>2, <1>3, <1>5 DEF Extent
<1>10. o + Len(p) = o + Len(s) + Len(w)
  BY <1>2, <1>3, <1>4, <1>5
<1> QED
  BY <1>2, <1>3, <1>4, <1>7, <1>8, <1>9, <1>10

-----------------------------------------------------------------------------
(* The first state, and one lemma for each action.                         *)

LEMMA NewFile ==
  ASSUME NEW mode \in Modes, NEW buf \in BufModes
  PROVE  newFile(mode, buf) \in FileCell
BY StdioAssumption DEF newFile, FileCell, Texts, NextBytes, LastOps

LEMMA InvInit ==
  ASSUME OneThread, Init
  PROVE  StdioInv
<1>1. k \in [Threads -> Seq(Items)] /\ k[Here] = <<>>
  BY Alone DEF Init
<1>2. DOMAIN files = {stdout} /\ files[stdout] = newFile("w", "lineBuf")
  BY DEF Init
<1>3. OsOK
  <2>1. \A x \in Streams : uri[x] \in URIs
    BY DEF URIs
  <2> QED
    BY <2>1 DEF Init, OsOK, Texts
<1>4. CellOK(stdout, <<>>, <<>>)
  <2>1. newFile("w", "lineBuf") \in FileCell
    BY NewFile DEF Modes, BufModes
  <2>2. offset[stdout] = 0
    BY StdioAssumption DEF Init
  <2> QED
    BY <1>2, <2>1, <2>2 DEF CellOK, GoodCell, newFile, Ahead, Sending
<1>5. Doing(<<>>, <<>>)
  BY <1>1, <1>2, <1>4, EmptyLaws DEF Doing, RestOK, Init
<1>6. <<>> \in Seq(FlushItems) /\ <<>> \in Seq(RestItems)
  OBVIOUS
<1>7. Openable(DOMAIN files)
  <2>1. IsFiniteSet({stdout})
    BY FS_Singleton
  <2>2. {stdout} \subseteq Streams
    BY StdioAssumption
  <2> QED
    BY <1>2, <2>1, <2>2 DEF Openable
<1> QED
  BY <1>1, <1>3, <1>5, <1>6, <1>7, StdioAssumption DEF StdioInv, Init

LEMMA CallStep ==
  ASSUME OneThread, StdioInv, NEW t \in Threads, NEW s \in Statements, Call(t, s)
  PROVE  StdioInv'
<1>1. t = Here /\ Doing(<<>>, <<>>) /\ status = "mainCalled"
  BY AtNothing DEF Call
<1>2. /\ k' = [k EXCEPT ![Here] = <<s>>]
      /\ UNCHANGED <<files, os, offset, status, program, errors>>
  BY <1>1 DEF Call
<1>3. <<s>> \in Seq(RestItems) /\ <<>> \in Seq(FlushItems) /\ <<>> \o <<s>> = <<s>>
  <2>1. s \in RestItems
    BY DEF RestItems
  <2> QED
    BY <2>1, ShortSeqs, EmptyLaws
<1>4. Issued(s)
  <2>1. s.op = "fseekCur" => Reaches(s.fd, <<>>, s.arg)
    <3> HAVE s.op = "fseekCur"
    <3>1. s.fd \in DOMAIN files
      BY DEF Call, Open
    <3>2. Len(Contents(s.fd)) = Extent(s.fd, <<>>)
      BY <1>1, <1>3, <3>1, ContentsLength, EmptyLaws
    <3> QED
      BY <3>2 DEF Call, Reaches
  <2>2. s.op = "fread" => MayRead(s.fd)
    BY DEF Call, MayRead
  <2> QED
    BY <2>1, <2>2 DEF Call, Issued
<1>5. Issued(s)'
  BY <1>2, <1>4 DEF Issued, Open, MayRead, Reaches, Extent
<1>6. RestOK(<<>>, <<s>>)'
  BY <1>5 DEF RestOK, Calling
<1>7. ASSUME NEW x \in DOMAIN files
      PROVE  CellOK(x, <<>>, <<s>>)'
  <2>1. CellOK(x, <<>>, <<>>) /\ SameCell(x)
    BY <1>1, <1>2 DEF Doing, SameCell
  <2>2. Ahead(files[x]) # 1 /\ ~ReadsLast(<<>>, x)
    BY <2>1 DEF CellOK, GoodCell, ReadsLast
  <2>3. AllFlush(<<>>)
    BY DEF AllFlush
  <2> QED
    BY <1>3, <2>1, <2>2, <2>3, RestCellKept
<1> QED
  <2>1. Openable(DOMAIN files') /\ errors' \subseteq Codes /\ AllFlush(<<>>)
    BY <1>2 DEF StdioInv, AllFlush
  <2> QED
    BY <1>1, <1>2, <1>3, <1>6, <1>7, <2>1, RestStep

(* A thread at the start of a call.                                        *)
Stated(t, s) ==
  /\ t = Here /\ k[t] = <<s>> /\ Head(k[t]) = s /\ Tail(k[t]) = <<>>
  /\ Doing(<<>>, <<s>>) /\ Issued(s) /\ status # "terminated"
  /\ \A x \in DOMAIN files :
       /\ CellOK(x, <<>>, <<s>>) /\ Ahead(files[x]) = 0 /\ ~ReadsLast(<<s>>, x)
       /\ files[x].readBuffer # <<>> => files[x].lastOp = "inputOp"
       /\ files[x].writeBuffer # <<>> => files[x].lastOp = "outputOp"
       /\ files[x].pos = offset[x] + Len(files[x].writeBuffer) - Len(files[x].readBuffer)

LEMMA AtStatement ==
  ASSUME OneThread, StdioInv, NEW t \in Threads, k[t] # <<>>,
         Head(k[t]).op \in StatementOps
  PROVE  \E s \in Statements : Stated(t, s)
<1>1. Head(k[t]).op \notin FlushOps
  BY DEF StatementOps, FlushOps
<1>2. PICK R \in Seq(RestItems) :
        t = Here /\ Doing(<<>>, R) /\ k[t] = R /\ R # <<>> /\ R[1] = Head(k[t])
  BY <1>1, AtR
<1>3. Calling(<<>>, R)
  BY <1>2, RestKinds DEF Doing
<1>4. PICK s \in Statements : R = <<s>> /\ Issued(s)
  BY <1>3 DEF Calling
<1>5. s.op \in StatementOps
  BY StatementFacts
<1>6. Head(k[t]) = s /\ Tail(k[t]) = <<>> /\ status # "terminated"
  BY <1>2, <1>4 DEF Doing
<1>7. ASSUME NEW x \in DOMAIN files
      PROVE  /\ CellOK(x, <<>>, <<s>>) /\ Ahead(files[x]) = 0 /\ ~ReadsLast(<<s>>, x)
             /\ files[x].readBuffer # <<>> => files[x].lastOp = "inputOp"
             /\ files[x].writeBuffer # <<>> => files[x].lastOp = "outputOp"
             /\ files[x].pos = offset[x] + Len(files[x].writeBuffer) - Len(files[x].readBuffer)
  <2>1. CellOK(x, <<>>, <<s>>)
    BY <1>2, <1>4 DEF Doing
  <2>2. ~ReadsLast(<<s>>, x)
    BY <1>5 DEF ReadsLast, StatementOps
  <2>3. Ahead(files[x]) = 0
    BY <1>5, <2>1 DEF CellOK, GoodCell, Ahead, StatementOps, call
  <2>4. Sending(<<>>, x) = <<>> /\ ~InFlush(<<>>, x)
    BY DEF Sending, InFlush
  <2>5. PICK o \in Nat, w \in Nat, r \in Nat :
          /\ o = offset[x] /\ w = Len(files[x].writeBuffer)
          /\ r = Len(files[x].readBuffer)
    BY <2>1, CellFacts
  <2>6. files[x].pos = o + 0 + w - r - 0
    BY <2>1, <2>3, <2>4, <2>5 DEF CellOK, GoodCell
  <2>7. /\ files[x].readBuffer # <<>> => files[x].lastOp = "inputOp"
        /\ files[x].writeBuffer # <<>> => files[x].lastOp = "outputOp"
    BY <2>1, <2>2, <2>4 DEF CellOK, GoodCell
  <2>8. files[x].pos = o + w - r
    BY <2>6
  <2>9. files[x].pos = offset[x] + Len(files[x].writeBuffer) - Len(files[x].readBuffer)
    BY <2>5, <2>8, Zenon
  <2> QED
    BY <2>1, <2>2, <2>3, <2>7, <2>9, Zenon
<1> QED
  BY <1>2, <1>4, <1>6, <1>7 DEF Stated

LEMMA OtherCells ==
  ASSUME NEW t, NEW s, Stated(t, s), NEW B \in Seq(FlushItems), AllFlush(B), NEW Q,
         NEW y \in DOMAIN files, SameCell(y)
  PROVE  CellOK(y, B, Q)'
<1>1. CellOK(y, <<>>, <<s>>) /\ Ahead(files[y]) = 0 /\ ~ReadsLast(<<s>>, y)
  BY DEF Stated
<1> QED
  BY <1>1, RestCellKept

(* A cell after a step, when nothing is being sent.                        *)
LEMMA NewCell ==
  ASSUME NEW x, NEW g \in FileCell, NEW o \in Nat, NEW n, NEW B \in Seq(FlushItems),
         AllFlush(B), NEW Q,
         g.pos = o + Len(g.writeBuffer) - Len(g.readBuffer), Ahead(g) = 0,
         g.readBuffer # <<>> => g.lastOp = "inputOp" \/ ReadsLast(Q, x),
         g.writeBuffer # <<>> => g.lastOp = "outputOp" \/ InFlush(B, x),
         g.feof \/ g.nextByte = <<EOF>> => o = n
  PROVE  GoodCell(g, o, n, x, B, Q)
<1>1. Sending(B, x) = <<>>
  BY NoneSent
<1>2. g.writeBuffer \in Texts /\ g.readBuffer \in Texts
  BY DEF FileCell
<1>3. PICK w \in Nat, r \in Nat, p \in Int :
        w = Len(g.writeBuffer) /\ r = Len(g.readBuffer) /\ p = g.pos
  <2>1. Len(g.writeBuffer) \in Nat /\ Len(g.readBuffer) \in Nat
    BY <1>2 DEF Texts
  <2>2. g.pos \in Int
    BY DEF FileCell
  <2> QED
    BY <2>1, <2>2, Zenon
<1>4. p = o + w - r
  BY <1>3, Zenon
<1>5. p = o + 0 + w - r - 0
  BY <1>4
<1>6. g.pos = o + Len(Sending(B, x)) + Len(g.writeBuffer) - Len(g.readBuffer) - Ahead(g)
  <2>1. Len(Sending(B, x)) = 0
    BY <1>1
  <2> QED
    BY <1>3, <1>5, <2>1, Zenon
<1>7. Ahead(g) # 1
  OBVIOUS
<1> QED
  BY <1>6, <1>7, Zenon DEF GoodCell

(* What Stated says of one stream.                                         *)
LEMMA StatedCell ==
  ASSUME StdioInv, NEW t, NEW s, Stated(t, s), NEW x \in DOMAIN files
  PROVE  /\ x \in Streams /\ offset[x] \in Nat /\ files[x] \in FileCell
         /\ Ahead(files[x]) = 0
         /\ files[x].readBuffer # <<>> => files[x].lastOp = "inputOp"
         /\ files[x].writeBuffer # <<>> => files[x].lastOp = "outputOp"
         /\ files[x].pos = offset[x] + Len(files[x].writeBuffer) - Len(files[x].readBuffer)
         /\ files[x].feof \/ files[x].nextByte = <<EOF>> => offset[x] = Len(os[uri[x]])
<1>1. CellOK(x, <<>>, <<s>>)
  BY DEF Stated
<1>2. x \in Streams /\ offset[x] \in Nat /\ files[x] \in FileCell
  BY <1>1, CellFacts
<1>3. files[x].feof \/ files[x].nextByte = <<EOF>> => offset[x] = Len(os[uri[x]])
  BY <1>1 DEF CellOK, GoodCell
<1> QED
  BY <1>2, <1>3 DEF Stated

(* A call that changes at most one stream and leaves the files alone.      *)
LEMMA StatementStep ==
  ASSUME OneThread, StdioInv, NEW t, NEW s, Stated(t, s),
         NEW A \in Seq(FlushItems), NEW R \in Seq(RestItems), AllFlush(A),
         k' = [k EXCEPT ![Here] = A \o R], UNCHANGED <<os, offset, status, program>>,
         errors' \subseteq Codes, NEW x, NEW g,
         files' = [files EXCEPT ![x] = g],
         x \in DOMAIN files => GoodCell(g, offset[x], Len(os[uri[x]]), x, A, R),
         RestOK(A, R)'
  PROVE  StdioInv'
<1>1. DOMAIN files' = DOMAIN files /\ Openable(DOMAIN files')
  BY DEF StdioInv
<1>2. ASSUME NEW y \in DOMAIN files'
      PROVE  CellOK(y, A, R)'
  <2>1. CASE y = x
    <3>1. files'[y] = g
      BY <1>1, <2>1
    <3> QED
      BY <1>1, <2>1, <3>1 DEF CellOK
  <2>2. CASE y # x
    <3>1. SameCell(y)
      BY <1>1, <2>2 DEF SameCell
    <3> QED
      BY <1>1, <3>1, OtherCells
  <2> QED
    BY <2>1, <2>2
<1>3. status # "terminated"
  BY DEF Stated
<1>4. PICK K : K = A \o R
  OBVIOUS
<1> QED
  BY <1>1, <1>2, <1>3, <1>4, RestStep

LEMMA StatementKeeps ==
  ASSUME OneThread, StdioInv, NEW t, NEW s, Stated(t, s),
         NEW A \in Seq(FlushItems), NEW R \in Seq(RestItems), AllFlush(A),
         k' = [k EXCEPT ![Here] = A \o R], UNCHANGED <<files, os, offset, status, program>>,
         errors' \subseteq Codes, RestOK(A, R)'
  PROVE  StdioInv'
<1>1. DOMAIN files' = DOMAIN files /\ Openable(DOMAIN files')
  BY DEF StdioInv
<1>2. ASSUME NEW y \in DOMAIN files'
      PROVE  CellOK(y, A, R)'
  <2>1. SameCell(y)
    BY DEF SameCell
  <2> QED
    BY <1>1, <2>1, OtherCells
<1>3. status # "terminated"
  BY DEF Stated
<1>4. PICK K : K = A \o R
  OBVIOUS
<1> QED
  BY <1>1, <1>2, <1>3, <1>4, RestStep

(* The call is over.                                                       *)
LEMMA NothingLeft ==
  /\ <<>> \in Seq(FlushItems) /\ <<>> \in Seq(RestItems) /\ AllFlush(<<>>)
  /\ <<>> \o <<>> = <<>> /\ \A A : RestOK(A, <<>>) /\ RestOK(A, <<>>)'
BY EmptyLaws DEF AllFlush, RestOK

LEMMA OneFlush ==
  ASSUME NEW x \in Streams
  PROVE  /\ <<call("flush", x)>> \in Seq(FlushItems) /\ AllFlush(<<call("flush", x)>>)
         /\ InFlush(<<call("flush", x)>>, x) /\ Sending(<<call("flush", x)>>, x) = <<>>
<1>1. PICK c \in FlushItems : c = call("flush", x)
  BY MakeItems
<1>2. <<c>> \in Seq(FlushItems) /\ Len(<<c>>) = 1 /\ <<c>>[1] = c
  OBVIOUS
<1>3. c.op = "flush"
  BY <1>1 DEF call
<1> QED
  BY <1>1, <1>2, <1>3 DEF AllFlush, InFlush, Sending

LEMMA FputsStep ==
  ASSUME OneThread, StdioInv, NEW t \in Threads, Fputs(t)
  PROVE  StdioInv'
<1>1. PICK s \in Statements : Stated(t, s)
  BY AtStatement DEF Fputs, AtHead, StatementOps
<1>2. /\ Head(k[t]) = s /\ t = Here /\ Tail(k[t]) = <<>> /\ s.op = "fputs" /\ Fd(t) = s.fd
      /\ UNCHANGED <<os, offset, status, program, errors>>
  BY <1>1 DEF Fputs, AtHead, Fd, Stated
<1>3. s.fd \in DOMAIN files /\ s.fd \in Streams /\ s.arg \in Strings /\ errors' \subseteq Codes
  BY <1>1, <1>2, StatementFacts DEF Stated, Issued, Open, StdioInv
<1>4. CASE Becomes(t, <<callWith("writeFD", Fd(t), Head(k[t]).arg)>>) /\ UNCHANGED files
  <2>1. PICK c \in RestItems : c = callWith("writeFD", s.fd, s.arg)
    BY <1>3, MakeItems
  <2>2. k' = [k EXCEPT ![Here] = <<c>> \o <<>>]
    BY <1>2, <1>4, <2>1 DEF Becomes
  <2>3. <<c>> \in Seq(RestItems) /\ <<c>> \o <<>> = <<c>> /\ <<>> \o <<c>> = <<c>>
    BY ShortSeqs, EmptyLaws
  <2>4. RestOK(<<>>, <<c>>)'
    BY <1>3, <1>4, <2>1 DEF RestOK, Writing
  <2> QED
    BY <1>1, <1>2, <1>3, <1>4, <2>2, <2>3, <2>4, NothingLeft, StatementKeeps
<1>5. CASE files' = [files EXCEPT ![Fd(t)].ferror = TRUE] /\ Becomes(t, <<>>)
  <2>1. PICK g : g = [files[s.fd] EXCEPT !.ferror = TRUE]
    OBVIOUS
  <2>2. files' = [files EXCEPT ![s.fd] = g] /\ k' = [k EXCEPT ![Here] = <<>> \o <<>>]
    BY <1>2, <1>5, <2>1 DEF Becomes
  <2>3. GoodCell(g, offset[s.fd], Len(os[uri[s.fd]]), s.fd, <<>>, <<>>)
    <3>1. g \in FileCell
      BY <1>1, <1>3, <2>1, StatedCell DEF FileCell
    <3>2. /\ g.pos = files[s.fd].pos /\ g.writeBuffer = files[s.fd].writeBuffer
          /\ g.readBuffer = files[s.fd].readBuffer /\ g.nextByte = files[s.fd].nextByte
          /\ g.lastOp = files[s.fd].lastOp /\ g.feof = files[s.fd].feof
      BY <1>1, <1>3, <2>1, StatedCell DEF FileCell
    <3> QED
      BY <1>1, <1>3, <3>1, <3>2, StatedCell, NewCell, NothingLeft, ZenonT(60) DEF Ahead
  <2> QED
    BY <1>1, <1>2, <1>3, <2>2, <2>3, NothingLeft, StatementStep
<1> QED
  BY <1>4, <1>5 DEF Fputs

(* A call that changes neither buffers nor position.                       *)
LEMMA Adjusted ==
  ASSUME StdioInv, NEW t, NEW s, Stated(t, s), NEW x \in DOMAIN files, NEW g \in FileCell,
         g.pos = files[x].pos, g.writeBuffer = files[x].writeBuffer,
         g.readBuffer = files[x].readBuffer, g.nextByte = files[x].nextByte,
         g.lastOp = files[x].lastOp, g.feof => files[x].feof
  PROVE  GoodCell(g, offset[x], Len(os[uri[x]]), x, <<>>, <<>>)
BY StatedCell, NewCell, NothingLeft, ZenonT(60) DEF Ahead

(* A call of one step, which leaves the cell g.                            *)
LEMMA CallDone ==
  ASSUME OneThread, StdioInv, NEW t, NEW s, Stated(t, s), NEW g,
         Becomes(t, <<>>), UNCHANGED <<os, offset, status, program, errors>>,
         files' = [files EXCEPT ![s.fd] = g],
         GoodCell(g, offset[s.fd], Len(os[uri[s.fd]]), s.fd, <<>>, <<>>)
  PROVE  StdioInv'
<1>1. Tail(k[t]) = <<>> /\ t = Here
  BY DEF Stated
<1>2. k' = [k EXCEPT ![Here] = <<>> \o <<>>]
  BY <1>1 DEF Becomes
<1>3. errors' \subseteq Codes
  BY DEF StdioInv
<1> QED
  BY <1>2, <1>3, NothingLeft, StatementStep

LEMMA ClearerrStep ==
  ASSUME OneThread, StdioInv, NEW t \in Threads, Clearerr(t)
  PROVE  StdioInv'
<1>1. PICK s \in Statements : Stated(t, s)
  BY AtStatement DEF Clearerr, AtHead, StatementOps
<1>2. Head(k[t]) = s /\ s.op = "clearerr" /\ Fd(t) = s.fd
  BY <1>1 DEF Clearerr, AtHead, Fd, Stated
<1>3. s.fd \in DOMAIN files
  BY <1>1, <1>2 DEF Stated, Issued, Open
<1>4. PICK g : g = [files[s.fd] EXCEPT !.ferror = FALSE, !.feof = FALSE]
  OBVIOUS
<1>5. files' = [files EXCEPT ![s.fd] = g]
  BY <1>2, <1>4 DEF Clearerr
<1>6. /\ g \in FileCell /\ g.pos = files[s.fd].pos /\ g.writeBuffer = files[s.fd].writeBuffer
      /\ g.readBuffer = files[s.fd].readBuffer /\ g.nextByte = files[s.fd].nextByte
      /\ g.lastOp = files[s.fd].lastOp /\ (g.feof => files[s.fd].feof)
  BY <1>1, <1>3, <1>4, StatedCell DEF FileCell
<1>7. GoodCell(g, offset[s.fd], Len(os[uri[s.fd]]), s.fd, <<>>, <<>>)
  BY <1>1, <1>3, <1>6, Adjusted
<1> QED
  BY <1>1, <1>5, <1>7, CallDone DEF Clearerr

LEMMA SetvbufStep ==
  ASSUME OneThread, StdioInv, NEW t \in Threads, Setvbuf(t)
  PROVE  StdioInv'
<1>1. PICK s \in Statements : Stated(t, s)
  BY AtStatement DEF Setvbuf, AtHead, StatementOps
<1>2. Head(k[t]) = s /\ s.op = "setvbuf" /\ Fd(t) = s.fd
  BY <1>1 DEF Setvbuf, AtHead, Fd, Stated
<1>3. s.fd \in DOMAIN files /\ s.arg \in BufModes /\ s.size \in Nat
  BY <1>1, <1>2, StatementFacts, StdioAssumption DEF Stated, Issued, Open
<1>4. PICK g : g = [files[s.fd] EXCEPT !.bufMode = s.arg, !.bufSize = s.size]
  OBVIOUS
<1>5. files' = [files EXCEPT ![s.fd] = g]
  BY <1>2, <1>4 DEF Setvbuf
<1>6. /\ g \in FileCell /\ g.pos = files[s.fd].pos /\ g.writeBuffer = files[s.fd].writeBuffer
      /\ g.readBuffer = files[s.fd].readBuffer /\ g.nextByte = files[s.fd].nextByte
      /\ g.lastOp = files[s.fd].lastOp /\ (g.feof => files[s.fd].feof)
  BY <1>1, <1>3, <1>4, StatedCell DEF FileCell
<1>7. GoodCell(g, offset[s.fd], Len(os[uri[s.fd]]), s.fd, <<>>, <<>>)
  BY <1>1, <1>3, <1>6, Adjusted
<1> QED
  BY <1>1, <1>5, <1>7, CallDone DEF Setvbuf

LEMMA UngetcStep ==
  ASSUME OneThread, StdioInv, NEW t \in Threads, Ungetc(t)
  PROVE  StdioInv'
<1>1. PICK s \in Statements : Stated(t, s)
  BY AtStatement DEF Ungetc, AtHead, StatementOps
<1>2. Head(k[t]) = s /\ s.op = "ungetc" /\ Fd(t) = s.fd
  BY <1>1 DEF Ungetc, AtHead, Fd, Stated
<1>3. s.fd \in DOMAIN files /\ s.arg \in Chars /\ files[s.fd].lastOp = "inputOp"
  BY <1>1, <1>2, StatementFacts DEF Stated, Issued, Open
<1>4. PICK f \in FileCell : f = files[s.fd]
  BY <1>1, <1>3, StatedCell
<1>5. PICK r \in Texts : r = f.readBuffer
  BY DEF FileCell
<1>6. PICK g : g = [f EXCEPT !.readBuffer = <<s.arg>> \o r, !.nextByte = <<>>,
                             !.pos = f.pos - 1, !.feof = FALSE]
  OBVIOUS
<1>7. files' = [files EXCEPT ![s.fd] = g]
  <2>1. [unget(f, s.arg) EXCEPT !.feof = FALSE] = g
    BY <1>5, <1>6 DEF unget, FileCell
  <2> QED
    BY <1>2, <1>4, <2>1 DEF Ungetc
<1>8. <<s.arg>> \o r \in Texts /\ Len(<<s.arg>> \o r) = 1 + Len(r) /\ Len(r) \in Nat
  <2>1. <<s.arg>> \in Seq(Chars) /\ Len(<<s.arg>>) = 1
    BY <1>3
  <2> QED
    BY <2>1, ConcatLaws DEF Texts
<1>9. g \in FileCell
  <2>1. f.pos - 1 \in Int
    BY DEF FileCell
  <2> QED
    BY <1>6, <1>8, <2>1 DEF FileCell, NextBytes
<1>10. /\ g.readBuffer = <<s.arg>> \o r /\ g.nextByte = <<>> /\ g.pos = f.pos - 1
       /\ g.feof = FALSE /\ g.lastOp = "inputOp" /\ g.writeBuffer = f.writeBuffer
  BY <1>3, <1>4, <1>6 DEF FileCell
<1>11. f.writeBuffer = <<>> /\ f.pos = offset[s.fd] + Len(f.writeBuffer) - Len(r)
  BY <1>1, <1>3, <1>4, <1>5, StatedCell
<1>12. offset[s.fd] \in Nat
  BY <1>1, <1>3, StatedCell
<1>13. g.pos = offset[s.fd] + Len(g.writeBuffer) - Len(g.readBuffer)
  <2>1. PICK o \in Nat, n \in Nat : o = offset[s.fd] /\ n = Len(r)
    BY <1>8, <1>12
  <2>2. f.pos = o + 0 - n
    BY <1>11, <2>1
  <2>3. f.pos - 1 = o + 0 - (1 + n)
    BY <2>2
  <2>4. Len(g.writeBuffer) = 0 /\ Len(g.readBuffer) = 1 + n
    BY <1>8, <1>10, <1>11, <2>1
  <2> QED
    BY <1>10, <2>1, <2>3, <2>4, Zenon
<1>14. Ahead(g) = 0 /\ g.nextByte # <<EOF>>
  BY <1>10 DEF Ahead
<1>15. GoodCell(g, offset[s.fd], Len(os[uri[s.fd]]), s.fd, <<>>, <<>>)
  BY <1>9, <1>10, <1>11, <1>12, <1>13, <1>14, NewCell, NothingLeft
<1> QED
  BY <1>1, <1>7, <1>15, CallDone DEF Ungetc

(* An error is reported in a call.                                         *)
LEMMA StatementHalts ==
  ASSUME OneThread, StdioInv, NEW t, NEW s \in Statements, Stated(t, s), NEW code \in Codes,
         Halts(t, code), UNCHANGED <<files, os, offset, status, program>>
  PROVE  StdioInv'
<1>1. t = Here /\ k[t] = <<s>>
  BY DEF Stated
<1>2. PICK c \in RestItems : c = halt
  BY MakeItems, StdioAssumption
<1>3. s \in RestItems
  BY DEF RestItems
<1>4. <<c>> \o <<s>> = <<c, s>> /\ <<c, s>> \in Seq(RestItems)
  BY <1>3, ShortConcats, ShortSeqs
<1>5. <<>> \o <<c, s>> = <<c, s>>
  BY <1>4, EmptyLaws
<1>6. k' = [k EXCEPT ![Here] = <<>> \o <<c, s>>]
  <2>1. k' = [k EXCEPT ![t] = <<c>> \o k[t]]
    BY <1>2 DEF Halts, halt
  <2> QED
    BY <1>1, <1>4, <1>5, <2>1
<1>7. RestOK(<<>>, <<c, s>>)'
  <2>1. Halting(<<>>, <<c, s>>)'
    BY <1>2 DEF Halting
  <2> QED
    BY <2>1 DEF RestOK
<1>8. errors' \subseteq Codes
  BY DEF Halts, StdioInv
<1> QED
  BY <1>4, <1>6, <1>7, <1>8, NothingLeft, StatementKeeps

LEMMA FflushStep ==
  ASSUME OneThread, StdioInv, NEW t \in Threads, Fflush(t)
  PROVE  StdioInv'
<1>1. PICK s \in Statements : Stated(t, s)
  BY AtStatement DEF Fflush, AtHead, StatementOps
<1>2. Head(k[t]) = s /\ s.op = "fflush" /\ Fd(t) = s.fd /\ t = Here /\ Tail(k[t]) = <<>>
  BY <1>1 DEF Fflush, AtHead, Fd, Stated
<1>3. s.fd \in DOMAIN files /\ s.fd \in Streams
  BY <1>1, <1>2, StatementFacts DEF Stated, Issued, Open
<1>4. CASE /\ files[s.fd].lastOp # "inputOp" /\ files' = FflushDone(s.fd)
           /\ Becomes(t, <<call("flush", s.fd)>>) /\ UNCHANGED errors
  <2>1. PICK A \in Seq(FlushItems) :
          A = <<call("flush", s.fd)>> /\ AllFlush(A) /\ InFlush(A, s.fd)
    BY <1>3, OneFlush
  <2>2. k' = [k EXCEPT ![Here] = A \o <<>>]
    BY <1>2, <1>4, <2>1 DEF Becomes
  <2>3. PICK g : g = [files[s.fd] EXCEPT !.lastOp = "flushOp"]
    OBVIOUS
  <2>4. files' = [files EXCEPT ![s.fd] = g]
    BY <1>4, <2>3 DEF FflushDone
  <2>5. /\ g \in FileCell /\ g.pos = files[s.fd].pos /\ g.writeBuffer = files[s.fd].writeBuffer
        /\ g.readBuffer = files[s.fd].readBuffer /\ g.nextByte = files[s.fd].nextByte
        /\ g.feof = files[s.fd].feof
    BY <1>1, <1>3, <2>3, StatedCell DEF FileCell, LastOps
  <2>6. GoodCell(g, offset[s.fd], Len(os[uri[s.fd]]), s.fd, A, <<>>)
    BY <1>1, <1>3, <1>4, <2>1, <2>5, StatedCell, NewCell DEF Ahead
  <2>7. errors' \subseteq Codes
    BY <1>4 DEF StdioInv
  <2>8. UNCHANGED <<os, offset, status, program>>
    BY DEF Fflush
  <2> QED
    BY <1>1, <2>1, <2>2, <2>4, <2>6, <2>7, <2>8, NothingLeft, StatementStep
<1>5. CASE Halts(t, "STDIO7") /\ UNCHANGED files
  <2>1. "STDIO7" \in Codes /\ UNCHANGED <<files, os, offset, status, program>>
    BY <1>5 DEF Codes, Fflush
  <2> QED
    BY <1>1, <1>5, <2>1, StatementHalts
<1> QED
  BY <1>2, <1>4, <1>5 DEF Fflush

LEMMA FreadStep ==
  ASSUME OneThread, StdioInv, NEW t \in Threads, Fread(t)
  PROVE  StdioInv'
<1>1. PICK s \in Statements : Stated(t, s)
  BY AtStatement DEF Fread, AtHead, StatementOps
<1>2. Head(k[t]) = s /\ s.op = "fread" /\ Fd(t) = s.fd /\ t = Here /\ Tail(k[t]) = <<>>
  BY <1>1 DEF Fread, AtHead, Fd, Stated
<1>3. /\ s.fd \in DOMAIN files /\ s.fd \in Streams /\ s.arg \in 1 .. MaxString /\ MayRead(s.fd)
      /\ errors' \subseteq Codes /\ UNCHANGED <<os, offset, status, program, errors>>
  BY <1>1, <1>2, StatementFacts DEF Stated, Issued, Open, Fread, StdioInv
<1>4. PICK read \in RestItems, all \in RestItems :
        read = callWith("readFD", s.fd, s.arg) /\ all = call("flushAll", s.fd)
  BY <1>3, MakeItems
<1>5. ASSUME UNCHANGED files, NEW ks \in {<<read>>, <<all, read>>}, Becomes(t, ks)
      PROVE  StdioInv'
  <2>1. ks \in Seq(RestItems)
    BY ShortSeqs
  <2>2. ks \o <<>> = ks /\ <<>> \o ks = ks
    BY <2>1, EmptyLaws
  <2>3. k' = [k EXCEPT ![Here] = <<>> \o ks]
    BY <1>2, <1>5, <2>2 DEF Becomes
  <2>4. MayRead(s.fd)'
    BY <1>3, <1>5 DEF MayRead
  <2>5. Reading(<<>>, ks)'
    BY <1>3, <1>4, <1>5, <2>4 DEF Reading
  <2>6. RestOK(<<>>, ks)'
    BY <2>5 DEF RestOK
  <2> QED
    BY <1>1, <1>3, <1>5, <2>1, <2>3, <2>6, NothingLeft, StatementKeeps
<1>6. CASE files' = [files EXCEPT ![s.fd].ferror = TRUE] /\ Becomes(t, <<>>)
  <2>1. PICK g : g = [files[s.fd] EXCEPT !.ferror = TRUE]
    OBVIOUS
  <2>2. files' = [files EXCEPT ![s.fd] = g]
    BY <1>6, <2>1
  <2>3. /\ g \in FileCell /\ g.pos = files[s.fd].pos /\ g.writeBuffer = files[s.fd].writeBuffer
        /\ g.readBuffer = files[s.fd].readBuffer /\ g.nextByte = files[s.fd].nextByte
        /\ g.lastOp = files[s.fd].lastOp /\ g.feof = files[s.fd].feof
    BY <1>1, <1>3, <2>1, StatedCell DEF FileCell
  <2>4. GoodCell(g, offset[s.fd], Len(os[uri[s.fd]]), s.fd, <<>>, <<>>)
    BY <1>1, <1>3, <2>3, Adjusted
  <2> QED
    BY <1>1, <1>3, <1>6, <2>2, <2>4, CallDone
<1>7. \/ UNCHANGED files /\ (Becomes(t, <<read>>) \/ Becomes(t, <<all, read>>))
      \/ files' = [files EXCEPT ![s.fd].ferror = TRUE] /\ Becomes(t, <<>>)
  BY <1>2, <1>4 DEF Fread
<1> QED
  BY <1>5, <1>6, <1>7

LEMMA FcloseStep ==
  ASSUME OneThread, StdioInv, NEW t \in Threads, Fclose(t)
  PROVE  StdioInv'
<1>1. PICK s \in Statements : Stated(t, s)
  BY AtStatement DEF Fclose, AtHead, StatementOps
<1>2. Head(k[t]) = s /\ s.op = "fclose" /\ Fd(t) = s.fd /\ t = Here /\ Tail(k[t]) = <<>>
  BY <1>1 DEF Fclose, AtHead, Fd, Stated
<1>3. /\ s.fd \in DOMAIN files /\ s.fd \in Streams /\ errors' \subseteq Codes
      /\ UNCHANGED <<files, os, offset, status, program>>
  BY <1>1, <1>2, StatementFacts DEF Stated, Issued, Open, Fclose, StdioInv
<1>4. PICK c \in FlushItems, d \in RestItems : c = call("flush", s.fd) /\ d = call("close", s.fd)
  BY <1>3, MakeItems
<1>5. <<c>> \in Seq(FlushItems) /\ AllFlush(<<c>>) /\ InFlush(<<c>>, s.fd)
  BY <1>3, <1>4, OneFlush
<1>6. <<d>> \in Seq(RestItems)
  BY ShortSeqs
<1>7. <<c>> \o <<d>> = <<c, d>> /\ <<c, d>> \o <<>> = <<c, d>>
  <2>1. c \in Items /\ d \in Items
    BY DEF Items
  <2>2. <<c, d>> \in Seq(Items)
    BY <2>1, ShortSeqs
  <2> QED
    BY <2>1, <2>2, ShortConcats, EmptyLaws
<1>8. k' = [k EXCEPT ![Here] = <<c>> \o <<d>>]
  <2>1. k' = [k EXCEPT ![Here] = <<c, d>> \o <<>>]
    BY <1>2, <1>4 DEF Fclose, Becomes, fclose
  <2> QED
    BY <1>7, <2>1
<1>9. RestOK(<<c>>, <<d>>)'
  <2>1. Flushes(<<c>>, s.fd)'
    BY <1>5 DEF Flushes, InFlush
  <2>2. Closing(<<c>>, <<d>>)'
    BY <1>3, <1>4, <2>1 DEF Closing
  <2> QED
    BY <2>2 DEF RestOK
<1> QED
  BY <1>1, <1>3, <1>5, <1>6, <1>8, <1>9, StatementKeeps

LEMMA FseekStep ==
  ASSUME OneThread, StdioInv, NEW t \in Threads, Fseek(t)
  PROVE  StdioInv'
<1>1. PICK s \in Statements : Stated(t, s)
  <2>1. Head(k[t]).op \in StatementOps /\ k[t] # <<>>
    BY DEF Fseek, StatementOps
  <2> QED
    BY <2>1, AtStatement
<1>2. /\ Head(k[t]) = s /\ s.op \in {"fseekCur", "fseekEnd", "rewind"} /\ t = Here
      /\ Tail(k[t]) = <<>>
  BY <1>1 DEF Fseek, Stated
<1>3. /\ s.fd \in DOMAIN files /\ s.fd \in Streams /\ errors' \subseteq Codes
      /\ UNCHANGED <<files, os, offset, status, program>>
      /\ s.op = "fseekCur" => s.arg \in {-1, 1} /\ Reaches(s.fd, <<>>, s.arg)
  BY <1>1, <1>2, StatementFacts DEF Stated, Issued, Open, Fseek, StdioInv
<1>4. PICK w \in Wheres :
        /\ w = CASE s.op = "fseekCur" -> <<"cur", s.arg>>
                 [] s.op = "fseekEnd" -> <<"end", 0>>
                 [] s.op = "rewind"   -> <<"set", 0>>
        /\ w[1] = "cur" => Reaches(s.fd, <<>>, w[2])
  <2>1. CASE s.op = "fseekCur"
    <3>1. <<"cur", s.arg>> \in Wheres
      BY <1>3, <2>1 DEF Wheres
    <3> QED
      BY <1>3, <2>1, <3>1
  <2>2. CASE s.op = "fseekEnd"
    <3>1. <<"end", 0>> \in Wheres
      BY DEF Wheres
    <3> QED
      BY <2>2, <3>1
  <2>3. CASE s.op = "rewind"
    <3>1. <<"set", 0>> \in Wheres
      BY DEF Wheres
    <3> QED
      BY <2>3, <3>1
  <2> QED
    BY <1>2, <2>1, <2>2, <2>3
<1>5. PICK c \in FlushItems, d \in RestItems, e \in RestItems :
        c = call("flush", s.fd) /\ d = callWith("seek", s.fd, w) /\ e = call("clearerr", s.fd)
  BY <1>3, MakeItems
<1>6. <<c>> \in Seq(FlushItems) /\ AllFlush(<<c>>) /\ InFlush(<<c>>, s.fd)
  BY <1>3, <1>5, OneFlush
<1>7. Sending(<<c>>, s.fd) = Sending(<<>>, s.fd)
  BY <1>3, <1>5, OneFlush DEF Sending
<1>8. /\ w[1] = "cur" => Reaches(s.fd, <<c>>, w[2])'
      /\ Flushes(<<c>>, s.fd)'
  <2>1. Extent(s.fd, <<c>>)' = Extent(s.fd, <<>>)
    BY <1>3, <1>7 DEF Extent, Sending
  <2> QED
    BY <1>3, <1>4, <1>6, <2>1 DEF Reaches, Flushes, InFlush
<1>9. ASSUME NEW R \in {<<d>>, <<d, e>>}, k' = [k EXCEPT ![Here] = <<c>> \o R]
      PROVE  StdioInv'
  <2>1. R \in Seq(RestItems)
    BY ShortSeqs
  <2>2. Seeking(<<c>>, R)'
    BY <1>3, <1>5, <1>8, <1>9 DEF Seeking
  <2>3. RestOK(<<c>>, R)'
    BY <2>2 DEF RestOK
  <2> QED
    BY <1>1, <1>3, <1>6, <1>9, <2>1, <2>3, StatementKeeps
<1>10. c \in Items /\ d \in Items /\ e \in Items
  BY DEF Items
<1>11. PICK L \in Seq(Items) : L = IF s.op = "rewind" THEN <<e>> ELSE <<>>
  BY <1>10, ShortSeqs, EmptyLaws
<1>12. k' = [k EXCEPT ![Here] = (<<c>> \o <<d>> \o L) \o <<>>]
  BY <1>2, <1>4, <1>5, <1>11 DEF Fseek, Becomes, SeekFlush
<1>13. <<c>> \in Seq(Items) /\ <<d>> \in Seq(Items) /\ <<d>> \o L \in Seq(Items)
  <2>1. <<c>> \in Seq(Items) /\ <<d>> \in Seq(Items)
    BY <1>10, ShortSeqs
  <2> QED
    BY <2>1, ConcatLaws
<1>14. (<<c>> \o <<d>> \o L) \o <<>> = <<c>> \o (<<d>> \o L)
  <2>1. (<<c>> \o <<d>>) \o L = <<c>> \o (<<d>> \o L)
    BY <1>13, ConcatAssoc, SMTT(30)
  <2>2. <<c>> \o (<<d>> \o L) \in Seq(Items)
    BY <1>13, ConcatLaws
  <2> QED
    BY <2>1, <2>2, EmptyLaws, Zenon
<1>15. <<d>> \o L \in {<<d>>, <<d, e>>}
  <2>1. <<d>> \o <<e>> = <<d, e>>
    BY <1>10, ShortConcats
  <2>2. <<d>> \o <<>> = <<d>>
    BY <1>13, EmptyLaws
  <2>3. L = <<e>> \/ L = <<>>
    BY <1>11
  <2> QED
    BY <2>1, <2>2, <2>3, Zenon
<1>16. k' = [k EXCEPT ![Here] = <<c>> \o (<<d>> \o L)]
  BY <1>12, <1>14, Zenon
<1> QED
  BY <1>9, <1>15, <1>16, Zenon

LEMMA ExitStep ==
  ASSUME OneThread, StdioInv, NEW t \in Threads, Exit(t)
  PROVE  StdioInv'
<1>1. PICK s \in Statements : Stated(t, s)
  BY AtStatement DEF Exit, AtHead, StatementOps
<1>2. t = Here /\ UNCHANGED <<files, os, offset, program, errors>> /\ status' = "mainExited"
  BY <1>1 DEF Stated, Exit
<1>3. PICK c \in FlushItems : c = call("flush", stdout)
  BY StdioAssumption, MakeItems
<1>4. <<c>> \in Seq(FlushItems) /\ AllFlush(<<c>>) /\ InFlush(<<c>>, stdout)
  BY StdioAssumption, <1>3, OneFlush
<1>5. end \in RestItems /\ <<end>> \in Seq(RestItems)
  BY StdioAssumption, MakeItems, ShortSeqs
<1>6. k' = [k EXCEPT ![Here] = <<c>> \o <<end>>]
  BY <1>2, <1>3 DEF Exit, AtExit, end
<1>7. RestOK(<<c>>, <<end>>)'
  <2>1. Flushes(<<c>>, stdout)'
    BY <1>4 DEF Flushes, InFlush
  <2>2. Ending(<<c>>, <<end>>)'
    BY <2>1 DEF Ending
  <2> QED
    BY <2>2 DEF RestOK
<1>8. ASSUME NEW x \in DOMAIN files' PROVE CellOK(x, <<c>>, <<end>>)'
  <2>1. x \in DOMAIN files /\ SameCell(x)
    BY <1>2 DEF SameCell
  <2> QED
    BY <1>1, <1>4, <2>1, OtherCells
<1>9. /\ Openable(DOMAIN files') /\ OsOK' /\ errors' \subseteq Codes
      /\ status' \in {"mainCalled", "mainExited", "terminated"} /\ status' # "terminated"
  BY <1>2 DEF StdioInv, OsOK
<1>10. \A i \in 1 .. Len(<<c>>) : <<c>>[i].op = "sendString" => i = 1 /\ Open(<<c>>[i].fd)'
  BY <1>4, NoneSent
<1> QED
  BY <1>2, <1>4, <1>5, <1>6, <1>7, <1>8, <1>9, <1>10, Arrived

LEMMA AbortStep ==
  ASSUME OneThread, StdioInv, NEW t \in Threads, Abort(t)
  PROVE  StdioInv'
<1>1. PICK s \in Statements : Stated(t, s)
  BY AtStatement DEF Abort, AtHead, StatementOps
<1>2. /\ t = Here /\ s.op = "abort" /\ UNCHANGED <<files, os, offset, status, program>>
      /\ errors' \subseteq Codes
  BY <1>1 DEF Stated, Abort, AtHead, StdioInv
<1>3. stdout \in DOMAIN files /\ stdout \in Streams
  BY <1>1, <1>2, StatementFacts, StdioAssumption DEF Stated, Issued, Open
<1>4. <<nl>> \in Strings
  <2>1. <<nl>> \in [1 .. 1 -> Chars] /\ 1 \in 0 .. MaxString
    BY StdioAssumption
  <2>2. <<nl>> \in SeqOf(Chars, MaxString)
    BY <2>1 DEF SeqOf
  <2> QED
    BY <2>2 DEF Strings
<1>5. PICK c \in RestItems, d \in RestItems, e \in RestItems :
        c = callWith("writeFD", stdout, <<nl>>) /\ d = call("flush", stdout) /\ e = end
  BY <1>3, <1>4, MakeItems
<1>6. <<c, d, e>> \in Seq(RestItems)
  BY ShortSeqs
<1>7. <<>> \o <<c, d, e>> = <<c, d, e>>
  BY <1>6, EmptyLaws
<1>8. k' = [k EXCEPT ![Here] = <<>> \o <<c, d, e>>]
  BY <1>2, <1>5, <1>7 DEF Abort, end
<1>9. RestOK(<<>>, <<c, d, e>>)'
  <2>1. Writing(<<>>, <<c, d, e>>)'
    BY <1>2, <1>3, <1>5 DEF Writing, Open
  <2> QED
    BY <2>1 DEF RestOK
<1> QED
  BY <1>1, <1>2, <1>6, <1>8, <1>9, NothingLeft, StatementKeeps

LEMMA AllFlushed ==
  ASSUME NEW D, Openable(D), NEW order \in SetToSeqs(D)
  PROVE  \E F \in Seq(FlushItems) :
           AllFlush(F) /\ F = [i \in DOMAIN order |-> call("flush", order[i])]
<1>1. PICK n \in Nat : n = Cardinality(D)
  BY FS_CardinalityType DEF Openable
<1>2. DOMAIN order = 1 .. n /\ \A i \in 1 .. n : order[i] \in D
  BY <1>1 DEF SetToSeqs
<1>3. PICK F : F = [i \in 1 .. n |-> call("flush", order[i])]
  OBVIOUS
<1>4. \A i \in 1 .. n : F[i] \in FlushItems /\ F[i].op = "flush"
  <2> TAKE i \in 1 .. n
  <2>1. order[i] \in Streams
    BY <1>2 DEF Openable
  <2>2. call("flush", order[i]) \in FlushItems /\ call("flush", order[i]).op = "flush"
    BY <2>1, MakeItems DEF call
  <2> QED
    BY <1>3, <2>2
<1>5. F \in [1 .. n -> FlushItems]
  <2>1. F = [i \in 1 .. n |-> F[i]]
    BY <1>3
  <2> QED
    BY <1>4, <2>1
<1>6. F \in Seq(FlushItems) /\ Len(F) = n
  BY <1>5, FunctionSeq
<1> QED
  BY <1>2, <1>3, <1>4, <1>6 DEF AllFlush

(* A thread that reads.                                                    *)
ReadAt(t, x, n, R) ==
  /\ t = Here /\ k[t] = R /\ Doing(<<>>, R) /\ MayRead(x) /\ status # "terminated"
  /\ LET read == callWith("readFD", x, n)
         fill == call("fillBuffer", x)
         all == call("flushAll", x)
     IN
     \/ R = <<read>> /\ Head(k[t]).op = "readFD"
     \/ R = <<fill, read>> /\ Head(k[t]).op = "fillBuffer"
     \/ (R = <<all, read>> \/ R = <<all, fill, read>>) /\ Head(k[t]).op = "flushAll"

LEMMA AtRead ==
  ASSUME OneThread, StdioInv, NEW t \in Threads, k[t] # <<>>,
         Head(k[t]).op \in {"readFD", "fillBuffer", "flushAll"}
  PROVE  \E x \in DOMAIN files, n \in 1 .. MaxString, R \in Seq(RestItems) :
           ReadAt(t, x, n, R) /\ Fd(t) = x
<1>1. Head(k[t]).op \notin FlushOps
  BY DEF FlushOps
<1>2. PICK R \in Seq(RestItems) :
        t = Here /\ Doing(<<>>, R) /\ k[t] = R /\ R # <<>> /\ R[1] = Head(k[t])
  BY <1>1, AtR
<1>3. Reading(<<>>, R)
  BY <1>2, RestKinds DEF Doing
<1>4. PICK x \in DOMAIN files, n \in 1 .. MaxString :
        /\ MayRead(x)
        /\ \/ R = <<callWith("readFD", x, n)>>
           \/ R = <<call("fillBuffer", x), callWith("readFD", x, n)>>
           \/ R = <<call("flushAll", x), callWith("readFD", x, n)>>
           \/ R = <<call("flushAll", x), call("fillBuffer", x), callWith("readFD", x, n)>>
  BY <1>3 DEF Reading
<1>5. status # "terminated"
  BY <1>2 DEF Doing
<1>6. Fd(t) = x
  BY <1>2, <1>4 DEF Fd, call, callWith
<1>7. ReadAt(t, x, n, R)
  BY <1>2, <1>4, <1>5 DEF ReadAt, call, callWith
<1> QED
  BY <1>6, <1>7

LEMMA FlushAllStep ==
  ASSUME OneThread, StdioInv, NEW t \in Threads, FlushAll(t)
  PROVE  StdioInv'
<1>1. /\ UNCHANGED <<files, os, offset, status, program, errors>> /\ errors' \subseteq Codes
      /\ Openable(DOMAIN files) /\ Openable(DOMAIN files')
  BY DEF FlushAll, StdioInv
<1>2. PICK order \in SetToSeqs(DOMAIN files) :
        Becomes(t, [i \in DOMAIN order |-> call("flush", order[i])])
  BY DEF FlushAll
<1>3. PICK F \in Seq(FlushItems) : AllFlush(F) /\ Becomes(t, F)
  BY <1>1, <1>2, AllFlushed
<1>4. CASE AtHead(t, "fflushAll")
  <2>1. PICK s \in Statements : Stated(t, s)
    BY <1>4, AtStatement DEF AtHead, StatementOps
  <2>2. k' = [k EXCEPT ![Here] = F \o <<>>]
    BY <1>3, <2>1 DEF Becomes, Stated
  <2> QED
    BY <1>1, <1>3, <2>1, <2>2, NothingLeft, StatementKeeps
<1>5. CASE AtHead(t, "flushAll")
  <2>1. PICK x \in DOMAIN files, n \in 1 .. MaxString, R \in Seq(RestItems) : ReadAt(t, x, n, R)
    BY <1>5, AtRead DEF AtHead
  <2>2. PICK read \in RestItems, fill \in RestItems, all \in RestItems :
          /\ read = callWith("readFD", x, n) /\ fill = call("fillBuffer", x)
          /\ all = call("flushAll", x)
    BY <1>1, MakeItems DEF Openable
  <2>3. PICK Q \in {<<read>>, <<fill, read>>} :
          /\ Tail(R) = Q /\ R[1] = all
          /\ R = <<all, read>> \/ R = <<all, fill, read>>
    <3>1. R = <<all, read>> \/ R = <<all, fill, read>>
      BY <1>5, <2>1, <2>2 DEF ReadAt, AtHead
    <3>2. CASE R = <<all, read>>
      BY <3>2
    <3>3. CASE R = <<all, fill, read>>
      BY <3>3
    <3> QED
      BY <3>1, <3>2, <3>3
  <2>4. k' = [k EXCEPT ![Here] = F \o Q]
    BY <1>3, <2>1, <2>3 DEF Becomes, ReadAt
  <2>5. Q \in Seq(RestItems)
    BY ShortSeqs
  <2>6. RestOK(F, Q)'
    <3>1. MayRead(x)'
      BY <1>1, <2>1 DEF ReadAt, MayRead
    <3>2. Reading(F, Q)'
      BY <1>1, <2>2, <2>3, <3>1 DEF Reading
    <3> QED
      BY <3>2 DEF RestOK
  <2>7. ASSUME NEW y \in DOMAIN files' PROVE CellOK(y, F, Q)'
    <3>1. y \in DOMAIN files /\ SameCell(y)
      BY <1>1 DEF SameCell
    <3>2. CellOK(y, <<>>, R)
      BY <2>1, <3>1 DEF ReadAt, Doing
    <3>3. Ahead(files[y]) # 1
      BY <2>2, <2>3, <3>2 DEF CellOK, GoodCell, call
    <3>4. ReadsLast(R, y) => ReadsLast(Q, y)
      BY <2>2, <2>3, SMTT(30) DEF ReadsLast, callWith
    <3> QED
      BY <1>3, <3>1, <3>2, <3>3, <3>4, RestCellKept
  <2>8. PICK K : K = F \o Q
    OBVIOUS
  <2>9. status # "terminated"
    BY <2>1 DEF ReadAt
  <2> QED
    BY <1>1, <1>3, <2>4, <2>5, <2>6, <2>7, <2>8, <2>9, RestStep
<1> QED
  BY <1>4, <1>5 DEF FlushAll

LEMMA FopenFailsStep ==
  ASSUME OneThread, StdioInv, NEW t \in Threads, FopenFails(t)
  PROVE  StdioInv'
<1>1. PICK s \in Statements : Stated(t, s)
  BY AtStatement DEF FopenFails, AtHead, StatementOps
<1>2. /\ t = Here /\ Tail(k[t]) = <<>> /\ errors' \subseteq Codes
      /\ UNCHANGED <<files, os, offset, status, program>>
  BY <1>1 DEF FopenFails, Stated, StdioInv
<1>3. k' = [k EXCEPT ![Here] = <<>> \o <<>>]
  BY <1>2 DEF FopenFails, Becomes
<1> QED
  BY <1>1, <1>2, <1>3, NothingLeft, StatementKeeps

LEMMA FopenStep ==
  ASSUME OneThread, StdioInv, NEW t \in Threads, Fopen(t)
  PROVE  StdioInv'
<1>1. PICK s \in Statements : Stated(t, s)
  BY AtStatement DEF Fopen, AtHead, StatementOps
<1>2. /\ Head(k[t]) = s /\ s.op = "fopen" /\ Fd(t) = s.fd /\ t = Here /\ Tail(k[t]) = <<>>
      /\ UNCHANGED <<status, program, errors>>
  BY <1>1 DEF Fopen, AtHead, Fd, Stated
<1>3. PICK x \in Streams : x = s.fd /\ x \notin DOMAIN files
  BY <1>1, <1>2, StatementFacts DEF Stated, Issued, Open
<1>4. PICK m \in Modes : m = s.arg
  BY <1>2, StatementFacts
<1>5. /\ DOMAIN files' = DOMAIN files \cup {x} /\ files'[x] = newFile(m, "fullBuf")
      /\ \A y \in DOMAIN files : files'[y] = files[y]
  BY <1>2, <1>3, <1>4 DEF Fopen
<1>6. offset' = [offset EXCEPT ![x] = 0] /\ (os' = os \/ os' = [os EXCEPT ![uri[x]] = <<>>])
  BY <1>2, <1>3, <1>4 DEF Fopen
<1>7. k' = [k EXCEPT ![Here] = <<>> \o <<>>]
  BY <1>2 DEF Fopen, Becomes
<1>8. /\ os \in [URIs -> Texts] /\ offset \in [Streams -> Nat]
      /\ \A y \in Streams : offset[y] <= Len(os[uri[y]]) /\ uri[y] \in URIs
  BY DEF StdioInv, OsOK, URIs
<1>9. ASSUME NEW y \in Streams, y # x
      PROVE  offset'[y] = offset[y] /\ os'[uri[y]] = os[uri[y]]
  <2>1. uri[y] # uri[x]
    BY <1>9, StdioAssumption
  <2> QED
    BY <1>6, <1>8, <1>9, <2>1
<1>10. offset'[x] = 0 /\ offset' \in [Streams -> Nat] /\ os' \in [URIs -> Texts]
  <2>1. <<>> \in Texts
    BY DEF Texts
  <2> QED
    BY <1>6, <1>8, <2>1
<1>11. OsOK'
  <2> SUFFICES ASSUME NEW y \in Streams PROVE offset'[y] <= Len(os'[uri[y]])
    BY <1>10 DEF OsOK
  <2>1. CASE y = x
    <3>1. os'[uri[y]] \in Texts
      BY <1>8, <1>10
    <3>2. Len(os'[uri[y]]) \in Nat
      BY <3>1 DEF Texts
    <3> QED
      BY <1>10, <2>1, <3>2
  <2>2. CASE y # x
    BY <1>8, <1>9, <2>2
  <2> QED
    BY <2>1, <2>2
<1>12. Openable(DOMAIN files')
  <2>1. Openable(DOMAIN files)
    BY DEF StdioInv
  <2>2. IsFiniteSet(DOMAIN files \cup {x})
    BY <2>1, FS_AddElement DEF Openable
  <2> QED
    BY <1>5, <2>1, <2>2 DEF Openable
<1>13. ASSUME NEW y \in DOMAIN files' PROVE CellOK(y, <<>>, <<>>)'
  <2>1. CASE y = x
    <3>1. PICK g \in FileCell : g = newFile(m, "fullBuf")
      BY NewFile DEF BufModes
    <3>2. /\ g.pos = 0 /\ g.writeBuffer = <<>> /\ g.readBuffer = <<>> /\ g.nextByte = <<>>
          /\ g.feof = FALSE
      BY <3>1 DEF newFile
    <3>3. PICK o \in Nat : o = offset'[x] /\ o = 0
      BY <1>10
    <3>4. g.pos = o + Len(g.writeBuffer) - Len(g.readBuffer)
      <4>1. Len(g.writeBuffer) = 0 /\ Len(g.readBuffer) = 0
        BY <3>2
      <4> QED
        BY <3>2, <3>3, <4>1
    <3>5. Ahead(g) = 0 /\ g.nextByte # <<EOF>>
      BY <3>2 DEF Ahead
    <3>6. GoodCell(g, o, Len(os'[uri[x]]), x, <<>>, <<>>)
      BY <3>2, <3>4, <3>5, NewCell, NothingLeft
    <3> QED
      BY <1>5, <2>1, <3>1, <3>3, <3>6 DEF CellOK
  <2>2. CASE y # x
    <3>1. y \in DOMAIN files /\ SameCell(y)
      BY <1>5, <1>9, <1>12, <2>2 DEF SameCell, Openable
    <3> QED
      BY <1>1, <3>1, NothingLeft, OtherCells
  <2> QED
    BY <2>1, <2>2
<1>14. /\ errors' \subseteq Codes /\ status' \in {"mainCalled", "mainExited", "terminated"}
       /\ status' # "terminated"
  BY <1>1, <1>2 DEF StdioInv, Stated
<1>15. \A i \in 1 .. Len(<<>>) : <<>>[i].op = "sendString" => i = 1 /\ Open(<<>>[i].fd)'
  OBVIOUS
<1> QED
  BY <1>2, <1>7, <1>11, <1>12, <1>13, <1>14, <1>15, NothingLeft, Arrived

(* No stream but x is being read.                                          *)
OnlyReads(R, x) == \A y : y # x => R[1] # call("fillBuffer", y) /\ ~ReadsLast(R, y)

(* A step inside a call that changes the cell of x.                        *)
LEMMA CellStep ==
  ASSUME OneThread, StdioInv, NEW R, Doing(<<>>, R), status # "terminated",
         NEW A \in Seq(FlushItems), NEW Q \in Seq(RestItems), AllFlush(A),
         k' = [k EXCEPT ![Here] = A \o Q], UNCHANGED <<os, offset, status, program>>,
         errors' \subseteq Codes, NEW x \in DOMAIN files, NEW g,
         files' = [files EXCEPT ![x] = g],
         GoodCell(g, offset[x], Len(os[uri[x]]), x, A, Q), RestOK(A, Q)', OnlyReads(R, x)
  PROVE  StdioInv'
<1>1. DOMAIN files' = DOMAIN files /\ Openable(DOMAIN files')
  BY DEF StdioInv
<1>2. ASSUME NEW y \in DOMAIN files'
      PROVE  CellOK(y, A, Q)'
  <2>1. CASE y = x
    <3>1. files'[y] = g
      BY <1>1, <2>1
    <3> QED
      BY <1>1, <2>1, <3>1 DEF CellOK
  <2>2. CASE y # x
    <3>1. SameCell(y) /\ CellOK(y, <<>>, R)
      BY <1>1, <2>2 DEF SameCell, Doing
    <3>2. Ahead(files[y]) # 1 /\ ~ReadsLast(R, y)
      BY <2>2, <3>1 DEF CellOK, GoodCell, OnlyReads
    <3> QED
      BY <3>1, <3>2, RestCellKept
  <2> QED
    BY <2>1, <2>2
<1>3. PICK K : K = A \o Q
  OBVIOUS
<1> QED
  BY <1>1, <1>2, <1>3, RestStep

(* An error is reported inside a call.                                     *)
LEMMA RestHalts ==
  ASSUME OneThread, StdioInv, NEW R \in Seq(RestItems), Doing(<<>>, R), R # <<>>,
         k[Here] = R, status # "terminated", NEW code \in Codes, Halts(Here, code),
         UNCHANGED <<files, os, offset, status, program>>,
         \A y : R[1] # call("fillBuffer", y)
  PROVE  StdioInv'
<1>1. PICK c \in RestItems : c = halt
  BY MakeItems, StdioAssumption
<1>2. PICK Q \in Seq(RestItems) :
        /\ Q = <<c>> \o R /\ Q # <<>> /\ Q[1] = c /\ Len(Q) = Len(R) + 1
        /\ Q[Len(Q)] = R[Len(R)]
  <2>1. <<c>> \in Seq(RestItems) /\ Len(<<c>>) = 1 /\ <<c>>[1] = c
    OBVIOUS
  <2>2. PICK Q \in Seq(RestItems) :
          /\ Q = <<c>> \o R /\ Len(Q) = 1 + Len(R)
          /\ \A i \in 1 .. 1 : Q[i] = <<c>>[i]
          /\ \A i \in 1 .. Len(R) : Q[1 + i] = R[i]
    <3>1. /\ <<c>> \o R \in Seq(RestItems) /\ Len(<<c>> \o R) = Len(<<c>>) + Len(R)
          /\ \A i \in 1 .. Len(<<c>>) : (<<c>> \o R)[i] = <<c>>[i]
          /\ \A i \in 1 .. Len(R) : (<<c>> \o R)[Len(<<c>>) + i] = R[i]
      BY <2>1, ConcatLaws
    <3> QED
      BY <2>1, <3>1
  <2>3. Len(R) \in Nat \ {0} /\ Len(R) \in 1 .. Len(R)
    OBVIOUS
  <2>4. Q[1] = c /\ Q # <<>>
    BY <2>1, <2>2, <2>3
  <2>5. Q[1 + Len(R)] = R[Len(R)] /\ Len(Q) = Len(R) + 1
    BY <2>2, <2>3
  <2> QED
    BY <2>2, <2>3, <2>4, <2>5
<1>3. k' = [k EXCEPT ![Here] = <<>> \o Q]
  <2>1. <<>> \o Q = Q
    BY EmptyLaws
  <2> QED
    BY <1>1, <1>2, <2>1 DEF Halts, halt
<1>4. RestOK(<<>>, Q)'
  <2>1. Halting(<<>>, Q)'
    BY <1>1, <1>2 DEF Halting
  <2> QED
    BY <2>1 DEF RestOK
<1>5. ASSUME NEW y \in DOMAIN files' PROVE CellOK(y, <<>>, Q)'
  <2>1. SameCell(y) /\ CellOK(y, <<>>, R) /\ y \in DOMAIN files
    BY DEF SameCell, Doing
  <2>2. Ahead(files[y]) # 1
    BY <2>1 DEF CellOK, GoodCell
  <2>3. ReadsLast(R, y) => ReadsLast(Q, y)
    BY <1>2 DEF ReadsLast
  <2> QED
    BY <2>1, <2>2, <2>3, NothingLeft, RestCellKept
<1>6. errors' \subseteq Codes /\ Openable(DOMAIN files')
  BY DEF Halts, StdioInv
<1>7. PICK K : K = <<>> \o Q
  OBVIOUS
<1> QED
  BY <1>3, <1>4, <1>5, <1>6, <1>7, NothingLeft, RestStep

LEMMA AtWrite ==
  ASSUME OneThread, StdioInv, NEW t \in Threads, AtHead(t, "writeFD")
  PROVE  \E x \in DOMAIN files, s \in Strings, R \in Seq(RestItems) :
           /\ t = Here /\ k[t] = R /\ Doing(<<>>, R) /\ status # "terminated" /\ R # <<>>
           /\ Head(k[t]) = callWith("writeFD", x, s) /\ R[1] = callWith("writeFD", x, s)
           /\ \/ Tail(k[t]) = <<>>
              \/ x = stdout /\ Tail(k[t]) = <<call("flush", stdout), end>>
           /\ \A y : R[1] # call("fillBuffer", y) /\ ~ReadsLast(R, y)
<1>1. Head(k[t]).op \notin FlushOps /\ k[t] # <<>>
  BY DEF FlushOps, AtHead
<1>2. PICK R \in Seq(RestItems) :
        t = Here /\ Doing(<<>>, R) /\ k[t] = R /\ R # <<>> /\ R[1] = Head(k[t])
  BY <1>1, AtR
<1>3. Writing(<<>>, R)
  BY <1>2, RestKinds DEF Doing, AtHead
<1>4. status # "terminated"
  BY <1>2 DEF Doing
<1>5. CASE \E x \in DOMAIN files, s \in Strings : R = <<callWith("writeFD", x, s)>>
  <2>1. PICK x \in DOMAIN files, s \in Strings : R = <<callWith("writeFD", x, s)>>
    BY <1>5
  <2>2. /\ R[1] = callWith("writeFD", x, s) /\ Tail(R) = <<>>
        /\ \A y : R[1] # call("fillBuffer", y) /\ ~ReadsLast(R, y)
    BY <2>1 DEF callWith, call, ReadsLast
  <2> QED
    BY <1>2, <1>4, <2>1, <2>2
<1>6. CASE /\ Open(stdout)
           /\ R = <<callWith("writeFD", stdout, <<nl>>), call("flush", stdout), end>>
  <2>1. PICK x \in DOMAIN files, s \in Strings : x = stdout /\ s = <<nl>>
    <3>1. <<nl>> \in Strings
      <4>1. <<nl>> \in [1 .. 1 -> Chars] /\ 1 \in 0 .. MaxString
        BY StdioAssumption
      <4>2. <<nl>> \in SeqOf(Chars, MaxString)
        BY <4>1 DEF SeqOf
      <4> QED
        BY <4>2 DEF Strings
    <3> QED
      BY <1>6, <3>1 DEF Open
  <2>2. PICK c, d, e : c = callWith("writeFD", x, s) /\ d = call("flush", x) /\ e = end
    OBVIOUS
  <2>3. R = <<c, d, e>>
    BY <1>6, <2>1, <2>2
  <2>4. c.op = "writeFD" /\ e.op = "end"
    BY <2>2 DEF callWith, end
  <2>5. /\ R[1] = c /\ Tail(R) = <<d, e>> /\ R[Len(R)] = e
    BY <2>3
  <2>6. \A y : R[1] # call("fillBuffer", y) /\ ~ReadsLast(R, y)
    BY <2>4, <2>5 DEF call, ReadsLast
  <2> QED
    BY <1>2, <1>4, <2>1, <2>2, <2>5, <2>6
<1> QED
  BY <1>3, <1>5, <1>6 DEF Writing

LEMMA WriteFDStep ==
  ASSUME OneThread, StdioInv, NEW t \in Threads, WriteFD(t)
  PROVE  StdioInv'
<1>1. PICK x \in DOMAIN files, s \in Strings, R \in Seq(RestItems) :
        /\ t = Here /\ k[t] = R /\ Doing(<<>>, R) /\ status # "terminated" /\ R # <<>>
        /\ Head(k[t]) = callWith("writeFD", x, s) /\ R[1] = callWith("writeFD", x, s)
        /\ \/ Tail(k[t]) = <<>>
           \/ x = stdout /\ Tail(k[t]) = <<call("flush", stdout), end>>
        /\ \A y : R[1] # call("fillBuffer", y) /\ ~ReadsLast(R, y)
  BY AtWrite DEF WriteFD
<1>2. Fd(t) = x /\ Head(k[t]).arg = s /\ UNCHANGED <<os, offset, status, program>>
  BY <1>1 DEF Fd, callWith, WriteFD
<1>3. CellOK(x, <<>>, R)
  BY <1>1 DEF Doing
<1>4. PICK f \in FileCell : f = files[x]
  BY <1>3, CellFacts
<1>5. PICK w \in Texts : w = f.writeBuffer /\ Len(w) \in Nat
  BY <1>3, <1>4, CellFacts
<1>6. CASE Halts(t, "IO1") /\ UNCHANGED files
  <2>1. "IO1" \in Codes
    BY DEF Codes
  <2> QED
    BY <1>1, <1>2, <1>6, <2>1, RestHalts
<1>7. CASE /\ ~AfterInput(f)
           /\ files' = [files EXCEPT ![x] =
                          [f EXCEPT !.writeBuffer = w \o s, !.pos = f.pos + Len(s),
                                    !.lastOp = "outputOp"]]
           /\ Becomes(t, <<call("flush", x)>>) \/ Becomes(t, <<>>)
           /\ UNCHANGED errors
  <2>1. PICK g : g = [f EXCEPT !.writeBuffer = w \o s, !.pos = f.pos + Len(s),
                               !.lastOp = "outputOp"]
    OBVIOUS
  <2>2. s \in Texts /\ Len(s) \in Nat
    BY StringFacts DEF Texts
  <2>3. w \o s \in Texts /\ Len(w \o s) = Len(w) + Len(s)
    BY <2>2, ConcatLaws DEF Texts
  <2>4. f.pos \in Int /\ f.pos + Len(s) \in Int
    BY <2>2 DEF FileCell
  <2>5. g \in FileCell
    BY <2>1, <2>3, <2>4 DEF FileCell, LastOps
  <2>6. /\ g.writeBuffer = w \o s /\ g.pos = f.pos + Len(s) /\ g.lastOp = "outputOp"
        /\ g.readBuffer = f.readBuffer /\ g.nextByte = f.nextByte /\ g.feof = f.feof
    BY <2>1 DEF FileCell
  <2>7. Ahead(f) # 1 /\ Ahead(f) = 0 /\ Ahead(g) = 0
    BY <1>1, <1>3, <1>4, <2>6 DEF CellOK, GoodCell, Ahead
  <2>8. f.readBuffer = <<>>
    BY <1>1, <1>3, <1>4, <1>7 DEF CellOK, GoodCell, AfterInput
  <2>9. PICK o \in Nat, l \in Nat, m \in Nat : o = offset[x] /\ l = Len(w) /\ m = Len(s)
    BY <1>3, <1>5, <2>2, CellFacts
  <2>10. f.pos = o + l - 0
    <3>1. f.pos = o + Len(Sending(<<>>, x)) + l - Len(f.readBuffer) - Ahead(f)
      BY <1>3, <1>4, <1>5, <2>9 DEF CellOK, GoodCell
    <3>2. Len(Sending(<<>>, x)) = 0 /\ Len(f.readBuffer) = 0
      BY <2>8 DEF Sending
    <3> QED
      BY <2>7, <3>1, <3>2
  <2>11. g.pos = o + Len(g.writeBuffer) - Len(g.readBuffer)
    <3>1. f.pos + m = o + (l + m) - 0
      BY <2>10
    <3>2. Len(g.writeBuffer) = l + m /\ Len(g.readBuffer) = 0
      BY <2>3, <2>6, <2>8, <2>9
    <3> QED
      BY <2>6, <2>9, <3>1, <3>2
  <2>12. g.feof \/ g.nextByte = <<EOF>> => o = Len(os[uri[x]])
    BY <1>3, <1>4, <2>6, <2>9 DEF CellOK, GoodCell
  <2>13. \A Q : \A A \in Seq(FlushItems) : AllFlush(A) => GoodCell(g, o, Len(os[uri[x]]), x, A, Q)
    BY <2>5, <2>6, <2>7, <2>8, <2>11, <2>12, NewCell
  <2>14. x \in Streams /\ errors' \subseteq Codes /\ files' = [files EXCEPT ![x] = g]
    BY <1>3, <1>7, <2>1, CellFacts DEF StdioInv
  <2>15. OnlyReads(R, x)
    BY <1>1 DEF OnlyReads
  <2>16. PICK c \in FlushItems : c = call("flush", x)
    BY <2>14, MakeItems
  <2>17. <<c>> \in Seq(FlushItems) /\ AllFlush(<<c>>) /\ InFlush(<<c>>, x)
    BY <2>14, <2>16, OneFlush
  <2>18. PICK ks \in {<<>>, <<c>>} : k' = [k EXCEPT ![Here] = ks \o Tail(k[t])]
    BY <1>1, <1>7, <2>16 DEF Becomes
  <2>19. ks \in Seq(FlushItems) /\ AllFlush(ks)
    BY <2>17, NothingLeft
  <2>20. CASE Tail(k[t]) = <<>>
    <3>1. k' = [k EXCEPT ![Here] = ks \o <<>>]
      BY <2>18, <2>20
    <3> QED
      BY <1>1, <1>2, <2>9, <2>13, <2>14, <2>15, <2>19, <3>1, NothingLeft, CellStep
  <2>21. CASE x = stdout /\ Tail(k[t]) = <<call("flush", stdout), end>>
    <3>1. end \in RestItems /\ <<end>> \in Seq(RestItems)
      BY StdioAssumption, MakeItems, ShortSeqs
    <3>2. c \in Items /\ end \in Items
      BY <3>1 DEF Items
    <3>3. <<c>> \o <<end>> = <<c, end>>
      BY <3>2, ShortConcats
    <3>4. PICK A \in Seq(FlushItems) : A = ks \o <<c>> /\ AllFlush(A) /\ InFlush(A, x)
      <4>1. CASE ks = <<>>
        <5>1. ks \o <<c>> = <<c>>
          BY <2>17, <4>1, EmptyLaws
        <5> QED
          BY <2>17, <5>1
      <4>2. CASE ks = <<c>>
        <5>1. ks \o <<c>> = <<c, c>>
          BY <4>2, ShortConcats
        <5>2. <<c, c>> \in Seq(FlushItems)
          BY ShortSeqs
        <5>3. c.op = "flush"
          BY <2>16 DEF call
        <5>4. AllFlush(<<c, c>>) /\ InFlush(<<c, c>>, x)
          BY <2>16, <5>3 DEF AllFlush, InFlush
        <5> QED
          BY <5>1, <5>2, <5>4
      <4> QED
        BY <4>1, <4>2
    <3>5. ks \o <<c, end>> = A \o <<end>>
      <4>1. ks \in Seq(Items) /\ <<c>> \in Seq(Items) /\ <<end>> \in Seq(Items)
        BY <2>17, <2>19, <3>1, ItemSeqs
      <4>2. (ks \o <<c>>) \o <<end>> = ks \o (<<c>> \o <<end>>)
        BY <4>1, ConcatAssoc, SMTT(30)
      <4> QED
        BY <3>3, <3>4, <4>2
    <3>6. k' = [k EXCEPT ![Here] = A \o <<end>>]
      BY <2>16, <2>18, <2>21, <3>5
    <3>7. RestOK(A, <<end>>)'
      <4>1. Flushes(A, stdout)'
        BY <2>21, <3>4 DEF Flushes, InFlush
      <4>2. Ending(A, <<end>>)'
        BY <4>1 DEF Ending
      <4> QED
        BY <4>2 DEF RestOK
    <3> QED
      BY <1>1, <1>2, <2>9, <2>13, <2>14, <2>15, <3>1, <3>4, <3>6, <3>7, CellStep
  <2> QED
    BY <1>1, <2>20, <2>21
<1>8. \/ Halts(t, "IO1") /\ UNCHANGED files
      \/ /\ ~AfterInput(f)
         /\ files' = [files EXCEPT ![x] =
                        [f EXCEPT !.writeBuffer = w \o s, !.pos = f.pos + Len(s),
                                  !.lastOp = "outputOp"]]
         /\ Becomes(t, <<call("flush", x)>>) \/ Becomes(t, <<>>)
         /\ UNCHANGED errors
  <2>2. \A c : Becomes(t, IF c THEN <<call("flush", x)>> ELSE <<>>) =>
                 Becomes(t, <<call("flush", x)>>) \/ Becomes(t, <<>>)
    BY DEF Becomes
  <2> HIDE DEF Becomes
  <2>3. \/ /\ ~AfterInput(f)
           /\ files' = [files EXCEPT ![x] = [f EXCEPT !.writeBuffer = w \o s, !.pos = f.pos + Len(s),
                                                      !.lastOp = "outputOp"]]
           /\ \E c : Becomes(t, IF c THEN <<call("flush", x)>> ELSE <<>>)
           /\ UNCHANGED errors
        \/ Halts(t, "IO1") /\ UNCHANGED files
    BY <1>2, <1>4, <1>5, Zenon DEF WriteFD
  <2> QED
    BY <2>2, <2>3, Zenon
<1> QED
  BY <1>6, <1>7, <1>8

(* The stream that is read.                                                *)
LEMMA ReadCell ==
  ASSUME OneThread, StdioInv, NEW t \in Threads, NEW x \in DOMAIN files,
         NEW n \in 1 .. MaxString, NEW R \in Seq(RestItems), ReadAt(t, x, n, R)
  PROVE  /\ CellOK(x, <<>>, R) /\ OnlyReads(R, x) /\ x \in Streams /\ R # <<>>
         /\ R[1] = Head(k[t])
         /\ callWith("readFD", x, n) \in RestItems /\ call("fillBuffer", x) \in RestItems
         /\ call("flushAll", x) \in RestItems
<1>1. CellOK(x, <<>>, R)
  BY DEF ReadAt, Doing
<1>2. x \in Streams
  BY <1>1, CellFacts
<1>3. PICK read \in RestItems, fill \in RestItems, all \in RestItems :
        /\ read = callWith("readFD", x, n) /\ fill = call("fillBuffer", x)
        /\ all = call("flushAll", x)
  BY <1>2, MakeItems
<1>4. /\ R # <<>> /\ R[Len(R)] = read /\ (R[1] = read \/ R[1] = fill \/ R[1] = all)
      /\ Head(R) = R[1]
  <2>1. R = <<read>> \/ R = <<fill, read>> \/ R = <<all, read>> \/ R = <<all, fill, read>>
    BY <1>3 DEF ReadAt
  <2>2. CASE R = <<read>>
    BY <2>2
  <2>3. CASE R = <<fill, read>>
    BY <2>3
  <2>4. CASE R = <<all, read>>
    BY <2>4
  <2>5. CASE R = <<all, fill, read>>
    BY <2>5
  <2> QED
    BY <2>1, <2>2, <2>3, <2>4, <2>5
<1>5. \A y : y # x => R[1] # call("fillBuffer", y) /\ ~ReadsLast(R, y)
  <2> SUFFICES ASSUME NEW y, y # x PROVE R[1] # call("fillBuffer", y) /\ ~ReadsLast(R, y)
    OBVIOUS
  <2>1. read.fd = x /\ fill.fd = x /\ all.fd = x /\ call("fillBuffer", y).fd = y
    BY <1>3 DEF call, callWith
  <2> QED
    BY <1>4, <2>1 DEF ReadsLast
<1> QED
  BY <1>1, <1>2, <1>3, <1>4, <1>5 DEF OnlyReads, ReadAt

LEMMA ReadFDStep ==
  ASSUME OneThread, StdioInv, NEW t \in Threads, ReadFD(t)
  PROVE  StdioInv'
<1>1. PICK x \in DOMAIN files, n \in 1 .. MaxString, R \in Seq(RestItems) :
        ReadAt(t, x, n, R) /\ Fd(t) = x
  BY AtRead DEF ReadFD, AtHead
<1>2. PICK read \in RestItems, fill \in RestItems, all \in RestItems :
        /\ read = callWith("readFD", x, n) /\ fill = call("fillBuffer", x)
        /\ all = call("flushAll", x)
  BY <1>1, ReadCell
<1>3. /\ R = <<read>> /\ t = Here /\ k[t] = R /\ Doing(<<>>, R) /\ status # "terminated"
      /\ Head(k[t]) = read /\ Tail(k[t]) = <<>> /\ MayRead(x) /\ read.op = "readFD"
  <2>1. R = <<read>> /\ t = Here /\ k[t] = R /\ Doing(<<>>, R) /\ status # "terminated" /\ MayRead(x)
    BY <1>1, <1>2 DEF ReadAt, ReadFD, AtHead
  <2> QED
    BY <1>2, <2>1 DEF callWith
<1>4. n = Head(k[t]).arg /\ UNCHANGED <<os, offset, status, program>>
  BY <1>2, <1>3 DEF callWith, ReadFD
<1>5. CellOK(x, <<>>, R) /\ OnlyReads(R, x) /\ x \in Streams
  BY <1>1, ReadCell
<1>6. PICK f \in FileCell, r \in Texts : f = files[x] /\ r = f.readBuffer /\ Len(r) \in Nat
  BY <1>5, CellFacts
<1>7. PICK l \in Nat : l = IF n < Len(r) THEN n ELSE Len(r)
  BY <1>6
<1>8. l <= Len(r) /\ SubSeq(r, 1, l) \in Texts /\ Len(SubSeq(r, 1, l)) = l
  <2>1. l <= Len(r)
    BY <1>6, <1>7
  <2>2. \A i \in 1 .. l : r[i] \in Chars
    BY <1>6, <2>1 DEF Texts
  <2> QED
    BY <2>1, <2>2, SubSeqProperties DEF Texts
<1>9. CASE /\ ~AfterOutput(f) /\ UNCHANGED errors /\ Becomes(t, <<>>)
           /\ files' = [files EXCEPT ![x] =
                          [f EXCEPT !.pos = f.pos + l, !.lastOp = "inputOp",
                                    !.readBuffer = SubSeq(r, l + 1, Len(r))]]
  <2>1. PICK q : q = SubSeq(r, l + 1, Len(r))
    OBVIOUS
  <2>2. q \in Texts /\ Len(q) = Len(r) - l
    <3>1. \A i \in l + 1 .. Len(r) : r[i] \in Chars
      BY <1>6 DEF Texts
    <3>2. l + 1 \in Int /\ Len(r) \in Int
      BY <1>6
    <3>3. /\ q \in Seq(Chars)
          /\ Len(q) = IF l + 1 <= Len(r) THEN Len(r) - (l + 1) + 1 ELSE 0
      BY <2>1, <3>1, <3>2, SubSeqProperties
    <3> QED
      BY <1>6, <1>8, <3>3 DEF Texts
  <2>3. PICK g : g = [f EXCEPT !.pos = f.pos + l, !.lastOp = "inputOp", !.readBuffer = q]
    OBVIOUS
  <2>4. g \in FileCell
    <3>1. f.pos + l \in Int
      BY DEF FileCell
    <3> QED
      BY <2>2, <2>3, <3>1 DEF FileCell, LastOps
  <2>5. /\ g.writeBuffer = f.writeBuffer /\ g.pos = f.pos + l /\ g.lastOp = "inputOp"
        /\ g.readBuffer = q /\ g.nextByte = f.nextByte /\ g.feof = f.feof
    BY <2>3 DEF FileCell
  <2>6. Ahead(f) # 1 /\ Ahead(f) = 0 /\ Ahead(g) = 0
    <3>1. R[1] # call("fillBuffer", x)
      BY <1>2, <1>3 DEF call, callWith
    <3> QED
      BY <1>5, <1>6, <2>5, <3>1 DEF CellOK, GoodCell, Ahead
  <2>7. f.writeBuffer = <<>>
    BY <1>5, <1>6, <1>9 DEF CellOK, GoodCell, AfterOutput, InFlush
  <2>8. PICK o \in Nat, m \in Nat : o = offset[x] /\ m = Len(r)
    BY <1>5, <1>6, CellFacts
  <2>9. f.pos = o - m
    <3>1. f.pos = o + Len(Sending(<<>>, x)) + Len(f.writeBuffer) - m - Ahead(f)
      BY <1>5, <1>6, <2>8 DEF CellOK, GoodCell
    <3>2. Len(Sending(<<>>, x)) = 0 /\ Len(f.writeBuffer) = 0
      BY <2>7 DEF Sending
    <3> QED
      BY <2>6, <3>1, <3>2
  <2>10. g.pos = o + Len(g.writeBuffer) - Len(g.readBuffer)
    <3>1. f.pos + l = o + 0 - (m - l)
      BY <2>9
    <3>2. Len(g.writeBuffer) = 0 /\ Len(g.readBuffer) = m - l
      BY <2>2, <2>5, <2>7, <2>8
    <3> QED
      BY <2>5, <3>1, <3>2, Zenon
  <2>11. g.feof \/ g.nextByte = <<EOF>> => o = Len(os[uri[x]])
    BY <1>5, <1>6, <2>5, <2>8 DEF CellOK, GoodCell
  <2>12. GoodCell(g, o, Len(os[uri[x]]), x, <<>>, <<>>)
    BY <2>4, <2>5, <2>6, <2>7, <2>10, <2>11, NewCell, NothingLeft
  <2>13. errors' \subseteq Codes /\ files' = [files EXCEPT ![x] = g]
    BY <1>9, <2>1, <2>3 DEF StdioInv
  <2>14. k' = [k EXCEPT ![Here] = <<>> \o <<>>]
    BY <1>3, <1>9 DEF Becomes
  <2> QED
    BY <1>3, <1>4, <1>5, <2>8, <2>12, <2>13, <2>14, NothingLeft, CellStep
<1>10. CASE /\ UNCHANGED <<files, errors>>
            /\ \E L \in {<<>>, <<all>>} : k' = [k EXCEPT ![t] = L \o <<fill>> \o @]
  <2>1. PICK L \in {<<>>, <<all>>} : k' = [k EXCEPT ![t] = L \o <<fill>> \o @]
    BY <1>10
  <2>2. PICK Q \in {<<fill, read>>, <<all, fill, read>>} : L \o <<fill>> \o <<read>> = Q
    <3>1. <<fill>> \o <<read>> = <<fill, read>> /\ <<all>> \o <<fill>> = <<all, fill>>
      BY ShortConcats
    <3>2. <<all, fill>> \o <<read>> = <<all, fill, read>>
      BY ShortConcats
    <3>3. <<>> \o <<fill>> = <<fill>>
      BY ShortSeqs, EmptyLaws
    <3> QED
      BY <3>1, <3>2, <3>3, Zenon
  <2>3. Q \in Seq(RestItems)
    BY ShortSeqs
  <2>4. k' = [k EXCEPT ![Here] = <<>> \o Q]
    <3>1. <<>> \o Q = Q
      BY <2>3, EmptyLaws
    <3> QED
      BY <1>3, <2>1, <2>2, <3>1
  <2>5. RestOK(<<>>, Q)'
    <3>1. MayRead(x)' /\ x \in DOMAIN files'
      BY <1>3, <1>4, <1>10 DEF MayRead
    <3>2. Reading(<<>>, Q)'
      BY <1>2, <2>2, <3>1 DEF Reading
    <3> QED
      BY <3>2 DEF RestOK
  <2>6. ASSUME NEW y \in DOMAIN files' PROVE CellOK(y, <<>>, Q)'
    <3>1. SameCell(y) /\ CellOK(y, <<>>, R) /\ y \in DOMAIN files
      BY <1>3, <1>4, <1>10 DEF SameCell, Doing
    <3>2. Ahead(files[y]) # 1
      <4>1. R[1] # call("fillBuffer", y)
        BY <1>2, <1>3 DEF call, callWith
      <4> QED
        BY <3>1, <4>1 DEF CellOK, GoodCell
    <3>3. ReadsLast(R, y) => ReadsLast(Q, y)
      <4>1. Q[Len(Q)] = read /\ R[Len(R)] = read /\ Q # <<>>
        BY <1>3, <2>2
      <4> QED
        BY <4>1 DEF ReadsLast
    <3> QED
      BY <3>1, <3>2, <3>3, NothingLeft, RestCellKept
  <2>7. errors' \subseteq Codes /\ Openable(DOMAIN files')
    BY <1>10 DEF StdioInv
  <2>8. PICK K : K = <<>> \o Q
    OBVIOUS
  <2> QED
    BY <1>3, <1>4, <2>3, <2>4, <2>5, <2>6, <2>7, <2>8, NothingLeft, RestStep
<1>11. CASE Halts(t, "IO2") /\ UNCHANGED files
  <2>1. "IO2" \in Codes /\ \A y : R[1] # call("fillBuffer", y)
    BY <1>2, <1>3 DEF Codes, call, callWith
  <2> QED
    BY <1>3, <1>4, <1>11, <2>1, RestHalts
<1>12. \/ /\ ~AfterOutput(f) /\ UNCHANGED errors /\ Becomes(t, <<>>)
          /\ files' = [files EXCEPT ![x] =
                         [f EXCEPT !.pos = f.pos + l, !.lastOp = "inputOp",
                                   !.readBuffer = SubSeq(r, l + 1, Len(r))]]
       \/ /\ UNCHANGED <<files, errors>>
          /\ \E L \in {<<>>, <<all>>} : k' = [k EXCEPT ![t] = L \o <<fill>> \o @]
       \/ Halts(t, "IO2") /\ UNCHANGED files
  <2>1. \/ /\ ~AfterOutput(f) /\ UNCHANGED errors /\ Becomes(t, <<>>)
           /\ files' = [files EXCEPT ![x] =
                [f EXCEPT !.pos = f.pos + Len(SubSeq(r, 1, l)), !.lastOp = "inputOp",
                          !.readBuffer = SubSeq(r, Len(SubSeq(r, 1, l)) + 1, Len(r))]]
        \/ /\ UNCHANGED <<files, errors>>
           /\ k' = [k EXCEPT ![t] = (IF f.bufMode = "lineBuf" THEN <<all>> ELSE <<>>)
                                      \o <<fill>> \o @]
        \/ Halts(t, "IO2") /\ UNCHANGED files
    BY <1>1, <1>2, <1>4, <1>6, <1>7, Zenon DEF ReadFD
  <2> HIDE DEF Becomes, Halts, AfterOutput
  <2> QED
    BY <1>8, <2>1, Zenon
<1> QED
  BY <1>9, <1>10, <1>11, <1>12

(* The thread that fills the buffer of x.                                  *)
LEMMA AtFill ==
  ASSUME OneThread, StdioInv, NEW t \in Threads, AtHead(t, "fillBuffer")
  PROVE  \E x \in DOMAIN files, n \in 1 .. MaxString, R \in Seq(RestItems) :
           /\ R = <<call("fillBuffer", x), callWith("readFD", x, n)>> /\ Fd(t) = x
           /\ t = Here /\ k[t] = R /\ Doing(<<>>, R) /\ status # "terminated" /\ MayRead(x)
           /\ Tail(k[t]) = <<callWith("readFD", x, n)>>
           /\ CellOK(x, <<>>, R) /\ OnlyReads(R, x) /\ x \in Streams
           /\ ReadsLast(R, x) /\ ReadsLast(<<callWith("readFD", x, n)>>, x)
           /\ <<callWith("readFD", x, n)>> \in Seq(RestItems)
<1>1. PICK x \in DOMAIN files, n \in 1 .. MaxString, R \in Seq(RestItems) :
        ReadAt(t, x, n, R) /\ Fd(t) = x
  BY AtRead DEF AtHead
<1>2. PICK read \in RestItems, fill \in RestItems :
        read = callWith("readFD", x, n) /\ fill = call("fillBuffer", x)
  BY <1>1, ReadCell
<1>3. /\ R = <<fill, read>> /\ t = Here /\ k[t] = R /\ Doing(<<>>, R) /\ status # "terminated"
      /\ MayRead(x)
  BY <1>1, <1>2 DEF ReadAt, AtHead
<1>4. Tail(k[t]) = <<read>> /\ R[Len(R)] = read /\ <<read>> \in Seq(RestItems)
  BY <1>3
<1>5. ReadsLast(R, x) /\ ReadsLast(<<read>>, x)
  <2>1. read.op = "readFD" /\ read.fd = x /\ R # <<>>
    BY <1>2, <1>3 DEF callWith
  <2>2. <<read>>[Len(<<read>>)] = read /\ <<read>> # <<>>
    OBVIOUS
  <2> QED
    BY <1>4, <2>1, <2>2 DEF ReadsLast
<1> QED
  BY <1>1, <1>2, <1>3, <1>4, <1>5, ReadCell

LEMMA GetcStep ==
  ASSUME OneThread, StdioInv, NEW t \in Threads, Getc(t)
  PROVE  StdioInv'
<1>1. PICK x \in DOMAIN files, n \in 1 .. MaxString, R \in Seq(RestItems) :
        /\ R = <<call("fillBuffer", x), callWith("readFD", x, n)>> /\ Fd(t) = x
        /\ t = Here /\ k[t] = R /\ Doing(<<>>, R) /\ status # "terminated" /\ MayRead(x)
        /\ CellOK(x, <<>>, R) /\ OnlyReads(R, x) /\ x \in Streams /\ ReadsLast(R, x)
  BY AtFill DEF Getc
<1>2. UNCHANGED <<k, os, status, program, errors>> /\ files[x].nextByte = <<>>
  BY <1>1 DEF Getc
<1>3. PICK f \in FileCell, o \in Nat, file \in Texts :
        /\ f = files[x] /\ o = offset[x] /\ file = os[uri[x]] /\ o <= Len(file)
        /\ Len(file) \in Nat
  BY <1>1, CellFacts
<1>4. PICK b \in NextBytes, p \in Nat :
        /\ files' = [files EXCEPT ![x] = [f EXCEPT !.nextByte = b]]
        /\ offset' = [offset EXCEPT ![x] = p]
        /\ \/ b = <<EOF>> /\ p = o /\ o = Len(file)
           \/ b # <<EOF>> /\ b # <<>> /\ p = o + 1 /\ o < Len(file)
  <2>1. CASE o >= Len(file)
    <3>1. /\ files' = [files EXCEPT ![x].nextByte = <<EOF>>]
          /\ offset' = [offset EXCEPT ![x] = offset[x]]
      BY <1>1, <1>3, <2>1 DEF Getc
    <3>2. files' = [files EXCEPT ![x] = [f EXCEPT !.nextByte = <<EOF>>]]
      BY <1>3, <3>1
    <3>3. <<EOF>> \in NextBytes
      BY DEF NextBytes
    <3>4. o = Len(file) /\ offset' = [offset EXCEPT ![x] = o]
      BY <1>3, <2>1, <3>1
    <3> QED
      BY <3>2, <3>3, <3>4, Zenon
  <2>2. CASE ~(o >= Len(file))
    <3>1. /\ files' = [files EXCEPT ![x].nextByte = <<file[o + 1]>>]
          /\ offset' = [offset EXCEPT ![x] = offset[x] + 1]
      BY <1>1, <1>3, <2>2 DEF Getc
    <3>2. files' = [files EXCEPT ![x] = [f EXCEPT !.nextByte = <<file[o + 1]>>]]
      BY <1>3, <3>1
    <3>3. file[o + 1] \in Chars
      BY <1>3, <2>2 DEF Texts
    <3>4. <<file[o + 1]>> \in NextBytes /\ <<file[o + 1]>> # <<>> /\ <<file[o + 1]>> # <<EOF>>
      BY <3>3, StdioAssumption DEF NextBytes
    <3>5. o < Len(file) /\ o + 1 \in Nat /\ offset' = [offset EXCEPT ![x] = o + 1]
      BY <1>3, <2>2, <3>1
    <3> QED
      BY <3>2, <3>4, <3>5, Zenon
  <2> QED
    BY <2>1, <2>2
<1>5. PICK g : g = [f EXCEPT !.nextByte = b]
  OBVIOUS
<1>6. /\ g \in FileCell /\ g.nextByte = b /\ g.pos = f.pos /\ g.lastOp = f.lastOp
      /\ g.feof = f.feof /\ g.readBuffer = f.readBuffer /\ g.writeBuffer = f.writeBuffer
      /\ g.ferror = f.ferror
  BY <1>5 DEF FileCell
<1>7. PICK w \in Nat, r \in Nat : w = Len(f.writeBuffer) /\ r = Len(f.readBuffer)
  BY <1>1, <1>3, CellFacts
<1>8. f.pos = o + 0 + w - r - 0
  <2>1. Len(Sending(<<>>, x)) = 0 /\ Ahead(f) = 0
    BY <1>2, <1>3 DEF Sending, Ahead
  <2> QED
    BY <1>1, <1>3, <1>7, <2>1 DEF CellOK, GoodCell
<1>9. GoodCell(g, p, Len(file), x, <<>>, R)
  <2>1. p + 0 + w - r - Ahead(g) = f.pos /\ Len(Sending(<<>>, x)) = 0
    <3>1. CASE b = <<EOF>> /\ p = o
      <4>1. Ahead(g) = 0
        BY <1>6, <3>1 DEF Ahead
      <4> QED
        BY <1>8, <3>1, <4>1 DEF Sending
    <3>2. CASE b # <<EOF>> /\ b # <<>> /\ p = o + 1
      <4>1. Ahead(g) = 1
        BY <1>6, <3>2 DEF Ahead
      <4> QED
        BY <1>8, <3>2, <4>1 DEF Sending
    <3> QED
      BY <1>4, <3>1, <3>2
  <2>2. g.pos = p + Len(Sending(<<>>, x)) + Len(g.writeBuffer) - Len(g.readBuffer) - Ahead(g)
    BY <1>6, <1>7, <2>1
  <2>3. g.feof \/ g.nextByte = <<EOF>> => p = Len(file)
    BY <1>1, <1>3, <1>4, <1>6 DEF CellOK, GoodCell
  <2>4. g.writeBuffer # <<>> => g.lastOp = "outputOp" \/ InFlush(<<>>, x)
    BY <1>1, <1>3, <1>6 DEF CellOK, GoodCell
  <2>5. R # <<>> /\ R[1] = call("fillBuffer", x)
    BY <1>1
  <2> QED
    BY <1>1, <1>6, <2>2, <2>3, <2>4, <2>5, Zenon DEF GoodCell
<1>10. DOMAIN files' = DOMAIN files /\ files'[x] = g /\ \A y \in DOMAIN files : y # x => files'[y] = files[y]
  BY <1>4, <1>5
<1>11. /\ os \in [URIs -> Texts] /\ offset \in [Streams -> Nat]
       /\ \A y \in Streams : offset[y] <= Len(os[uri[y]])
       /\ Openable(DOMAIN files)
  BY DEF StdioInv, OsOK
<1>12. offset'[x] = p /\ \A y \in Streams : y # x => offset'[y] = offset[y]
  BY <1>1, <1>4, <1>11
<1>13. OsOK'
  <2>1. offset' \in [Streams -> Nat]
    BY <1>4, <1>11
  <2>2. p <= Len(file)
    BY <1>3, <1>4
  <2>3. \A y \in Streams : offset'[y] <= Len(os'[uri[y]])
    BY <1>2, <1>3, <1>11, <1>12, <2>2
  <2> QED
    BY <1>2, <1>11, <2>1, <2>3 DEF OsOK
<1>14. ASSUME NEW y \in DOMAIN files' PROVE CellOK(y, <<>>, R)'
  <2>1. CASE y = x
    BY <1>2, <1>3, <1>9, <1>10, <1>12, <2>1 DEF CellOK
  <2>2. CASE y # x
    <3>1. SameCell(y) /\ CellOK(y, <<>>, R)
      BY <1>1, <1>2, <1>10, <1>11, <1>12, <2>2 DEF SameCell, Doing, Openable
    <3>2. Ahead(files[y]) # 1 /\ ~ReadsLast(R, y)
      BY <1>1, <2>2, <3>1 DEF CellOK, GoodCell, OnlyReads
    <3> QED
      BY <3>1, <3>2, NothingLeft, RestCellKept
  <2> QED
    BY <2>1, <2>2
<1>15. RestOK(<<>>, R)'
  <2>1. MayRead(x)'
    BY <1>1, <1>2, <1>3, <1>6, <1>10 DEF MayRead
  <2>2. Reading(<<>>, R)'
    BY <1>1, <1>10, <2>1 DEF Reading
  <2> QED
    BY <2>2 DEF RestOK
<1>16. k' = [k EXCEPT ![Here] = <<>> \o R]
  <2>1. <<>> \o R = R /\ k \in [Threads -> Seq(Items)]
    BY EmptyLaws DEF StdioInv
  <2> QED
    BY <1>1, <1>2, <2>1
<1>17. /\ Openable(DOMAIN files') /\ errors' \subseteq Codes /\ program' = program
       /\ status' \in {"mainCalled", "mainExited", "terminated"} /\ status' # "terminated"
  BY <1>1, <1>2, <1>10 DEF StdioInv
<1>18. \A i \in 1 .. Len(<<>>) : <<>>[i].op = "sendString" => i = 1 /\ Open(<<>>[i].fd)'
  OBVIOUS
<1> QED
  BY <1>13, <1>14, <1>15, <1>16, <1>17, <1>18, NothingLeft, Arrived

LEMMA FillBufferStep ==
  ASSUME OneThread, StdioInv, NEW t \in Threads, FillBuffer(t)
  PROVE  StdioInv'
<1>1. PICK x \in DOMAIN files, n \in 1 .. MaxString, R \in Seq(RestItems) :
        /\ R = <<call("fillBuffer", x), callWith("readFD", x, n)>> /\ Fd(t) = x
        /\ t = Here /\ k[t] = R /\ Doing(<<>>, R) /\ status # "terminated" /\ MayRead(x)
        /\ Tail(k[t]) = <<callWith("readFD", x, n)>>
        /\ CellOK(x, <<>>, R) /\ OnlyReads(R, x) /\ x \in Streams
        /\ ReadsLast(R, x) /\ ReadsLast(<<callWith("readFD", x, n)>>, x)
        /\ <<callWith("readFD", x, n)>> \in Seq(RestItems)
  BY AtFill DEF FillBuffer
<1>2. UNCHANGED <<os, offset, status, program, errors>> /\ errors' \subseteq Codes
  BY DEF FillBuffer, StdioInv
<1>3. PICK f \in FileCell, r \in Texts, b \in NextBytes :
        f = files[x] /\ r = f.readBuffer /\ b = f.nextByte /\ b # <<>>
  BY <1>1, CellFacts DEF FillBuffer
<1>4. PICK P \in Seq(RestItems) : P = <<callWith("readFD", x, n)>>
  BY <1>1
<1>5. ASSUME NEW Q \in {P, R}, k' = [k EXCEPT ![Here] = Q], NEW g \in FileCell,
             files' = [files EXCEPT ![x] = g], g.lastOp = f.lastOp, g.ferror = f.ferror,
             g.writeBuffer = f.writeBuffer, Ahead(g) = 0,
             g.pos = offset[x] + Len(g.writeBuffer) - Len(g.readBuffer),
             g.feof \/ g.nextByte = <<EOF>> => offset[x] = Len(os[uri[x]])
      PROVE  StdioInv'
  <2>1. Q \in Seq(RestItems) /\ ReadsLast(Q, x) /\ <<>> \o Q = Q
    BY <1>1, <1>4, EmptyLaws
  <2>2. offset[x] \in Nat
    BY <1>1, CellFacts
  <2>3. g.writeBuffer # <<>> => g.lastOp = "outputOp" \/ InFlush(<<>>, x)
    BY <1>1, <1>3, <1>5 DEF CellOK, GoodCell
  <2>4. GoodCell(g, offset[x], Len(os[uri[x]]), x, <<>>, Q)
    BY <1>5, <2>1, <2>2, <2>3, NewCell, NothingLeft
  <2>5. RestOK(<<>>, Q)'
    <3>1. DOMAIN files' = DOMAIN files /\ files'[x] = g
      BY <1>5
    <3>2. MayRead(x)'
      BY <1>1, <1>2, <1>3, <1>5, <3>1 DEF MayRead
    <3>3. Reading(<<>>, Q)'
      BY <1>1, <1>4, <3>1, <3>2 DEF Reading
    <3> QED
      BY <3>3 DEF RestOK
  <2> QED
    BY <1>1, <1>2, <1>5, <2>1, <2>4, <2>5, NothingLeft, CellStep
<1>6. PICK o \in Nat, w \in Nat, m \in Nat :
        o = offset[x] /\ w = Len(f.writeBuffer) /\ m = Len(r)
  BY <1>1, <1>3, CellFacts
<1>7. f.pos = o + 0 + w - m - Ahead(f)
  <2>1. Len(Sending(<<>>, x)) = 0
    BY DEF Sending
  <2> QED
    BY <1>1, <1>3, <1>6, <2>1 DEF CellOK, GoodCell
<1>8. k \in [Threads -> Seq(Items)]
  BY DEF StdioInv
<1>9. CASE b = <<EOF>>
  <2>1. PICK g : g = [f EXCEPT !.feof = TRUE]
    OBVIOUS
  <2>2. files' = [files EXCEPT ![x] = g] /\ k' = [k EXCEPT ![Here] = <<>> \o P]
    BY <1>1, <1>3, <1>4, <1>9, <2>1 DEF FillBuffer, setEof, Becomes
  <2>3. /\ g \in FileCell /\ g.lastOp = f.lastOp /\ g.ferror = f.ferror /\ g.pos = f.pos
        /\ g.writeBuffer = f.writeBuffer /\ g.readBuffer = r /\ g.nextByte = <<EOF>>
    BY <1>3, <1>9, <2>1 DEF FileCell
  <2>4. Ahead(g) = 0 /\ Ahead(f) = 0
    BY <1>3, <1>9, <2>3 DEF Ahead
  <2>5. g.pos = offset[x] + Len(g.writeBuffer) - Len(g.readBuffer)
    <3>1. f.pos = o + w - m
      BY <1>7, <2>4
    <3> QED
      BY <1>6, <2>3, <3>1, Zenon
  <2>6. offset[x] = Len(os[uri[x]])
    BY <1>1, <1>3, <1>9 DEF CellOK, GoodCell
  <2>7. <<>> \o P = P
    BY EmptyLaws
  <2> QED
    BY <1>5, <2>2, <2>3, <2>4, <2>5, <2>6, <2>7
<1>10. CASE b # <<EOF>>
  <2>1. PICK c \in Chars : b = <<c>>
    BY <1>3, <1>10 DEF NextBytes
  <2>2. r \o b \in Texts /\ Len(r \o b) = m + 1
    <3>1. b \in Seq(Chars) /\ Len(b) = 1
      BY <2>1
    <3>2. r \in Seq(Chars)
      BY DEF Texts
    <3>3. r \o b \in Seq(Chars) /\ Len(r \o b) = Len(r) + Len(b)
      BY <3>1, <3>2, ConcatLaws
    <3> QED
      BY <1>6, <3>1, <3>3 DEF Texts
  <2>3. PICK g : g = [f EXCEPT !.nextByte = <<>>, !.readBuffer = r \o b]
    OBVIOUS
  <2>4. /\ files' = [files EXCEPT ![x] = g]
        /\ k' = [k EXCEPT ![Here] = P] \/ k' = k
    BY <1>1, <1>3, <1>4, <1>10, <2>3 DEF FillBuffer
  <2>5. g \in FileCell
    BY <2>2, <2>3 DEF FileCell, NextBytes
  <2>6. /\ g.lastOp = f.lastOp /\ g.ferror = f.ferror /\ g.pos = f.pos /\ g.feof = f.feof
        /\ g.writeBuffer = f.writeBuffer /\ g.readBuffer = r \o b /\ g.nextByte = <<>>
    BY <2>3 DEF FileCell
  <2>7. Ahead(g) = 0 /\ Ahead(f) = 1
    BY <1>3, <1>10, <2>6 DEF Ahead
  <2>8. g.pos = offset[x] + Len(g.writeBuffer) - Len(g.readBuffer)
    <3>1. f.pos = o + w - (m + 1)
      BY <1>7, <2>7
    <3>2. Len(g.readBuffer) = m + 1
      BY <2>2, <2>6
    <3> QED
      BY <1>6, <2>6, <3>1, <3>2, Zenon
  <2>9. g.feof \/ g.nextByte = <<EOF>> => offset[x] = Len(os[uri[x]])
    BY <1>1, <1>3, <2>6 DEF CellOK, GoodCell
  <2>10. k' = [k EXCEPT ![Here] = P] \/ k' = [k EXCEPT ![Here] = R]
    BY <1>1, <1>8, <2>4
  <2> QED
    BY <1>5, <2>4, <2>5, <2>6, <2>7, <2>8, <2>9, <2>10
<1> QED
  BY <1>9, <1>10

LEMMA SeekStep ==
  ASSUME OneThread, StdioInv, NEW t \in Threads, Seek(t)
  PROVE  StdioInv'
<1>1. PICK R \in Seq(RestItems) :
        t = Here /\ Doing(<<>>, R) /\ k[t] = R /\ R # <<>> /\ R[1] = Head(k[t])
  <2>1. k[t] # <<>> /\ Head(k[t]).op \notin FlushOps
    BY DEF Seek, AtHead, FlushOps
  <2> QED
    BY <2>1, AtR
<1>2. Seeking(<<>>, R)
  BY <1>1, RestKinds DEF Doing, Seek, AtHead
<1>3. PICK x \in DOMAIN files, w \in Wheres :
        /\ R = <<callWith("seek", x, w)>> \/ R = <<callWith("seek", x, w), call("clearerr", x)>>
        /\ w[1] = "cur" => Reaches(x, <<>>, w[2])
        /\ files[x].writeBuffer = <<>>
  BY <1>2 DEF Seeking, Flushes, InFlush
<1>4. CellOK(x, <<>>, R) /\ UNCHANGED <<os, status, program, errors>> /\ status # "terminated"
  BY <1>1, <1>3 DEF Doing, Seek
<1>5. PICK f \in FileCell, o \in Nat, file \in Texts, l \in Nat :
        /\ f = files[x] /\ o = offset[x] /\ file = os[uri[x]] /\ l = Len(file) /\ o <= l
        /\ x \in Streams
  BY <1>4, CellFacts
<1>6. PICK c \in RestItems, d \in RestItems : c = callWith("seek", x, w) /\ d = call("clearerr", x)
  BY <1>5, MakeItems
<1>7. c.op = "seek" /\ c.fd = x /\ c.arg = w /\ d.op = "clearerr"
  BY <1>6 DEF callWith, call
<1>8. PICK Q \in Seq(RestItems) :
        /\ Q = Tail(k[t]) /\ (Q = <<>> \/ Q = <<d>>) /\ R[1] = c /\ (R[Len(R)] = c \/ R[Len(R)] = d)
  <2>1. CASE R = <<c>>
    <3>1. Tail(R) = <<>> /\ R[Len(R)] = c /\ <<>> \in Seq(RestItems) /\ R[1] = c
      BY <2>1
    <3> QED
      BY <1>1, <3>1
  <2>2. CASE R = <<c, d>>
    <3>1. Tail(R) = <<d>> /\ R[Len(R)] = d /\ <<d>> \in Seq(RestItems) /\ R[1] = c
      BY <2>2
    <3> QED
      BY <1>1, <3>1
  <2> QED
    BY <1>3, <1>6, <2>1, <2>2
<1>9. Fd(t) = x /\ Head(k[t]).arg = w
  BY <1>1, <1>7, <1>8 DEF Fd
<1>10. PICK p \in Nat :
         /\ p <= l /\ offset' = [offset EXCEPT ![x] = p]
         /\ files' = [files EXCEPT ![x] =
                        [f EXCEPT !.pos = p, !.nextByte = <<>>, !.readBuffer = <<>>,
                                  !.writeBuffer = <<>>, !.lastOp = "seekOp", !.feof = FALSE]]
  <2>1. PICK p : /\ p = CASE w[1] = "cur" -> f.pos + w[2] [] w[1] = "end" -> l [] w[1] = "set" -> w[2]
                 /\ offset' = [offset EXCEPT ![x] = p]
                 /\ files' = [files EXCEPT ![x] =
                        [f EXCEPT !.pos = p, !.nextByte = <<>>, !.readBuffer = <<>>,
                                  !.writeBuffer = <<>>, !.lastOp = "seekOp", !.feof = FALSE]]
    BY <1>5, <1>9 DEF Seek
  <2>2. p \in Nat /\ p <= l
    <3>1. CASE w[1] = "cur"
      <4>1. p = f.pos + w[2] /\ p \in 0 .. Extent(x, <<>>)
        BY <1>3, <1>5, <2>1, <3>1 DEF Reaches
      <4>2. Extent(x, <<>>) = IF o + 0 + 0 > l THEN o + 0 + 0 ELSE l
        <5>1. Len(Sending(<<>>, x)) = 0 /\ Len(files[x].writeBuffer) = 0
          BY <1>3 DEF Sending
        <5> QED
          BY <1>5, <5>1 DEF Extent
      <4> QED
        BY <1>5, <4>1, <4>2
    <3>2. CASE w = <<"end", 0>>
      BY <2>1, <3>2
    <3>3. CASE w = <<"set", 0>>
      <4>1. p = 0
        BY <2>1, <3>3
      <4> QED
        BY <4>1
    <3>4. w[1] = "cur" \/ w = <<"end", 0>> \/ w = <<"set", 0>>
      BY DEF Wheres
    <3> QED
      BY <3>1, <3>2, <3>3, <3>4
  <2> QED
    BY <2>1, <2>2
<1>11. PICK g : g = [f EXCEPT !.pos = p, !.nextByte = <<>>, !.readBuffer = <<>>,
                              !.writeBuffer = <<>>, !.lastOp = "seekOp", !.feof = FALSE]
  OBVIOUS
<1>12. /\ g.pos = p /\ g.nextByte = <<>> /\ g.readBuffer = <<>> /\ g.writeBuffer = <<>>
       /\ g.feof = FALSE
  BY <1>11 DEF FileCell
<1>13. g \in FileCell
  <2>1. <<>> \in NextBytes /\ <<>> \in Texts /\ "seekOp" \in LastOps /\ p \in Int
    BY DEF NextBytes, Texts, LastOps
  <2> QED
    BY <1>11, <2>1 DEF FileCell
<1>14. GoodCell(g, p, l, x, <<>>, Q)
  <2>1. Ahead(g) = 0 /\ g.nextByte # <<EOF>>
    BY <1>12 DEF Ahead
  <2>2. g.pos = p + Len(g.writeBuffer) - Len(g.readBuffer)
    <3>1. Len(g.writeBuffer) = 0 /\ Len(g.readBuffer) = 0
      BY <1>12
    <3> QED
      BY <1>12, <3>1
  <2> QED
    BY <1>12, <1>13, <2>1, <2>2, NewCell, NothingLeft
<1>15. /\ DOMAIN files' = DOMAIN files /\ files'[x] = g
       /\ \A y \in DOMAIN files : y # x => files'[y] = files[y]
  BY <1>10, <1>11
<1>16. /\ os \in [URIs -> Texts] /\ offset \in [Streams -> Nat]
       /\ \A y \in Streams : offset[y] <= Len(os[uri[y]])
       /\ Openable(DOMAIN files)
  BY DEF StdioInv, OsOK
<1>17. offset'[x] = p /\ \A y \in Streams : y # x => offset'[y] = offset[y]
  BY <1>5, <1>10, <1>16
<1>18. OsOK'
  <2>1. offset' \in [Streams -> Nat]
    BY <1>10, <1>16
  <2>2. \A y \in Streams : offset'[y] <= Len(os'[uri[y]])
    BY <1>4, <1>5, <1>10, <1>16, <1>17
  <2> QED
    BY <1>4, <1>16, <2>1, <2>2 DEF OsOK
<1>19. ASSUME NEW y \in DOMAIN files' PROVE CellOK(y, <<>>, Q)'
  <2>1. CASE y = x
    BY <1>4, <1>5, <1>14, <1>15, <1>17, <2>1 DEF CellOK
  <2>2. CASE y # x
    <3>1. SameCell(y) /\ CellOK(y, <<>>, R)
      BY <1>1, <1>4, <1>15, <1>16, <1>17, <2>2 DEF SameCell, Doing, Openable
    <3>2. Ahead(files[y]) # 1 /\ ~ReadsLast(R, y)
      <4>1. R[1] # call("fillBuffer", y)
        BY <1>7, <1>8 DEF call
      <4> QED
        BY <1>7, <1>8, <3>1, <4>1 DEF CellOK, GoodCell, ReadsLast
    <3> QED
      BY <3>1, <3>2, NothingLeft, RestCellKept
  <2> QED
    BY <2>1, <2>2
<1>20. RestOK(<<>>, Q)'
  <2>1. CASE Q = <<>>
    BY <2>1, NothingLeft
  <2>2. CASE Q = <<d>>
    <3>1. d \in Statements /\ d.fd = x
      BY <1>5, <1>6, MakeItems DEF call
    <3>2. Issued(d)'
      BY <1>7, <1>15, <3>1 DEF Issued, Open
    <3>3. Calling(<<>>, Q)'
      BY <2>2, <3>1, <3>2 DEF Calling
    <3> QED
      BY <3>3 DEF RestOK
  <2> QED
    BY <1>8, <2>1, <2>2
<1>21. k' = [k EXCEPT ![Here] = <<>> \o Q]
  BY <1>1, <1>8 DEF Seek, Becomes
<1>22. /\ Openable(DOMAIN files') /\ errors' \subseteq Codes /\ program' = program
       /\ status' \in {"mainCalled", "mainExited", "terminated"} /\ status' # "terminated"
  BY <1>4, <1>15 DEF StdioInv
<1>23. \A i \in 1 .. Len(<<>>) : <<>>[i].op = "sendString" => i = 1 /\ Open(<<>>[i].fd)'
  OBVIOUS
<1> QED
  BY <1>18, <1>19, <1>20, <1>21, <1>22, <1>23, NothingLeft, Arrived

LEMMA CloseStep ==
  ASSUME OneThread, StdioInv, NEW t \in Threads, Close(t)
  PROVE  StdioInv'
<1>1. PICK R \in Seq(RestItems) :
        t = Here /\ Doing(<<>>, R) /\ k[t] = R /\ R # <<>> /\ R[1] = Head(k[t])
  <2>1. k[t] # <<>> /\ Head(k[t]).op \notin FlushOps
    BY DEF Close, AtHead, FlushOps
  <2> QED
    BY <2>1, AtR
<1>2. Closing(<<>>, R)
  BY <1>1, RestKinds DEF Doing, Close, AtHead
<1>3. PICK x \in DOMAIN files : R = <<call("close", x)>>
  BY <1>2 DEF Closing
<1>4. R[1] = call("close", x) /\ R[Len(R)] = call("close", x) /\ Tail(R) = <<>>
  BY <1>3
<1>5. Fd(t) = x /\ UNCHANGED <<os, offset, status, program, errors>>
  BY <1>1, <1>4 DEF Fd, call, Close
<1>6. DOMAIN files' = DOMAIN files \ {x} /\ \A y \in DOMAIN files' : files'[y] = files[y]
  BY <1>5 DEF Close
<1>7. k' = [k EXCEPT ![Here] = <<>> \o <<>>]
  BY <1>1, <1>4 DEF Close, Becomes
<1>8. Openable(DOMAIN files') /\ errors' \subseteq Codes /\ status # "terminated"
  <2>1. Openable(DOMAIN files)
    BY DEF StdioInv
  <2>2. IsFiniteSet(DOMAIN files \ {x})
    BY <2>1, FS_RemoveElement DEF Openable
  <2>3. errors' \subseteq Codes /\ status # "terminated"
    BY <1>1, <1>5 DEF StdioInv, Doing
  <2> QED
    BY <1>6, <2>1, <2>2, <2>3 DEF Openable
<1>9. ASSUME NEW y \in DOMAIN files' PROVE CellOK(y, <<>>, <<>>)'
  <2>1. y \in DOMAIN files /\ SameCell(y) /\ CellOK(y, <<>>, R)
    BY <1>1, <1>5, <1>6 DEF SameCell, Doing
  <2>2. Ahead(files[y]) # 1 /\ ~ReadsLast(R, y)
    BY <1>4, <2>1 DEF CellOK, GoodCell, ReadsLast, call
  <2> QED
    BY <2>1, <2>2, NothingLeft, RestCellKept
<1>10. PICK K : K = <<>> \o <<>>
  OBVIOUS
<1> QED
  BY <1>5, <1>7, <1>8, <1>9, <1>10, NothingLeft, RestStep

LEMMA EndStep ==
  ASSUME OneThread, StdioInv, NEW t \in Threads, End(t)
  PROVE  StdioInv'
<1>1. PICK R \in Seq(RestItems) :
        t = Here /\ Doing(<<>>, R) /\ k[t] = R /\ R # <<>> /\ R[1] = Head(k[t])
  <2>1. k[t] # <<>> /\ Head(k[t]).op \notin FlushOps
    BY DEF End, AtHead, FlushOps
  <2> QED
    BY <2>1, AtR
<1>2. Ending(<<>>, R)
  BY <1>1, RestKinds DEF Doing, End, AtHead
<1>3. /\ R = <<end>> /\ (stdout \in DOMAIN files => files[stdout].writeBuffer = <<>>)
      /\ UNCHANGED <<files, os, offset, program, errors>> /\ status' = "terminated"
  BY <1>2 DEF Ending, Open, Flushes, InFlush, End
<1>4. R[1] = end /\ R[Len(R)] = end /\ Tail(R) = <<>>
  BY <1>3
<1>5. k' = [k EXCEPT ![Here] = <<>> \o <<>>]
  BY <1>1, <1>4 DEF End, Becomes
<1>6. ASSUME NEW y \in DOMAIN files' PROVE CellOK(y, <<>>, <<>>)'
  <2>1. y \in DOMAIN files /\ SameCell(y) /\ CellOK(y, <<>>, R)
    BY <1>1, <1>3 DEF SameCell, Doing
  <2>2. Ahead(files[y]) # 1 /\ ~ReadsLast(R, y)
    BY <1>4, <2>1 DEF CellOK, GoodCell, ReadsLast, call, end
  <2> QED
    BY <2>1, <2>2, NothingLeft, RestCellKept
<1>7. /\ Openable(DOMAIN files') /\ OsOK' /\ errors' \subseteq Codes /\ program' = program
      /\ status' \in {"mainCalled", "mainExited", "terminated"}
      /\ Open(stdout)' => files'[stdout].writeBuffer = <<>>
  BY <1>3 DEF StdioInv, OsOK, Open
<1>8. \A i \in 1 .. Len(<<>>) : <<>>[i].op = "sendString" => i = 1 /\ Open(<<>>[i].fd)'
  OBVIOUS
<1> QED
  BY <1>5, <1>6, <1>7, <1>8, NothingLeft, Arrived

-----------------------------------------------------------------------------
(* The steps of a flush: the first item of A is replaced by ks.            *)

HeadReplaced(A, ks, C) ==
  /\ C \in Seq(FlushItems) /\ OnlyFirst(C)
  /\ \A y : InFlush(A, y) /\ A[1] # call("flush", y) => InFlush(C, y)
  /\ \A y : Sending(C, y) = Sending(ks, y)
  /\ ks # <<>> => C # <<>> /\ C[1] = ks[1]
  /\ ks = <<>> => \A i \in 1 .. Len(C) : C[i].op # "sendString"

LEMMA ReplaceHead ==
  ASSUME NEW A \in Seq(FlushItems), A # <<>>, OnlyFirst(A),
         NEW ks \in Seq(FlushItems), OnlyFirst(ks), NEW C, C = ks \o Tail(A)
  PROVE  HeadReplaced(A, ks, C)
<1>1. PICK B \in Seq(FlushItems) :
        /\ B = Tail(A) /\ Len(B) = Len(A) - 1
        /\ \A i \in 1 .. Len(B) : B[i] = A[i + 1]
  BY HeadTailProperties
<1>2. PICK n \in Nat, m \in Nat : n = Len(ks) /\ m = Len(B) /\ Len(A) = m + 1
  <2>1. Len(ks) \in Nat /\ Len(B) \in Nat /\ Len(A) \in Nat
    OBVIOUS
  <2>2. Len(A) = Len(B) + 1
    BY <1>1, <2>1
  <2> QED
    BY <2>1, <2>2, Zenon
<1>3. /\ C \in Seq(FlushItems) /\ Len(C) = n + m
      /\ \A i \in 1 .. n : C[i] = ks[i]
      /\ \A i \in 1 .. m : C[n + i] = B[i]
  BY <1>1, <1>2, ConcatLaws
<1>4. \A i \in 1 .. m : C[n + i] = A[i + 1] /\ C[n + i].op # "sendString"
  <2> TAKE i \in 1 .. m
  <2>1. C[n + i] = A[i + 1] /\ i + 1 \in 1 .. Len(A) /\ i + 1 # 1
    BY <1>1, <1>2, <1>3
  <2> QED
    BY <2>1 DEF OnlyFirst
<1>5. ASSUME NEW i \in 1 .. Len(C), i > n
      PROVE  C[i].op # "sendString"
  <2>1. PICK j \in 1 .. m : n + j = i
    <3>1. i - n \in 1 .. m /\ n + (i - n) = i
      BY <1>2, <1>3, <1>5
    <3> QED
      BY <3>1
  <2> QED
    BY <1>4, <2>1
<1>6. OnlyFirst(C)
  <2> SUFFICES ASSUME NEW i \in 1 .. Len(C), C[i].op = "sendString" PROVE i = 1
    BY DEF OnlyFirst
  <2>1. i \in 1 .. n
    BY <1>2, <1>5
  <2> QED
    BY <1>2, <1>3, <2>1 DEF OnlyFirst
<1>7. ASSUME NEW y, InFlush(A, y), A[1] # call("flush", y)
      PROVE  InFlush(C, y)
  <2>1. PICK i \in 1 .. Len(A) : A[i] = call("flush", y)
    BY <1>7 DEF InFlush
  <2>2. PICK j \in 1 .. m : j + 1 = i
    <3>1. i # 1
      BY <1>7, <2>1
    <3>2. i - 1 \in 1 .. m /\ (i - 1) + 1 = i
      BY <1>2, <3>1
    <3> QED
      BY <3>2
  <2>3. C[n + j] = call("flush", y) /\ n + j \in 1 .. Len(C)
    BY <1>2, <1>3, <1>4, <2>1, <2>2
  <2> QED
    BY <2>3 DEF InFlush
<1>8. ks # <<>> => C # <<>> /\ C[1] = ks[1]
  <2> HAVE ks # <<>>
  <2>1. n >= 1 /\ 1 \in 1 .. n
    BY <1>2
  <2> QED
    BY <1>2, <1>3, <2>1
<1>9. ASSUME NEW y PROVE Sending(C, y) = Sending(ks, y)
  <2>1. CASE ks # <<>>
    BY <1>8, <2>1 DEF Sending
  <2>2. CASE ks = <<>> /\ C # <<>>
    <3>1. n = 0 /\ 1 \in 1 .. Len(C) /\ 1 > n
      BY <1>2, <1>3, <2>2
    <3>2. C[1].op # "sendString"
      BY <1>5, <3>1
    <3> QED
      BY <2>2, <3>2 DEF Sending
  <2>3. CASE ks = <<>> /\ C = <<>>
    BY <2>3 DEF Sending
  <2> QED
    BY <2>1, <2>2, <2>3
<1>10. ks = <<>> => \A i \in 1 .. Len(C) : C[i].op # "sendString"
  <2>1. ks = <<>> => n = 0
    BY <1>2
  <2> QED
    BY <1>5, <2>1
<1> QED
  BY <1>3, <1>6, <1>7, <1>8, <1>9, <1>10 DEF HeadReplaced

(* What is to be done after a flush is not disturbed by it.                *)
LEMMA RestKept ==
  ASSUME NEW A, NEW C, NEW R, A # <<>>, RestOK(A, R), DOMAIN files' = DOMAIN files,
         program' = program,
         \A x \in DOMAIN files :
           /\ files'[x].pos = files[x].pos /\ files'[x].lastOp = files[x].lastOp
           /\ files'[x].ferror = files[x].ferror
           /\ Extent(x, C)' = Extent(x, A) /\ (Flushes(A, x) => Flushes(C, x)')
  PROVE  RestOK(C, R)'
<1>1. CASE R = <<>>
  BY <1>1, NothingLeft
<1>2. CASE Reading(A, R)
  <2>1. PICK x \in DOMAIN files, n \in 1 .. MaxString :
          /\ MayRead(x)
          /\ \/ R = <<callWith("readFD", x, n)>>
             \/ R = <<call("fillBuffer", x), callWith("readFD", x, n)>>
    BY <1>2 DEF Reading
  <2>2. MayRead(x)' /\ x \in DOMAIN files'
    BY <2>1 DEF MayRead
  <2>3. Reading(C, R)'
    BY <2>1, <2>2 DEF Reading
  <2> QED
    BY <2>3 DEF RestOK
<1>3. CASE Seeking(A, R)
  <2>1. PICK x \in DOMAIN files, w \in Wheres :
          /\ R = <<callWith("seek", x, w)>> \/ R = <<callWith("seek", x, w), call("clearerr", x)>>
          /\ w[1] = "cur" => Reaches(x, A, w[2])
          /\ Flushes(A, x)
    BY <1>3 DEF Seeking
  <2>2. Flushes(C, x)' /\ x \in DOMAIN files'
    BY <2>1
  <2>3. w[1] = "cur" => Reaches(x, C, w[2])'
    BY <2>1 DEF Reaches
  <2>4. Seeking(C, R)'
    BY <2>1, <2>2, <2>3 DEF Seeking
  <2> QED
    BY <2>4 DEF RestOK
<1>4. CASE Closing(A, R)
  <2>1. PICK x \in DOMAIN files : R = <<call("close", x)>> /\ Flushes(A, x)
    BY <1>4 DEF Closing
  <2>2. Flushes(C, x)' /\ x \in DOMAIN files'
    BY <2>1
  <2>3. Closing(C, R)'
    BY <2>1, <2>2 DEF Closing
  <2> QED
    BY <2>3 DEF RestOK
<1>5. CASE Ending(A, R)
  <2>1. R = <<end>> /\ (stdout \in DOMAIN files => Flushes(A, stdout))
    BY <1>5 DEF Ending, Open
  <2>2. stdout \in DOMAIN files' => Flushes(C, stdout)'
    BY <2>1
  <2>3. Ending(C, R)'
    BY <2>1, <2>2 DEF Ending, Open
  <2> QED
    BY <2>3 DEF RestOK
<1> QED
  BY <1>1, <1>2, <1>3, <1>4, <1>5 DEF RestOK, Calling, Writing, Halting

LEMMA FlushGoesOn ==
  ASSUME OneThread, StdioInv, NEW t \in Threads, t = Here, NEW A \in Seq(FlushItems),
         NEW R \in Seq(RestItems), Doing(A, R), A # <<>>, NEW ks \in Seq(FlushItems),
         Becomes(t, ks), NEW C, C = ks \o Tail(A), HeadReplaced(A, ks, C),
         ks # <<>> /\ ks[1].op = "sendString" => ks[1].fd \in DOMAIN files,
         DOMAIN files' = DOMAIN files, OsOK', UNCHANGED <<status, program, errors>>,
         RestOK(C, R)', \A x \in DOMAIN files : CellOK(x, C, R)'
  PROVE  StdioInv'
<1>1. k' = [k EXCEPT ![Here] = C \o R]
  <2>1. ks \o Tail(A \o R) = C \o R
    BY InA
  <2> QED
    BY <2>1 DEF Becomes, Doing
<1>2. C \in Seq(FlushItems)
  BY DEF HeadReplaced
<1>3. /\ Openable(DOMAIN files') /\ errors' \subseteq Codes /\ program' = program
      /\ status' \in {"mainCalled", "mainExited", "terminated"} /\ status' # "terminated"
  BY DEF StdioInv, Doing
<1>4. \A i \in 1 .. Len(C) : C[i].op = "sendString" => i = 1 /\ Open(C[i].fd)'
  <2> SUFFICES ASSUME NEW i \in 1 .. Len(C), C[i].op = "sendString"
               PROVE  i = 1 /\ C[i].fd \in DOMAIN files
    BY DEF Open
  <2>1. i = 1 /\ ks # <<>>
    BY DEF HeadReplaced, OnlyFirst
  <2>2. C[1] = ks[1]
    BY <2>1 DEF HeadReplaced
  <2> QED
    BY <2>1, <2>2
<1> QED
  BY <1>1, <1>2, <1>3, <1>4, Arrived

(* A thread at the first item of a flush.                                  *)
LEMMA FlushCell ==
  ASSUME OneThread, StdioInv, NEW A \in Seq(FlushItems), NEW R \in Seq(RestItems),
         Doing(A, R), A # <<>>, NEW y \in DOMAIN files
  PROVE  /\ CellOK(y, A, R) /\ Ahead(files[y]) = 0 /\ y \in Streams
         /\ files[y] \in FileCell /\ files[y].readBuffer \in Texts
         /\ files[y].writeBuffer \in Texts /\ Len(files[y].writeBuffer) \in Nat
         /\ Len(files[y].readBuffer) \in Nat /\ offset[y] \in Nat
         /\ OnlyFirst(A) /\ RestOK(A, R)
<1>1. CellOK(y, A, R) /\ RestOK(A, R)
  BY DEF Doing
<1>2. Ahead(files[y]) = 0
  BY <1>1 DEF CellOK, GoodCell, Ahead
<1>3. OnlyFirst(A)
  BY DEF Doing, OnlyFirst
<1> QED
  BY <1>1, <1>2, <1>3, CellFacts

LEMMA FlushStep ==
  ASSUME OneThread, StdioInv, NEW t \in Threads, Flush(t)
  PROVE  StdioInv'
<1>1. PICK A \in Seq(FlushItems), R \in Seq(RestItems) :
        t = Here /\ Doing(A, R) /\ A # <<>> /\ Head(k[t]) = A[1]
  <2>1. k[t] # <<>> /\ Head(k[t]).op \in FlushOps
    BY DEF Flush, AtHead, FlushOps
  <2> QED
    BY <2>1, AtA
<1>2. PICK x \in Streams : A[1] = call("flush", x) /\ Fd(t) = x /\ A[1].op = "flush"
  <2>1. A[1] \in FlushItems /\ A[1].op = "flush"
    BY <1>1 DEF Flush, AtHead
  <2> QED
    BY <1>1, <2>1, FlushItemFacts DEF Fd
<1>3. OnlyFirst(A) /\ RestOK(A, R) /\ \A y : Sending(A, y) = <<>>
  BY <1>1, <1>2 DEF Doing, OnlyFirst, Sending
<1>4. /\ UNCHANGED <<os, offset, status, program, errors>> /\ OsOK'
  BY DEF Flush, StdioInv, OsOK
<1>5. \A y : y # x => A[1] # call("flush", y)
  BY <1>2 DEF call
<1>6. CASE x \in DOMAIN files
  <2>1. PICK f \in FileCell, s \in Texts :
          f = files[x] /\ s = f.writeBuffer /\ Len(s) \in Nat /\ CellOK(x, A, R)
    BY <1>1, <1>6, FlushCell
  <2>2. PICK c \in FlushItems, d \in FlushItems :
          c = callWith("sendString", x, s) /\ d = callWith("sent", x, s)
    BY MakeItems
  <2>3. c.op = "sendString" /\ c.fd = x /\ c.arg = s /\ d.op = "sent"
    BY <2>2 DEF callWith
  <2>4. PICK ks \in Seq(FlushItems) : ks = <<c, d>>
    BY ShortSeqs
  <2>5. ks # <<>> /\ ks[1] = c /\ OnlyFirst(ks)
    BY <2>3, <2>4 DEF OnlyFirst
  <2>6. PICK C : C = ks \o Tail(A)
    OBVIOUS
  <2>7. HeadReplaced(A, ks, C)
    BY <1>1, <1>3, <2>5, <2>6, ReplaceHead
  <2>8. PICK g : g = moveToSending(f)
    OBVIOUS
  <2>9. files' = [files EXCEPT ![x] = g] /\ Becomes(t, ks)
    BY <1>2, <1>6, <2>1, <2>2, <2>4, <2>8 DEF Flush, Open
  <2>10. /\ DOMAIN files' = DOMAIN files /\ files'[x] = g
         /\ \A y \in DOMAIN files : y # x => files'[y] = files[y]
    BY <1>6, <2>9
  <2>11. /\ g.writeBuffer = <<>> /\ g.readBuffer = f.readBuffer /\ g.pos = f.pos
         /\ g.nextByte = f.nextByte /\ g.feof = f.feof /\ g.lastOp = f.lastOp
         /\ g.ferror = f.ferror
    BY <2>8 DEF moveToSending, FileCell
  <2>12. g \in FileCell
    <3>1. Append(f.sending, s) \in Seq(Texts) /\ <<>> \in Texts
      BY DEF FileCell, Texts
    <3> QED
      BY <2>1, <2>8, <3>1 DEF moveToSending, FileCell
  <2>13. Sending(C, x) = s /\ \A y : y # x => Sending(C, y) = <<>>
    BY <2>3, <2>5, <2>7 DEF HeadReplaced, Sending
  <2>14. PICK o \in Nat, l \in Nat, r \in Nat :
           o = offset[x] /\ l = Len(s) /\ r = Len(f.readBuffer)
    BY <1>1, <1>6, <2>1, FlushCell
  <2>15. f.pos = o + 0 + l - r - 0
    <3>1. Ahead(f) = 0 /\ Len(Sending(A, x)) = 0
      BY <1>1, <1>3, <1>6, <2>1, FlushCell
    <3> QED
      BY <2>1, <2>14, <3>1 DEF CellOK, GoodCell
  <2>16. GoodCell(g, o, Len(os[uri[x]]), x, C, R)
    <3>1. Ahead(g) = 0 /\ Ahead(g) # 1
      BY <1>1, <1>6, <2>1, <2>11, FlushCell DEF Ahead
    <3>2. Len(Sending(C, x)) = l /\ Len(g.writeBuffer) = 0
      BY <2>11, <2>13, <2>14
    <3>3. f.pos = o + l + 0 - r - 0
      BY <2>15
    <3>4. g.pos = o + Len(Sending(C, x)) + Len(g.writeBuffer) - Len(g.readBuffer) - Ahead(g)
      BY <2>11, <2>14, <3>1, <3>2, <3>3
    <3>5. g.readBuffer # <<>> => g.lastOp = "inputOp" \/ ReadsLast(R, x)
      BY <2>1, <2>11 DEF CellOK, GoodCell
    <3>6. g.feof \/ g.nextByte = <<EOF>> => o = Len(os[uri[x]])
      BY <2>1, <2>11, <2>14 DEF CellOK, GoodCell
    <3> QED
      BY <2>11, <2>12, <3>1, <3>4, <3>5, <3>6 DEF GoodCell
  <2>17. ASSUME NEW y \in DOMAIN files PROVE CellOK(y, C, R)'
    <3>1. CASE y = x
      BY <1>4, <2>10, <2>14, <2>16, <3>1 DEF CellOK
    <3>2. CASE y # x
      <4>1. CellOK(y, A, R) /\ Ahead(files[y]) # 1 /\ SameCell(y)
        BY <1>1, <1>4, <2>10, <3>2, FlushCell DEF SameCell
      <4>2. Sending(C, y) = Sending(A, y)
        BY <1>3, <2>13, <3>2
      <4>3. InFlush(A, y) => InFlush(C, y)
        BY <1>5, <2>7, <3>2 DEF HeadReplaced
      <4> QED
        BY <4>1, <4>2, <4>3, CellKept
    <3> QED
      BY <3>1, <3>2
  <2>18. RestOK(C, R)'
    <3>1. ASSUME NEW y \in DOMAIN files
          PROVE  Extent(y, C)' = Extent(y, A) /\ (Flushes(A, y) => Flushes(C, y)')
      <4>1. CASE y = x
        <5>1. Extent(y, A) = IF o + 0 + l > Len(os[uri[x]]) THEN o + 0 + l ELSE Len(os[uri[x]])
          <6>1. Len(Sending(A, x)) = 0
            BY <1>3
          <6> QED
            BY <2>1, <2>14, <4>1, <6>1 DEF Extent
        <5>2. Extent(y, C)' = IF o + l + 0 > Len(os[uri[x]]) THEN o + l + 0 ELSE Len(os[uri[x]])
          <6>1. Len(Sending(C, x)) = l /\ Len(g.writeBuffer) = 0
            BY <2>11, <2>13, <2>14
          <6> QED
            BY <1>4, <2>10, <2>14, <4>1, <6>1 DEF Extent, Sending
        <5>3. o + 0 + l = o + l + 0
          OBVIOUS
        <5> QED
          BY <2>10, <2>11, <4>1, <5>1, <5>2, <5>3 DEF Flushes
      <4>2. CASE y # x
        <5>1. Sending(C, y) = Sending(A, y)
          BY <1>3, <2>13, <4>2
        <5>2. InFlush(A, y) => InFlush(C, y)
          BY <1>5, <2>7, <4>2 DEF HeadReplaced
        <5> QED
          BY <1>4, <2>10, <4>2, <5>1, <5>2 DEF Extent, Flushes, Sending, InFlush
      <4> QED
        BY <4>1, <4>2
    <3>2. \A y \in DOMAIN files :
            /\ files'[y].pos = files[y].pos /\ files'[y].lastOp = files[y].lastOp
            /\ files'[y].ferror = files[y].ferror
      BY <2>1, <2>10, <2>11
    <3> QED
      BY <1>1, <1>3, <1>4, <2>10, <3>1, <3>2, RestKept
  <2> QED
    BY <1>1, <1>4, <1>6, <2>3, <2>5, <2>6, <2>7, <2>9, <2>10, <2>17, <2>18, FlushGoesOn
<1>7. CASE x \notin DOMAIN files
  <2>1. PICK C : C = <<>> \o Tail(A)
    OBVIOUS
  <2>2. <<>> \in Seq(FlushItems) /\ OnlyFirst(<<>>)
    BY DEF OnlyFirst
  <2>3. HeadReplaced(A, <<>>, C)
    BY <1>1, <1>3, <2>1, <2>2, ReplaceHead
  <2>4. UNCHANGED files /\ Becomes(t, <<>>)
    BY <1>2, <1>7 DEF Flush, Open
  <2>5. \A y : Sending(C, y) = <<>>
    BY <2>3 DEF HeadReplaced, Sending
  <2>6. ASSUME NEW y \in DOMAIN files
        PROVE  Sending(C, y) = Sending(A, y) /\ (InFlush(A, y) => InFlush(C, y))
    BY <1>3, <1>5, <1>7, <2>3, <2>5 DEF HeadReplaced
  <2>7. ASSUME NEW y \in DOMAIN files PROVE CellOK(y, C, R)'
    <3>1. CellOK(y, A, R) /\ Ahead(files[y]) # 1 /\ SameCell(y)
      BY <1>1, <1>4, <2>4, FlushCell DEF SameCell
    <3> QED
      BY <2>6, <3>1, CellKept
  <2>8. RestOK(C, R)'
    <3>1. ASSUME NEW y \in DOMAIN files
          PROVE  Extent(y, C)' = Extent(y, A) /\ (Flushes(A, y) => Flushes(C, y)')
      BY <1>4, <2>4, <2>6 DEF Extent, Flushes, Sending, InFlush
    <3> QED
      BY <1>1, <1>3, <1>4, <2>4, <3>1, RestKept
  <2> QED
    BY <1>1, <1>4, <2>1, <2>2, <2>3, <2>4, <2>7, <2>8, FlushGoesOn
<1> QED
  BY <1>6, <1>7

LEMMA SendStringStep ==
  ASSUME OneThread, StdioInv, NEW t \in Threads, SendString(t)
  PROVE  StdioInv'
<1>1. PICK A \in Seq(FlushItems), R \in Seq(RestItems) :
        t = Here /\ Doing(A, R) /\ A # <<>> /\ Head(k[t]) = A[1]
  <2>1. k[t] # <<>> /\ Head(k[t]).op \in FlushOps
    BY DEF SendString, AtHead, FlushOps
  <2> QED
    BY <2>1, AtA
<1>2. PICK x \in DOMAIN files, s \in Texts :
        /\ A[1] = callWith("sendString", x, s) /\ Fd(t) = x /\ Head(k[t]).arg = s
        /\ A[1].op = "sendString" /\ A[1].fd = x /\ A[1].arg = s
  <2>1. A[1] \in FlushItems /\ A[1].op = "sendString" /\ 1 \in 1 .. Len(A)
    BY <1>1 DEF SendString, AtHead
  <2>2. A[1].fd \in DOMAIN files
    BY <1>1, <2>1 DEF Doing, Open
  <2> QED
    BY <1>1, <2>1, <2>2, FlushItemFacts DEF Fd
<1>3. /\ OnlyFirst(A) /\ RestOK(A, R) /\ Sending(A, x) = s
      /\ \A y : y # x => Sending(A, y) = <<>>
  BY <1>1, <1>2 DEF Doing, OnlyFirst, Sending
<1>4. UNCHANGED <<files, status, program, errors>> /\ DOMAIN files' = DOMAIN files
  BY DEF SendString
<1>5. \A y : A[1] # call("flush", y)
  BY <1>2 DEF call
<1>6. /\ os \in [URIs -> Texts] /\ offset \in [Streams -> Nat] /\ x \in Streams
      /\ \A y \in Streams : offset[y] <= Len(os[uri[y]]) /\ uri[y] \in URIs
      /\ Openable(DOMAIN files)
  <2>1. x \in Streams
    BY <1>1, <1>2, FlushCell
  <2> QED
    BY <2>1 DEF StdioInv, OsOK, URIs
<1>7. CASE s = <<>>
  <2>1. PICK C : C = <<>> \o Tail(A)
    OBVIOUS
  <2>2. <<>> \in Seq(FlushItems) /\ OnlyFirst(<<>>)
    BY DEF OnlyFirst
  <2>3. HeadReplaced(A, <<>>, C)
    BY <1>1, <1>3, <2>1, <2>2, ReplaceHead
  <2>4. UNCHANGED <<os, offset>> /\ Becomes(t, <<>>)
    BY <1>2, <1>7 DEF SendString
  <2>5. \A y : Sending(C, y) = <<>>
    BY <2>3 DEF HeadReplaced, Sending
  <2>6. ASSUME NEW y \in DOMAIN files
        PROVE  Sending(C, y) = Sending(A, y) /\ (InFlush(A, y) => InFlush(C, y))
    BY <1>3, <1>5, <1>7, <2>3, <2>5 DEF HeadReplaced
  <2>7. ASSUME NEW y \in DOMAIN files PROVE CellOK(y, C, R)'
    <3>1. CellOK(y, A, R) /\ Ahead(files[y]) # 1 /\ SameCell(y)
      BY <1>1, <1>4, <2>4, FlushCell DEF SameCell
    <3> QED
      BY <2>6, <3>1, CellKept
  <2>8. RestOK(C, R)'
    <3>1. ASSUME NEW y \in DOMAIN files
          PROVE  Extent(y, C)' = Extent(y, A) /\ (Flushes(A, y) => Flushes(C, y)')
      BY <1>4, <2>4, <2>6 DEF Extent, Flushes, Sending, InFlush
    <3> QED
      BY <1>1, <1>3, <1>4, <3>1, RestKept
  <2>9. OsOK'
    BY <2>4 DEF StdioInv, OsOK
  <2> QED
    BY <1>1, <1>4, <2>1, <2>2, <2>3, <2>4, <2>7, <2>8, <2>9, FlushGoesOn
<1>8. CASE s # <<>>
  <2>1. PICK c \in Chars, u \in Texts : c = Head(s) /\ u = Tail(s) /\ Len(s) = Len(u) + 1
    <3>1. s \in Seq(Chars)
      BY DEF Texts
    <3>2. Head(s) \in Chars /\ Tail(s) \in Seq(Chars) /\ Len(Tail(s)) = Len(s) - 1
      BY <1>8, <3>1, HeadTailProperties
    <3>3. Len(s) = Len(Tail(s)) + 1
      BY <3>1, <3>2
    <3> QED
      BY <3>2, <3>3, Zenon DEF Texts
  <2>2. PICK d \in FlushItems : d = callWith("sendString", x, u)
    BY <1>6, MakeItems
  <2>3. d.op = "sendString" /\ d.fd = x /\ d.arg = u
    BY <2>2 DEF callWith
  <2>4. PICK ks \in Seq(FlushItems) : ks = <<d>>
    BY ShortSeqs
  <2>5. ks # <<>> /\ ks[1] = d /\ OnlyFirst(ks)
    BY <2>4 DEF OnlyFirst
  <2>6. PICK C : C = ks \o Tail(A)
    OBVIOUS
  <2>7. HeadReplaced(A, ks, C)
    BY <1>1, <1>3, <2>5, <2>6, ReplaceHead
  <2>8. Sending(C, x) = u /\ \A y : y # x => Sending(C, y) = <<>>
    BY <2>3, <2>5, <2>7 DEF HeadReplaced, Sending
  <2>9. PICK file \in Texts, o \in Nat, n \in Nat :
          file = os[uri[x]] /\ o = offset[x] /\ n = Len(file) /\ o <= n
    BY <1>6 DEF Texts
  <2>10. PICK h : h = Overwrite(file, o, <<c>>)
    OBVIOUS
  <2>11. h \in Texts /\ Len(h) = IF o + 1 > n THEN o + 1 ELSE n
    <3>1. <<c>> \in Texts /\ Len(<<c>>) = 1
      BY DEF Texts
    <3>2. Overwritten(file, o, <<c>>, h)
      BY <2>9, <2>10, <3>1, OverwriteFacts
    <3> QED
      BY <2>9, <3>1, <3>2 DEF Overwritten
  <2>12. /\ os' = [os EXCEPT ![uri[x]] = h] /\ offset' = [offset EXCEPT ![x] = o + 1]
         /\ Becomes(t, ks)
    BY <1>2, <1>8, <2>1, <2>2, <2>4, <2>9, <2>10 DEF SendString
  <2>13. /\ offset'[x] = o + 1 /\ os'[uri[x]] = h
         /\ offset' \in [Streams -> Nat] /\ os' \in [URIs -> Texts]
    BY <1>6, <2>11, <2>12
  <2>14. ASSUME NEW y \in Streams, y # x
         PROVE  offset'[y] = offset[y] /\ os'[uri[y]] = os[uri[y]]
    <3>1. uri[y] # uri[x]
      BY <1>6, <2>14, StdioAssumption
    <3> QED
      BY <1>6, <2>12, <2>14, <3>1
  <2>15. OsOK'
    <3> SUFFICES ASSUME NEW y \in Streams PROVE offset'[y] <= Len(os'[uri[y]])
      BY <2>13 DEF OsOK
    <3>1. CASE y = x
      <4>1. o + 1 <= Len(h)
        BY <2>11
      <4> QED
        BY <2>13, <3>1, <4>1
    <3>2. CASE y # x
      BY <1>6, <2>14, <3>2
    <3> QED
      BY <3>1, <3>2
  <2>16. PICK f \in FileCell, w \in Nat, r \in Nat, l \in Nat :
           /\ f = files[x] /\ w = Len(f.writeBuffer) /\ r = Len(f.readBuffer)
           /\ l = Len(u) /\ Len(s) = l + 1 /\ CellOK(x, A, R) /\ Ahead(f) = 0
    <3>1. Len(u) \in Nat
      BY DEF Texts
    <3> QED
      BY <1>1, <1>2, <2>1, <3>1, FlushCell, ZenonT(60)
  <2>17. f.pos = o + (l + 1) + w - r - 0
    BY <1>3, <2>9, <2>16 DEF CellOK, GoodCell
  <2>18. GoodCell(f, o + 1, Len(h), x, C, R)
    <3>1. f.pos = (o + 1) + l + w - r - 0
      BY <2>17
    <3>2. f.pos = (o + 1) + Len(Sending(C, x)) + Len(f.writeBuffer) - Len(f.readBuffer) - Ahead(f)
      BY <2>8, <2>16, <3>1
    <3>3. f.feof \/ f.nextByte = <<EOF>> => o + 1 = Len(h)
      <4>1. f.feof \/ f.nextByte = <<EOF>> => o = n
        BY <2>9, <2>16 DEF CellOK, GoodCell
      <4> QED
        BY <2>11, <4>1
    <3>4. InFlush(A, x) => InFlush(C, x)
      BY <1>5, <2>7 DEF HeadReplaced
    <3>5. /\ f.readBuffer # <<>> => f.lastOp = "inputOp" \/ ReadsLast(R, x)
          /\ f.writeBuffer # <<>> => f.lastOp = "outputOp" \/ InFlush(C, x)
      BY <2>16, <3>4 DEF CellOK, GoodCell
    <3>6. Ahead(f) # 1
      BY <2>16
    <3> QED
      BY <3>2, <3>3, <3>5, <3>6 DEF GoodCell
  <2>19. ASSUME NEW y \in DOMAIN files PROVE CellOK(y, C, R)'
    <3>1. CASE y = x
      BY <1>4, <2>13, <2>16, <2>18, <3>1 DEF CellOK
    <3>2. CASE y # x
      <4>1. CellOK(y, A, R) /\ Ahead(files[y]) # 1 /\ SameCell(y)
        BY <1>1, <1>4, <1>6, <2>14, <3>2, FlushCell DEF SameCell, Openable
      <4>2. Sending(C, y) = Sending(A, y)
        BY <1>3, <2>8, <3>2
      <4>3. InFlush(A, y) => InFlush(C, y)
        BY <1>5, <2>7 DEF HeadReplaced
      <4> QED
        BY <4>1, <4>2, <4>3, CellKept
    <3> QED
      BY <3>1, <3>2
  <2>20. RestOK(C, R)'
    <3>1. ASSUME NEW y \in DOMAIN files
          PROVE  Extent(y, C)' = Extent(y, A) /\ (Flushes(A, y) => Flushes(C, y)')
      <4>1. InFlush(A, y) => InFlush(C, y)
        BY <1>5, <2>7 DEF HeadReplaced
      <4>2. Flushes(A, y) => Flushes(C, y)'
        BY <1>4, <4>1 DEF Flushes, InFlush
      <4>3. CASE y = x
        <5>1. Extent(y, A) = IF o + (l + 1) + w > n THEN o + (l + 1) + w ELSE n
          BY <1>3, <2>9, <2>16, <4>3 DEF Extent
        <5>2. PICK m \in Nat : m = Len(h) /\ m = IF o + 1 > n THEN o + 1 ELSE n
          BY <2>11
        <5>3. Extent(y, C)' = IF (o + 1) + l + w > m THEN (o + 1) + l + w ELSE m
          <6>1. Len(Sending(C, x)) = l
            BY <2>8, <2>16
          <6> QED
            BY <1>4, <2>13, <2>16, <4>3, <5>2, <6>1 DEF Extent, Sending
        <5>4. (IF o + (l + 1) + w > n THEN o + (l + 1) + w ELSE n)
                = (IF (o + 1) + l + w > m THEN (o + 1) + l + w ELSE m)
          BY <5>2
        <5> QED
          BY <4>2, <5>1, <5>3, <5>4
      <4>4. CASE y # x
        <5>1. Sending(C, y) = Sending(A, y)
          BY <1>3, <2>8, <4>4
        <5>2. offset'[y] = offset[y] /\ os'[uri[y]] = os[uri[y]]
          BY <1>6, <2>14, <4>4 DEF Openable
        <5>3. Extent(y, C)' = Extent(y, A)
          BY <1>4, <5>1, <5>2 DEF Extent, Sending
        <5> QED
          BY <4>2, <5>3
      <4> QED
        BY <4>3, <4>4
    <3> QED
      BY <1>1, <1>3, <1>4, <3>1, RestKept
  <2> QED
    BY <1>1, <1>2, <1>4, <2>3, <2>5, <2>6, <2>7, <2>12, <2>15, <2>19, <2>20, FlushGoesOn
<1> QED
  BY <1>7, <1>8

LEMMA SentStep ==
  ASSUME OneThread, StdioInv, NEW t \in Threads, Sent(t)
  PROVE  StdioInv'
<1>1. PICK A \in Seq(FlushItems), R \in Seq(RestItems) :
        t = Here /\ Doing(A, R) /\ A # <<>> /\ Head(k[t]) = A[1]
  <2>1. k[t] # <<>> /\ Head(k[t]).op \in FlushOps
    BY DEF Sent, AtHead, FlushOps
  <2> QED
    BY <2>1, AtA
<1>2. PICK x \in DOMAIN files, s \in Texts :
        Fd(t) = x /\ Head(k[t]).arg = s /\ A[1].op = "sent" /\ A[1].fd = x
  <2>1. A[1] \in FlushItems /\ A[1].op = "sent"
    BY <1>1 DEF Sent, AtHead
  <2> QED
    BY <1>1, <2>1, FlushItemFacts DEF Fd, Sent, Open
<1>3. OnlyFirst(A) /\ RestOK(A, R) /\ \A y : Sending(A, y) = <<>>
  BY <1>1, <1>2 DEF Doing, OnlyFirst, Sending
<1>4. UNCHANGED <<os, offset, status, program, errors>> /\ OsOK' /\ Becomes(t, <<>>)
  BY DEF Sent, StdioInv, OsOK
<1>5. \A y : A[1] # call("flush", y)
  BY <1>2 DEF call
<1>6. PICK f \in FileCell : f = files[x]
  BY <1>1, <1>2, FlushCell
<1>7. PICK g : g = [f EXCEPT !.sending = Tail(f.sending), !.done = f.done \o s]
  OBVIOUS
<1>8. files' = [files EXCEPT ![x] = g] /\ f.sending # <<>>
  BY <1>2, <1>6, <1>7 DEF Sent
<1>9. /\ DOMAIN files' = DOMAIN files /\ files'[x] = g
      /\ \A y \in DOMAIN files : y # x => files'[y] = files[y]
  BY <1>8
<1>10. /\ g.writeBuffer = f.writeBuffer /\ g.readBuffer = f.readBuffer /\ g.pos = f.pos
       /\ g.nextByte = f.nextByte /\ g.feof = f.feof /\ g.lastOp = f.lastOp
       /\ g.ferror = f.ferror
  BY <1>7 DEF FileCell
<1>11. g \in FileCell
  <2>1. f.sending \in Seq(Texts) /\ f.done \in Texts
    BY DEF FileCell
  <2>2. Tail(f.sending) \in Seq(Texts)
    BY <1>8, <2>1, HeadTailProperties
  <2>3. f.done \o s \in Texts
    BY <2>1, ConcatLaws DEF Texts
  <2> QED
    BY <1>7, <2>2, <2>3 DEF FileCell
<1>12. PICK C : C = <<>> \o Tail(A)
  OBVIOUS
<1>13. <<>> \in Seq(FlushItems) /\ OnlyFirst(<<>>)
  BY DEF OnlyFirst
<1>14. HeadReplaced(A, <<>>, C)
  BY <1>1, <1>3, <1>12, <1>13, ReplaceHead
<1>15. \A y : Sending(C, y) = <<>>
  BY <1>14 DEF HeadReplaced, Sending
<1>16. \A y : Sending(C, y) = Sending(A, y) /\ (InFlush(A, y) => InFlush(C, y))
  BY <1>3, <1>5, <1>14, <1>15 DEF HeadReplaced
<1>17. ASSUME NEW y \in DOMAIN files PROVE CellOK(y, C, R)'
  <2>1. CellOK(y, A, R) /\ Ahead(files[y]) # 1
    BY <1>1, FlushCell
  <2>2. CASE y # x
    <3>1. SameCell(y)
      BY <1>4, <1>9, <2>2 DEF SameCell
    <3> QED
      BY <1>16, <2>1, <3>1, CellKept
  <2>3. CASE y = x
    <3>1. GoodCell(g, offset[x], Len(os[uri[x]]), x, C, R)
      <4>1. Ahead(g) = Ahead(f)
        BY <1>10 DEF Ahead
      <4> QED
        BY <1>6, <1>10, <1>11, <1>16, <2>1, <2>3, <4>1 DEF CellOK, GoodCell
    <3> QED
      BY <1>4, <1>9, <2>3, <3>1 DEF CellOK
  <2> QED
    BY <2>2, <2>3
<1>18. RestOK(C, R)'
  <2>1. ASSUME NEW y \in DOMAIN files
        PROVE  /\ files'[y].pos = files[y].pos /\ files'[y].lastOp = files[y].lastOp
               /\ files'[y].ferror = files[y].ferror
               /\ files'[y].writeBuffer = files[y].writeBuffer
    BY <1>6, <1>9, <1>10
  <2>2. ASSUME NEW y \in DOMAIN files
        PROVE  Extent(y, C)' = Extent(y, A) /\ (Flushes(A, y) => Flushes(C, y)')
    <3>1. Sending(C, y) = Sending(A, y) /\ (InFlush(A, y) => InFlush(C, y))
      BY <1>16
    <3>2. Extent(y, C)' = Extent(y, A)
      BY <1>4, <2>1, <3>1 DEF Extent, Sending
    <3>3. Flushes(A, y) => Flushes(C, y)'
      BY <2>1, <3>1 DEF Flushes, InFlush
    <3> QED
      BY <3>2, <3>3
  <2> QED
    BY <1>1, <1>3, <1>4, <1>9, <2>1, <2>2, RestKept
<1> QED
  BY <1>1, <1>4, <1>9, <1>12, <1>13, <1>14, <1>17, <1>18, FlushGoesOn

-----------------------------------------------------------------------------
LEMMA InvNext ==
  ASSUME OneThread, StdioInv, [Next]_vars
  PROVE  StdioInv'
<1>1. CASE UNCHANGED vars
  <2>1. UNCHANGED <<k, files, os, offset, status, program, errors>>
    BY <1>1 DEF vars
  <2>2. PICK A \in Seq(FlushItems), R \in Seq(RestItems) : Doing(A, R)
    BY DEF StdioInv
  <2>3. Calling(A, R) => Calling(A, R)'
    <3>1. \A s : Issued(s) => Issued(s)'
      BY <2>1 DEF Issued, MayRead, Reaches, Extent, Open
    <3> QED
      BY <3>1 DEF Calling
  <2>4. Writing(A, R) => Writing(A, R)'
    BY <2>1 DEF Writing, Open
  <2>5. Reading(A, R) => Reading(A, R)'
    <3>1. \A x : MayRead(x) => MayRead(x)'
      BY <2>1 DEF MayRead
    <3> QED
      BY <2>1, <3>1 DEF Reading
  <2>6. \A x : Flushes(A, x) => Flushes(A, x)'
    BY <2>1 DEF Flushes, InFlush
  <2>7. Seeking(A, R) => Seeking(A, R)'
    <3>1. \A x, n : Reaches(x, A, n) => Reaches(x, A, n)'
      BY <2>1 DEF Reaches, Extent
    <3> QED
      BY <2>1, <2>6, <3>1 DEF Seeking
  <2>8. Closing(A, R) => Closing(A, R)'
    BY <2>1, <2>6 DEF Closing
  <2>9. Ending(A, R) => Ending(A, R)'
    BY <2>1, <2>6 DEF Ending, Open
  <2>10. RestOK(A, R)'
    <3>1. RestOK(A, R)
      BY <2>2 DEF Doing
    <3> QED
      BY <2>3, <2>4, <2>5, <2>7, <2>8, <2>9, <3>1 DEF RestOK, Halting
  <2>11. ASSUME NEW x \in DOMAIN files PROVE CellOK(x, A, R)'
    <3>1. CellOK(x, A, R) /\ SameCell(x)
      BY <2>1, <2>2 DEF Doing, SameCell
    <3>2. Ahead(files[x]) = 1 => A = <<>> /\ R # <<>> /\ R[1] = call("fillBuffer", x)
      BY <3>1 DEF CellOK, GoodCell
    <3> QED
      BY <3>1, <3>2, CellKept
  <2>12. Doing(A, R)'
    BY <2>1, <2>2, <2>10, <2>11 DEF Doing, Open
  <2>13. OsOK' /\ Openable(DOMAIN files')
    BY <2>1 DEF StdioInv, OsOK
  <2> QED
    BY <2>1, <2>12, <2>13 DEF StdioInv
<1>2. ASSUME NEW t \in Threads, NEW s \in Statements, Call(t, s)
      PROVE  StdioInv'
  BY <1>2, CallStep
<1>3. ASSUME NEW t \in Threads, Step(t)
      PROVE  StdioInv'
  <2>1. CASE Fputs(t)
    BY <2>1, FputsStep
  <2>2. CASE WriteFD(t)
    BY <2>2, WriteFDStep
  <2>3. CASE Flush(t)
    BY <2>3, FlushStep
  <2>4. CASE SendString(t)
    BY <2>4, SendStringStep
  <2>5. CASE Sent(t)
    BY <2>5, SentStep
  <2>6. CASE FlushAll(t)
    BY <2>6, FlushAllStep
  <2>7. CASE Fflush(t)
    BY <2>7, FflushStep
  <2>8. CASE Fread(t)
    BY <2>8, FreadStep
  <2>9. CASE ReadFD(t)
    BY <2>9, ReadFDStep
  <2>10. CASE Getc(t)
    BY <2>10, GetcStep
  <2>11. CASE FillBuffer(t)
    BY <2>11, FillBufferStep
  <2>12. CASE Ungetc(t)
    BY <2>12, UngetcStep
  <2>13. CASE Clearerr(t)
    BY <2>13, ClearerrStep
  <2>14. CASE Fseek(t)
    BY <2>14, FseekStep
  <2>15. CASE Seek(t)
    BY <2>15, SeekStep
  <2>16. CASE Fopen(t)
    BY <2>16, FopenStep
  <2>23. CASE FopenFails(t)
    BY <2>23, FopenFailsStep
  <2>17. CASE Fclose(t)
    BY <2>17, FcloseStep
  <2>18. CASE Close(t)
    BY <2>18, CloseStep
  <2>19. CASE Setvbuf(t)
    BY <2>19, SetvbufStep
  <2>20. CASE Exit(t)
    BY <2>20, ExitStep
  <2>21. CASE Abort(t)
    BY <2>21, AbortStep
  <2>22. CASE End(t)
    BY <2>22, EndStep
  <2> QED
    BY <1>3, <2>1, <2>2, <2>3, <2>4, <2>5, <2>6, <2>7, <2>8, <2>9, <2>10, <2>11, <2>12, <2>13,
       <2>14, <2>15, <2>16, <2>17, <2>18, <2>19, <2>20, <2>21, <2>22, <2>23 DEF Step
<1> QED
  BY <1>1, <1>2, <1>3 DEF Next

(* The cells, the files and <k> of a program of one thread are as StdioInv *)
(* says: <k> first sends characters and then does what is left of one      *)
(* call.                                                                   *)
THEOREM StdioInvariant == OneThread => (Spec => []StdioInv)
<1> SUFFICES ASSUME OneThread
             PROVE  Spec => []StdioInv
  OBVIOUS
<1>1. Init => StdioInv
  BY InvInit
<1>2. StdioInv /\ [Next]_vars => StdioInv'
  BY InvNext
<1> QED
  BY <1>1, <1>2, PTL DEF Spec

(* The position of a stream (ftell) is where the next character is read or *)
(* written, given what its buffers hold, whatever the program calls.       *)
THEOREM PositionsFit == OneThread => (Spec => []TypeOK)
<1> SUFFICES ASSUME OneThread
             PROVE  Spec => []TypeOK
  OBVIOUS
<1>1. StdioInv => TypeOK
  <2> SUFFICES ASSUME StdioInv PROVE TypeOK
    OBVIOUS
  <2>1. PICK A \in Seq(FlushItems), R \in Seq(RestItems) : Doing(A, R)
    BY DEF StdioInv
  <2>2. ASSUME NEW x \in DOMAIN files
        PROVE  /\ files[x].mode \in Modes /\ files[x].bufMode \in BufModes
               /\ files[x].lastOp \in LastOps
               /\ files[x].feof \in BOOLEAN /\ files[x].ferror \in BOOLEAN
               /\ files[x].pos = offset[x] + Len(Pending(x)) - Len(files[x].readBuffer)
                    - (IF files[x].nextByte \in {<<>>, <<EOF>>} THEN 0 ELSE 1)
    <3>1. CellOK(x, A, R)
      BY <2>1 DEF Doing
    <3>2. files[x] \in FileCell
      BY <3>1, CellFacts
    <3>3. PICK o \in Nat, w \in Nat, r \in Nat, s \in Nat :
            /\ o = offset[x] /\ w = Len(files[x].writeBuffer) /\ r = Len(files[x].readBuffer)
            /\ s = Len(Sending(A, x))
      BY <3>1, CellFacts, SendingType
    <3>4. PICK a \in Int : a = Ahead(files[x])
      BY DEF Ahead
    <3>5. files[x].pos = o + s + w - r - a
      BY <3>1, <3>3, <3>4 DEF CellOK, GoodCell
    <3>6. Len(Pending(x)) = s + w
      BY <2>1, <3>3, ContentsLength
    <3>7. files[x].pos = o + (s + w) - r - a
      BY <3>5
    <3>8. files[x].pos = offset[x] + Len(Pending(x)) - Len(files[x].readBuffer) - Ahead(files[x])
      BY <3>3, <3>4, <3>6, <3>7, Zenon
    <3>9. /\ files[x].mode \in Modes /\ files[x].bufMode \in BufModes
          /\ files[x].lastOp \in LastOps
          /\ files[x].feof \in BOOLEAN /\ files[x].ferror \in BOOLEAN
      BY <3>2 DEF FileCell
    <3> QED
      BY <3>8, <3>9 DEF Ahead
  <2> QED
    BY <2>2 DEF TypeOK, StdioInv
<1> QED
  BY <1>1, StdioInvariant, PTL

(* When a program of one thread ended, by exit or abort, everything it     *)
(* wrote to stdout is in the file, whatever the buffer mode of stdout was  *)
(* and however often it was closed and opened.                             *)
THEOREM StdoutIsComplete == OneThread => (Spec => []StdoutComplete)
<1> SUFFICES ASSUME OneThread
             PROVE  Spec => []StdoutComplete
  OBVIOUS
<1>1. StdioInv => StdoutComplete
  <2> SUFFICES ASSUME StdioInv, status = "terminated", stdout \in DOMAIN files
               PROVE  Pending(stdout) = <<>>
    BY DEF StdoutComplete, Open
  <2>1. PICK A \in Seq(FlushItems), R \in Seq(RestItems) : Doing(A, R)
    BY DEF StdioInv
  <2>2. A = <<>> /\ files[stdout].writeBuffer = <<>>
    BY <2>1 DEF Doing, Open
  <2>3. Pending(stdout) = Sending(A, stdout) \o files[stdout].writeBuffer
    BY <2>1, PendingIs
  <2>4. Sending(A, stdout) = <<>>
    BY <2>2 DEF Sending
  <2> QED
    BY <2>2, <2>3, <2>4, EmptyLaws
<1> QED
  BY <1>1, StdioInvariant, PTL

-----------------------------------------------------------------------------
(* Threads that print to one stream lose nothing: each takes strings from  *)
(* the write buffer and sends them character by character, between the     *)
(* characters of the others.                                               *)

(* The programs that NothingLost is about only print.                      *)
PrintOps == {"fputs", "fflush", "fflushAll", "setvbuf", "clearerr", "exit", "abort"}
PrintsOnly == \A p \in Programs : "fopen" \in p.ops \/ p.ops \subseteq PrintOps

(* What <k> can hold: a thread that sends s still has r to send.           *)
CalmItems ==
  {s \in Statements : s.op \in PrintOps /\ s.fd = stdout}
    \cup [op : {"writeFD"}, fd : {stdout}, arg : Texts]
    \cup [op : {"flush"}, fd : Streams] \cup {end}
SendItems == [op : {"sendString"}, fd : {stdout}, arg : Texts]
SentItems == [op : {"sent"}, fd : {stdout}, arg : Texts]
PrintItems == CalmItems \cup SendItems \cup SentItems

Stack(K) ==
  /\ K \in Seq(PrintItems)
  /\ \/ K \in Seq(CalmItems)
     \/ K # <<>> /\ Head(K) \in SentItems /\ Tail(K) \in Seq(CalmItems)
     \/ /\ K # <<>> /\ Head(K) \in SendItems
        /\ Tail(K) # <<>> /\ Head(Tail(K)) \in SentItems
        /\ Tail(Tail(K)) \in Seq(CalmItems)

IsSending(K) == K # <<>> /\ Head(K).op \in {"sendString", "sent"}
Left(K) == IF K # <<>> /\ Head(K).op = "sendString" THEN Head(K).arg ELSE <<>>

(* The characters of s that are in C, and how many.                        *)
Spots(s, C) == {i \in 1 .. Len(s) : s[i] \in C}
Weight(s, C) == Cardinality(Spots(s, C))

(* The characters of C that the threads T still have to send, and who      *)
(* sends.                                                                  *)
Owed(kk, T, C) == UNION {{t} \X Spots(Left(kk[t]), C) : t \in T}
Senders(kk) == {t \in Threads : IsSending(kk[t])}

(* What was taken from the buffer so far is what the threads sent and have *)
(* still to send.                                                          *)
Balance(kk, text, f) ==
  /\ IsFiniteSet(Senders(kk)) /\ Cardinality(Senders(kk)) = Len(f.sending)
  /\ \A C \in SUBSET Chars :
       /\ IsFiniteSet(Owed(kk, Threads, C))
       /\ Weight(text, C) + Cardinality(Owed(kk, Threads, C))
            = Weight(f.done, C) + Weight(FlattenSeq(f.sending), C)

PrintCell(f) ==
  /\ f \in FileCell /\ f.mode = "w" /\ f.lastOp # "inputOp"
  /\ f.pos = Len(f.done) + Len(FlattenSeq(f.sending)) + Len(f.writeBuffer)

Printing ==
  /\ DOMAIN files = {stdout} /\ PrintCell(files[stdout])
  /\ os[uri[stdout]] \in Texts /\ offset[stdout] = Len(os[uri[stdout]])
  /\ os = [u \in URIs |-> os[u]] /\ offset = [x \in Streams |-> offset[x]]
  /\ k = [t \in Threads |-> k[t]] /\ \A t \in Threads : Stack(k[t])
  /\ Balance(k, os[uri[stdout]], files[stdout])

PrintInv == program \in Programs /\ ("fopen" \notin program.ops => Printing)

-----------------------------------------------------------------------------
(* Counting.                                                               *)

LEMMA SpotsFinite ==
  ASSUME NEW s \in Texts, NEW C
  PROVE  /\ IsFiniteSet(Spots(s, C)) /\ Weight(s, C) \in Nat
         /\ Spots(s, C) \subseteq 1 .. Len(s)
<1>1. Len(s) \in Nat /\ Spots(s, C) \in SUBSET (1 .. Len(s))
  BY DEF Texts, Spots
<1>2. IsFiniteSet(1 .. Len(s))
  BY <1>1, FS_Interval
<1>3. IsFiniteSet(Spots(s, C))
  BY <1>1, <1>2, FS_Subset
<1> QED
  BY <1>1, <1>3, FS_CardinalityType DEF Weight

LEMMA WeightEmpty ==
  ASSUME NEW C
  PROVE  Spots(<<>>, C) = {} /\ Weight(<<>>, C) = 0
<1>1. Spots(<<>>, C) = {}
  BY DEF Spots
<1> QED
  BY <1>1, FS_EmptySet DEF Weight

LEMMA WeightAll ==
  ASSUME NEW s \in Texts
  PROVE  Weight(s, Chars) = Len(s)
<1>1. Len(s) \in Nat /\ Spots(s, Chars) = 1 .. Len(s)
  BY DEF Texts, Spots
<1>2. Cardinality(1 .. Len(s)) = IF 1 > Len(s) THEN 0 ELSE Len(s) - 1 + 1
  BY <1>1, FS_Interval
<1> QED
  BY <1>1, <1>2 DEF Weight

(* A set moved by n is as large.                                           *)
LEMMA ShiftedSet ==
  ASSUME NEW I \in SUBSET Nat, IsFiniteSet(I), NEW n \in Nat
  PROVE  IsFiniteSet({n + i : i \in I}) /\ Cardinality({n + i : i \in I}) = Cardinality(I)
<1>1. PICK J : J = {n + i : i \in I}
  OBVIOUS
<1>2. PICK f : f = [i \in I |-> n + i]
  OBVIOUS
<1>3. f \in [I -> J]
  BY <1>1, <1>2
<1>4. \A i, j \in I : f[i] = f[j] => i = j
  BY <1>2
<1>5. \A j \in J : \E i \in I : f[i] = j
  BY <1>1, <1>2
<1>6. f \in Bijection(I, J)
  BY <1>3, <1>4, <1>5 DEF Bijection, Injection, Surjection, IsInjective
<1>7. ExistsBijection(I, J)
  BY <1>6 DEF ExistsBijection
<1> QED
  BY <1>1, <1>7, FS_Bijection

LEMMA WeightConcat ==
  ASSUME NEW a \in Texts, NEW b \in Texts, NEW C
  PROVE  Weight(a \o b, C) = Weight(a, C) + Weight(b, C)
<1>1. PICK c : c = a \o b
  OBVIOUS
<1>2. PICK m \in Nat, n \in Nat : m = Len(a) /\ n = Len(b)
  BY DEF Texts
<1>3. /\ Len(c) = m + n
      /\ \A i \in 1 .. m : c[i] = a[i]
      /\ \A i \in 1 .. n : c[m + i] = b[i]
  BY <1>1, <1>2, ConcatLaws DEF Texts
<1>4. PICK A, B : A = Spots(a, C) /\ B = Spots(b, C)
  OBVIOUS
<1>5. /\ IsFiniteSet(A) /\ IsFiniteSet(B) /\ A \subseteq 1 .. m /\ B \subseteq 1 .. n
      /\ Cardinality(A) \in Nat /\ Cardinality(B) \in Nat
  BY <1>2, <1>4, SpotsFinite DEF Weight
<1>6. PICK D : D = {m + i : i \in B}
  OBVIOUS
<1>7. IsFiniteSet(D) /\ Cardinality(D) = Cardinality(B)
  <2>1. B \in SUBSET Nat
    BY <1>5
  <2> QED
    BY <1>5, <1>6, <2>1, ShiftedSet
<1>8. Spots(c, C) = A \cup D
  <2>1. ASSUME NEW i \in Spots(c, C) PROVE i \in A \cup D
    <3>1. i \in 1 .. m + n /\ c[i] \in C
      BY <1>3, <2>1 DEF Spots
    <3>2. CASE i <= m
      BY <1>2, <1>3, <1>4, <3>1, <3>2 DEF Spots
    <3>3. CASE i > m
      <4>1. PICK j \in 1 .. n : m + j = i
        <5>1. i - m \in 1 .. n /\ m + (i - m) = i
          BY <3>1, <3>3
        <5> QED
          BY <5>1
      <4>2. b[j] \in C
        BY <1>3, <3>1, <4>1
      <4> QED
        BY <1>2, <1>4, <1>6, <4>1, <4>2 DEF Spots
    <3> QED
      BY <3>1, <3>2, <3>3
  <2>2. ASSUME NEW i \in A PROVE i \in Spots(c, C)
    BY <1>2, <1>3, <1>4, <2>2 DEF Spots
  <2>3. ASSUME NEW i \in D PROVE i \in Spots(c, C)
    <3>1. PICK j \in 1 .. n : i = m + j /\ b[j] \in C
      BY <1>2, <1>4, <1>6, <2>3 DEF Spots
    <3> QED
      BY <1>3, <3>1 DEF Spots
  <2> QED
    BY <2>1, <2>2, <2>3
<1>9. A \cap D = {}
  BY <1>5, <1>6
<1>10. Cardinality(A \cup D) = Cardinality(A) + Cardinality(D) - Cardinality({})
  BY <1>5, <1>7, <1>9, FS_Union
<1>11. Cardinality({}) = 0
  BY FS_EmptySet
<1> QED
  BY <1>1, <1>4, <1>5, <1>7, <1>8, <1>10, <1>11 DEF Weight

(* What t owes, and what the other threads owe.                            *)
LEMMA OwedSplit ==
  ASSUME NEW kk, NEW t \in Threads, NEW C, Left(kk[t]) \in Texts
  PROVE  /\ Owed(kk, Threads, C) = Owed(kk, Threads \ {t}, C) \cup ({t} \X Spots(Left(kk[t]), C))
         /\ Owed(kk, Threads \ {t}, C) \cap ({t} \X Spots(Left(kk[t]), C)) = {}
         /\ IsFiniteSet({t} \X Spots(Left(kk[t]), C))
         /\ Cardinality({t} \X Spots(Left(kk[t]), C)) = Weight(Left(kk[t]), C)
<1>1. Owed(kk, Threads, C) = Owed(kk, Threads \ {t}, C) \cup ({t} \X Spots(Left(kk[t]), C))
  BY DEF Owed
<1>2. Owed(kk, Threads \ {t}, C) \cap ({t} \X Spots(Left(kk[t]), C)) = {}
  <2>1. ASSUME NEW p \in Owed(kk, Threads \ {t}, C) PROVE p[1] # t
    <3>1. PICK u \in Threads \ {t} : p \in {u} \X Spots(Left(kk[u]), C)
      BY <2>1 DEF Owed
    <3> QED
      BY <3>1
  <2>2. \A p \in {t} \X Spots(Left(kk[t]), C) : p[1] = t
    OBVIOUS
  <2> QED
    BY <2>1, <2>2
<1>3. PICK P : P = Spots(Left(kk[t]), C) /\ IsFiniteSet(P) /\ Cardinality(P) \in Nat
  BY SpotsFinite DEF Weight
<1>4. IsFiniteSet({t}) /\ Cardinality({t}) = 1
  BY FS_Singleton
<1>5. IsFiniteSet({t} \X P) /\ Cardinality({t} \X P) = Cardinality({t}) * Cardinality(P)
  BY <1>3, <1>4, FS_Product
<1>6. Cardinality({t} \X P) = Cardinality(P)
  BY <1>3, <1>4, <1>5
<1> QED
  BY <1>1, <1>2, <1>3, <1>5, <1>6 DEF Weight

(* Only t's items change.                                                  *)
OnlyOf(t, kk, ll) == \A u \in Threads : u # t => ll[u] = kk[u]
OwedMoves(t, kk, ll, C) ==
  /\ IsFiniteSet(Owed(ll, Threads, C))
  /\ Cardinality(Owed(kk, Threads, C)) \in Nat /\ Cardinality(Owed(ll, Threads, C)) \in Nat
  /\ Cardinality(Owed(ll, Threads, C)) + Weight(Left(kk[t]), C)
       = Cardinality(Owed(kk, Threads, C)) + Weight(Left(ll[t]), C)

LEMMA OwedNext ==
  ASSUME NEW kk, NEW ll, NEW t \in Threads, NEW C, OnlyOf(t, kk, ll),
         Left(kk[t]) \in Texts, Left(ll[t]) \in Texts, IsFiniteSet(Owed(kk, Threads, C))
  PROVE  OwedMoves(t, kk, ll, C)
<1>1. PICK O, P, Q : /\ O = Owed(kk, Threads \ {t}, C)
                     /\ P = {t} \X Spots(Left(kk[t]), C) /\ Q = {t} \X Spots(Left(ll[t]), C)
  OBVIOUS
<1>2. Owed(ll, Threads \ {t}, C) = O
  BY <1>1 DEF Owed, OnlyOf
<1>3. PICK a, b : a = Weight(Left(kk[t]), C) /\ b = Weight(Left(ll[t]), C)
  OBVIOUS
<1>4. a \in Nat /\ b \in Nat
  BY <1>3, SpotsFinite
<1>5. /\ Owed(kk, Threads, C) = O \cup P /\ O \cap P = {} /\ IsFiniteSet(P) /\ Cardinality(P) = a
  <2>1. /\ Owed(kk, Threads, C) = Owed(kk, Threads \ {t}, C) \cup ({t} \X Spots(Left(kk[t]), C))
        /\ Owed(kk, Threads \ {t}, C) \cap ({t} \X Spots(Left(kk[t]), C)) = {}
        /\ IsFiniteSet({t} \X Spots(Left(kk[t]), C))
        /\ Cardinality({t} \X Spots(Left(kk[t]), C)) = Weight(Left(kk[t]), C)
    BY OwedSplit
  <2> QED
    BY <1>1, <1>3, <2>1
<1>6. /\ Owed(ll, Threads, C) = O \cup Q /\ O \cap Q = {} /\ IsFiniteSet(Q) /\ Cardinality(Q) = b
  <2>1. /\ Owed(ll, Threads, C) = Owed(ll, Threads \ {t}, C) \cup ({t} \X Spots(Left(ll[t]), C))
        /\ Owed(ll, Threads \ {t}, C) \cap ({t} \X Spots(Left(ll[t]), C)) = {}
        /\ IsFiniteSet({t} \X Spots(Left(ll[t]), C))
        /\ Cardinality({t} \X Spots(Left(ll[t]), C)) = Weight(Left(ll[t]), C)
    BY OwedSplit
  <2> QED
    BY <1>1, <1>2, <1>3, <2>1
<1>7. IsFiniteSet(O) /\ Cardinality(O) \in Nat /\ Cardinality({}) = 0
  <2>1. O \in SUBSET Owed(kk, Threads, C)
    BY <1>5
  <2> QED
    BY <2>1, FS_Subset, FS_CardinalityType, FS_EmptySet
<1>8. Cardinality(O \cup P) = Cardinality(O) + a - 0
  BY <1>5, <1>7, FS_Union
<1>9. IsFiniteSet(O \cup Q) /\ Cardinality(O \cup Q) = Cardinality(O) + b - 0
  <2>1. /\ IsFiniteSet(O \cup Q)
        /\ Cardinality(O \cup Q) = Cardinality(O) + Cardinality(Q) - Cardinality(O \cap Q)
    BY <1>6, <1>7, FS_Union
  <2> QED
    BY <1>6, <1>7, <2>1
<1> QED
  BY <1>3, <1>4, <1>5, <1>6, <1>7, <1>8, <1>9 DEF OwedMoves

-----------------------------------------------------------------------------
(* What <k> holds.                                                         *)

CalmOps == PrintOps \cup {"writeFD", "flush", "end"}

LEMMA CalmFacts ==
  ASSUME NEW r \in CalmItems
  PROVE  /\ r.op \in CalmOps /\ r.op \notin {"sendString", "sent"}
         /\ r.op \in PrintOps => r \in Statements /\ r.fd = stdout
         /\ r.op = "writeFD" => r.fd = stdout /\ r.arg \in Texts
         /\ r.op = "flush" => r.fd \in Streams
<1>1. CASE r \in Statements /\ r.op \in PrintOps /\ r.fd = stdout
  BY <1>1 DEF PrintOps, CalmOps
<1>2. CASE r \in [op : {"writeFD"}, fd : {stdout}, arg : Texts]
  BY <1>2 DEF PrintOps, CalmOps
<1>3. CASE r \in [op : {"flush"}, fd : Streams]
  BY <1>3 DEF PrintOps, CalmOps
<1>4. CASE r = end
  BY <1>4 DEF PrintOps, CalmOps, end
<1> QED
  BY <1>1, <1>2, <1>3, <1>4 DEF CalmItems

LEMMA MakeCalm ==
  /\ end \in CalmItems
  /\ \A x \in Streams : call("flush", x) \in CalmItems
  /\ \A s \in Texts : callWith("writeFD", stdout, s) \in CalmItems
BY DEF CalmItems, call, callWith

LEMMA CalmHead ==
  ASSUME NEW K, Stack(K), K # <<>>, Head(K).op \notin {"sendString", "sent"}
  PROVE  /\ Head(K) \in CalmItems /\ Tail(K) \in Seq(CalmItems)
         /\ ~IsSending(K) /\ Left(K) = <<>>
<1>1. Head(K) \notin SentItems /\ Head(K) \notin SendItems
  BY DEF SentItems, SendItems
<1>2. K \in Seq(CalmItems)
  BY <1>1 DEF Stack
<1>3. Head(K) \in CalmItems /\ Tail(K) \in Seq(CalmItems)
  BY <1>2
<1> QED
  BY <1>3 DEF IsSending, Left

LEMMA CalmStack ==
  ASSUME NEW K \in Seq(CalmItems)
  PROVE  Stack(K) /\ ~IsSending(K) /\ Left(K) = <<>>
<1>1. K \in Seq(PrintItems)
  BY DEF PrintItems
<1>2. K # <<>> => Head(K) \in CalmItems
  OBVIOUS
<1>3. K # <<>> => Head(K).op \notin {"sendString", "sent"}
  BY <1>2, CalmFacts
<1> QED
  BY <1>1, <1>3 DEF Stack, IsSending, Left

LEMMA NotSent ==
  ASSUME NEW r \in SentItems
  PROVE  r.op = "sent" /\ r.fd = stdout /\ r.arg \in Texts /\ r \notin CalmItems /\ r \notin SendItems
<1>1. r.op = "sent" /\ r.fd = stdout /\ r.arg \in Texts
  BY DEF SentItems
<1>2. r \notin SendItems
  BY <1>1 DEF SendItems
<1> QED
  BY <1>1, <1>2, CalmFacts

LEMMA NotSend ==
  ASSUME NEW r \in SendItems
  PROVE  r.op = "sendString" /\ r.fd = stdout /\ r.arg \in Texts /\ r \notin CalmItems
<1>1. r.op = "sendString" /\ r.fd = stdout /\ r.arg \in Texts
  BY DEF SendItems
<1> QED
  BY <1>1, CalmFacts

LEMMA SentTop ==
  ASSUME NEW K, Stack(K), K # <<>>, Head(K).op = "sent"
  PROVE  /\ Head(K) \in SentItems /\ Tail(K) \in Seq(CalmItems)
         /\ IsSending(K) /\ Left(K) = <<>>
<1>1. Head(K) \notin CalmItems /\ Head(K) \notin SendItems
  BY NotSend, CalmFacts
<1>2. K \notin Seq(CalmItems)
  BY <1>1
<1>3. Head(K) \in SentItems /\ Tail(K) \in Seq(CalmItems)
  BY <1>1, <1>2 DEF Stack
<1> QED
  BY <1>3 DEF IsSending, Left

LEMMA SendTop ==
  ASSUME NEW K, Stack(K), K # <<>>, Head(K).op = "sendString"
  PROVE  /\ Head(K) \in SendItems /\ Tail(K) \in Seq(PrintItems)
         /\ Tail(K) # <<>> /\ Head(Tail(K)) \in SentItems /\ Tail(Tail(K)) \in Seq(CalmItems)
         /\ IsSending(K) /\ Left(K) = Head(K).arg
<1>1. Head(K) \notin CalmItems /\ Head(K) \notin SentItems
  BY NotSent, CalmFacts
<1>2. K \notin Seq(CalmItems)
  BY <1>1
<1>3. /\ Head(K) \in SendItems
      /\ Tail(K) # <<>> /\ Head(Tail(K)) \in SentItems /\ Tail(Tail(K)) \in Seq(CalmItems)
  BY <1>1, <1>2 DEF Stack
<1>4. Tail(K) \in Seq(PrintItems)
  BY DEF Stack
<1> QED
  BY <1>3, <1>4 DEF IsSending, Left

(* A stack of either kind on calm items.                                   *)
LEMMA SentOn ==
  ASSUME NEW r \in SentItems, NEW R \in Seq(CalmItems), NEW K, K = <<r>> \o R
  PROVE  Stack(K) /\ K # <<>> /\ Head(K) = r /\ Tail(K) = R /\ IsSending(K) /\ Left(K) = <<>>
<1>1. R \in Seq(PrintItems) /\ r \in PrintItems
  BY DEF PrintItems
<1>2. K \in Seq(PrintItems) /\ K # <<>> /\ Head(K) = r /\ Tail(K) = R
  BY <1>1
<1>3. r.op = "sent"
  BY NotSent
<1> QED
  BY <1>2, <1>3 DEF Stack, IsSending, Left

LEMMA SendOn ==
  ASSUME NEW q \in SendItems, NEW R \in Seq(PrintItems), NEW K, K = <<q>> \o R,
         R # <<>>, Head(R) \in SentItems, Tail(R) \in Seq(CalmItems)
  PROVE  Stack(K) /\ IsSending(K) /\ Left(K) = q.arg
<1>1. q \in PrintItems
  BY DEF PrintItems
<1>2. K \in Seq(PrintItems) /\ K # <<>> /\ Head(K) = q /\ Tail(K) = R
  BY <1>1
<1>3. q.op = "sendString"
  BY NotSend
<1> QED
  BY <1>2, <1>3 DEF Stack, IsSending, Left

LEMMA LeftType ==
  ASSUME NEW K, Stack(K)
  PROVE  Left(K) \in Texts
<1>1. CASE K # <<>> /\ Head(K).op = "sendString"
  BY <1>1, SendTop, NotSend
<1>2. CASE ~(K # <<>> /\ Head(K).op = "sendString")
  BY <1>2 DEF Left, Texts
<1> QED
  BY <1>1, <1>2

-----------------------------------------------------------------------------
(* The balance after a step of t.                                          *)

Count(K) == IF IsSending(K) THEN 1 ELSE 0

LEMMA SendersNext ==
  ASSUME NEW kk, NEW ll, NEW t \in Threads, OnlyOf(t, kk, ll),
         IsFiniteSet(Senders(kk))
  PROVE  /\ IsFiniteSet(Senders(ll))
         /\ Cardinality(Senders(kk)) \in Nat /\ Cardinality(Senders(ll)) \in Nat
         /\ Cardinality(Senders(ll)) + Count(kk[t]) = Cardinality(Senders(kk)) + Count(ll[t])
<1>1. PICK O : O = Senders(kk) \ {t}
  OBVIOUS
<1>2. IsFiniteSet(O) /\ t \notin O /\ Cardinality(O) \in Nat
  BY <1>1, FS_RemoveElement, FS_CardinalityType
<1>3. IsFiniteSet(O \cup {t}) /\ Cardinality(O \cup {t}) = Cardinality(O) + 1
  BY <1>2, FS_AddElement
<1>4. Senders(kk) = IF IsSending(kk[t]) THEN O \cup {t} ELSE O
  BY <1>1 DEF Senders
<1>5. Senders(ll) = IF IsSending(ll[t]) THEN O \cup {t} ELSE O
  BY <1>1 DEF Senders, OnlyOf
<1>6. Cardinality(Senders(kk)) = Cardinality(O) + Count(kk[t])
  BY <1>2, <1>3, <1>4 DEF Count
<1>7. IsFiniteSet(Senders(ll)) /\ Cardinality(Senders(ll)) = Cardinality(O) + Count(ll[t])
  BY <1>2, <1>3, <1>5 DEF Count
<1>8. Count(kk[t]) \in Nat /\ Count(ll[t]) \in Nat
  BY DEF Count
<1> QED
  BY <1>2, <1>6, <1>7, <1>8

(* Characters that were taken from the buffer.                             *)
Taken(f, C) == Weight(f.done, C) + Weight(FlattenSeq(f.sending), C)

LEMMA TakenType ==
  ASSUME NEW f \in FileCell, NEW C
  PROVE  Taken(f, C) \in Nat /\ FlattenSeq(f.sending) \in Texts
<1>1. f.done \in Texts /\ f.sending \in Seq(Seq(Chars))
  BY DEF FileCell, Texts
<1>2. FlattenSeq(f.sending) \in Texts
  BY <1>1, FlattenType DEF Texts
<1>3. Weight(f.done, C) \in Nat /\ Weight(FlattenSeq(f.sending), C) \in Nat
  BY <1>1, <1>2, SpotsFinite
<1> QED
  BY <1>2, <1>3 DEF Taken

(* What f and its file a hold and t has to send, and what they do after    *)
(* the step.                                                               *)
Evens(K, L, a, b, f, g) ==
  /\ Len(g.sending) + Count(K) = Len(f.sending) + Count(L)
  /\ \A C \in SUBSET Chars :
       Weight(b, C) + Weight(Left(L), C) + Taken(f, C)
         = Weight(a, C) + Weight(Left(K), C) + Taken(g, C)

LEMMA BalanceNext ==
  ASSUME NEW kk, NEW ll, NEW t \in Threads, OnlyOf(t, kk, ll),
         NEW a \in Texts, NEW b \in Texts, NEW f \in FileCell, NEW g \in FileCell,
         Balance(kk, a, f), Stack(kk[t]), Stack(ll[t]), Evens(kk[t], ll[t], a, b, f, g)
  PROVE  Balance(ll, b, g)
<1>1. IsFiniteSet(Senders(kk)) /\ Cardinality(Senders(kk)) = Len(f.sending)
  BY DEF Balance
<1>2. /\ IsFiniteSet(Senders(ll))
      /\ Cardinality(Senders(kk)) \in Nat /\ Cardinality(Senders(ll)) \in Nat
      /\ Cardinality(Senders(ll)) + Count(kk[t]) = Cardinality(Senders(kk)) + Count(ll[t])
  BY <1>1, SendersNext
<1>3. Len(g.sending) \in Nat /\ Count(kk[t]) \in Nat /\ Count(ll[t]) \in Nat
  BY DEF FileCell, Count
<1>4. Cardinality(Senders(ll)) = Len(g.sending)
  BY <1>1, <1>2, <1>3 DEF Evens
<1>5. Left(kk[t]) \in Texts /\ Left(ll[t]) \in Texts
  BY LeftType
<1>6. ASSUME NEW C \in SUBSET Chars
      PROVE  /\ IsFiniteSet(Owed(ll, Threads, C))
             /\ Weight(b, C) + Cardinality(Owed(ll, Threads, C)) = Taken(g, C)
  <2>1. /\ IsFiniteSet(Owed(kk, Threads, C))
        /\ Weight(a, C) + Cardinality(Owed(kk, Threads, C)) = Taken(f, C)
    BY DEF Balance, Taken
  <2>2. OwedMoves(t, kk, ll, C)
    BY <1>5, <2>1, OwedNext
  <2>3. /\ Weight(a, C) \in Nat /\ Weight(b, C) \in Nat
        /\ Weight(Left(kk[t]), C) \in Nat /\ Weight(Left(ll[t]), C) \in Nat
    BY <1>5, SpotsFinite
  <2>4. Taken(f, C) \in Nat /\ Taken(g, C) \in Nat
    BY TakenType
  <2>5. PICK v, w, l, m, p, q, d, e :
          /\ v = Weight(a, C) /\ w = Weight(b, C)
          /\ l = Weight(Left(kk[t]), C) /\ m = Weight(Left(ll[t]), C)
          /\ p = Taken(f, C) /\ q = Taken(g, C)
          /\ d = Cardinality(Owed(kk, Threads, C)) /\ e = Cardinality(Owed(ll, Threads, C))
    OBVIOUS
  <2>6. w + m + p = v + l + q
    BY <2>5 DEF Evens
  <2>7. v + d = p /\ e + l = d + m /\ d \in Nat /\ e \in Nat
    BY <2>1, <2>2, <2>5 DEF OwedMoves
  <2>8. v \in Nat /\ w \in Nat /\ l \in Nat /\ m \in Nat /\ p \in Nat /\ q \in Nat
    BY <2>3, <2>4, <2>5
  <2>9. w + e = q
    BY <2>6, <2>7, <2>8
  <2> QED
    BY <2>2, <2>5, <2>9 DEF OwedMoves
<1> QED
  BY <1>2, <1>4, <1>6 DEF Balance, Taken

(* The items of t become K.                                                *)
LEMMA StacksNext ==
  ASSUME Printing, NEW t \in Threads, NEW K, Stack(K), k' = [k EXCEPT ![t] = K]
  PROVE  /\ k' = [u \in Threads |-> k'[u]] /\ \A u \in Threads : Stack(k'[u])
         /\ k'[t] = K /\ OnlyOf(t, k, k')
<1>1. k = [u \in Threads |-> k[u]] /\ \A u \in Threads : Stack(k[u])
  BY DEF Printing
<1>2. k' = [u \in Threads |-> IF u = t THEN K ELSE k[u]]
  BY <1>1
<1>3. k'[t] = K /\ OnlyOf(t, k, k')
  BY <1>2 DEF OnlyOf
<1>4. \A u \in Threads : Stack(k'[u])
  BY <1>1, <1>3 DEF OnlyOf
<1> QED
  BY <1>2, <1>3, <1>4

(* One step: t's items become K, the cell g and the file b.                *)
LEMMA PrintStep ==
  ASSUME Printing, NEW t \in Threads, NEW K, Stack(K), k' = [k EXCEPT ![t] = K],
         NEW f, f = files[stdout], NEW g, PrintCell(g),
         DOMAIN files' = {stdout}, files'[stdout] = g,
         NEW b \in Texts, os'[uri[stdout]] = b, offset'[stdout] = Len(b),
         os' = [u \in URIs |-> os'[u]], offset' = [x \in Streams |-> offset'[x]],
         Evens(k[t], K, os[uri[stdout]], b, f, g)
  PROVE  Printing'
<1>1. /\ k' = [u \in Threads |-> k'[u]] /\ \A u \in Threads : Stack(k'[u])
      /\ k'[t] = K /\ OnlyOf(t, k, k')
  BY StacksNext
<1>2. /\ f \in FileCell /\ g \in FileCell /\ os[uri[stdout]] \in Texts /\ Stack(k[t])
      /\ Balance(k, os[uri[stdout]], f)
  BY DEF Printing, PrintCell
<1>3. PICK a, kk, ll : a = os[uri[stdout]] /\ kk = k /\ ll = k'
  OBVIOUS
<1>4. /\ a \in Texts /\ Stack(kk[t]) /\ Stack(ll[t]) /\ OnlyOf(t, kk, ll)
      /\ Balance(kk, a, f) /\ Evens(kk[t], ll[t], a, b, f, g)
  BY <1>1, <1>2, <1>3
<1>5. Balance(ll, b, g)
  BY <1>2, <1>4, BalanceNext
<1>6. Balance(k', b, g)
  BY <1>3, <1>5
<1>7. Balance(k, os[uri[stdout]], files[stdout])'
  BY <1>6 DEF Balance, Senders, Owed
<1>8. PrintCell(files[stdout])'
  BY DEF PrintCell
<1> QED
  BY <1>1, <1>7, <1>8 DEF Printing, Stack

-----------------------------------------------------------------------------
(* Steps of a thread that sends nothing.                                   *)

Calm(K) == K = <<>> \/ Head(K).op \notin {"sendString", "sent"}

LEMMA CalmStep ==
  ASSUME Printing, NEW t \in Threads, Calm(k[t]), NEW K \in Seq(CalmItems),
         k' = [k EXCEPT ![t] = K], NEW f, f = files[stdout], NEW g, PrintCell(g),
         g.sending = f.sending, g.done = f.done,
         DOMAIN files' = {stdout}, files'[stdout] = g, os' = os, offset' = offset
  PROVE  Printing'
<1>1. Stack(K) /\ ~IsSending(K) /\ Left(K) = <<>>
  BY CalmStack
<1>2. ~IsSending(k[t]) /\ Left(k[t]) = <<>>
  BY DEF Calm, IsSending, Left
<1>3. Count(K) = 0 /\ Count(k[t]) = 0
  BY <1>1, <1>2 DEF Count
<1>4. PICK b \in Texts : b = os[uri[stdout]]
  BY DEF Printing
<1>5. /\ os'[uri[stdout]] = b /\ offset'[stdout] = Len(b)
      /\ os' = [u \in URIs |-> os'[u]] /\ offset' = [x \in Streams |-> offset'[x]]
  BY <1>4 DEF Printing
<1>6. Evens(k[t], K, os[uri[stdout]], b, f, g)
  BY <1>1, <1>2, <1>3, <1>4 DEF Evens, Taken
<1> QED
  BY <1>1, <1>5, <1>6, PrintStep

LEMMA AtCalm ==
  ASSUME Printing, NEW t \in Threads, k[t] # <<>>, Head(k[t]).op \notin {"sendString", "sent"}
  PROVE  Head(k[t]) \in CalmItems /\ Tail(k[t]) \in Seq(CalmItems) /\ Calm(k[t])
BY CalmHead DEF Printing, Calm

LEMMA CalmBecomes ==
  ASSUME Printing, NEW t \in Threads, k[t] # <<>>, Head(k[t]).op \notin {"sendString", "sent"},
         NEW ks \in Seq(CalmItems), Becomes(t, ks),
         NEW f, f = files[stdout], NEW g, PrintCell(g),
         g.sending = f.sending, g.done = f.done,
         DOMAIN files' = {stdout}, files'[stdout] = g, os' = os, offset' = offset
  PROVE  Printing'
<1>1. Tail(k[t]) \in Seq(CalmItems) /\ Calm(k[t])
  BY AtCalm
<1>2. PICK K : K = ks \o Tail(k[t])
  OBVIOUS
<1>3. K \in Seq(CalmItems)
  BY <1>1, <1>2, ConcatLaws
<1>4. k' = [k EXCEPT ![t] = K]
  BY <1>2 DEF Becomes
<1> QED
  BY <1>1, <1>3, <1>4, CalmStep

(* Steps that only replace items.                                          *)
LEMMA QuietBecomes ==
  ASSUME Printing, NEW t \in Threads, k[t] # <<>>, Head(k[t]).op \notin {"sendString", "sent"},
         NEW ks \in Seq(CalmItems), Becomes(t, ks), UNCHANGED <<files, os, offset>>
  PROVE  Printing'
<1>1. PICK f : f = files[stdout]
  OBVIOUS
<1>2. PrintCell(f) /\ DOMAIN files' = {stdout} /\ files'[stdout] = f
  BY <1>1 DEF Printing
<1> QED
  BY <1>1, <1>2, CalmBecomes

LEMMA QuietReplaced ==
  ASSUME Printing, NEW t \in Threads, Calm(k[t]),
         NEW K \in Seq(CalmItems), k' = [k EXCEPT ![t] = K], UNCHANGED <<files, os, offset>>
  PROVE  Printing'
<1>1. PICK f : f = files[stdout]
  OBVIOUS
<1>2. PrintCell(f) /\ DOMAIN files' = {stdout} /\ files'[stdout] = f
  BY <1>1 DEF Printing
<1> QED
  BY <1>1, <1>2, CalmStep

LEMMA PrintCall ==
  ASSUME Printing, program \in Programs, PrintsOnly, "fopen" \notin program.ops,
         NEW t \in Threads, NEW s \in Statements, Call(t, s)
  PROVE  Printing'
<1>1. k[t] = <<>> /\ k' = [k EXCEPT ![t] = <<s>>] /\ UNCHANGED <<files, os, offset>>
  BY DEF Call
<1>2. s.op \in program.ops /\ program.ops \subseteq PrintOps
  BY DEF Call, PrintsOnly
<1>3. s.op \in PrintOps
  BY <1>2
<1>4. s.fd = stdout
  <2>1. CASE s.op \in {"fflushAll", "exit"}
    BY <2>1, StatementFacts
  <2>2. CASE s.op \notin {"fflushAll", "exit"}
    <3>1. Open(s.fd)
      BY <1>3, <2>2 DEF Call, PrintOps
    <3> QED
      BY <3>1 DEF Open, Printing
  <2> QED
    BY <2>1, <2>2
<1>5. s \in CalmItems
  BY <1>3, <1>4 DEF CalmItems
<1>6. <<s>> \in Seq(CalmItems) /\ Calm(k[t])
  BY <1>1, <1>5 DEF Calm
<1> QED
  BY <1>1, <1>6, QuietReplaced

LEMMA PrintEnding ==
  ASSUME Printing, NEW t \in Threads, Exit(t) \/ Abort(t) \/ End(t)
  PROVE  Printing'
<1>1. /\ k[t] # <<>> /\ Head(k[t]).op \notin {"sendString", "sent"}
      /\ UNCHANGED <<files, os, offset>>
  BY DEF Exit, Abort, End, AtHead
<1>2. Calm(k[t])
  BY <1>1 DEF Calm
<1>3. PICK c, d \in CalmItems : c = call("flush", stdout) /\ d = end
  BY MakeCalm, StdioAssumption
<1>4. CASE Exit(t)
  <2>1. k' = [k EXCEPT ![t] = <<c>> \o <<d>>]
    BY <1>3, <1>4 DEF Exit, AtExit, end
  <2>2. PICK K : K = <<c>> \o <<d>>
    OBVIOUS
  <2>3. K \in Seq(CalmItems)
    BY <1>3, <2>2
  <2> QED
    BY <1>1, <1>2, <2>1, <2>2, <2>3, QuietReplaced
<1>5. CASE Abort(t)
  <2>1. <<nl>> \in Texts
    BY StdioAssumption DEF Texts
  <2>2. PICK e \in CalmItems : e = callWith("writeFD", stdout, <<nl>>)
    BY <2>1, MakeCalm
  <2>3. <<e, c, d>> \in Seq(CalmItems)
    BY <1>3, <2>2
  <2>4. k' = [k EXCEPT ![t] = <<e, c, d>>]
    BY <1>3, <1>5, <2>2 DEF Abort, end
  <2> QED
    BY <1>1, <1>2, <2>3, <2>4, QuietReplaced
<1>6. CASE End(t)
  <2>1. Becomes(t, <<>>) /\ <<>> \in Seq(CalmItems)
    BY <1>6 DEF End
  <2> QED
    BY <1>1, <2>1, QuietBecomes
<1> QED
  BY <1>4, <1>5, <1>6

(* The head of a thread that calls a function.                             *)
LEMMA AtPrint ==
  ASSUME Printing, NEW t \in Threads, k[t] # <<>>, Head(k[t]).op \in CalmOps
  PROVE  /\ Head(k[t]) \in CalmItems /\ Head(k[t]).op \notin {"sendString", "sent"}
         /\ Head(k[t]).op # "flush" /\ Head(k[t]).op # "end" => Fd(t) = stdout
<1>1. Head(k[t]).op \notin {"sendString", "sent"}
  BY DEF CalmOps, PrintOps
<1>2. Head(k[t]) \in CalmItems
  BY <1>1, AtCalm
<1> QED
  BY <1>1, <1>2, CalmFacts DEF CalmOps, Fd

LEMMA PrintFputs ==
  ASSUME Printing, NEW t \in Threads, Fputs(t)
  PROVE  Printing'
<1>1. k[t] # <<>> /\ Head(k[t]).op = "fputs" /\ UNCHANGED <<os, offset>>
  BY DEF Fputs, AtHead
<1>2. Fd(t) = stdout /\ Head(k[t]) \in CalmItems
  BY <1>1, AtPrint DEF CalmOps, PrintOps
<1>3. isWritable(files[Fd(t)].mode)
  BY <1>2 DEF Printing, PrintCell, isWritable
<1>4. Head(k[t]).arg \in Texts
  <2>1. Head(k[t]) \in Statements
    BY <1>1, <1>2, CalmFacts DEF PrintOps
  <2> QED
    BY <1>1, <2>1, StatementFacts, StringFacts
<1>5. PICK c \in CalmItems : c = callWith("writeFD", stdout, Head(k[t]).arg)
  BY <1>4, MakeCalm
<1>6. Becomes(t, <<c>>) /\ UNCHANGED files
  BY <1>2, <1>3, <1>5 DEF Fputs
<1>7. <<c>> \in Seq(CalmItems)
  BY <1>5
<1> QED
  BY <1>1, <1>6, <1>7, QuietBecomes

LEMMA PrintWriteFD ==
  ASSUME Printing, NEW t \in Threads, WriteFD(t)
  PROVE  Printing'
<1>1. k[t] # <<>> /\ Head(k[t]).op = "writeFD" /\ UNCHANGED <<os, offset>>
  BY DEF WriteFD, AtHead
<1>2. Fd(t) = stdout /\ Head(k[t]) \in CalmItems
  BY <1>1, AtPrint DEF CalmOps, PrintOps
<1>3. PICK f, piece, s : f = files[stdout] /\ piece = Head(k[t]).arg /\ s = f.writeBuffer \o piece
  OBVIOUS
<1>4. PrintCell(f) /\ f \in FileCell /\ f.lastOp # "inputOp" /\ DOMAIN files = {stdout}
  BY <1>3 DEF Printing, PrintCell
<1>5. piece \in Texts /\ f.writeBuffer \in Texts /\ f.pos \in Int
  BY <1>1, <1>2, <1>3, <1>4, CalmFacts DEF FileCell
<1>6. s \in Texts /\ Len(s) = Len(f.writeBuffer) + Len(piece)
  BY <1>3, <1>5, ConcatLaws DEF Texts
<1>7. PICK p : p = f.pos + Len(piece)
  OBVIOUS
<1>8. PICK g : g = [f EXCEPT !.writeBuffer = s, !.pos = p, !.lastOp = "outputOp"]
  OBVIOUS
<1>9. ~AfterInput(f)
  BY <1>4 DEF AfterInput
<1>10. /\ files' = [files EXCEPT ![stdout] = g]
       /\ Becomes(t, IF MustFlush(f, s, piece) THEN <<call("flush", stdout)>> ELSE <<>>)
  BY <1>2, <1>3, <1>7, <1>8, <1>9 DEF WriteFD
<1>11. DOMAIN files' = {stdout} /\ files'[stdout] = g
  BY <1>4, <1>10
<1>12. p \in Int /\ Len(piece) \in Nat /\ Len(f.writeBuffer) \in Nat
  BY <1>5, <1>7 DEF Texts
<1>13. g \in FileCell
  BY <1>4, <1>6, <1>8, <1>12 DEF FileCell, LastOps
<1>14. /\ g.sending = f.sending /\ g.done = f.done /\ g.mode = f.mode
       /\ g.writeBuffer = s /\ g.pos = p /\ g.lastOp = "outputOp"
  BY <1>4, <1>8 DEF FileCell
<1>15. Len(f.done) \in Nat /\ Len(FlattenSeq(f.sending)) \in Nat
  BY <1>4, TakenType DEF FileCell, Texts
<1>16. PrintCell(g)
  <2>1. PICK a, b, c, d, e : /\ a = Len(f.done) /\ b = Len(FlattenSeq(f.sending)) /\ c = f.pos
                             /\ d = Len(f.writeBuffer) /\ e = Len(piece)
    OBVIOUS
  <2>2. c = a + b + d /\ p = c + e
    BY <1>4, <1>7, <2>1 DEF PrintCell
  <2>3. a \in Nat /\ b \in Nat /\ c \in Int /\ d \in Nat /\ e \in Nat
    BY <1>5, <1>12, <1>15, <2>1
  <2>4. p = a + b + (d + e)
    BY <2>2, <2>3
  <2>5. g.pos = Len(g.done) + Len(FlattenSeq(g.sending)) + Len(g.writeBuffer)
    BY <1>6, <1>14, <2>1, <2>4
  <2>6. g.mode = "w" /\ g.lastOp # "inputOp"
    BY <1>4, <1>14 DEF PrintCell
  <2> QED
    BY <1>13, <2>5, <2>6 DEF PrintCell
<1>17. PICK ks \in Seq(CalmItems) : Becomes(t, ks)
  <2>1. PICK c \in CalmItems : c = call("flush", stdout)
    BY MakeCalm, StdioAssumption
  <2>2. <<c>> \in Seq(CalmItems) /\ <<>> \in Seq(CalmItems)
    BY <2>1
  <2> QED
    BY <1>10, <2>1, <2>2
<1> QED
  BY <1>1, <1>3, <1>11, <1>14, <1>16, <1>17, CalmBecomes

LEMMA PrintFlushAll ==
  ASSUME Printing, NEW t \in Threads, FlushAll(t)
  PROVE  Printing'
<1>1. /\ k[t] # <<>> /\ Head(k[t]).op \notin {"sendString", "sent"}
      /\ UNCHANGED <<files, os, offset>>
  BY DEF FlushAll, AtHead
<1>2. Openable(DOMAIN files)
  <2>1. DOMAIN files = {stdout} /\ stdout \in Streams
    BY StdioAssumption DEF Printing
  <2>2. IsFiniteSet({stdout})
    BY FS_Singleton
  <2> QED
    BY <2>1, <2>2 DEF Openable
<1>3. PICK order \in SetToSeqs(DOMAIN files) :
        Becomes(t, [i \in DOMAIN order |-> call("flush", order[i])])
  BY DEF FlushAll
<1>4. PICK F \in Seq(FlushItems) :
        AllFlush(F) /\ F = [i \in DOMAIN order |-> call("flush", order[i])]
  BY <1>2, AllFlushed
<1>5. F \in Seq(CalmItems)
  <2>1. \A i \in 1 .. Len(F) : F[i] \in CalmItems
    <3> TAKE i \in 1 .. Len(F)
    <3>1. F[i] \in FlushItems /\ F[i].op = "flush"
      BY <1>4 DEF AllFlush
    <3>2. F[i] \in [op : {"flush"}, fd : Streams]
      BY <3>1 DEF FlushItems
    <3> QED
      BY <3>2 DEF CalmItems
  <2>2. Len(F) \in Nat /\ F = [i \in 1 .. Len(F) |-> F[i]]
    BY <1>4
  <2>3. F \in [1 .. Len(F) -> CalmItems]
    BY <2>1, <2>2
  <2> QED
    BY <2>2, <2>3, FunctionSeq
<1> QED
  BY <1>1, <1>3, <1>4, <1>5, QuietBecomes

(* A cell with other flags.                                                *)
LEMMA PrintAdjusted ==
  ASSUME NEW f, PrintCell(f), NEW g \in FileCell, g.lastOp # "inputOp",
         g.mode = f.mode, g.pos = f.pos, g.writeBuffer = f.writeBuffer,
         g.sending = f.sending, g.done = f.done
  PROVE  PrintCell(g)
BY DEF PrintCell

LEMMA PrintFflush ==
  ASSUME Printing, NEW t \in Threads, Fflush(t)
  PROVE  Printing'
<1>1. k[t] # <<>> /\ Head(k[t]).op = "fflush" /\ UNCHANGED <<os, offset>>
  BY DEF Fflush, AtHead
<1>2. Fd(t) = stdout
  BY <1>1, AtPrint DEF CalmOps, PrintOps
<1>3. PICK f : f = files[stdout]
  OBVIOUS
<1>4. PrintCell(f) /\ f \in FileCell /\ f.lastOp # "inputOp" /\ f.mode = "w" /\ DOMAIN files = {stdout}
  BY <1>3 DEF Printing, PrintCell
<1>5. isWritable(f.mode) /\ f.lastOp # "inputOp"
  BY <1>4 DEF isWritable
<1>6. PICK g : g = [f EXCEPT !.lastOp = "flushOp"]
  OBVIOUS
<1>7. files' = FflushDone(stdout) /\ Becomes(t, <<call("flush", stdout)>>)
  BY <1>2, <1>3, <1>5 DEF Fflush
<1>8. files' = [files EXCEPT ![stdout] = g]
  BY <1>3, <1>4, <1>6, <1>7 DEF FflushDone
<1>9. DOMAIN files' = {stdout} /\ files'[stdout] = g
  BY <1>4, <1>8
<1>10. g \in FileCell
  BY <1>4, <1>6 DEF FileCell, LastOps
<1>11. /\ g.mode = f.mode /\ g.pos = f.pos /\ g.writeBuffer = f.writeBuffer
       /\ g.sending = f.sending /\ g.done = f.done /\ g.lastOp = "flushOp"
  BY <1>4, <1>6 DEF FileCell
<1>12. PrintCell(g)
  BY <1>4, <1>10, <1>11, PrintAdjusted
<1>13. PICK c \in CalmItems : c = call("flush", stdout)
  BY MakeCalm, StdioAssumption
<1>14. <<c>> \in Seq(CalmItems) /\ Becomes(t, <<c>>)
  BY <1>7, <1>13
<1> QED
  BY <1>1, <1>3, <1>9, <1>11, <1>12, <1>14, CalmBecomes

LEMMA PrintAdjust ==
  ASSUME Printing, NEW t \in Threads, Clearerr(t) \/ Setvbuf(t)
  PROVE  Printing'
<1>1. /\ k[t] # <<>> /\ Head(k[t]).op \in {"clearerr", "setvbuf"}
      /\ Becomes(t, <<>>) /\ UNCHANGED <<os, offset>>
  BY DEF Clearerr, Setvbuf, AtHead
<1>2. Fd(t) = stdout /\ Head(k[t]) \in CalmItems
  BY <1>1, AtPrint DEF CalmOps, PrintOps
<1>3. PICK f, r : f = files[stdout] /\ r = Head(k[t])
  OBVIOUS
<1>4. PrintCell(f) /\ f \in FileCell /\ f.lastOp # "inputOp" /\ DOMAIN files = {stdout}
  BY <1>3 DEF Printing, PrintCell
<1>5. r \in Statements
  BY <1>1, <1>2, <1>3, CalmFacts DEF PrintOps
<1>6. PICK g : /\ files' = [files EXCEPT ![stdout] = g] /\ g \in FileCell
               /\ g.mode = f.mode /\ g.pos = f.pos /\ g.writeBuffer = f.writeBuffer
               /\ g.sending = f.sending /\ g.done = f.done /\ g.lastOp = f.lastOp
  <2>1. CASE Clearerr(t)
    <3>1. PICK g : g = [f EXCEPT !.ferror = FALSE, !.feof = FALSE]
      OBVIOUS
    <3>2. files' = [files EXCEPT ![stdout] = g]
      BY <1>2, <1>3, <2>1, <3>1 DEF Clearerr
    <3>3. g \in FileCell
      BY <1>4, <3>1 DEF FileCell
    <3>4. /\ g.mode = f.mode /\ g.pos = f.pos /\ g.writeBuffer = f.writeBuffer
          /\ g.sending = f.sending /\ g.done = f.done /\ g.lastOp = f.lastOp
      BY <1>4, <3>1 DEF FileCell
    <3> QED
      BY <3>2, <3>3, <3>4
  <2>2. CASE Setvbuf(t)
    <3>1. r.op = "setvbuf"
      BY <1>3, <2>2 DEF Setvbuf, AtHead
    <3>2. PICK m, n : m = r.arg /\ n = r.size
      OBVIOUS
    <3>3. m \in BufModes /\ n \in Nat
      BY <1>5, <3>1, <3>2, StatementFacts, StdioAssumption
    <3>4. PICK g : g = [f EXCEPT !.bufMode = m, !.bufSize = n]
      OBVIOUS
    <3>5. files' = [files EXCEPT ![stdout] = g]
      BY <1>2, <1>3, <2>2, <3>2, <3>4 DEF Setvbuf
    <3>6. g \in FileCell
      BY <1>4, <3>3, <3>4 DEF FileCell
    <3>7. /\ g.mode = f.mode /\ g.pos = f.pos /\ g.writeBuffer = f.writeBuffer
          /\ g.sending = f.sending /\ g.done = f.done /\ g.lastOp = f.lastOp
      BY <1>4, <3>4 DEF FileCell
    <3> QED
      BY <3>5, <3>6, <3>7
  <2> QED
    BY <2>1, <2>2
<1>7. DOMAIN files' = {stdout} /\ files'[stdout] = g
  BY <1>4, <1>6
<1>8. PrintCell(g)
  BY <1>4, <1>6, PrintAdjusted
<1>9. <<>> \in Seq(CalmItems) /\ Head(k[t]).op \notin {"sendString", "sent"}
  BY <1>1
<1> QED
  BY <1>1, <1>3, <1>6, <1>7, <1>8, <1>9, CalmBecomes

-----------------------------------------------------------------------------
(* Steps that move characters from the buffer to the file.                 *)

LEMMA WeightParts ==
  ASSUME NEW c \in Texts, NEW a \in Texts, NEW b \in Texts, c = a \o b, NEW C
  PROVE  /\ Weight(c, C) = Weight(a, C) + Weight(b, C)
         /\ Weight(a, C) \in Nat /\ Weight(b, C) \in Nat /\ Weight(c, C) \in Nat
BY WeightConcat, SpotsFinite

LEMMA PrintTaken ==
  ASSUME Printing, NEW t \in Threads, AtHead(t, "flush"), Fd(t) = stdout,
         NEW f, f = files[stdout], files' = [files EXCEPT ![stdout] = moveToSending(f)],
         Becomes(t, <<callWith("sendString", stdout, f.writeBuffer),
                      callWith("sent", stdout, f.writeBuffer)>>),
         UNCHANGED <<os, offset>>
  PROVE  Printing'
<1>1. k[t] # <<>> /\ Head(k[t]).op = "flush" /\ DOMAIN files = {stdout}
  BY DEF AtHead, Printing
<1>2. Tail(k[t]) \in Seq(CalmItems) /\ ~IsSending(k[t]) /\ Left(k[t]) = <<>>
  BY <1>1, CalmHead DEF Printing
<1>3. PrintCell(f) /\ f \in FileCell
  BY DEF Printing, PrintCell
<1>4. PICK w \in Texts : w = f.writeBuffer
  BY <1>3 DEF FileCell
<1>5. PICK q \in SendItems : q = callWith("sendString", stdout, w)
  BY <1>4 DEF SendItems, callWith
<1>6. PICK r \in SentItems : r = callWith("sent", stdout, w)
  BY <1>4 DEF SentItems, callWith
<1>7. PICK R \in Seq(CalmItems) : R = Tail(k[t])
  BY <1>2
<1>8. PICK L : L = <<r>> \o R
  OBVIOUS
<1>9. PICK K : K = <<q>> \o L
  OBVIOUS
<1>10. L # <<>> /\ Head(L) = r /\ Tail(L) = R /\ L \in Seq(PrintItems)
  BY <1>8, SentOn DEF Stack
<1>11. Stack(K) /\ IsSending(K) /\ Left(K) = w
  <2>1. q.arg = w
    BY <1>5 DEF callWith
  <2> QED
    BY <1>9, <1>10, <2>1, SendOn
<1>12. K = <<q, r>> \o R
  <2>1. q \in PrintItems /\ r \in PrintItems /\ R \in Seq(PrintItems)
    BY DEF PrintItems
  <2> QED
    BY <1>8, <1>9, <2>1
<1>13. k' = [k EXCEPT ![t] = K]
  BY <1>4, <1>5, <1>6, <1>7, <1>12 DEF Becomes
<1>14. PICK z \in Seq(Texts) : z = f.sending
  BY <1>3 DEF FileCell
<1>15. PICK y : y = Append(z, w)
  OBVIOUS
<1>16. y \in Seq(Texts) /\ Len(y) = Len(z) + 1 /\ Len(z) \in Nat
  BY <1>15
<1>17. FlattenSeq(y) = FlattenSeq(z) \o w
  <2>1. y = z \o <<w>> /\ z \in Seq(Seq(Chars)) /\ <<w>> \in Seq(Seq(Chars)) /\ w \in Seq(Chars)
    BY <1>15, ConcatOne DEF Texts
  <2>2. FlattenSeq(z \o <<w>>) = FlattenSeq(z) \o FlattenSeq(<<w>>)
    BY <2>1, FlattenConcat
  <2>3. FlattenSeq(<<w>>) = w
    BY <2>1, FlattenOne
  <2> QED
    BY <2>1, <2>2, <2>3
<1>18. PICK g : g = [f EXCEPT !.writeBuffer = <<>>, !.sending = y]
  OBVIOUS
<1>19. files' = [files EXCEPT ![stdout] = g]
  BY <1>4, <1>14, <1>15, <1>18 DEF moveToSending
<1>20. DOMAIN files' = {stdout} /\ files'[stdout] = g
  BY <1>1, <1>19
<1>21. g \in FileCell
  <2>1. <<>> \in Texts
    BY DEF Texts
  <2> QED
    BY <1>3, <1>16, <1>18, <2>1 DEF FileCell
<1>22. /\ g.sending = y /\ g.done = f.done /\ g.mode = f.mode
       /\ g.writeBuffer = <<>> /\ g.pos = f.pos /\ g.lastOp = f.lastOp
  BY <1>3, <1>18 DEF FileCell
<1>23. PICK d \in Texts, u \in Texts, v \in Texts :
         d = f.done /\ u = FlattenSeq(z) /\ v = FlattenSeq(y)
  BY <1>3, <1>14, <1>21, <1>22, TakenType DEF FileCell
<1>24. v = u \o w /\ Len(v) = Len(u) + Len(w) /\ Len(u) \in Nat /\ Len(w) \in Nat /\ Len(d) \in Nat
  BY <1>17, <1>23, ConcatLaws DEF Texts
<1>25. PrintCell(g)
  <2>1. f.pos = Len(d) + Len(u) + Len(w)
    BY <1>3, <1>4, <1>14, <1>23 DEF PrintCell
  <2>2. f.pos = Len(d) + Len(v) + 0
    BY <1>24, <2>1
  <2>3. g.pos = Len(g.done) + Len(FlattenSeq(g.sending)) + Len(g.writeBuffer)
    BY <1>22, <1>23, <2>2
  <2> QED
    BY <1>3, <1>21, <1>22, <2>3 DEF PrintCell
<1>26. PICK b \in Texts : b = os[uri[stdout]]
  BY DEF Printing
<1>27. /\ os'[uri[stdout]] = b /\ offset'[stdout] = Len(b)
       /\ os' = [m \in URIs |-> os'[m]] /\ offset' = [x \in Streams |-> offset'[x]]
  BY <1>26 DEF Printing
<1>28. Evens(k[t], K, b, b, f, g)
  <2>1. Len(g.sending) + Count(k[t]) = Len(f.sending) + Count(K)
    BY <1>2, <1>11, <1>14, <1>16, <1>22 DEF Count
  <2>2. ASSUME NEW C \in SUBSET Chars
        PROVE  Weight(b, C) + Weight(Left(K), C) + Taken(f, C)
                 = Weight(b, C) + Weight(Left(k[t]), C) + Taken(g, C)
    <3>1. /\ Weight(v, C) = Weight(u, C) + Weight(w, C)
          /\ Weight(u, C) \in Nat /\ Weight(w, C) \in Nat /\ Weight(v, C) \in Nat
      BY <1>24, WeightParts
    <3>2. Weight(b, C) \in Nat /\ Weight(d, C) \in Nat /\ Weight(<<>>, C) = 0
      BY SpotsFinite, WeightEmpty
    <3>3. Taken(f, C) = Weight(d, C) + Weight(u, C) /\ Taken(g, C) = Weight(d, C) + Weight(v, C)
      BY <1>14, <1>22, <1>23 DEF Taken
    <3>4. Weight(Left(K), C) = Weight(w, C) /\ Weight(Left(k[t]), C) = 0
      BY <1>2, <1>11, <3>2
    <3> QED
      BY <3>1, <3>2, <3>3, <3>4
  <2> QED
    BY <2>1, <2>2 DEF Evens
<1>29. Evens(k[t], K, os[uri[stdout]], b, f, g)
  BY <1>26, <1>28
<1> QED
  BY <1>11, <1>13, <1>20, <1>25, <1>27, <1>29, PrintStep

LEMMA PrintFlush ==
  ASSUME Printing, NEW t \in Threads, Flush(t)
  PROVE  Printing'
<1>1. AtHead(t, "flush") /\ UNCHANGED <<os, offset>>
  BY DEF Flush
<1>2. CASE Open(Fd(t))
  <2>1. Fd(t) = stdout
    BY <1>2 DEF Open, Printing
  <2>2. PICK f : f = files[stdout]
    OBVIOUS
  <2>3. /\ files' = [files EXCEPT ![stdout] = moveToSending(f)]
        /\ Becomes(t, <<callWith("sendString", stdout, f.writeBuffer),
                        callWith("sent", stdout, f.writeBuffer)>>)
    BY <1>2, <2>1, <2>2 DEF Flush
  <2> QED
    BY <1>1, <2>1, <2>2, <2>3, PrintTaken
<1>3. CASE ~Open(Fd(t))
  <2>1. Becomes(t, <<>>) /\ files' = files /\ <<>> \in Seq(CalmItems)
    BY <1>3 DEF Flush
  <2>2. k[t] # <<>> /\ Head(k[t]).op \notin {"sendString", "sent"}
    BY <1>1 DEF AtHead
  <2> QED
    BY <1>1, <2>1, <2>2, QuietBecomes
<1> QED
  BY <1>2, <1>3

(* A character is sent: it is added at the end of the file.                *)
LEMMA AddedAtEnd ==
  ASSUME NEW a \in Texts, NEW c \in Chars
  PROVE  Overwrite(a, Len(a), <<c>>) = a \o <<c>>
<1>1. PICK s : s = <<c>>
  OBVIOUS
<1>2. s \in Texts /\ Len(s) = 1 /\ Len(a) \in Nat /\ a \in Seq(Chars) /\ s \in Seq(Chars)
  BY <1>1 DEF Texts
<1>3. PICK r : r = Overwrite(a, Len(a), s)
  OBVIOUS
<1>4. PICK n \in Nat : n = Len(a)
  BY <1>2
<1>5. Overwritten(a, n, s, r)
  BY <1>2, <1>3, <1>4, OverwriteFacts
<1>6. /\ r \in Seq(Chars) /\ Len(r) = n + 1
      /\ \A i \in 1 .. n : r[i] = a[i]
      /\ r[n + 1] = s[1]
  BY <1>2, <1>4, <1>5 DEF Overwritten, Texts
<1>7. PICK q : q = a \o s
  OBVIOUS
<1>8. /\ q \in Seq(Chars) /\ Len(q) = n + 1
      /\ \A i \in 1 .. n : q[i] = a[i]
      /\ q[n + 1] = s[1]
  <2>1. /\ a \o s \in Seq(Chars) /\ Len(a \o s) = Len(a) + Len(s)
        /\ \A i \in 1 .. Len(a) : (a \o s)[i] = a[i]
        /\ \A i \in 1 .. Len(s) : (a \o s)[Len(a) + i] = s[i]
    <3>1. a \in Seq(Chars) /\ s \in Seq(Chars)
      BY <1>2
    <3> QED
      BY <3>1, ConcatLaws
  <2>2. /\ q \in Seq(Chars) /\ Len(q) = n + 1
        /\ \A i \in 1 .. n : q[i] = a[i]
        /\ \A i \in 1 .. 1 : q[n + i] = s[i]
    BY <1>2, <1>4, <1>7, <2>1
  <2> QED
    BY <2>2
<1>9. \A i \in 1 .. n + 1 : r[i] = q[i]
  <2> TAKE i \in 1 .. n + 1
  <2>1. i \in 1 .. n \/ i = n + 1
    OBVIOUS
  <2> QED
    BY <1>6, <1>8, <2>1
<1>10. r = q
  BY <1>6, <1>8, <1>9
<1> QED
  BY <1>1, <1>3, <1>7, <1>10

LEMMA PrintChar ==
  ASSUME Printing, NEW t \in Threads, AtHead(t, "sendString"),
         NEW s, s = Head(k[t]).arg, s # <<>>, Fd(t) = stdout,
         os' = [os EXCEPT ![uri[stdout]] = Overwrite(@, offset[stdout], <<Head(s)>>)],
         offset' = [offset EXCEPT ![stdout] = @ + 1],
         Becomes(t, <<callWith("sendString", stdout, Tail(s))>>), UNCHANGED files
  PROVE  Printing'
<1>1. k[t] # <<>> /\ Head(k[t]).op = "sendString" /\ Stack(k[t])
  BY DEF AtHead, Printing
<1>2. /\ Head(k[t]) \in SendItems /\ Tail(k[t]) \in Seq(PrintItems)
      /\ Tail(k[t]) # <<>> /\ Head(Tail(k[t])) \in SentItems /\ Tail(Tail(k[t])) \in Seq(CalmItems)
      /\ IsSending(k[t]) /\ Left(k[t]) = s
  BY <1>1, SendTop
<1>3. s \in Texts
  BY <1>2, NotSend
<1>4. PICK c \in Chars, r \in Texts : c = Head(s) /\ r = Tail(s)
  <2>1. s \in Seq(Chars) /\ s # <<>>
    BY <1>3 DEF Texts
  <2>2. Head(s) \in Chars /\ Tail(s) \in Texts
    BY <2>1 DEF Texts
  <2> QED
    BY <2>2
<1>5. <<c>> \in Texts
  BY DEF Texts
<1>6. s = <<c>> \o r
  BY <1>3, <1>4 DEF Texts
<1>7. PICK q \in SendItems : q = callWith("sendString", stdout, r)
  BY DEF SendItems, callWith
<1>8. PICK R \in Seq(PrintItems) : R = Tail(k[t])
  BY <1>2
<1>9. PICK K : K = <<q>> \o R
  OBVIOUS
<1>10. Stack(K) /\ IsSending(K) /\ Left(K) = r
  <2>1. q.arg = r /\ R # <<>> /\ Head(R) \in SentItems /\ Tail(R) \in Seq(CalmItems)
    BY <1>2, <1>7, <1>8 DEF callWith
  <2> QED
    BY <1>9, <2>1, SendOn
<1>11. k' = [k EXCEPT ![t] = K]
  BY <1>4, <1>7, <1>8, <1>9 DEF Becomes
<1>12. PICK f : f = files[stdout]
  OBVIOUS
<1>13. PrintCell(f) /\ f \in FileCell /\ DOMAIN files' = {stdout} /\ files'[stdout] = f
  BY <1>12 DEF Printing, PrintCell
<1>14. PICK a \in Texts : a = os[uri[stdout]]
  BY DEF Printing
<1>15. PICK b : b = a \o <<c>>
  OBVIOUS
<1>16. b \in Texts /\ Len(b) = Len(a) + 1
  BY <1>5, <1>15 DEF Texts
<1>17. uri[stdout] \in URIs /\ stdout \in Streams
  BY StdioAssumption DEF URIs
<1>18. /\ os = [u \in URIs |-> os[u]] /\ offset = [x \in Streams |-> offset[x]]
       /\ offset[stdout] = Len(a)
  BY <1>14 DEF Printing
<1>19. Overwrite(os[uri[stdout]], offset[stdout], <<Head(s)>>) = b
  BY <1>4, <1>14, <1>15, <1>18, AddedAtEnd
<1>20. os' = [os EXCEPT ![uri[stdout]] = b]
  BY <1>17, <1>18, <1>19
<1>21. os'[uri[stdout]] = b /\ os' = [u \in URIs |-> os'[u]]
  BY <1>17, <1>18, <1>20
<1>22. offset'[stdout] = Len(b) /\ offset' = [x \in Streams |-> offset'[x]]
  <2>1. offset' = [offset EXCEPT ![stdout] = Len(b)]
    BY <1>16, <1>17, <1>18
  <2> QED
    BY <1>17, <1>18, <2>1
<1>23. Evens(k[t], K, a, b, f, f)
  <2>1. Len(f.sending) + Count(k[t]) = Len(f.sending) + Count(K)
    BY <1>2, <1>10 DEF Count
  <2>2. ASSUME NEW C \in SUBSET Chars
        PROVE  Weight(b, C) + Weight(Left(K), C) + Taken(f, C)
                 = Weight(a, C) + Weight(Left(k[t]), C) + Taken(f, C)
    <3>1. PICK h \in Texts : h = <<c>>
      BY <1>5
    <3>2. b = a \o h /\ s = h \o r
      BY <1>6, <1>15, <3>1
    <3>6. /\ Weight(b, C) = Weight(a, C) + Weight(h, C)
          /\ Weight(a, C) \in Nat /\ Weight(h, C) \in Nat /\ Weight(b, C) \in Nat
      <4>1. b \in Texts /\ b = a \o h
        BY <1>16, <3>2
      <4> QED
        BY <4>1, WeightParts
    <3>3. /\ Weight(s, C) = Weight(h, C) + Weight(r, C)
          /\ Weight(h, C) \in Nat /\ Weight(r, C) \in Nat /\ Weight(s, C) \in Nat
      <4>1. s \in Texts /\ s = h \o r
        BY <1>3, <3>2
      <4> QED
        BY <4>1, WeightParts
    <3>4. Taken(f, C) \in Nat
      BY <1>13, TakenType
    <3>5. Weight(Left(K), C) = Weight(r, C) /\ Weight(Left(k[t]), C) = Weight(s, C)
      BY <1>2, <1>10
    <3> QED
      BY <3>3, <3>4, <3>5, <3>6
  <2> QED
    BY <2>1, <2>2 DEF Evens
<1>24. Evens(k[t], K, os[uri[stdout]], b, f, f)
  BY <1>14, <1>23
<1> QED
  BY <1>10, <1>11, <1>12, <1>13, <1>16, <1>21, <1>22, <1>24, PrintStep

(* Everything is sent, and the announcement is next.                       *)
LEMMA PrintSentAll ==
  ASSUME Printing, NEW t \in Threads, AtHead(t, "sendString"), Head(k[t]).arg = <<>>,
         Becomes(t, <<>>), UNCHANGED <<files, os, offset>>
  PROVE  Printing'
<1>1. k[t] # <<>> /\ Head(k[t]).op = "sendString" /\ Stack(k[t])
  BY DEF AtHead, Printing
<1>2. /\ Tail(k[t]) \in Seq(PrintItems)
      /\ Tail(k[t]) # <<>> /\ Head(Tail(k[t])) \in SentItems /\ Tail(Tail(k[t])) \in Seq(CalmItems)
      /\ IsSending(k[t]) /\ Left(k[t]) = <<>>
  BY <1>1, SendTop
<1>3. PICK K \in Seq(PrintItems) : K = Tail(k[t])
  BY <1>2
<1>4. Stack(K) /\ IsSending(K) /\ Left(K) = <<>>
  <2>1. Head(K).op = "sent"
    BY <1>2, <1>3, NotSent
  <2> QED
    BY <1>2, <1>3, <2>1 DEF Stack, IsSending, Left
<1>5. k' = [k EXCEPT ![t] = K]
  <2>1. <<>> \o K = K
    BY EmptyLaws
  <2> QED
    BY <1>3, <2>1 DEF Becomes
<1>6. PICK f : f = files[stdout]
  OBVIOUS
<1>7. PrintCell(f) /\ f \in FileCell /\ DOMAIN files' = {stdout} /\ files'[stdout] = f
  BY <1>6 DEF Printing, PrintCell
<1>8. PICK b \in Texts : b = os[uri[stdout]]
  BY DEF Printing
<1>9. /\ os'[uri[stdout]] = b /\ offset'[stdout] = Len(b)
      /\ os' = [m \in URIs |-> os'[m]] /\ offset' = [x \in Streams |-> offset'[x]]
  BY <1>8 DEF Printing
<1>10. Evens(k[t], K, os[uri[stdout]], b, f, f)
  BY <1>2, <1>4, <1>8 DEF Evens, Count
<1> QED
  BY <1>4, <1>5, <1>6, <1>7, <1>9, <1>10, PrintStep

LEMMA PrintSend ==
  ASSUME Printing, NEW t \in Threads, SendString(t)
  PROVE  Printing'
<1>1. AtHead(t, "sendString") /\ UNCHANGED files
  BY DEF SendString
<1>2. Fd(t) = stdout
  <2>1. Head(k[t]) \in SendItems
    BY <1>1, SendTop DEF AtHead, Printing
  <2> QED
    BY <2>1, NotSend DEF Fd
<1>3. PICK s : s = Head(k[t]).arg
  OBVIOUS
<1>4. CASE s # <<>>
  <2>1. /\ os' = [os EXCEPT ![uri[stdout]] = Overwrite(@, offset[stdout], <<Head(s)>>)]
        /\ offset' = [offset EXCEPT ![stdout] = @ + 1]
        /\ Becomes(t, <<callWith("sendString", stdout, Tail(s))>>)
    BY <1>2, <1>3, <1>4 DEF SendString
  <2> QED
    BY <1>1, <1>2, <1>3, <1>4, <2>1, PrintChar
<1>5. CASE s = <<>>
  <2>1. Becomes(t, <<>>) /\ UNCHANGED <<os, offset>> /\ Head(k[t]).arg = <<>>
    BY <1>3, <1>5 DEF SendString
  <2> QED
    BY <1>1, <2>1, PrintSentAll
<1> QED
  BY <1>4, <1>5

(* The first announced string moves to <done>.                             *)
LEMMA FirstSent ==
  ASSUME NEW z \in Seq(Texts), z # <<>>
  PROVE  /\ Head(z) \in Texts /\ Tail(z) \in Seq(Texts) /\ Len(z) = Len(Tail(z)) + 1
         /\ FlattenSeq(Tail(z)) \in Texts
         /\ FlattenSeq(z) = Head(z) \o FlattenSeq(Tail(z))
<1>1. Head(z) \in Texts /\ Tail(z) \in Seq(Texts) /\ Len(z) = Len(Tail(z)) + 1
  OBVIOUS
<1>2. PICK h \in Seq(Chars), y \in Seq(Seq(Chars)) : h = Head(z) /\ y = Tail(z)
  BY <1>1 DEF Texts
<1>3. z = <<h>> \o y /\ <<h>> \in Seq(Seq(Chars))
  BY <1>2
<1>4. FlattenSeq(<<h>> \o y) = FlattenSeq(<<h>>) \o FlattenSeq(y) /\ FlattenSeq(<<h>>) = h
  BY <1>3, FlattenConcat, FlattenOne
<1>5. FlattenSeq(y) \in Texts
  BY FlattenType DEF Texts
<1>6. FlattenSeq(z) = h \o FlattenSeq(y)
  BY <1>3, <1>4
<1> QED
  BY <1>1, <1>2, <1>5, <1>6

LEMMA PrintSent ==
  ASSUME Printing, NEW t \in Threads, Sent(t)
  PROVE  Printing'
<1>1. /\ k[t] # <<>> /\ Head(k[t]).op = "sent" /\ Stack(k[t]) /\ DOMAIN files = {stdout}
      /\ Becomes(t, <<>>) /\ UNCHANGED <<os, offset>>
  BY DEF Sent, AtHead, Printing
<1>2. /\ Head(k[t]) \in SentItems /\ Tail(k[t]) \in Seq(CalmItems)
      /\ IsSending(k[t]) /\ Left(k[t]) = <<>>
  BY <1>1, SentTop
<1>3. PICK s \in Texts : s = Head(k[t]).arg
  BY <1>2, NotSent
<1>4. Fd(t) = stdout
  BY <1>2, NotSent DEF Fd
<1>5. PICK f : f = files[stdout]
  OBVIOUS
<1>6. PrintCell(f) /\ f \in FileCell
  BY <1>5 DEF Printing, PrintCell
<1>7. PICK z \in Seq(Texts), d \in Texts : z = f.sending /\ d = f.done
  BY <1>6 DEF FileCell
<1>8. z # <<>> /\ Head(z) = s
  BY <1>3, <1>4, <1>5, <1>7 DEF Sent
<1>9. PICK y, v : y = Tail(z) /\ v = FlattenSeq(y)
  OBVIOUS
<1>10. y \in Seq(Texts) /\ Len(z) = Len(y) + 1 /\ v \in Texts /\ FlattenSeq(z) = s \o v
  BY <1>8, <1>9, FirstSent
<1>11. PICK e : e = d \o s
  OBVIOUS
<1>12. e \in Texts /\ Len(e) = Len(d) + Len(s)
  BY <1>11, ConcatLaws DEF Texts
<1>13. PICK g : g = [f EXCEPT !.sending = y, !.done = e]
  OBVIOUS
<1>14. files' = [files EXCEPT ![stdout] = g]
  BY <1>3, <1>4, <1>5, <1>7, <1>9, <1>11, <1>13 DEF Sent
<1>15. DOMAIN files' = {stdout} /\ files'[stdout] = g
  BY <1>1, <1>14
<1>16. g \in FileCell
  BY <1>6, <1>10, <1>12, <1>13 DEF FileCell
<1>17. /\ g.sending = y /\ g.done = e /\ g.mode = f.mode
       /\ g.writeBuffer = f.writeBuffer /\ g.pos = f.pos /\ g.lastOp = f.lastOp
  BY <1>6, <1>13 DEF FileCell
<1>18. PICK u \in Texts : u = FlattenSeq(z)
  BY <1>6, <1>7, TakenType
<1>19. u = s \o v
  BY <1>10, <1>18
<1>20. PrintCell(g)
  <2>1. Len(u) = Len(s) + Len(v) /\ Len(s) \in Nat /\ Len(v) \in Nat /\ Len(d) \in Nat
    BY <1>10, <1>19, ConcatLaws DEF Texts
  <2>2. PICK n \in Nat : n = Len(f.writeBuffer)
    BY <1>6 DEF FileCell, Texts
  <2>3. f.pos = Len(d) + Len(u) + n
    BY <1>6, <1>7, <1>18, <2>2 DEF PrintCell
  <2>4. f.pos = Len(e) + Len(v) + n
    BY <1>12, <2>1, <2>3
  <2>5. g.pos = Len(g.done) + Len(FlattenSeq(g.sending)) + Len(g.writeBuffer)
    BY <1>9, <1>17, <2>2, <2>4
  <2> QED
    BY <1>6, <1>16, <1>17, <2>5 DEF PrintCell
<1>21. PICK K \in Seq(CalmItems) : K = Tail(k[t])
  BY <1>2
<1>22. k' = [k EXCEPT ![t] = K]
  <2>1. <<>> \o K = K
    BY EmptyLaws
  <2> QED
    BY <1>1, <1>21, <2>1 DEF Becomes
<1>23. Stack(K) /\ ~IsSending(K) /\ Left(K) = <<>>
  BY CalmStack
<1>24. PICK b \in Texts : b = os[uri[stdout]]
  BY DEF Printing
<1>25. /\ os'[uri[stdout]] = b /\ offset'[stdout] = Len(b)
       /\ os' = [m \in URIs |-> os'[m]] /\ offset' = [x \in Streams |-> offset'[x]]
  BY <1>1, <1>24 DEF Printing
<1>26. Evens(k[t], K, b, b, f, g)
  <2>1. Len(g.sending) + Count(k[t]) = Len(f.sending) + Count(K)
    <3>1. Len(y) \in Nat
      BY <1>10
    <3> QED
      BY <1>2, <1>7, <1>10, <1>17, <1>23, <3>1 DEF Count
  <2>2. ASSUME NEW C \in SUBSET Chars
        PROVE  Weight(b, C) + Weight(Left(K), C) + Taken(f, C)
                 = Weight(b, C) + Weight(Left(k[t]), C) + Taken(g, C)
    <3>1. /\ Weight(u, C) = Weight(s, C) + Weight(v, C)
          /\ Weight(s, C) \in Nat /\ Weight(v, C) \in Nat /\ Weight(u, C) \in Nat
      BY <1>10, <1>19, WeightParts
    <3>2. /\ Weight(e, C) = Weight(d, C) + Weight(s, C)
          /\ Weight(d, C) \in Nat /\ Weight(s, C) \in Nat /\ Weight(e, C) \in Nat
      BY <1>11, <1>12, WeightParts
    <3>3. Taken(f, C) = Weight(d, C) + Weight(u, C) /\ Taken(g, C) = Weight(e, C) + Weight(v, C)
      BY <1>7, <1>9, <1>17, <1>18 DEF Taken
    <3>4. Taken(f, C) = Taken(g, C)
      BY <3>1, <3>2, <3>3
    <3> QED
      BY <1>2, <1>23, <3>4
  <2> QED
    BY <2>1, <2>2 DEF Evens
<1>27. Evens(k[t], K, os[uri[stdout]], b, f, g)
  BY <1>24, <1>26
<1> QED
  BY <1>5, <1>15, <1>20, <1>22, <1>23, <1>25, <1>27, PrintStep

-----------------------------------------------------------------------------
(* The invariant.                                                          *)

LEMMA PrintInit ==
  ASSUME Init
  PROVE  PrintInv
<1>1. PICK f : f = newFile("w", "lineBuf")
  OBVIOUS
<1>2. files = [x \in {stdout} |-> f]
  BY <1>1 DEF Init
<1>3. DOMAIN files = {stdout} /\ files[stdout] = f
  BY <1>2
<1>4. f \in FileCell
  <2>1. <<>> \in Texts /\ <<>> \in Seq(Texts)
    BY DEF Texts
  <2> QED
    BY <1>1, <2>1, StdioAssumption DEF newFile, FileCell, Modes, BufModes, LastOps, NextBytes
<1>5. /\ f.pos = 0 /\ f.mode = "w" /\ f.lastOp = "noLastOp"
      /\ f.done = <<>> /\ f.sending = <<>> /\ f.writeBuffer = <<>>
  BY <1>1 DEF newFile
<1>6. FlattenSeq(<<>>) = <<>>
  BY FlattenOne, EmptyLaws
<1>7. PrintCell(f)
  BY <1>4, <1>5, <1>6 DEF PrintCell
<1>8. uri[stdout] \in URIs /\ stdout \in Streams
  BY StdioAssumption DEF URIs
<1>9. /\ os[uri[stdout]] = <<>> /\ offset[stdout] = 0
      /\ os = [u \in URIs |-> os[u]] /\ offset = [x \in Streams |-> offset[x]]
  BY <1>8 DEF Init
<1>10. k = [t \in Threads |-> k[t]] /\ \A t \in Threads : k[t] = <<>>
  BY DEF Init
<1>11. \A t \in Threads : Stack(k[t]) /\ ~IsSending(k[t]) /\ Left(k[t]) = <<>>
  BY <1>10, CalmStack, EmptyLaws
<1>12. Balance(k, <<>>, f)
  <2>1. Senders(k) = {}
    BY <1>11 DEF Senders
  <2>2. IsFiniteSet({}) /\ Cardinality({}) = 0
    BY FS_EmptySet
  <2>3. ASSUME NEW C \in SUBSET Chars
        PROVE  /\ IsFiniteSet(Owed(k, Threads, C))
               /\ Weight(<<>>, C) + Cardinality(Owed(k, Threads, C))
                    = Weight(f.done, C) + Weight(FlattenSeq(f.sending), C)
    <3>1. \A t \in Threads : {t} \X Spots(Left(k[t]), C) = {}
      BY <1>11, WeightEmpty
    <3>2. Owed(k, Threads, C) = {}
      BY <3>1 DEF Owed
    <3>3. Weight(<<>>, C) = 0
      BY WeightEmpty
    <3> QED
      BY <1>5, <1>6, <2>2, <3>2, <3>3
  <2> QED
    BY <1>5, <2>1, <2>2, <2>3 DEF Balance
<1>13. Printing
  BY <1>3, <1>7, <1>9, <1>10, <1>11, <1>12 DEF Printing, Texts
<1> QED
  BY <1>13 DEF PrintInv, Init

(* The other rules do not apply.                                           *)
LEMMA PrintNoOther ==
  ASSUME Printing, NEW t \in Threads
  PROVE  ~(\/ Fread(t) \/ ReadFD(t) \/ Getc(t) \/ FillBuffer(t) \/ Ungetc(t) \/ Fseek(t)
           \/ Seek(t) \/ Fopen(t) \/ FopenFails(t) \/ Fclose(t) \/ Close(t))
<1>1. k[t] # <<>> => Head(k[t]).op \in CalmOps \cup {"sendString", "sent"}
  <2>1. CASE k[t] # <<>> /\ Head(k[t]).op \notin {"sendString", "sent"}
    BY <2>1, AtCalm, CalmFacts
  <2> QED
    BY <2>1
<1>2. \A op : AtHead(t, op) => op \in CalmOps \cup {"sendString", "sent"}
  BY <1>1 DEF AtHead
<1>3. /\ ~AtHead(t, "fread") /\ ~AtHead(t, "readFD") /\ ~AtHead(t, "fillBuffer")
      /\ ~AtHead(t, "ungetc") /\ ~AtHead(t, "seek") /\ ~AtHead(t, "fopen")
      /\ ~AtHead(t, "fclose") /\ ~AtHead(t, "close")
  BY <1>2 DEF CalmOps, PrintOps
<1>4. ~(k[t] # <<>> /\ Head(k[t]).op \in {"fseekCur", "fseekEnd", "rewind"})
  BY <1>1 DEF CalmOps, PrintOps
<1> QED
  BY <1>3, <1>4 DEF Fread, ReadFD, Getc, FillBuffer, Ungetc, Fseek, Seek, Fopen, FopenFails,
     Fclose, Close

LEMMA PrintNext ==
  ASSUME PrintsOnly, PrintInv, [Next]_vars
  PROVE  PrintInv'
<1>1. CASE UNCHANGED vars
  <2>1. UNCHANGED <<k, files, os, offset, program>>
    BY <1>1 DEF vars
  <2>2. ASSUME Printing PROVE Printing'
    <3>1. Balance(k, os[uri[stdout]], files[stdout])
      BY <2>2 DEF Printing
    <3>2. Balance(k, os[uri[stdout]], files[stdout])'
      BY <2>1, <3>1 DEF Balance, Senders, Owed
    <3>3. PrintCell(files[stdout])' /\ \A t \in Threads : Stack(k[t])'
      BY <2>1, <2>2 DEF Printing, PrintCell, Stack
    <3> QED
      BY <2>1, <2>2, <3>2, <3>3 DEF Printing
  <2> QED
    BY <2>1, <2>2 DEF PrintInv
<1>2. ASSUME NEW t \in Threads, NEW s \in Statements, Call(t, s)
      PROVE  PrintInv'
  BY <1>2, PrintCall DEF PrintInv, Call
<1>3. ASSUME NEW t \in Threads, Step(t)
      PROVE  PrintInv'
  <2>1. program' = program
    BY <1>3, ZenonT(60) DEF Step, Fputs, WriteFD, Flush, SendString, Sent, FlushAll, Fflush, Fread,
       ReadFD, Getc, FillBuffer, Ungetc, Clearerr, Fseek, Seek, Fopen, FopenFails, Fclose, Close,
       Setvbuf, Exit, Abort, End
  <2>2. ASSUME Printing PROVE Printing'
    <3>1. CASE Fputs(t)
      BY <2>2, <3>1, PrintFputs
    <3>2. CASE WriteFD(t)
      BY <2>2, <3>2, PrintWriteFD
    <3>3. CASE Flush(t)
      BY <2>2, <3>3, PrintFlush
    <3>4. CASE SendString(t)
      BY <2>2, <3>4, PrintSend
    <3>5. CASE Sent(t)
      BY <2>2, <3>5, PrintSent
    <3>6. CASE FlushAll(t)
      BY <2>2, <3>6, PrintFlushAll
    <3>7. CASE Fflush(t)
      BY <2>2, <3>7, PrintFflush
    <3>8. CASE Clearerr(t) \/ Setvbuf(t)
      BY <2>2, <3>8, PrintAdjust
    <3>9. CASE Exit(t) \/ Abort(t) \/ End(t)
      BY <2>2, <3>9, PrintEnding
    <3>10. ~(\/ Fread(t) \/ ReadFD(t) \/ Getc(t) \/ FillBuffer(t) \/ Ungetc(t) \/ Fseek(t)
             \/ Seek(t) \/ Fopen(t) \/ FopenFails(t) \/ Fclose(t) \/ Close(t))
      BY <2>2, PrintNoOther
    <3> QED
      BY <1>3, <3>1, <3>2, <3>3, <3>4, <3>5, <3>6, <3>7, <3>8, <3>9, <3>10 DEF Step
  <2> QED
    BY <2>1, <2>2 DEF PrintInv
<1> QED
  BY <1>1, <1>2, <1>3 DEF Next

(* No announced string: nobody sends, and the file is what <done> records. *)
LEMMA NothingOwed ==
  ASSUME Printing, files[stdout].sending = <<>>, NEW C \in SUBSET Chars
  PROVE  Weight(os[uri[stdout]], C) = Weight(files[stdout].done, C)
<1>1. PICK f, a : f = files[stdout] /\ a = os[uri[stdout]]
  OBVIOUS
<1>2. a \in Texts /\ f \in FileCell /\ f.sending = <<>> /\ Balance(k, a, f)
  BY <1>1 DEF Printing, PrintCell
<1>3. Senders(k) = {}
  <2>1. IsFiniteSet(Senders(k)) /\ Cardinality(Senders(k)) = 0
    BY <1>2 DEF Balance
  <2> QED
    BY <2>1, FS_EmptySet
<1>4. \A t \in Threads : Left(k[t]) = <<>>
  BY <1>3 DEF Senders, IsSending, Left
<1>5. \A t \in Threads : {t} \X Spots(Left(k[t]), C) = {}
  BY <1>4, WeightEmpty
<1>6. Owed(k, Threads, C) = {}
  BY <1>5 DEF Owed
<1>7. Weight(a, C) + Cardinality(Owed(k, Threads, C))
        = Weight(f.done, C) + Weight(FlattenSeq(f.sending), C)
  BY <1>2 DEF Balance
<1>8. FlattenSeq(<<>>) = <<>> /\ Weight(<<>>, C) = 0 /\ Cardinality({}) = 0
  BY FlattenOne, EmptyLaws, WeightEmpty, FS_EmptySet
<1>9. Weight(a, C) \in Nat /\ Weight(f.done, C) \in Nat
  BY <1>2, SpotsFinite DEF FileCell
<1>10. Weight(a, C) + 0 = Weight(f.done, C) + 0
  BY <1>2, <1>6, <1>7, <1>8
<1> QED
  BY <1>1, <1>9, <1>10

LEMMA CountedOnce ==
  ASSUME NEW s \in Texts, NEW c
  PROVE  Occurrences(s, c) = Weight(s, {c})
<1>1. {i \in DOMAIN s : s[i] = c} = Spots(s, {c})
  BY DEF Spots, Texts
<1> QED
  BY <1>1 DEF Occurrences, Weight

LEMMA PrintInvLost ==
  ASSUME PrintInv
  PROVE  NothingLost
<1>1. SUFFICES ASSUME "fopen" \notin program.ops, files[stdout].sending = <<>>
               PROVE  /\ Len(os[uri[stdout]]) + Len(files[stdout].writeBuffer) = files[stdout].pos
                      /\ \A c \in Chars : Occurrences(os[uri[stdout]], c)
                                            = Occurrences(files[stdout].done, c)
  BY DEF NothingLost
<1>2. Printing
  BY <1>1 DEF PrintInv
<1>3. PICK f, a : f = files[stdout] /\ a = os[uri[stdout]]
  OBVIOUS
<1>4. /\ a \in Texts /\ f.done \in Texts /\ f.writeBuffer \in Texts
      /\ f.pos = Len(f.done) + Len(FlattenSeq(f.sending)) + Len(f.writeBuffer)
      /\ f.sending = <<>>
  BY <1>1, <1>2, <1>3 DEF Printing, PrintCell, FileCell
<1>5. \A C \in SUBSET Chars : Weight(a, C) = Weight(f.done, C)
  BY <1>1, <1>2, <1>3, NothingOwed
<1>6. Len(a) + Len(f.writeBuffer) = f.pos
  <2>1. Weight(a, Chars) = Len(a) /\ Weight(f.done, Chars) = Len(f.done)
    BY <1>4, WeightAll
  <2>2. Len(a) = Len(f.done)
    BY <1>5, <2>1
  <2>3. FlattenSeq(<<>>) = <<>> /\ Len(<<>>) = 0
    BY FlattenOne, EmptyLaws
  <2>4. Len(f.done) \in Nat /\ Len(f.writeBuffer) \in Nat
    BY <1>4 DEF Texts
  <2>5. f.pos = Len(f.done) + 0 + Len(f.writeBuffer)
    BY <1>4, <2>3
  <2> QED
    BY <2>2, <2>4, <2>5
<1>7. ASSUME NEW c \in Chars PROVE Occurrences(a, c) = Occurrences(f.done, c)
  <2>1. Weight(a, {c}) = Weight(f.done, {c})
    BY <1>5
  <2> QED
    BY <1>4, <2>1, CountedOnce
<1> QED
  BY <1>3, <1>6, <1>7

(* Threads that only print to stdout and flush it lose no character and    *)
(* send none twice, however their sends interleave: when no flush is under *)
(* way, the file and the write buffer are as long as what was written, and *)
(* the file has each character as often as <done> records (NothingLost).   *)
(* Any number of threads, any strings, any number of calls.                *)
THEOREM NothingIsLost == PrintsOnly => (Spec => []NothingLost)
<1> SUFFICES ASSUME PrintsOnly PROVE Spec => []NothingLost
  OBVIOUS
<1>1. Init => PrintInv
  BY PrintInit
<1>2. PrintInv /\ [Next]_vars => PrintInv'
  BY PrintNext
<1>3. PrintInv => NothingLost
  BY PrintInvLost
<1> QED
  BY <1>1, <1>2, <1>3, PTL DEF Spec
=============================================================================
