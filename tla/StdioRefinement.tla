-------------------------- MODULE StdioRefinement --------------------------
(***************************************************************************)
(* Stdio implements ByteStream: a program of one thread that separates     *)
(* output from input and clears errors before it reads cannot notice that  *)
(* its streams are buffered.                                               *)
(***************************************************************************)
EXTENDS StdioProofs

(* The first item of K, if it sends characters to x.                       *)
Sends(K, x) == IF K # <<>> /\ K[1].op = "sendString" /\ K[1].fd = x THEN K[1].arg ELSE <<>>
Waiting(x) == Sends(k[Here], x) \o files[x].writeBuffer
Held(x) == Overwrite(os[uri[x]], offset[x], Waiting(x))
Byte(f) == IF f.nextByte = <<EOF>> THEN <<>> ELSE f.nextByte
Coming(x) == files[x].readBuffer \o Byte(files[x]) \o After(Held(x), offset[x] + Len(Waiting(x)))

(* The mapping, in terms of the first item of <k>.                         *)
Shown ==
  \A x \in DOMAIN files : Contents(x) = Held(x) /\ Upcoming(x) = Coming(x)

LEMMA ShownIs == OneThread => (StdioInv => Shown)
<1> SUFFICES ASSUME OneThread, StdioInv, NEW x \in DOMAIN files
             PROVE  Contents(x) = Held(x) /\ Upcoming(x) = Coming(x)
  BY DEF Shown
<1>1. PICK A \in Seq(FlushItems), R \in Seq(RestItems) : Doing(A, R)
  BY DEF StdioInv
<1>2. Pending(x) = Sending(A, x) \o files[x].writeBuffer
  BY <1>1, PendingIs
<1>3. Sending(A, x) = Sends(k[Here], x)
  <2>1. k[Here] = A \o R
    BY <1>1 DEF Doing
  <2>2. CASE A # <<>>
    <3>1. A \o R # <<>> /\ (A \o R)[1] = A[1]
      <4>1. A \in Seq(Items) /\ R \in Seq(Items)
        BY ItemSeqs
      <4> QED
        BY <2>2, <4>1, ConcatLaws
    <3> QED
      BY <2>1, <2>2, <3>1 DEF Sends, Sending
  <2>3. CASE A = <<>>
    <3>1. k[Here] = R
      BY <2>1, <2>3, EmptyLaws
    <3>2. R # <<>> => R[1].op # "sendString"
      BY RestItemFacts
    <3> QED
      BY <2>3, <3>1, <3>2 DEF Sends, Sending
  <2> QED
    BY <2>2, <2>3
<1>4. Pending(x) = Waiting(x)
  BY <1>2, <1>3 DEF Waiting
<1>5. Contents(x) = Held(x)
  BY <1>4 DEF Contents, Held
<1> QED
  BY <1>4, <1>5 DEF Upcoming, Coming, Byte, After

LEMMA ShownNext ==
  ASSUME OneThread
  PROVE  StdioInv' => Shown'
<1>1. StdioInv => Shown
  BY ShownIs
<1> QED
  BY <1>1, PTL

-----------------------------------------------------------------------------
(* Texts: writing into them and reading from them.                         *)

LEMMA OverwriteNone ==
  ASSUME NEW file \in Texts, NEW o \in Nat, o <= Len(file)
  PROVE  Overwrite(file, o, <<>>) = file
<1>1. PICK r : r = Overwrite(file, o, <<>>)
  OBVIOUS
<1>2. <<>> \in Texts /\ Len(<<>>) = 0 /\ Len(file) \in Nat
  BY DEF Texts
<1>3. Overwritten(file, o, <<>>, r)
  BY <1>1, <1>2, OverwriteFacts
<1>4. /\ r \in Texts /\ Len(r) = Len(file)
      /\ \A i \in 1 .. o : r[i] = file[i]
      /\ \A i \in o + 1 .. Len(file) : r[i] = file[i]
  BY <1>2, <1>3 DEF Overwritten
<1>5. \A i \in 1 .. Len(file) : r[i] = file[i]
  BY <1>2, <1>4
<1>6. r = file
  BY <1>4, <1>5, SeqEqual DEF Texts
<1> QED
  BY <1>1, <1>6

(* Two pieces, one behind the other, are one.                              *)
LEMMA OverwriteTwice ==
  ASSUME NEW file \in Texts, NEW o \in Nat, o <= Len(file), NEW w \in Texts, NEW s \in Texts
  PROVE  /\ Overwrite(file, o, w) \in Texts /\ o + Len(w) <= Len(Overwrite(file, o, w))
         /\ Overwrite(Overwrite(file, o, w), o + Len(w), s) = Overwrite(file, o, w \o s)
<1>1. PICK n \in Nat, a \in Nat, b \in Nat : n = Len(file) /\ a = Len(w) /\ b = Len(s)
  BY DEF Texts
<1>2. PICK c : c = w \o s
  OBVIOUS
<1>3. /\ c \in Texts /\ Len(c) = a + b
      /\ \A i \in 1 .. a : c[i] = w[i]
      /\ \A i \in 1 .. b : c[a + i] = s[i]
  BY <1>1, <1>2, ConcatLaws DEF Texts
<1>4. PICK g : g = Overwrite(file, o, w)
  OBVIOUS
<1>5. Overwritten(file, o, w, g)
  BY <1>4, OverwriteFacts
<1>6. /\ g \in Texts /\ Len(g) = IF o + a > n THEN o + a ELSE n
      /\ \A i \in 1 .. o : g[i] = file[i]
      /\ \A i \in 1 .. a : g[o + i] = w[i]
      /\ \A i \in o + a + 1 .. n : g[i] = file[i]
  BY <1>1, <1>5 DEF Overwritten
<1>7. PICK q \in Nat, e \in Nat : q = o + a /\ e = Len(g) /\ q <= e /\ n <= e
  BY <1>1, <1>6
<1>8. PICK h : h = Overwrite(g, q, s)
  OBVIOUS
<1>9. Overwritten(g, q, s, h)
  BY <1>6, <1>7, <1>8, OverwriteFacts
<1>10. /\ h \in Texts /\ Len(h) = IF q + b > e THEN q + b ELSE e
       /\ \A i \in 1 .. q : h[i] = g[i]
       /\ \A i \in 1 .. b : h[q + i] = s[i]
       /\ \A i \in q + b + 1 .. e : h[i] = g[i]
  BY <1>1, <1>7, <1>9 DEF Overwritten
<1>11. PICK r : r = Overwrite(file, o, c)
  OBVIOUS
<1>12. Overwritten(file, o, c, r)
  BY <1>3, <1>11, OverwriteFacts
<1>13. /\ r \in Texts /\ Len(r) = IF o + (a + b) > n THEN o + (a + b) ELSE n
       /\ \A i \in 1 .. o : r[i] = file[i]
       /\ \A i \in 1 .. a + b : r[o + i] = c[i]
       /\ \A i \in o + (a + b) + 1 .. n : r[i] = file[i]
  BY <1>1, <1>3, <1>12 DEF Overwritten
<1>14. PICK m \in Nat : m = Len(r) /\ m = Len(h)
  <2>1. PICK m \in Nat, l \in Nat : m = Len(r) /\ l = Len(h)
    BY <1>10, <1>13 DEF Texts
  <2>2. /\ e = IF o + a > n THEN o + a ELSE n
        /\ l = IF q + b > e THEN q + b ELSE e
        /\ m = IF o + (a + b) > n THEN o + (a + b) ELSE n
    BY <1>6, <1>7, <1>10, <1>13, <2>1
  <2>3. m = l
    BY <1>7, <2>2
  <2> QED
    BY <2>1, <2>3
<1>15. ASSUME NEW i \in 1 .. m PROVE h[i] = r[i]
  <2>1. CASE i <= o
    <3>1. i \in 1 .. q /\ i \in 1 .. o
      BY <1>7, <2>1
    <3> QED
      BY <1>6, <1>10, <1>13, <3>1
  <2>2. CASE i > o /\ i <= q
    <3>1. PICK j \in 1 .. a : o + j = i
      <4>1. i - o \in 1 .. a /\ o + (i - o) = i
        BY <1>7, <2>2
      <4> QED
        BY <4>1
    <3>2. i \in 1 .. q /\ j \in 1 .. a + b
      BY <2>2
    <3>3. h[i] = g[i] /\ g[i] = w[j] /\ r[i] = c[j] /\ c[j] = w[j]
      BY <1>3, <1>6, <1>10, <1>13, <3>1, <3>2
    <3> QED
      BY <3>3
  <2>3. CASE i > q /\ i <= q + b
    <3>1. PICK j \in 1 .. b : q + j = i
      <4>1. i - q \in 1 .. b /\ q + (i - q) = i
        BY <2>3
      <4> QED
        BY <4>1
    <3>2. a + j \in 1 .. a + b /\ o + (a + j) = i
      BY <1>7, <3>1
    <3>3. h[i] = s[j] /\ c[a + j] = s[j]
      BY <1>3, <1>10, <3>1
    <3>4. r[i] = c[a + j]
      BY <1>13, <3>2
    <3> QED
      BY <3>3, <3>4
  <2>4. CASE i > q + b
    <3>1. i \in q + b + 1 .. e /\ i \in o + a + 1 .. n /\ i \in o + (a + b) + 1 .. n
      BY <1>6, <1>7, <1>10, <1>14, <2>4
    <3> QED
      BY <1>6, <1>10, <1>13, <3>1
  <2> QED
    BY <2>1, <2>2, <2>3, <2>4
<1>16. h = r
  BY <1>10, <1>13, <1>14, <1>15, SeqEqual DEF Texts
<1> QED
  BY <1>1, <1>2, <1>4, <1>6, <1>7, <1>8, <1>11, <1>16, Zenon

LEMMA AfterType ==
  ASSUME NEW file \in Texts, NEW p \in Nat, p <= Len(file)
  PROVE  After(file, p) \in Texts /\ Len(After(file, p)) = Len(file) - p
<1>1. Len(file) \in Nat /\ file \in Seq(Chars)
  BY DEF Texts
<1>2. Splits(Chars, file, p, Len(file), Len(file)) /\ Splits(Chars, file, 0, p, Len(file))
  BY <1>1, SplitSubSeq
<1> QED
  BY <1>1, <1>2 DEF Splits, After, Texts

LEMMA NextChar ==
  ASSUME NEW file \in Texts, NEW o \in Nat, o < Len(file)
  PROVE  /\ file[o + 1] \in Chars
         /\ After(file, o) = <<file[o + 1]>> \o After(file, o + 1)
<1>1. file \in Seq(Chars) /\ Len(file) \in Nat
  BY DEF Texts
<1>2. file[o + 1] \in Chars
  BY <1>1
<1>3. PICK p : p = SubSeq(file, o + 1, o + 1)
  OBVIOUS
<1>4. Piece(Chars, file, o, 1, p)
  BY <1>1, <1>3, TakePiece
<1>5. p \in Seq(Chars) /\ Len(p) = 1 /\ p[1] = file[o + 1]
  BY <1>4 DEF Piece
<1>6. p = <<file[o + 1]>>
  <2>1. PICK c \in Chars : c = file[o + 1]
    BY <1>2
  <2>2. <<c>> \in Seq(Chars) /\ Len(<<c>>) = 1 /\ <<c>>[1] = c
    OBVIOUS
  <2>3. \A i \in 1 .. 1 : p[i] = <<c>>[i]
    BY <1>5, <2>1, <2>2
  <2> QED
    BY <1>5, <2>1, <2>2, <2>3, SeqEqual
<1>7. After(file, o) = p \o After(file, o + 1)
  BY <1>4 DEF Piece, After
<1> QED
  BY <1>2, <1>6, <1>7

(* Reading from a buffer that something follows.                           *)
LEMMA ReadFront ==
  ASSUME NEW a \in Texts, NEW b \in Texts, NEW m \in Nat, m <= Len(a)
  PROVE  /\ SubSeq(a \o b, 1, m) = SubSeq(a, 1, m) /\ Len(SubSeq(a, 1, m)) = m
         /\ After(a \o b, m) = After(a, m) \o b
<1>1. a \in Seq(Chars) /\ b \in Seq(Chars) /\ Len(a) \in Nat
  BY DEF Texts
<1>2. Splits(Chars, a, 0, m, Len(a)) /\ SubSeq(a, 1, Len(a)) = a
  BY <1>1, SplitSubSeq, WholeSeq
<1>3. PICK p \in Seq(Chars), q \in Seq(Chars) :
        p = SubSeq(a, 1, m) /\ q = After(a, m) /\ Len(p) = m /\ a = p \o q
  <2>1. 0 + 1 = 1 /\ m - 0 = m
    OBVIOUS
  <2>2. /\ SubSeq(a, 0 + 1, Len(a)) = SubSeq(a, 0 + 1, m) \o SubSeq(a, m + 1, Len(a))
        /\ SubSeq(a, 0 + 1, m) \in Seq(Chars) /\ Len(SubSeq(a, 0 + 1, m)) = m - 0
        /\ SubSeq(a, m + 1, Len(a)) \in Seq(Chars)
    BY <1>2 DEF Splits
  <2>3. /\ a = SubSeq(a, 1, m) \o SubSeq(a, m + 1, Len(a))
        /\ SubSeq(a, 1, m) \in Seq(Chars) /\ Len(SubSeq(a, 1, m)) = m
        /\ SubSeq(a, m + 1, Len(a)) \in Seq(Chars)
    BY <1>2, <2>1, <2>2, Zenon
  <2> QED
    BY <2>3, Zenon DEF After
<1>4. PICK c \in Seq(Chars), e \in Seq(Chars) : c = a \o b /\ e = q \o b
  BY <1>1, ConcatLaws
<1>5. c = p \o e /\ Len(c) = Len(a) + Len(b)
  <2>0. b \in Seq(Chars)
    BY <1>1
  <2>1. (p \o q) \o b = p \o (q \o b)
    BY <2>0, ConcatAssoc, SMTT(30)
  <2>2. Len(a \o b) = Len(a) + Len(b)
    BY <1>1, ConcatLaws
  <2> QED
    BY <1>3, <1>4, <2>1, <2>2, Zenon
<1>6. <<>> \in Seq(Chars) /\ c \o <<>> = p \o e /\ Len(p) <= Len(c)
  <2>1. c \o <<>> = c
    BY EmptyLaws
  <2>2. Len(p) <= Len(c)
    BY <1>1, <1>3, <1>5
  <2> QED
    BY <1>5, <2>1, <2>2
<1>7. SubSeq(c, 1, Len(p)) = p
  BY <1>6, TakePrefix
<1>8. After(c, Len(p)) \in Seq(Chars) /\ After(c, Len(p)) \o <<>> = e
  BY <1>6, TakeRest
<1>9. After(c, Len(p)) = e
  BY <1>8, EmptyLaws
<1> QED
  BY <1>3, <1>4, <1>7, <1>9

LEMMA TextLaws ==
  /\ <<>> \in Texts /\ Len(<<>>) = 0
  /\ \A a, b \in Texts : a \o b \in Texts /\ Len(a \o b) = Len(a) + Len(b)
  /\ \A a \in Texts : a \o <<>> = a /\ <<>> \o a = a /\ Len(a) \in Nat
  /\ \A a, b, c \in Texts : Regroups(a, b, c)
<1>1. <<>> \in Texts /\ Len(<<>>) = 0
  BY DEF Texts
<1>2. \A a, b \in Texts : a \o b \in Texts /\ Len(a \o b) = Len(a) + Len(b)
  BY ConcatLaws DEF Texts
<1>3. \A a \in Texts : a \o <<>> = a /\ <<>> \o a = a /\ Len(a) \in Nat
  BY EmptyLaws DEF Texts
<1>4. \A a, b, c \in Texts : Regroups(a, b, c)
  BY Associative, Zenon DEF Texts
<1> QED
  BY <1>1, <1>2, <1>3, <1>4

-----------------------------------------------------------------------------
(* Which steps can be followed by sending a character.                     *)

NoSend(K) == K = <<>> \/ K[1].op # "sendString"

LEMMA NothingSent ==
  ASSUME NEW K, NoSend(K), NEW x
  PROVE  Sends(K, x) = <<>>
BY DEF NoSend, Sends

(* Behind its first item, a thread sends nothing.                          *)
LEMMA TailQuiet ==
  ASSUME OneThread, StdioInv, NEW t \in Threads, k[t] # <<>>
  PROVE  /\ t = Here /\ k[t] \in Seq(Items) /\ k[t][1] = Head(k[t])
         /\ Tail(k[t]) \in Seq(Items) /\ NoSend(Tail(k[t]))
<1>1. t = Here
  BY Alone
<1>2. PICK A \in Seq(FlushItems), R \in Seq(RestItems) : Doing(A, R)
  BY DEF StdioInv
<1>3. PICK K \in Seq(Items) : K = k[t] /\ K = A \o R
  BY <1>1, <1>2, ItemSeqs DEF Doing
<1>4. /\ Len(K) = Len(A) + Len(R) /\ Len(A) \in Nat /\ Len(R) \in Nat
      /\ \A i \in 1 .. Len(A) : K[i] = A[i]
      /\ \A i \in 1 .. Len(R) : K[Len(A) + i] = R[i]
  BY <1>3, ItemSeqs, ConcatLaws
<1>5. Len(K) >= 2 => K[2].op # "sendString"
  <2> SUFFICES ASSUME Len(K) >= 2 PROVE K[2].op # "sendString"
    OBVIOUS
  <2>1. CASE Len(A) >= 2
    <3>1. 2 \in 1 .. Len(A) /\ K[2] = A[2]
      BY <1>4, <2>1
    <3> QED
      BY <1>2, <3>1 DEF Doing
  <2>2. CASE Len(A) < 2
    <3>1. PICK j \in 1 .. Len(R) : Len(A) + j = 2
      <4>1. 2 - Len(A) \in 1 .. Len(R) /\ Len(A) + (2 - Len(A)) = 2
        BY <1>4, <2>2
      <4> QED
        BY <4>1
    <3>2. K[2] = R[j] /\ R[j] \in RestItems
      BY <1>4, <3>1
    <3> QED
      BY <3>2, RestItemFacts
  <2> QED
    BY <1>4, <2>1, <2>2
<1>6. K # <<>>
  BY <1>3
<1>7. PICK T \in Seq(Items) : T = Tail(K) /\ Len(T) = Len(K) - 1
                              /\ \A i \in 1 .. Len(T) : T[i] = K[i + 1]
  <2>1. /\ Tail(K) \in Seq(Items) /\ Len(Tail(K)) = Len(K) - 1
        /\ \A i \in 1 .. Len(Tail(K)) : Tail(K)[i] = K[i + 1]
    BY <1>6, HeadTailProperties
  <2> QED
    BY <2>1, Zenon
<1>8. NoSend(T)
  <2>1. T # <<>> => 1 \in 1 .. Len(T) /\ Len(K) >= 2 /\ T[1] = K[1 + 1]
    BY <1>4, <1>7
  <2> QED
    BY <1>5, <2>1 DEF NoSend
<1>9. K[1] = Head(K)
  BY <1>6
<1> QED
  BY <1>1, <1>3, <1>7, <1>8, <1>9, Zenon

LEMMA ItemsQuiet ==
  ASSUME OneThread, StdioInv, NEW t \in Threads, k[t] # <<>>,
         NEW N, \A r \in N : r.op # "sendString", NEW ks \in Seq(N),
         \/ Becomes(t, ks)
         \/ k' = [k EXCEPT ![t] = ks \o @] /\ Head(k[t]).op # "sendString"
  PROVE  NoSend(k'[Here])
<1>1. PICK T : T = Items \cup N
  OBVIOUS
<1>2. PICK K \in Seq(T), B \in Seq(T) :
        K = k[t] /\ B = Tail(k[t]) /\ NoSend(B) /\ K # <<>> /\ K[1] = Head(k[t])
  <2>1. k[t] \in Seq(T) /\ Tail(k[t]) \in Seq(T)
    BY <1>1, TailQuiet
  <2> QED
    BY <2>1, TailQuiet, Zenon
<1>3. t = Here /\ k \in [Threads -> Seq(Items)]
  BY TailQuiet DEF StdioInv
<1>4. PICK q \in Seq(T) : q = ks
  BY <1>1
<1>5. PICK L \in Seq(T) : k'[Here] = q \o L /\ NoSend(L)
  <2>1. CASE Becomes(t, ks)
    BY <1>2, <1>3, <1>4, <2>1 DEF Becomes
  <2>2. CASE k' = [k EXCEPT ![t] = ks \o @] /\ Head(k[t]).op # "sendString"
    BY <1>2, <1>3, <1>4, <2>2 DEF NoSend
  <2> QED
    BY <2>1, <2>2
<1>6. CASE q = <<>>
  <2>1. <<>> \o L = L
    BY EmptyLaws
  <2> QED
    BY <1>5, <1>6, <2>1, Zenon
<1>7. CASE q # <<>>
  <2>1. (q \o L)[1] = q[1] /\ 1 \in 1 .. Len(q)
    BY <1>7, ConcatLaws
  <2>2. q[1] \in N
    BY <1>4, <2>1
  <2> QED
    BY <1>5, <2>1, <2>2 DEF NoSend
<1> QED
  BY <1>6, <1>7

LEMMA NoItemQuiet ==
  ASSUME OneThread, StdioInv, NEW t \in Threads, k[t] # <<>>, Becomes(t, <<>>)
  PROVE  NoSend(k'[Here])
<1>1. <<>> \in Seq({}) /\ \A r \in {} : r.op # "sendString"
  OBVIOUS
<1> QED
  BY <1>1, ItemsQuiet

LEMMA OneItemQuiet ==
  ASSUME OneThread, StdioInv, NEW t \in Threads, k[t] # <<>>,
         NEW r, r.op # "sendString", Becomes(t, <<r>>)
  PROVE  NoSend(k'[Here])
<1>1. <<r>> \in Seq({r}) /\ \A i \in {r} : i.op # "sendString"
  OBVIOUS
<1> QED
  BY <1>1, ItemsQuiet

LEMMA TwoItemsQuiet ==
  ASSUME OneThread, StdioInv, NEW t \in Threads, k[t] # <<>>,
         NEW r, r.op # "sendString", NEW q, q.op # "sendString", Becomes(t, <<r, q>>)
  PROVE  NoSend(k'[Here])
<1>1. <<r, q>> \in Seq({r, q}) /\ \A i \in {r, q} : i.op # "sendString"
  OBVIOUS
<1> QED
  BY <1>1, ItemsQuiet

LEMMA HaltQuiet ==
  ASSUME OneThread, StdioInv, NEW t \in Threads, k[t] # <<>>, Head(k[t]).op # "sendString",
         NEW code, Halts(t, code)
  PROVE  NoSend(k'[Here])
<1>1. <<halt>> \in Seq({halt}) /\ \A r \in {halt} : r.op # "sendString"
  BY DEF halt
<1>2. k' = [k EXCEPT ![t] = <<halt>> \o @]
  BY DEF Halts, halt
<1> QED
  BY <1>1, <1>2, ItemsQuiet

-----------------------------------------------------------------------------
(* The mapped state, and steps that do not change it.                      *)

Files == [x \in Streams |-> IF Open(x) THEN Contents(x) ELSE os[uri[x]]]
Inputs == [x \in DOMAIN files |-> Upcoming(x)]
Positions == [x \in DOMAIN files |-> files[x].pos]
Seen == <<Files, Inputs, Positions, result>>

LEMMA Unnoticed ==
  ASSUME Shown, Shown', DOMAIN files' = DOMAIN files, result' = result,
         \A x \in Streams : x \in DOMAIN files \/ os'[uri[x]] = os[uri[x]],
         \A x \in DOMAIN files : /\ Held(x)' = Held(x) /\ Coming(x)' = Coming(x)
                                 /\ files'[x].pos = files[x].pos
  PROVE  UNCHANGED Seen
<1>1. \A x \in DOMAIN files :
        Contents(x)' = Contents(x) /\ Upcoming(x)' = Upcoming(x)
  BY DEF Shown
<1>2. Files' = Files
  BY <1>1 DEF Files, Open
<1>3. Inputs' = Inputs
  BY <1>1 DEF Inputs
<1>4. Positions' = Positions
  BY DEF Positions
<1> QED
  BY <1>2, <1>3, <1>4 DEF Seen

(* The same characters wait, and are ahead.                                *)
SameView(x) ==
  /\ Waiting(x)' = Waiting(x)
  /\ os'[uri[x]] = os[uri[x]] /\ offset'[x] = offset[x]
  /\ files'[x].readBuffer = files[x].readBuffer /\ Byte(files'[x]) = Byte(files[x])
  /\ files'[x].pos = files[x].pos

LEMMA ViewKept ==
  ASSUME NEW x, SameView(x)
  PROVE  Held(x)' = Held(x) /\ Coming(x)' = Coming(x) /\ files'[x].pos = files[x].pos
<1>1. Held(x)' = Held(x)
  BY DEF SameView, Held
<1> QED
  BY <1>1 DEF SameView, Coming

(* The cell g holds the same characters as f.                              *)
Alike(f, g) ==
  /\ g.writeBuffer = f.writeBuffer /\ g.readBuffer = f.readBuffer
  /\ g.nextByte = f.nextByte /\ g.pos = f.pos

LEMMA QuietStep ==
  ASSUME OneThread, StdioInv, StdioInv', NoSend(k[Here]), NoSend(k'[Here]),
         UNCHANGED <<os, offset, result>>, DOMAIN files' = DOMAIN files,
         \A x \in DOMAIN files : Alike(files[x], files'[x])
  PROVE  UNCHANGED Seen
<1>1. Shown /\ Shown'
  BY ShownIs, ShownNext
<1>2. ASSUME NEW x \in DOMAIN files PROVE SameView(x)
  <2>1. Sends(k[Here], x) = <<>> /\ Sends(k'[Here], x) = <<>>
    BY NothingSent
  <2>2. Waiting(x)' = Waiting(x)
    BY <2>1 DEF Waiting, Alike
  <2> QED
    BY <2>2 DEF SameView, Alike, Byte
<1> QED
  BY <1>1, <1>2, ViewKept, Unnoticed

(* One cell is changed to g, with the same characters.                     *)
LEMMA AlikeCells ==
  ASSUME NEW x, NEW g, files' = [files EXCEPT ![x] = g], Alike(files[x], g)
  PROVE  DOMAIN files' = DOMAIN files /\ \A y \in DOMAIN files : Alike(files[y], files'[y])
<1>1. \A y \in DOMAIN files : files'[y] = IF y = x THEN g ELSE files[y]
  OBVIOUS
<1> QED
  BY <1>1 DEF Alike

LEMMA SameFiles ==
  ASSUME files' = files
  PROVE  DOMAIN files' = DOMAIN files /\ \A y \in DOMAIN files : Alike(files[y], files'[y])
BY DEF Alike

LEMMA HeadQuiet ==
  ASSUME OneThread, StdioInv, NEW t \in Threads, k[t] # <<>>, Head(k[t]).op # "sendString"
  PROVE  NoSend(k[Here]) /\ t = Here
BY TailQuiet DEF NoSend

(* A record of the cells' fields.                                          *)
LEMMA CellRecord ==
  ASSUME StdioInv, NEW x \in DOMAIN files
  PROVE  files[x] \in FileCell
BY DEF StdioInv, Doing, CellOK, GoodCell

LEMMA QuietFputs ==
  ASSUME OneThread, StdioInv, StdioInv', NEW t \in Threads, Fputs(t) \/ Fread(t)
  PROVE  UNCHANGED Seen
<1>1. /\ UNCHANGED <<os, offset, result>>
      /\ k[t] # <<>> /\ Head(k[t]).op # "sendString"
  BY DEF Fputs, Fread, AtHead
<1>2. PICK x, w, r, all : /\ x = Fd(t) /\ w = callWith("writeFD", x, Head(k[t]).arg)
                          /\ r = callWith("readFD", x, Head(k[t]).arg)
                          /\ all = call("flushAll", x)
  OBVIOUS
<1>3. w.op # "sendString" /\ r.op # "sendString" /\ all.op # "sendString"
  BY <1>2 DEF call, callWith
<1>4. \/ /\ Becomes(t, <<w>>) \/ Becomes(t, <<r>>) \/ Becomes(t, <<all, r>>)
         /\ files' = files
      \/ Becomes(t, <<>>) /\ files' = [files EXCEPT ![x].ferror = TRUE]
  BY <1>2 DEF Fputs, Fread
<1>5. NoSend(k'[Here]) /\ NoSend(k[Here])
  BY <1>1, <1>3, <1>4, OneItemQuiet, TwoItemsQuiet, NoItemQuiet, HeadQuiet
<1>6. DOMAIN files' = DOMAIN files /\ \A y \in DOMAIN files : Alike(files[y], files'[y])
  <2>1. CASE files' = files
    BY <2>1, SameFiles
  <2>2. CASE files' = [files EXCEPT ![x].ferror = TRUE]
    <3>1. PICK g : g = [files[x] EXCEPT !.ferror = TRUE]
      OBVIOUS
    <3>2. files' = [files EXCEPT ![x] = g]
      BY <2>2, <3>1
    <3>3. CASE x \in DOMAIN files
      <4>1. Alike(files[x], g)
        BY <3>1, <3>3, CellRecord DEF FileCell, Alike
      <4> QED
        BY <3>2, <4>1, AlikeCells
    <3>4. CASE x \notin DOMAIN files
      BY <3>2, <3>4 DEF Alike
    <3> QED
      BY <3>3, <3>4
  <2> QED
    BY <1>4, <2>1, <2>2
<1> QED
  BY <1>1, <1>5, <1>6, QuietStep

LEMMA QuietSent ==
  ASSUME OneThread, StdioInv, StdioInv', NEW t \in Threads, Sent(t)
  PROVE  UNCHANGED Seen
<1>1. /\ UNCHANGED <<os, offset, result>> /\ Becomes(t, <<>>)
      /\ k[t] # <<>> /\ Head(k[t]).op # "sendString" /\ Fd(t) \in DOMAIN files
  BY DEF Sent, AtHead, Open
<1>2. PICK x, f, p, q : /\ x = Fd(t) /\ f = files[Fd(t)]
                        /\ p = Tail(f.sending) /\ q = f.done \o Head(k[t]).arg
  OBVIOUS
<1>3. PICK g : g = [f EXCEPT !.sending = p, !.done = q]
  OBVIOUS
<1>4. files' = [files EXCEPT ![x] = g]
  BY <1>2, <1>3 DEF Sent
<1>5. Alike(files[x], g)
  BY <1>1, <1>2, <1>3, CellRecord DEF FileCell, Alike
<1>6. NoSend(k'[Here]) /\ NoSend(k[Here])
  BY <1>1, NoItemQuiet, HeadQuiet
<1> QED
  BY <1>1, <1>4, <1>5, <1>6, AlikeCells, QuietStep

LEMMA QuietFlushAll ==
  ASSUME OneThread, StdioInv, StdioInv', NEW t \in Threads, FlushAll(t)
  PROVE  UNCHANGED Seen
<1>1. /\ UNCHANGED <<os, offset, result>> /\ files' = files
      /\ k[t] # <<>> /\ Head(k[t]).op # "sendString"
  BY DEF FlushAll, AtHead
<1>2. PICK order \in SetToSeqs(DOMAIN files) :
        Becomes(t, [i \in DOMAIN order |-> call("flush", order[i])])
  BY DEF FlushAll
<1>3. PICK F \in Seq(FlushItems) : AllFlush(F) /\ Becomes(t, F)
  BY <1>2, AllFlushed DEF StdioInv
<1>4. PICK N : N = {r \in FlushItems : r.op = "flush"}
  OBVIOUS
<1>5. F \in Seq(N)
  <2>1. \A i \in 1 .. Len(F) : F[i] \in N
    BY <1>3, <1>4 DEF AllFlush
  <2> QED
    BY <2>1
<1>6. NoSend(k'[Here]) /\ NoSend(k[Here])
  BY <1>1, <1>3, <1>4, <1>5, ItemsQuiet, HeadQuiet
<1> QED
  BY <1>1, <1>6, SameFiles, QuietStep

LEMMA QuietFflush ==
  ASSUME OneThread, StdioInv, StdioInv', NEW t \in Threads, Fflush(t)
  PROVE  UNCHANGED Seen
<1>1. /\ UNCHANGED <<os, offset, result>>
      /\ k[t] # <<>> /\ Head(k[t]).op # "sendString"
  BY DEF Fflush, AtHead
<1>2. PICK x, g, r : /\ x = Fd(t) /\ g = [files[x] EXCEPT !.lastOp = "flushOp"]
                     /\ r = call("flush", x)
  OBVIOUS
<1>3. \/ files' = [files EXCEPT ![x] = g] /\ Becomes(t, <<r>>)
      \/ files' = files /\ Halts(t, "STDIO7")
  BY <1>2 DEF Fflush, FflushDone
<1>4. NoSend(k'[Here]) /\ NoSend(k[Here])
  <2>1. r.op # "sendString"
    BY <1>2 DEF call
  <2> QED
    BY <1>1, <1>3, <2>1, OneItemQuiet, HaltQuiet, HeadQuiet
<1>5. DOMAIN files' = DOMAIN files /\ \A y \in DOMAIN files : Alike(files[y], files'[y])
  <2>1. CASE files' = [files EXCEPT ![x] = g] /\ x \in DOMAIN files
    <3>1. Alike(files[x], g)
      BY <1>2, <2>1, CellRecord DEF FileCell, Alike
    <3> QED
      BY <2>1, <3>1, AlikeCells
  <2>2. CASE files' = [files EXCEPT ![x] = g] /\ x \notin DOMAIN files
    BY <2>2 DEF Alike
  <2>3. CASE files' = files
    BY <2>3, SameFiles
  <2> QED
    BY <1>3, <2>1, <2>2, <2>3
<1> QED
  BY <1>1, <1>4, <1>5, QuietStep

LEMMA QuietAdjust ==
  ASSUME OneThread, StdioInv, StdioInv', NEW t \in Threads, Clearerr(t) \/ Setvbuf(t)
  PROVE  UNCHANGED Seen
<1>1. /\ UNCHANGED <<os, offset, result>> /\ Becomes(t, <<>>)
      /\ k[t] # <<>> /\ Head(k[t]).op # "sendString"
  BY DEF Clearerr, Setvbuf, AtHead
<1>2. PICK x, g : /\ x = Fd(t) /\ files' = [files EXCEPT ![x] = g]
                  /\ \/ g = [files[x] EXCEPT !.ferror = FALSE, !.feof = FALSE]
                     \/ g = [files[x] EXCEPT !.bufMode = Head(k[t]).arg, !.bufSize = Head(k[t]).size]
  BY DEF Clearerr, Setvbuf
<1>3. NoSend(k'[Here]) /\ NoSend(k[Here])
  BY <1>1, NoItemQuiet, HeadQuiet
<1>4. DOMAIN files' = DOMAIN files /\ \A y \in DOMAIN files : Alike(files[y], files'[y])
  <2>1. CASE x \in DOMAIN files
    <3>1. Alike(files[x], g)
      BY <1>2, <2>1, CellRecord DEF FileCell, Alike
    <3> QED
      BY <1>2, <3>1, AlikeCells
  <2>2. CASE x \notin DOMAIN files
    BY <1>2, <2>2 DEF Alike
  <2> QED
    BY <2>1, <2>2
<1> QED
  BY <1>1, <1>3, <1>4, QuietStep

LEMMA QuietFseek ==
  ASSUME OneThread, StdioInv, StdioInv', NEW t \in Threads, Fseek(t)
  PROVE  UNCHANGED Seen
<1>1. /\ UNCHANGED <<os, offset, result>> /\ files' = files
      /\ k[t] # <<>> /\ Head(k[t]).op # "sendString"
  BY DEF Fseek
<1>2. PICK s, w : /\ s = Head(k[t])
                  /\ w = CASE s.op = "fseekCur" -> <<"cur", s.arg>>
                           [] s.op = "fseekEnd" -> <<"end", 0>>
                           [] s.op = "rewind"   -> <<"set", 0>>
  OBVIOUS
<1>3. PICK a, b, c : /\ a = call("flush", s.fd) /\ b = callWith("seek", s.fd, w)
                     /\ c = call("clearerr", s.fd)
  OBVIOUS
<1>4. PICK N : N = {a, b, c}
  OBVIOUS
<1>5. \A r \in N : r.op # "sendString"
  BY <1>3, <1>4 DEF call, callWith
<1>6. PICK ks : ks = <<a>> \o <<b>> \o (IF s.op = "rewind" THEN <<c>> ELSE <<>>)
  OBVIOUS
<1>7. Becomes(t, SeekFlush(s.fd) \o <<callWith("seek", s.fd, w)>>
                   \o (IF s.op = "rewind" THEN <<call("clearerr", s.fd)>> ELSE <<>>))
  BY <1>2, ZenonT(60) DEF Fseek
<1>8. Becomes(t, ks)
  BY <1>3, <1>6, <1>7 DEF SeekFlush
<1>9. <<a>> \in Seq(N) /\ <<b>> \in Seq(N) /\ <<c>> \in Seq(N) /\ <<>> \in Seq(N)
  BY <1>4
<1>10. <<a>> \o <<b>> \in Seq(N)
  BY <1>9, ConcatLaws
<1>11. ks \in Seq(N)
  BY <1>6, <1>9, <1>10, ConcatLaws
<1>12. NoSend(k'[Here]) /\ NoSend(k[Here])
  BY <1>1, <1>5, <1>8, <1>11, ItemsQuiet, HeadQuiet
<1> QED
  BY <1>1, <1>12, SameFiles, QuietStep

LEMMA QuietFclose ==
  ASSUME OneThread, StdioInv, StdioInv', NEW t \in Threads, Fclose(t) \/ FopenFails(t) \/ End(t)
  PROVE  UNCHANGED Seen
<1>1. /\ UNCHANGED <<os, offset, result>> /\ files' = files
      /\ k[t] # <<>> /\ Head(k[t]).op # "sendString"
  BY DEF Fclose, FopenFails, End, AtHead
<1>2. PICK a, b : a = call("flush", Fd(t)) /\ b = call("close", Fd(t))
  OBVIOUS
<1>3. Becomes(t, <<a, b>>) \/ Becomes(t, <<>>)
  BY <1>2 DEF Fclose, fclose, FopenFails, End
<1>4. a.op # "sendString" /\ b.op # "sendString"
  BY <1>2 DEF call
<1>5. NoSend(k'[Here]) /\ NoSend(k[Here])
  BY <1>1, <1>3, <1>4, TwoItemsQuiet, NoItemQuiet, HeadQuiet
<1> QED
  BY <1>1, <1>5, SameFiles, QuietStep

LEMMA QuietExit ==
  ASSUME OneThread, StdioInv, StdioInv', NEW t \in Threads, Exit(t) \/ Abort(t)
  PROVE  UNCHANGED Seen
<1>1. /\ UNCHANGED <<os, offset, result>> /\ files' = files
      /\ k[t] # <<>> /\ Head(k[t]).op # "sendString"
  BY DEF Exit, Abort, AtHead
<1>2. PICK a, b, c : /\ a = callWith("writeFD", stdout, <<nl>>) /\ b = call("flush", stdout)
                     /\ c = [op |-> "end"]
  OBVIOUS
<1>3. a.op # "sendString" /\ b.op # "sendString"
  BY <1>2 DEF call, callWith
<1>4. k' = [k EXCEPT ![t] = <<b>> \o <<c>>] \/ k' = [k EXCEPT ![t] = <<a, b, c>>]
  BY <1>2 DEF Exit, Abort, AtExit
<1>5. NoSend(k[Here]) /\ t = Here /\ k \in [Threads -> Seq(Items)]
  BY <1>1, HeadQuiet DEF StdioInv
<1>6. k'[Here] = <<b>> \o <<c>> \/ k'[Here] = <<a, b, c>>
  BY <1>4, <1>5
<1>7. (<<b>> \o <<c>>)[1] = b /\ <<a, b, c>>[1] = a
  OBVIOUS
<1>8. NoSend(k'[Here])
  BY <1>3, <1>6, <1>7 DEF NoSend
<1> QED
  BY <1>1, <1>5, <1>8, SameFiles, QuietStep

LEMMA QuietCall ==
  ASSUME OneThread, StdioInv, StdioInv', NEW t \in Threads, NEW s \in Statements, Call(t, s)
  PROVE  UNCHANGED Seen
<1>1. /\ UNCHANGED <<os, offset, result>> /\ files' = files
      /\ k[t] = <<>> /\ k' = [k EXCEPT ![t] = <<s>>]
  BY DEF Call
<1>2. t = Here /\ k \in [Threads -> Seq(Items)]
  BY Alone DEF StdioInv
<1>3. s.op # "sendString"
  BY StatementFacts DEF StatementOps
<1>4. NoSend(k[Here]) /\ NoSend(k'[Here])
  <2>1. k'[Here] = <<s>> /\ <<s>>[1] = s
    BY <1>1, <1>2
  <2> QED
    BY <1>1, <1>2, <1>3, <2>1 DEF NoSend
<1> QED
  BY <1>1, <1>4, SameFiles, QuietStep

(* Nothing happens at all.                                                 *)
LEMMA QuietStutter ==
  ASSUME OneThread, StdioInv, StdioInv', UNCHANGED vars
  PROVE  UNCHANGED Seen
<1>1. UNCHANGED <<k, files, os, offset, result>>
  BY DEF vars
<1>2. Shown /\ Shown'
  BY ShownIs, ShownNext
<1>3. \A x \in DOMAIN files : SameView(x)
  BY <1>1 DEF SameView, Waiting
<1> QED
  BY <1>1, <1>2, <1>3, ViewKept, Unnoticed

-----------------------------------------------------------------------------
(* A flush: the characters move from <write-buffer> to the file.           *)

LEMMA Replaces ==
  ASSUME OneThread, StdioInv, NEW t \in Threads, k[t] # <<>>, NEW r, NEW q,
         Becomes(t, <<r>>) \/ Becomes(t, <<r, q>>)
  PROVE  k'[Here] # <<>> /\ k'[Here][1] = r
<1>1. PICK T : T = Items \cup {r, q}
  OBVIOUS
<1>2. PICK B \in Seq(T) : B = Tail(k[t])
  <2>1. Tail(k[t]) \in Seq(Items)
    BY TailQuiet
  <2>2. Tail(k[t]) \in Seq(T)
    BY <1>1, <2>1
  <2> QED
    BY <2>2, Zenon
<1>3. t = Here /\ k \in [Threads -> Seq(Items)]
  BY TailQuiet DEF StdioInv
<1>4. PICK p \in Seq(T) : p[1] = r /\ Len(p) >= 1 /\ k'[Here] = p \o B
  <2>1. <<r>> \in Seq(T) /\ <<r, q>> \in Seq(T)
    BY <1>1
  <2>2. <<r>>[1] = r /\ Len(<<r>>) >= 1 /\ <<r, q>>[1] = r /\ Len(<<r, q>>) >= 1
    OBVIOUS
  <2>3. k'[Here] = <<r>> \o B \/ k'[Here] = <<r, q>> \o B
    BY <1>2, <1>3 DEF Becomes
  <2> QED
    BY <2>1, <2>2, <2>3
<1>5. p \o B \in Seq(T) /\ Len(p \o B) >= 1 /\ (p \o B)[1] = p[1]
  BY <1>4, ConcatLaws
<1> QED
  BY <1>4, <1>5

LEMMA QuietFlush ==
  ASSUME OneThread, StdioInv, StdioInv', NEW t \in Threads, Flush(t)
  PROVE  UNCHANGED Seen
<1>1. /\ UNCHANGED <<os, offset, result>>
      /\ k[t] # <<>> /\ Head(k[t]).op = "flush"
  BY DEF Flush, AtHead
<1>2. NoSend(k[Here])
  BY <1>1, HeadQuiet
<1>3. CASE Becomes(t, <<>>) /\ UNCHANGED files
  BY <1>1, <1>2, <1>3, NoItemQuiet, SameFiles, QuietStep
<1>4. CASE Open(Fd(t))
  <2>1. PICK x \in DOMAIN files : x = Fd(t)
    BY <1>4 DEF Open
  <2>2. PICK f \in FileCell, s \in Texts : f = files[x] /\ s = f.writeBuffer
    <3>1. files[x] \in FileCell
      BY CellRecord
    <3> QED
      BY <3>1 DEF FileCell
  <2>3. PICK a, b : a = callWith("sendString", x, s) /\ b = callWith("sent", x, s)
    OBVIOUS
  <2>4. files' = [files EXCEPT ![x] = moveToSending(f)] /\ Becomes(t, <<a, b>>)
    BY <1>4, <2>1, <2>2, <2>3 DEF Flush
  <2>5. PICK q : q = Append(f.sending, s)
    OBVIOUS
  <2>6. PICK g : g = [f EXCEPT !.writeBuffer = <<>>, !.sending = q]
    OBVIOUS
  <2>7. files' = [files EXCEPT ![x] = g]
    BY <2>2, <2>4, <2>5, <2>6 DEF moveToSending
  <2>8. /\ g.writeBuffer = <<>> /\ g.readBuffer = f.readBuffer
        /\ g.nextByte = f.nextByte /\ g.pos = f.pos
    BY <2>6 DEF FileCell
  <2>9. k'[Here] # <<>> /\ k'[Here][1] = a
    BY <1>1, <2>4, Replaces
  <2>10. Sends(k'[Here], x) = s /\ \A y : y # x => Sends(k'[Here], y) = <<>>
    BY <2>3, <2>9 DEF Sends, callWith
  <2>11. \A y : Sends(k[Here], y) = <<>>
    BY <1>2, NothingSent
  <2>12. DOMAIN files' = DOMAIN files /\ files'[x] = g
         /\ \A y \in DOMAIN files : y # x => files'[y] = files[y]
    BY <2>7
  <2>13. ASSUME NEW y \in DOMAIN files PROVE SameView(y)
    <3>1. CASE y = x
      <4>1. Waiting(x) = <<>> \o s /\ Waiting(x)' = s \o <<>>
        BY <2>2, <2>8, <2>10, <2>11, <2>12 DEF Waiting
      <4>2. Waiting(x)' = Waiting(x)
        BY <4>1, TextLaws
      <4> QED
        BY <1>1, <2>2, <2>8, <2>12, <3>1, <4>2 DEF SameView, Byte
    <3>2. CASE y # x
      BY <1>1, <2>10, <2>11, <2>12, <3>2 DEF SameView, Waiting
    <3> QED
      BY <3>1, <3>2
  <2> QED
    BY <1>1, <2>12, <2>13, ShownIs, ShownNext, ViewKept, Unnoticed
<1> QED
  BY <1>3, <1>4 DEF Flush

LEMMA QuietSend ==
  ASSUME OneThread, StdioInv, StdioInv', NEW t \in Threads, SendString(t)
  PROVE  UNCHANGED Seen
<1>1. /\ files' = files /\ result' = result
      /\ k[t] # <<>> /\ Head(k[t]).op = "sendString"
  BY DEF SendString, AtHead
<1>2. PICK A \in Seq(FlushItems), R \in Seq(RestItems) :
        t = Here /\ Doing(A, R) /\ A # <<>> /\ Head(k[t]) = A[1]
  BY <1>1, AtA DEF FlushOps
<1>3. PICK x \in DOMAIN files, s \in Texts :
        x = Fd(t) /\ s = Head(k[t]).arg /\ x = A[1].fd /\ s = A[1].arg
  <2>1. A[1] \in FlushItems /\ 1 \in 1 .. Len(A)
    BY <1>2
  <2>2. A[1].arg \in Texts
    BY <1>1, <1>2, <2>1, FlushItemFacts
  <2>3. A[1].fd \in DOMAIN files
    BY <1>1, <1>2, <2>1 DEF Doing, Open
  <2> QED
    BY <1>2, <2>2, <2>3 DEF Fd
<1>4. k[Here] # <<>> /\ k[Here][1] = A[1]
  BY <1>1, <1>2, TailQuiet
<1>5. Sends(k[Here], x) = s /\ \A y : y # x => Sends(k[Here], y) = <<>>
  BY <1>1, <1>2, <1>3, <1>4 DEF Sends
<1>6. CellOK(x, A, R)
  BY <1>2 DEF Doing
<1>7. PICK file \in Texts, o \in Nat, w \in Texts :
        file = os[uri[x]] /\ o = offset[x] /\ o <= Len(file) /\ w = files[x].writeBuffer
  BY <1>6, CellFacts
<1>8. x \in Streams /\ Openable(DOMAIN files) /\ uri[x] \in URIs
  BY <1>6, CellFacts DEF StdioInv
<1>9. CASE s = <<>>
  <2>1. Becomes(t, <<>>) /\ UNCHANGED <<os, offset>>
    BY <1>3, <1>9 DEF SendString
  <2>2. \A y : Sends(k[Here], y) = <<>> /\ Sends(k'[Here], y) = <<>>
    BY <1>1, <1>5, <1>9, <2>1, NoItemQuiet, NothingSent
  <2>3. \A y \in DOMAIN files : SameView(y)
    BY <1>1, <2>1, <2>2 DEF SameView, Waiting
  <2> QED
    BY <1>1, <2>1, <2>3, ShownIs, ShownNext, ViewKept, Unnoticed
<1>10. CASE s # <<>>
  <2>1. PICK c, r : c = Head(s) /\ r = Tail(s)
    OBVIOUS
  <2>2. c \in Chars /\ r \in Texts /\ <<c>> \in Texts /\ Len(<<c>>) = 1 /\ s = <<c>> \o r
    <3>1. s \in Seq(Chars)
      BY DEF Texts
    <3>2. Head(s) \in Chars /\ Tail(s) \in Seq(Chars) /\ s = <<Head(s)>> \o Tail(s)
      BY <1>10, <3>1
    <3> QED
      BY <2>1, <3>2 DEF Texts
  <2>3. PICK a : a = callWith("sendString", x, r)
    OBVIOUS
  <2>4. /\ os' = [os EXCEPT ![uri[x]] = Overwrite(@, offset[x], <<c>>)]
        /\ offset' = [offset EXCEPT ![x] = @ + 1]
        /\ Becomes(t, <<a>>)
    BY <1>3, <1>10, <2>1, <2>3 DEF SendString
  <2>5. k'[Here] # <<>> /\ k'[Here][1] = a
    BY <1>1, <2>4, Replaces
  <2>6. Sends(k'[Here], x) = r /\ \A y : y # x => Sends(k'[Here], y) = <<>>
    BY <2>3, <2>5 DEF Sends, callWith
  <2>7. os \in [URIs -> Texts] /\ offset \in [Streams -> Nat]
    BY DEF StdioInv, OsOK
  <2>8. PICK h : h = Overwrite(file, o, <<c>>)
    OBVIOUS
  <2>9. /\ os'[uri[x]] = h /\ offset'[x] = o + 1
        /\ \A y \in Streams : y # x => os'[uri[y]] = os[uri[y]] /\ offset'[y] = offset[y]
    <3>1. \A y \in Streams : y # x => uri[y] # uri[x] /\ uri[y] \in URIs
      BY <1>8, StdioAssumption DEF URIs
    <3> QED
      BY <1>7, <1>8, <2>4, <2>7, <2>8, <3>1
  <2>10. PICK v \in Texts : v = r \o w /\ Len(v) \in Nat
    BY <2>2, TextLaws
  <2>11. Waiting(x)' = v
    BY <1>1, <1>7, <2>6, <2>10 DEF Waiting
  <2>12. Waiting(x) = <<c>> \o v
    <3>1. Waiting(x) = (<<c>> \o r) \o w
      BY <1>5, <1>7, <2>2, Zenon DEF Waiting
    <3>2. Regroups(<<c>>, r, w)
      BY <2>2, TextLaws
    <3> QED
      BY <2>10, <3>1, <3>2, Zenon DEF Regroups
  <2>13. Overwrite(h, o + 1, v) = Overwrite(file, o, <<c>> \o v)
    <3>1. Overwrite(Overwrite(file, o, <<c>>), o + Len(<<c>>), v) = Overwrite(file, o, <<c>> \o v)
      <4>1. PICK d \in Texts : d = <<c>>
        BY <2>2
      <4>2. Overwrite(Overwrite(file, o, d), o + Len(d), v) = Overwrite(file, o, d \o v)
        BY <1>7, OverwriteTwice
      <4> QED
        BY <4>1, <4>2, Zenon
    <3> QED
      BY <2>2, <2>8, <3>1, Zenon
  <2>14. Held(x)' = Held(x)
    BY <1>7, <2>9, <2>11, <2>12, <2>13, Zenon DEF Held
  <2>15. offset'[x] + Len(Waiting(x)') = offset[x] + Len(Waiting(x))
    <3>1. Len(<<c>> \o v) = 1 + Len(v)
      BY <2>2, TextLaws
    <3>2. o + 1 + Len(v) = o + (1 + Len(v))
      BY <2>10
    <3> QED
      BY <1>7, <2>9, <2>11, <2>12, <3>1, <3>2, Zenon
  <2>16. Coming(x)' = Coming(x)
    BY <1>1, <2>14, <2>15, Zenon DEF Coming
  <2>17. ASSUME NEW y \in DOMAIN files, y # x PROVE SameView(y)
    <3>1. Sends(k[Here], y) = <<>> /\ Sends(k'[Here], y) = <<>>
      BY <1>5, <2>6, <2>17
    <3>2. Waiting(y)' = Waiting(y)
      BY <1>1, <3>1 DEF Waiting
    <3>3. os'[uri[y]] = os[uri[y]] /\ offset'[y] = offset[y]
      BY <1>8, <2>9, <2>17 DEF Openable
    <3> QED
      BY <1>1, <3>2, <3>3 DEF SameView
  <2>18. \A y \in DOMAIN files :
           Held(y)' = Held(y) /\ Coming(y)' = Coming(y) /\ files'[y].pos = files[y].pos
    BY <1>1, <2>14, <2>16, <2>17, ViewKept
  <2> QED
    BY <1>1, <2>9, <2>18, ShownIs, ShownNext, Unnoticed
<1> QED
  BY <1>9, <1>10

-----------------------------------------------------------------------------
(* Filling the read buffer: characters move from the file to the buffer.   *)

Disciplined == \A p \in Programs : p.disciplined

(* Where a program reads, nothing waits to be sent.                        *)
LEMMA NothingWaits ==
  ASSUME OneThread, Disciplined, StdioInv, NEW x \in DOMAIN files, NEW R,
         k[Here] = R, Doing(<<>>, R), R # <<>>, R[1].op # "sendString",
         files[x].writeBuffer # <<>> => files[x].lastOp # "outputOp"
  PROVE  /\ Waiting(x) = <<>> /\ files[x].writeBuffer = <<>>
         /\ Held(x) = os[uri[x]]
         /\ Coming(x) = files[x].readBuffer \o Byte(files[x]) \o After(os[uri[x]], offset[x])
<1>1. CellOK(x, <<>>, R)
  BY DEF Doing
<1>2. files[x].writeBuffer = <<>>
  BY <1>1 DEF CellOK, GoodCell, InFlush
<1>3. Sends(k[Here], x) = <<>>
  BY DEF Sends
<1>4. Waiting(x) = <<>> /\ Len(Waiting(x)) = 0
  BY <1>2, <1>3, TextLaws DEF Waiting
<1>5. PICK file \in Texts, o \in Nat : file = os[uri[x]] /\ o = offset[x] /\ o <= Len(file)
  BY <1>1, CellFacts
<1>6. Held(x) = file
  BY <1>4, <1>5, OverwriteNone DEF Held
<1>7. offset[x] + Len(Waiting(x)) = o
  BY <1>4, <1>5
<1> QED
  BY <1>2, <1>4, <1>5, <1>6, <1>7, Zenon DEF Coming

LEMMA MayReadHere ==
  ASSUME Disciplined, StdioInv, NEW x, MayRead(x)
  PROVE  files[x].lastOp # "outputOp" /\ ~files[x].ferror
BY DEF Disciplined, StdioInv, MayRead

LEMMA ByteType ==
  ASSUME NEW f \in FileCell
  PROVE  Byte(f) \in Texts /\ f.readBuffer \in Texts /\ (Ahead(f) = 0 => Byte(f) = <<>>)
<1>1. f.nextByte \in NextBytes /\ f.readBuffer \in Texts
  BY DEF FileCell
<1>2. <<>> \in Texts /\ \A c \in Chars : <<c>> \in Texts
  BY DEF Texts
<1>3. Byte(f) \in Texts
  BY <1>1, <1>2 DEF NextBytes, Byte
<1>4. Ahead(f) = 0 => Byte(f) = <<>>
  BY DEF Ahead, Byte
<1> QED
  BY <1>1, <1>3, <1>4

(* What is seen of x after the step, if nothing waits.                     *)
LEMMA ViewEmpty ==
  ASSUME NEW x, Sends(k'[Here], x) = <<>>, files'[x].writeBuffer = <<>>,
         NEW file \in Texts, file = os'[uri[x]], NEW p \in Nat, p = offset'[x], p <= Len(file)
  PROVE  /\ Held(x)' = file
         /\ Coming(x)' = files'[x].readBuffer \o Byte(files'[x]) \o After(file, p)
<1>1. Waiting(x)' = <<>> /\ Len(<<>>) = 0
  BY TextLaws DEF Waiting
<1>2. Held(x)' = file
  BY <1>1, OverwriteNone DEF Held
<1>3. offset'[x] + Len(Waiting(x)') = p
  BY <1>1
<1> QED
  BY <1>2, <1>3, Zenon DEF Coming

(* The other streams.                                                      *)
LEMMA OthersKept ==
  ASSUME OneThread, StdioInv, StdioInv', NoSend(k[Here]), NoSend(k'[Here]),
         NEW x, NEW y \in DOMAIN files, y # x, files'[y] = files[y],
         offset'[y] = offset[y], os'[uri[y]] = os[uri[y]]
  PROVE  Held(y)' = Held(y) /\ Coming(y)' = Coming(y) /\ files'[y].pos = files[y].pos
<1>1. Sends(k[Here], y) = <<>> /\ Sends(k'[Here], y) = <<>>
  BY NothingSent
<1>2. Waiting(y)' = Waiting(y)
  BY <1>1 DEF Waiting
<1>3. SameView(y)
  BY <1>2 DEF SameView
<1> QED
  BY <1>3, ViewKept

(* A thread that fills the buffer of x.                                    *)
Filling(t, x, f, file, o) ==
  /\ x = Fd(t) /\ f = files[x] /\ file = os[uri[x]] /\ o = offset[x] /\ o <= Len(file)
  /\ f.writeBuffer = <<>> /\ Held(x) = file
  /\ Coming(x) = f.readBuffer \o Byte(f) \o After(file, o)
  /\ NoSend(k[Here]) /\ t = Here /\ NoSend(Tail(k[t]))

LEMMA AtFilling ==
  ASSUME OneThread, Disciplined, StdioInv, NEW t \in Threads, AtHead(t, "fillBuffer")
  PROVE  \E x \in DOMAIN files, f \in FileCell, file \in Texts, o \in Nat :
           Filling(t, x, f, file, o)
<1>1. PICK x \in DOMAIN files, n \in 1 .. MaxString, R \in Seq(RestItems) :
        /\ R = <<call("fillBuffer", x), callWith("readFD", x, n)>> /\ Fd(t) = x
        /\ t = Here /\ k[t] = R /\ Doing(<<>>, R) /\ MayRead(x) /\ CellOK(x, <<>>, R)
  BY AtFill
<1>2. PICK f \in FileCell, o \in Nat, file \in Texts :
        /\ f = files[x] /\ o = offset[x] /\ file = os[uri[x]] /\ o <= Len(file)
  BY <1>1, CellFacts
<1>3. R # <<>> /\ R[1] = call("fillBuffer", x) /\ R[1].op # "sendString"
  BY <1>1 DEF call
<1>4. files[x].lastOp # "outputOp"
  BY <1>1, MayReadHere
<1>5. /\ f.writeBuffer = <<>> /\ Held(x) = file
      /\ Coming(x) = f.readBuffer \o Byte(f) \o After(file, o)
  <2>1. k[Here] = R
    BY <1>1
  <2>2. /\ files[x].writeBuffer = <<>> /\ Held(x) = os[uri[x]]
        /\ Coming(x) = files[x].readBuffer \o Byte(files[x]) \o After(os[uri[x]], offset[x])
    BY <1>1, <1>3, <1>4, <2>1, NothingWaits
  <2> QED
    BY <1>2, <2>2, Zenon
<1>6. NoSend(k[Here]) /\ NoSend(Tail(k[t]))
  BY <1>1, <1>3, TailQuiet DEF NoSend
<1> QED
  BY <1>1, <1>2, <1>5, <1>6 DEF Filling

LEMMA QuietGetc ==
  ASSUME OneThread, Disciplined, StdioInv, StdioInv', NEW t \in Threads, Getc(t)
  PROVE  UNCHANGED Seen
<1>1. PICK x \in DOMAIN files, f \in FileCell, file \in Texts, o \in Nat :
        Filling(t, x, f, file, o)
  BY AtFilling DEF Getc
<1>2. UNCHANGED <<k, os, result>> /\ f.nextByte = <<>>
  BY <1>1 DEF Getc, Filling
<1>3. Len(file) \in Nat /\ x \in Streams
  BY DEF Texts, StdioInv, Openable
<1>4. PICK b \in NextBytes, p \in Nat :
        /\ files' = [files EXCEPT ![x] = [f EXCEPT !.nextByte = b]]
        /\ offset' = [offset EXCEPT ![x] = p] /\ p <= Len(file)
        /\ \/ b = <<EOF>> /\ p = o
           \/ o < Len(file) /\ b = <<file[o + 1]>> /\ p = o + 1
  <2>1. CASE o >= Len(file)
    <3>1. /\ files' = [files EXCEPT ![x].nextByte = <<EOF>>]
          /\ offset' = [offset EXCEPT ![x] = offset[x]]
      BY <1>1, <2>1 DEF Getc, Filling
    <3>2. files' = [files EXCEPT ![x] = [f EXCEPT !.nextByte = <<EOF>>]]
      BY <1>1, <3>1 DEF Filling
    <3>3. offset' = [offset EXCEPT ![x] = o] /\ o <= Len(file)
      BY <1>1, <3>1 DEF Filling
    <3>4. <<EOF>> \in NextBytes
      BY DEF NextBytes
    <3> QED
      BY <3>2, <3>3, <3>4, Zenon
  <2>2. CASE ~(o >= Len(file))
    <3>1. /\ files' = [files EXCEPT ![x].nextByte = <<file[o + 1]>>]
          /\ offset' = [offset EXCEPT ![x] = offset[x] + 1]
      BY <1>1, <2>2 DEF Getc, Filling
    <3>2. files' = [files EXCEPT ![x] = [f EXCEPT !.nextByte = <<file[o + 1]>>]]
      BY <1>1, <3>1 DEF Filling
    <3>3. /\ offset' = [offset EXCEPT ![x] = o + 1] /\ o < Len(file) /\ o + 1 <= Len(file)
          /\ o + 1 \in Nat
      BY <1>1, <1>3, <2>2, <3>1 DEF Filling
    <3>4. <<file[o + 1]>> \in NextBytes
      BY <3>3, NextChar DEF NextBytes
    <3> QED
      BY <3>2, <3>3, <3>4, Zenon
  <2> QED
    BY <2>1, <2>2
<1>5. PICK g : g = [f EXCEPT !.nextByte = b]
  OBVIOUS
<1>6. /\ g.nextByte = b /\ g.pos = f.pos /\ g.readBuffer = f.readBuffer
      /\ g.writeBuffer = f.writeBuffer
  BY <1>5 DEF FileCell
<1>7. /\ DOMAIN files' = DOMAIN files /\ files'[x] = g
      /\ \A y \in DOMAIN files : y # x => files'[y] = files[y]
  BY <1>4, <1>5
<1>8. offset'[x] = p /\ \A y \in Streams : y # x => offset'[y] = offset[y]
  BY <1>3, <1>4 DEF StdioInv, OsOK
<1>9. NoSend(k[Here]) /\ NoSend(k'[Here])
  BY <1>1, <1>2 DEF Filling
<1>10. /\ Held(x)' = file
       /\ Coming(x)' = g.readBuffer \o Byte(g) \o After(file, p)
  <2>1. Sends(k'[Here], x) = <<>>
    BY <1>9, NothingSent
  <2>2. g.writeBuffer = <<>> /\ file = os'[uri[x]] /\ p <= Len(file)
    BY <1>1, <1>2, <1>4, <1>6 DEF Filling
  <2>3. /\ Held(x)' = file
        /\ Coming(x)' = files'[x].readBuffer \o Byte(files'[x]) \o After(file, p)
    BY <1>7, <1>8, <2>1, <2>2, ViewEmpty
  <2> QED
    BY <1>7, <2>3
<1>11. PICK r \in Texts : r = f.readBuffer
  BY ByteType
<1>12. Coming(x) = (r \o <<>>) \o After(file, o)
  BY <1>1, <1>2, <1>11 DEF Filling, Byte
<1>13. Coming(x)' = Coming(x)
  <2>1. CASE b = <<EOF>> /\ p = o
    BY <1>6, <1>10, <1>11, <1>12, <2>1 DEF Byte
  <2>2. CASE o < Len(file) /\ b = <<file[o + 1]>> /\ p = o + 1
    <3>1. file[o + 1] \in Chars /\ After(file, o) = b \o After(file, p)
      BY <2>2, NextChar
    <3>2. b # <<EOF>> /\ b \in Texts
      <4>1. EOF \notin Chars
        BY StdioAssumption
      <4> QED
        BY <2>2, <3>1, <4>1 DEF Texts
    <3>3. PICK a \in Texts : a = After(file, p)
      BY <1>3, <1>4, AfterType
    <3>4. Coming(x)' = (r \o b) \o a
      BY <1>6, <1>10, <1>11, <3>2, <3>3, Zenon DEF Byte
    <3>5. Regroups(r, b, a) /\ r \o <<>> = r
      BY <3>2, TextLaws
    <3>6. Coming(x) = r \o (b \o a)
      BY <1>12, <3>1, <3>3, <3>5, Zenon
    <3> QED
      BY <3>4, <3>5, <3>6, Zenon DEF Regroups
  <2> QED
    BY <1>4, <2>1, <2>2
<1>14. ASSUME NEW y \in DOMAIN files
       PROVE  Held(y)' = Held(y) /\ Coming(y)' = Coming(y) /\ files'[y].pos = files[y].pos
  <2>1. CASE y = x
    BY <1>1, <1>6, <1>7, <1>10, <1>13, <2>1 DEF Filling
  <2>2. CASE y # x
    <3>1. y \in Streams
      BY DEF StdioInv, Openable
    <3>2. files'[y] = files[y] /\ offset'[y] = offset[y] /\ os'[uri[y]] = os[uri[y]]
      BY <1>2, <1>7, <1>8, <2>2, <3>1
    <3> QED
      BY <1>9, <2>2, <3>2, OthersKept
  <2> QED
    BY <2>1, <2>2
<1> QED
  BY <1>2, <1>7, <1>14, ShownIs, ShownNext, Unnoticed

LEMMA QuietFill ==
  ASSUME OneThread, Disciplined, StdioInv, StdioInv', NEW t \in Threads, FillBuffer(t)
  PROVE  UNCHANGED Seen
<1>1. PICK x \in DOMAIN files, f \in FileCell, file \in Texts, o \in Nat :
        Filling(t, x, f, file, o)
  BY AtFilling DEF FillBuffer
<1>2. UNCHANGED <<os, offset, result>> /\ f.nextByte # <<>>
  BY <1>1 DEF FillBuffer, Filling
<1>3. NoSend(k[Here]) /\ NoSend(k'[Here])
  <2>1. k[t] # <<>> /\ k \in [Threads -> Seq(Items)]
    BY DEF FillBuffer, AtHead, StdioInv
  <2>2. Becomes(t, <<>>) \/ k' = [k EXCEPT ![t] = Tail(@)] \/ k' = k
    BY DEF FillBuffer
  <2>3. Becomes(t, <<>>) => NoSend(k'[Here])
    BY <2>1, NoItemQuiet
  <2>4. k' = [k EXCEPT ![t] = Tail(@)] => NoSend(k'[Here])
    BY <1>1, <2>1 DEF Filling
  <2> QED
    BY <1>1, <2>2, <2>3, <2>4 DEF Filling
<1>4. PICK r \in Texts, b \in Texts : r = f.readBuffer /\ b = Byte(f)
  BY ByteType
<1>5. PICK q : q = f.readBuffer \o f.nextByte
  OBVIOUS
<1>6. PICK g : /\ files' = [files EXCEPT ![x] = g]
               /\ \/ f.nextByte = <<EOF>> /\ g = [f EXCEPT !.feof = TRUE]
                  \/ f.nextByte # <<EOF>> /\ g = [f EXCEPT !.nextByte = <<>>, !.readBuffer = q]
  BY <1>1, <1>5 DEF FillBuffer, setEof, Filling
<1>7. /\ g.pos = f.pos /\ g.writeBuffer = f.writeBuffer
      /\ g.readBuffer \o Byte(g) = r \o b
  <2>1. CASE f.nextByte = <<EOF>> /\ g = [f EXCEPT !.feof = TRUE]
    <3>1. /\ g.pos = f.pos /\ g.writeBuffer = f.writeBuffer /\ g.readBuffer = f.readBuffer
          /\ g.nextByte = f.nextByte
      BY <2>1 DEF FileCell
    <3> QED
      BY <1>4, <3>1 DEF Byte
  <2>2. CASE f.nextByte # <<EOF>> /\ g = [f EXCEPT !.nextByte = <<>>, !.readBuffer = q]
    <3>1. /\ g.pos = f.pos /\ g.writeBuffer = f.writeBuffer /\ g.readBuffer = q
          /\ g.nextByte = <<>>
      BY <2>2 DEF FileCell
    <3>2. q = r \o b /\ Byte(g) = <<>>
      BY <1>4, <1>5, <2>2, <3>1 DEF Byte
    <3>3. (r \o b) \o <<>> = r \o b
      BY TextLaws
    <3> QED
      BY <3>1, <3>2, <3>3, Zenon
  <2> QED
    BY <1>6, <2>1, <2>2
<1>8. /\ DOMAIN files' = DOMAIN files /\ files'[x] = g
      /\ \A y \in DOMAIN files : y # x => files'[y] = files[y]
  BY <1>6
<1>9. Held(x)' = Held(x) /\ Coming(x)' = Coming(x)
  <2>1. Sends(k'[Here], x) = <<>>
    BY <1>3, NothingSent
  <2>2. /\ g.writeBuffer = <<>> /\ file = os'[uri[x]] /\ o = offset'[x] /\ o <= Len(file)
    BY <1>1, <1>2, <1>7 DEF Filling
  <2>3. /\ Held(x)' = file
        /\ Coming(x)' = files'[x].readBuffer \o Byte(files'[x]) \o After(file, o)
    BY <1>8, <2>1, <2>2, ViewEmpty
  <2>4. Coming(x) = (r \o b) \o After(file, o) /\ Held(x) = file
    BY <1>1, <1>4 DEF Filling
  <2> QED
    BY <1>7, <1>8, <2>3, <2>4, Zenon
<1>10. ASSUME NEW y \in DOMAIN files
       PROVE  Held(y)' = Held(y) /\ Coming(y)' = Coming(y) /\ files'[y].pos = files[y].pos
  <2>1. CASE y = x
    BY <1>1, <1>7, <1>8, <1>9, <2>1 DEF Filling
  <2>2. CASE y # x
    BY <1>2, <1>3, <1>8, <2>2, OthersKept
  <2> QED
    BY <2>1, <2>2
<1> QED
  BY <1>2, <1>8, <1>10, ShownIs, ShownNext, Unnoticed

-----------------------------------------------------------------------------
(* Steps that the program notices: each is an action of ByteStream.        *)

Maps == Unbuffered!Next \/ UNCHANGED Seen

(* What a step on the open stream x leaves to the program: c in the file,  *)
(* i to read, p as the position.                                           *)
Leaves(x, c, i, p) ==
  /\ Files' = [Files EXCEPT ![x] = c]
  /\ Inputs' = [Inputs EXCEPT ![x] = i]
  /\ Positions' = [Positions EXCEPT ![x] = p]

LEMMA OpenStream ==
  ASSUME Shown, StdioInv, NEW x \in DOMAIN files
  PROVE  /\ x \in Streams /\ x \in DOMAIN Inputs /\ Files[x] = Held(x)
         /\ Inputs[x] = Coming(x) /\ Positions[x] = files[x].pos
<1>1. x \in Streams
  BY DEF StdioInv, Openable
<1> QED
  BY <1>1 DEF Shown, Files, Inputs, Positions, Open

(* Only x is changed, and it stays open.                                   *)
LEMMA OneChanged ==
  ASSUME OneThread, StdioInv, StdioInv', NoSend(k[Here]), NoSend(k'[Here]),
         NEW x \in DOMAIN files, NEW g, files' = [files EXCEPT ![x] = g], os' = os,
         \A y \in Streams : y # x => offset'[y] = offset[y],
         NEW c, c = Held(x)', NEW i, i = Coming(x)', NEW p, p = g.pos
  PROVE  Leaves(x, c, i, p)
<1>1. Shown /\ Shown'
  BY ShownIs, ShownNext
<1>2. /\ DOMAIN files' = DOMAIN files /\ files'[x] = g
      /\ \A y \in DOMAIN files : y # x => files'[y] = files[y]
  OBVIOUS
<1>3. x \in Streams /\ DOMAIN files \subseteq Streams
  BY DEF StdioInv, Openable
<1>4. ASSUME NEW y \in DOMAIN files, y # x
      PROVE  Held(y)' = Held(y) /\ Coming(y)' = Coming(y) /\ files'[y].pos = files[y].pos
  <2>1. files'[y] = files[y] /\ offset'[y] = offset[y] /\ os'[uri[y]] = os[uri[y]]
    BY <1>2, <1>3, <1>4
  <2> QED
    BY <1>4, <2>1, OthersKept
<1>5. \A y \in DOMAIN files :
        /\ Contents(y)' = IF y = x THEN c ELSE Contents(y)
        /\ Upcoming(y)' = IF y = x THEN i ELSE Upcoming(y)
        /\ files'[y].pos = IF y = x THEN p ELSE files[y].pos
  BY <1>1, <1>2, <1>4 DEF Shown
<1>6. Files' = [Files EXCEPT ![x] = c]
  BY <1>2, <1>3, <1>5 DEF Files, Open
<1>7. Inputs' = [Inputs EXCEPT ![x] = i]
  BY <1>2, <1>5 DEF Inputs
<1>8. Positions' = [Positions EXCEPT ![x] = p]
  BY <1>2, <1>5 DEF Positions
<1> QED
  BY <1>6, <1>7, <1>8 DEF Leaves

LEMMA SameText ==
  ASSUME NEW x \in Streams, NEW c, Files[x] = c, Files' = [Files EXCEPT ![x] = c]
  PROVE  Files' = Files
BY DEF Files

LEMMA OutputMaps ==
  ASSUME NEW x \in Streams, x \in DOMAIN Inputs, NEW s \in SeqOf(Chars, MaxString),
         NEW c, c = Overwrite(Files[x], Positions[x], s),
         NEW p, p = Positions[x] + Len(s), Leaves(x, c, After(c, p), p), result' = result
  PROVE  Maps
<1>1. x \in DOMAIN Files /\ x \in DOMAIN Positions
  BY DEF Files, Positions, Inputs
<1>2. Files'[x] = c /\ Positions'[x] = p
  BY <1>1 DEF Leaves
<1>3. /\ Files' = [Files EXCEPT ![x] = Overwrite(Files[x], Positions[x], s)]
      /\ Positions' = [Positions EXCEPT ![x] = Positions[x] + Len(s)]
      /\ Inputs' = [Inputs EXCEPT ![x] = After(Files'[x], Positions'[x])]
  BY <1>2 DEF Leaves
<1>4. Unbuffered!Output(x, s)
  BY <1>3 DEF Unbuffered!Output, Unbuffered!Overwrite, Unbuffered!From, Overwrite, After,
              Files, Inputs, Positions
<1>5. s \in Unbuffered!Strings(MaxString)
  BY DEF Unbuffered!Strings, Unbuffered!SeqOf, SeqOf
<1> QED
  BY <1>4, <1>5 DEF Maps, Unbuffered!Next, Inputs

LEMMA PushBackMaps ==
  ASSUME NEW x \in Streams, x \in DOMAIN Inputs, NEW a \in Chars,
         Leaves(x, Files[x], <<a>> \o Inputs[x], Positions[x] - 1), result' = result
  PROVE  Maps
<1>1. Files' = Files
  BY SameText DEF Leaves
<1>2. /\ Positions' = [Positions EXCEPT ![x] = Positions[x] - 1]
      /\ Inputs' = [Inputs EXCEPT ![x] = <<a>> \o Inputs[x]]
  BY DEF Leaves
<1>3. Unbuffered!PushBack(x, a)
  BY <1>1, <1>2 DEF Unbuffered!PushBack, Files, Inputs, Positions
<1> QED
  BY <1>3 DEF Maps, Unbuffered!Next, Inputs

LEMMA SeekMaps ==
  ASSUME NEW x \in Streams, x \in DOMAIN Inputs, NEW p \in 0 .. Len(Files[x]),
         Leaves(x, Files[x], After(Files[x], p), p), result' = result
  PROVE  Maps
<1>1. Files' = Files
  BY SameText DEF Leaves
<1>2. /\ Positions' = [Positions EXCEPT ![x] = p]
      /\ Inputs' = [Inputs EXCEPT ![x] = After(Files[x], p)]
  BY DEF Leaves
<1>3. Unbuffered!Seek(x, p)
  BY <1>1, <1>2 DEF Unbuffered!Seek, Unbuffered!From, After, Files, Inputs, Positions
<1> QED
  BY <1>3 DEF Maps, Unbuffered!Next, Inputs, Files

LEMMA InputMaps ==
  ASSUME NEW x \in Streams, x \in DOMAIN Inputs, NEW n \in 1 .. MaxString,
         NEW got, got = SubSeq(Inputs[x], 1, IF n < Len(Inputs[x]) THEN n ELSE Len(Inputs[x])),
         Leaves(x, Files[x], After(Inputs[x], Len(got)), Positions[x] + Len(got)),
         result' = got
  PROVE  Maps
<1>1. Files' = Files
  BY SameText DEF Leaves
<1>2. /\ Positions' = [Positions EXCEPT ![x] = Positions[x] + Len(got)]
      /\ Inputs' = [Inputs EXCEPT ![x] = After(Inputs[x], Len(got))]
  BY DEF Leaves
<1>3. got = Unbuffered!UpTo(Inputs[x], n)
  BY DEF Unbuffered!UpTo
<1>4. Unbuffered!Input(x, n)
  BY <1>1, <1>2, <1>3 DEF Unbuffered!Input, Unbuffered!From, After, Files, Inputs, Positions
<1> QED
  BY <1>4 DEF Maps, Unbuffered!Next, Inputs

(* A call is stopped by an error.                                          *)
LEMMA HaltMaps ==
  ASSUME OneThread, StdioInv, StdioInv', NEW t \in Threads, k[t] # <<>>,
         Head(k[t]).op # "sendString", NEW code, Halts(t, code),
         UNCHANGED <<files, os, offset, result>>
  PROVE  Maps
<1>1. NoSend(k[Here]) /\ NoSend(k'[Here])
  BY HaltQuiet, HeadQuiet
<1> QED
  BY <1>1, SameFiles, QuietStep DEF Maps

LEMMA WriteMaps ==
  ASSUME OneThread, StdioInv, StdioInv', NEW t \in Threads, WriteFD(t)
  PROVE  Maps
<1>1. PICK x \in DOMAIN files, s \in Strings, R \in Seq(RestItems) :
        /\ t = Here /\ k[t] = R /\ Doing(<<>>, R) /\ status # "terminated" /\ R # <<>>
        /\ Head(k[t]) = callWith("writeFD", x, s) /\ R[1] = callWith("writeFD", x, s)
        /\ \/ Tail(k[t]) = <<>>
           \/ x = stdout /\ Tail(k[t]) = <<call("flush", stdout), end>>
        /\ \A y : R[1] # call("fillBuffer", y) /\ ~ReadsLast(R, y)
  BY AtWrite DEF WriteFD
<1>2. /\ Fd(t) = x /\ Head(k[t]).arg = s /\ UNCHANGED <<os, offset, result>>
      /\ k[t] # <<>> /\ Head(k[t]).op # "sendString"
  BY <1>1 DEF Fd, callWith, WriteFD
<1>3. CellOK(x, <<>>, R)
  BY <1>1 DEF Doing
<1>4. PICK f \in FileCell, w \in Texts, file \in Texts, o \in Nat :
        /\ f = files[x] /\ w = f.writeBuffer /\ file = os[uri[x]] /\ o = offset[x]
        /\ o <= Len(file)
  BY <1>3, CellFacts
<1>5. CASE Halts(t, "IO1") /\ UNCHANGED files
  BY <1>2, <1>5, HaltMaps
<1>6. CASE /\ ~AfterInput(f)
           /\ files' = [files EXCEPT ![x] =
                          [f EXCEPT !.writeBuffer = w \o s, !.pos = f.pos + Len(s),
                                    !.lastOp = "outputOp"]]
           /\ Becomes(t, <<call("flush", x)>>) \/ Becomes(t, <<>>)
  <2>1. PICK g : g = [f EXCEPT !.writeBuffer = w \o s, !.pos = f.pos + Len(s),
                               !.lastOp = "outputOp"]
    OBVIOUS
  <2>2. files' = [files EXCEPT ![x] = g] /\ files'[x] = g
    BY <1>6, <2>1
  <2>3. /\ g.writeBuffer = w \o s /\ g.pos = f.pos + Len(s)
        /\ g.readBuffer = f.readBuffer /\ g.nextByte = f.nextByte
    BY <2>1 DEF FileCell
  <2>4. f.readBuffer = <<>> /\ Ahead(f) = 0
    BY <1>1, <1>3, <1>4, <1>6 DEF CellOK, GoodCell, AfterInput, Ahead
  <2>5. Byte(f) = <<>> /\ Byte(g) = <<>>
    <3>1. Byte(f) = <<>>
      BY <2>4, ByteType
    <3> QED
      BY <2>3, <3>1 DEF Byte
  <2>6. s \in Texts /\ Len(s) \in Nat /\ Len(w) \in Nat /\ s \in SeqOf(Chars, MaxString)
    BY StringFacts DEF Texts, Strings
  <2>7. f.pos = o + Len(w)
    <3>1. f.pos = o + Len(Sending(<<>>, x)) + Len(w) - Len(f.readBuffer) - Ahead(f)
      BY <1>3, <1>4 DEF CellOK, GoodCell
    <3>2. Len(Sending(<<>>, x)) = 0 /\ Len(f.readBuffer) = 0
      BY <2>4 DEF Sending
    <3>3. PICK l \in Nat : l = Len(w)
      BY <2>6
    <3>4. f.pos = o + 0 + l - 0 - 0
      BY <2>4, <3>1, <3>2, <3>3
    <3> QED
      BY <3>3, <3>4
  <2>8. NoSend(k[Here]) /\ NoSend(k'[Here])
    <3>1. call("flush", x).op # "sendString"
      BY DEF call
    <3> QED
      BY <1>2, <1>6, <3>1, OneItemQuiet, NoItemQuiet, HeadQuiet
  <2>9. Sends(k[Here], x) = <<>> /\ Sends(k'[Here], x) = <<>>
    BY <2>8, NothingSent
  <2>10. PICK v \in Texts : v = w \o s /\ Len(v) = Len(w) + Len(s)
    BY <2>6, TextLaws
  <2>11. Waiting(x) = w /\ Waiting(x)' = v
    BY <1>4, <2>2, <2>3, <2>9, <2>10, TextLaws DEF Waiting
  <2>12. PICK h \in Texts : h = Overwrite(file, o, w) /\ o + Len(w) <= Len(h)
                            /\ Overwrite(h, o + Len(w), s) = Overwrite(file, o, v)
    <3>1. /\ Overwrite(file, o, w) \in Texts /\ o + Len(w) <= Len(Overwrite(file, o, w))
          /\ Overwrite(Overwrite(file, o, w), o + Len(w), s) = Overwrite(file, o, w \o s)
      BY <1>4, <2>6, OverwriteTwice
    <3> QED
      BY <2>10, <3>1, Zenon
  <2>13. Held(x) = h
    BY <1>4, <2>11, <2>12 DEF Held
  <2>14. PICK c, p : c = Overwrite(h, f.pos, s) /\ p = f.pos + Len(s)
    OBVIOUS
  <2>15. Held(x)' = c
    BY <1>2, <1>4, <2>7, <2>11, <2>12, <2>14, Zenon DEF Held
  <2>16. offset'[x] + Len(Waiting(x)') = p
    <3>1. p = o + (Len(w) + Len(s))
      BY <2>6, <2>7, <2>14
    <3> QED
      BY <1>2, <1>4, <2>10, <2>11, <3>1
  <2>17. Coming(x)' = After(c, p)
    <3>1. Coming(x)' = <<>> \o <<>> \o After(c, p)
      BY <2>2, <2>3, <2>4, <2>5, <2>15, <2>16, Zenon DEF Coming
    <3>2. c \in Texts /\ p \in Nat /\ p <= Len(c)
      <4>1. PICK q \in Nat : q = f.pos /\ q = o + Len(w) /\ q <= Len(h)
        BY <2>6, <2>7, <2>12
      <4>2. /\ Overwrite(h, q, s) \in Texts /\ q + Len(s) <= Len(Overwrite(h, q, s))
        BY <2>6, <4>1, OverwriteTwice
      <4> QED
        BY <2>6, <2>14, <4>1, <4>2
    <3>3. After(c, p) \in Texts
      BY <3>2, AfterType
    <3>4. <<>> \o <<>> = <<>> /\ <<>> \o After(c, p) = After(c, p)
      BY <3>3, TextLaws
    <3> QED
      BY <3>1, <3>4, Zenon
  <2>18. Leaves(x, c, After(c, p), p)
    BY <1>2, <2>2, <2>3, <2>8, <2>14, <2>15, <2>17, OneChanged
  <2>19. /\ x \in Streams /\ x \in DOMAIN Inputs /\ Files[x] = h /\ Positions[x] = f.pos
    BY <1>4, <2>13, ShownIs, OpenStream
  <2> QED
    BY <1>2, <2>6, <2>14, <2>18, <2>19, OutputMaps
<1>7. \/ Halts(t, "IO1") /\ UNCHANGED files
      \/ /\ ~AfterInput(f)
         /\ files' = [files EXCEPT ![x] =
                        [f EXCEPT !.writeBuffer = w \o s, !.pos = f.pos + Len(s),
                                  !.lastOp = "outputOp"]]
         /\ Becomes(t, <<call("flush", x)>>) \/ Becomes(t, <<>>)
  <2>1. \A c : Becomes(t, IF c THEN <<call("flush", x)>> ELSE <<>>) =>
                 Becomes(t, <<call("flush", x)>>) \/ Becomes(t, <<>>)
    BY DEF Becomes
  <2> HIDE DEF Becomes
  <2>2. \/ /\ ~AfterInput(f)
           /\ files' = [files EXCEPT ![x] = [f EXCEPT !.writeBuffer = w \o s, !.pos = f.pos + Len(s),
                                                      !.lastOp = "outputOp"]]
           /\ \E c : Becomes(t, IF c THEN <<call("flush", x)>> ELSE <<>>)
        \/ Halts(t, "IO1") /\ UNCHANGED files
    BY <1>2, <1>4, Zenon DEF WriteFD
  <2> QED
    BY <2>1, <2>2, Zenon
<1> QED
  BY <1>5, <1>6, <1>7

LEMMA UngetcMaps ==
  ASSUME OneThread, StdioInv, StdioInv', NEW t \in Threads, Ungetc(t)
  PROVE  Maps
<1>1. PICK s \in Statements : Stated(t, s)
  BY AtStatement DEF Ungetc, AtHead, StatementOps
<1>2. /\ Head(k[t]) = s /\ s.op = "ungetc" /\ Fd(t) = s.fd /\ UNCHANGED <<os, offset, result>>
      /\ k[t] # <<>> /\ Head(k[t]).op # "sendString" /\ Becomes(t, <<>>)
  BY <1>1 DEF Ungetc, AtHead, Fd, Stated
<1>3. PICK x \in DOMAIN files, a \in Chars :
        x = s.fd /\ a = s.arg /\ files[x].lastOp = "inputOp"
  BY <1>1, <1>2, StatementFacts DEF Stated, Issued, Open
<1>4. CellOK(x, <<>>, <<s>>) /\ Ahead(files[x]) = 0 /\ files[x].writeBuffer = <<>>
  BY <1>1, <1>3 DEF Stated
<1>5. PICK f \in FileCell, r \in Texts, file \in Texts, o \in Nat :
        /\ f = files[x] /\ r = f.readBuffer /\ file = os[uri[x]] /\ o = offset[x]
        /\ o <= Len(file)
  BY <1>4, CellFacts
<1>6. PICK q : q = <<a>> \o r
  OBVIOUS
<1>7. PICK g : g = [f EXCEPT !.readBuffer = q, !.nextByte = <<>>, !.pos = f.pos - 1, !.feof = FALSE]
  OBVIOUS
<1>8. files' = [files EXCEPT ![x] = g] /\ files'[x] = g
  <2>1. [unget(f, a) EXCEPT !.feof = FALSE] = g
    BY <1>5, <1>6, <1>7 DEF unget, FileCell
  <2> QED
    BY <1>2, <1>3, <1>5, <2>1 DEF Ungetc
<1>9. /\ g.readBuffer = q /\ g.nextByte = <<>> /\ g.pos = f.pos - 1
      /\ g.writeBuffer = <<>>
  BY <1>4, <1>5, <1>7 DEF FileCell
<1>10. NoSend(k[Here]) /\ NoSend(k'[Here])
  BY <1>2, NoItemQuiet, HeadQuiet
<1>11. Byte(f) = <<>> /\ Byte(g) = <<>>
  BY <1>4, <1>5, <1>9, ByteType DEF Byte
<1>12. PICK e \in Texts : e = After(file, o)
  BY <1>5, AfterType
<1>13. Held(x) = file /\ Coming(x) = r \o <<>> \o e
  <2>1. Sends(k[Here], x) = <<>>
    BY <1>10, NothingSent
  <2>2. Waiting(x) = <<>> /\ Len(<<>>) = 0
    BY <1>4, <2>1, TextLaws DEF Waiting
  <2>3. Held(x) = file
    BY <1>5, <2>2, OverwriteNone DEF Held
  <2>4. offset[x] + Len(Waiting(x)) = o
    BY <1>5, <2>2
  <2> QED
    BY <1>5, <1>11, <1>12, <2>3, <2>4, Zenon DEF Coming
<1>14. Held(x)' = file /\ Coming(x)' = q \o <<>> \o e
  <2>1. Sends(k'[Here], x) = <<>>
    BY <1>10, NothingSent
  <2>2. files'[x].writeBuffer = <<>> /\ file = os'[uri[x]] /\ o = offset'[x]
    BY <1>2, <1>5, <1>8, <1>9
  <2>3. /\ Held(x)' = file
        /\ Coming(x)' = files'[x].readBuffer \o Byte(files'[x]) \o After(file, o)
    BY <1>5, <2>1, <2>2, ViewEmpty
  <2> QED
    BY <1>8, <1>9, <1>11, <1>12, <2>3, Zenon
<1>15. Coming(x)' = <<a>> \o Coming(x)
  <2>1. PICK b \in Texts : b = <<a>>
    <3>1. <<a>> \in Texts
      BY DEF Texts
    <3> QED
      BY <3>1
  <2>2. Regroups(b, r, e) /\ r \o <<>> = r /\ q \o <<>> = q
    <3>1. q \in Texts
      BY <1>6, <2>1, TextLaws
    <3> QED
      BY <2>1, <3>1, TextLaws
  <2> QED
    BY <1>6, <1>13, <1>14, <2>1, <2>2, Zenon DEF Regroups
<1>16. /\ x \in Streams /\ x \in DOMAIN Inputs /\ Files[x] = file /\ Positions[x] = f.pos
       /\ Inputs[x] = Coming(x)
  BY <1>5, <1>13, ShownIs, OpenStream
<1>17. Leaves(x, Files[x], <<a>> \o Inputs[x], Positions[x] - 1)
  <2>1. PICK c, i, p : c = file /\ i = <<a>> \o Inputs[x] /\ p = Positions[x] - 1
    OBVIOUS
  <2>2. c = Held(x)' /\ i = Coming(x)' /\ p = g.pos
    BY <1>9, <1>14, <1>15, <1>16, <2>1, Zenon
  <2>3. Leaves(x, c, i, p)
    BY <1>2, <1>8, <1>10, <2>2, OneChanged
  <2> QED
    BY <1>16, <2>1, <2>3
<1> QED
  BY <1>2, <1>16, <1>17, PushBackMaps

(* What is seen of x, if nothing waits.                                    *)
LEMMA ViewNow ==
  ASSUME NEW x, Sends(k[Here], x) = <<>>, files[x].writeBuffer = <<>>,
         NEW file \in Texts, file = os[uri[x]], NEW p \in Nat, p = offset[x], p <= Len(file)
  PROVE  /\ Held(x) = file
         /\ Coming(x) = files[x].readBuffer \o Byte(files[x]) \o After(file, p)
<1>1. Waiting(x) = <<>> /\ Len(<<>>) = 0
  BY TextLaws DEF Waiting
<1>2. Held(x) = file
  BY <1>1, OverwriteNone DEF Held
<1>3. offset[x] + Len(Waiting(x)) = p
  BY <1>1
<1> QED
  BY <1>2, <1>3, Zenon DEF Coming

LEMMA SeekStepMaps ==
  ASSUME OneThread, StdioInv, StdioInv', NEW t \in Threads, Seek(t)
  PROVE  Maps
<1>1. PICK R \in Seq(RestItems) :
        t = Here /\ Doing(<<>>, R) /\ k[t] = R /\ R # <<>> /\ R[1] = Head(k[t])
  <2>1. k[t] # <<>> /\ Head(k[t]).op \notin FlushOps
    BY DEF Seek, AtHead, FlushOps
  <2> QED
    BY <2>1, AtR
<1>2. Seeking(<<>>, R)
  BY <1>1, RestKinds DEF Doing, Seek, AtHead
<1>3. PICK x \in DOMAIN files, w \in Wheres :
        /\ R = <<callWith("seek", x, w)>> \/ R = <<callWith("seek", x, w), call("clearerr", x)>>
        /\ files[x].writeBuffer = <<>>
  BY <1>2 DEF Seeking, Flushes, InFlush
<1>4. /\ CellOK(x, <<>>, R) /\ UNCHANGED <<os, result>> /\ Becomes(t, <<>>)
      /\ k[t] # <<>> /\ Head(k[t]).op # "sendString"
  BY <1>1, <1>3 DEF Doing, Seek, AtHead
<1>5. PICK f \in FileCell, o \in Nat, file \in Texts :
        f = files[x] /\ o = offset[x] /\ file = os[uri[x]] /\ o <= Len(file) /\ x \in Streams
  BY <1>4, CellFacts
<1>6. R[1] = callWith("seek", x, w)
  BY <1>3
<1>7. Fd(t) = x /\ callWith("seek", x, w).arg = w
  BY <1>1, <1>6 DEF Fd, callWith
<1>8. PICK p : /\ offset' = [offset EXCEPT ![x] = p]
               /\ files' = [files EXCEPT ![x] =
                        [f EXCEPT !.pos = p, !.nextByte = <<>>, !.readBuffer = <<>>,
                                  !.writeBuffer = <<>>, !.lastOp = "seekOp", !.feof = FALSE]]
  BY <1>5, <1>7 DEF Seek
<1>9. PICK g : g = [f EXCEPT !.pos = p, !.nextByte = <<>>, !.readBuffer = <<>>,
                             !.writeBuffer = <<>>, !.lastOp = "seekOp", !.feof = FALSE]
  OBVIOUS
<1>10. /\ g.pos = p /\ g.nextByte = <<>> /\ g.readBuffer = <<>> /\ g.writeBuffer = <<>>
       /\ files' = [files EXCEPT ![x] = g] /\ files'[x] = g
  BY <1>8, <1>9 DEF FileCell
<1>11. /\ offset'[x] = p /\ p \in Nat /\ p <= Len(file)
       /\ \A y \in Streams : y # x => offset'[y] = offset[y]
  <2>1. offset \in [Streams -> Nat] /\ offset' \in [Streams -> Nat]
        /\ \A y \in Streams : offset'[y] <= Len(os'[uri[y]])
    BY DEF StdioInv, OsOK
  <2>2. offset'[x] = p /\ \A y \in Streams : y # x => offset'[y] = offset[y]
    BY <1>5, <1>8, <2>1
  <2> QED
    BY <1>4, <1>5, <2>1, <2>2
<1>12. NoSend(k[Here]) /\ NoSend(k'[Here])
  BY <1>4, NoItemQuiet, HeadQuiet
<1>13. Held(x) = file /\ Held(x)' = file /\ Coming(x)' = <<>> \o <<>> \o After(file, p)
  <2>1. Sends(k[Here], x) = <<>> /\ Sends(k'[Here], x) = <<>>
    BY <1>12, NothingSent
  <2>2. Held(x) = file
    BY <1>3, <1>5, <2>1, ViewNow
  <2>3. files'[x].writeBuffer = <<>> /\ file = os'[uri[x]]
    BY <1>4, <1>5, <1>10
  <2>4. /\ Held(x)' = file
        /\ Coming(x)' = files'[x].readBuffer \o Byte(files'[x]) \o After(file, p)
    BY <1>11, <2>1, <2>3, ViewEmpty
  <2>5. Byte(g) = <<>>
    BY <1>10 DEF Byte
  <2> QED
    BY <1>10, <2>2, <2>4, <2>5, Zenon
<1>14. Coming(x)' = After(file, p)
  <2>1. After(file, p) \in Texts
    BY <1>11, AfterType
  <2>2. <<>> \o <<>> = <<>> /\ <<>> \o After(file, p) = After(file, p)
    BY <2>1, TextLaws
  <2> QED
    BY <1>13, <2>2, Zenon
<1>15. x \in Streams /\ x \in DOMAIN Inputs /\ Files[x] = file
  BY <1>13, ShownIs, OpenStream
<1>16. Leaves(x, Files[x], After(Files[x], p), p)
  <2>1. PICK i : i = After(file, p)
    OBVIOUS
  <2>2. Leaves(x, file, i, p)
    BY <1>4, <1>10, <1>11, <1>12, <1>13, <1>14, <2>1, OneChanged
  <2> QED
    BY <1>15, <2>1, <2>2
<1>17. p \in 0 .. Len(Files[x])
  <2>1. Len(file) \in Nat
    BY DEF Texts
  <2> QED
    BY <1>11, <1>15, <2>1
<1> QED
  BY <1>4, <1>15, <1>16, <1>17, SeekMaps

LEMMA ReadMaps ==
  ASSUME OneThread, Disciplined, StdioInv, StdioInv', NEW t \in Threads, ReadFD(t)
  PROVE  Maps
<1>1. PICK x \in DOMAIN files, n \in 1 .. MaxString, R \in Seq(RestItems) :
        ReadAt(t, x, n, R) /\ Fd(t) = x
  BY AtRead DEF ReadFD, AtHead
<1>2. PICK read \in RestItems, fill \in RestItems, all \in RestItems :
        /\ read = callWith("readFD", x, n) /\ fill = call("fillBuffer", x)
        /\ all = call("flushAll", x)
  BY <1>1, ReadCell
<1>3. /\ R = <<read>> /\ t = Here /\ k[t] = R /\ Doing(<<>>, R) /\ MayRead(x)
      /\ Head(k[t]) = read /\ read.op = "readFD" /\ k[t] # <<>>
      /\ Head(k[t]).op # "sendString"
  <2>1. R = <<read>> /\ t = Here /\ k[t] = R /\ Doing(<<>>, R) /\ MayRead(x)
    BY <1>1, <1>2 DEF ReadAt, ReadFD, AtHead
  <2> QED
    BY <1>2, <2>1 DEF callWith
<1>4. n = Head(k[t]).arg /\ UNCHANGED <<os, offset>> /\ NoSend(k[Here])
  BY <1>2, <1>3, HeadQuiet DEF callWith, ReadFD
<1>5. CellOK(x, <<>>, R) /\ x \in Streams
  BY <1>1, ReadCell
<1>6. PICK f \in FileCell, r \in Texts, file \in Texts, o \in Nat :
        /\ f = files[x] /\ r = f.readBuffer /\ Len(r) \in Nat
        /\ file = os[uri[x]] /\ o = offset[x] /\ o <= Len(file)
  BY <1>5, CellFacts
<1>7. PICK l \in Nat : l = IF n < Len(r) THEN n ELSE Len(r)
  BY <1>6
<1>8. PICK got : got = SubSeq(r, 1, l)
  OBVIOUS
<1>9. CASE /\ Len(r) >= n \/ Ended(f)
           /\ ~AfterOutput(f) /\ Becomes(t, <<>>) /\ result' = got
           /\ files' = [files EXCEPT ![x] =
                          [f EXCEPT !.pos = f.pos + Len(got), !.lastOp = "inputOp",
                                    !.readBuffer = SubSeq(r, Len(got) + 1, Len(r))]]
  <2>1. PICK q : q = After(r, l)
    OBVIOUS
  <2>2. l <= Len(r)
    BY <1>6, <1>7
  <2>3. PICK e \in Texts : e = After(file, o) /\ Len(e) \in Nat /\ Len(e) = Len(file) - o
    <3>1. After(file, o) \in Texts /\ Len(After(file, o)) = Len(file) - o
      BY <1>6, AfterType
    <3> QED
      BY <3>1, TextLaws
  <2>4. /\ SubSeq(r \o e, 1, l) = got /\ Len(got) = l
        /\ After(r \o e, l) = q \o e
    BY <1>8, <2>1, <2>2, ReadFront
  <2>5. PICK g : g = [f EXCEPT !.pos = f.pos + l, !.lastOp = "inputOp", !.readBuffer = q]
    OBVIOUS
  <2>6. files' = [files EXCEPT ![x] = g] /\ files'[x] = g
    BY <1>9, <2>1, <2>4, <2>5 DEF After
  <2>7. /\ g.writeBuffer = f.writeBuffer /\ g.pos = f.pos + l
        /\ g.readBuffer = q /\ g.nextByte = f.nextByte
    BY <2>5 DEF FileCell
  <2>8. Ahead(f) = 0 /\ f.writeBuffer = <<>>
    <3>1. R[1] # call("fillBuffer", x)
      BY <1>2, <1>3 DEF call, callWith
    <3> QED
      BY <1>5, <1>6, <1>9, <3>1 DEF CellOK, GoodCell, Ahead, AfterOutput, InFlush
  <2>9. Byte(f) = <<>> /\ Byte(g) = <<>>
    <3>1. Byte(f) = <<>>
      BY <2>8, ByteType
    <3> QED
      BY <2>7, <3>1 DEF Byte
  <2>10. NoSend(k'[Here])
    BY <1>3, <1>9, NoItemQuiet
  <2>11. Sends(k[Here], x) = <<>> /\ Sends(k'[Here], x) = <<>>
    BY <1>4, <2>10, NothingSent
  <2>12. Held(x) = file /\ Coming(x) = r \o <<>> \o e
    <3>1. files[x].writeBuffer = <<>>
      BY <1>6, <2>8
    <3>2. /\ Held(x) = file
          /\ Coming(x) = files[x].readBuffer \o Byte(files[x]) \o After(file, o)
      BY <1>6, <2>11, <3>1, ViewNow
    <3> QED
      BY <1>6, <2>3, <2>9, <3>2, Zenon
  <2>13. Held(x)' = file /\ Coming(x)' = q \o <<>> \o e
    <3>1. files'[x].writeBuffer = <<>> /\ file = os'[uri[x]] /\ o = offset'[x]
      BY <1>4, <1>6, <2>6, <2>7, <2>8
    <3>2. /\ Held(x)' = file
          /\ Coming(x)' = files'[x].readBuffer \o Byte(files'[x]) \o After(file, o)
      BY <1>6, <2>11, <3>1, ViewEmpty
    <3> QED
      BY <2>3, <2>6, <2>7, <2>9, <3>2, Zenon
  <2>14. PICK i \in Texts : i = r \o e /\ Coming(x) = i /\ Len(i) = Len(r) + Len(e)
    <3>1. r \o <<>> = r /\ r \o e \in Texts /\ Len(r \o e) = Len(r) + Len(e)
      BY TextLaws
    <3> QED
      BY <2>12, <3>1, Zenon
  <2>15. Coming(x)' = After(i, l)
    <3>1. q \in Texts
      BY <2>1, <2>2, AfterType
    <3>2. q \o <<>> = q
      BY <3>1, TextLaws
    <3> QED
      BY <2>4, <2>13, <2>14, <3>2, Zenon
  <2>16. l = IF n < Len(i) THEN n ELSE Len(i)
    <3>1. CASE Len(r) >= n
      BY <1>6, <1>7, <2>3, <2>14, <3>1
    <3>2. CASE ~(Len(r) >= n)
      <4>1. ~f.ferror
        BY <1>3, <1>6, MayReadHere
      <4>2. f.feof
        BY <1>9, <3>2, <4>1 DEF Ended
      <4>3. o = Len(file)
        BY <1>5, <1>6, <4>2 DEF CellOK, GoodCell
      <4>4. Len(i) = Len(r)
        BY <1>6, <2>3, <2>14, <4>3
      <4> QED
        BY <1>7, <4>4
    <3> QED
      BY <3>1, <3>2
  <2>17. /\ x \in DOMAIN Inputs /\ Files[x] = file /\ Positions[x] = f.pos /\ Inputs[x] = i
    BY <1>6, <2>12, <2>14, ShownIs, OpenStream
  <2>18. Leaves(x, Files[x], After(Inputs[x], Len(got)), Positions[x] + Len(got))
    <3>1. PICK b, p : b = After(i, l) /\ p = f.pos + l
      OBVIOUS
    <3>2. Leaves(x, file, b, p)
      BY <1>4, <2>6, <2>7, <2>10, <2>13, <2>15, <3>1, OneChanged
    <3> QED
      BY <2>4, <2>17, <3>1, <3>2
  <2>19. got = SubSeq(Inputs[x], 1, IF n < Len(Inputs[x]) THEN n ELSE Len(Inputs[x]))
    BY <2>4, <2>14, <2>16, <2>17, Zenon
  <2> QED
    BY <1>5, <1>9, <2>17, <2>18, <2>19, InputMaps
<1>10. CASE /\ UNCHANGED <<files, result>>
            /\ \E L \in {<<>>, <<all>>} : k' = [k EXCEPT ![t] = L \o <<fill>> \o @]
  <2>1. PICK L \in {<<>>, <<all>>} : k' = [k EXCEPT ![t] = L \o <<fill>> \o @]
    BY <1>10
  <2>2. fill.op # "sendString" /\ all.op # "sendString"
    BY <1>2 DEF call
  <2>3. PICK N : N = {fill, all}
    OBVIOUS
  <2>4. L \in Seq(N) /\ <<fill>> \in Seq(N)
    <3>1. fill \in N /\ all \in N
      BY <2>3
    <3>2. <<>> \in Seq(N) /\ <<all>> \in Seq(N) /\ <<fill>> \in Seq(N)
      BY <3>1
    <3> QED
      BY <3>2
  <2>5. PICK ks \in Seq(N) : ks = L \o <<fill>>
    BY <2>4, ConcatLaws
  <2>6. k' = [k EXCEPT ![t] = ks \o @]
    BY <2>1, <2>5
  <2>7. \A i \in N : i.op # "sendString"
    BY <2>2, <2>3
  <2>8. NoSend(k'[Here])
    BY <1>3, <2>6, <2>7, ItemsQuiet
  <2> QED
    BY <1>4, <1>10, <2>8, SameFiles, QuietStep DEF Maps
<1>11. CASE Halts(t, "IO2") /\ UNCHANGED <<files, result>>
  BY <1>3, <1>4, <1>11, HaltMaps
<1>12. \/ /\ Len(r) >= n \/ Ended(f)
          /\ ~AfterOutput(f) /\ Becomes(t, <<>>) /\ result' = got
          /\ files' = [files EXCEPT ![x] =
                         [f EXCEPT !.pos = f.pos + Len(got), !.lastOp = "inputOp",
                                   !.readBuffer = SubSeq(r, Len(got) + 1, Len(r))]]
       \/ /\ UNCHANGED <<files, result>>
          /\ \E L \in {<<>>, <<all>>} : k' = [k EXCEPT ![t] = L \o <<fill>> \o @]
       \/ Halts(t, "IO2") /\ UNCHANGED <<files, result>>
  <2>1. \/ /\ Len(r) >= n \/ Ended(f)
           /\ ~AfterOutput(f) /\ Becomes(t, <<>>) /\ result' = got
           /\ files' = [files EXCEPT ![x] =
                [f EXCEPT !.pos = f.pos + Len(got), !.lastOp = "inputOp",
                          !.readBuffer = SubSeq(r, Len(got) + 1, Len(r))]]
        \/ /\ UNCHANGED <<files, result>>
           /\ k' = [k EXCEPT ![t] = (IF f.bufMode = "lineBuf" THEN <<all>> ELSE <<>>)
                                      \o <<fill>> \o @]
        \/ Halts(t, "IO2") /\ UNCHANGED <<files, result>>
    BY <1>1, <1>2, <1>4, <1>6, <1>7, <1>8, Zenon DEF ReadFD
  <2> HIDE DEF Becomes, Halts, AfterOutput, Ended
  <2> QED
    BY <2>1, Zenon
<1> QED
  BY <1>9, <1>10, <1>11, <1>12

LEMMA OpenMaps ==
  ASSUME NEW x \in Streams, x \notin DOMAIN Inputs, NEW b \in BOOLEAN,
         Files' = IF b THEN [Files EXCEPT ![x] = <<>>] ELSE Files,
         Inputs' = [y \in DOMAIN Inputs \cup {x} |-> IF y = x THEN Files'[x] ELSE Inputs[y]],
         Positions' = [y \in DOMAIN Positions \cup {x} |-> IF y = x THEN 0 ELSE Positions[y]],
         result' = result
  PROVE  Maps
<1>1. Unbuffered!Open(x, b)
  BY DEF Unbuffered!Open, Unbuffered!With, Files, Inputs, Positions
<1> QED
  BY <1>1 DEF Maps, Unbuffered!Next

LEMMA CloseMaps ==
  ASSUME NEW x \in DOMAIN Inputs, Files' = Files,
         Inputs' = [y \in DOMAIN Inputs \ {x} |-> Inputs[y]],
         Positions' = [y \in DOMAIN Positions \ {x} |-> Positions[y]],
         result' = result
  PROVE  Maps
<1>1. Unbuffered!Close(x)
  BY DEF Unbuffered!Close, Unbuffered!Without, Files, Inputs, Positions
<1> QED
  BY <1>1 DEF Maps, Unbuffered!Next, Inputs

LEMMA FopenMaps ==
  ASSUME OneThread, StdioInv, StdioInv', NEW t \in Threads, Fopen(t)
  PROVE  Maps
<1>1. PICK s \in Statements : Stated(t, s)
  BY AtStatement DEF Fopen, AtHead, StatementOps
<1>2. /\ Head(k[t]) = s /\ s.op = "fopen" /\ Fd(t) = s.fd /\ UNCHANGED result
      /\ k[t] # <<>> /\ Head(k[t]).op # "sendString" /\ Becomes(t, <<>>)
  BY <1>1 DEF Fopen, AtHead, Fd, Stated
<1>3. PICK x \in Streams, m \in Modes : x = s.fd /\ x \notin DOMAIN files /\ m = s.arg
  BY <1>1, <1>2, StatementFacts DEF Stated, Issued, Open
<1>4. /\ DOMAIN files' = DOMAIN files \cup {x} /\ files'[x] = newFile(m, "fullBuf")
      /\ \A y \in DOMAIN files : files'[y] = files[y]
  BY <1>2, <1>3 DEF Fopen
<1>5. PICK b \in BOOLEAN : b <=> m = "w"
  OBVIOUS
<1>6. /\ offset' = [offset EXCEPT ![x] = 0]
      /\ os' = IF b THEN [os EXCEPT ![uri[x]] = <<>>] ELSE os
  BY <1>2, <1>3, <1>5 DEF Fopen
<1>7. /\ os \in [URIs -> Texts] /\ offset \in [Streams -> Nat] /\ DOMAIN files \subseteq Streams
      /\ \A y \in Streams : uri[y] \in URIs
  BY DEF StdioInv, OsOK, URIs, Openable
<1>8. ASSUME NEW y \in Streams, y # x
      PROVE  offset'[y] = offset[y] /\ os'[uri[y]] = os[uri[y]]
  <2>1. uri[y] # uri[x]
    BY <1>8, StdioAssumption
  <2> QED
    BY <1>6, <1>7, <1>8, <2>1
<1>9. PICK file \in Texts : /\ file = os'[uri[x]] /\ file = IF b THEN <<>> ELSE os[uri[x]]
                            /\ offset'[x] = 0
  <2>1. os'[uri[x]] \in Texts
    BY <1>7 DEF StdioInv, OsOK
  <2>2. os'[uri[x]] = (IF b THEN <<>> ELSE os[uri[x]]) /\ offset'[x] = 0
    BY <1>6, <1>7
  <2> QED
    BY <2>1, <2>2
<1>10. NoSend(k[Here]) /\ NoSend(k'[Here])
  BY <1>2, NoItemQuiet, HeadQuiet
<1>11. PICK g : g = newFile(m, "fullBuf")
  OBVIOUS
<1>12. g.pos = 0 /\ g.writeBuffer = <<>> /\ g.readBuffer = <<>> /\ g.nextByte = <<>>
  BY <1>11 DEF newFile
<1>13. Held(x)' = file /\ Coming(x)' = file
  <2>1. Sends(k'[Here], x) = <<>>
    BY <1>10, NothingSent
  <2>2. files'[x].writeBuffer = <<>> /\ Len(file) \in Nat
    BY <1>4, <1>11, <1>12 DEF Texts
  <2>3. PICK p \in Nat : p = 0
    OBVIOUS
  <2>4. p = offset'[x] /\ p <= Len(file)
    BY <1>9, <2>2, <2>3
  <2>5. /\ Held(x)' = file
        /\ Coming(x)' = files'[x].readBuffer \o Byte(files'[x]) \o After(file, p)
    BY <1>9, <2>1, <2>2, <2>4, ViewEmpty
  <2>6. After(file, p) = file
    <3>1. SubSeq(file, 1, Len(file)) = file
      BY WholeSeq DEF Texts
    <3>2. p + 1 = 1
      BY <2>3
    <3> QED
      BY <3>1, <3>2, Zenon DEF After
  <2>7. Byte(g) = <<>>
    BY <1>12 DEF Byte
  <2>8. <<>> \o <<>> = <<>> /\ <<>> \o file = file
    BY TextLaws
  <2> QED
    BY <1>4, <1>11, <1>12, <2>5, <2>6, <2>7, <2>8, Zenon
<1>14. ASSUME NEW y \in DOMAIN files
       PROVE  Held(y)' = Held(y) /\ Coming(y)' = Coming(y) /\ files'[y].pos = files[y].pos
  <2>1. y # x /\ y \in Streams
    BY <1>3, <1>7
  <2>2. files'[y] = files[y] /\ offset'[y] = offset[y] /\ os'[uri[y]] = os[uri[y]]
    BY <1>4, <1>8, <2>1
  <2> QED
    BY <1>10, <2>1, <2>2, OthersKept
<1>15. Shown /\ Shown'
  BY ShownIs, ShownNext
<1>16. /\ Contents(x)' = file /\ Upcoming(x)' = file
       /\ \A y \in DOMAIN files : Contents(y)' = Contents(y) /\ Upcoming(y)' = Upcoming(y)
                                  /\ files'[y].pos = files[y].pos
  BY <1>4, <1>13, <1>14, <1>15 DEF Shown
<1>17. Files' = IF b THEN [Files EXCEPT ![x] = <<>>] ELSE Files
  <2>1. \A y \in Streams : Files'[y] = IF y = x THEN file ELSE Files[y]
    BY <1>4, <1>8, <1>16 DEF Files, Open
  <2>2. Files[x] = os[uri[x]]
    BY <1>3 DEF Files, Open
  <2>3. \A y \in Streams : Files'[y] = (IF b THEN [Files EXCEPT ![x] = <<>>] ELSE Files)[y]
    BY <1>9, <2>1, <2>2 DEF Files
  <2> QED
    BY <2>3 DEF Files
<1>18. Files'[x] = file
  BY <1>4, <1>16 DEF Files, Open
<1>19. Inputs' = [y \in DOMAIN Inputs \cup {x} |-> IF y = x THEN Files'[x] ELSE Inputs[y]]
  BY <1>3, <1>4, <1>16, <1>18 DEF Inputs
<1>20. Positions' = [y \in DOMAIN Positions \cup {x} |-> IF y = x THEN 0 ELSE Positions[y]]
  BY <1>3, <1>4, <1>11, <1>12, <1>16 DEF Positions
<1>21. x \notin DOMAIN Inputs
  BY <1>3 DEF Inputs
<1> QED
  BY <1>2, <1>17, <1>19, <1>20, <1>21, OpenMaps

LEMMA CloseStepMaps ==
  ASSUME OneThread, StdioInv, StdioInv', NEW t \in Threads, Close(t)
  PROVE  Maps
<1>1. PICK R \in Seq(RestItems) :
        t = Here /\ Doing(<<>>, R) /\ k[t] = R /\ R # <<>> /\ R[1] = Head(k[t])
  <2>1. k[t] # <<>> /\ Head(k[t]).op \notin FlushOps
    BY DEF Close, AtHead, FlushOps
  <2> QED
    BY <2>1, AtR
<1>2. Closing(<<>>, R)
  BY <1>1, RestKinds DEF Doing, Close, AtHead
<1>3. PICK x \in DOMAIN files : R = <<call("close", x)>> /\ files[x].writeBuffer = <<>>
  BY <1>2 DEF Closing, Flushes, InFlush
<1>4. R[1] = call("close", x) /\ CellOK(x, <<>>, R)
  BY <1>1, <1>3 DEF Doing
<1>5. /\ Fd(t) = x /\ UNCHANGED <<os, offset, result>> /\ Becomes(t, <<>>)
      /\ k[t] # <<>> /\ Head(k[t]).op # "sendString"
  BY <1>1, <1>4 DEF Fd, call, Close, AtHead
<1>6. DOMAIN files' = DOMAIN files \ {x} /\ \A y \in DOMAIN files' : files'[y] = files[y]
  BY <1>5 DEF Close
<1>7. NoSend(k[Here]) /\ NoSend(k'[Here])
  BY <1>5, NoItemQuiet, HeadQuiet
<1>8. x \in Streams /\ Held(x) = os[uri[x]]
  <2>1. PICK file \in Texts, o \in Nat :
          file = os[uri[x]] /\ o = offset[x] /\ o <= Len(file) /\ x \in Streams
    BY <1>4, CellFacts
  <2>2. Sends(k[Here], x) = <<>>
    BY <1>7, NothingSent
  <2>3. Held(x) = file
    BY <1>3, <2>1, <2>2, ViewNow
  <2> QED
    BY <2>1, <2>3
<1>9. ASSUME NEW y \in DOMAIN files'
      PROVE  Held(y)' = Held(y) /\ Coming(y)' = Coming(y) /\ files'[y].pos = files[y].pos
  <2>1. y # x /\ y \in DOMAIN files /\ files'[y] = files[y]
    BY <1>6
  <2>2. offset'[y] = offset[y] /\ os'[uri[y]] = os[uri[y]]
    BY <1>5
  <2> QED
    BY <1>7, <2>1, <2>2, OthersKept
<1>10. Shown /\ Shown'
  BY ShownIs, ShownNext
<1>11. /\ Contents(x) = os[uri[x]]
       /\ \A y \in DOMAIN files' : Contents(y)' = Contents(y) /\ Upcoming(y)' = Upcoming(y)
                                   /\ files'[y].pos = files[y].pos
  BY <1>6, <1>8, <1>9, <1>10 DEF Shown
<1>12. Files' = Files
  <2>1. \A y \in Streams : Files'[y] = Files[y]
    BY <1>5, <1>6, <1>11 DEF Files, Open
  <2> QED
    BY <2>1 DEF Files
<1>13. Inputs' = [y \in DOMAIN Inputs \ {x} |-> Inputs[y]]
  BY <1>6, <1>11 DEF Inputs
<1>14. Positions' = [y \in DOMAIN Positions \ {x} |-> Positions[y]]
  BY <1>6, <1>11 DEF Positions
<1>15. x \in DOMAIN Inputs
  BY DEF Inputs
<1> QED
  BY <1>5, <1>12, <1>13, <1>14, <1>15, CloseMaps

-----------------------------------------------------------------------------
LEMMA InitMaps ==
  ASSUME OneThread, Init
  PROVE  Unbuffered!Init
<1>1. StdioInv
  BY InvInit
<1>2. Shown
  BY <1>1, ShownIs
<1>3. PICK g : /\ g = newFile("w", "lineBuf") /\ g.pos = 0 /\ g.writeBuffer = <<>>
               /\ g.readBuffer = <<>> /\ Byte(g) = <<>>
  <2>1. PICK g : g = newFile("w", "lineBuf")
    OBVIOUS
  <2>2. g.pos = 0 /\ g.writeBuffer = <<>> /\ g.readBuffer = <<>> /\ g.nextByte = <<>>
    BY <2>1 DEF newFile
  <2>3. Byte(g) = <<>>
    BY <2>2 DEF Byte
  <2> QED
    BY <2>1, <2>2, <2>3
<1>4. DOMAIN files = {stdout} /\ files[stdout] = g /\ result = <<>>
  BY <1>3 DEF Init
<1>5. /\ stdout \in Streams /\ uri[stdout] \in URIs
      /\ os[uri[stdout]] = <<>> /\ offset[stdout] = 0
      /\ \A y \in Streams : os[uri[y]] = <<>>
  BY StdioAssumption DEF Init, URIs
<1>6. Held(stdout) = <<>> /\ Coming(stdout) = <<>>
  <2>1. Sends(k[Here], stdout) = <<>>
    BY Alone DEF Init, Sends
  <2>2. PICK file \in Texts, p \in Nat : file = <<>> /\ p = 0 /\ p <= Len(file)
    BY TextLaws
  <2>3. files[stdout].writeBuffer = <<>> /\ file = os[uri[stdout]] /\ p = offset[stdout]
    BY <1>3, <1>4, <1>5, <2>2
  <2>4. /\ Held(stdout) = file
        /\ Coming(stdout) = files[stdout].readBuffer \o Byte(files[stdout]) \o After(file, p)
    BY <2>1, <2>2, <2>3, ViewNow
  <2>5. After(file, p) = <<>>
    <3>1. After(file, p) \in Texts /\ Len(After(file, p)) = Len(file) - p
      BY <2>2, AfterType
    <3>2. Len(After(file, p)) = 0
      BY <2>2, <3>1, TextLaws
    <3> QED
      BY <3>1, <3>2 DEF Texts
  <2>6. <<>> \o <<>> = <<>>
    BY TextLaws
  <2> QED
    BY <1>3, <1>4, <2>2, <2>4, <2>5, <2>6, Zenon
<1>7. Contents(stdout) = <<>> /\ Upcoming(stdout) = <<>>
  BY <1>2, <1>4, <1>6 DEF Shown
<1>8. Files = [x \in Streams |-> <<>>]
  BY <1>4, <1>5, <1>7 DEF Files, Open
<1>9. Inputs = [x \in {stdout} |-> <<>>] /\ Positions = [x \in {stdout} |-> 0]
  BY <1>3, <1>4, <1>7 DEF Inputs, Positions
<1>10. <<>> \in Unbuffered!Strings(MaxFile)
  <2>1. <<>> \in [1 .. 0 -> Chars] /\ 0 \in 0 .. MaxFile
    BY StdioAssumption
  <2> QED
    BY <2>1 DEF Unbuffered!Strings, Unbuffered!SeqOf
<1>11. Files \in [Streams -> Unbuffered!Strings(MaxFile)]
  BY <1>8, <1>10
<1>12. /\ {stdout} \in SUBSET Streams
       /\ Inputs = [x \in {stdout} |-> Files[x]]
       /\ Positions = [x \in {stdout} |-> 0]
  BY <1>5, <1>8, <1>9
<1> QED
  BY <1>4, <1>11, <1>12 DEF Unbuffered!Init, Files, Inputs, Positions

LEMMA StepMaps ==
  ASSUME OneThread, Disciplined, StdioInv, [Next]_vars
  PROVE  Maps
<1>1. StdioInv'
  BY InvNext
<1>2. CASE UNCHANGED vars
  BY <1>1, <1>2, QuietStutter DEF Maps
<1>3. ASSUME NEW t \in Threads, NEW s \in Statements, Call(t, s)
      PROVE  Maps
  BY <1>1, <1>3, QuietCall DEF Maps
<1>4. ASSUME NEW t \in Threads, Step(t)
      PROVE  Maps
  <2>1. CASE \/ Fputs(t) \/ Fread(t) \/ Sent(t) \/ FlushAll(t) \/ Fflush(t) \/ Clearerr(t)
             \/ Setvbuf(t) \/ Fseek(t) \/ Fclose(t) \/ FopenFails(t) \/ End(t)
             \/ Exit(t) \/ Abort(t)
    BY <1>1, <2>1, QuietFputs, QuietSent, QuietFlushAll, QuietFflush, QuietAdjust, QuietFseek,
       QuietFclose, QuietExit DEF Maps
  <2>2. CASE Flush(t) \/ SendString(t) \/ Getc(t) \/ FillBuffer(t)
    BY <1>1, <2>2, QuietFlush, QuietSend, QuietGetc, QuietFill DEF Maps
  <2>3. CASE WriteFD(t) \/ ReadFD(t) \/ Ungetc(t) \/ Seek(t) \/ Fopen(t) \/ Close(t)
    BY <1>1, <2>3, WriteMaps, ReadMaps, UngetcMaps, SeekStepMaps, FopenMaps, CloseStepMaps
  <2> QED
    BY <1>4, <2>1, <2>2, <2>3 DEF Step
<1> QED
  BY <1>2, <1>3, <1>4 DEF Next

(* Streams behave as if nothing was buffered (StreamSpec), for a program   *)
(* of one thread that separates output from input and clears errors before *)
(* it reads, whatever the buffers' modes and sizes and wherever setvbuf    *)
(* changes them.                                                           *)
THEOREM StreamsUnbuffered == OneThread /\ Disciplined => (Spec => StreamSpec)
<1> SUFFICES ASSUME OneThread, Disciplined
             PROVE  Spec => StreamSpec
  OBVIOUS
<1>1. Init => Unbuffered!Init
  BY InitMaps
<1>2. StdioInv /\ [Next]_vars => [Unbuffered!Next]_Seen
  BY StepMaps DEF Maps
<1>3. Spec => []StdioInv
  BY StdioInvariant
<1> QED
  BY <1>1, <1>2, <1>3, PTL DEF Spec, StreamSpec, Unbuffered!Spec, Seen, Files, Inputs, Positions
====
