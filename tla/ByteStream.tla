----------------------------- MODULE ByteStream -----------------------------
(***************************************************************************)
(* What the streams of stdio.h promise, without any buffering: output is   *)
(* in the file at once, at the stream's position; input is what the file   *)
(* holds from there on, after the characters that were pushed back.        *)
(***************************************************************************)
EXTENDS Naturals, Sequences, SequencesExt

CONSTANTS
  Streams,     \* file descriptors
  Chars,
  MaxString,   \* longest piece of output, largest request for input
  MaxFile      \* longest file

VARIABLES
  contents,    \* [streams -> the characters of the stream's file]
  input,       \* [open streams -> what the next reads would give]
  position,    \* [open streams -> what ftell gives]
  result       \* what the last read gave

Strings(n) == SeqOf(Chars, n)

Overwrite(file, p, s) ==
  SubSeq(file, 1, p) \o s \o SubSeq(file, p + Len(s) + 1, Len(file))

UpTo(s, n) == SubSeq(s, 1, IF n < Len(s) THEN n ELSE Len(s))
From(file, p) == SubSeq(file, p + 1, Len(file))

With(f, x, v) == [y \in DOMAIN f \cup {x} |-> IF y = x THEN v ELSE f[y]]
Without(f, x) == [y \in DOMAIN f \ {x} |-> f[y]]

Open(x, truncated) ==
  /\ x \notin DOMAIN input
  /\ contents' = IF truncated THEN [contents EXCEPT ![x] = <<>>] ELSE contents
  /\ input' = With(input, x, contents'[x])
  /\ position' = With(position, x, 0)
  /\ UNCHANGED result

Close(x) ==
  /\ input' = Without(input, x)
  /\ position' = Without(position, x)
  /\ UNCHANGED <<contents, result>>

Output(x, s) ==
  /\ contents' = [contents EXCEPT ![x] = Overwrite(@, position[x], s)]
  /\ position' = [position EXCEPT ![x] = @ + Len(s)]
  /\ input' = [input EXCEPT ![x] = From(contents'[x], position'[x])]
  /\ UNCHANGED result

Input(x, n) ==
  LET got == UpTo(input[x], n) IN
  /\ result' = got
  /\ input' = [input EXCEPT ![x] = From(@, Len(got))]
  /\ position' = [position EXCEPT ![x] = @ + Len(got)]
  /\ UNCHANGED contents

PushBack(x, c) ==
  /\ input' = [input EXCEPT ![x] = <<c>> \o @]
  /\ position' = [position EXCEPT ![x] = @ - 1]
  /\ UNCHANGED <<contents, result>>

Seek(x, p) ==
  /\ position' = [position EXCEPT ![x] = p]
  /\ input' = [input EXCEPT ![x] = From(contents[x], p)]
  /\ UNCHANGED <<contents, result>>

Next ==
  \/ \E x \in Streams, t \in BOOLEAN : Open(x, t)
  \/ \E x \in DOMAIN input :
       \/ Close(x)
       \/ \E s \in Strings(MaxString) : Output(x, s)
       \/ \E n \in 1 .. MaxString : Input(x, n)
       \/ \E c \in Chars : PushBack(x, c)
       \/ \E p \in 0 .. Len(contents[x]) : Seek(x, p)

Init ==
  /\ contents \in [Streams -> Strings(MaxFile)]
  /\ \E open \in SUBSET Streams :
       /\ input = [x \in open |-> contents[x]]
       /\ position = [x \in open |-> 0]
  /\ result = <<>>

Spec == Init /\ [][Next]_<<contents, input, position, result>>
=============================================================================
