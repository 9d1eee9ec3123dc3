------------------------------- MODULE Memory -------------------------------
(***************************************************************************)
(* What the objects of a C program promise, without the store buffer: a    *)
(* write is in the object at once, a read gives what was last written,     *)
(* realloc keeps the contents, an object that ended is gone.               *)
(***************************************************************************)
EXTENDS Naturals, Functions

CONSTANTS
  MaxBase,   \* objects ever created, a bound
  MaxLen,    \* largest object, in bytes
  Bits,      \* values of one half of a byte (a bit-field each)
  trap       \* an indeterminate half

VARIABLES
  objs,      \* contents of the live objects: [live bases -> [offsets -> byte]]
  result     \* value of the last read

Bases == 1 .. MaxBase
MemByte == [1 .. 2 -> Bits \cup {trap}]
TrapByte == [h \in 1 .. 2 |-> trap]

Init ==
  /\ objs = [b \in {} |-> {}]
  /\ result = TrapByte

(* A new object: indeterminate (a declaration, malloc) or zero (calloc).   *)
Create(b, n, v) ==
  /\ b \notin DOMAIN objs
  /\ objs' = [x \in DOMAIN objs \cup {b} |->
                IF x # b THEN objs[x]
                ELSE [o \in 0 .. n - 1 |-> [h \in 1 .. 2 |-> v]]]
  /\ UNCHANGED result

(* One value in every half hs of the bytes at offsets os.                  *)
Store(b, os, hs, v) ==
  /\ b \in DOMAIN objs
  /\ os \subseteq DOMAIN objs[b]
  /\ objs' = [objs EXCEPT ![b] =
                [o \in DOMAIN @ |->
                   [h \in 1 .. 2 |->
                      IF o \in os /\ h \in hs THEN v ELSE objs[b][o][h]]]]
  /\ UNCHANGED result

Load(b, o) ==
  /\ b \in DOMAIN objs
  /\ result' = IF o \in DOMAIN objs[b] THEN objs[b][o] ELSE TrapByte
  /\ UNCHANGED objs

(* realloc: the new object has the contents of the old one.                *)
Move(b, c, n) ==
  /\ b \in DOMAIN objs /\ c \notin DOMAIN objs
  /\ objs' = [x \in (DOMAIN objs \ {b}) \cup {c} |->
                IF x # c THEN objs[x]
                ELSE [o \in 0 .. n - 1 |->
                        IF o \in DOMAIN objs[b] THEN objs[b][o] ELSE TrapByte]]
  /\ UNCHANGED result

End(bs) ==
  /\ bs \subseteq DOMAIN objs
  /\ objs' = Restrict(objs, DOMAIN objs \ bs)
  /\ UNCHANGED result

Next ==
  \/ \E b \in Bases, n \in 0 .. MaxLen, v \in {trap, 0} : Create(b, n, v)
  \/ \E b \in Bases, os \in SUBSET (0 .. MaxLen - 1), hs \in SUBSET (1 .. 2),
        v \in Bits : Store(b, os, hs, v)
  \/ \E b \in Bases, o \in 0 .. MaxLen : Load(b, o)
  \/ \E b, c \in Bases, n \in 0 .. MaxLen : Move(b, c, n)
  \/ \E bs \in SUBSET Bases : End(bs)

Spec == Init /\ [][Next]_<<objs, result>>
=============================================================================
