------------------------------- MODULE CString -------------------------------
(***************************************************************************)
(* The C functions of the profile: string.c, stdlib.c, math.c and          *)
(* builtins.c.  A pointer is a buffer and an offset.  A loop that moves a  *)
(* pointer until something holds is the distance to the first place where  *)
(* it does; a read outside of a buffer has no value, which TLC reports.    *)
(*                                                                         *)
(* A program calls the functions in any order, as the C standard lets it:  *)
(* with strings that end, room for the result, and no overlap where a      *)
(* pointer is restrict.  char is signed.                                   *)
(***************************************************************************)
EXTENDS Integers, Sequences, SequencesExt, FiniteSetsExt, TLC

CONSTANTS
  Size,        \* the program's buffers and their sizes, a function
  Literal,     \* a string literal, a function like the contents of a buffer
  CharValues,  \* number of values of char, 256 in the code
  IntArgs,     \* values passed as int c
  Numbers,     \* arguments of the arithmetic functions, triples x, y2, bytes
  Base,        \* values of a byte in __kcc_bswap, 256 in the code
  Digit,       \* the character '0'
  Delimiters,  \* offsets in the literal at which a list of delimiters starts
  MaxOffset,   \* largest offset of a pointer the program passes, a bound
  MaxCount     \* largest count it passes, a bound

Buffers == DOMAIN Size
Null == <<"null", 0>>
EmptyString == <<"empty", 0>>

VARIABLES
  mem,     \* contents of the buffers and of the literals
  lasts,   \* per client its *lasts; that of strtok's clients is ssave
  taken,   \* per client the pointers to tokens it was given
  busy,    \* clients that are taking a buffer apart
  arg,     \* what a program that computes with numbers is given, or <<>>
  result   \* what it computed

libVars == <<mem, lasts, taken, busy, arg, result>>

(* Client c takes buffer c apart; the first one by strtok.                 *)
Clients == Buffers

-----------------------------------------------------------------------------
char(c) == ((c + CharValues \div 2) % CharValues) - CharValues \div 2
uchar(c) == c % CharValues
Chars == {char(c) : c \in IntArgs}

ASSUME CharAssumption ==
  /\ CharValues \in Nat \ {0} /\ CharValues % 2 = 0
  /\ IntArgs \subseteq Int /\ 0 \in IntArgs
ASSUME BufferAssumption ==
  /\ \A b \in Buffers : Size[b] \in Nat
  /\ Buffers \cap {"literal", "empty", "null", "tmp"} = {}
ASSUME LiteralAssumption ==
  LET last == Cardinality(DOMAIN Literal) - 1
  IN /\ last \in Nat /\ Literal \in [0..last -> Chars] /\ Literal[last] = 0
     /\ Delimiters \subseteq 0..last
ASSUME BoundAssumption == MaxOffset \in Nat /\ MaxCount \in Nat

At(m, p) == m[p[1]][p[2]]
Plus(p, i) == <<p[1], p[2] + i>>
FirstIn(stops) ==
  LET from[i \in Nat] == IF i \in stops THEN i ELSE from[i + 1] IN from[0]
Distance(m, p, chars) == FirstIn({i \in Nat : At(m, Plus(p, i)) \in chars})
strlen(m, p) == Distance(m, p, {0})

(* Searches.                                                               *)
strchr(m, s, c) ==
  LET found == Plus(s, Distance(m, s, {0, char(c)}))
  IN IF At(m, found) = c THEN found ELSE Null

strrchr(m, s, c) ==
  LET last[i \in 0 .. strlen(m, s)] ==
        LET f == strchr(m, Plus(s, i), c)
            next == f[2] - s[2] + 1
        IN IF f = Null THEN Null ELSE IF last[next] = Null THEN f ELSE last[next]
  IN IF c = 0 THEN strchr(m, s, c) ELSE last[0]

memchrUnconverted(m, s, c, n) ==  \* mutant
  LET i == FirstIn({k \in Nat : k = n \/ At(m, Plus(s, k)) = c})
  IN IF i = n THEN Null ELSE Plus(s, i)
memchr(m, s, c, n) ==
  LET i == FirstIn({k \in Nat : k = n \/ uchar(At(m, Plus(s, k))) = uchar(c)})
  IN IF i = n THEN Null ELSE Plus(s, i)

strcspn(m, s1, s2) == Distance(m, s1, {0} \cup {x \in Chars : strchr(m, s2, x) # Null})
strspn(m, s1, s2) == Distance(m, s1, {0} \cup {x \in Chars : strchr(m, s2, x) = Null})
strpbrk(m, s1, s2) ==
  LET sc1 == Plus(s1, Distance(m, s1, {0} \cup {x \in Chars : strchr(m, s2, x) # Null}))
  IN IF At(m, sc1) = 0 THEN Null ELSE sc1

(* Comparisons.                                                            *)
OrderSigned(a, b) == IF a < b THEN -1 ELSE IF a > b THEN 1 ELSE 0  \* mutant
Order(a, b) == IF uchar(a) < uchar(b) THEN -1 ELSE IF uchar(a) > uchar(b) THEN 1 ELSE 0

strcmp(m, s1, s2) ==
  LET i == FirstIn({k \in Nat : \/ At(m, Plus(s1, k)) # At(m, Plus(s2, k))
                                 \/ At(m, Plus(s1, k)) = 0})
  IN Order(At(m, Plus(s1, i)), At(m, Plus(s2, i)))

strncmp(m, s1, s2, n) ==
  IF n = 0 THEN 0
  ELSE LET i == FirstIn({k \in Nat : \/ At(m, Plus(s1, k)) # At(m, Plus(s2, k))
                                      \/ k = n - 1 \/ At(m, Plus(s1, k)) = 0})
       IN Order(At(m, Plus(s1, i)), At(m, Plus(s2, i)))

memcmp(m, s1, s2, n) ==
  LET i == FirstIn({k \in Nat : k = n \/ At(m, Plus(s1, k)) # At(m, Plus(s2, k))})
  IN IF i = n THEN 0 ELSE Order(At(m, Plus(s1, i)), At(m, Plus(s2, i)))

strstr(m, haystack, needle) ==
  LET from[i \in 0 .. strlen(m, haystack)] ==
        LET h == strchr(m, Plus(haystack, i), At(m, needle))
        IN IF h = Null \/ strncmp(m, h, needle, strlen(m, needle)) = 0 THEN h
           ELSE from[h[2] - haystack[2] + 1]
  IN IF At(m, needle) = 0 THEN haystack ELSE from[0]

atoi(m, s) ==
  LET digits == Distance(m, s, Chars \ (Digit .. Digit + 9))
  IN FoldLeft(LAMBDA res, i : res * 10 + At(m, Plus(s, i - 1)) - Digit, 0, [i \in 1..digits |-> i])

-----------------------------------------------------------------------------
(* Copies: what memory is after the call.  The loops go from the first     *)
(* byte to the last.                                                       *)
Steps(n) == [i \in 1..n |-> i - 1]
Put(m, p, x) == [m EXCEPT ![p[1]][p[2]] = x]

memcpy(m, dest, src, count) ==
  FoldLeft(LAMBDA mm, i : Put(mm, Plus(dest, i), At(mm, Plus(src, i))), m, Steps(count))

(* By way of a temporary object; malloc is taken to succeed.               *)
memmoveDirect(m, s1, s2, n) == memcpy(m, s1, s2, n)  \* mutant
memmove(m, s1, s2, n) ==
  LET tmp == [i \in 0 .. n - 1 |-> 0]
      allocated == [b \in DOMAIN m \cup {"tmp"} |-> IF b = "tmp" THEN tmp ELSE m[b]]
      copied == memcpy(allocated, <<"tmp", 0>>, s2, n)
      back == memcpy(copied, s1, <<"tmp", 0>>, n)
  IN [b \in DOMAIN m |-> back[b]]

(* The second loop fills up with zeros.                                    *)
Clear(m, p, n) == FoldLeft(LAMBDA mm, i : Put(mm, Plus(p, i), 0), m, Steps(n))
strncpy(m, dest, src, n) ==
  LET end == FirstIn({i \in Nat : i = n \/ At(m, Plus(src, i)) = 0})
      copied == IF end = n THEN n ELSE end + 1
  IN Clear(memcpy(m, dest, src, copied), Plus(dest, copied), n - copied)

strcpy(m, dest, src) == memcpy(m, dest, src, strlen(m, src) + 1)
strcat(m, s1, s2) == strcpy(m, Plus(s1, strlen(m, s1)), s2)
strncat(m, s1, s2, n) ==
  LET s == Plus(s1, strlen(m, s1))
      copied == FirstIn({i \in Nat : i = n \/ At(m, Plus(s2, i)) = 0})
  IN Put(memcpy(m, s, s2, copied), Plus(s, copied), 0)

-----------------------------------------------------------------------------
(* Numbers.  abs and fabs have the same body; -num of the least int has no *)
(* value, and is no argument here.  pow is given y twice over, so that it  *)
(* may be half of an odd number; exp(y * log(x)) for a positive x stands   *)
(* for itself, and for a negative one is not a number.                     *)
abs(num) == IF num >= 0 THEN num ELSE -num
fabs(num) == IF num >= 0 THEN num ELSE -num
Real(sign, x, y2) == [sign |-> sign, x |-> x, y2 |-> y2]
NaN == Real(0, 0, 0)
One == Real(1, 1, 0)
Zero == Real(0, 1, 0)
expLog(sign, x, y2) == IF x > 0 THEN Real(sign, x, y2) ELSE NaN
powEven(x, y2) ==  \* mutant
  IF y2 = 0 THEN One ELSE IF x = 0 THEN Zero
  ELSE IF y2 % 2 = 0 THEN expLog(1, abs(x), y2) ELSE expLog(1, x, y2)
pow(x, y2) ==
  CASE x = 0 /\ y2 = 0 -> One
    [] x = 0 /\ y2 # 0 -> Zero
    [] y2 = 0 /\ x # 0 -> One
    [] x < 0 /\ y2 # 0 /\ y2 % 2 = 0 -> expLog(IF (y2 \div 2) % 2 = 1 THEN -1 ELSE 1, -x, y2)
    [] OTHER -> expLog(1, x, y2)

(* Byte i of x, moved to place j.                                          *)
Byte(x, i, j) == ((x \div Base^i) % Base) * Base^j
bswap16(x) == Byte(x, 0, 1) + Byte(x, 1, 0)
bswap32(x) == Byte(x, 0, 3) + Byte(x, 1, 2) + Byte(x, 2, 1) + Byte(x, 3, 0)
bswap64(x) ==
  Byte(x, 0, 7) + Byte(x, 1, 6) + Byte(x, 2, 5) + Byte(x, 3, 4)
  + Byte(x, 4, 3) + Byte(x, 5, 2) + Byte(x, 6, 1) + Byte(x, 7, 0)

-----------------------------------------------------------------------------
(* A call of strtok_r, or of strtok, that looks for a token from start on. *)
(* At its end, if that is not the end of the string, the token is cut off. *)
delimiters(D) == <<"literal", D>>
KeepWhole(m, send) == m  \* mutant
CutOff(m, send) == IF At(m, send) # 0 THEN Put(m, send, 0) ELSE m
AlwaysPast(send) == Plus(send, 1)  \* mutant
Past(send) == IF At(mem, send) # 0 THEN Plus(send, 1) ELSE send
strtok_r(c, start, D) ==
  LET sbegin == Plus(start, strspn(mem, start, D))
      send == Plus(sbegin, strcspn(mem, sbegin, D))
  IN \/ /\ At(mem, sbegin) = 0
        /\ lasts' = [lasts EXCEPT ![c] = EmptyString]
        /\ UNCHANGED <<mem, taken>>
     \/ /\ At(mem, sbegin) # 0
        /\ mem' = CutOff(mem, send)
        /\ lasts' = [lasts EXCEPT ![c] = Past(send)]
        /\ taken' = [taken EXCEPT ![c] = Append(@, sbegin)]

(* The program.  It may write to a buffer that nobody takes apart.         *)
Pointers(buffers) == {p \in buffers \X (0..MaxOffset) : p[2] \in DOMAIN mem[p[1]]}
Writable == Pointers(Buffers \ busy)
Readable == Pointers(Buffers \cup {"literal"})
Room(p) == Cardinality(DOMAIN mem[p[1]]) - p[2]
IsString(p) == \E i \in 0 .. Room(p) - 1 : At(mem, Plus(p, i)) = 0
Overlap(d, s, n) == d[1] = s[1] /\ d[2] - s[2] < n /\ s[2] - d[2] < n

MayMove(d, s, n) == n <= Room(d) /\ n <= Room(s)
MayCopy(d, s, n) == MayMove(d, s, n) /\ ~Overlap(d, s, n)
MayCopyString(d, s, n) == d[1] # s[1] /\ n <= Room(d) /\ (IsString(s) \/ n <= Room(s))
MayAppend(d, s, n) ==
  /\ d[1] # s[1] /\ IsString(d) /\ (IsString(s) \/ n <= Room(s))
  /\ strlen(mem, d) + Min({n} \cup (IF IsString(s) THEN {strlen(mem, s)} ELSE {})) < Room(d)

Call(may(_, _, _), after(_, _, _, _)) ==
  /\ arg = <<>> /\ UNCHANGED <<lasts, taken, busy, arg, result>>
  /\ \E d \in Writable, s \in Readable, n \in 0..MaxCount :
       may(d, s, n) /\ mem' = after(mem, d, s, n)
MemCpy == Call(MayCopy, memcpy)
MemMove == Call(MayMove, memmove)
StrNCpy == Call(MayCopyString, strncpy)
StrNCat == Call(MayAppend, strncat)
StrCat ==
  /\ arg = <<>> /\ UNCHANGED <<lasts, taken, busy, arg, result>>
  /\ \E d \in Writable, s \in Readable :
       IsString(s) /\ MayAppend(d, s, strlen(mem, s)) /\ mem' = strcat(mem, d, s)

(* The first call gives the buffer, the others the null pointer; at the    *)
(* first one *lasts may still point to what was left of another string.    *)
FirstToken(c) ==
  /\ arg = <<>> /\ c \notin busy /\ IsString(<<c, 0>>)
  /\ \E D \in Delimiters : strtok_r(c, <<c, 0>>, delimiters(D))
  /\ busy' = busy \cup {c} /\ UNCHANGED <<arg, result>>
MoreTokens(c) ==
  /\ arg = <<>> /\ c \in busy
  /\ \E D \in Delimiters : strtok_r(c, lasts[c], delimiters(D))
  /\ UNCHANGED <<busy, arg, result>>
Done(c) ==
  /\ c \in busy /\ busy' = busy \ {c} /\ taken' = [taken EXCEPT ![c] = <<>>]
  /\ UNCHANGED <<mem, lasts, arg, result>>

Compute ==
  /\ arg # <<>> /\ result = <<>>
  /\ result' = [abs |-> abs(arg[1]), fabs |-> fabs(arg[1]), pow |-> pow(arg[1], arg[2]),
                bswap16 |-> bswap16(arg[3] % Base^2), bswap32 |-> bswap32(arg[3] % Base^4),
                bswap64 |-> bswap64(arg[3])]
  /\ UNCHANGED <<mem, lasts, taken, busy, arg>>

Blank(n) == [i \in 0 .. n - 1 |-> 0]
Init ==
  /\ mem = [b \in Buffers \cup {"literal", "empty"} |->
              IF b = "literal" THEN Literal ELSE Blank(IF b = "empty" THEN 1 ELSE Size[b])]
  /\ lasts = [c \in Clients |-> EmptyString]
  /\ taken = [c \in Clients |-> <<>>]
  /\ busy = {} /\ result = <<>>
  /\ arg \in {<<>>} \cup Numbers

Next ==
  \/ MemCpy \/ MemMove \/ StrNCpy \/ StrNCat \/ StrCat
  \/ \E c \in Clients : FirstToken(c) \/ MoreTokens(c) \/ Done(c)
  \/ Compute
Spec == Init /\ [][Next]_libVars

-----------------------------------------------------------------------------
(* Type invariant: the contents stay characters, and the saved pointers    *)
(* point to strings.                                                       *)
TypeOK ==
  /\ \A b \in Buffers : mem[b] \in [0 .. Size[b] - 1 -> Chars]
  /\ busy \subseteq Clients
  /\ \A c \in busy : lasts[c] = EmptyString \/ (lasts[c][1] = c /\ IsString(lasts[c]))

(* Reference definitions, over the string that a pointer points to.        *)
Bytes(m, p, n) == [i \in 1..n |-> At(m, Plus(p, i - 1))]
StringAt(m, p) == Bytes(m, p, strlen(m, p))
Least(p, hits) == IF hits = {} THEN Null ELSE Plus(p, Min(hits) - 1)
Greatest(p, hits) == IF hits = {} THEN Null ELSE Plus(p, Max(hits) - 1)
Span(s, D) == Max({k \in 0..Len(s) : \A i \in 1..k : s[i] \in D})
Before(a, b) ==
  \E i \in DOMAIN b :
    /\ \A j \in 1 .. i - 1 : j <= Len(a) /\ a[j] = b[j]
    /\ i > Len(a) \/ uchar(a[i]) < uchar(b[i])
Sign(a, b) == IF Before(a, b) THEN -1 ELSE IF Before(b, a) THEN 1 ELSE 0
Prefix(s, n) == SubSeq(s, 1, Min({n, Len(s)}))
Value(digits) == FoldLeft(+, 0, [i \in DOMAIN digits |-> (digits[i] - Digit) * 10^(Len(digits) - i)])

StringPointers == {p \in Readable : IsString(p)}
Settled == arg = <<>> /\ busy = {}

(* What a search function finds is the first, or last, place that the      *)
(* string as a whole defines, whatever calls made the string: strchr and   *)
(* strrchr when they are given a value of char (with another int strchr's  *)
(* loop and its return disagree about the conversion), memchr given any    *)
(* int, which stands for the character it is converted to.                 *)
SearchesAgree == Settled =>
  \A p \in StringPointers :
    LET s == StringAt(mem, p)
        all == Append(s, 0)
    IN /\ \A c \in Chars :
            /\ strchr(mem, p, c) = Least(p, {i \in DOMAIN all : all[i] = c})
            /\ strrchr(mem, p, c) = Greatest(p, {i \in DOMAIN all : all[i] = c})
       /\ \A c \in IntArgs, n \in 0..Room(p) :
            memchr(mem, p, c, n) = Least(p, {i \in 1..n : char(c) = Bytes(mem, p, n)[i]})
       /\ \A q \in StringPointers :
            LET t == StringAt(mem, q)
                D == ToSet(t)
            IN /\ strspn(mem, p, q) = Span(s, D)
               /\ strcspn(mem, p, q) = Span(s, Chars \ D)
               /\ strpbrk(mem, p, q) = Least(p, {i \in DOMAIN s : s[i] \in D})
               /\ strstr(mem, p, q) = Least(p, {i \in DOMAIN all : IsPrefix(t, SubSeq(all, i, Len(all)))})

(* A comparison is the order of the strings, or of their beginnings, with  *)
(* characters taken as unsigned.                                           *)
ComparisonsAgree == Settled =>
  \A p \in Readable, q \in Readable :
    /\ IsString(p) /\ IsString(q) =>
         /\ strcmp(mem, p, q) = Sign(StringAt(mem, p), StringAt(mem, q))
         /\ \A n \in 0..MaxCount :
              strncmp(mem, p, q, n) = Sign(Prefix(StringAt(mem, p), n), Prefix(StringAt(mem, q), n))
    /\ \A n \in 0 .. Min({Room(p), Room(q)}) :
         memcmp(mem, p, q, n) = Sign(Bytes(mem, p, n), Bytes(mem, q, n))

(* A copy changes the bytes of its destination, to what the source was     *)
(* before, and no others; also where memmove's source and destination      *)
(* overlap, and where a count cuts the source short or exceeds it.         *)
Overwritten(d, bytes) ==
  [mem EXCEPT ![d[1]] = [i \in DOMAIN @ |->
     IF i - d[2] + 1 \in DOMAIN bytes THEN bytes[i - d[2] + 1] ELSE @[i]]]
Padded(s, n) == [i \in 1..n |-> IF i <= Len(s) THEN s[i] ELSE 0]
Limited(p, n) == Bytes(mem, p, FirstIn({i \in Nat : i = n \/ At(mem, Plus(p, i)) = 0}))
CopiesAgree == Settled =>
  \A d \in Writable, s \in Readable, n \in 0..MaxCount :
    /\ MayMove(d, s, n) => memmove(mem, d, s, n) = Overwritten(d, Bytes(mem, s, n))
    /\ MayCopy(d, s, n) => memcpy(mem, d, s, n) = Overwritten(d, Bytes(mem, s, n))
    /\ MayCopyString(d, s, n) => strncpy(mem, d, s, n) = Overwritten(d, Padded(Limited(s, n), n))
    /\ MayAppend(d, s, n) =>
         strncat(mem, d, s, n) = Overwritten(d, StringAt(mem, d) \o Limited(s, n) \o <<0>>)
    /\ IsString(s) /\ MayAppend(d, s, strlen(mem, s)) =>
         strcat(mem, d, s) = Overwritten(d, StringAt(mem, d) \o StringAt(mem, s) \o <<0>>)

(* Interleaved tokenizations, by strtok with its static pointer and by     *)
(* strtok_r, and calls that write to other buffers: each client gets the   *)
(* tokens of its own string, and those it has keep their contents although *)
(* the string is cut up in place.                                          *)
Split == INSTANCE Tokenizer WITH
  Strings <- UNION {[1..n -> Chars \ {0}] : n \in UNION {0 .. Size[b] : b \in Buffers}},
  DelimiterSets <- {ToSet(StringAt([b \in {"literal"} |-> Literal], delimiters(D))) : D \in Delimiters},
  rest <- [c \in Clients |-> IF c \in busy THEN StringAt(mem, lasts[c]) ELSE <<>>],
  tokens <- [c \in Clients |->
    [i \in DOMAIN taken[c] |-> StringAt(mem, taken[c][i])]]
TakesTokens == Split!Spec

(* What a program that computes must be given.                             *)
ByteList(x, n) == [i \in 1..n |-> (x \div Base^(i - 1)) % Base]
ResultAgrees ==
  LET x == arg[1]
      y2 == arg[2]
      half == y2 \div 2
      product == FoldLeft(LAMBDA r, i : r * x, 1, [i \in 1..half |-> i])
  IN /\ result.abs = Max({x, -x}) /\ result.fabs = Max({x, -x})
     /\ (y2 % 2 = 0 /\ y2 >= 0) =>
          product = result.pow.sign * result.pow.x^(result.pow.y2 \div 2)
     /\ (x < 0 /\ y2 % 2 = 1) => result.pow = NaN
     /\ ByteList(result.bswap16, 2) = Reverse(ByteList(arg[3], 2))
     /\ ByteList(result.bswap32, 4) = Reverse(ByteList(arg[3], 4))
     /\ ByteList(result.bswap64, 8) = Reverse(ByteList(arg[3], 8))
     /\ bswap64(result.bswap64) = arg[3]

(* abs, fabs and pow have the sign and size that repeated multiplication   *)
(* gives, bswap reverses the bytes, in both directions, and atoi of any    *)
(* string in memory is the number its first digits write.                  *)
NumbersAgree ==
  /\ Settled => \A p \in StringPointers :
       LET s == StringAt(mem, p) IN atoi(mem, p) = Value(Prefix(s, Span(s, Digit .. Digit + 9)))
  /\ result # <<>> => ResultAgrees
=============================================================================
