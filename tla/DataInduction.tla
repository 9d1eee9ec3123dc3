---------------------------- MODULE DataInduction ----------------------------
(***************************************************************************)
(* Induction over the natural numbers in first-order form, from the fact   *)
(* that < is well founded, and what it shows of the library's FlattenSeq.  *)
(***************************************************************************)
EXTENDS Integers, Sequences, SequencesExt, SequenceTheorems,
        WellFoundedInduction, TLAPS

(* A set of natural numbers has a least element.                           *)
LEMMA LeastNumber ==
  ASSUME NEW T, T \subseteq Nat, T # {}
  PROVE  \E x \in T : \A y \in T : x <= y
<1> DEFINE R == OpToRel(<, Nat)
<1>1. IsWellFoundedOn(R, Nat)
  BY NatLessThanWellFounded
<1>2. \A x, y \in Nat : x < y => <<x, y>> \in R
  BY DEF OpToRel
<1> HIDE DEF R
<1>3. PICK x \in T : \A y \in T : ~(<<y, x>> \in R)
  BY <1>1, WFMin
<1>4. ASSUME NEW y \in T PROVE x <= y
  <2>1. x \in Nat /\ y \in Nat /\ ~(<<y, x>> \in R)
    BY <1>3
  <2>2. ~(y < x)
    BY <2>1, <1>2, Zenon
  <2> QED
    BY <2>1, <2>2
<1> QED
  BY <1>4

(* Induction, for the set of the numbers that have the property.           *)
LEMMA Induction ==
  ASSUME NEW S, 0 \in S, \A n \in Nat : n \in S => n + 1 \in S
  PROVE  Nat \subseteq S
<1> SUFFICES ASSUME NEW n \in Nat, n \notin S
             PROVE  FALSE
  OBVIOUS
<1> DEFINE T == Nat \ S
<1>1. T \subseteq Nat /\ T # {}
  OBVIOUS
<1>2. PICK x \in T : \A y \in T : x <= y
  <2> HIDE DEF T
  <2> QED
    BY <1>1, LeastNumber
<1>3. x \in Nat /\ x \notin S /\ x # 0
  OBVIOUS
<1>4. x - 1 \in Nat /\ ~(x <= x - 1)
  BY <1>3
<1>5. x - 1 \in S
  BY <1>4, <1>2
<1>6. (x - 1) + 1 \in S
  BY <1>4, <1>5
<1>7. (x - 1) + 1 = x
  BY <1>3
<1> QED
  BY <1>3, <1>6, <1>7

(* Induction up to n.                                                      *)
LEMMA BoundedInduction ==
  ASSUME NEW S, NEW n \in Nat, 0 \in S,
         \A i \in 0 .. n : i \in S /\ i < n => i + 1 \in S
  PROVE  0 .. n \subseteq S
<1> DEFINE T == {i \in Nat : i <= n => i \in S}
<1>1. 0 \in T
  OBVIOUS
<1>2. ASSUME NEW i \in Nat, i \in T
      PROVE  i + 1 \in T
  <2>1. CASE i < n
    <3>1. i \in 0 .. n /\ i \in S
      BY <1>2, <2>1
    <3>2. i + 1 \in S
      BY <2>1, <3>1
    <3> QED
      BY <3>2
  <2>2. CASE ~(i < n)
    BY <2>2
  <2> QED
    BY <2>1, <2>2
<1>3. Nat \subseteq T
  <2> HIDE DEF T
  <2> QED
    BY <1>1, <1>2, Induction
<1> QED
  BY <1>3

-----------------------------------------------------------------------------
(* Sequences.                                                              *)

LEMMA EmptyLaws ==
  ASSUME NEW S
  PROVE  /\ <<>> \in Seq(S) /\ Len(<<>>) = 0
         /\ \A s \in Seq(S) : s \o <<>> = s /\ <<>> \o s = s
         /\ \A s \in Seq(S) : Len(s) = 0 => s = <<>>
OBVIOUS

LEMMA FirstAppend ==
  ASSUME NEW x
  PROVE  Append(<<>>, x) = <<x>>
OBVIOUS

LEMMA FunctionSeq ==
  ASSUME NEW S, NEW n \in Nat, NEW f \in [1 .. n -> S]
  PROVE  f \in Seq(S) /\ Len(f) = n
OBVIOUS

LEMMA ShortSeqs ==
  ASSUME NEW S, NEW x \in S, NEW y \in S, NEW z \in S
  PROVE  <<x>> \in Seq(S) /\ <<x, y>> \in Seq(S) /\ <<x, y, z>> \in Seq(S)
OBVIOUS

LEMMA ConcatLaws ==
  ASSUME NEW S, NEW a \in Seq(S), NEW b \in Seq(S)
  PROVE  /\ a \o b \in Seq(S)
         /\ Len(a \o b) = Len(a) + Len(b)
         /\ \A i \in 1 .. Len(a) : (a \o b)[i] = a[i]
         /\ \A i \in 1 .. Len(b) : (a \o b)[Len(a) + i] = b[i]
OBVIOUS

LEMMA ConcatIndex ==
  ASSUME NEW S, NEW a \in Seq(S), NEW b \in Seq(S), NEW i \in 1 .. Len(a) + Len(b)
  PROVE  /\ i <= Len(a) => (a \o b)[i] = a[i]
         /\ i > Len(a) => (a \o b)[i] = b[i - Len(a)] /\ i - Len(a) \in 1 .. Len(b)
OBVIOUS

LEMMA ConcatAssoc ==
  ASSUME NEW S, NEW a \in Seq(S), NEW b \in Seq(S), NEW c \in Seq(S)
  PROVE  (a \o b) \o c = a \o (b \o c)
OBVIOUS

LEMMA ConcatOne ==
  ASSUME NEW S, NEW a \in Seq(S), NEW x \in S
  PROVE  a \o <<x>> = Append(a, x)
OBVIOUS

LEMMA ShortConcats ==
  ASSUME NEW S, NEW x \in S, NEW y \in S, NEW z \in S
  PROVE  <<x>> \o <<y>> = <<x, y>> /\ <<x, y>> \o <<z>> = <<x, y, z>>
<1>1. PICK a \in Seq(S) : a = <<x>>
  BY ShortSeqs
<1>2. PICK b \in Seq(S), c \in Seq(S) : b = <<x, y>> /\ c = <<x, y, z>>
  BY ShortSeqs
<1>3. a \o <<y>> = b
  <2>1. PICK f : f = Append(a, y)
    OBVIOUS
  <2>2. Len(a) = 1 /\ a[1] = x
    BY <1>1
  <2>3. f \in Seq(S) /\ Len(f) = 2 /\ f[1] = x /\ f[2] = y
    <3>1. /\ f \in Seq(S) /\ Len(f) = Len(a) + 1 /\ f[Len(a) + 1] = y
          /\ \A i \in 1 .. Len(a) : f[i] = a[i]
      BY <2>1
    <3> QED
      BY <2>2, <3>1
  <2>4. Len(b) = 2 /\ b[1] = x /\ b[2] = y
    BY <1>2
  <2>5. \A i \in 1 .. 2 : f[i] = b[i]
    BY <2>3, <2>4
  <2>6. f = b
    BY <2>3, <2>4, <2>5, SeqEqual
  <2> QED
    BY <2>1, <2>6, ConcatOne
<1>4. b \o <<z>> = c
  <2>1. PICK f : f = Append(b, z)
    OBVIOUS
  <2>2. Len(b) = 2 /\ b[1] = x /\ b[2] = y
    BY <1>2
  <2>3. f \in Seq(S) /\ Len(f) = 3 /\ f[1] = x /\ f[2] = y /\ f[3] = z
    <3>1. /\ f \in Seq(S) /\ Len(f) = Len(b) + 1 /\ f[Len(b) + 1] = z
          /\ \A i \in 1 .. Len(b) : f[i] = b[i]
      BY <2>1
    <3> QED
      BY <2>2, <3>1
  <2>4. Len(c) = 3 /\ c[1] = x /\ c[2] = y /\ c[3] = z
    BY <1>2
  <2>5. \A i \in 1 .. 3 : f[i] = c[i]
    BY <2>3, <2>4
  <2>6. f = c
    BY <2>3, <2>4, <2>5, SeqEqual
  <2> QED
    BY <2>1, <2>6, ConcatOne
<1> QED
  BY <1>1, <1>2, <1>3, <1>4, Zenon

-----------------------------------------------------------------------------
(* FlattenSeq.                                                             *)

LEMMA FlattenExists ==
  ASSUME NEW ss, NEW n \in Nat
  PROVE  \E f : f = [i \in 1 .. n |-> IF i = 1 THEN ss[i] ELSE f[i - 1] \o ss[i]]
<1> DEFINE S == {m \in Nat : \E f : f = [i \in 1 .. m |-> IF i = 1 THEN ss[i] ELSE f[i - 1] \o ss[i]]}
<1>1. 0 \in S
  <2> DEFINE f == [i \in 1 .. 0 |-> 0]
  <2>1. f = [i \in 1 .. 0 |-> IF i = 1 THEN ss[i] ELSE f[i - 1] \o ss[i]]
    OBVIOUS
  <2> QED BY <2>1
<1>2. ASSUME NEW m \in Nat, m \in S PROVE m + 1 \in S
  <2>1. PICK f : f = [i \in 1 .. m |-> IF i = 1 THEN ss[i] ELSE f[i - 1] \o ss[i]]
    BY <1>2
  <2>a. \A i \in 1 .. m : f[i] = IF i = 1 THEN ss[i] ELSE f[i - 1] \o ss[i]
    BY <2>1, Zenon
  <2> DEFINE g == [i \in 1 .. m + 1 |-> IF i <= m THEN f[i] ELSE IF i = 1 THEN ss[i] ELSE f[m] \o ss[i]]
  <2>2. g = [i \in 1 .. m + 1 |-> IF i = 1 THEN ss[i] ELSE g[i - 1] \o ss[i]]
    <3>1. ASSUME NEW i \in 1 .. m + 1 PROVE g[i] = IF i = 1 THEN ss[i] ELSE g[i - 1] \o ss[i]
      <4>1. CASE i <= m
        <5>1. g[i] = f[i]  BY <4>1
        <5>2. i # 1 => g[i - 1] = f[i - 1] BY <4>1
        <5>3. f[i] = IF i = 1 THEN ss[i] ELSE f[i - 1] \o ss[i] BY <4>1, <2>a
        <5> QED BY <5>1, <5>2, <5>3
      <4>2. CASE i = m + 1
        <5>1. g[i] = IF i = 1 THEN ss[i] ELSE f[m] \o ss[i] BY <4>2
        <5>2. i # 1 => g[i - 1] = f[m] BY <4>2
        <5> QED BY <5>1, <5>2
      <4> QED BY <4>1, <4>2
    <3> QED BY <3>1
  <2> HIDE DEF g
  <2>3. \E h : h = [i \in 1 .. m + 1 |-> IF i = 1 THEN ss[i] ELSE h[i - 1] \o ss[i]]
    BY <2>2
  <2>4. m + 1 \in Nat OBVIOUS
  <2> QED BY <2>3, <2>4, Zenon
<1> HIDE DEF S
<1>3. Nat \subseteq S
  BY <1>1, <1>2, Induction
<1>4. n \in S BY <1>3
<1> QED BY <1>4 DEF S

LEMMA FlattenDef ==
  ASSUME NEW T, NEW ss \in Seq(T), ss # <<>>
  PROVE \E f : /\ f = [i \in 1 .. Len(ss) |-> IF i = 1 THEN ss[i] ELSE f[i - 1] \o ss[i]]
               /\ FlattenSeq(ss) = f[Len(ss)]
<1> DEFINE f == CHOOSE f : f = [i \in 1 .. Len(ss) |-> IF i = 1 THEN ss[i] ELSE f[i - 1] \o ss[i]]
<1>1. f = [i \in 1 .. Len(ss) |-> IF i = 1 THEN ss[i] ELSE f[i - 1] \o ss[i]]
  <2>1. Len(ss) \in Nat OBVIOUS
  <2>2. \E g : g = [i \in 1 .. Len(ss) |-> IF i = 1 THEN ss[i] ELSE g[i - 1] \o ss[i]]
    BY <2>1, FlattenExists
  <2> QED BY <2>2
<1>2. FlattenSeq(ss) = f[Len(ss)]
  <2>1. Len(ss) # 0 OBVIOUS
  <2> QED BY <2>1 DEF FlattenSeq
<1> QED BY <1>1, <1>2

(* The prefixes of a sequence of sequences, flattened.                     *)
LEMMA FlattenPrefixes ==
  ASSUME NEW S, NEW ss \in Seq(Seq(S))
  PROVE  \E F \in [0 .. Len(ss) -> Seq(S)] :
           /\ F[0] = <<>>
           /\ \A i \in 1 .. Len(ss) : F[i] = F[i - 1] \o ss[i]
           /\ FlattenSeq(ss) = F[Len(ss)]
<1>n. Len(ss) \in Nat /\ \A i \in 1 .. Len(ss) : ss[i] \in Seq(S)
  OBVIOUS
<1>1. CASE ss = <<>>
  <2> DEFINE F == [i \in 0 .. 0 |-> <<>>]
  <2>1. Len(ss) = 0 /\ FlattenSeq(ss) = <<>>
    BY <1>1 DEF FlattenSeq
  <2>2. F \in [0 .. 0 -> Seq(S)] /\ F[0] = <<>>
    BY EmptyLaws
  <2> HIDE DEF F
  <2>3. F \in [0 .. Len(ss) -> Seq(S)] /\ FlattenSeq(ss) = F[Len(ss)]
    BY <2>1, <2>2
  <2>4. \A i \in 1 .. Len(ss) : F[i] = F[i - 1] \o ss[i]
    BY <2>1
  <2> QED
    BY <2>2, <2>3, <2>4, Zenon
<1>2. CASE ss # <<>>
  <2>1. PICK f : /\ f = [i \in 1 .. Len(ss) |-> IF i = 1 THEN ss[i] ELSE f[i - 1] \o ss[i]]
                 /\ FlattenSeq(ss) = f[Len(ss)]
    BY <1>2, FlattenDef
  <2>2. \A i \in 1 .. Len(ss) : f[i] = IF i = 1 THEN ss[i] ELSE f[i - 1] \o ss[i]
    BY <2>1, Zenon
  <2> DEFINE F == [i \in 0 .. Len(ss) |-> IF i = 0 THEN <<>> ELSE f[i]]
  <2> DEFINE T == {i \in 0 .. Len(ss) : F[i] \in Seq(S)}
  <2>3. F[0] = <<>>
    BY <1>n
  <2>4. \A i \in 1 .. Len(ss) : i - 1 \in 0 .. Len(ss) /\ F[i] = f[i]
    BY <1>n
  <2>5. ASSUME NEW i \in 1 .. Len(ss)
        PROVE  F[i] = F[i - 1] \o ss[i]
    <3>1. CASE i = 1
      <4>1. F[i] = ss[i] /\ F[i - 1] = <<>>
        BY <2>2, <2>3, <2>4, <3>1
      <4> QED
        BY <4>1, <1>n, EmptyLaws
    <3>2. CASE i # 1
      <4>1. i - 1 \in 1 .. Len(ss)
        BY <1>n, <3>2
      <4>2. F[i] = f[i] /\ F[i - 1] = f[i - 1]
        BY <2>4, <4>1
      <4> QED
        BY <2>2, <3>2, <4>2
    <3> QED
      BY <3>1, <3>2
  <2> HIDE DEF F
  <2>6. 0 .. Len(ss) \subseteq T
    <3>1. 0 \in T
      <4>1. 0 \in 0 .. Len(ss) /\ F[0] \in Seq(S)
        BY <1>n, <2>3, EmptyLaws
      <4> QED
        BY <4>1, Zenon
    <3>2. ASSUME NEW i \in 0 .. Len(ss), i \in T, i < Len(ss)
          PROVE  i + 1 \in T
      <4>1. i + 1 \in 1 .. Len(ss) /\ (i + 1) - 1 = i
        BY <1>n, <3>2
      <4>2. F[i + 1] = F[i] \o ss[i + 1]
        BY <2>5, <4>1
      <4>3. F[i] \in Seq(S) /\ ss[i + 1] \in Seq(S)
        BY <1>n, <3>2, <4>1
      <4>4. F[i] \o ss[i + 1] \in Seq(S)
        BY <4>3, ConcatLaws
      <4>5. i + 1 \in 0 .. Len(ss) /\ F[i + 1] \in Seq(S)
        BY <1>n, <4>1, <4>2, <4>4
      <4> QED
        BY <4>5, Zenon
    <3> HIDE DEF T
    <3> QED
      BY <1>n, <3>1, <3>2, BoundedInduction
  <2>7. F \in [0 .. Len(ss) -> Seq(S)]
    <3>1. \A i \in 0 .. Len(ss) : F[i] \in Seq(S)
      BY <2>6
    <3>2. F = [i \in 0 .. Len(ss) |-> F[i]]
      BY DEF F
    <3> QED
      BY <3>1, <3>2
  <2>8. Len(ss) \in 1 .. Len(ss)
    BY <1>2, <1>n
  <2>9. FlattenSeq(ss) = F[Len(ss)]
    BY <2>1, <2>4, <2>8
  <2> QED
    BY <2>3, <2>5, <2>7, <2>9
<1> QED
  BY <1>1, <1>2

LEMMA FlattenType ==
  ASSUME NEW S, NEW ss \in Seq(Seq(S))
  PROVE  FlattenSeq(ss) \in Seq(S)
<1>1. PICK F \in [0 .. Len(ss) -> Seq(S)] : FlattenSeq(ss) = F[Len(ss)]
  BY FlattenPrefixes
<1>2. Len(ss) \in 0 .. Len(ss)
  OBVIOUS
<1> QED
  BY <1>1, <1>2

(* Sequences that are flattened alike, part by part.                       *)
LEMMA FlattenUnique ==
  ASSUME NEW S, NEW ss \in Seq(Seq(S)), NEW base \in Seq(S),
         NEW n \in Nat, NEW G, G[0] = base, n = Len(ss),
         \A i \in 1 .. n : G[i] = G[i - 1] \o ss[i]
  PROVE  G[n] = base \o FlattenSeq(ss)
<1>1. PICK F \in [0 .. n -> Seq(S)] :
        /\ F[0] = <<>>
        /\ \A i \in 1 .. n : F[i] = F[i - 1] \o ss[i]
        /\ FlattenSeq(ss) = F[n]
  BY FlattenPrefixes
<1> DEFINE T == {i \in 0 .. n : G[i] = base \o F[i]}
<1>2. 0 \in T
  BY <1>1, EmptyLaws
<1>3. ASSUME NEW i \in 0 .. n, i \in T, i < n
      PROVE  i + 1 \in T
  <2>1. i + 1 \in 1 .. n /\ (i + 1) - 1 = i
    BY <1>3
  <2>2. ss[i + 1] \in Seq(S) /\ F[i] \in Seq(S)
    <3>1. ss[i + 1] \in Seq(S)
      BY <2>1, ElementOfSeq
    <3>2. F[i] \in Seq(S)
      BY <1>1
    <3> QED
      BY <3>1, <3>2
  <2>3. G[i + 1] = G[i] \o ss[i + 1] /\ F[i + 1] = F[i] \o ss[i + 1]
    BY <1>1, <2>1
  <2>4. (base \o F[i]) \o ss[i + 1] = base \o (F[i] \o ss[i + 1])
    <3>1. \A b, c \in Seq(S) : (base \o b) \o c = base \o (b \o c)
      BY ConcatAssoc, SMTT(30)
    <3> QED
      BY <2>2, <3>1, Zenon
  <2>5. G[i] = base \o F[i]
    BY <1>3
  <2>6. G[i + 1] = base \o F[i + 1]
    BY <2>3, <2>4, <2>5, Zenon
  <2>7. i + 1 \in 0 .. n
    BY <2>1
  <2> QED
    BY <2>6, <2>7, Zenon
<1>4. n \in T
  <2> HIDE DEF T
  <2>1. 0 .. n \subseteq T
    BY <1>2, <1>3, BoundedInduction
  <2> QED
    BY <2>1
<1> QED
  BY <1>1, <1>4

LEMMA FlattenConcat ==
  ASSUME NEW S, NEW ss \in Seq(Seq(S)), NEW tt \in Seq(Seq(S))
  PROVE  FlattenSeq(ss \o tt) = FlattenSeq(ss) \o FlattenSeq(tt)
<1> DEFINE uu == ss \o tt
           n == Len(ss)
           m == Len(tt)
<1>1. uu \in Seq(Seq(S)) /\ Len(uu) = n + m /\ n \in Nat /\ m \in Nat
  BY ConcatLaws
<1>2. /\ \A i \in 1 .. n : uu[i] = ss[i]
      /\ \A i \in 1 .. m : uu[n + i] = tt[i]
  BY ConcatLaws
<1> HIDE DEF uu, n, m
<1>3. PICK H \in [0 .. n + m -> Seq(S)] :
        /\ H[0] = <<>>
        /\ \A i \in 1 .. n + m : H[i] = H[i - 1] \o uu[i]
        /\ FlattenSeq(uu) = H[n + m]
  BY <1>1, FlattenPrefixes, ZenonT(60)
<1>4. H[n] = FlattenSeq(ss)
  <2>1. ASSUME NEW i \in 1 .. n
        PROVE  H[i] = H[i - 1] \o ss[i]
    <3>1. i \in 1 .. n + m
      BY <1>1
    <3> QED
      BY <1>2, <1>3, <3>1, Zenon
  <2>2. <<>> \in Seq(S) /\ n = Len(ss)
    BY EmptyLaws DEF n
  <2>3. H[n] = <<>> \o FlattenSeq(ss)
    BY <1>1, <1>3, <2>1, <2>2, FlattenUnique
  <2> QED
    BY <2>3, FlattenType, EmptyLaws
<1> DEFINE G == [i \in 0 .. m |-> H[n + i]]
<1>5. G[0] = H[n] /\ G[m] = H[n + m]
  BY <1>1
<1>6. ASSUME NEW i \in 1 .. m
      PROVE  G[i] = G[i - 1] \o tt[i]
  <2>1. /\ n + i \in 1 .. n + m /\ (n + i) - 1 = n + (i - 1)
        /\ i \in 0 .. m /\ i - 1 \in 0 .. m
    BY <1>1
  <2>2. G[i] = H[n + i] /\ G[i - 1] = H[n + (i - 1)]
    BY <2>1
  <2>3. H[n + i] = H[(n + i) - 1] \o uu[n + i]
    BY <1>3, <2>1
  <2> QED
    BY <1>2, <2>1, <2>2, <2>3
<1> HIDE DEF G
<1>7. H[n] \in Seq(S) /\ m = Len(tt)
  BY <1>4, FlattenType DEF m
<1>8. G[m] = H[n] \o FlattenSeq(tt)
  BY <1>1, <1>5, <1>6, <1>7, FlattenUnique
<1> QED
  BY <1>3, <1>4, <1>5, <1>8 DEF uu

LEMMA FlattenOne ==
  ASSUME NEW S, NEW s \in Seq(S)
  PROVE  FlattenSeq(<<s>>) = s /\ FlattenSeq(<<>>) = <<>>
<1> DEFINE G == [i \in 0 .. 1 |-> IF i = 0 THEN <<>> ELSE s]
           ss == <<s>>
<1>1. G[0] = <<>> /\ G[1] = s
  OBVIOUS
<1>2. ss \in Seq(Seq(S)) /\ Len(ss) = 1 /\ ss[1] = s
  OBVIOUS
<1> HIDE DEF G, ss
<1>3. <<>> \in Seq(S) /\ <<>> \o s = s
  BY EmptyLaws
<1>4. \A i \in 1 .. 1 : G[i] = G[i - 1] \o ss[i]
  BY <1>1, <1>2, <1>3
<1>5. G[1] = <<>> \o FlattenSeq(ss)
  BY <1>1, <1>2, <1>3, <1>4, FlattenUnique
<1>6. FlattenSeq(ss) = s
  BY <1>1, <1>2, <1>5, FlattenType, EmptyLaws
<1>7. FlattenSeq(<<>>) = <<>>
  BY DEF FlattenSeq
<1> QED
  BY <1>6, <1>7 DEF ss

(* The first part, and the rest.                                           *)
LEMMA FlattenCons ==
  ASSUME NEW S, NEW ss \in Seq(Seq(S)), NEW i \in 1 .. Len(ss)
  PROVE  FlattenSeq(SubSeq(ss, i, Len(ss)))
           = ss[i] \o FlattenSeq(SubSeq(ss, i + 1, Len(ss)))
<1>1. /\ SubSeq(ss, i, Len(ss)) = <<ss[i]>> \o SubSeq(ss, i + 1, Len(ss))
      /\ <<ss[i]>> \in Seq(Seq(S)) /\ ss[i] \in Seq(S)
      /\ SubSeq(ss, i + 1, Len(ss)) \in Seq(Seq(S))
  OBVIOUS
<1>2. FlattenSeq(<<ss[i]>>) = ss[i]
  BY <1>1, FlattenOne
<1> QED
  BY <1>1, <1>2, FlattenConcat

(* Parts of the same lengths give a result of the same length.             *)
LEMMA FlattenLength ==
  ASSUME NEW S, NEW ss \in Seq(Seq(S)), NEW tt \in Seq(Seq(S)),
         Len(ss) = Len(tt), \A i \in 1 .. Len(ss) : Len(ss[i]) = Len(tt[i])
  PROVE  Len(FlattenSeq(ss)) = Len(FlattenSeq(tt))
<1> DEFINE n == Len(ss)
<1>1. n \in Nat
  OBVIOUS
<1>2. PICK F \in [0 .. n -> Seq(S)] :
        /\ F[0] = <<>>
        /\ \A i \in 1 .. n : F[i] = F[i - 1] \o ss[i]
        /\ FlattenSeq(ss) = F[n]
  BY FlattenPrefixes
<1>3. PICK G \in [0 .. n -> Seq(S)] :
        /\ G[0] = <<>>
        /\ \A i \in 1 .. n : G[i] = G[i - 1] \o tt[i]
        /\ FlattenSeq(tt) = G[n]
  BY FlattenPrefixes
<1>4. \A i \in 1 .. n : ss[i] \in Seq(S) /\ tt[i] \in Seq(S)
  BY ElementOfSeq
<1> DEFINE T == {i \in 0 .. n : Len(F[i]) = Len(G[i])}
<1> HIDE DEF n
<1>5. 0 \in T
  BY <1>1, <1>2, <1>3
<1>6. ASSUME NEW i \in 0 .. n, i \in T, i < n
      PROVE  i + 1 \in T
  <2>1. i + 1 \in 1 .. n /\ (i + 1) - 1 = i /\ i + 1 \in 0 .. n
    BY <1>1, <1>6
  <2>2. /\ F[i] \in Seq(S) /\ ss[i + 1] \in Seq(S) /\ F[i + 1] = F[i] \o ss[i + 1]
        /\ G[i] \in Seq(S) /\ tt[i + 1] \in Seq(S) /\ G[i + 1] = G[i] \o tt[i + 1]
    BY <1>2, <1>3, <1>4, <2>1
  <2>3. /\ Len(F[i + 1]) = Len(F[i]) + Len(ss[i + 1])
        /\ Len(G[i + 1]) = Len(G[i]) + Len(tt[i + 1])
    BY <2>2, ConcatLaws
  <2>4. Len(F[i]) = Len(G[i]) /\ Len(ss[i + 1]) = Len(tt[i + 1])
    BY <1>6, <2>1 DEF n
  <2>5. Len(F[i + 1]) = Len(G[i + 1])
    BY <2>3, <2>4, Zenon
  <2> QED
    BY <2>1, <2>5, Zenon
<1>7. n \in T
  <2> HIDE DEF T
  <2>1. 0 .. n \subseteq T
    BY <1>1, <1>5, <1>6, BoundedInduction
  <2> QED
    BY <1>1, <2>1
<1> QED
  BY <1>2, <1>3, <1>7

-----------------------------------------------------------------------------
(* Reading from a pipe: a was written, r is still to come, p is read.      *)
After(s, n) == SubSeq(s, n + 1, Len(s))

LEMMA TakePrefix ==
  ASSUME NEW S, NEW a \in Seq(S), NEW r \in Seq(S), NEW p \in Seq(S), NEW q \in Seq(S),
         a \o r = p \o q, Len(p) <= Len(a)
  PROVE  SubSeq(a, 1, Len(p)) = p
<1>1. \A i \in 1 .. Len(p) : a[i] = p[i]
  <2> TAKE i \in 1 .. Len(p)
  <2>1. (a \o r)[i] = a[i] /\ (p \o q)[i] = p[i]
    OBVIOUS
  <2> QED
    BY <2>1
<1>2. SubSeq(a, 1, Len(p)) \in Seq(S) /\ Len(SubSeq(a, 1, Len(p))) = Len(p)
  BY SubSeqProperties
<1>3. \A i \in 1 .. Len(p) : SubSeq(a, 1, Len(p))[i] = p[i]
  BY <1>1
<1> QED
  BY <1>2, <1>3, SeqEqual

LEMMA TakeRest ==
  ASSUME NEW S, NEW a \in Seq(S), NEW r \in Seq(S), NEW p \in Seq(S), NEW q \in Seq(S),
         a \o r = p \o q, Len(p) <= Len(a)
  PROVE  After(a, Len(p)) \in Seq(S) /\ After(a, Len(p)) \o r = q
<1> DEFINE b == SubSeq(a, Len(p) + 1, Len(a))
<1>1. b \in Seq(S) /\ Len(b) = Len(a) - Len(p)
  BY SubSeqProperties
<1>2. Len(a) + Len(r) = Len(p) + Len(q)
  BY ConcatLaws
<1>3. b \o r \in Seq(S) /\ Len(b \o r) = Len(q)
  BY <1>1, <1>2, ConcatLaws
<1>4. ASSUME NEW i \in 1 .. Len(q)
      PROVE  (b \o r)[i] = q[i]
  <2>1. (p \o q)[Len(p) + i] = q[i]
    OBVIOUS
  <2>2. CASE i <= Len(b)
    <3>1. (b \o r)[i] = b[i] /\ b[i] = a[Len(p) + i]
      BY <1>1, <2>2
    <3>2. (a \o r)[Len(p) + i] = a[Len(p) + i]
      BY <1>1, <2>2
    <3> QED
      BY <2>1, <3>1, <3>2
  <2>3. CASE i > Len(b)
    <3>0. Len(a) \in Nat /\ Len(p) \in Nat /\ Len(q) \in Nat /\ Len(r) \in Nat
      OBVIOUS
    <3> HIDE DEF b
    <3>1. (b \o r)[i] = r[i - Len(b)]
      <4>1. i \in 1 .. Len(b) + Len(r)
        BY <1>1, <1>2, <3>0
      <4> QED
        BY <1>1, <2>3, <4>1, ConcatIndex, SMTT(30)
    <3>2. (a \o r)[Len(p) + i] = r[Len(p) + i - Len(a)]
      <4>1. Len(p) + i \in 1 .. Len(a) + Len(r) /\ Len(p) + i > Len(a)
        BY <1>1, <1>2, <2>3, <3>0
      <4> QED
        BY <4>1, ConcatIndex
    <3>3. i - Len(b) = Len(p) + i - Len(a)
      BY <1>1, <3>0
    <3> QED
      BY <2>1, <3>1, <3>2, <3>3
  <2> QED
    BY <1>1, <2>2, <2>3
<1>5. b \o r = q
  <2> HIDE DEF b
  <2> QED
    BY <1>3, <1>4, SeqEqual
<1> QED
  BY <1>1, <1>5 DEF After

(* A part of s, cut at j.                                                  *)
Splits(S, s, i, j, n) ==
  /\ SubSeq(s, i + 1, n) = SubSeq(s, i + 1, j) \o SubSeq(s, j + 1, n)
  /\ SubSeq(s, i + 1, j) \in Seq(S) /\ Len(SubSeq(s, i + 1, j)) = j - i
  /\ \A x \in 1 .. j - i : SubSeq(s, i + 1, j)[x] = s[i + x]
  /\ SubSeq(s, j + 1, n) \in Seq(S) /\ Len(SubSeq(s, j + 1, n)) = n - j

LEMMA SplitSubSeq ==
  ASSUME NEW S, NEW s \in Seq(S), NEW i \in Nat, NEW j \in Nat, NEW n \in Nat,
         i <= j, j <= n, n <= Len(s)
  PROVE  Splits(S, s, i, j, n)
<1> DEFINE a == SubSeq(s, i + 1, j)
           b == SubSeq(s, j + 1, n)
           c == SubSeq(s, i + 1, n)
<1>1. a \in Seq(S) /\ Len(a) = j - i /\ \A x \in 1 .. j - i : a[x] = s[i + x]
  BY SubSeqProperties
<1>2. b \in Seq(S) /\ Len(b) = n - j /\ \A x \in 1 .. n - j : b[x] = s[j + x]
  BY SubSeqProperties
<1>3. c \in Seq(S) /\ Len(c) = n - i /\ \A x \in 1 .. n - i : c[x] = s[i + x]
  BY SubSeqProperties
<1> HIDE DEF a, b, c
<1>4. a \o b \in Seq(S) /\ Len(a \o b) = n - i
  BY <1>1, <1>2
<1>5. ASSUME NEW x \in 1 .. n - i
      PROVE  (a \o b)[x] = c[x]
  <2>1. CASE x <= j - i
    <3>1. (a \o b)[x] = a[x]
      BY <1>1, <1>2, <2>1
    <3> QED
      BY <1>1, <1>3, <2>1, <3>1
  <2>2. CASE x > j - i
    <3>1. (a \o b)[x] = b[x - (j - i)]
      <4>1. x \in 1 .. Len(a) + Len(b) /\ x > Len(a)
        BY <1>1, <1>2, <2>2
      <4>2. (a \o b)[x] = b[x - Len(a)]
        BY <1>1, <1>2, <4>1, ConcatIndex, SMTT(30)
      <4> QED
        BY <1>1, <4>2
    <3>2. b[x - (j - i)] = s[j + (x - (j - i))] /\ j + (x - (j - i)) = i + x
      BY <1>2, <2>2
    <3> QED
      BY <1>3, <3>1, <3>2
  <2>3. x \in Int /\ i \in Int /\ j \in Int
    BY <1>1
  <2>4. x <= j - i \/ x > j - i
    BY <2>3
  <2> QED
    BY <2>1, <2>2, <2>4
<1>6. a \o b = c
  BY <1>3, <1>4, <1>5, SeqEqual
<1> QED
  BY <1>1, <1>2, <1>6 DEF a, b, c, Splits

(* A piece p of s, c long, behind the first i elements.                    *)
Piece(S, s, i, c, p) ==
  /\ p \in Seq(S) /\ Len(p) = c
  /\ \A x \in 1 .. c : p[x] = s[i + x]
  /\ SubSeq(s, i + c + 1, Len(s)) \in Seq(S)
  /\ SubSeq(s, i + 1, Len(s)) = p \o SubSeq(s, i + c + 1, Len(s))

LEMMA TakePiece ==
  ASSUME NEW S, NEW s \in Seq(S), NEW i \in Nat, NEW c \in Nat, i + c <= Len(s)
  PROVE  Piece(S, s, i, c, SubSeq(s, i + 1, i + c))
<1> DEFINE p == SubSeq(s, i + 1, i + c)
           b == SubSeq(s, i + c + 1, Len(s))
<1>1. i <= i + c /\ i + c \in Nat /\ Len(s) \in Nat /\ Len(s) <= Len(s)
  OBVIOUS
<1>2. Splits(S, s, i, i + c, Len(s))
  BY <1>1, SplitSubSeq
<1>3. p \in Seq(S) /\ b \in Seq(S) /\ SubSeq(s, i + 1, Len(s)) = p \o b
  BY <1>2, Zenon DEF Splits
<1>4. Len(p) = c
  BY <1>1, SubSeqProperties
<1>5. \A x \in 1 .. c : p[x] = s[i + x]
  BY <1>1, SubSeqProperties
<1> QED
  BY <1>3, <1>4, <1>5, Zenon DEF Piece

LEMMA WholeSeq ==
  ASSUME NEW S, NEW s \in Seq(S)
  PROVE  SubSeq(s, 1, Len(s)) = s /\ SubSeq(s, Len(s) + 1, Len(s)) = <<>>
<1>1. SubSeq(s, 1, Len(s)) = s
  <2> DEFINE a == SubSeq(s, 1, Len(s))
  <2>1. a \in Seq(S) /\ Len(a) = Len(s) /\ \A i \in 1 .. Len(s) : a[i] = s[i]
    BY SubSeqProperties
  <2> HIDE DEF a
  <2> QED
    BY <2>1, SeqEqual DEF a
<1>2. SubSeq(s, Len(s) + 1, Len(s)) = <<>>
  OBVIOUS
<1> QED
  BY <1>1, <1>2

LEMMA ConcatThree ==
  ASSUME NEW S, NEW a \in Seq(S), NEW p \in Seq(S), NEW b \in Seq(S)
  PROVE  /\ (a \o p) \o b \in Seq(S)
         /\ Len((a \o p) \o b) = Len(a) + Len(p) + Len(b)
         /\ \A j \in 1 .. Len(a) : ((a \o p) \o b)[j] = a[j]
         /\ \A j \in 1 .. Len(p) : ((a \o p) \o b)[Len(a) + j] = p[j]
         /\ \A j \in 1 .. Len(b) : ((a \o p) \o b)[Len(a) + Len(p) + j] = b[j]
<1> DEFINE c == a \o p
<1>1. /\ c \in Seq(S) /\ Len(c) = Len(a) + Len(p)
      /\ Len(a) \in Nat /\ Len(p) \in Nat /\ Len(b) \in Nat
      /\ \A j \in 1 .. Len(a) : c[j] = a[j]
      /\ \A j \in 1 .. Len(p) : c[Len(a) + j] = p[j]
  OBVIOUS
<1> HIDE DEF c
<1>2. /\ c \o b \in Seq(S) /\ Len(c \o b) = Len(c) + Len(b)
      /\ \A j \in 1 .. Len(c) : (c \o b)[j] = c[j]
      /\ \A j \in 1 .. Len(b) : (c \o b)[Len(c) + j] = b[j]
  <2>1. c \in Seq(S)
    BY <1>1
  <2> QED
    BY <2>1
<1> DEFINE t == c \o b
<1> HIDE DEF t
<1>3. \A j \in 1 .. Len(a) : t[j] = a[j]
  BY <1>1, <1>2 DEF t
<1>4. \A j \in 1 .. Len(p) : t[Len(a) + j] = p[j]
  BY <1>1, <1>2 DEF t
<1>5. \A j \in 1 .. Len(b) : t[Len(a) + Len(p) + j] = b[j]
  BY <1>1, <1>2 DEF t
<1> QED
  BY <1>1, <1>2, <1>3, <1>4, <1>5 DEF t, c

(* A part of a sequence is replaced.                                       *)
(* p replaces the elements of s behind the i-th.                           *)
Replaced(S, s, i, p, t) ==
  /\ t \in Seq(S) /\ Len(t) = Len(s)
  /\ \A j \in 1 .. i : t[j] = s[j]
  /\ \A j \in 1 .. Len(p) : t[i + j] = p[j]
  /\ \A j \in i + Len(p) + 1 .. Len(s) : t[j] = s[j]

LEMMA ReplacePart ==
  ASSUME NEW S, NEW s \in Seq(S), NEW p \in Seq(S), NEW i \in Nat,
         i + Len(p) <= Len(s)
  PROVE  Replaced(S, s, i, p, SubSeq(s, 1, i) \o p \o SubSeq(s, i + Len(p) + 1, Len(s)))
<1> DEFINE a == SubSeq(s, 1, i)
           b == SubSeq(s, i + Len(p) + 1, Len(s))
           t == a \o p \o b
<1>1. a \in Seq(S) /\ Len(a) = i /\ \A x \in 1 .. i : a[x] = s[x]
  BY SubSeqProperties
<1>2. /\ b \in Seq(S) /\ Len(b) = Len(s) - (i + Len(p))
      /\ \A x \in 1 .. Len(b) : b[x] = s[i + Len(p) + x]
  BY SubSeqProperties
<1> HIDE DEF a, b
<1>3. /\ t \in Seq(S) /\ Len(t) = Len(a) + Len(p) + Len(b)
      /\ \A j \in 1 .. Len(a) : t[j] = a[j]
      /\ \A j \in 1 .. Len(p) : t[Len(a) + j] = p[j]
      /\ \A j \in 1 .. Len(b) : t[Len(a) + Len(p) + j] = b[j]
  <2>1. a \in Seq(S) /\ b \in Seq(S)
    BY <1>1, <1>2
  <2> QED
    BY <2>1, ConcatThree, SMTT(30)
<1> HIDE DEF t
<1>4. Len(s) \in Nat /\ Len(p) \in Nat
  OBVIOUS
<1>5. Len(t) = Len(s)
  BY <1>1, <1>2, <1>3, <1>4
<1>6. \A j \in 1 .. i : t[j] = s[j]
  BY <1>1, <1>3
<1>7. \A j \in 1 .. Len(p) : t[i + j] = p[j]
  BY <1>1, <1>3
<1>8. ASSUME NEW j \in i + Len(p) + 1 .. Len(s)
      PROVE  t[j] = s[j]
  <2> DEFINE x == j - (i + Len(p))
  <2>1. x \in 1 .. Len(b) /\ i + Len(p) + x = j
    BY <1>2, <1>4
  <2> HIDE DEF x
  <2> QED
    BY <1>1, <1>2, <1>3, <2>1
<1> QED
  BY <1>3, <1>5, <1>6, <1>7, <1>8 DEF t, a, b, Replaced

(* Parts of three elements.                                                *)
LEMMA FlattenTriples ==
  ASSUME NEW S, NEW ss \in Seq(Seq(S)), \A i \in 1 .. Len(ss) : Len(ss[i]) = 3
  PROVE  Len(FlattenSeq(ss)) = 3 * Len(ss)
<1> DEFINE n == Len(ss)
<1>1. n \in Nat
  OBVIOUS
<1>2. PICK F \in [0 .. n -> Seq(S)] :
        /\ F[0] = <<>>
        /\ \A i \in 1 .. n : F[i] = F[i - 1] \o ss[i]
        /\ FlattenSeq(ss) = F[n]
  BY FlattenPrefixes
<1>3. \A i \in 1 .. n : ss[i] \in Seq(S)
  BY ElementOfSeq
<1> DEFINE T == {i \in 0 .. n : Len(F[i]) = 3 * i}
<1> HIDE DEF n
<1>4. 0 \in T
  BY <1>1, <1>2
<1>5. ASSUME NEW i \in 0 .. n, i \in T, i < n
      PROVE  i + 1 \in T
  <2>1. i + 1 \in 1 .. n /\ (i + 1) - 1 = i /\ i + 1 \in 0 .. n
    BY <1>1, <1>5
  <2>2. F[i] \in Seq(S) /\ ss[i + 1] \in Seq(S) /\ F[i + 1] = F[i] \o ss[i + 1]
    BY <1>2, <1>3, <2>1
  <2>3. Len(F[i + 1]) = Len(F[i]) + Len(ss[i + 1])
    BY <2>2, ConcatLaws
  <2>4. Len(F[i]) = 3 * i /\ Len(ss[i + 1]) = 3
    BY <1>5, <2>1 DEF n
  <2>5. 3 * i + 3 = 3 * (i + 1)
    BY <1>1
  <2>6. Len(F[i + 1]) = 3 * (i + 1)
    BY <2>3, <2>4, <2>5, Zenon
  <2> QED
    BY <2>1, <2>6, Zenon
<1>6. n \in T
  <2> HIDE DEF T
  <2>1. 0 .. n \subseteq T
    BY <1>1, <1>4, <1>5, BoundedInduction
  <2> QED
    BY <1>1, <2>1
<1> QED
  BY <1>2, <1>6 DEF n

(* A part of a concatenation.                                              *)
LEMMA MiddlePart ==
  ASSUME NEW S, NEW x \in Seq(S), NEW m \in Seq(S), NEW y \in Seq(S),
         NEW t, t = (x \o m) \o y
  PROVE  SubSeq(t, Len(x) + 1, Len(x) + Len(m)) = m
<1>1. /\ t \in Seq(S) /\ Len(t) = Len(x) + Len(m) + Len(y)
      /\ \A j \in 1 .. Len(m) : t[Len(x) + j] = m[j]
  BY ConcatThree
<1>2. Len(x) \in Nat /\ Len(m) \in Nat /\ Len(y) \in Nat
  OBVIOUS
<1>3. Len(x) + Len(m) <= Len(t)
  BY <1>1, <1>2
<1>4. Piece(S, t, Len(x), Len(m), SubSeq(t, Len(x) + 1, Len(x) + Len(m)))
  BY <1>1, <1>2, <1>3, TakePiece
<1>5. PICK p : p = SubSeq(t, Len(x) + 1, Len(x) + Len(m))
  OBVIOUS
<1>6. Piece(S, t, Len(x), Len(m), p)
  BY <1>4, <1>5
<1>7. p \in Seq(S) /\ Len(p) = Len(m) /\ \A j \in 1 .. Len(m) : p[j] = t[Len(x) + j]
  BY <1>6, Zenon DEF Piece
<1>8. \A j \in 1 .. Len(m) : p[j] = m[j]
  BY <1>1, <1>7
<1>9. p = m
  <2>1. Len(p) = Len(m) /\ \A j \in 1 .. Len(p) : p[j] = m[j]
    BY <1>7, <1>8
  <2> QED
    BY <1>7, <2>1, SeqEqual
<1> QED
  BY <1>5, <1>9

(* Associativity, at three sequences.                                      *)
Regroups(b, c, d) == (b \o c) \o d = b \o (c \o d)

LEMMA Associative ==
  ASSUME NEW S, NEW b \in Seq(S), NEW c \in Seq(S), NEW d \in Seq(S)
  PROVE  Regroups(b, c, d)
BY DEF Regroups

(* The part m of a longer sequence, with what is before and after it.      *)
Regrouped(n, x, k, m, a, y) ==
  n \o (x \o (((k \o m) \o a) \o y)) = ((n \o (x \o k)) \o m) \o (a \o y)

LEMMA Regroup ==
  ASSUME NEW S, NEW n \in Seq(S), NEW x \in Seq(S), NEW k \in Seq(S), NEW m \in Seq(S),
         NEW a \in Seq(S), NEW y \in Seq(S)
  PROVE  Regrouped(n, x, k, m, a, y)
<1>1. \A b, c, d \in Seq(S) : Regroups(b, c, d)
  BY Associative, Zenon
<1>2. \A b, c \in Seq(S) : b \o c \in Seq(S)
  BY ConcatLaws
<1>3. PICK w \in Seq(S) : w = a \o y
  BY <1>2, Zenon
<1>4. PICK u \in Seq(S) : u = m \o w
  BY <1>2, Zenon
<1>5. PICK g \in Seq(S) : g = k \o m
  BY <1>2, Zenon
<1>6. PICK h \in Seq(S) : h = x \o k
  BY <1>2, Zenon
<1>7. PICK f \in Seq(S) : f = n \o h
  BY <1>2, Zenon
<1>8. /\ Regroups(g, a, y) /\ Regroups(k, m, w) /\ Regroups(x, k, u)
      /\ Regroups(n, h, u) /\ Regroups(f, m, w)
  BY <1>1, Zenon
<1>9. /\ (g \o a) \o y = g \o w
      /\ (k \o m) \o w = k \o u
      /\ (x \o k) \o u = x \o (k \o u)
      /\ (n \o h) \o u = n \o (h \o u)
      /\ (f \o m) \o w = f \o u
  BY <1>3, <1>4, <1>8, Zenon DEF Regroups
<1>10. ((k \o m) \o a) \o y = k \o u
  BY <1>5, <1>9, Zenon
<1>11. n \o (x \o (k \o u)) = f \o u
  BY <1>6, <1>7, <1>9, Zenon
<1>12. f \o u = ((n \o (x \o k)) \o m) \o (a \o y)
  BY <1>3, <1>6, <1>7, <1>9, Zenon
<1> QED
  BY <1>10, <1>11, <1>12, Zenon DEF Regrouped

(* What is flattened, at its i-th part.                                    *)
FlattensAt(S, ss, i) ==
  \E p \in Seq(Seq(S)), y \in Seq(S) :
    /\ Len(p) = i - 1
    /\ \A j \in 1 .. i - 1 : p[j] = ss[j]
    /\ FlattenSeq(ss) = FlattenSeq(p) \o (ss[i] \o y)

LEMMA FlattenAt ==
  ASSUME NEW S, NEW ss \in Seq(Seq(S)), NEW i \in 1 .. Len(ss)
  PROVE  FlattensAt(S, ss, i)
<1>1. PICK k \in Nat : k = i - 1 /\ k + 1 = i /\ 0 + 1 = 1 /\ k - 0 = k
                       /\ \A j \in 1 .. k : 0 + j = j
  OBVIOUS
<1>2. Len(ss) \in Nat /\ k <= Len(ss) /\ 0 <= k
  BY <1>1
<1>3. Splits(Seq(S), ss, 0, k, Len(ss))
  BY <1>1, <1>2, SplitSubSeq
<1>4. PICK p : p = SubSeq(ss, 1, k)
  OBVIOUS
<1>5. PICK q : q = SubSeq(ss, i, Len(ss))
  OBVIOUS
<1>6. /\ SubSeq(ss, 1, Len(ss)) = p \o q
      /\ p \in Seq(Seq(S)) /\ Len(p) = k
      /\ \A j \in 1 .. k : p[j] = ss[j]
      /\ q \in Seq(Seq(S))
  BY <1>1, <1>3, <1>4, <1>5, Zenon DEF Splits
<1>7. SubSeq(ss, 1, Len(ss)) = ss
  BY WholeSeq
<1>8. FlattenSeq(ss) = FlattenSeq(p) \o FlattenSeq(q)
  <2>1. FlattenSeq(p \o q) = FlattenSeq(p) \o FlattenSeq(q)
    BY <1>6, FlattenConcat
  <2> QED
    BY <1>6, <1>7, <2>1, Zenon
<1>9. PICK r \in Seq(Seq(S)) : r = SubSeq(ss, i + 1, Len(ss))
  <2>1. SubSeq(ss, i + 1, Len(ss)) \in Seq(Seq(S))
    OBVIOUS
  <2> QED
    BY <2>1, Zenon
<1>10. FlattenSeq(q) = ss[i] \o FlattenSeq(r)
  BY <1>5, <1>9, FlattenCons
<1>11. FlattenSeq(r) \in Seq(S)
  BY <1>9, FlattenType
<1>12. FlattenSeq(ss) = FlattenSeq(p) \o (ss[i] \o FlattenSeq(r))
  BY <1>8, <1>10, Zenon
<1> QED
  BY <1>1, <1>6, <1>11, <1>12, Zenon DEF FlattensAt
=============================================================================
