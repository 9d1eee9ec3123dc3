---------------------------- MODULE CStringProofs ----------------------------
(***************************************************************************)
(* The string functions do what the C standard says of them, in buffers of *)
(* any number and size and for any characters.                             *)
(***************************************************************************)
EXTENDS CString, FiniteSetTheorems, DataInduction

(* Conversions.                                                            *)
LEMMA HalfIs ==
  /\ CharValues \div 2 \in Nat \ {0}
  /\ CharValues = 2 * (CharValues \div 2)
BY CharAssumption

(* Division has one quotient and one remainder.                            *)
LEMMA DivisionUnique ==
  ASSUME NEW w \in Nat, w > 0, NEW d \in Int, NEW e \in Int,
         NEW r \in 0 .. w - 1, NEW s \in 0 .. w - 1, w * d + r = w * e + s
  PROVE  d = e /\ r = s
<1>1. w * (d - e) = s - r
  OBVIOUS
<1>2. ASSUME d - e >= 1 PROVE FALSE
  <2>1. w * (d - e) >= w
    BY <1>2
  <2> QED
    BY <1>1, <2>1
<1>3. ASSUME e - d >= 1 PROVE FALSE
  <2>1. w * (e - d) >= w
    BY <1>3
  <2>2. w * (e - d) = r - s
    BY <1>1
  <2> QED
    BY <2>1, <2>2
<1>4. d = e
  BY <1>2, <1>3
<1> QED
  BY <1>4

LEMMA ModShift ==
  ASSUME NEW w \in Nat, w > 0, NEW c \in Int, NEW k \in Int
  PROVE  (c + w * k) % w = c % w
<1> DEFINE d == c \div w
           r == c % w
           e == (c + w * k) \div w
           s == (c + w * k) % w
<1>1. d \in Int /\ r \in 0 .. w - 1 /\ c = w * d + r
  OBVIOUS
<1>2. e \in Int /\ s \in 0 .. w - 1 /\ c + w * k = w * e + s
  <2> DEFINE x == c + w * k
  <2>1. x \in Int
    OBVIOUS
  <2> HIDE DEF x
  <2>2. x \div w \in Int /\ x % w \in 0 .. w - 1 /\ x = w * (x \div w) + (x % w)
    BY <2>1
  <2> QED
    BY <2>2 DEF x
<1> HIDE DEF d, r, e, s
<1>3. w * (d + k) + r = w * e + s
  BY <1>1, <1>2
<1>4. d + k \in Int
  BY <1>1
<1>5. r = s
  BY <1>1, <1>2, <1>3, <1>4, DivisionUnique
<1> QED
  BY <1>5 DEF r, s

LEMMA CharFacts ==
  /\ Chars \subseteq Int /\ 0 \in Chars
  /\ \A c \in Int : char(c) \in Int /\ uchar(c) \in Int /\ uchar(char(c)) = uchar(c)
  /\ \A x \in Chars : char(x) = x
  /\ \A x, y \in Chars : uchar(x) = uchar(y) => x = y
<1> DEFINE h == CharValues \div 2
<1>1. h \in Nat /\ h > 0 /\ CharValues = 2 * h
  BY HalfIs
<1> HIDE DEF h
<1>2. \A c \in Int : char(c) = ((c + h) % (2 * h)) - h
  BY <1>1 DEF char, h
<1>3. \A c \in Int : uchar(c) = c % (2 * h)
  BY <1>1 DEF uchar
<1>4. \A c \in Int : (c + h) % (2 * h) \in 0 .. 2 * h - 1
  BY <1>1
<1>5. \A c \in Int : char(c) \in Int /\ -h <= char(c) /\ char(c) < h
  BY <1>1, <1>2, <1>4
<1>6. \A c \in Int : -h <= c /\ c < h => (c + h) % (2 * h) = c + h
  BY <1>1
<1>7. \A c \in Int : -h <= c /\ c < h => char(c) = c
  BY <1>1, <1>2, <1>6
<1>8. \A a, b \in Int : -h <= a /\ a < h /\ -h <= b /\ b < h /\ a # b => a % (2 * h) # b % (2 * h)
  BY <1>1
<1>9. \A c \in Int : (((c + h) % (2 * h)) - h) % (2 * h) = c % (2 * h)
  <2> SUFFICES ASSUME NEW c \in Int
               PROVE  (((c + h) % (2 * h)) - h) % (2 * h) = c % (2 * h)
    OBVIOUS
  <2> DEFINE w == 2 * h
             q == (c + h) \div w
             r == (c + h) % w
  <2>1. w \in Nat /\ w > 0 /\ c + h \in Int
    BY <1>1
  <2>4. q \in Int /\ r \in Int /\ c + h = w * q + r
    <3> HIDE DEF w
    <3> QED
      BY <2>1
  <2> HIDE DEF w, q, r
  <2>2. r - h = c + w * (-q) /\ -q \in Int
    BY <1>1, <2>1, <2>4
  <2>3. (c + w * (-q)) % w = c % w
    BY <2>1, <2>2, ModShift
  <2> QED
    BY <2>2, <2>3 DEF w, r
<1>10. \A c \in Int : uchar(c) \in Int
  BY <1>1, <1>3
<1>11. \A c \in Int : uchar(char(c)) = uchar(c)
  BY <1>2, <1>3, <1>5, <1>9
<1>12. IntArgs \subseteq Int /\ 0 \in IntArgs
  BY CharAssumption
<1>13. \A x \in Chars : x \in Int /\ -h <= x /\ x < h
  BY <1>5, <1>12 DEF Chars
<1>14. char(0) = 0 /\ char(0) \in Chars
  BY <1>1, <1>7, <1>12 DEF Chars
<1>15. \A x, y \in Chars : uchar(x) = uchar(y) => x = y
  BY <1>3, <1>8, <1>13
<1> QED
  BY <1>5, <1>7, <1>10, <1>11, <1>13, <1>14, <1>15

(* A loop stops at the first of its stops.                                 *)
LEMMA FirstInIs ==
  ASSUME NEW P, P \subseteq Nat, NEW n \in P, \A i \in P : n <= i
  PROVE  FirstIn(P) = n
<1> DEFINE Loop(f) == f = [i \in Nat |-> IF i \in P THEN i ELSE f[i + 1]]
           Some == [i \in Nat |-> CHOOSE j \in P : i <= j /\ \A k \in P : i <= k => j <= k]
           F == [i \in Nat |-> IF \E j \in P : i <= j THEN Some[i] ELSE 0]
           from == CHOOSE f : Loop(f)
<1>1. ASSUME NEW i \in Nat, \E j \in P : i <= j
      PROVE  /\ Some[i] \in P /\ i <= Some[i] /\ Some[i] \in Nat
             /\ \A k \in P : i <= k => Some[i] <= k
  <2> DEFINE T == {j \in P : i <= j}
  <2>1. T \subseteq Nat /\ T # {}
    BY <1>1
  <2>2. PICK j \in T : \A k \in T : j <= k
    <3> HIDE DEF T
    <3> QED
      BY <2>1, LeastNumber
  <2>3. j \in P /\ i <= j /\ \A k \in P : i <= k => j <= k
    BY <2>2
  <2> QED
    BY <2>3
<1> HIDE DEF Some
<1>2. ASSUME NEW i \in Nat
      PROVE  F[i] = IF i \in P THEN i ELSE F[i + 1]
  <2>1. CASE i \in P
    <3>1. Some[i] \in Nat /\ i <= Some[i] /\ Some[i] <= i /\ \E j \in P : i <= j
      BY <1>1, <2>1
    <3>2. Some[i] = i
      BY <3>1
    <3> QED
      BY <2>1, <3>1, <3>2
  <2>2. CASE i \notin P /\ \E j \in P : i <= j
    <3>1. \E j \in P : i + 1 <= j
      BY <2>2
    <3>2. Some[i] \in P /\ Some[i] \in Nat /\ i <= Some[i] /\ \A k \in P : i <= k => Some[i] <= k
      BY <1>1, <2>2
    <3>3. Some[i + 1] \in P /\ Some[i + 1] \in Nat /\ i + 1 <= Some[i + 1] /\ \A k \in P : i + 1 <= k => Some[i + 1] <= k
      BY <1>1, <3>1
    <3>4. Some[i] <= Some[i + 1] /\ Some[i + 1] <= Some[i]
      BY <2>2, <3>2, <3>3
    <3>5. Some[i] = Some[i + 1]
      BY <3>2, <3>3, <3>4
    <3> QED
      BY <2>2, <3>1, <3>5
  <2>3. CASE ~\E j \in P : i <= j
    <3>1. ~\E j \in P : i + 1 <= j
      BY <2>3
    <3>2. i \notin P
      BY <2>3
    <3> QED
      BY <2>3, <3>1, <3>2
  <2> QED
    BY <2>1, <2>2, <2>3
<1>3. Loop(F)
  <2>1. F = [i \in Nat |-> F[i]]
    OBVIOUS
  <2> HIDE DEF F
  <2> QED
    BY <1>2, <2>1
<1>4. Loop(from)
  <2> HIDE DEF F, Loop
  <2> QED
    BY <1>3
<1>5. FirstIn(P) = from[0]
  BY DEF FirstIn
<1> HIDE DEF from
<1>6. \A i \in Nat : from[i] = IF i \in P THEN i ELSE from[i + 1]
  BY <1>4
<1> DEFINE Good == {i \in 0 .. n : from[n - i] = n}
<1>7. n \in Nat /\ 0 \in Good
  BY <1>6
<1>8. ASSUME NEW i \in 0 .. n, i \in Good, i < n
      PROVE  i + 1 \in Good
  <2>1. n - (i + 1) \in Nat /\ n - (i + 1) \notin P /\ (n - (i + 1)) + 1 = n - i
    BY <1>7, <1>8
  <2>2. from[n - (i + 1)] = from[n - i]
    BY <1>6, <2>1
  <2>3. from[n - i] = n
    BY <1>8
  <2> QED
    BY <1>7, <1>8, <2>2, <2>3
<1>9. 0 .. n \subseteq Good
  <2> HIDE DEF Good
  <2> QED
    BY <1>7, <1>8, BoundedInduction
<1>10. n \in Good
  BY <1>7, <1>9
<1>11. from[n - n] = n /\ n - n = 0
  BY <1>7, <1>10
<1> QED
  BY <1>5, <1>11

-----------------------------------------------------------------------------
(* Folds over the steps of a loop.                                         *)
LEMMA MaxIs ==
  ASSUME NEW n \in Nat, NEW T \in SUBSET (1 .. n), T # {}
  PROVE  Max(T) \in T /\ \A y \in T : Max(T) >= y
<1> DEFINE U == {k \in 0 .. n : n - k \in T}
<1>1. U \subseteq Nat
  OBVIOUS
<1>2. PICK t \in T : TRUE
  OBVIOUS
<1>3. n - t \in 0 .. n /\ n - (n - t) = t
  BY <1>2
<1>4. n - t \in U
  BY <1>2, <1>3
<1>5. PICK u \in U : \A k \in U : u <= k
  <2> HIDE DEF U
  <2> QED
    BY <1>1, <1>4, LeastNumber
<1>6. n - u \in T /\ u \in 0 .. n
  BY <1>5
<1>7. ASSUME NEW y \in T PROVE n - u >= y
  <2>1. n - y \in 0 .. n /\ n - (n - y) = y
    OBVIOUS
  <2>2. n - y \in U
    BY <2>1
  <2>3. u <= n - y
    BY <1>5, <2>2
  <2> QED
    BY <1>6, <2>1, <2>3
<1> QED
  BY <1>6, <1>7 DEF Max

(* Induction over the sets of steps done, the last one first.              *)
LEMMA StepInduction ==
  ASSUME NEW n \in Nat, NEW Good, {} \in Good,
         \A T \in SUBSET (1 .. n) : T # {} /\ T \ {Max(T)} \in Good => T \in Good
  PROVE  SUBSET (1 .. n) \subseteq Good
<1> DEFINE K == {k \in 0 .. n : \A T \in SUBSET (1 .. k) : T \in Good}
<1>1. 0 \in K
  <2>1. \A T \in SUBSET (1 .. 0) : T = {}
    OBVIOUS
  <2>2. \A T \in SUBSET (1 .. 0) : T \in Good
    BY <2>1
  <2>3. 0 \in 0 .. n
    OBVIOUS
  <2> QED
    BY <2>2, <2>3, Zenon
<1>2. ASSUME NEW k \in 0 .. n, k \in K, k < n
      PROVE  k + 1 \in K
  <2> SUFFICES ASSUME NEW T \in SUBSET (1 .. k + 1)
               PROVE  T \in Good
    BY <1>2
  <2>1. CASE k + 1 \notin T
    <3>1. T \in SUBSET (1 .. k)
      BY <2>1
    <3> QED
      BY <1>2, <3>1
  <2>2. CASE k + 1 \in T
    <3>1. T \in SUBSET (1 .. n) /\ T # {}
      BY <1>2, <2>2
    <3>2. Max(T) \in T /\ \A y \in T : Max(T) >= y
      BY <3>1, MaxIs
    <3>3. Max(T) = k + 1
      <4>1. Max(T) \in 1 .. k + 1
        BY <3>2
      <4>2. Max(T) >= k + 1
        BY <2>2, <3>2
      <4> QED
        BY <4>1, <4>2
    <3>4. T \ {Max(T)} \in SUBSET (1 .. k)
      BY <3>3
    <3>5. T \ {Max(T)} \in Good
      BY <1>2, <3>4
    <3> QED
      BY <3>1, <3>5
  <2> QED
    BY <2>1, <2>2
<1>3. 0 .. n \subseteq K
  <2> HIDE DEF K
  <2> QED
    BY <1>1, <1>2, BoundedInduction
<1>4. n \in K
  BY <1>3
<1> QED
  BY <1>4

-----------------------------------------------------------------------------
(* Copies.                                                                 *)
Extent(m, b) == Cardinality(DOMAIN m[b])
Memory(m) ==
  /\ m = [b \in DOMAIN m |-> m[b]]
  /\ \A b \in DOMAIN m : Extent(m, b) \in Nat /\ m[b] \in [0 .. Extent(m, b) - 1 -> Chars]

(* The n bytes from <<b, y>> on are in the buffer; two such ranges are     *)
(* apart.                                                                  *)
Within(m, b, y, n) == b \in DOMAIN m /\ y \in Nat /\ n \in Nat /\ y + n <= Extent(m, b)
Apart(a, x, b, y, n) == a # b \/ x - y >= n \/ y - x >= n

(* f is a list of n bytes; it is what is at <<b, y>>.                      *)
List(f, n) == n \in Nat /\ f \in [1 .. n -> Chars]
Lists(m, b, y, n, f) ==
  /\ List(f, n) /\ f \in Seq(Chars) /\ Len(f) = n
  /\ \A i \in 1 .. n : f[i] = m[b][y + (i - 1)]

(* M is m with f written at <<a, x>>.                                      *)
Changed(m, M, a, x, n, f) ==
  /\ Memory(M) /\ DOMAIN M = DOMAIN m
  /\ \A c \in DOMAIN m : Extent(M, c) = Extent(m, c) /\ (c # a => M[c] = m[c])
  /\ \A i \in 0 .. Extent(m, a) - 1 :
       M[a][i] = IF i - x + 1 \in 1 .. n THEN f[i - x + 1] ELSE m[a][i]

(* The same as a function.                                                 *)
Over(m, d, bytes) ==
  [m EXCEPT ![d[1]] = [i \in DOMAIN @ |->
     IF i - d[2] + 1 \in DOMAIN bytes THEN bytes[i - d[2] + 1] ELSE @[i]]]

(* memcpy, where no byte is read after it is written.                      *)
LEMMA MemcpyIs ==
  ASSUME NEW m, Memory(m), NEW n, NEW a, NEW b, NEW x, NEW y,
         Within(m, a, x, n), Within(m, b, y, n), Apart(a, x, b, y, n)
  PROVE  memcpy(m, <<a, x>>, <<b, y>>, n) = Over(m, <<a, x>>, Bytes(m, <<b, y>>, n))
<1> USE DEF Within, Apart
<1> DEFINE Loop(f) ==
             f = [s \in SUBSET DOMAIN Steps(n) |->
                    IF s = {} THEN m
                    ELSE LET i == Max(s)
                         IN Put(f[s \ {i}], Plus(<<a, x>>, Steps(n)[i]),
                                At(f[s \ {i}], Plus(<<b, y>>, Steps(n)[i])))]
           Part(s) == [i \in DOMAIN m[a] |->
                         IF i - x + 1 \in s THEN m[b][y + (i - x)] ELSE m[a][i]]
           W == [s \in SUBSET (1 .. n) |-> [m EXCEPT ![a] = Part(s)]]
           iter == CHOOSE f : Loop(f)
<1>1. memcpy(m, <<a, x>>, <<b, y>>, n) = iter[DOMAIN Steps(n)]
  BY DEF memcpy, FoldLeft, MapThenFoldSet
<1>2. DOMAIN Steps(n) = 1 .. n /\ \A i \in 1 .. n : Steps(n)[i] = i - 1
  BY DEF Steps
<1>3. /\ m = [c \in DOMAIN m |-> m[c]]
      /\ m[a] \in [0 .. Extent(m, a) - 1 -> Chars] /\ Extent(m, a) \in Nat
      /\ m[b] \in [0 .. Extent(m, b) - 1 -> Chars] /\ Extent(m, b) \in Nat
  BY DEF Memory
<1>4. ASSUME NEW s \in SUBSET (1 .. n), s # {}
      PROVE  /\ Max(s) \in 1 .. n /\ s \ {Max(s)} \in SUBSET (1 .. n)
             /\ W[s] = Put(W[s \ {Max(s)}], Plus(<<a, x>>, Steps(n)[Max(s)]),
                           At(W[s \ {Max(s)}], Plus(<<b, y>>, Steps(n)[Max(s)])))
  <2>1. PICK i \in 1 .. n : i = Max(s) /\ i \in s
    BY <1>4, MaxIs
  <2>2. Plus(<<a, x>>, Steps(n)[i]) = <<a, x + i - 1>> /\ Plus(<<b, y>>, Steps(n)[i]) = <<b, y + i - 1>>
    BY <1>2 DEF Plus
  <2>3. s \ {i} \in SUBSET (1 .. n)
    OBVIOUS
  <2>4. PICK V : V = [m EXCEPT ![a] = Part(s \ {i})]
    OBVIOUS
  <2>5. W[s \ {i}] = V /\ W[s] = [m EXCEPT ![a] = Part(s)]
    BY <2>3, <2>4
  <2>6. V[a] = Part(s \ {i}) /\ DOMAIN V = DOMAIN m /\ \A c \in DOMAIN m : c # a => V[c] = m[c]
    BY <1>3, <2>4
  <2>7. y + i - 1 \in 0 .. Extent(m, b) - 1 /\ x + i - 1 \in 0 .. Extent(m, a) - 1
    BY <1>3
  <2>8. V[b][y + i - 1] = m[b][y + i - 1]
    <3>1. CASE a # b
      BY <2>6, <3>1
    <3>2. CASE a = b
      <4>1. (y + i - 1) - x + 1 \notin s \ {i}
        BY <3>2
      <4> QED
        BY <1>3, <2>6, <2>7, <3>2, <4>1
    <3> QED
      BY <3>1, <3>2
  <2>9. Part(s) = [Part(s \ {i}) EXCEPT ![x + i - 1] = m[b][y + i - 1]]
    <3>1. DOMAIN m[a] = 0 .. Extent(m, a) - 1
      BY <1>3
    <3>2. ASSUME NEW j \in DOMAIN m[a]
          PROVE  Part(s)[j] = IF j = x + i - 1 THEN m[b][y + i - 1] ELSE Part(s \ {i})[j]
      <4>1. j \in Int
        BY <3>1
      <4>2. CASE j = x + i - 1
        <5>1. j - x + 1 = i /\ y + (j - x) = y + i - 1
          BY <4>2
        <5> QED
          BY <2>1, <4>2, <5>1
      <4>3. CASE j # x + i - 1
        <5>1. j - x + 1 # i
          BY <4>1, <4>3
        <5>2. j - x + 1 \in s <=> j - x + 1 \in s \ {i}
          BY <5>1
        <5> QED
          BY <4>3, <5>2
      <4> QED
        BY <4>2, <4>3
    <3> QED
      BY <3>2
  <2>10. Put(V, <<a, x + i - 1>>, m[b][y + i - 1]) = [V EXCEPT ![a] = [V[a] EXCEPT ![x + i - 1] = m[b][y + i - 1]]]
    BY DEF Put
  <2>11. [V EXCEPT ![a] = Part(s)] = [m EXCEPT ![a] = Part(s)]
    BY <1>3, <2>4
  <2>12. At(V, <<b, y + i - 1>>) = m[b][y + i - 1]
    BY <2>8 DEF At
  <2> HIDE DEF W, Part
  <2>13. Put(V, <<a, x + i - 1>>, m[b][y + i - 1]) = W[s]
    BY <2>5, <2>6, <2>9, <2>10, <2>11
  <2> QED
    BY <2>1, <2>2, <2>3, <2>5, <2>12, <2>13
<1>5. W[{}] = m
  <2>1. Part({}) = m[a]
    BY <1>3
  <2> HIDE DEF Part
  <2> QED
    BY <1>3, <2>1
<1>6. Loop(W)
  <2>1. W = [s \in SUBSET (1 .. n) |-> W[s]]
    OBVIOUS
  <2> HIDE DEF W
  <2> QED
    BY <1>2, <1>4, <1>5, <2>1
<1> HIDE DEF W
<1>7. Loop(iter)
  <2> HIDE DEF Loop
  <2> QED
    BY <1>6
<1> HIDE DEF iter
<1>8. \A s \in SUBSET (1 .. n) :
        iter[s] = IF s = {} THEN m
                  ELSE Put(iter[s \ {Max(s)}], Plus(<<a, x>>, Steps(n)[Max(s)]),
                           At(iter[s \ {Max(s)}], Plus(<<b, y>>, Steps(n)[Max(s)])))
  BY <1>2, <1>7
<1> DEFINE Good == {s \in SUBSET (1 .. n) : iter[s] = W[s]}
<1>9. {} \in Good
  BY <1>5, <1>8
<1>10. ASSUME NEW s \in SUBSET (1 .. n), s # {}, s \ {Max(s)} \in Good
       PROVE  s \in Good
  BY <1>4, <1>8, <1>10
<1>11. SUBSET (1 .. n) \subseteq Good
  <2> HIDE DEF Good
  <2> QED
    BY <1>9, <1>10, StepInduction
<1>12. iter[1 .. n] = W[1 .. n]
  BY <1>11
<1>13. W[1 .. n] = Over(m, <<a, x>>, Bytes(m, <<b, y>>, n))
  <2>1. Part(1 .. n) = [i \in DOMAIN m[a] |->
          IF i - x + 1 \in DOMAIN Bytes(m, <<b, y>>, n) THEN Bytes(m, <<b, y>>, n)[i - x + 1] ELSE m[a][i]]
    <3>1. DOMAIN m[a] = 0 .. Extent(m, a) - 1
      BY <1>3
    <3>2. \A i \in 1 .. n : Bytes(m, <<b, y>>, n)[i] = m[b][y + (i - 1)]
      BY DEF Bytes, At, Plus
    <3>3. DOMAIN Bytes(m, <<b, y>>, n) = 1 .. n
      BY DEF Bytes
    <3>4. \A i \in DOMAIN m[a] : i \in Int /\ (i - x + 1) - 1 = i - x
      BY <3>1
    <3>5. \A i \in DOMAIN m[a] : i - x + 1 \in 1 .. n => m[b][y + (i - x)] = Bytes(m, <<b, y>>, n)[i - x + 1]
      BY <3>2, <3>4
    <3> QED
      BY <3>3, <3>5
  <2>2. W[1 .. n] = [m EXCEPT ![a] = Part(1 .. n)]
    BY DEF W
  <2> HIDE DEF Part
  <2> QED
    BY <2>1, <2>2 DEF Over
<1> QED
  BY <1>1, <1>2, <1>12, <1>13

(* Filling up with zeros.                                                  *)
LEMMA ClearIs ==
  ASSUME NEW m, Memory(m), NEW n, NEW a, NEW x, Within(m, a, x, n)
  PROVE  Clear(m, <<a, x>>, n) = Over(m, <<a, x>>, [i \in 1 .. n |-> 0])
<1> USE DEF Within
<1> DEFINE Loop(f) ==
             f = [s \in SUBSET DOMAIN Steps(n) |->
                    IF s = {} THEN m
                    ELSE LET i == Max(s) IN Put(f[s \ {i}], Plus(<<a, x>>, Steps(n)[i]), 0)]
           Part(s) == [i \in DOMAIN m[a] |-> IF i - x + 1 \in s THEN 0 ELSE m[a][i]]
           W == [s \in SUBSET (1 .. n) |-> [m EXCEPT ![a] = Part(s)]]
           iter == CHOOSE f : Loop(f)
<1>1. Clear(m, <<a, x>>, n) = iter[DOMAIN Steps(n)]
  BY DEF Clear, FoldLeft, MapThenFoldSet
<1>2. DOMAIN Steps(n) = 1 .. n /\ \A i \in 1 .. n : Steps(n)[i] = i - 1
  BY DEF Steps
<1>3. /\ m = [c \in DOMAIN m |-> m[c]]
      /\ m[a] \in [0 .. Extent(m, a) - 1 -> Chars] /\ Extent(m, a) \in Nat
  BY DEF Memory
<1>4. ASSUME NEW s \in SUBSET (1 .. n), s # {}
      PROVE  /\ Max(s) \in 1 .. n /\ s \ {Max(s)} \in SUBSET (1 .. n)
             /\ W[s] = Put(W[s \ {Max(s)}], Plus(<<a, x>>, Steps(n)[Max(s)]), 0)
  <2>1. PICK i \in 1 .. n : i = Max(s) /\ i \in s
    BY <1>4, MaxIs
  <2>2. Plus(<<a, x>>, Steps(n)[i]) = <<a, x + i - 1>>
    BY <1>2 DEF Plus
  <2>3. s \ {i} \in SUBSET (1 .. n)
    OBVIOUS
  <2>4. PICK V : V = [m EXCEPT ![a] = Part(s \ {i})]
    OBVIOUS
  <2>5. W[s \ {i}] = V /\ W[s] = [m EXCEPT ![a] = Part(s)]
    BY <2>3, <2>4
  <2>6. V[a] = Part(s \ {i})
    BY <1>3, <2>4
  <2>9. Part(s) = [Part(s \ {i}) EXCEPT ![x + i - 1] = 0]
    <3>1. DOMAIN m[a] = 0 .. Extent(m, a) - 1
      BY <1>3
    <3>2. ASSUME NEW j \in DOMAIN m[a]
          PROVE  Part(s)[j] = IF j = x + i - 1 THEN 0 ELSE Part(s \ {i})[j]
      <4>1. j \in Int
        BY <3>1
      <4>2. CASE j = x + i - 1
        <5>1. j - x + 1 = i
          BY <4>2
        <5> QED
          BY <2>1, <4>2, <5>1
      <4>3. CASE j # x + i - 1
        <5>1. j - x + 1 # i
          BY <4>1, <4>3
        <5>2. j - x + 1 \in s <=> j - x + 1 \in s \ {i}
          BY <5>1
        <5> QED
          BY <4>3, <5>2
      <4> QED
        BY <4>2, <4>3
    <3> QED
      BY <3>2
  <2>10. Put(V, <<a, x + i - 1>>, 0) = [V EXCEPT ![a] = [V[a] EXCEPT ![x + i - 1] = 0]]
    BY DEF Put
  <2>11. [V EXCEPT ![a] = Part(s)] = [m EXCEPT ![a] = Part(s)]
    BY <1>3, <2>4
  <2> HIDE DEF W, Part
  <2>13. Put(V, <<a, x + i - 1>>, 0) = W[s]
    BY <2>5, <2>6, <2>9, <2>10, <2>11
  <2> QED
    BY <2>1, <2>2, <2>3, <2>5, <2>13
<1>5. W[{}] = m
  <2>1. Part({}) = m[a]
    BY <1>3
  <2> HIDE DEF Part
  <2> QED
    BY <1>3, <2>1
<1>6. Loop(W)
  <2>1. W = [s \in SUBSET (1 .. n) |-> W[s]]
    OBVIOUS
  <2> HIDE DEF W
  <2> QED
    BY <1>2, <1>4, <1>5, <2>1
<1> HIDE DEF W
<1>7. Loop(iter)
  <2> HIDE DEF Loop
  <2> QED
    BY <1>6
<1> HIDE DEF iter
<1>8. \A s \in SUBSET (1 .. n) :
        iter[s] = IF s = {} THEN m
                  ELSE Put(iter[s \ {Max(s)}], Plus(<<a, x>>, Steps(n)[Max(s)]), 0)
  BY <1>2, <1>7
<1> DEFINE Good == {s \in SUBSET (1 .. n) : iter[s] = W[s]}
<1>9. {} \in Good
  BY <1>5, <1>8
<1>10. ASSUME NEW s \in SUBSET (1 .. n), s # {}, s \ {Max(s)} \in Good
       PROVE  s \in Good
  BY <1>4, <1>8, <1>10
<1>11. SUBSET (1 .. n) \subseteq Good
  <2> HIDE DEF Good
  <2> QED
    BY <1>9, <1>10, StepInduction
<1>12. iter[1 .. n] = W[1 .. n]
  BY <1>11
<1>13. W[1 .. n] = Over(m, <<a, x>>, [i \in 1 .. n |-> 0])
  BY DEF W, Over
<1> QED
  BY <1>1, <1>2, <1>12, <1>13

(* What is written, and what is left alone.                                *)
LEMMA OverFacts ==
  ASSUME NEW m, Memory(m), NEW n, NEW a, NEW x, NEW f, List(f, n), a \in DOMAIN m, x \in Nat
  PROVE  Changed(m, Over(m, <<a, x>>, f), a, x, n, f)
<1>0. PICK M : M = Over(m, <<a, x>>, f)
  OBVIOUS
<1> USE DEF List
<1>1. /\ m = [c \in DOMAIN m |-> m[c]]
      /\ \A c \in DOMAIN m : Extent(m, c) \in Nat /\ m[c] \in [0 .. Extent(m, c) - 1 -> Chars]
  BY DEF Memory
<1> DEFINE Part == [i \in DOMAIN m[a] |-> IF i - x + 1 \in 1 .. n THEN f[i - x + 1] ELSE m[a][i]]
<1>2. M = [m EXCEPT ![a] = Part]
  BY <1>0 DEF Over
<1>3. DOMAIN m[a] = 0 .. Extent(m, a) - 1
  BY <1>1
<1>4. Part \in [0 .. Extent(m, a) - 1 -> Chars] /\ DOMAIN Part = DOMAIN m[a]
  BY <1>1, <1>3
<1>5. \A i \in 0 .. Extent(m, a) - 1 : Part[i] = IF i - x + 1 \in 1 .. n THEN f[i - x + 1] ELSE m[a][i]
  BY <1>3
<1> HIDE DEF Part
<1>6. M[a] = Part /\ DOMAIN M = DOMAIN m /\ M = [c \in DOMAIN M |-> M[c]] /\ \A c \in DOMAIN m : c # a => M[c] = m[c]
  BY <1>1, <1>2
<1>7. \A c \in DOMAIN m : DOMAIN M[c] = DOMAIN m[c]
  BY <1>4, <1>6
<1>8. \A c \in DOMAIN m : Extent(M, c) = Extent(m, c)
  BY <1>7 DEF Extent
<1>9. ASSUME NEW c \in DOMAIN M
      PROVE  Extent(M, c) \in Nat /\ M[c] \in [0 .. Extent(M, c) - 1 -> Chars]
  BY <1>1, <1>4, <1>6, <1>8
<1> QED
  BY <1>0, <1>5, <1>6, <1>8, <1>9 DEF Memory, Changed

LEMMA SameFunction ==
  ASSUME NEW S, NEW T, NEW f \in [S -> T], NEW g \in [S -> T], \A i \in S : f[i] = g[i]
  PROVE  f = g
OBVIOUS

LEMMA OverIs ==
  ASSUME NEW m, Memory(m), NEW n, NEW a, NEW x, NEW f, NEW M,
         List(f, n), a \in DOMAIN m, x \in Nat, Changed(m, M, a, x, n, f)
  PROVE  M = Over(m, <<a, x>>, f)
<1>1. PICK O : O = Over(m, <<a, x>>, f)
  OBVIOUS
<1>2. /\ Memory(O) /\ DOMAIN O = DOMAIN m
      /\ \A c \in DOMAIN m : Extent(O, c) = Extent(m, c) /\ (c # a => O[c] = m[c])
      /\ \A i \in 0 .. Extent(m, a) - 1 :
           O[a][i] = IF i - x + 1 \in 1 .. n THEN f[i - x + 1] ELSE m[a][i]
  <2>1. Changed(m, O, a, x, n, f)
    BY <1>1, OverFacts
  <2> QED
    BY <2>1 DEF Changed
<1>3. /\ O = [c \in DOMAIN m |-> O[c]] /\ M = [c \in DOMAIN m |-> M[c]]
      /\ O[a] \in [0 .. Extent(m, a) - 1 -> Chars] /\ M[a] \in [0 .. Extent(m, a) - 1 -> Chars]
  BY <1>2 DEF Memory, Changed
<1>4. O[a] = M[a]
  <2>1. \A i \in 0 .. Extent(m, a) - 1 : O[a][i] = M[a][i]
    BY <1>2 DEF Changed
  <2>2. PICK o, r, D : o = O[a] /\ r = M[a] /\ D = 0 .. Extent(m, a) - 1
    OBVIOUS
  <2>3. o \in [D -> Chars] /\ r \in [D -> Chars] /\ \A i \in D : o[i] = r[i]
    BY <1>3, <2>1, <2>2
  <2>4. o = r
    BY <2>3, SameFunction
  <2> QED
    BY <2>2, <2>4
<1>5. \A c \in DOMAIN m : O[c] = M[c]
  BY <1>2, <1>4 DEF Changed
<1> QED
  BY <1>1, <1>3, <1>5

LEMMA BytesIs ==
  ASSUME NEW m, Memory(m), NEW n, NEW b, NEW y, Within(m, b, y, n)
  PROVE  Lists(m, b, y, n, Bytes(m, <<b, y>>, n))
<1>0. PICK f : f = Bytes(m, <<b, y>>, n)
  OBVIOUS
<1>1. m[b] \in [0 .. Extent(m, b) - 1 -> Chars] /\ Extent(m, b) \in Nat
  BY DEF Memory, Within
<1>2. f = [i \in 1 .. n |-> m[b][y + (i - 1)]]
  BY <1>0 DEF Bytes, At, Plus
<1>3. \A i \in 1 .. n : y + (i - 1) \in 0 .. Extent(m, b) - 1
  BY <1>1 DEF Within
<1>4. f \in [1 .. n -> Chars] /\ n \in Nat
  BY <1>1, <1>2, <1>3 DEF Within
<1>5. f \in Seq(Chars) /\ Len(f) = n
  BY <1>4, FunctionSeq
<1>6. \A i \in 1 .. n : f[i] = m[b][y + (i - 1)]
  BY <1>2
<1> QED
  BY <1>0, <1>4, <1>5, <1>6 DEF Lists, List

(* memmove, also where source and destination overlap.                     *)
LEMMA MemmoveIs ==
  ASSUME NEW m, Memory(m), "tmp" \notin DOMAIN m, NEW n, NEW a, NEW b, NEW x, NEW y,
         Within(m, a, x, n), Within(m, b, y, n)
  PROVE  memmove(m, <<a, x>>, <<b, y>>, n) = Over(m, <<a, x>>, Bytes(m, <<b, y>>, n))
<1> DEFINE tmp == [i \in 0 .. n - 1 |-> 0]
           allocated == [c \in DOMAIN m \cup {"tmp"} |-> IF c = "tmp" THEN tmp ELSE m[c]]
           copied == memcpy(allocated, <<"tmp", 0>>, <<b, y>>, n)
           back == memcpy(copied, <<a, x>>, <<"tmp", 0>>, n)
<1>1. memmove(m, <<a, x>>, <<b, y>>, n) = [c \in DOMAIN m |-> back[c]]
  BY DEF memmove
<1>2. /\ DOMAIN allocated = DOMAIN m \cup {"tmp"} /\ allocated = [c \in DOMAIN allocated |-> allocated[c]]
      /\ allocated["tmp"] = tmp /\ \A c \in DOMAIN m : allocated[c] = m[c]
  OBVIOUS
<1>0. n \in Nat /\ a \in DOMAIN m /\ b \in DOMAIN m /\ x \in Nat /\ y \in Nat /\ a # "tmp" /\ b # "tmp"
  BY DEF Within
<1>3. tmp \in [0 .. n - 1 -> Chars] /\ Cardinality(DOMAIN tmp) = n
  <2>1. DOMAIN tmp = 0 .. n - 1 /\ tmp \in [0 .. n - 1 -> Chars]
    BY CharFacts
  <2>2. Cardinality(0 .. n - 1) = n
    BY <1>0, FS_Interval
  <2> QED
    BY <2>1, <2>2
<1> HIDE DEF allocated, tmp
<1>4. /\ Memory(allocated) /\ Extent(allocated, "tmp") = n
      /\ \A c \in DOMAIN m : Extent(allocated, c) = Extent(m, c)
  <2>1. Extent(allocated, "tmp") = n
    BY <1>2, <1>3 DEF Extent
  <2>2. \A c \in DOMAIN m : Extent(allocated, c) = Extent(m, c)
    BY <1>2 DEF Extent
  <2>3. \A c \in DOMAIN m : Extent(m, c) \in Nat /\ m[c] \in [0 .. Extent(m, c) - 1 -> Chars]
    BY DEF Memory
  <2>4. \A c \in DOMAIN allocated :
          Extent(allocated, c) \in Nat /\ allocated[c] \in [0 .. Extent(allocated, c) - 1 -> Chars]
    BY <1>0, <1>2, <1>3, <2>1, <2>2, <2>3
  <2> QED
    BY <1>2, <2>1, <2>2, <2>4 DEF Memory
<1>5. PICK f : f = Bytes(allocated, <<b, y>>, n)
  OBVIOUS
<1>6. Within(allocated, b, y, n) /\ Within(allocated, "tmp", 0, n) /\ Apart("tmp", 0, b, y, n)
  BY <1>0, <1>2, <1>4 DEF Within, Apart
<1>7. Lists(allocated, b, y, n, f)
  BY <1>4, <1>5, <1>6, BytesIs
<1>8. List(f, n)
  BY <1>7 DEF Lists
<1>9. copied = Over(allocated, <<"tmp", 0>>, f)
  BY <1>4, <1>5, <1>6, MemcpyIs
<1>10. Changed(allocated, copied, "tmp", 0, n, f)
  <2>1. "tmp" \in DOMAIN allocated /\ 0 \in Nat
    BY <1>2
  <2> QED
    BY <1>4, <1>8, <1>9, <2>1, OverFacts
<1> HIDE DEF copied
<1>11. /\ Memory(copied) /\ DOMAIN copied = DOMAIN m \cup {"tmp"} /\ Extent(copied, "tmp") = n
       /\ \A c \in DOMAIN m : Extent(copied, c) = Extent(m, c) /\ copied[c] = m[c]
       /\ \A i \in 0 .. n - 1 : copied["tmp"][i] = f[i + 1]
  BY <1>0, <1>2, <1>4, <1>10 DEF Changed
<1>12. PICK g : g = Bytes(copied, <<"tmp", 0>>, n)
  OBVIOUS
<1>13. Within(copied, a, x, n) /\ Within(copied, "tmp", 0, n) /\ Apart(a, x, "tmp", 0, n)
  BY <1>0, <1>11 DEF Within, Apart
<1>14. Lists(copied, "tmp", 0, n, g)
  BY <1>11, <1>12, <1>13, BytesIs
<1>15. g = f
  <2>1. \A i \in 1 .. n : g[i] = copied["tmp"][0 + (i - 1)] /\ 0 + (i - 1) \in 0 .. n - 1 /\ (0 + (i - 1)) + 1 = i
    BY <1>0, <1>14 DEF Lists
  <2>2. \A i \in 1 .. n : g[i] = f[i]
    BY <1>11, <2>1
  <2> QED
    BY <1>8, <1>14, <2>2 DEF Lists, List
<1>16. back = Over(copied, <<a, x>>, f)
  <2>1. memcpy(copied, <<a, x>>, <<"tmp", 0>>, n) = Over(copied, <<a, x>>, Bytes(copied, <<"tmp", 0>>, n))
    BY <1>11, <1>13, MemcpyIs
  <2> QED
    BY <1>12, <1>15, <2>1
<1> HIDE DEF back
<1>17. Changed(copied, back, a, x, n, f)
  <2>1. a \in DOMAIN copied
    BY <1>0, <1>11
  <2> QED
    BY <1>0, <1>8, <1>11, <1>16, <2>1, OverFacts
<1>18. PICK M : M = [c \in DOMAIN m |-> back[c]]
  OBVIOUS
<1>19. Changed(m, M, a, x, n, f)
  <2>1. DOMAIN M = DOMAIN m /\ M = [c \in DOMAIN M |-> M[c]] /\ \A c \in DOMAIN m : M[c] = back[c]
    BY <1>18
  <2>2. \A c \in DOMAIN m : Extent(M, c) = Extent(back, c)
    BY <2>1 DEF Extent
  <2>3. \A c \in DOMAIN back : Extent(back, c) \in Nat /\ back[c] \in [0 .. Extent(back, c) - 1 -> Chars]
    BY <1>17 DEF Memory, Changed
  <2>4. DOMAIN back = DOMAIN m \cup {"tmp"} /\ \A c \in DOMAIN m : Extent(back, c) = Extent(m, c) /\ (c # a => back[c] = m[c])
    BY <1>11, <1>17 DEF Changed
  <2>5. Memory(M)
    BY <2>1, <2>2, <2>3, <2>4 DEF Memory
  <2>6. \A i \in 0 .. Extent(m, a) - 1 :
          M[a][i] = IF i - x + 1 \in 1 .. n THEN f[i - x + 1] ELSE m[a][i]
    BY <1>0, <1>11, <1>17, <2>1 DEF Changed
  <2> QED
    BY <2>1, <2>2, <2>4, <2>5, <2>6 DEF Changed
<1>20. M = Over(m, <<a, x>>, f)
  BY <1>0, <1>8, <1>19, OverIs
<1>21. f = Bytes(m, <<b, y>>, n)
  BY <1>0, <1>2, <1>5 DEF Bytes, At, Plus
<1> QED
  BY <1>1, <1>18, <1>20, <1>21

-----------------------------------------------------------------------------
(* Strings: the one at <<b, y>> has l characters.                          *)
Str(m, b, y, l) ==
  /\ b \in DOMAIN m /\ y \in Nat /\ l \in Nat /\ y + l < Extent(m, b)
  /\ m[b][y + l] = 0 /\ \A i \in 0 .. l - 1 : m[b][y + i] # 0

(* As many of its characters as a count allows; it need not end if the     *)
(* count is within the buffer.                                             *)
Cut(m, b, y, n, l) ==
  /\ b \in DOMAIN m /\ y \in Nat /\ n \in Nat /\ l \in 0 .. n /\ y + l <= Extent(m, b)
  /\ l < n => y + l < Extent(m, b) /\ m[b][y + l] = 0
  /\ \A i \in 0 .. l - 1 : m[b][y + i] # 0

LEMMA DistanceIs ==
  ASSUME NEW m, NEW b, NEW y \in Nat, NEW S, NEW l \in Nat,
         m[b][y + l] \in S, \A i \in 0 .. l - 1 : m[b][y + i] \notin S
  PROVE  Distance(m, <<b, y>>, S) = l
<1> DEFINE P == {i \in Nat : m[b][y + i] \in S}
<1>1. Distance(m, <<b, y>>, S) = FirstIn(P)
  BY DEF Distance, At, Plus
<1>2. P \subseteq Nat /\ l \in P
  OBVIOUS
<1>3. \A i \in P : l <= i
  <2> SUFFICES ASSUME NEW i \in P, ~(l <= i) PROVE FALSE
    OBVIOUS
  <2>1. i \in 0 .. l - 1
    OBVIOUS
  <2> QED
    BY <2>1
<1> HIDE DEF P
<1> QED
  BY <1>1, <1>2, <1>3, FirstInIs

LEMMA StrlenIs ==
  ASSUME NEW m, NEW b, NEW y, NEW l, Str(m, b, y, l)
  PROVE  strlen(m, <<b, y>>) = l
<1> DEFINE S == {0}
<1>1. y \in Nat /\ l \in Nat /\ m[b][y + l] \in S /\ \A i \in 0 .. l - 1 : m[b][y + i] \notin S
  BY DEF Str
<1>2. strlen(m, <<b, y>>) = Distance(m, <<b, y>>, S)
  BY DEF strlen
<1> HIDE DEF S
<1>3. Distance(m, <<b, y>>, S) = l
  BY <1>1, DistanceIs
<1> QED
  BY <1>2, <1>3

LEMMA CutIs ==
  ASSUME NEW m, NEW b, NEW y, NEW n, NEW l, Cut(m, b, y, n, l)
  PROVE  FirstIn({i \in Nat : i = n \/ At(m, Plus(<<b, y>>, i)) = 0}) = l
<1> DEFINE P == {i \in Nat : i = n \/ At(m, Plus(<<b, y>>, i)) = 0}
<1>1. P = {i \in Nat : i = n \/ m[b][y + i] = 0}
  BY DEF At, Plus
<1> HIDE DEF P
<1>2. n \in Nat /\ l \in 0 .. n /\ (l < n => m[b][y + l] = 0) /\ \A i \in 0 .. l - 1 : m[b][y + i] # 0
  BY DEF Cut
<1>3. P \subseteq Nat /\ l \in P
  BY <1>1, <1>2
<1>4. ASSUME NEW i \in P PROVE l <= i
  <2>1. i \in Nat /\ (i = n \/ m[b][y + i] = 0)
    BY <1>1
  <2>2. CASE i = n
    BY <1>2, <2>2
  <2>3. CASE i # n
    <3>1. i \notin 0 .. l - 1
      BY <1>2, <2>1, <2>3
    <3> QED
      BY <1>2, <2>1, <3>1
  <2> QED
    BY <2>2, <2>3
<1>5. FirstIn(P) = l
  BY <1>3, <1>4, FirstInIs
<1> QED
  BY <1>5 DEF P

(* Every pointer to a place before a zero points to a string.              *)
LEMMA StrExists ==
  ASSUME NEW m, NEW b \in DOMAIN m, NEW y \in Nat, NEW k \in Nat, Extent(m, b) \in Nat,
         y + k < Extent(m, b), m[b][y + k] = 0
  PROVE  \E l \in 0 .. k : Str(m, b, y, l)
<1> DEFINE T == {i \in 0 .. k : m[b][y + i] = 0}
<1>1. T \subseteq Nat /\ k \in T
  OBVIOUS
<1>2. PICK l \in T : \A i \in T : l <= i
  <2> HIDE DEF T
  <2> QED
    BY <1>1, LeastNumber
<1>3. l \in 0 .. k /\ m[b][y + l] = 0
  OBVIOUS
<1>4. \A i \in 0 .. l - 1 : m[b][y + i] # 0
  <2> SUFFICES ASSUME NEW i \in 0 .. l - 1, m[b][y + i] = 0 PROVE FALSE
    OBVIOUS
  <2>1. i \in 0 .. k
    BY <1>3
  <2>2. i \in T
    BY <2>1
  <2>3. l <= i
    BY <1>2, <2>2
  <2> QED
    BY <1>3, <2>3
<1>5. y + l < Extent(m, b)
  BY <1>3
<1> QED
  BY <1>3, <1>4, <1>5 DEF Str

LEMMA CutExists ==
  ASSUME NEW m, NEW b \in DOMAIN m, NEW y \in Nat, NEW n \in Nat, Extent(m, b) \in Nat,
         (\E l : Str(m, b, y, l)) \/ y + n <= Extent(m, b)
  PROVE  \E l : Cut(m, b, y, n, l)
<1>1. CASE \E k \in 0 .. n - 1 : y + k < Extent(m, b) /\ m[b][y + k] = 0
  <2>1. PICK k \in 0 .. n - 1 : y + k < Extent(m, b) /\ m[b][y + k] = 0
    BY <1>1
  <2>2. PICK l \in 0 .. k : Str(m, b, y, l)
    BY <2>1, StrExists
  <2>3. Cut(m, b, y, n, l)
    BY <2>1, <2>2 DEF Cut, Str
  <2> QED
    BY <2>3
<1>2. CASE ~\E k \in 0 .. n - 1 : y + k < Extent(m, b) /\ m[b][y + k] = 0
  <2>1. y + n <= Extent(m, b)
    <3> SUFFICES ASSUME NEW l, Str(m, b, y, l), ~(y + n <= Extent(m, b)) PROVE FALSE
      OBVIOUS
    <3>1. l \in Nat /\ y + l < Extent(m, b) /\ m[b][y + l] = 0
      BY DEF Str
    <3>2. l \in 0 .. n - 1
      BY <3>1
    <3> QED
      BY <1>2, <3>1, <3>2
  <2>2. \A i \in 0 .. n - 1 : m[b][y + i] # 0
    BY <1>2, <2>1
  <2>3. Cut(m, b, y, n, n)
    BY <2>1, <2>2 DEF Cut
  <2> QED
    BY <2>3
<1> QED
  BY <1>1, <1>2

-----------------------------------------------------------------------------
(* Copies of strings.                                                      *)
LEMMA StrncpyIs ==
  ASSUME NEW m, Memory(m), NEW n, NEW a, NEW b, NEW x, NEW y, NEW l,
         Within(m, a, x, n), Cut(m, b, y, n, l), a # b
  PROVE  /\ List(Padded(Bytes(m, <<b, y>>, l), n), n)
         /\ strncpy(m, <<a, x>>, <<b, y>>, n) = Over(m, <<a, x>>, Padded(Bytes(m, <<b, y>>, l), n))
<1> DEFINE k == IF l = n THEN n ELSE l + 1
           z == n - k
           Z == [i \in 1 .. z |-> 0]
<1>1. /\ n \in Nat /\ l \in 0 .. n /\ a \in DOMAIN m /\ x \in Nat /\ x + n <= Extent(m, a)
      /\ b \in DOMAIN m /\ y \in Nat /\ y + l <= Extent(m, b)
      /\ l < n => y + l < Extent(m, b) /\ m[b][y + l] = 0
  BY DEF Within, Cut
<1>2. Extent(m, a) \in Nat /\ Extent(m, b) \in Nat
  BY <1>1 DEF Memory
<1>3. k \in 0 .. n /\ z \in Nat /\ (k = l \/ k = l + 1) /\ x + k \in Nat
  BY <1>1
<1>4. Within(m, a, x, k) /\ Within(m, b, y, k) /\ Within(m, b, y, l) /\ Apart(a, x, b, y, k)
  BY <1>1, <1>2 DEF Within, Apart
<1>5. strncpy(m, <<a, x>>, <<b, y>>, n) = Clear(memcpy(m, <<a, x>>, <<b, y>>, k), <<a, x + k>>, z)
  <2>1. FirstIn({i \in Nat : i = n \/ At(m, Plus(<<b, y>>, i)) = 0}) = l
    BY CutIs
  <2>2. Plus(<<a, x>>, k) = <<a, x + k>>
    BY DEF Plus
  <2> QED
    BY <2>1, <2>2 DEF strncpy
<1>6. k # l => m[b][y + l] = 0 /\ k = l + 1
  BY <1>1
<1>7. k = l => l = n
  BY <1>1
<1> HIDE DEF k
<1>8. PICK f, g, P, M, O :
        /\ f = Bytes(m, <<b, y>>, k) /\ g = Bytes(m, <<b, y>>, l) /\ P = Padded(g, n)
        /\ M = memcpy(m, <<a, x>>, <<b, y>>, k) /\ O = Clear(M, <<a, x + k>>, z)
  OBVIOUS
<1>9. Lists(m, b, y, k, f) /\ Lists(m, b, y, l, g)
  BY <1>4, <1>8, BytesIs
<1>10. M = Over(m, <<a, x>>, f)
  BY <1>4, <1>8, MemcpyIs
<1>11. Changed(m, M, a, x, k, f)
  <2>1. List(f, k)
    BY <1>9 DEF Lists
  <2> QED
    BY <1>1, <1>10, <2>1, OverFacts
<1>12. Memory(M) /\ DOMAIN M = DOMAIN m /\ \A c \in DOMAIN m : Extent(M, c) = Extent(m, c) /\ (c # a => M[c] = m[c])
  BY <1>11 DEF Changed
<1>13. Within(M, a, x + k, z) /\ List(Z, z) /\ a \in DOMAIN M
  <2>1. a \in DOMAIN M /\ x + k \in Nat /\ z \in Nat /\ (x + k) + z <= Extent(M, a)
    BY <1>1, <1>2, <1>3, <1>12
  <2> QED
    BY <1>3, <2>1, CharFacts DEF Within, List
<1> HIDE DEF z, Z
<1>14. O = Over(M, <<a, x + k>>, Z)
  <2>1. Clear(M, <<a, x + k>>, z) = Over(M, <<a, x + k>>, [i \in 1 .. z |-> 0])
    BY <1>12, <1>13, ClearIs
  <2> QED
    BY <1>8, <2>1 DEF Z
<1>15. Changed(M, O, a, x + k, z, Z)
  BY <1>3, <1>12, <1>13, <1>14, OverFacts
<1>16. P = [i \in 1 .. n |-> IF i <= l THEN g[i] ELSE 0]
  BY <1>8, <1>9 DEF Padded, Lists
<1>17. List(P, n)
  <2>1. \A i \in 1 .. l : g[i] \in Chars
    BY <1>9 DEF Lists, List
  <2>2. \A i \in 1 .. n : i <= l => i \in 1 .. l
    BY <1>1
  <2>3. \A i \in 1 .. n : P[i] \in Chars
    BY <1>16, <2>1, <2>2, CharFacts
  <2>4. P \in [1 .. n -> Chars]
    BY <1>16, <2>3
  <2> QED
    BY <1>1, <2>4 DEF List
<1>18. Changed(m, O, a, x, n, P)
  <2>1. Memory(O) /\ DOMAIN O = DOMAIN m
        /\ \A c \in DOMAIN m : Extent(O, c) = Extent(m, c) /\ (c # a => O[c] = m[c])
    BY <1>12, <1>15 DEF Changed
  <2>2. ASSUME NEW i \in 0 .. Extent(m, a) - 1
        PROVE  O[a][i] = IF i - x + 1 \in 1 .. n THEN P[i - x + 1] ELSE m[a][i]
    <3>1. M[a][i] = IF i - x + 1 \in 1 .. k THEN f[i - x + 1] ELSE m[a][i]
      BY <1>11 DEF Changed
    <3>2. O[a][i] = IF i - (x + k) + 1 \in 1 .. z THEN Z[i - (x + k) + 1] ELSE M[a][i]
      BY <1>1, <1>12, <1>15 DEF Changed
    <3>3. PICK j \in Int : j = i - x + 1
      BY <1>1
    <3>4. i - (x + k) + 1 = j - k
      BY <1>1, <1>3, <3>3
    <3>5. (j - k \in 1 .. z) <=> (j \in k + 1 .. n)
      BY <1>1, <1>3, <3>3 DEF z
    <3>6. \A q \in 1 .. z : Z[q] = 0
      BY DEF Z
    <3>7. CASE j \in k + 1 .. n
      <4>1. O[a][i] = 0
        BY <3>2, <3>4, <3>5, <3>6, <3>7
      <4>2. j \in 1 .. n /\ ~(j <= l)
        BY <1>1, <1>3, <3>7
      <4>3. P[j] = 0
        BY <1>16, <4>2
      <4> QED
        BY <3>3, <4>1, <4>2, <4>3
    <3>8. CASE j \in 1 .. k
      <4>1. j \notin k + 1 .. n /\ j \in 1 .. n
        BY <1>1, <1>3, <3>8
      <4>2. O[a][i] = f[j]
        BY <3>1, <3>2, <3>3, <3>4, <3>5, <3>8, <4>1
      <4>3. f[j] = m[b][y + (j - 1)]
        BY <1>9, <3>8 DEF Lists
      <4>4. CASE j <= l
        <5>1. j \in 1 .. l
          BY <1>1, <4>1, <4>4
        <5>2. g[j] = m[b][y + (j - 1)]
          BY <1>9, <5>1 DEF Lists
        <5> QED
          BY <1>16, <3>3, <4>1, <4>2, <4>3, <4>4, <5>2
      <4>5. CASE ~(j <= l)
        <5>1. j - 1 = l /\ k # l
          BY <1>1, <1>3, <3>8, <4>5
        <5>2. f[j] = 0
          BY <1>6, <4>3, <5>1
        <5>3. P[j] = 0
          BY <1>16, <4>1, <4>5
        <5> QED
          BY <3>3, <4>1, <4>2, <5>2, <5>3
      <4> QED
        BY <4>4, <4>5
    <3>9. CASE j \notin 1 .. n
      <4>1. j \notin k + 1 .. n /\ j \notin 1 .. k
        BY <1>1, <1>3, <3>9
      <4> QED
        BY <3>1, <3>2, <3>3, <3>4, <3>5, <3>9, <4>1
    <3>10. j \in k + 1 .. n \/ j \in 1 .. k \/ j \notin 1 .. n
      BY <1>1, <1>3
    <3> QED
      BY <3>7, <3>8, <3>9, <3>10
  <2> QED
    BY <2>1, <2>2 DEF Changed
<1>19. O = Over(m, <<a, x>>, P)
  BY <1>1, <1>17, <1>18, OverIs
<1> QED
  BY <1>5, <1>8, <1>17, <1>19

(* Two lists and the zero at their end.                                    *)
LEMMA SeqFunction ==
  ASSUME NEW S, NEW F \in Seq(S)
  PROVE  F \in [1 .. Len(F) -> S] /\ Len(F) \in Nat
OBVIOUS

LEMMA AppendIs ==
  ASSUME NEW S, NEW u \in Seq(S), NEW z \in S
  PROVE  /\ u \o <<z>> \in Seq(S) /\ Len(u \o <<z>>) = Len(u) + 1
         /\ (u \o <<z>>)[Len(u) + 1] = z
         /\ \A i \in 1 .. Len(u) : (u \o <<z>>)[i] = u[i]
<1>1. u \o <<z>> = Append(u, z)
  BY ConcatOne
<1>2. /\ Append(u, z) \in Seq(S) /\ Len(Append(u, z)) = Len(u) + 1
      /\ Append(u, z)[Len(u) + 1] = z
      /\ \A i \in 1 .. Len(u) : Append(u, z)[i] = u[i]
  OBVIOUS
<1> QED
  BY <1>1, <1>2

Join(f, g) == f \o g \o <<0>>
Joined(F, f, g, e, l) ==
  /\ List(F, e + l + 1)
  /\ \A i \in 1 .. e : F[i] = f[i]
  /\ \A i \in 1 .. l : F[e + i] = g[i]
  /\ F[e + l + 1] = 0

LEMMA JoinIs ==
  ASSUME NEW f, NEW g, NEW e, NEW l, List(f, e), List(g, l)
  PROVE  Joined(Join(f, g), f, g, e, l)
<1>1. e \in Nat /\ l \in Nat /\ f \in [1 .. e -> Chars] /\ g \in [1 .. l -> Chars]
  BY DEF List
<1>2. f \in Seq(Chars) /\ Len(f) = e /\ g \in Seq(Chars) /\ Len(g) = l
  BY <1>1, FunctionSeq
<1>3. PICK u : u = f \o g
  OBVIOUS
<1>4. u \in Seq(Chars) /\ Len(u) = e + l
      /\ (\A i \in 1 .. e : u[i] = f[i]) /\ (\A i \in 1 .. l : u[e + i] = g[i])
  <2>1. /\ f \o g \in Seq(Chars) /\ Len(f \o g) = Len(f) + Len(g)
        /\ \A i \in 1 .. Len(f) : (f \o g)[i] = f[i]
        /\ \A i \in 1 .. Len(g) : (f \o g)[Len(f) + i] = g[i]
    <3>1. PICK p \in Seq(Chars), q \in Seq(Chars) : p = f /\ q = g
      BY <1>2
    <3>2. /\ p \o q \in Seq(Chars) /\ Len(p \o q) = Len(p) + Len(q)
          /\ \A i \in 1 .. Len(p) : (p \o q)[i] = p[i]
          /\ \A i \in 1 .. Len(q) : (p \o q)[Len(p) + i] = q[i]
      BY ConcatLaws
    <3> QED
      BY <3>1, <3>2
  <2> QED
    BY <1>2, <1>3, <2>1
<1>5. PICK F, k : F = u \o <<0>> /\ k = e + l
  OBVIOUS
<1>6. F \in Seq(Chars) /\ Len(F) = k + 1 /\ F[k + 1] = 0 /\ \A i \in 1 .. k : F[i] = u[i]
  <2>1. 0 \in Chars /\ Len(u) = k
    BY <1>4, <1>5, CharFacts
  <2> QED
    BY <1>4, <1>5, <2>1, AppendIs
<1>7. List(F, k + 1)
  BY <1>6, SeqFunction DEF List
<1>8. \A i \in 1 .. e : F[i] = f[i]
  BY <1>1, <1>4, <1>5, <1>6
<1>9. \A i \in 1 .. l : F[e + i] = g[i]
  <2> SUFFICES ASSUME NEW i \in 1 .. l PROVE F[e + i] = g[i]
    OBVIOUS
  <2>1. e + i \in 1 .. k
    BY <1>1, <1>5
  <2> QED
    BY <1>4, <1>6, <2>1
<1>10. F = Join(f, g)
  BY <1>3, <1>5 DEF Join
<1> QED
  BY <1>5, <1>6, <1>7, <1>8, <1>9, <1>10 DEF Joined

(* Both appending functions write after the string in the destination; the *)
(* string itself may as well be written again.                             *)
Appended(m, O, a, x, e, b, y, l) ==
  /\ Memory(O) /\ DOMAIN O = DOMAIN m
  /\ \A c \in DOMAIN m : Extent(O, c) = Extent(m, c) /\ (c # a => O[c] = m[c])
  /\ \A i \in 0 .. Extent(m, a) - 1 :
       /\ i < x + e \/ i > x + e + l => O[a][i] = m[a][i]
       /\ i >= x + e /\ i < x + e + l => O[a][i] = m[b][y + (i - (x + e))]
       /\ i = x + e + l => O[a][i] = 0

LEMMA AppendedIs ==
  ASSUME NEW m, Memory(m), NEW O, NEW a, NEW b, NEW x, NEW y, NEW e, NEW l,
         Str(m, a, x, e), Within(m, b, y, l), x + e + l < Extent(m, a),
         Appended(m, O, a, x, e, b, y, l)
  PROVE  /\ List(Join(Bytes(m, <<a, x>>, e), Bytes(m, <<b, y>>, l)), e + l + 1)
         /\ O = Over(m, <<a, x>>, Join(Bytes(m, <<a, x>>, e), Bytes(m, <<b, y>>, l)))
<1>1. /\ a \in DOMAIN m /\ x \in Nat /\ e \in Nat /\ l \in Nat /\ y \in Nat /\ b \in DOMAIN m
      /\ Extent(m, a) \in Nat /\ Extent(m, b) \in Nat
  BY DEF Str, Within, Memory
<1>2. Within(m, a, x, e)
  BY <1>1 DEF Within
<1>3. PICK f, g : f = Bytes(m, <<a, x>>, e) /\ g = Bytes(m, <<b, y>>, l)
  OBVIOUS
<1>4. Lists(m, a, x, e, f) /\ Lists(m, b, y, l, g)
  BY <1>2, <1>3, BytesIs
<1>5. List(f, e) /\ List(g, l)
  BY <1>4 DEF Lists
<1>0. PICK F : F = Join(f, g)
  OBVIOUS
<1>6. /\ List(F, e + l + 1)
      /\ \A i \in 1 .. e : F[i] = f[i]
      /\ \A i \in 1 .. l : F[e + i] = g[i]
      /\ F[e + l + 1] = 0
  <2>1. Joined(F, f, g, e, l)
    BY <1>0, <1>5, JoinIs
  <2> QED
    BY <2>1 DEF Joined
<1>10. /\ Memory(O) /\ DOMAIN O = DOMAIN m
       /\ \A c \in DOMAIN m : Extent(O, c) = Extent(m, c) /\ (c # a => O[c] = m[c])
  BY DEF Appended
<1>11. \A i \in 0 .. Extent(m, a) - 1 :
         /\ i < x + e \/ i > x + e + l => O[a][i] = m[a][i]
         /\ i >= x + e /\ i < x + e + l => O[a][i] = m[b][y + (i - (x + e))]
         /\ i = x + e + l => O[a][i] = 0
  BY DEF Appended
<1>7. ASSUME NEW i \in 0 .. Extent(m, a) - 1
      PROVE  O[a][i] = IF i - x + 1 \in 1 .. e + l + 1 THEN F[i - x + 1] ELSE m[a][i]
  <2>1. PICK j \in Int : j = i - x + 1
    BY <1>1
  <2>2. CASE j \in 1 .. e
    <3>1. i < x + e /\ j \in 1 .. e + l + 1 /\ x + (j - 1) = i
      BY <1>1, <2>1, <2>2
    <3>2. F[j] = m[a][i]
      <4>1. F[j] = f[j]
        BY <1>6, <2>2
      <4>2. f[j] = m[a][x + (j - 1)]
        BY <1>4, <2>2 DEF Lists
      <4> QED
        BY <3>1, <4>1, <4>2
    <3>3. O[a][i] = m[a][i]
      BY <1>11, <3>1
    <3> QED
      BY <2>1, <3>1, <3>2, <3>3
  <2>3. CASE j \in e + 1 .. e + l
    <3>1. /\ i >= x + e /\ i < x + e + l /\ j \in 1 .. e + l + 1
          /\ j - e \in 1 .. l /\ e + (j - e) = j /\ (j - e) - 1 = i - (x + e)
      BY <1>1, <2>1, <2>3
    <3>2. F[j] = g[j - e]
      BY <1>6, <3>1
    <3>3. g[j - e] = m[b][y + (i - (x + e))]
      BY <1>4, <3>1 DEF Lists
    <3>4. O[a][i] = m[b][y + (i - (x + e))]
      BY <1>11, <3>1
    <3> QED
      BY <2>1, <3>1, <3>2, <3>3, <3>4
  <2>4. CASE j = e + l + 1
    <3>1. i = x + e + l /\ j \in 1 .. e + l + 1
      BY <1>1, <2>1, <2>4
    <3>2. O[a][i] = 0
      BY <1>11, <3>1
    <3> QED
      BY <1>6, <2>1, <2>4, <3>1, <3>2
  <2>5. CASE j \notin 1 .. e + l + 1
    <3>1. i < x + e \/ i > x + e + l
      BY <1>1, <2>1, <2>5
    <3>2. O[a][i] = m[a][i]
      BY <1>11, <3>1
    <3> QED
      BY <2>1, <2>5, <3>2
  <2> QED
    BY <1>1, <2>2, <2>3, <2>4, <2>5
<1>8. Changed(m, O, a, x, e + l + 1, F)
  BY <1>7, <1>10 DEF Changed
<1>9. O = Over(m, <<a, x>>, F)
  BY <1>1, <1>6, <1>8, OverIs
<1> QED
  BY <1>0, <1>3, <1>6, <1>9

LEMMA StrncatIs ==
  ASSUME NEW m, Memory(m), NEW n, NEW a, NEW b, NEW x, NEW y, NEW e, NEW l,
         Str(m, a, x, e), Cut(m, b, y, n, l), a # b, x + e + l < Extent(m, a)
  PROVE  /\ List(Join(Bytes(m, <<a, x>>, e), Bytes(m, <<b, y>>, l)), e + l + 1)
         /\ strncat(m, <<a, x>>, <<b, y>>, n)
              = Over(m, <<a, x>>, Join(Bytes(m, <<a, x>>, e), Bytes(m, <<b, y>>, l)))
<1>1. /\ a \in DOMAIN m /\ x \in Nat /\ e \in Nat /\ l \in Nat /\ y \in Nat /\ b \in DOMAIN m
      /\ Extent(m, a) \in Nat /\ Extent(m, b) \in Nat /\ y + l <= Extent(m, b)
  BY DEF Str, Cut, Memory
<1>2. PICK p : p = x + e
  OBVIOUS
<1>3. PICK M, O : M = memcpy(m, <<a, p>>, <<b, y>>, l) /\ O = [M EXCEPT ![a] = [M[a] EXCEPT ![p + l] = 0]]
  OBVIOUS
<1>4. strncat(m, <<a, x>>, <<b, y>>, n) = O
  <2>1. strlen(m, <<a, x>>) = e
    BY StrlenIs
  <2>2. FirstIn({i \in Nat : i = n \/ At(m, Plus(<<b, y>>, i)) = 0}) = l
    BY CutIs
  <2>3. Plus(<<a, x>>, e) = <<a, p>> /\ Plus(<<a, p>>, l) = <<a, p + l>>
    BY <1>2 DEF Plus
  <2>4. Put(M, <<a, p + l>>, 0) = O
    BY <1>3 DEF Put
  <2> QED
    BY <1>3, <2>1, <2>2, <2>3, <2>4 DEF strncat
<1>5. Within(m, a, p, l) /\ Within(m, b, y, l) /\ Apart(a, p, b, y, l) /\ p \in Nat
  BY <1>1, <1>2 DEF Within, Apart
<1>6. PICK f : f = Bytes(m, <<b, y>>, l)
  OBVIOUS
<1>7. Lists(m, b, y, l, f) /\ List(f, l)
  BY <1>5, <1>6, BytesIs DEF Lists
<1>8. Changed(m, M, a, p, l, f)
  <2>1. M = Over(m, <<a, p>>, f)
    BY <1>3, <1>5, <1>6, MemcpyIs
  <2> QED
    BY <1>1, <1>5, <1>7, <2>1, OverFacts
<1>9. /\ Memory(M) /\ DOMAIN M = DOMAIN m
      /\ \A c \in DOMAIN m : Extent(M, c) = Extent(m, c) /\ (c # a => M[c] = m[c])
  BY <1>8 DEF Changed
<1>10. /\ M = [c \in DOMAIN m |-> M[c]] /\ M[a] \in [0 .. Extent(m, a) - 1 -> Chars]
       /\ \A c \in DOMAIN m : Extent(m, c) \in Nat /\ M[c] \in [0 .. Extent(m, c) - 1 -> Chars]
  BY <1>1, <1>9 DEF Memory
<1>11. PICK r : r = [M[a] EXCEPT ![p + l] = 0]
  OBVIOUS
<1>12. r \in [0 .. Extent(m, a) - 1 -> Chars] /\ DOMAIN r = DOMAIN M[a]
  BY <1>10, <1>11, CharFacts
<1>13. O[a] = r /\ DOMAIN O = DOMAIN m /\ O = [c \in DOMAIN O |-> O[c]] /\ \A c \in DOMAIN m : c # a => O[c] = m[c]
  BY <1>1, <1>3, <1>9, <1>10, <1>11
<1>14. \A c \in DOMAIN m : Extent(O, c) = Extent(m, c)
  <2>1. \A c \in DOMAIN m : DOMAIN O[c] = DOMAIN M[c]
    BY <1>9, <1>12, <1>13
  <2>2. \A c \in DOMAIN m : Extent(O, c) = Extent(M, c)
    BY <2>1 DEF Extent
  <2> QED
    BY <1>9, <2>2
<1>15. Memory(O)
  <2>1. \A c \in DOMAIN m : O[c] \in [0 .. Extent(m, c) - 1 -> Chars]
    BY <1>9, <1>10, <1>12, <1>13
  <2> QED
    BY <1>10, <1>13, <1>14, <2>1 DEF Memory
<1>16. ASSUME NEW i \in 0 .. Extent(m, a) - 1
       PROVE  /\ i < x + e \/ i > x + e + l => O[a][i] = m[a][i]
              /\ i >= x + e /\ i < x + e + l => O[a][i] = m[b][y + (i - (x + e))]
              /\ i = x + e + l => O[a][i] = 0
  <2>1. O[a][i] = IF i = p + l THEN 0 ELSE M[a][i]
    BY <1>10, <1>11, <1>13
  <2>2. M[a][i] = IF i - p + 1 \in 1 .. l THEN f[i - p + 1] ELSE m[a][i]
    BY <1>8 DEF Changed
  <2>3. ASSUME i >= p, i < p + l
        PROVE  O[a][i] = m[b][y + (i - p)]
    <3>1. i - p + 1 \in 1 .. l /\ (i - p + 1) - 1 = i - p /\ i # p + l
      BY <1>1, <1>5, <2>3
    <3>2. f[i - p + 1] = m[b][y + (i - p)]
      BY <1>7, <3>1 DEF Lists
    <3> QED
      BY <2>1, <2>2, <3>1, <3>2
  <2>4. ASSUME i < p \/ i > p + l
        PROVE  O[a][i] = m[a][i]
    <3>1. i - p + 1 \notin 1 .. l /\ i # p + l
      BY <1>1, <1>5, <2>4
    <3> QED
      BY <2>1, <2>2, <3>1
  <2> QED
    BY <1>2, <2>1, <2>3, <2>4
<1>17. Appended(m, O, a, x, e, b, y, l)
  BY <1>13, <1>14, <1>15, <1>16 DEF Appended
<1> QED
  BY <1>4, <1>5, <1>17, AppendedIs

LEMMA StrcatIs ==
  ASSUME NEW m, Memory(m), NEW a, NEW b, NEW x, NEW y, NEW e, NEW l,
         Str(m, a, x, e), Str(m, b, y, l), a # b, x + e + l < Extent(m, a)
  PROVE  /\ List(Join(Bytes(m, <<a, x>>, e), Bytes(m, <<b, y>>, l)), e + l + 1)
         /\ strcat(m, <<a, x>>, <<b, y>>)
              = Over(m, <<a, x>>, Join(Bytes(m, <<a, x>>, e), Bytes(m, <<b, y>>, l)))
<1>1. /\ a \in DOMAIN m /\ x \in Nat /\ e \in Nat /\ l \in Nat /\ y \in Nat /\ b \in DOMAIN m
      /\ Extent(m, a) \in Nat /\ Extent(m, b) \in Nat /\ y + l < Extent(m, b) /\ m[b][y + l] = 0
  BY DEF Str, Memory
<1>2. PICK p, k : p = x + e /\ k = l + 1
  OBVIOUS
<1>3. PICK O : O = memcpy(m, <<a, p>>, <<b, y>>, k)
  OBVIOUS
<1>4. strcat(m, <<a, x>>, <<b, y>>) = O
  <2>1. strlen(m, <<a, x>>) = e /\ strlen(m, <<b, y>>) = l
    BY StrlenIs
  <2>2. Plus(<<a, x>>, e) = <<a, p>>
    BY <1>2 DEF Plus
  <2> QED
    BY <1>2, <1>3, <2>1, <2>2 DEF strcat, strcpy
<1>5. Within(m, a, p, k) /\ Within(m, b, y, k) /\ Within(m, b, y, l) /\ Apart(a, p, b, y, k) /\ p \in Nat /\ k \in Nat
  BY <1>1, <1>2 DEF Within, Apart
<1>6. PICK f : f = Bytes(m, <<b, y>>, k)
  OBVIOUS
<1>7. Lists(m, b, y, k, f) /\ List(f, k)
  BY <1>5, <1>6, BytesIs DEF Lists
<1>8. Changed(m, O, a, p, k, f)
  <2>1. O = Over(m, <<a, p>>, f)
    BY <1>3, <1>5, <1>6, MemcpyIs
  <2> QED
    BY <1>1, <1>5, <1>7, <2>1, OverFacts
<1>9. /\ Memory(O) /\ DOMAIN O = DOMAIN m
      /\ \A c \in DOMAIN m : Extent(O, c) = Extent(m, c) /\ (c # a => O[c] = m[c])
  BY <1>8 DEF Changed
<1>16. ASSUME NEW i \in 0 .. Extent(m, a) - 1
       PROVE  /\ i < x + e \/ i > x + e + l => O[a][i] = m[a][i]
              /\ i >= x + e /\ i < x + e + l => O[a][i] = m[b][y + (i - (x + e))]
              /\ i = x + e + l => O[a][i] = 0
  <2>2. O[a][i] = IF i - p + 1 \in 1 .. k THEN f[i - p + 1] ELSE m[a][i]
    BY <1>8 DEF Changed
  <2>3. ASSUME i >= p, i <= p + l
        PROVE  O[a][i] = m[b][y + (i - p)]
    <3>1. i - p + 1 \in 1 .. k /\ (i - p + 1) - 1 = i - p
      BY <1>1, <1>2, <1>5, <2>3
    <3>2. f[i - p + 1] = m[b][y + (i - p)]
      BY <1>7, <3>1 DEF Lists
    <3> QED
      BY <2>2, <3>1, <3>2
  <2>4. ASSUME i < p \/ i > p + l
        PROVE  O[a][i] = m[a][i]
    <3>1. i - p + 1 \notin 1 .. k
      BY <1>1, <1>2, <1>5, <2>4
    <3> QED
      BY <2>2, <3>1
  <2>5. i = p + l => i - p = l
    BY <1>1, <1>5
  <2> QED
    BY <1>1, <1>2, <1>5, <2>3, <2>4, <2>5
<1>17. Appended(m, O, a, x, e, b, y, l)
  BY <1>9, <1>16 DEF Appended
<1> QED
  BY <1>4, <1>5, <1>17, AppendedIs

-----------------------------------------------------------------------------
(* The program's memory.                                                   *)
MemInv ==
  /\ Memory(mem) /\ DOMAIN mem = Buffers \cup {"literal", "empty"}
  /\ mem["literal"] = Literal /\ mem["empty"] = Blank(1)
  /\ \A b \in Buffers : Extent(mem, b) = Size[b]

(* p is the pointer <<b, y>> to a place in a buffer.                       *)
Place(p, b, y) ==
  /\ p = <<b, y>> /\ b \in DOMAIN mem /\ y \in Nat /\ Extent(mem, b) \in Nat
  /\ y < Extent(mem, b)

LEMMA PlaceIs ==
  ASSUME Memory(mem), NEW B, B \subseteq DOMAIN mem, NEW p \in Pointers(B)
  PROVE  \E b \in B, y \in Nat : Place(p, b, y)
<1>1. p \in B \X (0 .. MaxOffset) /\ p[2] \in DOMAIN mem[p[1]]
  BY DEF Pointers
<1>2. PICK b, y : b = p[1] /\ y = p[2]
  OBVIOUS
<1>3. p = <<b, y>> /\ b \in B /\ y \in 0 .. MaxOffset /\ y \in DOMAIN mem[b]
  BY <1>1, <1>2
<1>4. Extent(mem, b) \in Nat /\ mem[b] \in [0 .. Extent(mem, b) - 1 -> Chars]
  BY <1>3 DEF Memory
<1>5. y \in 0 .. Extent(mem, b) - 1
  BY <1>3, <1>4
<1>6. y \in Nat /\ y < Extent(mem, b)
  BY <1>4, <1>5
<1> QED
  BY <1>3, <1>4, <1>6 DEF Place

LEMMA PlaceFacts ==
  ASSUME NEW p, NEW b, NEW y, Place(p, b, y)
  PROVE  /\ Room(p) = Extent(mem, b) - y
         /\ IsString(p) <=> \E l : Str(mem, b, y, l)
         /\ \A l : Str(mem, b, y, l) => strlen(mem, p) = l /\ StringAt(mem, p) = Bytes(mem, <<b, y>>, l)
         /\ \A n \in Nat : n <= Room(p) => Within(mem, b, y, n)
<1>1. p = <<b, y>> /\ b \in DOMAIN mem /\ y \in Nat /\ Extent(mem, b) \in Nat /\ y < Extent(mem, b)
  BY DEF Place
<1>2. Room(p) = Extent(mem, b) - y
  BY <1>1 DEF Room, Extent
<1>3. ASSUME IsString(p) PROVE \E l : Str(mem, b, y, l)
  <2>1. PICK i \in 0 .. Room(p) - 1 : At(mem, Plus(p, i)) = 0
    BY <1>3 DEF IsString
  <2>2. mem[b][y + i] = 0
    BY <1>1, <2>1 DEF At, Plus
  <2>3. i \in Nat /\ y + i < Extent(mem, b)
    BY <1>1, <1>2
  <2> QED
    BY <1>1, <2>2, <2>3, StrExists
<1>4. ASSUME NEW l, Str(mem, b, y, l)
      PROVE  IsString(p) /\ strlen(mem, p) = l /\ StringAt(mem, p) = Bytes(mem, <<b, y>>, l)
  <2>1. l \in Nat /\ y + l < Extent(mem, b) /\ mem[b][y + l] = 0
    BY <1>4 DEF Str
  <2>2. l \in 0 .. Room(p) - 1
    BY <1>1, <1>2, <2>1
  <2>3. At(mem, Plus(p, l)) = 0
    BY <1>1, <2>1 DEF At, Plus
  <2>4. strlen(mem, p) = l
    BY <1>1, <1>4, StrlenIs
  <2> QED
    BY <1>1, <2>2, <2>3, <2>4 DEF IsString, StringAt
<1>5. \A n \in Nat : n <= Room(p) => Within(mem, b, y, n)
  BY <1>1, <1>2 DEF Within
<1> QED
  BY <1>2, <1>3, <1>4, <1>5

(* What a count leaves of a string.                                        *)
LEMMA CutMin ==
  ASSUME NEW m, NEW b, NEW y, NEW n, NEW l, NEW k, Cut(m, b, y, n, l), Str(m, b, y, k)
  PROVE  l = IF k < n THEN k ELSE n
<1>1. /\ y \in Nat /\ n \in Nat /\ l \in 0 .. n /\ (l < n => m[b][y + l] = 0)
      /\ \A i \in 0 .. l - 1 : m[b][y + i] # 0
  BY DEF Cut
<1>2. k \in Nat /\ m[b][y + k] = 0 /\ \A i \in 0 .. k - 1 : m[b][y + i] # 0
  BY DEF Str
<1>3. k \notin 0 .. l - 1 /\ (l < n => l \notin 0 .. k - 1)
  BY <1>1, <1>2
<1> QED
  BY <1>1, <1>2, <1>3

LEMMA MinIs ==
  /\ \A n \in Nat : Min({n} \cup {}) = n
  /\ \A n, k \in Nat : Min({n} \cup {k}) = IF k < n THEN k ELSE n
<1>1. ASSUME NEW n \in Nat PROVE Min({n} \cup {}) = n
  BY DEF Min
<1>2. ASSUME NEW n \in Nat, NEW k \in Nat PROVE Min({n} \cup {k}) = IF k < n THEN k ELSE n
  <2> DEFINE S == {n} \cup {k}
             w == IF k < n THEN k ELSE n
  <2>1. w \in S /\ \A y \in S : w <= y
    OBVIOUS
  <2>2. \A x \in S : (\A y \in S : x <= y) => x = w
    OBVIOUS
  <2> QED
    BY <2>1, <2>2 DEF Min
<1> QED
  BY <1>1, <1>2

(* The functions that write, called as a program may call them.            *)
LEMMA Appendable ==
  ASSUME NEW d, NEW s, NEW n \in Nat, NEW a, NEW b, NEW x, NEW y,
         Place(d, a, x), Place(s, b, y), MayAppend(d, s, n)
  PROVE  \E e, l : /\ Str(mem, a, x, e) /\ Cut(mem, b, y, n, l) /\ a # b
                   /\ x + e + l < Extent(mem, a)
                   /\ \A k : Str(mem, b, y, k) => l = IF k < n THEN k ELSE n
<1>1. /\ d[1] # s[1] /\ IsString(d) /\ (IsString(s) \/ n <= Room(s))
      /\ strlen(mem, d) + Min({n} \cup (IF IsString(s) THEN {strlen(mem, s)} ELSE {})) < Room(d)
  BY DEF MayAppend
<1>2. /\ d = <<a, x>> /\ s = <<b, y>> /\ x \in Nat /\ y \in Nat /\ b \in DOMAIN mem
      /\ Extent(mem, a) \in Nat /\ Extent(mem, b) \in Nat
      /\ Room(d) = Extent(mem, a) - x /\ Room(s) = Extent(mem, b) - y
  BY PlaceFacts DEF Place
<1>3. a # b
  BY <1>1, <1>2
<1>4. PICK e : Str(mem, a, x, e)
  BY <1>1, PlaceFacts
<1>5. e \in Nat /\ strlen(mem, d) = e
  BY <1>4, PlaceFacts DEF Str
<1>6. (\E l : Str(mem, b, y, l)) \/ y + n <= Extent(mem, b)
  <2>1. IsString(s) => \E l : Str(mem, b, y, l)
    BY PlaceFacts
  <2> QED
    BY <1>1, <1>2, <2>1
<1>7. PICK l : Cut(mem, b, y, n, l)
  BY <1>2, <1>6, CutExists
<1>8. l \in 0 .. n
  BY <1>7 DEF Cut
<1>9. CASE IsString(s)
  <2>1. PICK k : Str(mem, b, y, k)
    BY <1>9, PlaceFacts
  <2>2. k \in Nat /\ strlen(mem, s) = k
    BY <2>1, PlaceFacts DEF Str
  <2>3. l = IF k < n THEN k ELSE n
    BY <1>7, <2>1, CutMin
  <2>4. Min({n} \cup {k}) = l
    BY <2>2, <2>3, MinIs
  <2>5. e + l < Room(d)
    BY <1>1, <1>5, <1>9, <2>2, <2>4
  <2>6. x + e + l < Extent(mem, a)
    BY <1>2, <1>5, <1>8, <2>5
  <2>7. \A j : Str(mem, b, y, j) => l = IF j < n THEN j ELSE n
    BY <1>7, CutMin
  <2> QED
    BY <1>3, <1>4, <1>7, <2>6, <2>7
<1>10. CASE ~IsString(s)
  <2>1. l = n
    <3> SUFFICES ASSUME l # n PROVE FALSE
      OBVIOUS
    <3>1. Str(mem, b, y, l)
      BY <1>2, <1>7, <1>8 DEF Cut, Str
    <3> QED
      BY <1>10, <3>1, PlaceFacts
  <2>2. Min({n} \cup {}) = l
    BY <2>1, MinIs
  <2>5. e + l < Room(d)
    BY <1>1, <1>5, <1>10, <2>2
  <2>6. x + e + l < Extent(mem, a)
    BY <1>2, <1>5, <1>8, <2>5
  <2>7. \A j : Str(mem, b, y, j) => l = IF j < n THEN j ELSE n
    BY <1>7, CutMin
  <2> QED
    BY <1>3, <1>4, <1>7, <2>6, <2>7
<1> QED
  BY <1>9, <1>10

(* M is memory after bytes were written at d.                              *)
Writes(M, d, bytes) == M = Overwritten(d, bytes) /\ \E k : List(bytes, k)

LEMMA WritesIs ==
  ASSUME NEW M, NEW d, NEW a, NEW x, NEW f, NEW k,
         Place(d, a, x), M = Over(mem, <<a, x>>, f), List(f, k)
  PROVE  Writes(M, d, f)
<1>1. d = <<a, x>>
  BY DEF Place
<1>2. M = Overwritten(d, f)
  BY <1>1 DEF Overwritten, Over
<1> QED
  BY <1>2 DEF Writes

LEMMA CallsWrite ==
  ASSUME MemInv, NEW d \in Writable, NEW s \in Readable, NEW n \in 0 .. MaxCount
  PROVE  /\ MayMove(d, s, n) => Writes(memmove(mem, d, s, n), d, Bytes(mem, s, n))
         /\ MayCopy(d, s, n) => Writes(memcpy(mem, d, s, n), d, Bytes(mem, s, n))
         /\ MayCopyString(d, s, n) => Writes(strncpy(mem, d, s, n), d, Padded(Limited(s, n), n))
         /\ MayAppend(d, s, n) =>
              Writes(strncat(mem, d, s, n), d, StringAt(mem, d) \o Limited(s, n) \o <<0>>)
         /\ IsString(s) /\ MayAppend(d, s, strlen(mem, s)) =>
              Writes(strcat(mem, d, s), d, StringAt(mem, d) \o StringAt(mem, s) \o <<0>>)
<1>1. Memory(mem) /\ DOMAIN mem = Buffers \cup {"literal", "empty"} /\ "tmp" \notin DOMAIN mem
  BY BufferAssumption DEF MemInv
<1>2. PICK a \in Buffers \ busy, x \in Nat : Place(d, a, x)
  <2>1. Buffers \ busy \subseteq DOMAIN mem
    BY <1>1
  <2> QED
    BY <1>1, <2>1, PlaceIs DEF Writable
<1>3. PICK b \in Buffers \cup {"literal"}, y \in Nat : Place(s, b, y)
  <2>1. Buffers \cup {"literal"} \subseteq DOMAIN mem
    BY <1>1
  <2> QED
    BY <1>1, <2>1, PlaceIs DEF Readable
<1>4. /\ d = <<a, x>> /\ s = <<b, y>> /\ a \in DOMAIN mem /\ b \in DOMAIN mem
      /\ Extent(mem, a) \in Nat /\ Extent(mem, b) \in Nat
  BY <1>2, <1>3 DEF Place
<1>5. n \in Nat
  BY BoundAssumption
<1>6. ASSUME MayMove(d, s, n)
      PROVE  Within(mem, a, x, n) /\ Within(mem, b, y, n) /\ List(Bytes(mem, <<b, y>>, n), n)
  <2>1. Within(mem, a, x, n) /\ Within(mem, b, y, n)
    BY <1>2, <1>3, <1>5, <1>6, PlaceFacts DEF MayMove
  <2>2. Lists(mem, b, y, n, Bytes(mem, <<b, y>>, n))
    BY <1>1, <2>1, BytesIs
  <2> QED
    BY <2>1, <2>2 DEF Lists
<1>7. ASSUME MayMove(d, s, n)
      PROVE  Writes(memmove(mem, d, s, n), d, Bytes(mem, s, n))
  <2>1. memmove(mem, <<a, x>>, <<b, y>>, n) = Over(mem, <<a, x>>, Bytes(mem, <<b, y>>, n))
    BY <1>1, <1>6, <1>7, MemmoveIs
  <2> QED
    BY <1>2, <1>4, <1>6, <1>7, <2>1, WritesIs
<1>8. ASSUME MayCopy(d, s, n)
      PROVE  Writes(memcpy(mem, d, s, n), d, Bytes(mem, s, n))
  <2>1. MayMove(d, s, n) /\ ~Overlap(d, s, n)
    BY <1>8 DEF MayCopy
  <2>2. Apart(a, x, b, y, n)
    BY <1>4, <1>5, <2>1 DEF Overlap, Apart
  <2>3. memcpy(mem, <<a, x>>, <<b, y>>, n) = Over(mem, <<a, x>>, Bytes(mem, <<b, y>>, n))
    BY <1>1, <1>6, <2>1, <2>2, MemcpyIs
  <2> QED
    BY <1>2, <1>4, <1>6, <2>1, <2>3, WritesIs
<1>9. ASSUME NEW l, Cut(mem, b, y, n, l)
      PROVE  Limited(s, n) = Bytes(mem, <<b, y>>, l)
  <2>1. FirstIn({i \in Nat : i = n \/ At(mem, Plus(<<b, y>>, i)) = 0}) = l
    BY <1>9, CutIs
  <2> QED
    BY <1>4, <2>1 DEF Limited
<1>10. ASSUME MayCopyString(d, s, n)
       PROVE  Writes(strncpy(mem, d, s, n), d, Padded(Limited(s, n), n))
  <2>1. d[1] # s[1] /\ n <= Room(d) /\ (IsString(s) \/ n <= Room(s))
    BY <1>10 DEF MayCopyString
  <2>2. a # b /\ Within(mem, a, x, n) /\ Room(s) = Extent(mem, b) - y
    BY <1>2, <1>3, <1>4, <1>5, <2>1, PlaceFacts
  <2>3. (\E l : Str(mem, b, y, l)) \/ y + n <= Extent(mem, b)
    <3>1. IsString(s) => \E l : Str(mem, b, y, l)
      BY <1>3, PlaceFacts
    <3> QED
      BY <1>4, <1>5, <2>1, <2>2, <3>1
  <2>4. PICK l : Cut(mem, b, y, n, l)
    BY <1>4, <1>5, <2>3, CutExists
  <2>5. PICK f : f = Padded(Bytes(mem, <<b, y>>, l), n)
    OBVIOUS
  <2>6. List(f, n) /\ strncpy(mem, <<a, x>>, <<b, y>>, n) = Over(mem, <<a, x>>, f)
    BY <1>1, <2>2, <2>4, <2>5, StrncpyIs
  <2>7. Writes(strncpy(mem, <<a, x>>, <<b, y>>, n), d, f)
    BY <1>2, <2>6, WritesIs
  <2> QED
    BY <1>4, <1>9, <2>4, <2>5, <2>7
<1>11. ASSUME MayAppend(d, s, n)
       PROVE  Writes(strncat(mem, d, s, n), d, StringAt(mem, d) \o Limited(s, n) \o <<0>>)
  <2>1. PICK e, l : /\ Str(mem, a, x, e) /\ Cut(mem, b, y, n, l) /\ a # b
                    /\ x + e + l < Extent(mem, a)
    BY <1>2, <1>3, <1>5, <1>11, Appendable
  <2>2. PICK f : f = Join(Bytes(mem, <<a, x>>, e), Bytes(mem, <<b, y>>, l))
    OBVIOUS
  <2>3. List(f, e + l + 1) /\ strncat(mem, <<a, x>>, <<b, y>>, n) = Over(mem, <<a, x>>, f)
    BY <1>1, <2>1, <2>2, StrncatIs
  <2>4. Writes(strncat(mem, <<a, x>>, <<b, y>>, n), d, f)
    BY <1>2, <2>3, WritesIs
  <2>5. f = StringAt(mem, d) \o Limited(s, n) \o <<0>>
    <3>1. StringAt(mem, d) = Bytes(mem, <<a, x>>, e)
      BY <1>2, <2>1, PlaceFacts
    <3>2. Limited(s, n) = Bytes(mem, <<b, y>>, l)
      BY <1>9, <2>1
    <3> QED
      BY <2>2, <3>1, <3>2 DEF Join
  <2> QED
    BY <1>4, <2>4, <2>5
<1>12. ASSUME IsString(s), MayAppend(d, s, strlen(mem, s))
       PROVE  Writes(strcat(mem, d, s), d, StringAt(mem, d) \o StringAt(mem, s) \o <<0>>)
  <2>1. PICK k : Str(mem, b, y, k)
    BY <1>3, <1>12, PlaceFacts
  <2>2. k \in Nat /\ strlen(mem, s) = k /\ StringAt(mem, s) = Bytes(mem, <<b, y>>, k)
    BY <1>3, <2>1, PlaceFacts DEF Str
  <2>3. PICK e, l : /\ Str(mem, a, x, e) /\ a # b
                    /\ x + e + l < Extent(mem, a)
                    /\ \A j : Str(mem, b, y, j) => l = IF j < k THEN j ELSE k
    BY <1>2, <1>3, <1>12, <2>2, Appendable
  <2>4. l = k
    BY <2>1, <2>2, <2>3
  <2>5. PICK f : f = Join(Bytes(mem, <<a, x>>, e), Bytes(mem, <<b, y>>, k))
    OBVIOUS
  <2>6. List(f, e + k + 1) /\ strcat(mem, <<a, x>>, <<b, y>>) = Over(mem, <<a, x>>, f)
    BY <1>1, <2>1, <2>3, <2>4, <2>5, StrcatIs
  <2>7. Writes(strcat(mem, <<a, x>>, <<b, y>>), d, f)
    BY <1>2, <2>6, WritesIs
  <2>8. f = StringAt(mem, d) \o StringAt(mem, s) \o <<0>>
    <3>1. StringAt(mem, d) = Bytes(mem, <<a, x>>, e)
      BY <1>2, <2>3, PlaceFacts
    <3> QED
      BY <2>2, <2>5, <3>1 DEF Join
  <2> QED
    BY <1>4, <2>7, <2>8
<1> QED
  BY <1>7, <1>8, <1>10, <1>11, <1>12

LEMMA CopiesHold == MemInv => CopiesAgree
<1> SUFFICES ASSUME MemInv, NEW d \in Writable, NEW s \in Readable, NEW n \in 0 .. MaxCount
             PROVE  /\ MayMove(d, s, n) => memmove(mem, d, s, n) = Overwritten(d, Bytes(mem, s, n))
                    /\ MayCopy(d, s, n) => memcpy(mem, d, s, n) = Overwritten(d, Bytes(mem, s, n))
                    /\ MayCopyString(d, s, n) =>
                         strncpy(mem, d, s, n) = Overwritten(d, Padded(Limited(s, n), n))
                    /\ MayAppend(d, s, n) =>
                         strncat(mem, d, s, n) = Overwritten(d, StringAt(mem, d) \o Limited(s, n) \o <<0>>)
                    /\ IsString(s) /\ MayAppend(d, s, strlen(mem, s)) =>
                         strcat(mem, d, s) = Overwritten(d, StringAt(mem, d) \o StringAt(mem, s) \o <<0>>)
  BY DEF CopiesAgree
<1> QED
  BY CallsWrite DEF Writes

-----------------------------------------------------------------------------
(* Taking a string apart.                                                  *)

(* From <<b, y>> on, S is first met after k characters.                    *)
Hit(m, b, y, S, k) ==
  /\ y \in Nat /\ k \in Nat /\ m[b][y + k] \in S
  /\ \A i \in 0 .. k - 1 : m[b][y + i] \notin S

LEMMA HitExists ==
  ASSUME NEW m, NEW b, NEW y, NEW l, NEW S, Str(m, b, y, l), 0 \in S
  PROVE  \E k \in 0 .. l : Hit(m, b, y, S, k)
<1>1. y \in Nat /\ l \in Nat /\ m[b][y + l] = 0
  BY DEF Str
<1> DEFINE T == {i \in 0 .. l : m[b][y + i] \in S}
<1>2. T \subseteq Nat /\ l \in T
  BY <1>1
<1>3. PICK k \in T : \A i \in T : k <= i
  <2> HIDE DEF T
  <2> QED
    BY <1>2, LeastNumber
<1>4. k \in 0 .. l /\ m[b][y + k] \in S
  OBVIOUS
<1>5. \A i \in 0 .. k - 1 : m[b][y + i] \notin S
  <2> SUFFICES ASSUME NEW i \in 0 .. k - 1, m[b][y + i] \in S PROVE FALSE
    OBVIOUS
  <2>1. i \in 0 .. l
    BY <1>1, <1>4
  <2>2. i \in T
    BY <2>1
  <2>3. k <= i
    BY <1>3, <2>2
  <2> QED
    BY <1>1, <1>4, <2>3
<1> QED
  BY <1>1, <1>4, <1>5 DEF Hit

LEMMA HitIs ==
  ASSUME NEW m, NEW b, NEW y, NEW S, NEW k, Hit(m, b, y, S, k)
  PROVE  Distance(m, <<b, y>>, S) = k
<1>1. y \in Nat /\ k \in Nat /\ m[b][y + k] \in S /\ \A i \in 0 .. k - 1 : m[b][y + i] \notin S
  BY DEF Hit
<1> QED
  BY <1>1, DistanceIs

LEMMA StrSuffix ==
  ASSUME NEW m, NEW b, NEW y, NEW l, Str(m, b, y, l), NEW k \in 0 .. l
  PROVE  Str(m, b, y + k, l - k)
<1>1. /\ b \in DOMAIN m /\ y \in Nat /\ l \in Nat /\ y + l < Extent(m, b)
      /\ m[b][y + l] = 0 /\ \A i \in 0 .. l - 1 : m[b][y + i] # 0
  BY DEF Str
<1>2. y + k \in Nat /\ l - k \in Nat /\ (y + k) + (l - k) = y + l
  BY <1>1
<1>3. \A i \in 0 .. (l - k) - 1 : m[b][(y + k) + i] # 0
  <2> SUFFICES ASSUME NEW i \in 0 .. (l - k) - 1 PROVE m[b][(y + k) + i] # 0
    OBVIOUS
  <2>1. k + i \in 0 .. l - 1 /\ (y + k) + i = y + (k + i)
    BY <1>1
  <2> QED
    BY <1>1, <2>1
<1> QED
  BY <1>1, <1>2, <1>3 DEF Str

LEMMA StrSame ==
  ASSUME NEW m, NEW M, NEW b, NEW y, NEW l, Str(m, b, y, l), b \in DOMAIN M, Extent(M, b) = Extent(m, b),
         \A i \in 0 .. l : M[b][y + i] = m[b][y + i]
  PROVE  Str(M, b, y, l)
<1>1. /\ b \in DOMAIN m /\ y \in Nat /\ l \in Nat /\ y + l < Extent(m, b)
      /\ m[b][y + l] = 0 /\ \A i \in 0 .. l - 1 : m[b][y + i] # 0
  BY DEF Str
<1>2. l \in 0 .. l /\ \A i \in 0 .. l - 1 : i \in 0 .. l
  BY <1>1
<1> QED
  BY <1>1, <1>2 DEF Str

(* Where strspn and strcspn stop.                                          *)
Skips(m, D) == {0} \cup {x \in Chars : strchr(m, D, x) = Null}
Ends(m, D) == {0} \cup {x \in Chars : strchr(m, D, x) # Null}

(* The step of strtok_r from <<b, y>>: k characters are skipped, and the   *)
(* token has j.                                                            *)
NoToken(c) == lasts' = [lasts EXCEPT ![c] = EmptyString] /\ mem' = mem /\ taken' = taken
TakesToken(c, p, q) ==
  /\ mem' = CutOff(mem, <<c, q>>)
  /\ lasts' = [lasts EXCEPT ![c] = Past(<<c, q>>)]
  /\ taken' = [taken EXCEPT ![c] = Append(@, <<c, p>>)]
Parted(b, y, l, D, k, j) ==
  /\ Str(mem, b, y, l) /\ k \in 0 .. l /\ j \in 0 .. l - k
  /\ Hit(mem, b, y, Skips(mem, D), k) /\ Hit(mem, b, y + k, Ends(mem, D), j)
  /\ mem[b][y + k] # 0 => j > 0

LEMMA TokenStep ==
  ASSUME NEW c, NEW b, NEW y, NEW l, NEW D, Str(mem, b, y, l), b = c \/ mem[b][y] = 0,
         strtok_r(c, <<b, y>>, D)
  PROVE  \E k, j : /\ Parted(b, y, l, D, k, j)
                   /\ \/ mem[b][y + k] = 0 /\ NoToken(c)
                      \/ mem[b][y + k] # 0 /\ b = c /\ TakesToken(c, y + k, y + k + j)
<1>1. /\ b \in DOMAIN mem /\ y \in Nat /\ l \in Nat /\ mem[b][y + l] = 0
  BY DEF Str
<1>2. 0 \in Skips(mem, D) /\ 0 \in Ends(mem, D)
  BY DEF Skips, Ends
<1>3. PICK k \in 0 .. l : Hit(mem, b, y, Skips(mem, D), k)
  BY <1>2, HitExists
<1>4. Str(mem, b, y + k, l - k)
  BY StrSuffix
<1>5. PICK j \in 0 .. l - k : Hit(mem, b, y + k, Ends(mem, D), j)
  BY <1>2, <1>4, HitExists
<1>6. strspn(mem, <<b, y>>, D) = k
  BY <1>3, HitIs DEF strspn, Skips
<1>7. strcspn(mem, <<b, y + k>>, D) = j
  BY <1>5, HitIs DEF strcspn, Ends
<1>8. k \in Nat /\ j \in Nat
  BY <1>1
<1>9. mem[b][y + k] # 0 => j > 0
  <2> SUFFICES ASSUME mem[b][y + k] # 0, j = 0 PROVE FALSE
    BY <1>8
  <2>1. mem[b][y + k] \in Skips(mem, D)
    BY <1>3 DEF Hit
  <2>2. mem[b][(y + k) + j] \in Ends(mem, D) /\ (y + k) + j = y + k
    BY <1>1, <1>5, <1>8 DEF Hit
  <2> QED
    BY <2>1, <2>2 DEF Skips, Ends
<1>10. Parted(b, y, l, D, k, j)
  BY <1>3, <1>5, <1>9 DEF Parted
<1>11. mem[b][y + k] # 0 => b = c
  <2> SUFFICES ASSUME b # c, mem[b][y + k] # 0 PROVE FALSE
    OBVIOUS
  <2>1. mem[b][y + 0] = 0
    BY <1>1
  <2>2. 0 \notin 0 .. k - 1
    BY <1>2, <1>3, <2>1 DEF Hit
  <2>3. k = 0
    BY <1>8, <2>2
  <2> QED
    BY <2>1, <2>3
<1>12. Plus(<<b, y>>, k) = <<b, y + k>> /\ Plus(<<b, y + k>>, j) = <<b, y + k + j>> /\ At(mem, <<b, y + k>>) = mem[b][y + k]
  BY DEF Plus, At
<1>13. \/ mem[b][y + k] = 0 /\ NoToken(c)
       \/ mem[b][y + k] # 0 /\ TakesToken(b, y + k, y + k + j)
       \/ b # c /\ mem[b][y + k] # 0
  BY <1>6, <1>7, <1>12 DEF strtok_r, NoToken, TakesToken
<1> QED
  BY <1>10, <1>11, <1>13

(* m with a zero at <<c, q>>.                                              *)
Zeroed(m, M, c, q) ==
  /\ Memory(M) /\ DOMAIN M = DOMAIN m
  /\ \A b \in DOMAIN m : Extent(M, b) = Extent(m, b) /\ (b # c => M[b] = m[b])
  /\ \A i \in 0 .. Extent(m, c) - 1 : M[c][i] = IF i = q THEN 0 ELSE m[c][i]

LEMMA CutOffIs ==
  ASSUME NEW m, Memory(m), NEW c \in DOMAIN m, NEW q \in 0 .. Extent(m, c) - 1
  PROVE  Zeroed(m, CutOff(m, <<c, q>>), c, q)
<1>1. /\ m = [b \in DOMAIN m |-> m[b]]
      /\ \A b \in DOMAIN m : Extent(m, b) \in Nat /\ m[b] \in [0 .. Extent(m, b) - 1 -> Chars]
  BY DEF Memory
<1>2. CASE m[c][q] = 0
  <2>1. CutOff(m, <<c, q>>) = m
    BY <1>2 DEF CutOff, At
  <2> QED
    BY <1>2, <2>1 DEF Zeroed
<1>3. CASE m[c][q] # 0
  <2>1. PICK r, M : r = [m[c] EXCEPT ![q] = 0] /\ M = [m EXCEPT ![c] = r]
    OBVIOUS
  <2>2. CutOff(m, <<c, q>>) = M
    BY <1>3, <2>1 DEF CutOff, At, Put
  <2>3. r \in [0 .. Extent(m, c) - 1 -> Chars] /\ DOMAIN r = DOMAIN m[c]
    BY <1>1, <2>1, CharFacts
  <2>4. M[c] = r /\ DOMAIN M = DOMAIN m /\ M = [b \in DOMAIN M |-> M[b]] /\ \A b \in DOMAIN m : b # c => M[b] = m[b]
    BY <1>1, <2>1
  <2>5. \A b \in DOMAIN m : DOMAIN M[b] = DOMAIN m[b]
    BY <2>3, <2>4
  <2>6. \A b \in DOMAIN m : Extent(M, b) = Extent(m, b)
    BY <2>5 DEF Extent
  <2>7. \A b \in DOMAIN M : Extent(M, b) \in Nat /\ M[b] \in [0 .. Extent(M, b) - 1 -> Chars]
    <3> SUFFICES ASSUME NEW b \in DOMAIN m
                 PROVE  Extent(M, b) \in Nat /\ M[b] \in [0 .. Extent(M, b) - 1 -> Chars]
      BY <2>4
    <3>1. Extent(M, b) = Extent(m, b) /\ Extent(m, b) \in Nat
      BY <1>1, <2>6
    <3>2. CASE b = c
      BY <2>3, <2>4, <3>1, <3>2
    <3>3. CASE b # c
      BY <1>1, <2>4, <3>1, <3>3
    <3> QED
      BY <3>2, <3>3
  <2>8. \A i \in 0 .. Extent(m, c) - 1 : M[c][i] = IF i = q THEN 0 ELSE m[c][i]
    BY <1>1, <2>1, <2>4
  <2>9. Memory(M)
    BY <2>4, <2>7 DEF Memory
  <2> QED
    BY <2>2, <2>4, <2>6, <2>8, <2>9 DEF Zeroed
<1> QED
  BY <1>2, <1>3

-----------------------------------------------------------------------------
(* The invariant: what is left of a client's string is a string in its own *)
(* buffer, and the tokens it has end before it.                            *)
RestOK(m, la, c) == la = EmptyString \/ \E q, l : la = <<c, q>> /\ Str(m, c, q, l)
TokensOK(m, la, tk, c) ==
  /\ tk \in Seq({c} \X Nat)
  /\ \A i \in DOMAIN tk : \E o, l :
       tk[i] = <<c, o>> /\ Str(m, c, o, l) /\ \A q : la = <<c, q>> => o + l <= q

StringInv ==
  /\ MemInv
  /\ busy \subseteq Clients
  /\ lasts = [c \in Clients |-> lasts[c]] /\ taken = [c \in Clients |-> taken[c]]
  /\ \A c \in Clients \ busy : taken[c] = <<>>
  /\ \A c \in busy : RestOK(mem, lasts[c], c) /\ TokensOK(mem, lasts[c], taken[c], c)

LEMMA ClientOK ==
  ASSUME NEW m, NEW M, NEW la, NEW tk, NEW c, c \in DOMAIN M, Extent(M, c) = Extent(m, c), M[c] = m[c],
         RestOK(m, la, c), TokensOK(m, la, tk, c)
  PROVE  RestOK(M, la, c) /\ TokensOK(M, la, tk, c)
<1>1. ASSUME NEW o, NEW l, Str(m, c, o, l) PROVE Str(M, c, o, l)
  BY <1>1, StrSame
<1>2. RestOK(M, la, c)
  BY <1>1 DEF RestOK
<1>3. TokensOK(M, la, tk, c)
  BY <1>1 DEF TokensOK
<1> QED
  BY <1>2, <1>3

LEMMA BlankIs == ASSUME NEW n \in Nat
                 PROVE  Blank(n) \in [0 .. n - 1 -> Chars] /\ Cardinality(DOMAIN Blank(n)) = n
<1>1. Blank(n) \in [0 .. n - 1 -> Chars] /\ DOMAIN Blank(n) = 0 .. n - 1
  BY CharFacts DEF Blank
<1>2. Cardinality(0 .. n - 1) = n
  BY FS_Interval
<1> QED
  BY <1>1, <1>2

LEMMA StringInit == Init => StringInv
<1> SUFFICES ASSUME Init PROVE StringInv
  OBVIOUS
<1>1. mem = [b \in Buffers \cup {"literal", "empty"} |->
               IF b = "literal" THEN Literal ELSE Blank(IF b = "empty" THEN 1 ELSE Size[b])]
  BY DEF Init
<1>2. /\ DOMAIN mem = Buffers \cup {"literal", "empty"} /\ mem = [b \in DOMAIN mem |-> mem[b]]
      /\ mem["literal"] = Literal /\ mem["empty"] = Blank(1)
      /\ \A b \in Buffers : mem[b] = Blank(Size[b])
  BY <1>1, BufferAssumption
<1>3. Extent(mem, "literal") \in Nat /\ mem["literal"] \in [0 .. Extent(mem, "literal") - 1 -> Chars]
  <2>1. PICK n : n = Cardinality(DOMAIN Literal) - 1
    OBVIOUS
  <2>2. n \in Nat /\ Literal \in [0 .. n -> Chars]
    BY <2>1, LiteralAssumption
  <2>3. DOMAIN Literal = 0 .. n
    BY <2>2
  <2>4. Cardinality(0 .. n) = n + 1
    BY <2>2, FS_Interval
  <2>5. Extent(mem, "literal") = n + 1
    BY <1>2, <2>3, <2>4 DEF Extent
  <2>6. (n + 1) - 1 = n /\ n + 1 \in Nat
    BY <2>2
  <2> QED
    BY <1>2, <2>2, <2>5, <2>6
<1>4. ASSUME NEW b \in Buffers
      PROVE  Extent(mem, b) = Size[b] /\ Size[b] \in Nat /\ mem[b] \in [0 .. Size[b] - 1 -> Chars]
  BY <1>2, BlankIs, BufferAssumption DEF Extent
<1>5. Extent(mem, "empty") \in Nat /\ mem["empty"] \in [0 .. Extent(mem, "empty") - 1 -> Chars]
  <2>1. PICK one \in Nat : one = 1
    OBVIOUS
  <2>2. Blank(one) \in [0 .. one - 1 -> Chars] /\ Cardinality(DOMAIN Blank(one)) = one
    BY BlankIs
  <2>3. mem["empty"] = Blank(one)
    BY <1>2, <2>1
  <2>4. Extent(mem, "empty") = one
    BY <2>2, <2>3 DEF Extent
  <2> QED
    BY <2>2, <2>3, <2>4
<1>6. \A b \in DOMAIN mem : Extent(mem, b) \in Nat /\ mem[b] \in [0 .. Extent(mem, b) - 1 -> Chars]
  <2> SUFFICES ASSUME NEW b \in DOMAIN mem
               PROVE  Extent(mem, b) \in Nat /\ mem[b] \in [0 .. Extent(mem, b) - 1 -> Chars]
    OBVIOUS
  <2>1. CASE b \in Buffers
    BY <1>4, <2>1
  <2>2. CASE b = "literal"
    BY <1>3, <2>2
  <2>3. CASE b = "empty"
    BY <1>5, <2>3
  <2> QED
    BY <1>2, <2>1, <2>2, <2>3
<1>7. MemInv
  BY <1>2, <1>4, <1>6 DEF MemInv, Memory
<1>8. /\ busy = {} /\ lasts = [c \in Clients |-> EmptyString] /\ taken = [c \in Clients |-> <<>>]
  BY DEF Init
<1> QED
  BY <1>7, <1>8 DEF StringInv

(* Calls that write leave the buffers alone that are being taken apart.    *)
LEMMA WritePreserves ==
  ASSUME StringInv, NEW d \in Writable, NEW f, Writes(mem', d, f), UNCHANGED <<lasts, taken, busy>>
  PROVE  StringInv'
<1>1. Memory(mem) /\ DOMAIN mem = Buffers \cup {"literal", "empty"}
  BY DEF StringInv, MemInv
<1>2. PICK a \in Buffers \ busy, x \in Nat : Place(d, a, x)
  <2>1. Buffers \ busy \subseteq DOMAIN mem
    BY <1>1
  <2> QED
    BY <1>1, <2>1, PlaceIs DEF Writable
<1>3. PICK k : List(f, k)
  BY DEF Writes
<1>4. d = <<a, x>> /\ a \in DOMAIN mem
  BY <1>2 DEF Place
<1>5. mem' = Over(mem, <<a, x>>, f)
  BY <1>4 DEF Writes, Over, Overwritten
<1>6. Changed(mem, mem', a, x, k, f)
  BY <1>1, <1>3, <1>4, <1>5, OverFacts
<1>7. /\ Memory(mem') /\ DOMAIN mem' = DOMAIN mem
      /\ \A c \in DOMAIN mem : Extent(mem', c) = Extent(mem, c) /\ (c # a => mem'[c] = mem[c])
  BY <1>6 DEF Changed
<1>8. a # "literal" /\ a # "empty"
  BY BufferAssumption
<1>9. MemInv'
  BY <1>1, <1>7, <1>8 DEF StringInv, MemInv
<1>10. \A c \in busy : RestOK(mem', lasts[c], c) /\ TokensOK(mem', lasts[c], taken[c], c)
  <2> SUFFICES ASSUME NEW c \in busy
               PROVE  RestOK(mem', lasts[c], c) /\ TokensOK(mem', lasts[c], taken[c], c)
    OBVIOUS
  <2>1. c \in DOMAIN mem' /\ Extent(mem', c) = Extent(mem, c) /\ mem'[c] = mem[c]
    BY <1>1, <1>7 DEF StringInv, Clients
  <2>2. RestOK(mem, lasts[c], c) /\ TokensOK(mem, lasts[c], taken[c], c)
    BY DEF StringInv
  <2> QED
    BY <2>1, <2>2, ClientOK
<1> QED
  BY <1>9, <1>10 DEF StringInv

(* A token that is cut off leaves those before it alone.                   *)
LEMMA GapIs == ASSUME NEW p \in Nat, NEW q \in Nat, p < q
               PROVE  p + (q - p) = q /\ q - p \in Nat
OBVIOUS

LEMMA CutTokens ==
  ASSUME NEW m, NEW M, NEW la, NEW tk, NEW c, NEW y, NEW l, NEW p, NEW q, NEW r,
         Str(m, c, y, l), p \in Nat, q \in Nat, r \in Nat, y <= p, p < q, q <= y + l,
         \A i \in p .. q - 1 : m[c][i] # 0,
         Memory(m), Zeroed(m, M, c, q), r = IF m[c][q] # 0 THEN q + 1 ELSE q,
         tk \in Seq({c} \X Nat),
         \A i \in DOMAIN tk : \E o, k : tk[i] = <<c, o>> /\ Str(m, c, o, k) /\ o + k <= y
  PROVE  /\ Str(M, c, r, (y + l) - r) /\ Str(M, c, p, q - p)
         /\ RestOK(M, <<c, r>>, c) /\ TokensOK(M, <<c, r>>, Append(tk, <<c, p>>), c)
<1>1. /\ c \in DOMAIN m /\ y \in Nat /\ l \in Nat /\ y + l < Extent(m, c)
      /\ m[c][y + l] = 0 /\ \A i \in 0 .. l - 1 : m[c][y + i] # 0
  BY DEF Str
<1>2. /\ DOMAIN M = DOMAIN m /\ Extent(M, c) = Extent(m, c) /\ Extent(m, c) \in Nat
      /\ \A i \in 0 .. Extent(m, c) - 1 : M[c][i] = IF i = q THEN 0 ELSE m[c][i]
  BY <1>1 DEF Zeroed, Memory
<1>a. p \in Nat /\ q \in Nat /\ r \in Nat /\ y <= p /\ p < q /\ q <= y + l
  OBVIOUS
<1>3. r <= y + l
  <2>1. CASE m[c][q] # 0
    <3>1. q # y + l
      BY <1>1, <2>1
    <3>2. r = q + 1
      BY <2>1
    <3> QED
      BY <1>1, <1>a, <3>1, <3>2
  <2>2. CASE m[c][q] = 0
    BY <1>a, <2>2
  <2> QED
    BY <2>1, <2>2
<1>4. Str(M, c, r, (y + l) - r)
  <2>1. r + ((y + l) - r) = y + l /\ (y + l) - r \in Nat
    BY <1>1, <1>3
  <2>2. M[c][y + l] = 0
    BY <1>1, <1>2
  <2>3. \A i \in 0 .. ((y + l) - r) - 1 : M[c][r + i] # 0
    <3> SUFFICES ASSUME NEW i \in 0 .. ((y + l) - r) - 1 PROVE M[c][r + i] # 0
      OBVIOUS
    <3>1. PICK n : n = (r + i) - y
      OBVIOUS
    <3>2. n \in 0 .. l - 1 /\ y + n = r + i /\ r + i \in 0 .. Extent(m, c) - 1
      BY <1>1, <1>2, <1>3, <3>1
    <3>3. m[c][r + i] # 0
      BY <1>1, <3>2
    <3>4. r + i # q
      <4>1. CASE m[c][q] # 0
        BY <1>1, <4>1
      <4>2. CASE m[c][q] = 0
        <5>1. q = y + l
          <6> SUFFICES ASSUME q # y + l PROVE FALSE
            OBVIOUS
          <6>1. q - y \in 0 .. l - 1 /\ y + (q - y) = q
            BY <1>1
          <6> QED
            BY <1>1, <4>2, <6>1
        <5> QED
          BY <1>1, <4>2, <5>1
      <4> QED
        BY <4>1, <4>2
    <3> QED
      BY <1>2, <3>2, <3>3, <3>4
  <2> QED
    BY <1>1, <1>2, <2>1, <2>2, <2>3 DEF Str
<1>5. Str(M, c, p, q - p)
  <2>1. p + (q - p) = q /\ q - p \in Nat /\ q < Extent(m, c) /\ q \in 0 .. Extent(m, c) - 1
    <3>1. PICK e : e = Extent(m, c)
      OBVIOUS
    <3>2. e \in Nat /\ y \in Nat /\ l \in Nat /\ y + l < e
      BY <1>1, <1>2, <3>1
    <3>3. p + (q - p) = q /\ q - p \in Nat
      BY <1>a, GapIs
    <3>4. q < e /\ q \in 0 .. e - 1
      BY <1>a, <3>2
    <3> QED
      BY <3>1, <3>3, <3>4
  <2>2. M[c][q] = 0
    BY <1>2, <2>1
  <2>3. \A i \in 0 .. (q - p) - 1 : M[c][p + i] # 0
    <3> SUFFICES ASSUME NEW i \in 0 .. (q - p) - 1 PROVE M[c][p + i] # 0
      OBVIOUS
    <3>0. i \in Nat /\ i <= (q - p) - 1
      BY <1>a
    <3>a. p + i \in p .. q - 1 /\ p + i # q /\ p + i \in 0 .. q
      BY <1>a, <3>0
    <3>b. Extent(m, c) \in Nat /\ q <= Extent(m, c) - 1
      BY <1>2, <2>1
    <3>1. p + i \in p .. q - 1 /\ p + i # q /\ p + i \in 0 .. Extent(m, c) - 1
      BY <1>a, <3>a, <3>b
    <3> QED
      BY <1>2, <3>1
  <2> QED
    BY <1>1, <1>2, <2>1, <2>2, <2>3 DEF Str
<1>6. RestOK(M, <<c, r>>, c)
  BY <1>4 DEF RestOK
<1>7. ASSUME NEW o, NEW k, Str(m, c, o, k), o + k <= y
      PROVE  Str(M, c, o, k) /\ o + k <= r
  <2>1. o \in Nat /\ k \in Nat
    BY <1>7 DEF Str
  <2>2. \A i \in 0 .. k : M[c][o + i] = m[c][o + i]
    <3> SUFFICES ASSUME NEW i \in 0 .. k PROVE M[c][o + i] = m[c][o + i]
      OBVIOUS
    <3>1. o + i # q /\ o + i \in 0 .. Extent(m, c) - 1
      <4>1. PICK e : e = Extent(m, c)
        OBVIOUS
      <4>2. e \in Nat /\ y + l < e /\ y \in Nat /\ l \in Nat /\ y < q /\ q \in Nat
        BY <1>1, <1>2, <1>a, <4>1
      <4>3. o + i \in Nat /\ o + i <= y
        BY <1>7, <2>1, <4>2
      <4>4. o + i # q /\ o + i \in 0 .. e - 1
        BY <4>2, <4>3
      <4> QED
        BY <4>1, <4>4
    <3> QED
      BY <1>2, <3>1
  <2>3. Str(M, c, o, k)
    BY <1>1, <1>2, <1>7, <2>2, StrSame
  <2>4. o + k <= r
    BY <1>1, <1>7, <2>1
  <2> QED
    BY <2>3, <2>4
<1>8. PICK tl : tl = Append(tk, <<c, p>>)
  OBVIOUS
<1>9. <<c, p>> \in {c} \X Nat
  OBVIOUS
<1>10. /\ tl \in Seq({c} \X Nat) /\ DOMAIN tl = 1 .. Len(tk) + 1 /\ Len(tk) \in Nat /\ DOMAIN tk = 1 .. Len(tk)
       /\ tl[Len(tk) + 1] = <<c, p>> /\ \A i \in 1 .. Len(tk) : tl[i] = tk[i]
  BY <1>8, <1>9
<1>11. ASSUME NEW i \in DOMAIN tl
       PROVE  \E o, k : tl[i] = <<c, o>> /\ Str(M, c, o, k) /\ o + k <= r
  <2>1. CASE i = Len(tk) + 1
    <3>1. p + (q - p) <= r
      BY <1>1
    <3> QED
      BY <1>5, <1>10, <2>1, <3>1
  <2>2. CASE i \in DOMAIN tk
    <3>1. PICK o, k : tk[i] = <<c, o>> /\ Str(m, c, o, k) /\ o + k <= y
      BY <2>2
    <3>2. tl[i] = tk[i]
      BY <1>10, <2>2
    <3> QED
      BY <1>7, <3>1, <3>2
  <2> QED
    BY <1>10, <2>1, <2>2
<1>12. TokensOK(M, <<c, r>>, tl, c)
  <2>1. \A s : <<c, r>> = <<c, s>> => s = r
    OBVIOUS
  <2> QED
    BY <1>10, <1>11, <2>1 DEF TokensOK
<1> QED
  BY <1>4, <1>5, <1>6, <1>8, <1>12

(* Tokens that end at y or before.                                         *)
Earlier(tk, m, c, y) ==
  /\ tk \in Seq({c} \X Nat)
  /\ \A i \in DOMAIN tk : \E o, k : tk[i] = <<c, o>> /\ Str(m, c, o, k) /\ o + k <= y

LEMMA PartedFacts ==
  ASSUME Memory(mem), NEW b, NEW y, NEW l, NEW D, NEW k, NEW j, Parted(b, y, l, D, k, j), mem[b][y + k] # 0
  PROVE  /\ y \in Nat /\ y + k \in Nat /\ y + k + j \in Nat /\ y <= y + k /\ y + k < y + k + j
         /\ y + k + j <= y + l /\ y + k + j \in 0 .. Extent(mem, b) - 1
         /\ \A i \in y + k .. (y + k + j) - 1 : mem[b][i] # 0
<1>1. /\ y \in Nat /\ l \in Nat /\ y + l < Extent(mem, b) /\ k \in 0 .. l /\ j \in 0 .. l - k /\ j > 0
  BY DEF Parted, Str
<1>2. Hit(mem, b, y + k, Ends(mem, D), j)
  BY DEF Parted
<1>3. 0 \in Ends(mem, D)
  BY DEF Ends
<1>4. \A i \in y + k .. (y + k + j) - 1 : mem[b][i] # 0
  <2> SUFFICES ASSUME NEW i \in y + k .. (y + k + j) - 1 PROVE mem[b][i] # 0
    OBVIOUS
  <2>1. i - (y + k) \in 0 .. j - 1 /\ (y + k) + (i - (y + k)) = i
    BY <1>1
  <2> QED
    BY <1>2, <1>3, <2>1 DEF Hit
<1>5. b \in DOMAIN mem
  BY DEF Parted, Str
<1>6. Extent(mem, b) \in Nat
  BY <1>5 DEF Memory
<1> QED
  BY <1>1, <1>4, <1>6

(* A call of strtok_r that is given <<b, y>>, in the client's buffer or at *)
(* the end of a string.                                                    *)
LEMMA TokenPreserves ==
  ASSUME StringInv, NEW c \in Clients, NEW b, NEW y, NEW l, NEW D, Str(mem, b, y, l), b = c \/ mem[b][y] = 0,
         strtok_r(c, <<b, y>>, D), TokensOK(mem, EmptyString, taken[c], c), b = c => Earlier(taken[c], mem, c, y),
         busy' = busy \cup {c}
  PROVE  StringInv'
<1>1. /\ Memory(mem) /\ DOMAIN mem = Buffers \cup {"literal", "empty"} /\ MemInv
      /\ busy \subseteq Clients
      /\ lasts = [d \in Clients |-> lasts[d]] /\ taken = [d \in Clients |-> taken[d]]
      /\ \A d \in Clients \ busy : taken[d] = <<>>
      /\ \A d \in busy : RestOK(mem, lasts[d], d) /\ TokensOK(mem, lasts[d], taken[d], d)
  BY DEF StringInv, MemInv
<1>2. PICK k, j : /\ Parted(b, y, l, D, k, j)
                  /\ \/ mem[b][y + k] = 0 /\ NoToken(c)
                     \/ mem[b][y + k] # 0 /\ b = c /\ TakesToken(c, y + k, y + k + j)
  BY TokenStep
<1>3. c \in Buffers /\ c \in DOMAIN mem /\ c # "literal" /\ c # "empty"
  BY <1>1, BufferAssumption DEF Clients
<1>4. CASE NoToken(c)
  <2>1. lasts' = [lasts EXCEPT ![c] = EmptyString] /\ mem' = mem /\ taken' = taken
    BY <1>4 DEF NoToken
  <2>2. lasts'[c] = EmptyString /\ \A d \in Clients \ {c} : lasts'[d] = lasts[d]
    BY <1>1, <2>1
  <2>3. \A d \in busy' : RestOK(mem', lasts'[d], d) /\ TokensOK(mem', lasts'[d], taken'[d], d)
    <3> SUFFICES ASSUME NEW d \in busy'
                 PROVE  RestOK(mem', lasts'[d], d) /\ TokensOK(mem', lasts'[d], taken'[d], d)
      OBVIOUS
    <3>1. CASE d = c
      BY <2>1, <2>2, <3>1 DEF RestOK
    <3>2. CASE d # c
      BY <1>1, <2>1, <2>2, <3>2
    <3> QED
      BY <3>1, <3>2
  <2>4. MemInv' /\ busy' \subseteq Clients /\ \A d \in Clients \ busy' : taken'[d] = <<>>
    BY <1>1, <2>1 DEF MemInv
  <2>5. lasts' = [d \in Clients |-> lasts'[d]] /\ taken' = [d \in Clients |-> taken'[d]]
    BY <1>1, <2>1
  <2> QED
    BY <2>3, <2>4, <2>5 DEF StringInv
<1>5. CASE mem[b][y + k] # 0 /\ b = c /\ TakesToken(c, y + k, y + k + j)
  <2>1. PICK p, q : p = y + k /\ q = y + k + j
    OBVIOUS
  <2>2. PICK M : M = CutOff(mem, <<c, q>>)
    OBVIOUS
  <2>3. PICK r : r = IF mem[c][q] # 0 THEN q + 1 ELSE q
    OBVIOUS
  <2>4. /\ y \in Nat /\ p \in Nat /\ q \in Nat /\ y <= p /\ p < q /\ q <= y + l
        /\ q \in 0 .. Extent(mem, c) - 1 /\ \A i \in p .. q - 1 : mem[c][i] # 0
    BY <1>1, <1>2, <1>5, <2>1, PartedFacts
  <2>5. /\ mem' = M /\ lasts' = [lasts EXCEPT ![c] = <<c, r>>]
        /\ taken' = [taken EXCEPT ![c] = Append(@, <<c, p>>)]
    BY <1>5, <2>1, <2>2, <2>3 DEF TakesToken, Past, At, Plus
  <2>6. Zeroed(mem, M, c, q)
    BY <1>1, <1>3, <2>2, <2>4, CutOffIs
  <2>7. r \in Nat
    BY <2>3, <2>4
  <2>8. PICK tk : tk = taken[c] /\ Earlier(tk, mem, c, y)
    BY <1>5
  <2>9. /\ tk \in Seq({c} \X Nat)
        /\ \A i \in DOMAIN tk : \E o, n : tk[i] = <<c, o>> /\ Str(mem, c, o, n) /\ o + n <= y
    BY <2>8 DEF Earlier
  <2>10. Str(mem, c, y, l)
    BY <1>5
  <2>11. RestOK(M, <<c, r>>, c) /\ TokensOK(M, <<c, r>>, Append(tk, <<c, p>>), c)
    <3>1. Memory(mem)
      BY <1>1
    <3> QED
      BY <2>3, <2>4, <2>6, <2>7, <2>9, <2>10, <3>1, CutTokens
  <2>12. /\ lasts'[c] = <<c, r>> /\ taken'[c] = Append(tk, <<c, p>>)
         /\ \A d \in Clients \ {c} : lasts'[d] = lasts[d] /\ taken'[d] = taken[d]
         /\ lasts' = [d \in Clients |-> lasts'[d]] /\ taken' = [d \in Clients |-> taken'[d]]
    BY <1>1, <2>5, <2>8
  <2>13. /\ Memory(mem') /\ DOMAIN mem' = DOMAIN mem
         /\ \A d \in DOMAIN mem : Extent(mem', d) = Extent(mem, d) /\ (d # c => mem'[d] = mem[d])
    BY <2>5, <2>6 DEF Zeroed
  <2>14. \A d \in busy' : RestOK(mem', lasts'[d], d) /\ TokensOK(mem', lasts'[d], taken'[d], d)
    <3> SUFFICES ASSUME NEW d \in busy'
                 PROVE  RestOK(mem', lasts'[d], d) /\ TokensOK(mem', lasts'[d], taken'[d], d)
      OBVIOUS
    <3>1. CASE d = c
      BY <2>5, <2>11, <2>12, <3>1
    <3>2. CASE d # c
      <4>1. d \in busy /\ d \in Clients /\ lasts'[d] = lasts[d] /\ taken'[d] = taken[d]
        BY <1>1, <2>12, <3>2
      <4>2. d \in DOMAIN mem' /\ Extent(mem', d) = Extent(mem, d) /\ mem'[d] = mem[d]
        BY <1>1, <2>13, <3>2, <4>1 DEF Clients
      <4>3. RestOK(mem, lasts[d], d) /\ TokensOK(mem, lasts[d], taken[d], d)
        BY <1>1, <4>1
      <4> QED
        BY <4>1, <4>2, <4>3, ClientOK
    <3> QED
      BY <3>1, <3>2
  <2>15. MemInv'
    BY <1>1, <1>3, <2>13 DEF MemInv
  <2>16. busy' \subseteq Clients /\ \A d \in Clients \ busy' : taken'[d] = <<>>
    BY <1>1, <2>12
  <2> QED
    BY <2>12, <2>14, <2>15, <2>16 DEF StringInv
<1> QED
  BY <1>2, <1>4, <1>5

LEMMA EmptyIs == ASSUME MemInv PROVE Str(mem, "empty", 0, 0) /\ mem["empty"][0] = 0
<1>1. "empty" \in DOMAIN mem /\ mem["empty"] = Blank(1)
  BY DEF MemInv
<1>2. PICK one \in Nat : one = 1
  OBVIOUS
<1>3. Extent(mem, "empty") = one
  BY <1>1, <1>2, BlankIs DEF Extent
<1>4. mem["empty"][0] = 0
  BY <1>1 DEF Blank
<1> QED
  BY <1>1, <1>2, <1>3, <1>4 DEF Str

LEMMA FirstPreserves == ASSUME StringInv, NEW c \in Clients, FirstToken(c) PROVE StringInv'
<1>1. /\ Memory(mem) /\ DOMAIN mem = Buffers \cup {"literal", "empty"} /\ MemInv
      /\ \A b \in Buffers : Extent(mem, b) = Size[b] /\ Extent(mem, b) \in Nat
  BY DEF StringInv, MemInv, Memory
<1>2. c \in Buffers /\ c \in DOMAIN mem /\ c \notin busy
  BY <1>1 DEF Clients, FirstToken
<1>3. PICK l : Str(mem, c, 0, l)
  <2>1. PICK i \in 0 .. Room(<<c, 0>>) - 1 : At(mem, Plus(<<c, 0>>, i)) = 0
    BY DEF FirstToken, IsString
  <2>2. PICK e \in Nat : e = Extent(mem, c)
    BY <1>1, <1>2
  <2>3. Room(<<c, 0>>) = e
    BY <2>2 DEF Room, Extent
  <2>4. i \in 0 .. e - 1
    BY <2>1, <2>3
  <2>5. 0 < Extent(mem, c)
    BY <2>2, <2>4
  <2>6. Place(<<c, 0>>, c, 0)
    BY <1>2, <2>2, <2>5 DEF Place
  <2>7. IsString(<<c, 0>>)
    BY DEF FirstToken
  <2> QED
    BY <2>6, <2>7, PlaceFacts
<1>4. PICK D : strtok_r(c, <<c, 0>>, D)
  BY DEF FirstToken
<1>5. taken[c] = <<>>
  BY <1>2 DEF StringInv
<1>6. TokensOK(mem, EmptyString, taken[c], c) /\ Earlier(taken[c], mem, c, 0)
  BY <1>5 DEF TokensOK, Earlier
<1>7. busy' = busy \cup {c}
  BY DEF FirstToken
<1> QED
  BY <1>3, <1>4, <1>6, <1>7, TokenPreserves

LEMMA MorePreserves == ASSUME StringInv, NEW c \in Clients, MoreTokens(c) PROVE StringInv'
<1>1. MemInv /\ c \in busy /\ busy' = busy \cup {c}
  BY DEF StringInv, MoreTokens
<1>2. RestOK(mem, lasts[c], c) /\ TokensOK(mem, lasts[c], taken[c], c)
  BY <1>1 DEF StringInv
<1>3. PICK D : strtok_r(c, lasts[c], D)
  BY DEF MoreTokens
<1>4. c # "empty"
  BY BufferAssumption DEF Clients
<1>5. TokensOK(mem, EmptyString, taken[c], c)
  BY <1>2, <1>4 DEF TokensOK, EmptyString
<1>6. CASE lasts[c] = EmptyString
  <2>1. strtok_r(c, <<"empty", 0>>, D)
    BY <1>3, <1>6 DEF EmptyString
  <2> QED
    BY <1>1, <1>4, <1>5, <2>1, EmptyIs, TokenPreserves
<1>7. CASE lasts[c] # EmptyString
  <2>1. PICK y, l : lasts[c] = <<c, y>> /\ Str(mem, c, y, l)
    BY <1>2, <1>7 DEF RestOK
  <2>2. Earlier(taken[c], mem, c, y)
    BY <1>2, <2>1 DEF TokensOK, Earlier
  <2>3. strtok_r(c, <<c, y>>, D)
    BY <1>3, <2>1
  <2> QED
    BY <1>1, <1>5, <2>1, <2>2, <2>3, TokenPreserves
<1> QED
  BY <1>6, <1>7

LEMMA StringNext == StringInv /\ [Next]_libVars => StringInv'
<1> SUFFICES ASSUME StringInv, [Next]_libVars PROVE StringInv'
  OBVIOUS
<1>0. MemInv
  BY DEF StringInv
<1>1. CASE MemCpy
  <2>1. PICK d \in Writable, s \in Readable, n \in 0 .. MaxCount : MayCopy(d, s, n) /\ mem' = memcpy(mem, d, s, n)
    BY <1>1 DEF MemCpy, Call
  <2>2. Writes(mem', d, Bytes(mem, s, n))
    BY <1>0, <2>1, CallsWrite
  <2> QED
    BY <1>1, <2>2, WritePreserves DEF MemCpy, Call
<1>2. CASE MemMove
  <2>1. PICK d \in Writable, s \in Readable, n \in 0 .. MaxCount : MayMove(d, s, n) /\ mem' = memmove(mem, d, s, n)
    BY <1>2 DEF MemMove, Call
  <2>2. Writes(mem', d, Bytes(mem, s, n))
    BY <1>0, <2>1, CallsWrite
  <2> QED
    BY <1>2, <2>2, WritePreserves DEF MemMove, Call
<1>3. CASE StrNCpy
  <2>1. PICK d \in Writable, s \in Readable, n \in 0 .. MaxCount :
          MayCopyString(d, s, n) /\ mem' = strncpy(mem, d, s, n)
    BY <1>3 DEF StrNCpy, Call
  <2>2. Writes(mem', d, Padded(Limited(s, n), n))
    BY <1>0, <2>1, CallsWrite
  <2> QED
    BY <1>3, <2>2, WritePreserves DEF StrNCpy, Call
<1>4. CASE StrNCat
  <2>1. PICK d \in Writable, s \in Readable, n \in 0 .. MaxCount :
          MayAppend(d, s, n) /\ mem' = strncat(mem, d, s, n)
    BY <1>4 DEF StrNCat, Call
  <2>2. Writes(mem', d, StringAt(mem, d) \o Limited(s, n) \o <<0>>)
    BY <1>0, <2>1, CallsWrite
  <2> QED
    BY <1>4, <2>2, WritePreserves DEF StrNCat, Call
<1>5. CASE StrCat
  <2>1. PICK d \in Writable, s \in Readable :
          IsString(s) /\ MayAppend(d, s, strlen(mem, s)) /\ mem' = strcat(mem, d, s)
    BY <1>5 DEF StrCat
  <2>2. 0 \in 0 .. MaxCount
    BY BoundAssumption
  <2>3. Writes(mem', d, StringAt(mem, d) \o StringAt(mem, s) \o <<0>>)
    BY <1>0, <2>1, <2>2, CallsWrite
  <2> QED
    BY <1>5, <2>3, WritePreserves DEF StrCat
<1>6. ASSUME NEW c \in Clients, Done(c) PROVE StringInv'
  <2>1. /\ c \in busy /\ busy' = busy \ {c} /\ taken' = [taken EXCEPT ![c] = <<>>]
        /\ mem' = mem /\ lasts' = lasts
    BY <1>6 DEF Done
  <2>2. taken = [d \in Clients |-> taken[d]] /\ lasts = [d \in Clients |-> lasts[d]]
    BY DEF StringInv
  <2>3. taken'[c] = <<>> /\ taken' = [d \in Clients |-> taken'[d]] /\ \A d \in Clients \ {c} : taken'[d] = taken[d]
    BY <2>1, <2>2
  <2>4. MemInv'
    BY <1>0, <2>1 DEF MemInv
  <2>5. busy' \subseteq Clients /\ \A d \in Clients \ busy' : taken'[d] = <<>>
    BY <2>1, <2>3 DEF StringInv
  <2>6. \A d \in busy' : RestOK(mem', lasts'[d], d) /\ TokensOK(mem', lasts'[d], taken'[d], d)
    BY <2>1, <2>3 DEF StringInv
  <2> QED
    BY <2>1, <2>2, <2>3, <2>4, <2>5, <2>6 DEF StringInv
<1>7. CASE UNCHANGED <<mem, lasts, taken, busy>>
  BY <1>7 DEF StringInv, MemInv
<1>8. CASE Compute
  BY <1>7, <1>8 DEF Compute
<1>9. CASE UNCHANGED libVars
  BY <1>7, <1>9 DEF libVars
<1> QED
  BY <1>1, <1>2, <1>3, <1>4, <1>5, <1>6, <1>8, <1>9, FirstPreserves, MorePreserves DEF Next

LEMMA StringTypeOK == StringInv => TypeOK
<1> SUFFICES ASSUME StringInv PROVE TypeOK
  OBVIOUS
<1>1. MemInv /\ Memory(mem) /\ DOMAIN mem = Buffers \cup {"literal", "empty"} /\ busy \subseteq Clients
  BY DEF StringInv, MemInv
<1>2. \A b \in Buffers : mem[b] \in [0 .. Size[b] - 1 -> Chars]
  BY <1>1 DEF MemInv, Memory
<1>3. ASSUME NEW c \in busy
      PROVE  lasts[c] = EmptyString \/ (lasts[c][1] = c /\ IsString(lasts[c]))
  <2>1. RestOK(mem, lasts[c], c)
    BY DEF StringInv
  <2>2. ASSUME NEW q, NEW l, lasts[c] = <<c, q>>, Str(mem, c, q, l)
        PROVE  lasts[c][1] = c /\ IsString(lasts[c])
    <3>1. c \in DOMAIN mem /\ q \in Nat /\ l \in Nat /\ q + l < Extent(mem, c) /\ Extent(mem, c) \in Nat
      BY <1>1, <2>2 DEF Str, Memory
    <3>2. Place(<<c, q>>, c, q)
      BY <3>1 DEF Place
    <3>3. IsString(<<c, q>>)
      BY <2>2, <3>2, PlaceFacts
    <3> QED
      BY <2>2, <3>3
  <2> QED
    BY <2>1, <2>2 DEF RestOK
<1> QED
  BY <1>1, <1>2, <1>3 DEF TypeOK

-----------------------------------------------------------------------------
(* Comparisons.                                                            *)

LEMMA OrderFacts ==
  /\ \A c \in Chars : uchar(c) \in Int /\ Order(c, c) = 0
  /\ \A c \in Chars : c # 0 => Order(0, c) = -1 /\ Order(c, 0) = 1
  /\ \A c, d \in Chars : c # d => uchar(c) # uchar(d)
<1>1. \A c \in Chars : c \in Int /\ uchar(c) \in Int
  BY CharFacts
<1>2. \A c, d \in Chars : c # d => uchar(c) # uchar(d)
  BY CharFacts
<1>3. uchar(0) = 0 /\ \A c \in Chars : uchar(c) >= 0
  <2>1. CharValues \in Nat /\ CharValues > 0
    BY CharAssumption
  <2>2. \A c \in Int : c % CharValues \in 0 .. CharValues - 1
    BY <2>1
  <2>3. 0 % CharValues = 0
    BY <2>1
  <2> QED
    BY <1>1, <2>1, <2>2, <2>3 DEF uchar
<1>4. \A c \in Chars : c # 0 => uchar(c) > 0
  BY <1>1, <1>2, <1>3, CharFacts
<1> QED
  BY <1>1, <1>2, <1>3, <1>4 DEF Order

(* f and g agree in their first d places.                                  *)
Agrees(f, k, g, l, d) ==
  /\ List(f, k) /\ Len(f) = k /\ List(g, l) /\ Len(g) = l
  /\ d \in Nat /\ d <= k /\ d <= l /\ \A i \in 1 .. d : f[i] = g[i]

LEMMA BeforeIs ==
  ASSUME NEW f, NEW k, NEW g, NEW l, NEW d, Agrees(f, k, g, l, d)
  PROVE  /\ d < k /\ d < l /\ f[d + 1] # g[d + 1] =>
              (Before(f, g) <=> uchar(f[d + 1]) < uchar(g[d + 1]))
         /\ d = k => (Before(f, g) <=> k < l)
         /\ d = l => ~Before(f, g)
<1>1. /\ k \in Nat /\ l \in Nat /\ d \in Nat /\ d <= k /\ d <= l /\ Len(f) = k /\ DOMAIN g = 1 .. l
      /\ f \in [1 .. k -> Chars] /\ g \in [1 .. l -> Chars] /\ \A i \in 1 .. d : f[i] = g[i]
  BY DEF Agrees, List
<1>2. \A i \in 1 .. l : /\ uchar(g[i]) \in Int /\ ~(uchar(g[i]) < uchar(g[i]))
  BY <1>1, OrderFacts
<1>3. ASSUME NEW i \in 1 .. l, \A j \in 1 .. i - 1 : j <= k /\ f[j] = g[j],
             i > k \/ uchar(f[i]) < uchar(g[i])
      PROVE  i > d /\ (d < k /\ d < l /\ f[d + 1] # g[d + 1] => i = d + 1 /\ uchar(f[d + 1]) < uchar(g[d + 1]))
  <2>1. i > d
    <3> SUFFICES ASSUME ~(i > d) PROVE FALSE
      OBVIOUS
    <3>1. i \in 1 .. d /\ ~(i > k)
      BY <1>1
    <3>2. f[i] = g[i]
      BY <1>1, <3>1
    <3> QED
      BY <1>2, <1>3, <3>1, <3>2
  <2>2. ASSUME d < k, d < l, f[d + 1] # g[d + 1]
        PROVE  i = d + 1 /\ uchar(f[d + 1]) < uchar(g[d + 1])
    <3>1. d + 1 \notin 1 .. i - 1
      BY <1>3, <2>2
    <3>2. i = d + 1
      BY <1>1, <2>1, <3>1
    <3>3. ~(i > k)
      BY <1>1, <2>2, <3>2
    <3> QED
      BY <1>3, <3>2, <3>3
  <2> QED
    BY <2>1, <2>2
<1>4. Before(f, g) <=> \E i \in 1 .. l : /\ \A j \in 1 .. i - 1 : j <= k /\ f[j] = g[j]
                                         /\ i > k \/ uchar(f[i]) < uchar(g[i])
  BY <1>1 DEF Before
<1>5. \A j \in 1 .. (d + 1) - 1 : j <= k /\ f[j] = g[j]
  BY <1>1
<1>6. ASSUME d < k, d < l, f[d + 1] # g[d + 1]
      PROVE  Before(f, g) <=> uchar(f[d + 1]) < uchar(g[d + 1])
  <2>1. d + 1 \in 1 .. l
    BY <1>1, <1>6
  <2>2. Before(f, g) => uchar(f[d + 1]) < uchar(g[d + 1])
    BY <1>3, <1>4, <1>6
  <2>3. uchar(f[d + 1]) < uchar(g[d + 1]) => Before(f, g)
    BY <1>4, <1>5, <2>1
  <2> QED
    BY <2>2, <2>3
<1>7. ASSUME d = k PROVE Before(f, g) <=> k < l
  <2>1. Before(f, g) => \E i \in 1 .. l : i > d
    BY <1>3, <1>4
  <2>2. Before(f, g) => k < l
    BY <1>1, <1>7, <2>1
  <2>3. ASSUME k < l PROVE Before(f, g)
    <3>1. d + 1 \in 1 .. l /\ d + 1 > k
      BY <1>1, <1>7, <2>3
    <3> QED
      BY <1>4, <1>5, <3>1
  <2> QED
    BY <2>2, <2>3
<1>8. ASSUME d = l PROVE ~Before(f, g)
  <2>1. Before(f, g) => \E i \in 1 .. l : i > d
    BY <1>3, <1>4
  <2> QED
    BY <1>1, <1>8, <2>1
<1> QED
  BY <1>6, <1>7, <1>8

LEMMA SignIs ==
  ASSUME NEW f, NEW k, NEW g, NEW l, NEW d, Agrees(f, k, g, l, d)
  PROVE  /\ d < k /\ d < l /\ f[d + 1] # g[d + 1] => Sign(f, g) = Order(f[d + 1], g[d + 1])
         /\ d = k /\ d < l => Sign(f, g) = -1
         /\ d < k /\ d = l => Sign(f, g) = 1
         /\ d = k /\ d = l => Sign(f, g) = 0
<1>1. Agrees(g, l, f, k, d)
  BY DEF Agrees
<1>2. k \in Nat /\ l \in Nat /\ d \in Nat /\ f \in [1 .. k -> Chars] /\ g \in [1 .. l -> Chars]
  BY DEF Agrees, List
<1>3. /\ d = k /\ d < l => Before(f, g)
      /\ d < k /\ d = l => ~Before(f, g)
      /\ d = k /\ d = l => ~Before(f, g)
  BY <1>2, BeforeIs
<1>4. /\ d < k /\ d = l => Before(g, f)
      /\ d = k /\ d = l => ~Before(g, f)
  BY <1>1, <1>2, BeforeIs
<1>5. ASSUME d < k, d < l, f[d + 1] # g[d + 1]
      PROVE  Sign(f, g) = Order(f[d + 1], g[d + 1])
  <2>1. PICK c, e : c = f[d + 1] /\ e = g[d + 1]
    OBVIOUS
  <2>2. Before(f, g) <=> uchar(c) < uchar(e)
    BY <1>5, <2>1, BeforeIs
  <2>3. Before(g, f) <=> uchar(e) < uchar(c)
    BY <1>1, <1>5, <2>1, BeforeIs
  <2>4. c \in Chars /\ e \in Chars
    BY <1>2, <1>5, <2>1
  <2>5. uchar(c) \in Int /\ uchar(e) \in Int
    BY <2>4, OrderFacts
  <2>6. Sign(f, g) = Order(c, e)
    BY <2>2, <2>3, <2>5 DEF Sign, Order
  <2> QED
    BY <2>1, <2>6
<1> QED
  BY <1>3, <1>4, <1>5 DEF Sign

(* A length cut short by a count.                                          *)
Shorter(k, n) == IF k < n THEN k ELSE n

(* Two strings that agree before i, where the comparison ends.             *)
Compared(m, a, x, b, y, n, i) ==
  /\ i \in Nat /\ n \in Nat /\ i < n
  /\ \A j \in 0 .. i - 1 : m[a][x + j] = m[b][y + j] /\ m[a][x + j] # 0
  /\ m[a][x + i] # m[b][y + i] \/ i = n - 1 \/ m[a][x + i] = 0

LEMMA StrBytes ==
  ASSUME NEW m, Memory(m), NEW b, NEW y, NEW l, Str(m, b, y, l), NEW k \in 0 .. l + 1
  PROVE  Lists(m, b, y, k, Bytes(m, <<b, y>>, k))
<1>1. b \in DOMAIN m /\ y \in Nat /\ l \in Nat /\ y + l < Extent(m, b)
  BY DEF Str
<1>2. Extent(m, b) \in Nat
  BY <1>1 DEF Memory
<1>3. Within(m, b, y, k)
  BY <1>1, <1>2 DEF Within
<1> QED
  BY <1>3, BytesIs

LEMMA StrChars ==
  ASSUME NEW m, Memory(m), NEW b, NEW y, NEW l, Str(m, b, y, l), NEW k \in 0 .. l
  PROVE  m[b][y + k] \in Chars /\ (m[b][y + k] = 0 <=> k = l)
<1>1. /\ b \in DOMAIN m /\ y \in Nat /\ l \in Nat /\ y + l < Extent(m, b)
      /\ m[b][y + l] = 0 /\ \A i \in 0 .. l - 1 : m[b][y + i] # 0
  BY DEF Str
<1>2. Extent(m, b) \in Nat /\ m[b] \in [0 .. Extent(m, b) - 1 -> Chars]
  BY <1>1 DEF Memory
<1>3. y + k \in 0 .. Extent(m, b) - 1
  BY <1>1, <1>2
<1>4. k # l => k \in 0 .. l - 1
  BY <1>1
<1> QED
  BY <1>1, <1>2, <1>3, <1>4

LEMMA CompareIs ==
  ASSUME NEW m, Memory(m), NEW a, NEW x, NEW k, Str(m, a, x, k), NEW b, NEW y, NEW l, Str(m, b, y, l),
         NEW n, NEW i, Compared(m, a, x, b, y, n, i)
  PROVE  Order(m[a][x + i], m[b][y + i])
           = Sign(Bytes(m, <<a, x>>, Shorter(k, n)), Bytes(m, <<b, y>>, Shorter(l, n)))
<1>1. /\ i \in Nat /\ n \in Nat /\ i < n /\ \A j \in 0 .. i - 1 : m[a][x + j] = m[b][y + j] /\ m[a][x + j] # 0
      /\ m[a][x + i] # m[b][y + i] \/ i = n - 1 \/ m[a][x + i] = 0
  BY DEF Compared
<1>2. /\ x \in Nat /\ k \in Nat /\ y \in Nat /\ l \in Nat /\ m[a][x + k] = 0 /\ m[b][y + l] = 0
  BY DEF Str
<1>3. PICK f, e : e = Shorter(k, n) /\ f = Bytes(m, <<a, x>>, e)
  OBVIOUS
<1>4. PICK g, h : h = Shorter(l, n) /\ g = Bytes(m, <<b, y>>, h)
  OBVIOUS
<1>5. e \in 0 .. k + 1 /\ h \in 0 .. l + 1 /\ e = (IF k < n THEN k ELSE n) /\ h = (IF l < n THEN l ELSE n)
  BY <1>1, <1>2, <1>3, <1>4 DEF Shorter
<1>6. Lists(m, a, x, e, f) /\ Lists(m, b, y, h, g)
  BY <1>3, <1>4, <1>5, StrBytes
<1>7. /\ List(f, e) /\ Len(f) = e /\ \A j \in 1 .. e : f[j] = m[a][x + (j - 1)]
      /\ List(g, h) /\ Len(g) = h /\ \A j \in 1 .. h : g[j] = m[b][y + (j - 1)]
  BY <1>6 DEF Lists
<1>8. i <= k /\ i <= l
  <2>1. k \notin 0 .. i - 1
    BY <1>1, <1>2
  <2>2. l \notin 0 .. i - 1
    BY <1>1, <1>2
  <2> QED
    BY <1>1, <1>2, <2>1, <2>2
<1>9. PICK u, v : u = m[a][x + i] /\ v = m[b][y + i]
  OBVIOUS
<1>10. u \in Chars /\ (u = 0 <=> i = k) /\ v \in Chars /\ (v = 0 <=> i = l)
  <2>1. i \in 0 .. k /\ i \in 0 .. l
    BY <1>1, <1>2, <1>8
  <2> QED
    BY <1>9, <2>1, StrChars
<1>11. \A d \in Nat : d <= e /\ d <= h /\ (\A j \in 0 .. d - 1 : m[a][x + j] = m[b][y + j]) => Agrees(f, e, g, h, d)
  <2> SUFFICES ASSUME NEW d \in Nat, d <= e, d <= h, \A j \in 0 .. d - 1 : m[a][x + j] = m[b][y + j]
               PROVE  Agrees(f, e, g, h, d)
    OBVIOUS
  <2>1. \A j \in 1 .. d : f[j] = g[j]
    <3> SUFFICES ASSUME NEW j \in 1 .. d PROVE f[j] = g[j]
      OBVIOUS
    <3>1. j \in 1 .. e /\ j \in 1 .. h /\ j - 1 \in 0 .. d - 1
      BY <1>5
    <3> QED
      BY <1>7, <3>1
  <2> QED
    BY <1>7, <2>1 DEF Agrees
<1>12. i <= e /\ i <= h /\ Agrees(f, e, g, h, i)
  <2>1. i <= e /\ i <= h
    BY <1>1, <1>2, <1>5, <1>8
  <2> QED
    BY <1>1, <1>11, <2>1
<1>13. Order(u, v) = Sign(f, g)
  <2>1. CASE u # v /\ u # 0 /\ v # 0
    <3>1. i < e /\ i < h
      BY <1>1, <1>2, <1>5, <1>8, <1>10, <2>1
    <3>2. i + 1 \in 1 .. e /\ i + 1 \in 1 .. h /\ (i + 1) - 1 = i
      BY <1>1, <1>5, <3>1
    <3>3. f[i + 1] = u /\ g[i + 1] = v
      BY <1>7, <1>9, <3>2
    <3> QED
      BY <1>12, <2>1, <3>1, <3>3, SignIs
  <2>2. CASE u # v /\ u = 0
    <3>1. i = e /\ i < h
      BY <1>1, <1>2, <1>5, <1>8, <1>10, <2>2
    <3>2. Sign(f, g) = -1
      BY <1>12, <3>1, SignIs
    <3> QED
      BY <1>10, <2>2, <3>2, OrderFacts
  <2>3. CASE u # v /\ v = 0
    <3>1. i < e /\ i = h
      BY <1>1, <1>2, <1>5, <1>8, <1>10, <2>3
    <3>2. Sign(f, g) = 1
      BY <1>12, <3>1, SignIs
    <3> QED
      BY <1>10, <2>3, <3>2, OrderFacts
  <2>4. CASE u = v /\ u = 0
    <3>1. i = e /\ i = h
      BY <1>1, <1>2, <1>5, <1>8, <1>10, <2>4
    <3>2. Sign(f, g) = 0
      BY <1>12, <3>1, SignIs
    <3> QED
      BY <1>10, <2>4, <3>2, OrderFacts
  <2>5. CASE u = v /\ u # 0
    <3>1. i = n - 1
      BY <1>1, <1>9, <2>5
    <3>2. n = e /\ n = h
      BY <1>1, <1>2, <1>5, <1>8, <1>10, <2>5, <3>1
    <3>3. \A j \in 0 .. n - 1 : m[a][x + j] = m[b][y + j]
      <4> SUFFICES ASSUME NEW j \in 0 .. n - 1 PROVE m[a][x + j] = m[b][y + j]
        OBVIOUS
      <4>1. j = i \/ j \in 0 .. i - 1
        BY <1>1, <3>1
      <4> QED
        BY <1>1, <1>9, <2>5, <4>1
    <3>4. Agrees(f, e, g, h, n)
      BY <1>1, <1>11, <3>2, <3>3
    <3>5. Sign(f, g) = 0
      BY <3>2, <3>4, SignIs
    <3> QED
      BY <1>10, <2>5, <3>5, OrderFacts
  <2> QED
    BY <2>1, <2>2, <2>3, <2>4, <2>5
<1> QED
  BY <1>3, <1>4, <1>9, <1>13

(* Where a comparison ends.                                                *)
Stops(m, a, x, b, y, n) ==
  {j \in Nat : m[a][x + j] # m[b][y + j] \/ j = n - 1 \/ m[a][x + j] = 0}

LEMMA ComparedExists ==
  ASSUME NEW m, NEW a, NEW x, NEW b, NEW y, NEW n \in Nat, n > 0
  PROVE  \E i : Compared(m, a, x, b, y, n, i) /\ FirstIn(Stops(m, a, x, b, y, n)) = i
<1> DEFINE P == {j \in Nat : m[a][x + j] # m[b][y + j] \/ j = n - 1 \/ m[a][x + j] = 0}
<1>1. P \subseteq Nat /\ n - 1 \in P
  OBVIOUS
<1>2. PICK i \in P : \A j \in P : i <= j
  <2> HIDE DEF P
  <2> QED
    BY <1>1, LeastNumber
<1>3. i \in Nat /\ i <= n - 1
  BY <1>1, <1>2
<1>4. \A j \in 0 .. i - 1 : m[a][x + j] = m[b][y + j] /\ m[a][x + j] # 0
  <2> SUFFICES ASSUME NEW j \in 0 .. i - 1 PROVE m[a][x + j] = m[b][y + j] /\ m[a][x + j] # 0
    OBVIOUS
  <2>1. j \in Nat /\ ~(i <= j)
    BY <1>3
  <2>2. j \notin P
    BY <1>2, <2>1
  <2> QED
    BY <2>1, <2>2
<1>5. m[a][x + i] # m[b][y + i] \/ i = n - 1 \/ m[a][x + i] = 0
  OBVIOUS
<1>6. Compared(m, a, x, b, y, n, i)
  BY <1>3, <1>4, <1>5 DEF Compared
<1>7. FirstIn(P) = i
  <2> HIDE DEF P
  <2> QED
    BY <1>1, <1>2, FirstInIs
<1>8. P = Stops(m, a, x, b, y, n)
  BY DEF Stops
<1> QED
  BY <1>6, <1>7, <1>8

LEMMA StrncmpIs ==
  ASSUME NEW m, Memory(m), NEW a, NEW x, NEW k, Str(m, a, x, k), NEW b, NEW y, NEW l, Str(m, b, y, l),
         NEW n \in Nat
  PROVE  strncmp(m, <<a, x>>, <<b, y>>, n)
           = Sign(Bytes(m, <<a, x>>, Shorter(k, n)), Bytes(m, <<b, y>>, Shorter(l, n)))
<1>1. CASE n = 0
  <2>1. k \in Nat /\ l \in Nat
    BY DEF Str
  <2>2. PICK z : z = 0
    OBVIOUS
  <2>3. Shorter(k, n) = z /\ Shorter(l, n) = z /\ z \in 0 .. k + 1 /\ z \in 0 .. l + 1
    BY <1>1, <2>1, <2>2 DEF Shorter
  <2>4. PICK f, g : f = Bytes(m, <<a, x>>, z) /\ g = Bytes(m, <<b, y>>, z)
    OBVIOUS
  <2>5. Lists(m, a, x, z, f) /\ Lists(m, b, y, z, g)
    BY <2>3, <2>4, StrBytes
  <2>6. Agrees(f, z, g, z, z)
    BY <2>2, <2>5 DEF Agrees, Lists
  <2>7. Sign(f, g) = 0
    BY <2>6, SignIs
  <2> QED
    BY <1>1, <2>3, <2>4, <2>7 DEF strncmp
<1>2. CASE n > 0
  <2>1. PICK i : Compared(m, a, x, b, y, n, i) /\ FirstIn(Stops(m, a, x, b, y, n)) = i
    BY <1>2, ComparedExists
  <2>2. strncmp(m, <<a, x>>, <<b, y>>, n) = Order(m[a][x + i], m[b][y + i])
    <3>1. \A j : /\ At(m, Plus(<<a, x>>, j)) = m[a][x + j]
                 /\ At(m, Plus(<<b, y>>, j)) = m[b][y + j]
      BY DEF At, Plus
    <3>2. PICK P : P = {j \in Nat : \/ At(m, Plus(<<a, x>>, j)) # At(m, Plus(<<b, y>>, j))
                                    \/ j = n - 1 \/ At(m, Plus(<<a, x>>, j)) = 0}
      OBVIOUS
    <3>3. P = Stops(m, a, x, b, y, n)
      BY <3>1, <3>2 DEF Stops
    <3>4. strncmp(m, <<a, x>>, <<b, y>>, n) =
            Order(At(m, Plus(<<a, x>>, FirstIn(P))), At(m, Plus(<<b, y>>, FirstIn(P))))
      BY <1>2, <3>2 DEF strncmp
    <3> QED
      BY <2>1, <3>1, <3>3, <3>4
  <2> QED
    BY <2>1, <2>2, CompareIs
<1> QED
  BY <1>1, <1>2

LEMMA StrcmpIs ==
  ASSUME NEW m, Memory(m), NEW a, NEW x, NEW k, Str(m, a, x, k), NEW b, NEW y, NEW l, Str(m, b, y, l)
  PROVE  strcmp(m, <<a, x>>, <<b, y>>) = Sign(Bytes(m, <<a, x>>, k), Bytes(m, <<b, y>>, l))
<1>1. x \in Nat /\ k \in Nat /\ l \in Nat /\ m[a][x + k] = 0
  BY DEF Str
<1> DEFINE P == {j \in Nat : m[a][x + j] # m[b][y + j] \/ m[a][x + j] = 0}
<1>2. P \subseteq Nat /\ k \in P
  BY <1>1
<1>3. PICK i \in P : \A j \in P : i <= j
  <2> HIDE DEF P
  <2> QED
    BY <1>2, LeastNumber
<1>4. i \in Nat /\ i <= k /\ (m[a][x + i] # m[b][y + i] \/ m[a][x + i] = 0)
  BY <1>2, <1>3
<1>5. \A j \in 0 .. i - 1 : m[a][x + j] = m[b][y + j] /\ m[a][x + j] # 0
  <2> SUFFICES ASSUME NEW j \in 0 .. i - 1 PROVE m[a][x + j] = m[b][y + j] /\ m[a][x + j] # 0
    OBVIOUS
  <2>1. j \in Nat /\ ~(i <= j)
    BY <1>4
  <2>2. j \notin P
    BY <1>3, <2>1
  <2> QED
    BY <2>1, <2>2
<1>6. FirstIn(P) = i
  <2> HIDE DEF P
  <2> QED
    BY <1>2, <1>3, FirstInIs
<1>7. PICK n \in Nat : n = k + l + 1
  BY <1>1
<1>8. i < n /\ Shorter(k, n) = k /\ Shorter(l, n) = l
  BY <1>1, <1>4, <1>7 DEF Shorter
<1>9. Compared(m, a, x, b, y, n, i)
  BY <1>4, <1>5, <1>8 DEF Compared
<1>10. strcmp(m, <<a, x>>, <<b, y>>) = Order(m[a][x + i], m[b][y + i])
  BY <1>6 DEF strcmp, At, Plus
<1> QED
  BY <1>8, <1>9, <1>10, CompareIs

LEMMA MemcmpIs ==
  ASSUME NEW m, Memory(m), NEW a, NEW x, NEW b, NEW y, NEW n, Within(m, a, x, n), Within(m, b, y, n)
  PROVE  memcmp(m, <<a, x>>, <<b, y>>, n) = Sign(Bytes(m, <<a, x>>, n), Bytes(m, <<b, y>>, n))
<1>1. n \in Nat
  BY DEF Within
<1> DEFINE P == {j \in Nat : j = n \/ m[a][x + j] # m[b][y + j]}
<1>2. P \subseteq Nat /\ n \in P
  BY <1>1
<1>3. PICK i \in P : \A j \in P : i <= j
  <2> HIDE DEF P
  <2> QED
    BY <1>2, LeastNumber
<1>4. i \in Nat /\ i <= n /\ (i = n \/ m[a][x + i] # m[b][y + i])
  BY <1>2, <1>3
<1>5. \A j \in 0 .. i - 1 : m[a][x + j] = m[b][y + j]
  <2> SUFFICES ASSUME NEW j \in 0 .. i - 1 PROVE m[a][x + j] = m[b][y + j]
    OBVIOUS
  <2>1. j \in Nat /\ ~(i <= j)
    BY <1>4
  <2>2. j \notin P
    BY <1>3, <2>1
  <2> QED
    BY <2>1, <2>2
<1>6. FirstIn(P) = i
  <2> HIDE DEF P
  <2> QED
    BY <1>2, <1>3, FirstInIs
<1>7. PICK f, g : f = Bytes(m, <<a, x>>, n) /\ g = Bytes(m, <<b, y>>, n)
  OBVIOUS
<1>8. Lists(m, a, x, n, f) /\ Lists(m, b, y, n, g)
  BY <1>7, BytesIs
<1>9. /\ List(f, n) /\ Len(f) = n /\ \A j \in 1 .. n : f[j] = m[a][x + (j - 1)]
      /\ List(g, n) /\ Len(g) = n /\ \A j \in 1 .. n : g[j] = m[b][y + (j - 1)]
  BY <1>8 DEF Lists
<1>10. Agrees(f, n, g, n, i)
  <2>1. \A j \in 1 .. i : f[j] = g[j]
    <3> SUFFICES ASSUME NEW j \in 1 .. i PROVE f[j] = g[j]
      OBVIOUS
    <3>1. j \in 1 .. n /\ j - 1 \in 0 .. i - 1
      BY <1>1, <1>4
    <3> QED
      BY <1>5, <1>9, <3>1
  <2> QED
    BY <1>4, <1>9, <2>1 DEF Agrees
<1>11. memcmp(m, <<a, x>>, <<b, y>>, n) = IF i = n THEN 0 ELSE Order(m[a][x + i], m[b][y + i])
  BY <1>6 DEF memcmp, At, Plus
<1>12. CASE i = n
  BY <1>7, <1>10, <1>11, <1>12, SignIs
<1>13. CASE i # n
  <2>1. i < n /\ i + 1 \in 1 .. n /\ (i + 1) - 1 = i
    BY <1>1, <1>4, <1>13
  <2>2. f[i + 1] = m[a][x + i] /\ g[i + 1] = m[b][y + i]
    BY <1>9, <2>1
  <2>3. Sign(f, g) = Order(f[i + 1], g[i + 1])
    BY <1>4, <1>10, <1>13, <2>1, <2>2, SignIs
  <2> QED
    BY <1>7, <1>11, <1>13, <2>2, <2>3
<1> QED
  BY <1>12, <1>13

LEMMA PrefixIs ==
  ASSUME NEW m, Memory(m), NEW b, NEW y, NEW l, Str(m, b, y, l), NEW n \in Nat
  PROVE  Prefix(Bytes(m, <<b, y>>, l), n) = Bytes(m, <<b, y>>, Shorter(l, n))
<1>1. l \in Nat
  BY DEF Str
<1>2. PICK f, e : f = Bytes(m, <<b, y>>, l) /\ e = Shorter(l, n)
  OBVIOUS
<1>3. l \in 0 .. l + 1 /\ e \in 0 .. l + 1 /\ e \in 0 .. l /\ e = IF l < n THEN l ELSE n
  BY <1>1, <1>2 DEF Shorter
<1>4. Lists(m, b, y, l, f)
  BY <1>2, <1>3, StrBytes
<1>5. f \in Seq(Chars) /\ Len(f) = l
  BY <1>4 DEF Lists
<1>6. Min({n, Len(f)}) = e
  <2>1. {n, Len(f)} = {n} \cup {l}
    BY <1>5
  <2> QED
    BY <1>1, <1>3, <2>1, MinIs
<1>7. SubSeq(f, 1, e) = [i \in 1 .. e |-> f[i]]
  BY <1>3, <1>5
<1>8. \A i \in 1 .. e : f[i] = At(m, Plus(<<b, y>>, i - 1))
  BY <1>1, <1>2, <1>3 DEF Bytes
<1>9. [i \in 1 .. e |-> f[i]] = Bytes(m, <<b, y>>, e)
  BY <1>8 DEF Bytes
<1> QED
  BY <1>2, <1>6, <1>7, <1>9 DEF Prefix

LEMMA ComparisonsHold == MemInv => ComparisonsAgree
<1> SUFFICES ASSUME MemInv, NEW p \in Readable, NEW q \in Readable
             PROVE  /\ IsString(p) /\ IsString(q) =>
                         /\ strcmp(mem, p, q) = Sign(StringAt(mem, p), StringAt(mem, q))
                         /\ \A n \in 0 .. MaxCount :
                              strncmp(mem, p, q, n) =
                                Sign(Prefix(StringAt(mem, p), n), Prefix(StringAt(mem, q), n))
                    /\ \A n \in 0 .. Min({Room(p), Room(q)}) :
                         memcmp(mem, p, q, n) = Sign(Bytes(mem, p, n), Bytes(mem, q, n))
  BY DEF ComparisonsAgree
<1>1. Memory(mem) /\ Buffers \cup {"literal"} \subseteq DOMAIN mem
  BY DEF MemInv
<1>2. PICK a, x : x \in Nat /\ Place(p, a, x)
  BY <1>1, PlaceIs DEF Readable
<1>3. PICK b, y : y \in Nat /\ Place(q, b, y)
  BY <1>1, PlaceIs DEF Readable
<1>4. p = <<a, x>> /\ q = <<b, y>>
  BY <1>2, <1>3 DEF Place
<1>5. ASSUME IsString(p), IsString(q)
      PROVE  /\ strcmp(mem, p, q) = Sign(StringAt(mem, p), StringAt(mem, q))
             /\ \A n \in 0 .. MaxCount :
                  strncmp(mem, p, q, n) = Sign(Prefix(StringAt(mem, p), n), Prefix(StringAt(mem, q), n))
  <2>1. PICK k : Str(mem, a, x, k)
    BY <1>2, <1>5, PlaceFacts
  <2>2. PICK l : Str(mem, b, y, l)
    BY <1>3, <1>5, PlaceFacts
  <2>3. StringAt(mem, p) = Bytes(mem, <<a, x>>, k) /\ StringAt(mem, q) = Bytes(mem, <<b, y>>, l)
    BY <1>2, <1>3, <2>1, <2>2, PlaceFacts
  <2>4. strcmp(mem, <<a, x>>, <<b, y>>) = Sign(Bytes(mem, <<a, x>>, k), Bytes(mem, <<b, y>>, l))
    BY <1>1, <2>1, <2>2, StrcmpIs
  <2>5. ASSUME NEW n \in 0 .. MaxCount
        PROVE  strncmp(mem, p, q, n) = Sign(Prefix(StringAt(mem, p), n), Prefix(StringAt(mem, q), n))
    <3>1. n \in Nat
      BY BoundAssumption
    <3>2. strncmp(mem, <<a, x>>, <<b, y>>, n)
            = Sign(Bytes(mem, <<a, x>>, Shorter(k, n)), Bytes(mem, <<b, y>>, Shorter(l, n)))
      BY <1>1, <2>1, <2>2, <3>1, StrncmpIs
    <3>3. /\ Prefix(Bytes(mem, <<a, x>>, k), n) = Bytes(mem, <<a, x>>, Shorter(k, n))
          /\ Prefix(Bytes(mem, <<b, y>>, l), n) = Bytes(mem, <<b, y>>, Shorter(l, n))
      BY <1>1, <2>1, <2>2, <3>1, PrefixIs
    <3> QED
      BY <1>4, <2>3, <3>2, <3>3
  <2> QED
    BY <1>4, <2>3, <2>4, <2>5
<1>6. ASSUME NEW n \in 0 .. Min({Room(p), Room(q)})
      PROVE  memcmp(mem, p, q, n) = Sign(Bytes(mem, p, n), Bytes(mem, q, n))
  <2>1. PICK u, v : u = Room(p) /\ v = Room(q)
    OBVIOUS
  <2>2. u = Extent(mem, a) - x /\ v = Extent(mem, b) - y
    BY <1>2, <1>3, <2>1, PlaceFacts
  <2>3. u \in Nat /\ v \in Nat
    BY <1>2, <1>3, <2>2 DEF Place
  <2>4. {u, v} = {u} \cup {v}
    OBVIOUS
  <2>5. Min({u, v}) = IF v < u THEN v ELSE u
    BY <2>3, <2>4, MinIs
  <2>6. n \in Nat /\ n <= u /\ n <= v
    BY <1>6, <2>1, <2>3, <2>5
  <2>7. Within(mem, a, x, n) /\ Within(mem, b, y, n)
    BY <1>2, <1>3, <2>1, <2>6, PlaceFacts
  <2> QED
    BY <1>1, <1>4, <2>7, MemcmpIs
<1> QED
  BY <1>5, <1>6

-----------------------------------------------------------------------------
(* Searches.                                                               *)

LEMMA LeastIs ==
  ASSUME NEW b, NEW y, NEW T, T \subseteq Nat, NEW k \in Nat, k + 1 \in T, \A i \in T : k + 1 <= i
  PROVE  Least(<<b, y>>, T) = <<b, y + k>>
<1>1. PICK n \in Nat : n = k + 1
  OBVIOUS
<1>2. \A i \in T : i \in Nat /\ n <= i
  BY <1>1
<1>3. Min(T) = n
  <2>1. n \in T /\ \A i \in T : n <= i
    BY <1>1, <1>2
  <2>2. \A j \in T : (\A i \in T : j <= i) => j = n
    BY <1>2, <2>1
  <2> QED
    BY <2>1, <2>2 DEF Min
<1>4. n - 1 = k
  BY <1>1
<1> QED
  BY <1>3, <1>4 DEF Least, Plus

(* k + 1 is the greatest of T.                                             *)
Topmost(T, k) == T \subseteq Nat /\ k \in Nat /\ k + 1 \in T /\ \A i \in T : i <= k + 1

LEMMA GreatestIs ==
  ASSUME NEW b, NEW y, NEW T, NEW k, Topmost(T, k)
  PROVE  Greatest(<<b, y>>, T) = <<b, y + k>>
<1>0. T \subseteq Nat /\ k \in Nat /\ k + 1 \in T /\ \A i \in T : i <= k + 1
  BY DEF Topmost
<1>1. PICK n \in Nat : n = k + 1
  BY <1>0
<1>2. \A i \in T : i \in Nat /\ n >= i
  BY <1>0, <1>1
<1>3. Max(T) = n
  <2>1. n \in T /\ \A i \in T : n >= i
    BY <1>0, <1>1, <1>2
  <2>2. \A j \in T : (\A i \in T : j >= i) => j = n
    BY <1>2, <2>1
  <2> QED
    BY <2>1, <2>2 DEF Max
<1>4. n - 1 = k
  BY <1>0, <1>1
<1>5. T # {}
  BY <1>0
<1> QED
  BY <1>3, <1>4, <1>5 DEF Greatest, Plus

(* A string and the zero at its end.                                       *)
LEMMA WholeIs ==
  ASSUME NEW m, Memory(m), NEW b, NEW y, NEW l, Str(m, b, y, l)
  PROVE  /\ Append(Bytes(m, <<b, y>>, l), 0) = Bytes(m, <<b, y>>, l + 1)
         /\ Lists(m, b, y, l, Bytes(m, <<b, y>>, l)) /\ Lists(m, b, y, l + 1, Bytes(m, <<b, y>>, l + 1))
<1>1. y \in Nat /\ l \in Nat /\ m[b][y + l] = 0 /\ l \in 0 .. l + 1 /\ l + 1 \in 0 .. l + 1
  BY DEF Str
<1>2. PICK f, g, n : f = Bytes(m, <<b, y>>, l) /\ n = l + 1 /\ g = Bytes(m, <<b, y>>, n)
  OBVIOUS
<1>3. Lists(m, b, y, l, f) /\ Lists(m, b, y, n, g)
  BY <1>1, <1>2, StrBytes
<1>4. /\ f \in Seq(Chars) /\ Len(f) = l /\ \A i \in 1 .. l : f[i] = m[b][y + (i - 1)]
      /\ g \in [1 .. n -> Chars] /\ \A i \in 1 .. n : g[i] = m[b][y + (i - 1)]
  BY <1>3 DEF Lists, List
<1>5. PICK h : h = Append(f, 0)
  OBVIOUS
<1>6. h \in Seq(Chars) /\ Len(h) = n /\ h[n] = 0 /\ \A i \in 1 .. l : h[i] = f[i]
  <2>1. 0 \in Chars
    BY CharFacts
  <2>2. h = f \o <<0>>
    BY <1>4, <1>5, <2>1, ConcatOne
  <2>3. f \in Seq(Chars)
    BY <1>4
  <2>4. /\ f \o <<0>> \in Seq(Chars) /\ Len(f \o <<0>>) = Len(f) + 1
        /\ (f \o <<0>>)[Len(f) + 1] = 0
        /\ \A i \in 1 .. Len(f) : (f \o <<0>>)[i] = f[i]
    BY <2>1, <2>3, AppendIs
  <2>5. Len(f) = l /\ n = l + 1
    BY <1>2, <1>4
  <2> QED
    BY <2>2, <2>4, <2>5
<1>7. h \in [1 .. n -> Chars]
  BY <1>6
<1>8. \A i \in 1 .. n : h[i] = g[i]
  <2> SUFFICES ASSUME NEW i \in 1 .. n PROVE h[i] = g[i]
    OBVIOUS
  <2>1. CASE i = n
    <3>1. i - 1 = l
      BY <1>1, <1>2, <2>1
    <3> QED
      BY <1>1, <1>4, <1>6, <2>1, <3>1
  <2>2. CASE i # n
    <3>1. i \in 1 .. l
      BY <1>1, <1>2, <2>2
    <3> QED
      BY <1>4, <1>6, <3>1
  <2> QED
    BY <2>1, <2>2
<1>9. h = g
  <2>1. g \in [1 .. n -> Chars]
    BY <1>4
  <2>2. PICK N : N = 1 .. n
    OBVIOUS
  <2>3. h \in [N -> Chars] /\ g \in [N -> Chars] /\ \A i \in N : h[i] = g[i]
    BY <1>7, <1>8, <2>1, <2>2
  <2> QED
    BY <2>3, SameFunction
<1> QED
  BY <1>2, <1>3, <1>5, <1>9

(* r is the first place of c in a string, from its start or a place in it. *)
Finds(m, b, y, l, c, r) ==
  \/ r = Null /\ \A i \in 0 .. l : m[b][y + i] # c
  \/ \E k \in 0 .. l : r = <<b, y + k>> /\ m[b][y + k] = c /\ \A i \in 0 .. k - 1 : m[b][y + i] # c

LEMMA StrchrIs ==
  ASSUME NEW m, Memory(m), NEW b, NEW y, NEW l, Str(m, b, y, l), NEW c \in Int
  PROVE  Finds(m, b, y, l, c, strchr(m, <<b, y>>, c))
<1>1. y \in Nat /\ l \in Nat
  BY DEF Str
<1>2. PICK S : S = {0, char(c)}
  OBVIOUS
<1>3. PICK k \in 0 .. l : Hit(m, b, y, S, k)
  BY <1>2, HitExists
<1>4. Distance(m, <<b, y>>, S) = k
  BY <1>3, HitIs
<1>5. strchr(m, <<b, y>>, c) = IF m[b][y + k] = c THEN <<b, y + k>> ELSE Null
  BY <1>2, <1>4 DEF strchr, At, Plus
<1>6. m[b][y + k] \in S /\ \A i \in 0 .. k - 1 : m[b][y + i] \notin S
  BY <1>3 DEF Hit
<1>7. \A i \in 0 .. l : m[b][y + i] \in Chars /\ (m[b][y + i] = 0 <=> i = l)
  BY StrChars
<1>8. \A i \in 0 .. l : m[b][y + i] = c => char(c) = c
  BY <1>7, CharFacts
<1>9. \A i \in 0 .. k - 1 : i \in 0 .. l
  BY <1>1
<1>10. \A i \in 0 .. k - 1 : m[b][y + i] # c
  BY <1>2, <1>6, <1>8, <1>9
<1>11. CASE m[b][y + k] = c
  BY <1>5, <1>10, <1>11 DEF Finds
<1>12. CASE m[b][y + k] # c
  <2> SUFFICES ASSUME NEW i \in 0 .. l, m[b][y + i] = c PROVE FALSE
    BY <1>5, <1>12 DEF Finds
  <2>1. char(c) = c
    BY <1>8
  <2>2. m[b][y + k] = 0
    BY <1>2, <1>6, <1>12, <2>1
  <2>3. k = l
    BY <1>7, <2>2
  <2>4. i = k \/ i \in 0 .. k - 1
    BY <1>1, <2>3
  <2> QED
    BY <1>10, <1>12, <2>4
<1> QED
  BY <1>11, <1>12

(* Where f is one of C.                                                    *)
Spots(f, C) == {i \in DOMAIN f : f[i] \in C}

LEMMA StrchrLeast ==
  ASSUME NEW m, Memory(m), NEW b, NEW y, NEW l, Str(m, b, y, l), NEW c \in Int,
         NEW f, Lists(m, b, y, l + 1, f)
  PROVE  strchr(m, <<b, y>>, c) = Least(<<b, y>>, Spots(f, {c}))
<1>1. y \in Nat /\ l \in Nat
  BY DEF Str
<1>2. PICK r : r = strchr(m, <<b, y>>, c)
  OBVIOUS
<1>3. Finds(m, b, y, l, c, r)
  BY <1>2, StrchrIs
<1>4. DOMAIN f = 1 .. l + 1 /\ \A i \in 1 .. l + 1 : f[i] = m[b][y + (i - 1)]
  BY DEF Lists, List
<1>5. PICK T : T = {i \in 1 .. l + 1 : f[i] = c}
  OBVIOUS
<1>6. T = Spots(f, {c}) /\ T \subseteq Nat
  BY <1>1, <1>4, <1>5 DEF Spots
<1>7. CASE r = Null /\ \A i \in 0 .. l : m[b][y + i] # c
  <2>1. \A i \in 1 .. l + 1 : i - 1 \in 0 .. l
    BY <1>1
  <2>2. T = {}
    BY <1>4, <1>5, <1>7, <2>1
  <2> QED
    BY <1>2, <1>6, <1>7, <2>2 DEF Least
<1>8. CASE \E k \in 0 .. l : r = <<b, y + k>> /\ m[b][y + k] = c /\ \A i \in 0 .. k - 1 : m[b][y + i] # c
  <2>1. PICK k \in 0 .. l : r = <<b, y + k>> /\ m[b][y + k] = c /\ \A i \in 0 .. k - 1 : m[b][y + i] # c
    BY <1>8
  <2>2. k + 1 \in 1 .. l + 1 /\ (k + 1) - 1 = k /\ k \in Nat
    BY <1>1
  <2>3. k + 1 \in T
    BY <1>4, <1>5, <2>1, <2>2
  <2>4. \A i \in T : k + 1 <= i
    <3> SUFFICES ASSUME NEW i \in T, ~(k + 1 <= i) PROVE FALSE
      OBVIOUS
    <3>1. i \in 1 .. l + 1 /\ f[i] = c
      BY <1>5
    <3>2. i - 1 \in 0 .. k - 1
      BY <1>1, <2>2, <3>1
    <3> QED
      BY <1>4, <2>1, <3>1, <3>2
  <2>5. Least(<<b, y>>, T) = <<b, y + k>>
    BY <1>6, <2>2, <2>3, <2>4, LeastIs
  <2> QED
    BY <1>2, <1>6, <2>1, <2>5
<1> QED
  BY <1>3, <1>7, <1>8 DEF Finds

LEMMA MemchrIs ==
  ASSUME NEW m, Memory(m), NEW b, NEW y, NEW n, Within(m, b, y, n), NEW c \in IntArgs,
         NEW f, Lists(m, b, y, n, f)
  PROVE  memchr(m, <<b, y>>, c, n) = Least(<<b, y>>, Spots(f, {char(c)}))
<1>1. b \in DOMAIN m /\ y \in Nat /\ n \in Nat
  BY DEF Within
<1>2. DOMAIN f = 1 .. n /\ \A i \in 1 .. n : f[i] \in Chars /\ f[i] = m[b][y + (i - 1)]
  BY DEF Lists, List
<1>3. c \in Int /\ char(c) \in Chars
  BY CharAssumption DEF Chars
<1>4. uchar(char(c)) = uchar(c) /\ \A u \in Chars : uchar(u) = uchar(char(c)) => u = char(c)
  BY <1>3, CharFacts
<1>5. \A i \in 0 .. n - 1 : uchar(m[b][y + i]) = uchar(c) <=> m[b][y + i] = char(c)
  <2> SUFFICES ASSUME NEW i \in 0 .. n - 1 PROVE uchar(m[b][y + i]) = uchar(c) <=> m[b][y + i] = char(c)
    OBVIOUS
  <2>1. i + 1 \in 1 .. n /\ (i + 1) - 1 = i
    BY <1>1
  <2>2. m[b][y + i] \in Chars
    BY <1>2, <2>1
  <2> QED
    BY <1>4, <2>2
<1> DEFINE P == {j \in Nat : j = n \/ uchar(m[b][y + j]) = uchar(c)}
<1>6. P \subseteq Nat /\ n \in P
  BY <1>1
<1>7. PICK k \in P : \A j \in P : k <= j
  <2> HIDE DEF P
  <2> QED
    BY <1>6, LeastNumber
<1>8. k \in Nat /\ k <= n /\ (k = n \/ uchar(m[b][y + k]) = uchar(c))
  BY <1>6, <1>7
<1>9. \A j \in 0 .. k - 1 : m[b][y + j] # char(c)
  <2> SUFFICES ASSUME NEW j \in 0 .. k - 1 PROVE m[b][y + j] # char(c)
    OBVIOUS
  <2>1. j \in Nat /\ ~(k <= j) /\ j \in 0 .. n - 1
    BY <1>1, <1>8
  <2>2. j \notin P
    BY <1>7, <2>1
  <2> QED
    BY <1>5, <2>1, <2>2
<1>10. FirstIn(P) = k
  <2> HIDE DEF P
  <2> QED
    BY <1>6, <1>7, FirstInIs
<1>11. memchr(m, <<b, y>>, c, n) = IF k = n THEN Null ELSE <<b, y + k>>
  BY <1>10 DEF memchr, At, Plus
<1>12. PICK T : T = Spots(f, {char(c)})
  OBVIOUS
<1>13. T \subseteq Nat /\ \A i : i \in T <=> i \in 1 .. n /\ m[b][y + (i - 1)] = char(c)
  BY <1>1, <1>2, <1>12 DEF Spots
<1>14. CASE k = n
  <2>1. \A i \in 1 .. n : i - 1 \in 0 .. k - 1
    BY <1>1, <1>14
  <2>2. T = {}
    BY <1>9, <1>13, <2>1
  <2> QED
    BY <1>11, <1>12, <1>14, <2>2 DEF Least
<1>15. CASE k # n
  <2>1. k + 1 \in 1 .. n /\ (k + 1) - 1 = k /\ k \in 0 .. n - 1
    BY <1>1, <1>8, <1>15
  <2>2. m[b][y + k] = char(c)
    BY <1>5, <1>8, <1>15, <2>1
  <2>3. k + 1 \in T
    BY <1>13, <2>1, <2>2
  <2>4. \A i \in T : k + 1 <= i
    <3> SUFFICES ASSUME NEW i \in T, ~(k + 1 <= i) PROVE FALSE
      OBVIOUS
    <3>1. i \in 1 .. n /\ m[b][y + (i - 1)] = char(c)
      BY <1>13
    <3>2. i - 1 \in 0 .. k - 1
      BY <1>1, <1>8, <3>1
    <3> QED
      BY <1>9, <3>1, <3>2
  <2>5. Least(<<b, y>>, T) = <<b, y + k>>
    BY <1>8, <1>13, <2>3, <2>4, LeastIs
  <2> QED
    BY <1>11, <1>12, <1>15, <2>5
<1> QED
  BY <1>14, <1>15

(* The characters of a string.                                             *)
LEMMA CharSet ==
  ASSUME NEW m, Memory(m), NEW b, NEW y, NEW l, Str(m, b, y, l), b # "null"
  PROVE  /\ ToSet(Bytes(m, <<b, y>>, l)) \subseteq Chars \ {0}
         /\ \A i \in 0 .. l - 1 : m[b][y + i] \in ToSet(Bytes(m, <<b, y>>, l))
         /\ Skips(m, <<b, y>>) = {0} \cup (Chars \ ToSet(Bytes(m, <<b, y>>, l)))
         /\ Ends(m, <<b, y>>) = {0} \cup ToSet(Bytes(m, <<b, y>>, l))
<1>1. y \in Nat /\ l \in Nat /\ l \in 0 .. l + 1
  BY DEF Str
<1>2. PICK f, D : f = Bytes(m, <<b, y>>, l) /\ D = ToSet(f)
  OBVIOUS
<1>3. Lists(m, b, y, l, f)
  BY <1>1, <1>2, StrBytes
<1>4. DOMAIN f = 1 .. l /\ \A i \in 1 .. l : f[i] = m[b][y + (i - 1)]
  BY <1>3 DEF Lists, List
<1>5. \A i \in 0 .. l : m[b][y + i] \in Chars /\ (m[b][y + i] = 0 <=> i = l)
  BY StrChars
<1>6. \A u : u \in D <=> \E i \in 1 .. l : u = f[i]
  BY <1>2, <1>4 DEF ToSet
<1>7. \A i \in 0 .. l - 1 : m[b][y + i] \in D
  <2> SUFFICES ASSUME NEW i \in 0 .. l - 1 PROVE m[b][y + i] \in D
    OBVIOUS
  <2>1. i + 1 \in 1 .. l /\ (i + 1) - 1 = i
    BY <1>1
  <2> QED
    BY <1>4, <1>6, <2>1
<1>8. \A u \in D : \E i \in 0 .. l - 1 : u = m[b][y + i]
  <2> SUFFICES ASSUME NEW u \in D PROVE \E i \in 0 .. l - 1 : u = m[b][y + i]
    OBVIOUS
  <2>1. PICK i \in 1 .. l : u = f[i]
    BY <1>6
  <2>2. i - 1 \in 0 .. l - 1
    BY <1>1
  <2> QED
    BY <1>4, <2>1, <2>2
<1>9. \A i \in 0 .. l - 1 : i \in 0 .. l /\ i # l
  BY <1>1
<1>10. D \subseteq Chars \ {0}
  BY <1>5, <1>8, <1>9
<1>11. ASSUME NEW u \in Chars, u # 0 PROVE strchr(m, <<b, y>>, u) = Null <=> u \notin D
  <2>1. u \in Int
    BY CharFacts
  <2>2. PICK r : r = strchr(m, <<b, y>>, u)
    OBVIOUS
  <2>3. Finds(m, b, y, l, u, r)
    BY <2>1, <2>2, StrchrIs
  <2>4. CASE r = Null /\ \A i \in 0 .. l : m[b][y + i] # u
    BY <1>8, <1>9, <2>2, <2>4
  <2>5. CASE \E k \in 0 .. l : r = <<b, y + k>> /\ m[b][y + k] = u
    <3>1. PICK k \in 0 .. l : r = <<b, y + k>> /\ m[b][y + k] = u
      BY <2>5
    <3>2. k \in 0 .. l - 1
      BY <1>1, <1>5, <1>11, <3>1
    <3>3. r # Null
      BY <3>1 DEF Null
    <3> QED
      BY <1>7, <2>2, <3>1, <3>2, <3>3
  <2> QED
    BY <2>3, <2>4, <2>5 DEF Finds
<1>12. Skips(m, <<b, y>>) = {0} \cup (Chars \ D)
  BY <1>11 DEF Skips
<1>13. Ends(m, <<b, y>>) = {0} \cup D
  BY <1>10, <1>11 DEF Ends
<1> QED
  BY <1>2, <1>7, <1>10, <1>12, <1>13

LEMMA SpanIs ==
  ASSUME NEW m, Memory(m), NEW b, NEW y, NEW l, Str(m, b, y, l), NEW f, Lists(m, b, y, l, f),
         NEW D, NEW k \in 0 .. l, Hit(m, b, y, {0} \cup (Chars \ D), k)
  PROVE  Span(f, D) = k
<1>1. y \in Nat /\ l \in Nat
  BY DEF Str
<1>2. Len(f) = l /\ \A i \in 1 .. l : f[i] = m[b][y + (i - 1)]
  BY DEF Lists
<1>3. \A i \in 0 .. l : m[b][y + i] \in Chars /\ (m[b][y + i] = 0 <=> i = l)
  BY StrChars
<1>4. /\ m[b][y + k] = 0 \/ m[b][y + k] \notin D
      /\ \A i \in 0 .. k - 1 : m[b][y + i] \notin {0} \cup (Chars \ D)
  BY DEF Hit
<1> DEFINE T == {j \in 0 .. l : \A i \in 1 .. j : f[i] \in D}
<1>5. Span(f, D) = Max(T)
  BY <1>2 DEF Span
<1>6. k \in T
  <2> SUFFICES ASSUME NEW i \in 1 .. k PROVE f[i] \in D
    OBVIOUS
  <2>1. i - 1 \in 0 .. k - 1 /\ i - 1 \in 0 .. l /\ i \in 1 .. l
    BY <1>1
  <2> QED
    BY <1>2, <1>3, <1>4, <2>1
<1>7. \A j \in T : k >= j
  <2> SUFFICES ASSUME NEW j \in T, ~(k >= j) PROVE FALSE
    OBVIOUS
  <2>1. j \in 0 .. l /\ \A i \in 1 .. j : f[i] \in D
    OBVIOUS
  <2>2. k + 1 \in 1 .. j /\ k + 1 \in 1 .. l /\ (k + 1) - 1 = k /\ k # l
    BY <1>1, <2>1
  <2>3. m[b][y + k] \in D
    BY <1>2, <2>1, <2>2
  <2> QED
    BY <1>3, <1>4, <2>2, <2>3
<1>8. T \subseteq Nat
  BY <1>1
<1>9. Max(T) = k
  <2> HIDE DEF T
  <2>1. \A j \in T : (\A i \in T : j >= i) => j = k
    BY <1>6, <1>7, <1>8
  <2> QED
    BY <1>6, <1>7, <2>1 DEF Max
<1> QED
  BY <1>5, <1>9

(* D is the set of the characters of the string of length e at <<c, z>>.   *)
CharsOf(m, c, z, e, D) == D = ToSet(Bytes(m, <<c, z>>, e))

LEMMA SpansAre ==
  ASSUME NEW m, Memory(m), NEW b, NEW y, NEW l, Str(m, b, y, l), NEW f, Lists(m, b, y, l, f),
         NEW c, NEW z, NEW e, Str(m, c, z, e), c # "null", NEW D, CharsOf(m, c, z, e, D)
  PROVE  /\ strspn(m, <<b, y>>, <<c, z>>) = Span(f, D)
         /\ strcspn(m, <<b, y>>, <<c, z>>) = Span(f, Chars \ D)
         /\ strpbrk(m, <<b, y>>, <<c, z>>) = Least(<<b, y>>, Spots(f, D))
<1>1. y \in Nat /\ l \in Nat /\ l \in 0 .. l + 1
  BY DEF Str
<1>2. Lists(m, b, y, l, f) /\ D = ToSet(Bytes(m, <<c, z>>, e))
  BY DEF CharsOf
<1>3. DOMAIN f = 1 .. l /\ \A i \in 1 .. l : f[i] = m[b][y + (i - 1)]
  BY <1>2 DEF Lists, List
<1>4. /\ D \subseteq Chars \ {0} /\ Skips(m, <<c, z>>) = {0} \cup (Chars \ D)
      /\ Ends(m, <<c, z>>) = {0} \cup D
  BY <1>2, CharSet
<1>5. PICK E : E = Chars \ D
  OBVIOUS
<1>6. {0} \cup D = {0} \cup (Chars \ E)
  BY <1>4, <1>5
<1>7. strspn(m, <<b, y>>, <<c, z>>) = Span(f, D)
  <2>1. PICK S : S = {0} \cup (Chars \ D)
    OBVIOUS
  <2>2. PICK k \in 0 .. l : Hit(m, b, y, S, k)
    BY <2>1, HitExists
  <2>3. Distance(m, <<b, y>>, S) = k
    BY <2>2, HitIs
  <2>4. strspn(m, <<b, y>>, <<c, z>>) = k
    BY <1>4, <2>1, <2>3 DEF strspn, Skips
  <2>5. Hit(m, b, y, {0} \cup (Chars \ D), k)
    BY <2>1, <2>2
  <2> QED
    BY <1>2, <2>4, <2>5, SpanIs
<1>8. PICK S : S = {0} \cup D
  OBVIOUS
<1>9. PICK k \in 0 .. l : Hit(m, b, y, S, k)
  BY <1>8, HitExists
<1>10. Distance(m, <<b, y>>, S) = k
  BY <1>9, HitIs
<1>11. strcspn(m, <<b, y>>, <<c, z>>) = Span(f, Chars \ D)
  <2>1. strcspn(m, <<b, y>>, <<c, z>>) = k
    BY <1>4, <1>8, <1>10 DEF strcspn, Ends
  <2>2. Hit(m, b, y, {0} \cup (Chars \ E), k)
    BY <1>6, <1>8, <1>9
  <2> QED
    BY <1>2, <1>5, <2>1, <2>2, SpanIs
<1>12. strpbrk(m, <<b, y>>, <<c, z>>) = IF m[b][y + k] = 0 THEN Null ELSE <<b, y + k>>
  BY <1>4, <1>8, <1>10 DEF strpbrk, Ends, At, Plus
<1>13. PICK T : T = Spots(f, D)
  OBVIOUS
<1>14. T \subseteq Nat /\ \A i : i \in T <=> i \in 1 .. l /\ m[b][y + (i - 1)] \in D
  BY <1>1, <1>3, <1>13 DEF Spots
<1>15. m[b][y + k] \in S /\ \A i \in 0 .. k - 1 : m[b][y + i] \notin S
  BY <1>9 DEF Hit
<1>16. m[b][y + k] = 0 <=> k = l
  BY StrChars
<1>17. \A i \in T : k + 1 <= i
  <2> SUFFICES ASSUME NEW i \in T, ~(k + 1 <= i) PROVE FALSE
    OBVIOUS
  <2>1. i \in 1 .. l /\ m[b][y + (i - 1)] \in D
    BY <1>14
  <2>2. i - 1 \in 0 .. k - 1
    BY <1>1, <2>1
  <2> QED
    BY <1>8, <1>15, <2>1, <2>2
<1>18. ASSUME k = l
       PROVE  strpbrk(m, <<b, y>>, <<c, z>>) = Least(<<b, y>>, Spots(f, D))
  <2>1. \A i \in T : i \in 1 .. l /\ l + 1 <= i
    BY <1>14, <1>17, <1>18
  <2>2. T = {}
    BY <1>1, <2>1
  <2> QED
    BY <1>12, <1>13, <1>16, <1>18, <2>2 DEF Least
<1>19. ASSUME k # l
       PROVE  strpbrk(m, <<b, y>>, <<c, z>>) = Least(<<b, y>>, Spots(f, D))
  <2>1. k + 1 \in 1 .. l /\ (k + 1) - 1 = k /\ k \in Nat
    BY <1>1, <1>19
  <2>2. m[b][y + k] \in D
    BY <1>8, <1>15, <1>16, <1>19
  <2>3. k + 1 \in T
    BY <1>14, <2>1, <2>2
  <2>4. Least(<<b, y>>, T) = <<b, y + k>>
    BY <1>14, <1>17, <2>1, <2>3, LeastIs
  <2> QED
    BY <1>12, <1>13, <1>16, <1>19, <2>4
<1>20. strpbrk(m, <<b, y>>, <<c, z>>) = Least(<<b, y>>, Spots(f, D))
  BY <1>13, <1>18, <1>19
<1> QED
  BY <1>7, <1>11, <1>20

(* Induction from l down.                                                  *)
LEMMA Descent ==
  ASSUME NEW l \in Nat, NEW S, \A i \in 0 .. l : (\A j \in i + 1 .. l : j \in S) => i \in S
  PROVE  0 .. l \subseteq S
<1> SUFFICES ASSUME NEW i \in 0 .. l, i \notin S PROVE FALSE
  OBVIOUS
<1> DEFINE T == {n \in 0 .. l : l - n \notin S}
<1>1. l - i \in 0 .. l /\ l - (l - i) = i
  OBVIOUS
<1>2. T \subseteq Nat /\ l - i \in T
  BY <1>1
<1>3. PICK n \in T : \A k \in T : n <= k
  <2> HIDE DEF T
  <2> QED
    BY <1>2, LeastNumber
<1>4. n \in 0 .. l /\ l - n \in 0 .. l /\ l - n \notin S
  OBVIOUS
<1>5. \A j \in (l - n) + 1 .. l : j \in S
  <2> SUFFICES ASSUME NEW j \in (l - n) + 1 .. l, j \notin S PROVE FALSE
    OBVIOUS
  <2>1. l - j \in 0 .. l /\ l - (l - j) = j /\ ~(n <= l - j)
    BY <1>4
  <2>2. l - j \in T
    BY <2>1
  <2> QED
    BY <1>3, <2>1, <2>2
<1> QED
  BY <1>4, <1>5

(* The search from place i of a string on.                                 *)
FindsFrom(m, b, y, l, i, c, r) ==
  \/ r = Null /\ \A j \in i .. l : m[b][y + j] # c
  \/ \E k \in i .. l : r = <<b, y + k>> /\ m[b][y + k] = c /\ \A j \in i .. k - 1 : m[b][y + j] # c

LEMMA StrchrFrom ==
  ASSUME NEW m, Memory(m), NEW b, NEW y, NEW l, Str(m, b, y, l), NEW c \in Int, NEW i \in 0 .. l
  PROVE  FindsFrom(m, b, y, l, i, c, strchr(m, Plus(<<b, y>>, i), c))
<1>1. y \in Nat /\ l \in Nat
  BY DEF Str
<1>2. PICK x, n : x = y + i /\ n = l - i
  OBVIOUS
<1>3. Str(m, b, x, n)
  BY <1>2, StrSuffix
<1>4. PICK r : r = strchr(m, <<b, x>>, c)
  OBVIOUS
<1>5. Finds(m, b, x, n, c, r)
  BY <1>3, <1>4, StrchrIs
<1>6. Plus(<<b, y>>, i) = <<b, x>>
  BY <1>2 DEF Plus
<1>7. \A j \in i .. l : j - i \in 0 .. n /\ x + (j - i) = y + j
  BY <1>1, <1>2
<1>8. CASE r = Null /\ \A j \in 0 .. n : m[b][x + j] # c
  <2>1. \A j \in i .. l : m[b][y + j] # c
    BY <1>7, <1>8
  <2> QED
    BY <1>4, <1>6, <1>8, <2>1 DEF FindsFrom
<1>9. CASE \E k \in 0 .. n : r = <<b, x + k>> /\ m[b][x + k] = c /\ \A j \in 0 .. k - 1 : m[b][x + j] # c
  <2>1. PICK k \in 0 .. n : r = <<b, x + k>> /\ m[b][x + k] = c /\ \A j \in 0 .. k - 1 : m[b][x + j] # c
    BY <1>9
  <2>2. PICK h : h = i + k
    OBVIOUS
  <2>3. h \in i .. l /\ x + k = y + h
    BY <1>1, <1>2, <2>2
  <2>4. \A j \in i .. h - 1 : m[b][y + j] # c
    <3> SUFFICES ASSUME NEW j \in i .. h - 1 PROVE m[b][y + j] # c
      OBVIOUS
    <3>1. j - i \in 0 .. k - 1 /\ x + (j - i) = y + j
      BY <1>1, <1>2, <2>2
    <3> QED
      BY <2>1, <3>1
  <2> QED
    BY <1>4, <1>6, <2>1, <2>3, <2>4 DEF FindsFrom
<1> QED
  BY <1>5, <1>8, <1>9 DEF Finds

(* What the loop of strrchr finds from place i on, where t is the last     *)
(* place of c, or -1.                                                      *)
(* c is last met after t characters, or never if t is -1.                  *)
LastMet(m, b, y, l, c, t) ==
  /\ t \in -1 .. l /\ (t >= 0 => m[b][y + t] = c)
  /\ \A j \in t + 1 .. l : m[b][y + j] # c

LEMMA StrrchrIs ==
  ASSUME NEW m, Memory(m), NEW b, NEW y, NEW l, Str(m, b, y, l), b # "null", NEW c \in Int, c # 0,
         NEW t, LastMet(m, b, y, l, c, t)
  PROVE  strrchr(m, <<b, y>>, c) = IF t >= 0 THEN <<b, y + t>> ELSE Null
<1>0. t \in -1 .. l /\ (t >= 0 => m[b][y + t] = c) /\ \A j \in t + 1 .. l : m[b][y + j] # c
  BY DEF LastMet
<1>1. y \in Nat /\ l \in Nat /\ m[b][y + l] = 0
  BY DEF Str
<1>2. strlen(m, <<b, y>>) = l
  BY StrlenIs
<1> DEFINE ch(i) == strchr(m, Plus(<<b, y>>, i), c)
           next(i) == ch(i)[2] - <<b, y>>[2] + 1
           Loop(g) == g = [i \in 0 .. l |->
             IF ch(i) = Null THEN Null ELSE IF g[next(i)] = Null THEN ch(i) ELSE g[next(i)]]
           F == [i \in 0 .. l |-> IF i <= t THEN <<b, y + t>> ELSE Null]
           last == CHOOSE g : Loop(g)
<1>3. strrchr(m, <<b, y>>, c) = last[0]
  BY <1>2 DEF strrchr
<1>4. ASSUME NEW i \in 0 .. l
      PROVE  \/ ch(i) = Null /\ t < i
             \/ \E k \in i .. l - 1 : ch(i) = <<b, y + k>> /\ ch(i) # Null /\ next(i) = k + 1 /\ k <= t
  <2>1. FindsFrom(m, b, y, l, i, c, ch(i))
    BY StrchrFrom
  <2>2. PICK r : r = ch(i)
    OBVIOUS
  <2>3. CASE r = Null /\ \A j \in i .. l : m[b][y + j] # c
    <3>1. t < i
      BY <1>0, <1>1, <2>3
    <3> QED
      BY <2>2, <2>3, <3>1
  <2>4. CASE \E k \in i .. l : r = <<b, y + k>> /\ m[b][y + k] = c
    <3>1. PICK k \in i .. l : r = <<b, y + k>> /\ m[b][y + k] = c
      BY <2>4
    <3>2. k # l
      BY <1>1, <3>1
    <3>3. k \in i .. l - 1
      BY <1>1, <3>2
    <3>4. k \notin t + 1 .. l
      BY <1>0, <3>1
    <3>5. k <= t
      BY <1>0, <1>1, <3>3, <3>4
    <3>6. r # Null
      BY <3>1 DEF Null
    <3>7. next(i) = (y + k) - y + 1
      BY <2>2, <3>1
    <3>8. (y + k) - y + 1 = k + 1
      BY <1>1, <3>3
    <3> QED
      BY <2>2, <3>1, <3>3, <3>5, <3>6, <3>7, <3>8
  <2> QED
    BY <2>1, <2>2, <2>3, <2>4 DEF FindsFrom
<1>5. t \in Int /\ <<b, y + t>> # Null
  BY <1>0, <1>1 DEF Null
<1> HIDE DEF ch, next
<1>6. ASSUME NEW i \in 0 .. l
      PROVE  F[i] = IF ch(i) = Null THEN Null ELSE IF F[next(i)] = Null THEN ch(i) ELSE F[next(i)]
  <2>1. CASE ch(i) = Null /\ t < i
    BY <1>5, <2>1
  <2>2. CASE \E k \in i .. l - 1 : ch(i) = <<b, y + k>> /\ ch(i) # Null /\ next(i) = k + 1 /\ k <= t
    <3>1. PICK k \in i .. l - 1 : ch(i) = <<b, y + k>> /\ ch(i) # Null /\ next(i) = k + 1 /\ k <= t
      BY <2>2
    <3>2. k + 1 \in 0 .. l /\ i <= t /\ i \in 0 .. l
      BY <1>1, <1>5, <3>1
    <3>3. F[i] = <<b, y + t>> /\ F[k + 1] = IF k + 1 <= t THEN <<b, y + t>> ELSE Null
      BY <3>2
    <3>4. ~(k + 1 <= t) => k = t
      BY <1>1, <1>5, <3>1
    <3> HIDE DEF F
    <3> QED
      BY <1>5, <3>1, <3>3, <3>4
  <2> QED
    BY <1>4, <2>1, <2>2
<1>7. Loop(F)
  <2>1. F = [i \in 0 .. l |-> F[i]]
    OBVIOUS
  <2> HIDE DEF F
  <2> QED
    BY <1>6, <2>1
<1>8. Loop(last)
  <2> HIDE DEF F, Loop
  <2> QED
    BY <1>7
<1> HIDE DEF last
<1>9. \A i \in 0 .. l : last[i] = IF ch(i) = Null THEN Null ELSE IF last[next(i)] = Null THEN ch(i) ELSE last[next(i)]
  BY <1>8
<1> DEFINE S == {i \in 0 .. l : last[i] = F[i]}
<1>10. ASSUME NEW i \in 0 .. l, \A j \in i + 1 .. l : j \in S PROVE i \in S
  <2> HIDE DEF F
  <2>1. CASE ch(i) = Null
    BY <1>6, <1>9, <2>1
  <2>2. CASE ch(i) # Null
    <3>1. PICK k \in i .. l - 1 : next(i) = k + 1
      BY <1>4, <2>2
    <3>2. next(i) \in i + 1 .. l
      BY <1>1, <3>1
    <3>3. last[next(i)] = F[next(i)]
      BY <1>10, <3>2
    <3> QED
      BY <1>6, <1>9, <2>2, <3>3
  <2> QED
    BY <2>1, <2>2
<1>11. 0 .. l \subseteq S
  <2> HIDE DEF S
  <2> QED
    BY <1>1, <1>10, Descent
<1>12. 0 \in 0 .. l
  BY <1>1
<1>13. last[0] = F[0]
  BY <1>11, <1>12
<1>14. F[0] = IF 0 <= t THEN <<b, y + t>> ELSE Null
  BY <1>12
<1> QED
  BY <1>3, <1>5, <1>13, <1>14

LEMMA StrrchrGreatest ==
  ASSUME NEW m, Memory(m), NEW b, NEW y, NEW l, Str(m, b, y, l), b # "null", NEW c \in Int,
         NEW f, Lists(m, b, y, l + 1, f)
  PROVE  strrchr(m, <<b, y>>, c) = Greatest(<<b, y>>, Spots(f, {c}))
<1>1. y \in Nat /\ l \in Nat /\ m[b][y + l] = 0
  BY DEF Str
<1>2. PICK T : T = Spots(f, {c})
  OBVIOUS
<1>3. DOMAIN f = 1 .. l + 1 /\ \A i \in 1 .. l + 1 : f[i] = m[b][y + (i - 1)]
  BY DEF Lists, List
<1>4. T \subseteq 1 .. l + 1 /\ \A i : i \in T <=> i \in 1 .. l + 1 /\ m[b][y + (i - 1)] = c
  BY <1>2, <1>3 DEF Spots
<1>5. T \subseteq Nat
  BY <1>1, <1>4
<1>6. ASSUME c = 0
      PROVE  strrchr(m, <<b, y>>, c) = Greatest(<<b, y>>, T)
  <2>1. PICK r : r = strchr(m, <<b, y>>, c)
    OBVIOUS
  <2>2. Finds(m, b, y, l, c, r)
    BY <2>1, StrchrIs
  <2>3. l \in 0 .. l
    BY <1>1
  <2>4. PICK k \in 0 .. l : r = <<b, y + k>> /\ m[b][y + k] = c
    BY <1>1, <1>6, <2>2, <2>3 DEF Finds
  <2>5. k = l
    BY <1>6, <2>4, StrChars
  <2>6. l + 1 \in 1 .. l + 1 /\ (l + 1) - 1 = l
    BY <1>1
  <2>7. l + 1 \in T
    BY <1>1, <1>4, <1>6, <2>6
  <2>8. \A i \in T : i <= l + 1
    BY <1>1, <1>4
  <2>9. Greatest(<<b, y>>, T) = <<b, y + l>>
    <3>1. Topmost(T, l)
      BY <1>1, <1>5, <2>7, <2>8 DEF Topmost
    <3> QED
      BY <3>1, GreatestIs
  <2> QED
    BY <1>6, <2>1, <2>4, <2>5, <2>9 DEF strrchr
<1>7. ASSUME c # 0, T = {}
      PROVE  strrchr(m, <<b, y>>, c) = Greatest(<<b, y>>, T)
  <2>1. PICK t \in -1 .. l : t = -1
    BY <1>1
  <2>2. \A j \in t + 1 .. l : m[b][y + j] # c
    <3> SUFFICES ASSUME NEW j \in t + 1 .. l PROVE m[b][y + j] # c
      OBVIOUS
    <3>1. j + 1 \in 1 .. l + 1 /\ (j + 1) - 1 = j
      BY <1>1, <2>1
    <3> QED
      BY <1>4, <1>7, <3>1
  <2>3. ~(t >= 0)
    BY <2>1
  <2>4. strrchr(m, <<b, y>>, c) = IF t >= 0 THEN <<b, y + t>> ELSE Null
    <3>1. LastMet(m, b, y, l, c, t)
      BY <2>2, <2>3 DEF LastMet
    <3> QED
      BY <1>7, <3>1, StrrchrIs
  <2> QED
    BY <1>7, <2>3, <2>4 DEF Greatest
<1>8. ASSUME c # 0, T # {}
      PROVE  strrchr(m, <<b, y>>, c) = Greatest(<<b, y>>, T)
  <2>1. PICK n \in Nat : n = l + 1
    BY <1>1
  <2>2. T \in SUBSET (1 .. n)
    BY <1>4, <2>1
  <2>3. PICK w : w \in T /\ \A i \in T : w >= i
    BY <1>8, <2>2, MaxIs
  <2>4. PICK t : t = w - 1
    OBVIOUS
  <2>5. w \in 1 .. l + 1 /\ m[b][y + (w - 1)] = c
    BY <1>4, <2>3
  <2>6. t \in -1 .. l /\ t \in Nat /\ t + 1 = w /\ t >= 0 /\ m[b][y + t] = c
    BY <1>1, <2>4, <2>5
  <2>7. \A j \in t + 1 .. l : m[b][y + j] # c
    <3> SUFFICES ASSUME NEW j \in t + 1 .. l, m[b][y + j] = c PROVE FALSE
      OBVIOUS
    <3>1. j + 1 \in 1 .. l + 1 /\ (j + 1) - 1 = j /\ ~(w >= j + 1)
      BY <1>1, <2>6
    <3>2. j + 1 \in T
      BY <1>4, <3>1
    <3> QED
      BY <2>3, <3>1, <3>2
  <2>8. strrchr(m, <<b, y>>, c) = IF t >= 0 THEN <<b, y + t>> ELSE Null
    <3>1. LastMet(m, b, y, l, c, t)
      BY <2>6, <2>7 DEF LastMet
    <3> QED
      BY <1>8, <3>1, StrrchrIs
  <2>9. \A i \in T : i <= t + 1
    BY <1>5, <2>3, <2>6
  <2>10. t + 1 \in T
    BY <2>3, <2>6
  <2>11. Greatest(<<b, y>>, T) = <<b, y + t>>
    <3>1. Topmost(T, t)
      BY <1>5, <2>6, <2>9, <2>10 DEF Topmost
    <3> QED
      BY <3>1, GreatestIs
  <2> QED
    BY <2>6, <2>8, <2>11
<1> QED
  BY <1>2, <1>6, <1>7, <1>8

LEMMA SignZero ==
  ASSUME NEW f, NEW k, NEW g, NEW l, List(f, k), Len(f) = k, List(g, l), Len(g) = l
  PROVE  Sign(f, g) = 0 <=> k = l /\ \A i \in 1 .. k : f[i] = g[i]
<1>1. k \in Nat /\ l \in Nat /\ f \in [1 .. k -> Chars] /\ g \in [1 .. l -> Chars]
  BY DEF List
<1> DEFINE T == {d \in 0 .. k : d = k \/ d = l \/ f[d + 1] # g[d + 1]}
<1>2. T \subseteq Nat /\ k \in T
  BY <1>1
<1>3. PICK d \in T : \A i \in T : d <= i
  <2> HIDE DEF T
  <2> QED
    BY <1>2, LeastNumber
<1>4. d \in Nat /\ d <= k /\ (d = k \/ d = l \/ f[d + 1] # g[d + 1])
  BY <1>1
<1>5. \A i \in 0 .. d - 1 : i # l /\ f[i + 1] = g[i + 1]
  <2> SUFFICES ASSUME NEW i \in 0 .. d - 1 PROVE i # l /\ f[i + 1] = g[i + 1]
    OBVIOUS
  <2>1. i \in 0 .. k /\ ~(d <= i)
    BY <1>1, <1>4
  <2>2. i \notin T
    BY <1>3, <2>1
  <2> QED
    BY <2>1, <2>2
<1>6. d <= l
  <2>1. l \notin 0 .. d - 1
    BY <1>5
  <2> QED
    BY <1>1, <1>4, <2>1
<1>7. \A i \in 1 .. d : f[i] = g[i]
  <2> SUFFICES ASSUME NEW i \in 1 .. d PROVE f[i] = g[i]
    OBVIOUS
  <2>1. i - 1 \in 0 .. d - 1 /\ (i - 1) + 1 = i
    BY <1>4
  <2> QED
    BY <1>5, <2>1
<1>8. Agrees(f, k, g, l, d)
  BY <1>4, <1>6, <1>7 DEF Agrees
<1>9. ASSUME d < k, d < l
      PROVE  Sign(f, g) # 0 /\ ~(\A i \in 1 .. k : f[i] = g[i])
  <2>1. PICK u, v : u = f[d + 1] /\ v = g[d + 1]
    OBVIOUS
  <2>2. d + 1 \in 1 .. k /\ d + 1 \in 1 .. l
    BY <1>1, <1>4, <1>9
  <2>3. u # v /\ u \in Chars /\ v \in Chars
    BY <1>1, <1>4, <1>9, <2>1, <2>2
  <2>4. Sign(f, g) = Order(u, v)
    BY <1>8, <1>9, <2>1, <2>3, SignIs
  <2>5. uchar(u) \in Int /\ uchar(v) \in Int /\ uchar(u) # uchar(v)
    BY <2>3, OrderFacts
  <2>6. Order(u, v) # 0
    BY <2>5 DEF Order
  <2> QED
    BY <2>1, <2>2, <2>3, <2>4, <2>6
<1>10. ASSUME d = k, d = l PROVE Sign(f, g) = 0
  BY <1>8, <1>10, SignIs
<1>11. ASSUME d = k, d < l PROVE Sign(f, g) # 0
  BY <1>8, <1>11, SignIs
<1>12. ASSUME d < k, d = l PROVE Sign(f, g) # 0
  BY <1>8, <1>12, SignIs
<1> QED
  BY <1>1, <1>4, <1>6, <1>7, <1>9, <1>10, <1>11, <1>12

(* Where a string of e characters is found in one of l.                    *)
Matches(m, b, y, l, c, z, e) ==
  {j \in 0 .. l : j + e <= l /\ \A i \in 0 .. e - 1 : m[b][y + (j + i)] = m[c][z + i]}

LEMMA NeedleIs ==
  ASSUME NEW m, Memory(m), NEW b, NEW y, NEW l, Str(m, b, y, l), NEW c, NEW z, NEW e, Str(m, c, z, e),
         NEW j \in 0 .. l
  PROVE  strncmp(m, <<b, y + j>>, <<c, z>>, e) = 0 <=> j \in Matches(m, b, y, l, c, z, e)
<1>1. y \in Nat /\ l \in Nat /\ z \in Nat /\ e \in Nat
  BY DEF Str
<1>2. PICK x, n : x = y + j /\ n = l - j
  OBVIOUS
<1>3. Str(m, b, x, n)
  BY <1>2, StrSuffix
<1>4. PICK h : h = Shorter(n, e)
  OBVIOUS
<1>5. n \in Nat /\ h \in 0 .. n + 1 /\ e \in 0 .. e + 1 /\ h = (IF n < e THEN n ELSE e) /\ Shorter(e, e) = e
  BY <1>1, <1>2, <1>4 DEF Shorter
<1>6. PICK f, g : f = Bytes(m, <<b, x>>, h) /\ g = Bytes(m, <<c, z>>, e)
  OBVIOUS
<1>7. strncmp(m, <<b, x>>, <<c, z>>, e) = Sign(f, g)
  <2>1. e \in Nat
    BY <1>1
  <2>2. strncmp(m, <<b, x>>, <<c, z>>, e)
          = Sign(Bytes(m, <<b, x>>, Shorter(n, e)), Bytes(m, <<c, z>>, Shorter(e, e)))
    BY <1>3, <2>1, StrncmpIs
  <2> QED
    BY <1>4, <1>5, <1>6, <2>2
<1>8. Lists(m, b, x, h, f) /\ Lists(m, c, z, e, g)
  BY <1>3, <1>5, <1>6, StrBytes
<1>9. /\ List(f, h) /\ Len(f) = h /\ \A i \in 1 .. h : f[i] = m[b][x + (i - 1)]
      /\ List(g, e) /\ Len(g) = e /\ \A i \in 1 .. e : g[i] = m[c][z + (i - 1)]
  BY <1>8 DEF Lists
<1>10. Sign(f, g) = 0 <=> h = e /\ \A i \in 1 .. h : f[i] = g[i]
  BY <1>9, SignZero
<1>11. h = e <=> j + e <= l
  BY <1>1, <1>2, <1>5
<1>12. ASSUME h = e
       PROVE  (\A i \in 1 .. h : f[i] = g[i]) <=> \A i \in 0 .. e - 1 : m[b][y + (j + i)] = m[c][z + i]
  <2>1. ASSUME \A i \in 1 .. h : f[i] = g[i], NEW i \in 0 .. e - 1
        PROVE  m[b][y + (j + i)] = m[c][z + i]
    <3>1. i + 1 \in 1 .. h /\ i + 1 \in 1 .. e /\ (i + 1) - 1 = i /\ x + i = y + (j + i)
      BY <1>1, <1>2, <1>12
    <3> QED
      BY <1>9, <2>1, <3>1
  <2>2. ASSUME \A i \in 0 .. e - 1 : m[b][y + (j + i)] = m[c][z + i], NEW i \in 1 .. h
        PROVE  f[i] = g[i]
    <3>1. i - 1 \in 0 .. e - 1 /\ i \in 1 .. e /\ x + (i - 1) = y + (j + (i - 1))
      BY <1>1, <1>2, <1>12
    <3> QED
      BY <1>9, <2>2, <3>1
  <2> QED
    BY <2>1, <2>2
<1>13. Sign(f, g) = 0 <=> j \in Matches(m, b, y, l, c, z, e)
  BY <1>10, <1>11, <1>12 DEF Matches
<1> QED
  BY <1>2, <1>7, <1>13

(* r is the first place of M from i on.                                    *)
FirstOf(M, b, y, i, r) ==
  \/ r = Null /\ \A j \in M : ~(i <= j)
  \/ \E k \in M : r = <<b, y + k>> /\ i <= k /\ \A j \in M : i <= j => k <= j

LEMMA FirstOfIs ==
  ASSUME NEW M, M \subseteq Nat, NEW b, b # "null", NEW y \in Nat, NEW i \in Nat
  PROVE  /\ \E r : FirstOf(M, b, y, i, r)
         /\ \A r, s : FirstOf(M, b, y, i, r) /\ FirstOf(M, b, y, i, s) => r = s
<1>1. \E r : FirstOf(M, b, y, i, r)
  <2>1. CASE \A j \in M : ~(i <= j)
    BY <2>1 DEF FirstOf
  <2>2. CASE ~\A j \in M : ~(i <= j)
    <3> DEFINE T == {j \in M : i <= j}
    <3>1. T \subseteq Nat /\ T # {}
      BY <2>2
    <3>2. PICK k \in T : \A j \in T : k <= j
      <4> HIDE DEF T
      <4> QED
        BY <3>1, LeastNumber
    <3>3. k \in M /\ i <= k /\ \A j \in M : i <= j => k <= j
      BY <3>2
    <3> QED
      BY <3>3 DEF FirstOf
  <2> QED
    BY <2>1, <2>2
<1>2. ASSUME NEW r, NEW s, FirstOf(M, b, y, i, r), FirstOf(M, b, y, i, s) PROVE r = s
  <2>1. CASE \A j \in M : ~(i <= j)
    BY <1>2, <2>1 DEF FirstOf
  <2>2. CASE ~\A j \in M : ~(i <= j)
    <3>1. PICK k \in M : r = <<b, y + k>> /\ i <= k /\ \A j \in M : i <= j => k <= j
      BY <1>2, <2>2 DEF FirstOf
    <3>2. PICK n \in M : s = <<b, y + n>> /\ i <= n /\ \A j \in M : i <= j => n <= j
      BY <1>2, <2>2 DEF FirstOf
    <3>3. k \in Nat /\ n \in Nat /\ k <= n /\ n <= k
      BY <3>1, <3>2
    <3>4. k = n
      BY <3>3
    <3> QED
      BY <3>1, <3>2, <3>4
  <2> QED
    BY <2>1, <2>2
<1> QED
  BY <1>1, <1>2

LEMMA StrstrIs ==
  ASSUME NEW m, Memory(m), NEW b, NEW y, NEW l, Str(m, b, y, l), b # "null",
         NEW c, NEW z, NEW e, Str(m, c, z, e), e > 0
  PROVE  FirstOf(Matches(m, b, y, l, c, z, e), b, y, 0, strstr(m, <<b, y>>, <<c, z>>))
<1>1. y \in Nat /\ l \in Nat /\ m[b][y + l] = 0 /\ z \in Nat /\ e \in Nat
  BY DEF Str
<1>2. strlen(m, <<b, y>>) = l /\ strlen(m, <<c, z>>) = e
  BY StrlenIs
<1>3. PICK u : u = m[c][z]
  OBVIOUS
<1>4. u \in Chars /\ u # 0 /\ u \in Int
  <2>1. 0 \in 0 .. e /\ 0 # e /\ z + 0 = z
    BY <1>1
  <2>2. m[c][z + 0] \in Chars /\ (m[c][z + 0] = 0 <=> 0 = e)
    BY <2>1, StrChars
  <2>3. u \in Chars /\ u # 0
    BY <1>3, <2>1, <2>2
  <2> QED
    BY <2>3, CharFacts
<1>5. PICK M : M = Matches(m, b, y, l, c, z, e)
  OBVIOUS
<1>6. M \subseteq Nat /\ \A j \in M : j \in 0 .. l /\ m[b][y + j] = u
  <2> SUFFICES ASSUME NEW j \in M PROVE j \in Nat /\ j \in 0 .. l /\ m[b][y + j] = u
    OBVIOUS
  <2>1. j \in 0 .. l /\ \A i \in 0 .. e - 1 : m[b][y + (j + i)] = m[c][z + i]
    BY <1>5 DEF Matches
  <2>2. 0 \in 0 .. e - 1 /\ j + 0 = j /\ z + 0 = z
    BY <1>1, <2>1
  <2>3. m[b][y + (j + 0)] = m[c][z + 0]
    BY <2>1, <2>2
  <2> QED
    BY <1>1, <1>3, <2>1, <2>2, <2>3
<1> DEFINE ch(i) == strchr(m, Plus(<<b, y>>, i), u)
           stops(i) == ch(i) = Null \/ strncmp(m, ch(i), <<c, z>>, e) = 0
           next(i) == ch(i)[2] - <<b, y>>[2] + 1
           Loop(g) == g = [i \in 0 .. l |-> IF stops(i) THEN ch(i) ELSE g[next(i)]]
           F == [i \in 0 .. l |-> CHOOSE r : FirstOf(M, b, y, i, r)]
           from == CHOOSE g : Loop(g)
<1>7. strstr(m, <<b, y>>, <<c, z>>) = from[0]
  <2>1. At(m, <<c, z>>) = u
    BY <1>3 DEF At
  <2> QED
    BY <1>2, <1>4, <2>1 DEF strstr
<1>8. ASSUME NEW i \in 0 .. l
      PROVE  \/ ch(i) = Null /\ \A j \in M : ~(i <= j)
             \/ \E k \in i .. l - 1 :
                  /\ ch(i) = <<b, y + k>> /\ ch(i) # Null /\ next(i) = k + 1
                  /\ stops(i) <=> k \in M
                  /\ \A j \in M : i <= j => k <= j
  <2>1. FindsFrom(m, b, y, l, i, u, ch(i))
    BY <1>4, StrchrFrom
  <2>2. PICK r : r = ch(i)
    OBVIOUS
  <2>3. CASE r = Null /\ \A j \in i .. l : m[b][y + j] # u
    <3>1. \A j \in M : ~(i <= j)
      BY <1>1, <1>6, <2>3
    <3> QED
      BY <2>2, <2>3, <3>1
  <2>4. CASE \E k \in i .. l : r = <<b, y + k>> /\ m[b][y + k] = u /\ \A j \in i .. k - 1 : m[b][y + j] # u
    <3>1. PICK k \in i .. l : r = <<b, y + k>> /\ m[b][y + k] = u /\ \A j \in i .. k - 1 : m[b][y + j] # u
      BY <2>4
    <3>2. k # l
      BY <1>1, <1>4, <3>1
    <3>3. k \in i .. l - 1 /\ k \in 0 .. l /\ k \in Nat
      BY <1>1, <3>2
    <3>4. r # Null
      BY <3>1 DEF Null
    <3>5. strncmp(m, r, <<c, z>>, e) = 0 <=> k \in M
      BY <1>5, <3>1, <3>3, NeedleIs
    <3>6. next(i) = (y + k) - y + 1
      BY <2>2, <3>1
    <3>7. (y + k) - y + 1 = k + 1
      BY <1>1, <3>3
    <3>8. \A j \in M : i <= j => k <= j
      <4> SUFFICES ASSUME NEW j \in M, i <= j, ~(k <= j) PROVE FALSE
        OBVIOUS
      <4>1. j \in 0 .. l /\ m[b][y + j] = u
        BY <1>6
      <4>2. j \in i .. k - 1
        BY <3>3, <4>1
      <4> QED
        BY <3>1, <4>1, <4>2
    <3> QED
      BY <2>2, <3>1, <3>3, <3>4, <3>5, <3>6, <3>7, <3>8
  <2> QED
    BY <2>1, <2>2, <2>3, <2>4 DEF FindsFrom
<1> HIDE DEF next, ch
<1>9. \A i \in 0 .. l : i \in Nat
  BY <1>1
<1>10. \A i \in 0 .. l : FirstOf(M, b, y, i, F[i])
  <2> SUFFICES ASSUME NEW i \in 0 .. l PROVE FirstOf(M, b, y, i, F[i])
    OBVIOUS
  <2>1. \E r : FirstOf(M, b, y, i, r)
    BY <1>1, <1>6, <1>9, FirstOfIs
  <2>2. FirstOf(M, b, y, i, CHOOSE r : FirstOf(M, b, y, i, r))
    BY <2>1
  <2> QED
    BY <2>2
<1>11. F = [i \in 0 .. l |-> F[i]]
  OBVIOUS
<1> HIDE DEF F
<1>12. ASSUME NEW i \in 0 .. l
       PROVE  F[i] = IF stops(i) THEN ch(i) ELSE F[next(i)]
  <2>1. CASE ch(i) = Null /\ \A j \in M : ~(i <= j)
    <3>1. FirstOf(M, b, y, i, F[i])
      BY <1>10
    <3> QED
      BY <2>1, <3>1 DEF FirstOf
  <2>2. CASE \E k \in i .. l - 1 :
               /\ ch(i) = <<b, y + k>> /\ ch(i) # Null /\ next(i) = k + 1
               /\ stops(i) <=> k \in M
               /\ \A j \in M : i <= j => k <= j
    <3>1. PICK k \in i .. l - 1 :
               /\ ch(i) = <<b, y + k>> /\ ch(i) # Null /\ next(i) = k + 1
               /\ stops(i) <=> k \in M
               /\ \A j \in M : i <= j => k <= j
      BY <2>2
    <3>2. k \in Nat /\ k + 1 \in 0 .. l /\ i <= k /\ i \in Nat
      BY <1>1
    <3>3. FirstOf(M, b, y, i, F[i])
      BY <1>10
    <3>4. CASE k \in M
      <4>1. FirstOf(M, b, y, i, ch(i))
        BY <3>1, <3>2, <3>4 DEF FirstOf
      <4>2. F[i] = ch(i)
        BY <1>1, <1>6, <3>2, <3>3, <4>1, FirstOfIs
      <4> QED
        BY <3>1, <3>4, <4>2
    <3>5. CASE k \notin M
      <4>1. FirstOf(M, b, y, k + 1, F[k + 1])
        BY <1>10, <3>2
      <4>2. \A j \in M : j \in Nat /\ (i <= j <=> k + 1 <= j)
        BY <1>6, <3>1, <3>2, <3>5
      <4>3. FirstOf(M, b, y, i, F[k + 1])
        BY <4>1, <4>2 DEF FirstOf
      <4>4. F[i] = F[k + 1]
        BY <1>1, <1>6, <3>2, <3>3, <4>3, FirstOfIs
      <4> QED
        BY <3>1, <3>5, <4>4
    <3> QED
      BY <3>4, <3>5
  <2> QED
    BY <1>8, <2>1, <2>2
<1>13. Loop(F)
  <2> HIDE DEF stops
  <2> QED
    BY <1>11, <1>12
<1>14. Loop(from)
  <2> HIDE DEF Loop
  <2> QED
    BY <1>13
<1> HIDE DEF from
<1>15. \A i \in 0 .. l : from[i] = IF stops(i) THEN ch(i) ELSE from[next(i)]
  <2> HIDE DEF stops
  <2> QED
    BY <1>14
<1> DEFINE S == {i \in 0 .. l : from[i] = F[i]}
<1>16. ASSUME NEW i \in 0 .. l, \A j \in i + 1 .. l : j \in S PROVE i \in S
  <2>1. CASE stops(i)
    <3> HIDE DEF stops
    <3> QED
      BY <1>12, <1>15, <2>1
  <2>2. CASE ~stops(i)
    <3>1. PICK k \in i .. l - 1 : next(i) = k + 1
      BY <1>8, <2>2
    <3>2. next(i) \in i + 1 .. l
      BY <1>1, <3>1
    <3>3. from[next(i)] = F[next(i)]
      BY <1>16, <3>2
    <3> HIDE DEF stops
    <3> QED
      BY <1>12, <1>15, <2>2, <3>3
  <2> QED
    BY <2>1, <2>2
<1>17. 0 .. l \subseteq S
  <2> HIDE DEF S
  <2> QED
    BY <1>1, <1>16, Descent
<1>18. 0 \in 0 .. l
  BY <1>1
<1>19. from[0] = F[0]
  BY <1>17, <1>18
<1> QED
  BY <1>5, <1>7, <1>10, <1>18, <1>19

LEMMA IsPrefixIs ==
  ASSUME NEW A, NEW t \in Seq(A), NEW s \in Seq(A), NEW i \in 1 .. Len(s)
  PROVE  IsPrefix(t, SubSeq(s, i, Len(s))) <=>
           i + Len(t) <= Len(s) + 1 /\ \A n \in 1 .. Len(t) : t[n] = s[i + (n - 1)]
<1>1. PICK u, k, e : u = SubSeq(s, i, k) /\ k = Len(s) /\ e = Len(t)
  OBVIOUS
<1>2. k \in Nat /\ e \in Nat /\ i \in 1 .. k
  BY <1>1
<1>3. /\ u \in Seq(A) /\ Len(u) = (k - i) + 1
      /\ \A n \in 1 .. (k - i) + 1 : u[n] = s[i + (n - 1)]
  <2>1. \A n \in 1 .. (k - i) + 1 : i + (n - 1) = i + n - 1 /\ i + (n - 1) \in 1 .. k
    BY <1>2
  <2>2. u \in Seq(A) /\ Len(u) = (k - i) + 1 /\ \A n \in 1 .. (k - i) + 1 : u[n] = s[i + n - 1]
    BY <1>1, <1>2
  <2> QED
    BY <2>1, <2>2
<1>4. e <= Len(u) <=> i + e <= k + 1
  BY <1>2, <1>3
<1>5. SubSeq(t, 1, e) = t
  BY <1>1
<1>6. ASSUME e <= Len(u)
      PROVE  SubSeq(t, 1, e) = SubSeq(u, 1, e) <=> \A n \in 1 .. e : t[n] = s[i + (n - 1)]
  <2>1. \A n \in 1 .. e : n \in 1 .. (k - i) + 1
    BY <1>2, <1>3, <1>6
  <2>2. PICK v : v = SubSeq(u, 1, e)
    OBVIOUS
  <2>3. v \in Seq(A) /\ Len(v) = e /\ \A n \in 1 .. e : v[n] = u[n]
    BY <1>2, <1>3, <1>6, <2>2
  <2>4. \A n \in 1 .. e : v[n] = s[i + (n - 1)]
    BY <1>3, <2>1, <2>3
  <2>5. t = v <=> \A n \in 1 .. e : t[n] = v[n]
    <3>1. PICK N : N = 1 .. e
      OBVIOUS
    <3>2. t \in [N -> A] /\ v \in [N -> A]
      BY <1>1, <2>3, <3>1, SeqFunction
    <3>3. (\A n \in N : t[n] = v[n]) => t = v
      BY <3>2, SameFunction
    <3> QED
      BY <3>1, <3>3
  <2> QED
    BY <1>5, <2>2, <2>4, <2>5
<1> QED
  BY <1>1, <1>4, <1>6 DEF IsPrefix

(* Where t occurs in s.                                                    *)
Occurs(s, t) == {i \in DOMAIN s : IsPrefix(t, SubSeq(s, i, Len(s)))}

LEMMA StrstrLeast ==
  ASSUME NEW m, Memory(m), NEW b, NEW y, NEW l, Str(m, b, y, l), b # "null",
         NEW c, NEW z, NEW e, Str(m, c, z, e),
         NEW f, Lists(m, b, y, l + 1, f), NEW g, Lists(m, c, z, e, g)
  PROVE  strstr(m, <<b, y>>, <<c, z>>) = Least(<<b, y>>, Occurs(f, g))
<1>1. y \in Nat /\ l \in Nat /\ m[b][y + l] = 0 /\ z \in Nat /\ e \in Nat /\ m[c][z + e] = 0
  BY DEF Str
<1>2. /\ f \in Seq(Chars) /\ Len(f) = l + 1 /\ \A i \in 1 .. l + 1 : f[i] = m[b][y + (i - 1)]
      /\ g \in Seq(Chars) /\ Len(g) = e /\ \A i \in 1 .. e : g[i] = m[c][z + (i - 1)]
  BY DEF Lists
<1>3. DOMAIN f = 1 .. l + 1
  BY <1>2
<1>4. PICK T : T = Occurs(f, g)
  OBVIOUS
<1>5. \A i : i \in T <=> i \in 1 .. l + 1 /\ i + e <= l + 2 /\ \A n \in 1 .. e : g[n] = f[i + (n - 1)]
  <2>1. \A i \in 1 .. l + 1 : IsPrefix(g, SubSeq(f, i, Len(f))) <=>
          i + Len(g) <= Len(f) + 1 /\ \A n \in 1 .. Len(g) : g[n] = f[i + (n - 1)]
    <3>1. f \in Seq(Chars) /\ g \in Seq(Chars) /\ \A i \in 1 .. l + 1 : i \in 1 .. Len(f)
      BY <1>2
    <3> SUFFICES ASSUME NEW i \in 1 .. l + 1
                 PROVE  IsPrefix(g, SubSeq(f, i, Len(f))) <=>
                          i + Len(g) <= Len(f) + 1 /\ \A n \in 1 .. Len(g) : g[n] = f[i + (n - 1)]
      OBVIOUS
    <3>2. i \in 1 .. Len(f)
      BY <3>1
    <3> QED
      BY <3>1, <3>2, IsPrefixIs, Zenon
  <2>2. (l + 1) + 1 = l + 2
    BY <1>1
  <2>3. \A i \in 1 .. l + 1 : IsPrefix(g, SubSeq(f, i, Len(f))) <=>
          i + e <= l + 2 /\ \A n \in 1 .. e : g[n] = f[i + (n - 1)]
    BY <1>2, <2>1, <2>2
  <2> QED
    BY <1>3, <1>4, <2>3 DEF Occurs
<1>6. T \subseteq Nat
  BY <1>1, <1>5
<1>7. ASSUME e = 0 PROVE strstr(m, <<b, y>>, <<c, z>>) = Least(<<b, y>>, T)
  <2>1. PICK k \in Nat : k = 0
    OBVIOUS
  <2>2. k + 1 \in T /\ \A i \in T : k + 1 <= i
    BY <1>1, <1>5, <1>7, <2>1
  <2>5. Least(<<b, y>>, T) = <<b, y + k>>
    BY <1>6, <2>2, LeastIs
  <2>3. Least(<<b, y>>, T) = <<b, y + k>> /\ y + k = y
    BY <1>1, <2>1, <2>5
  <2>4. m[c][z] = 0
    BY <1>1, <1>7
  <2> QED
    BY <2>3, <2>4 DEF strstr, At
<1>8. ASSUME e > 0 PROVE strstr(m, <<b, y>>, <<c, z>>) = Least(<<b, y>>, T)
  <2>1. PICK M, r : M = Matches(m, b, y, l, c, z, e) /\ r = strstr(m, <<b, y>>, <<c, z>>)
    OBVIOUS
  <2>2. FirstOf(M, b, y, 0, r)
    BY <1>8, <2>1, StrstrIs
  <2>3. \A j : j \in M <=> /\ j \in 0 .. l /\ j + e <= l
                           /\ \A i \in 0 .. e - 1 : m[b][y + (j + i)] = m[c][z + i]
    BY <2>1 DEF Matches
  <2>4. ASSUME NEW j \in 0 .. l PROVE j \in M <=> j + 1 \in T
    <3>1. j + 1 \in 1 .. l + 1
      BY <1>1
    <3>2. ASSUME j \in M PROVE j + 1 \in T
      <4>1. (j + 1) + e <= l + 2
        BY <1>1, <2>3, <3>2
      <4>2. \A n \in 1 .. e : g[n] = f[(j + 1) + (n - 1)]
        <5> SUFFICES ASSUME NEW n \in 1 .. e PROVE g[n] = f[(j + 1) + (n - 1)]
          OBVIOUS
        <5>1. n - 1 \in 0 .. e - 1 /\ (j + 1) + (n - 1) \in 1 .. l + 1 /\ ((j + 1) + (n - 1)) - 1 = j + (n - 1)
          BY <1>1, <2>3, <3>2
        <5>2. f[(j + 1) + (n - 1)] = m[b][y + (j + (n - 1))]
          BY <1>2, <5>1
        <5> QED
          BY <1>2, <2>3, <3>2, <5>1, <5>2
      <4> QED
        BY <1>5, <3>1, <4>1, <4>2
    <3>3. ASSUME j + 1 \in T PROVE j \in M
      <4>1. (j + 1) + e <= l + 2 /\ \A n \in 1 .. e : g[n] = f[(j + 1) + (n - 1)]
        BY <1>5, <3>3
      <4>2. \A i \in 0 .. e - 1 : m[b][y + (j + i)] = m[c][z + i]
        <5> SUFFICES ASSUME NEW i \in 0 .. e - 1 PROVE m[b][y + (j + i)] = m[c][z + i]
          OBVIOUS
        <5>1. /\ i + 1 \in 1 .. e /\ (i + 1) - 1 = i /\ (j + 1) + i \in 1 .. l + 1
              /\ ((j + 1) + i) - 1 = j + i
          BY <1>1, <4>1
        <5>2. g[i + 1] = f[(j + 1) + i]
          BY <4>1, <5>1
        <5> QED
          BY <1>2, <5>1, <5>2
      <4>3. j + e <= l
        <5> SUFFICES ASSUME ~(j + e <= l) PROVE FALSE
          OBVIOUS
        <5>1. PICK i : i = l - j
          OBVIOUS
        <5>2. i \in 0 .. e - 1 /\ j + i = l /\ i \in 0 .. e /\ i # e
          BY <1>1, <1>8, <4>1, <5>1
        <5>3. m[c][z + i] = 0
          BY <1>1, <4>2, <5>2
        <5> QED
          BY <5>2, <5>3, StrChars
      <4> QED
        BY <2>3, <4>2, <4>3
    <3> QED
      BY <3>2, <3>3
  <2>5. CASE r = Null /\ \A j \in M : ~(0 <= j)
    <3>1. M = {}
      BY <2>3, <2>5
    <3>2. \A i \in T : i - 1 \in 0 .. l /\ (i - 1) + 1 = i
      BY <1>1, <1>5
    <3>3. T = {}
      BY <2>4, <3>1, <3>2
    <3> QED
      BY <2>1, <2>5, <3>3 DEF Least
  <2>6. CASE \E k \in M : r = <<b, y + k>> /\ \A j \in M : 0 <= j => k <= j
    <3>1. PICK k \in M : r = <<b, y + k>> /\ \A j \in M : 0 <= j => k <= j
      BY <2>6
    <3>2. k \in 0 .. l /\ k \in Nat /\ k + 1 \in T
      BY <1>1, <2>3, <2>4
    <3>3. \A i \in T : k + 1 <= i
      <4> SUFFICES ASSUME NEW i \in T PROVE k + 1 <= i
        OBVIOUS
      <4>1. i - 1 \in 0 .. l /\ (i - 1) + 1 = i
        BY <1>1, <1>5
      <4>2. i - 1 \in M
        BY <2>4, <4>1
      <4> QED
        BY <3>1, <3>2, <4>1, <4>2
    <3>4. Least(<<b, y>>, T) = <<b, y + k>>
      BY <1>6, <3>2, <3>3, LeastIs
    <3> QED
      BY <2>1, <3>1, <3>4
  <2> QED
    BY <2>2, <2>5, <2>6 DEF FirstOf
<1> QED
  BY <1>1, <1>4, <1>7, <1>8

LEMMA SearchesHold == MemInv => SearchesAgree
<1> SUFFICES ASSUME MemInv, NEW p \in StringPointers
             PROVE  LET s == StringAt(mem, p)
                        all == Append(s, 0)
                    IN /\ \A c \in Chars :
                            /\ strchr(mem, p, c) = Least(p, {i \in DOMAIN all : all[i] = c})
                            /\ strrchr(mem, p, c) = Greatest(p, {i \in DOMAIN all : all[i] = c})
                       /\ \A c \in IntArgs, n \in 0..Room(p) :
                            memchr(mem, p, c, n) = Least(p, {i \in 1..n : char(c) = Bytes(mem, p, n)[i]})
                       /\ \A q \in StringPointers :
                            LET t == StringAt(mem, q)
                                D == ToSet(t)
                            IN /\ strspn(mem, p, q) = Span(s, D)
                               /\ strcspn(mem, p, q) = Span(s, Chars \ D)
                               /\ strpbrk(mem, p, q) = Least(p, {i \in DOMAIN s : s[i] \in D})
                               /\ strstr(mem, p, q) =
                                    Least(p, {i \in DOMAIN all : IsPrefix(t, SubSeq(all, i, Len(all)))})
  BY DEF SearchesAgree
<1>1. Memory(mem) /\ Buffers \cup {"literal"} \subseteq DOMAIN mem
  BY DEF MemInv
<1>2. ASSUME NEW q \in StringPointers
      PROVE  \E b, y, l : /\ q = <<b, y>> /\ Place(q, b, y) /\ Str(mem, b, y, l) /\ b # "null"
                          /\ StringAt(mem, q) = Bytes(mem, <<b, y>>, l)
  <2>1. q \in Pointers(Buffers \cup {"literal"}) /\ IsString(q)
    BY DEF StringPointers, Readable
  <2>2. PICK b \in Buffers \cup {"literal"}, y \in Nat : Place(q, b, y)
    BY <1>1, <2>1, PlaceIs
  <2>3. b # "null"
    BY BufferAssumption
  <2>4. PICK l : Str(mem, b, y, l)
    BY <2>1, <2>2, PlaceFacts
  <2>5. StringAt(mem, q) = Bytes(mem, <<b, y>>, l)
    BY <2>2, <2>4, PlaceFacts
  <2>6. q = <<b, y>>
    BY <2>2 DEF Place
  <2> QED
    BY <2>2, <2>3, <2>4, <2>5, <2>6
<1>3. PICK b, y, l : /\ p = <<b, y>> /\ Place(p, b, y) /\ Str(mem, b, y, l) /\ b # "null"
                     /\ StringAt(mem, p) = Bytes(mem, <<b, y>>, l)
  BY <1>2
<1> DEFINE s == StringAt(mem, p)
           all == Append(s, 0)
<1>4. s = StringAt(mem, p) /\ all = Append(s, 0)
  OBVIOUS
<1> HIDE DEF s, all
<1>5. s = Bytes(mem, <<b, y>>, l) /\ Lists(mem, b, y, l, s) /\ Lists(mem, b, y, l + 1, all)
  <2>1. Memory(mem)
    BY <1>1
  <2>2. Str(mem, b, y, l)
    BY <1>3
  <2>3. /\ Append(Bytes(mem, <<b, y>>, l), 0) = Bytes(mem, <<b, y>>, l + 1)
        /\ Lists(mem, b, y, l, Bytes(mem, <<b, y>>, l))
        /\ Lists(mem, b, y, l + 1, Bytes(mem, <<b, y>>, l + 1))
    BY <2>1, <2>2, WholeIs
  <2>4. s = Bytes(mem, <<b, y>>, l)
    BY <1>3, <1>4
  <2>5. all = Bytes(mem, <<b, y>>, l + 1)
    BY <1>4, <2>3, <2>4
  <2> QED
    BY <2>3, <2>4, <2>5
<1>6. ASSUME NEW c \in Chars
      PROVE  /\ strchr(mem, p, c) = Least(p, {i \in DOMAIN all : all[i] = c})
             /\ strrchr(mem, p, c) = Greatest(p, {i \in DOMAIN all : all[i] = c})
  <2>1. c \in Int
    BY CharFacts
  <2>2. {i \in DOMAIN all : all[i] = c} = Spots(all, {c})
    BY DEF Spots
  <2>3. strchr(mem, <<b, y>>, c) = Least(<<b, y>>, Spots(all, {c}))
    BY <1>1, <1>3, <1>5, <2>1, StrchrLeast
  <2>4. strrchr(mem, <<b, y>>, c) = Greatest(<<b, y>>, Spots(all, {c}))
    BY <1>1, <1>3, <1>5, <2>1, StrrchrGreatest
  <2> QED
    BY <1>3, <2>2, <2>3, <2>4
<1>8. ASSUME NEW c \in IntArgs, NEW n \in 0 .. Room(p)
      PROVE  memchr(mem, p, c, n) = Least(p, {i \in 1..n : char(c) = Bytes(mem, p, n)[i]})
  <2>1. Room(p) = Extent(mem, b) - y
    BY <1>3, PlaceFacts
  <2>2. Room(p) \in Nat
    BY <1>3, <2>1 DEF Place
  <2>3. n \in Nat /\ n <= Room(p)
    BY <2>2
  <2>4. Within(mem, b, y, n)
    BY <1>3, <2>3, PlaceFacts
  <2>5. PICK f : f = Bytes(mem, p, n)
    OBVIOUS
  <2>6. Lists(mem, b, y, n, f)
    BY <1>1, <1>3, <2>4, <2>5, BytesIs
  <2>7. memchr(mem, <<b, y>>, c, n) = Least(<<b, y>>, Spots(f, {char(c)}))
    BY <1>1, <2>4, <2>6, MemchrIs
  <2>8. DOMAIN f = 1 .. n
    BY <2>6 DEF Lists, List
  <2>9. {i \in 1..n : char(c) = f[i]} = Spots(f, {char(c)})
    BY <2>8 DEF Spots
  <2> QED
    BY <1>3, <2>5, <2>7, <2>9
<1>7. ASSUME NEW q \in StringPointers
      PROVE  LET t == StringAt(mem, q)
                 D == ToSet(t)
             IN /\ strspn(mem, p, q) = Span(s, D)
                /\ strcspn(mem, p, q) = Span(s, Chars \ D)
                /\ strpbrk(mem, p, q) = Least(p, {i \in DOMAIN s : s[i] \in D})
                /\ strstr(mem, p, q) = Least(p, {i \in DOMAIN all : IsPrefix(t, SubSeq(all, i, Len(all)))})
  <2>1. PICK c, z, e : /\ q = <<c, z>> /\ Place(q, c, z) /\ Str(mem, c, z, e) /\ c # "null"
                       /\ StringAt(mem, q) = Bytes(mem, <<c, z>>, e)
    BY <1>2
  <2> DEFINE t == StringAt(mem, q)
             D == ToSet(t)
  <2>2. t = StringAt(mem, q) /\ D = ToSet(t)
    OBVIOUS
  <2> HIDE DEF t, D
  <2>3. t = Bytes(mem, <<c, z>>, e) /\ Lists(mem, c, z, e, t)
    BY <1>1, <2>1, <2>2, WholeIs
  <2>4. D = ToSet(Bytes(mem, <<c, z>>, e))
    BY <2>2, <2>3
  <2>5. /\ strspn(mem, <<b, y>>, <<c, z>>) = Span(s, D)
        /\ strcspn(mem, <<b, y>>, <<c, z>>) = Span(s, Chars \ D)
        /\ strpbrk(mem, <<b, y>>, <<c, z>>) = Least(<<b, y>>, Spots(s, D))
    <3>1. Memory(mem) /\ Str(mem, b, y, l) /\ Str(mem, c, z, e) /\ c # "null"
      BY <1>1, <1>3, <2>1
    <3>2. Lists(mem, b, y, l, s) /\ CharsOf(mem, c, z, e, D)
      BY <1>5, <2>4 DEF CharsOf
    <3> QED
      BY <3>1, <3>2, SpansAre
  <2>6. strstr(mem, <<b, y>>, <<c, z>>) = Least(<<b, y>>, Occurs(all, t))
    BY <1>1, <1>3, <1>5, <2>1, <2>3, StrstrLeast
  <2>7. Spots(s, D) = {i \in DOMAIN s : s[i] \in D}
    BY DEF Spots
  <2>8. Occurs(all, t) = {i \in DOMAIN all : IsPrefix(t, SubSeq(all, i, Len(all)))}
    BY DEF Occurs
  <2>9. /\ strspn(mem, p, q) = Span(s, D)
        /\ strcspn(mem, p, q) = Span(s, Chars \ D)
        /\ strpbrk(mem, p, q) = Least(p, {i \in DOMAIN s : s[i] \in D})
        /\ strstr(mem, p, q) = Least(p, {i \in DOMAIN all : IsPrefix(t, SubSeq(all, i, Len(all)))})
    BY <1>3, <2>1, <2>5, <2>6, <2>7, <2>8
  <2> QED
    BY <2>9 DEF t, D
<1> QED
  BY <1>6, <1>7, <1>8 DEF s, all

-----------------------------------------------------------------------------
(* The refinement of Tokenizer.                                            *)
LEMMA StringIs ==
  ASSUME NEW m, Memory(m), NEW b, NEW y, NEW l, Str(m, b, y, l)
  PROVE  Lists(m, b, y, l, StringAt(m, <<b, y>>)) /\ StringAt(m, <<b, y>>) = Bytes(m, <<b, y>>, l)
<1>1. strlen(m, <<b, y>>) = l
  BY StrlenIs
<1>2. StringAt(m, <<b, y>>) = Bytes(m, <<b, y>>, l)
  BY <1>1 DEF StringAt
<1>3. l \in 0 .. l + 1
  BY DEF Str
<1> QED
  BY <1>2, <1>3, StrBytes

(* The same n bytes are at <<b, y>>.                                       *)
SameBytes(m, M, b, y, n) == \A i \in 0 .. n - 1 : M[b][y + i] = m[b][y + i]

LEMMA ListsSame ==
  ASSUME NEW m, NEW M, NEW b, NEW y, NEW n, NEW f, NEW g, Lists(m, b, y, n, f), Lists(M, b, y, n, g),
         SameBytes(m, M, b, y, n)
  PROVE  f = g
<1>1. f \in [1 .. n -> Chars] /\ g \in [1 .. n -> Chars] /\ n \in Nat
  BY DEF Lists, List
<1>2. \A i \in 1 .. n : f[i] = g[i]
  <2> SUFFICES ASSUME NEW i \in 1 .. n PROVE f[i] = g[i]
    OBVIOUS
  <2>1. i - 1 \in 0 .. n - 1
    BY <1>1
  <2>2. f[i] = m[b][y + (i - 1)] /\ g[i] = M[b][y + (i - 1)]
    BY DEF Lists
  <2> QED
    BY <2>1, <2>2 DEF SameBytes
<1> QED
  BY <1>1, <1>2, SameFunction

(* The same l characters and the zero after them are at <<b, y>>.          *)
Alike(m, M, b, y, l) ==
  /\ b \in DOMAIN M /\ Extent(M, b) = Extent(m, b)
  /\ \A i \in 0 .. l : M[b][y + i] = m[b][y + i]

LEMMA StringSame ==
  ASSUME NEW m, NEW M, Memory(m), Memory(M), NEW b, NEW y, NEW l, Str(m, b, y, l), Alike(m, M, b, y, l)
  PROVE  StringAt(M, <<b, y>>) = StringAt(m, <<b, y>>)
<1>1. Str(M, b, y, l)
  BY StrSame DEF Alike
<1>2. Lists(m, b, y, l, StringAt(m, <<b, y>>)) /\ Lists(M, b, y, l, StringAt(M, <<b, y>>))
  BY <1>1, StringIs
<1>3. SameBytes(m, M, b, y, l)
  <2>1. l \in Nat
    BY DEF Str
  <2> QED
    BY <2>1 DEF Alike, SameBytes
<1> QED
  BY <1>2, <1>3, ListsSame

LEMMA PartIs ==
  ASSUME NEW m, NEW b, NEW y \in Nat, NEW l, NEW f, Lists(m, b, y, l, f),
         NEW u \in Nat, NEW n \in Nat, u + n <= l
  PROVE  Lists(m, b, y + u, n, SubSeq(f, u + 1, u + n))
<1>1. l \in Nat /\ f \in Seq(Chars) /\ Len(f) = l /\ \A i \in 1 .. l : f[i] = m[b][y + (i - 1)]
  BY DEF Lists, List
<1>2. PICK g : g = SubSeq(f, u + 1, u + n)
  OBVIOUS
<1>3. \A i \in 1 .. n : (u + 1) + i - 1 = u + i /\ u + i \in 1 .. l /\ y + ((u + i) - 1) = (y + u) + (i - 1)
  BY <1>1
<1>4. g \in Seq(Chars) /\ Len(g) = n /\ \A i \in 1 .. n : g[i] = f[u + i]
  <2>1. g \in Seq(Chars) /\ Len(g) = n
    BY <1>1, <1>2
  <2>2. ASSUME NEW i \in 1 .. n PROVE g[i] = f[u + i]
    <3>1. g[i] = f[(u + 1) + i - 1]
      BY <1>1, <1>2
    <3>2. (u + 1) + i - 1 = u + i
      OBVIOUS
    <3> QED
      BY <3>1, <3>2, Zenon
  <2> QED
    BY <2>1, <2>2
<1>5. ASSUME NEW i \in 1 .. n PROVE g[i] = m[b][(y + u) + (i - 1)]
  <2>1. g[i] = f[u + i] /\ u + i \in 1 .. l /\ y + ((u + i) - 1) = (y + u) + (i - 1)
    BY <1>3, <1>4, Zenon
  <2>2. f[u + i] = m[b][y + ((u + i) - 1)]
    BY <1>1, <2>1, Zenon
  <2> QED
    BY <2>1, <2>2, Zenon
<1>6. g \in [1 .. n -> Chars]
  BY <1>4, SeqFunction
<1> QED
  BY <1>2, <1>4, <1>5, <1>6 DEF Lists, List

(* The first of T.                                                         *)
LEMMA MinOf ==
  ASSUME NEW T, T \subseteq Nat, NEW n \in T, \A i \in T : n <= i
  PROVE  Min(T) = n
<1>1. \A j \in T : (\A i \in T : j <= i) => j = n
  OBVIOUS
<1> QED
  BY <1>1 DEF Min

LEMMA SameMin == ASSUME NEW T PROVE Split!Min(T) = Min(T)
BY DEF Split!Min, Min

LEMMA FirstSpot ==
  ASSUME NEW m, Memory(m), NEW b, NEW y, NEW l, Str(m, b, y, l), NEW f, Lists(m, b, y, l, f),
         NEW E, NEW k \in 0 .. l, Hit(m, b, y, {0} \cup E, k)
  PROVE  Min(Spots(f, E) \cup {Len(f) + 1}) = k + 1
<1>1. y \in Nat /\ l \in Nat /\ k \in Nat
  BY DEF Str
<1>2. DOMAIN f = 1 .. l /\ Len(f) = l /\ \A i \in 1 .. l : f[i] = m[b][y + (i - 1)]
  BY DEF Lists, List
<1>3. \A i \in 0 .. l : m[b][y + i] = 0 <=> i = l
  BY StrChars
<1>4. m[b][y + k] \in {0} \cup E /\ \A i \in 0 .. k - 1 : m[b][y + i] \notin {0} \cup E
  BY DEF Hit
<1>5. PICK T : T = Spots(f, E) \cup {Len(f) + 1}
  OBVIOUS
<1>6. \A i : i \in T <=> i = l + 1 \/ (i \in 1 .. l /\ m[b][y + (i - 1)] \in E)
  BY <1>2, <1>5 DEF Spots
<1>7. T \subseteq Nat
  BY <1>1, <1>6
<1>8. k + 1 \in T
  <2>1. CASE k = l
    BY <1>6, <2>1
  <2>2. CASE k # l
    <3>1. k + 1 \in 1 .. l /\ (k + 1) - 1 = k
      BY <1>1, <2>2
    <3>2. m[b][y + k] \in E
      BY <1>3, <1>4, <2>2
    <3> QED
      BY <1>6, <3>1, <3>2
  <2> QED
    BY <2>1, <2>2
<1>9. \A i \in T : k + 1 <= i
  <2> SUFFICES ASSUME NEW i \in T, ~(k + 1 <= i) PROVE FALSE
    OBVIOUS
  <2>1. i # l + 1
    BY <1>1
  <2>2. i \in 1 .. l /\ m[b][y + (i - 1)] \in E
    BY <1>6, <2>1
  <2>3. i - 1 \in 0 .. k - 1
    BY <1>1, <2>2
  <2> QED
    BY <1>4, <2>2, <2>3
<1> QED
  BY <1>5, <1>7, <1>8, <1>9, MinOf

(* What Tokenizer makes of s: what follows the delimiters, the token and   *)
(* what is left.                                                           *)
Begun(s, D) == SubSeq(s, Split!FirstNotIn(s, D), Len(s))
Word(s, D) == SubSeq(Begun(s, D), 1, Split!FirstIn(Begun(s, D), D) - 1)
Left(s, D) == SubSeq(Begun(s, D), Split!FirstIn(Begun(s, D), D) + 1, Len(Begun(s, D)))

LEMMA SplitIs ==
  ASSUME NEW m, Memory(m), NEW b, NEW y, NEW l, Str(m, b, y, l), NEW s, Lists(m, b, y, l, s),
         NEW D, NEW k \in 0 .. l, Hit(m, b, y, {0} \cup (Chars \ D), k),
         NEW j \in 0 .. l - k, Hit(m, b, y + k, {0} \cup D, j)
  PROVE  /\ Lists(m, b, y + k, l - k, Begun(s, D))
         /\ Lists(m, b, y + k, j, Word(s, D))
         /\ j < l - k => Lists(m, b, (y + k) + (j + 1), (l - k) - (j + 1), Left(s, D))
         /\ j = l - k => Left(s, D) = <<>>
<1>1. y \in Nat /\ l \in Nat /\ k \in Nat /\ l - k \in Nat /\ j \in Nat /\ y + k \in Nat
  BY DEF Str
<1>2. DOMAIN s = 1 .. l /\ Len(s) = l /\ \A i \in 1 .. l : s[i] \in Chars
  BY DEF Lists, List
<1>3. Split!FirstNotIn(s, D) = k + 1
  <2>1. Min(Spots(s, Chars \ D) \cup {Len(s) + 1}) = k + 1
    BY FirstSpot
  <2>2. Spots(s, Chars \ D) = {i \in DOMAIN s : s[i] \notin D}
    BY <1>2 DEF Spots
  <2> QED
    BY <2>1, <2>2, SameMin DEF Split!FirstNotIn
<1>4. PICK g, n : g = Begun(s, D) /\ n = l - k
  OBVIOUS
<1>5. g = SubSeq(s, k + 1, k + n)
  <2>1. k + n = l
    BY <1>1, <1>4
  <2> QED
    BY <1>2, <1>3, <1>4, <2>1 DEF Begun
<1>6. n \in Nat /\ k + n <= l /\ j \in 0 .. n
  BY <1>1, <1>4
<1>7. Lists(m, b, y + k, n, g)
  BY <1>1, <1>5, <1>6, PartIs
<1>8. Str(m, b, y + k, n)
  BY <1>4, StrSuffix
<1>9. g \in Seq(Chars) /\ Len(g) = n
  BY <1>7 DEF Lists
<1>10. Split!FirstIn(g, D) = j + 1
  <2>1. Min(Spots(g, D) \cup {Len(g) + 1}) = j + 1
    BY <1>6, <1>7, <1>8, FirstSpot
  <2> QED
    BY <2>1, SameMin DEF Split!FirstIn, Spots
<1>11. Lists(m, b, y + k, j, Word(s, D))
  <2>1. 0 + j <= n /\ (y + k) + 0 = y + k /\ 0 + 1 = 1 /\ 0 + j = j /\ (j + 1) - 1 = j /\ 0 \in Nat
    BY <1>1, <1>6
  <2>2. Lists(m, b, (y + k) + 0, j, SubSeq(g, 0 + 1, 0 + j))
    BY <1>1, <1>7, <2>1, PartIs
  <2>3. Word(s, D) = SubSeq(g, 1, j)
    BY <1>4, <1>10, <2>1 DEF Word
  <2> QED
    BY <2>1, <2>2, <2>3
<1>12. Left(s, D) = SubSeq(g, j + 2, n)
  <2>1. (j + 1) + 1 = j + 2
    BY <1>1
  <2> QED
    BY <1>4, <1>9, <1>10, <2>1 DEF Left
<1>13. ASSUME j < l - k PROVE Lists(m, b, (y + k) + (j + 1), (l - k) - (j + 1), Left(s, D))
  <2>1. PICK u, v : u = j + 1 /\ v = n - u
    OBVIOUS
  <2>2. u \in Nat /\ v \in Nat /\ u + v <= n /\ u + 1 = j + 2 /\ u + v = n
    BY <1>1, <1>4, <1>6, <1>13, <2>1
  <2>3. Lists(m, b, (y + k) + u, v, SubSeq(g, u + 1, u + v))
    BY <1>1, <1>7, <2>2, PartIs
  <2> QED
    BY <1>4, <1>12, <2>1, <2>2, <2>3
<1>14. ASSUME j = l - k PROVE Left(s, D) = <<>>
  <2>1. Left(s, D) = SubSeq(g, n + 2, n)
    BY <1>4, <1>12, <1>14
  <2> QED
    BY <1>6, <1>9, <2>1
<1> QED
  BY <1>4, <1>7, <1>11, <1>13, <1>14

(* The characters of a list of delimiters.                                 *)
DelimiterSet(D) == ToSet(StringAt([b \in {"literal"} |-> Literal], delimiters(D)))

LEMMA DelimitersAre ==
  ASSUME MemInv, NEW D \in Delimiters
  PROVE  /\ Skips(mem, delimiters(D)) = {0} \cup (Chars \ DelimiterSet(D))
         /\ Ends(mem, delimiters(D)) = {0} \cup DelimiterSet(D)
<1>1. Memory(mem) /\ "literal" \in DOMAIN mem /\ mem["literal"] = Literal
  BY DEF MemInv
<1>2. PICK last : last = Cardinality(DOMAIN Literal) - 1
  OBVIOUS
<1>3. last \in Nat /\ Literal[last] = 0 /\ D \in 0 .. last
  BY <1>2, LiteralAssumption
<1>4. Extent(mem, "literal") = last + 1
  <2>1. Cardinality(DOMAIN Literal) \in Nat
    BY <1>1 DEF Memory, Extent
  <2> QED
    BY <1>1, <1>2, <2>1 DEF Extent
<1>5. PICK e : Str(mem, "literal", D, e)
  <2>1. PICK k : k = last - D
    OBVIOUS
  <2>2. k \in Nat /\ D \in Nat /\ D + k = last /\ D + k < last + 1 /\ last + 1 \in Nat
    BY <1>3, <2>1
  <2> QED
    BY <1>1, <1>3, <1>4, <2>2, StrExists
<1>6. PICK L : L = [b \in {"literal"} |-> Literal]
  OBVIOUS
<1>7. DOMAIN L = {"literal"} /\ L["literal"] = Literal /\ Extent(L, "literal") = Extent(mem, "literal")
  BY <1>1, <1>6 DEF Extent
<1>8. Memory(L)
  BY <1>1, <1>6, <1>7 DEF Memory
<1>9. Alike(mem, L, "literal", D, e)
  BY <1>1, <1>7 DEF Alike
<1>10. StringAt(L, <<"literal", D>>) = StringAt(mem, <<"literal", D>>)
  BY <1>1, <1>5, <1>8, <1>9, StringSame
<1>11. StringAt(mem, <<"literal", D>>) = Bytes(mem, <<"literal", D>>, e)
  BY <1>1, <1>5, StringIs
<1>12. DelimiterSet(D) = ToSet(Bytes(mem, <<"literal", D>>, e))
  BY <1>6, <1>10, <1>11 DEF DelimiterSet, delimiters
<1>13. /\ Skips(mem, <<"literal", D>>) = {0} \cup (Chars \ ToSet(Bytes(mem, <<"literal", D>>, e)))
       /\ Ends(mem, <<"literal", D>>) = {0} \cup ToSet(Bytes(mem, <<"literal", D>>, e))
  BY <1>1, <1>5, CharSet
<1> QED
  BY <1>12, <1>13 DEF delimiters

(* What a client has does not change where another buffer is written.      *)
LEMMA OthersKept ==
  ASSUME NEW m, NEW M, NEW c, Memory(m), Memory(M), DOMAIN M = DOMAIN m, Str(m, "empty", 0, 0),
         \A b \in DOMAIN m : Extent(M, b) = Extent(m, b) /\ (b # c => M[b] = m[b]),
         c # "empty", NEW d, d # c, NEW la, NEW tk, RestOK(m, la, d), TokensOK(m, la, tk, d)
  PROVE  /\ StringAt(M, la) = StringAt(m, la)
         /\ \A i \in DOMAIN tk : StringAt(M, tk[i]) = StringAt(m, tk[i])
<1>1. ASSUME NEW b, NEW y, NEW l, Str(m, b, y, l), b # c
      PROVE  StringAt(M, <<b, y>>) = StringAt(m, <<b, y>>)
  <2>1. b \in DOMAIN m
    BY <1>1 DEF Str
  <2>2. Alike(m, M, b, y, l)
    BY <1>1, <2>1 DEF Alike
  <2> QED
    BY <1>1, <2>2, StringSame
<1>2. StringAt(M, la) = StringAt(m, la)
  BY <1>1 DEF RestOK, EmptyString
<1>3. ASSUME NEW i \in DOMAIN tk PROVE StringAt(M, tk[i]) = StringAt(m, tk[i])
  <2>1. PICK o, l : tk[i] = <<d, o>> /\ Str(m, d, o, l)
    BY DEF TokensOK
  <2> QED
    BY <1>1, <2>1
<1> QED
  BY <1>2, <1>3

(* What the clients see.                                                   *)
Rests == [c \in Clients |-> IF c \in busy THEN StringAt(mem, lasts[c]) ELSE <<>>]
TokensOf(m, tk) == [i \in DOMAIN tk |-> StringAt(m, tk[i])]
Tokens == [c \in Clients |-> TokensOf(mem, taken[c])]

LEMMA TokensEqual ==
  ASSUME NEW m, NEW M, NEW tk, \A i \in DOMAIN tk : StringAt(M, tk[i]) = StringAt(m, tk[i])
  PROVE  TokensOf(M, tk) = TokensOf(m, tk)
BY DEF TokensOf

LEMMA NoTokens == ASSUME NEW m PROVE TokensOf(m, <<>>) = <<>>
<1>1. PICK f : f = TokensOf(m, <<>>)
  OBVIOUS
<1>2. f \in [1 .. 0 -> {}]
  BY <1>1 DEF TokensOf
<1>3. f \in Seq({}) /\ Len(f) = 0
  BY <1>2, FunctionSeq
<1> QED
  BY <1>1, <1>3, EmptyLaws

(* Where only buffer c changes, the other clients see no difference.       *)
LEMMA OthersSee ==
  ASSUME StringInv, NEW c, c # "empty", Memory(mem'), DOMAIN mem' = DOMAIN mem,
         \A b \in DOMAIN mem : Extent(mem', b) = Extent(mem, b) /\ (b # c => mem'[b] = mem[b]),
         NEW d \in Clients, d # c, lasts'[d] = lasts[d], taken'[d] = taken[d],
         d \in busy' <=> d \in busy
  PROVE  Rests'[d] = Rests[d] /\ Tokens'[d] = Tokens[d]
<1>1. Memory(mem) /\ Str(mem, "empty", 0, 0)
  BY EmptyIs DEF StringInv, MemInv
<1>2. CASE d \in busy
  <2>1. RestOK(mem, lasts[d], d) /\ TokensOK(mem, lasts[d], taken[d], d)
    BY <1>2 DEF StringInv
  <2>2. PICK la, tk : la = lasts[d] /\ tk = taken[d]
    OBVIOUS
  <2>3. PICK M : M = mem'
    OBVIOUS
  <2>4. /\ StringAt(M, la) = StringAt(mem, la)
        /\ \A i \in DOMAIN tk : StringAt(M, tk[i]) = StringAt(mem, tk[i])
    BY <1>1, <2>1, <2>2, <2>3, OthersKept
  <2>5. TokensOf(M, tk) = TokensOf(mem, tk)
    BY <2>4, TokensEqual
  <2>6. Rests'[d] = StringAt(M, la) /\ Rests[d] = StringAt(mem, la)
    BY <1>2, <2>2, <2>3 DEF Rests
  <2>7. Tokens'[d] = TokensOf(M, tk) /\ Tokens[d] = TokensOf(mem, tk)
    BY <2>2, <2>3 DEF Tokens, TokensOf
  <2> QED
    BY <2>4, <2>5, <2>6, <2>7
<1>3. CASE d \notin busy
  <2>1. taken[d] = <<>> /\ taken'[d] = <<>>
    BY <1>3 DEF StringInv
  <2>2. Rests'[d] = <<>> /\ Rests[d] = <<>>
    BY <1>3 DEF Rests
  <2>3. Tokens'[d] = TokensOf(mem', <<>>) /\ Tokens[d] = TokensOf(mem, <<>>)
    BY <2>1 DEF Tokens, TokensOf
  <2>4. TokensOf(mem', <<>>) = <<>> /\ TokensOf(mem, <<>>) = <<>>
    BY NoTokens
  <2> QED
    BY <2>2, <2>3, <2>4
<1> QED
  BY <1>2, <1>3

LEMMA UpdateIs ==
  ASSUME NEW C, NEW f, NEW g, f = [d \in C |-> f[d]], g = [d \in C |-> g[d]], NEW c \in C, NEW x,
         g[c] = x, \A d \in C : d # c => g[d] = f[d]
  PROVE  g = [f EXCEPT ![c] = x]
OBVIOUS

LEMMA NoChars == ASSUME NEW m, NEW b, NEW y, NEW f, Lists(m, b, y, 0, f) PROVE f = <<>>
<1>1. f \in Seq(Chars) /\ Len(f) = 0
  BY DEF Lists
<1> QED
  BY <1>1, EmptyLaws

(* The tokens of tk are the same strings in m and M.                       *)
Kept(m, M, tk) ==
  \A i \in DOMAIN tk : StringAt(M, tk[i]) = StringAt(m, tk[i]) /\ StringAt(m, tk[i]) \in Seq(Chars)

LEMMA AppendTokens ==
  ASSUME NEW m, NEW M, NEW A, NEW tk \in Seq(A), NEW x \in A, Kept(m, M, tk), StringAt(M, x) \in Seq(Chars)
  PROVE  TokensOf(M, Append(tk, x)) = Append(TokensOf(m, tk), StringAt(M, x))
<1>1. PICK n, W, T : n = Len(tk) /\ W = Seq(Chars) /\ T = Append(tk, x)
  OBVIOUS
<1>2. n \in Nat /\ DOMAIN tk = 1 .. n
  BY <1>1
<1>3. T \in Seq(A) /\ Len(T) = n + 1 /\ T[n + 1] = x /\ \A i \in 1 .. n : T[i] = tk[i]
  BY <1>1
<1>4. PICK u, v, w : u = TokensOf(m, tk) /\ v = TokensOf(M, T) /\ w = StringAt(M, x)
  OBVIOUS
<1>5. u \in [1 .. n -> W] /\ \A i \in 1 .. n : u[i] = StringAt(m, tk[i])
  BY <1>1, <1>2, <1>4 DEF TokensOf, Kept
<1>6. u \in Seq(W) /\ Len(u) = n
  BY <1>2, <1>5, FunctionSeq
<1>7. w \in W
  BY <1>1, <1>4
<1>8. PICK a : a = Append(u, w)
  OBVIOUS
<1>9. a \in Seq(W) /\ Len(a) = n + 1 /\ a[n + 1] = w /\ \A i \in 1 .. n : a[i] = u[i]
  BY <1>6, <1>7, <1>8
<1>10. a \in [1 .. n + 1 -> W]
  BY <1>9, SeqFunction
<1>11. DOMAIN T = 1 .. n + 1
  BY <1>3
<1>12. \A i \in 1 .. n + 1 : StringAt(M, T[i]) = a[i]
  <2> SUFFICES ASSUME NEW i \in 1 .. n + 1 PROVE StringAt(M, T[i]) = a[i]
    OBVIOUS
  <2>1. CASE i = n + 1
    BY <1>3, <1>4, <1>9, <2>1
  <2>2. CASE i # n + 1
    <3>1. i \in 1 .. n
      BY <1>2, <2>2
    <3> QED
      BY <1>2, <1>3, <1>5, <1>9, <3>1 DEF Kept
  <2> QED
    BY <2>1, <2>2
<1>13. v = [i \in 1 .. n + 1 |-> StringAt(M, T[i])]
  BY <1>4, <1>11 DEF TokensOf
<1>14. v \in [1 .. n + 1 -> W] /\ \A i \in 1 .. n + 1 : v[i] = a[i]
  BY <1>10, <1>12, <1>13
<1>15. v = a
  <2>1. PICK N : N = 1 .. n + 1
    OBVIOUS
  <2>2. v \in [N -> W] /\ a \in [N -> W] /\ \A i \in N : v[i] = a[i]
    BY <1>10, <1>14, <2>1
  <2> QED
    BY <2>2, SameFunction
<1> QED
  BY <1>1, <1>4, <1>8, <1>15

(* A token w is cut off at q, t is left from r on: memory has them, and    *)
(* the earlier tokens as they were.                                        *)
CutAt(m, M, c, y, l, k, j, p, q, r, tk, w, t) ==
  /\ Memory(m) /\ Zeroed(m, M, c, q) /\ Str(m, c, y, l) /\ k \in 0 .. l /\ j \in 0 .. l - k
  /\ p = y + k /\ q = y + k + j /\ p < q /\ (r = IF m[c][q] # 0 THEN q + 1 ELSE q)
  /\ Str(M, c, r, (y + l) - r) /\ Str(M, c, p, q - p) /\ Earlier(tk, m, c, y)
  /\ Lists(m, c, y + k, j, w)
  /\ (j < l - k => Lists(m, c, (y + k) + (j + 1), (l - k) - (j + 1), t)) /\ (j = l - k => t = <<>>)

CutSeen(m, M, c, p, r, tk, w, t) ==
  /\ StringAt(M, <<c, r>>) = t
  /\ TokensOf(M, Append(tk, <<c, p>>)) = Append(TokensOf(m, tk), w)

LEMMA PlacesIn ==
  ASSUME NEW y \in Nat, NEW l \in Nat, NEW k \in Nat, NEW j \in Nat, k + j <= l
  PROVE  /\ y + k \in Nat /\ y + k + j \in Nat /\ y <= y + k /\ y + k + j <= y + l
         /\ (y + k + j) - (y + k) = j
OBVIOUS

LEMMA CutGives ==
  ASSUME NEW m, NEW M, NEW c, NEW y, NEW l, NEW k, NEW j, NEW p, NEW q, NEW r, NEW tk, NEW w, NEW t,
         CutAt(m, M, c, y, l, k, j, p, q, r, tk, w, t)
  PROVE  CutSeen(m, M, c, p, r, tk, w, t)
<1> USE DEF CutAt
<1>1. /\ c \in DOMAIN m /\ y \in Nat /\ l \in Nat /\ k \in Nat /\ j \in Nat /\ y + l < Extent(m, c)
      /\ k + j <= l /\ Extent(m, c) \in Nat
  BY DEF Str, Memory
<1>2. /\ Memory(M) /\ c \in DOMAIN M /\ Extent(M, c) = Extent(m, c)
      /\ \A i \in 0 .. Extent(m, c) - 1 : i # q => M[c][i] = m[c][i]
  BY <1>1 DEF Zeroed
<1>3. p \in Nat /\ q \in Nat /\ y <= p /\ q <= y + l /\ q - p = j
  <2>1. /\ y + k \in Nat /\ y + k + j \in Nat /\ y <= y + k /\ y + k + j <= y + l
        /\ (y + k + j) - (y + k) = j
    BY <1>1, PlacesIn
  <2> QED
    BY <2>1
<1>4. StringAt(M, <<c, p>>) = w
  <2>1. Lists(M, c, p, j, StringAt(M, <<c, p>>))
    BY <1>2, <1>3, StringIs
  <2>2. SameBytes(m, M, c, p, j)
    <3> SUFFICES ASSUME NEW i \in 0 .. j - 1 PROVE M[c][p + i] = m[c][p + i]
      BY DEF SameBytes
    <3>1. p + i # q /\ p + i \in 0 .. Extent(m, c) - 1
      BY <1>1, <1>3
    <3> QED
      BY <1>2, <3>1
  <2>3. Lists(m, c, p, j, w)
    OBVIOUS
  <2> QED
    BY <2>1, <2>2, <2>3, ListsSame
<1>5. m[c][q] = 0 <=> k + j = l
  <2>1. PICK i : i = k + j
    OBVIOUS
  <2>2. i \in 0 .. l /\ y + i = q
    BY <1>1, <2>1
  <2>3. m[c][y + i] = 0 <=> i = l
    BY <2>2, StrChars
  <2> QED
    BY <2>1, <2>2, <2>3
<1>6. StringAt(M, <<c, r>>) = t
  <2>1. PICK n : n = (y + l) - r
    OBVIOUS
  <2>2. Lists(M, c, r, n, StringAt(M, <<c, r>>))
    BY <1>2, <2>1, StringIs
  <2>3. CASE k + j = l
    <3>1. r = q /\ q = y + l /\ j = l - k
      BY <1>1, <1>5, <2>3
    <3>2. n = 0
      BY <1>1, <2>1, <3>1
    <3> QED
      BY <2>2, <3>1, <3>2, NoChars
  <2>4. CASE k + j # l
    <3>1. r = q + 1
      BY <1>5, <2>4
    <3>2. /\ j < l - k /\ (y + k) + (j + 1) = r /\ (l - k) - (j + 1) = n /\ r \in Nat /\ n \in Nat
          /\ r + n < Extent(m, c) /\ r > q
      BY <1>1, <2>1, <2>4, <3>1
    <3>3. Lists(m, c, r, n, t)
      BY <3>2
    <3>4. SameBytes(m, M, c, r, n)
      <4> SUFFICES ASSUME NEW i \in 0 .. n - 1 PROVE M[c][r + i] = m[c][r + i]
        BY DEF SameBytes
      <4>1. r + i # q /\ r + i \in 0 .. Extent(m, c) - 1
        BY <1>1, <1>3, <3>2
      <4> QED
        BY <1>2, <4>1
    <3> QED
      BY <2>2, <3>3, <3>4, ListsSame
  <2> QED
    BY <2>3, <2>4
<1>7. ASSUME NEW i \in DOMAIN tk
      PROVE  StringAt(M, tk[i]) = StringAt(m, tk[i]) /\ StringAt(m, tk[i]) \in Seq(Chars)
  <2>1. PICK o, n : tk[i] = <<c, o>> /\ Str(m, c, o, n) /\ o + n <= y
    BY DEF Earlier
  <2>2. o \in Nat /\ n \in Nat
    BY <2>1 DEF Str
  <2>3. \A e \in 0 .. n : M[c][o + e] = m[c][o + e]
    <3> SUFFICES ASSUME NEW e \in 0 .. n PROVE M[c][o + e] = m[c][o + e]
      OBVIOUS
    <3>1. o + e \in Nat /\ o + e <= y
      BY <1>1, <2>1, <2>2
    <3>2. o + e # q /\ o + e \in 0 .. Extent(m, c) - 1
      BY <1>1, <1>3, <3>1
    <3> QED
      BY <1>2, <3>2
  <2>4. Alike(m, M, c, o, n)
    BY <1>2, <2>3 DEF Alike
  <2>5. StringAt(M, <<c, o>>) = StringAt(m, <<c, o>>)
    BY <1>2, <2>1, <2>4, StringSame
  <2>6. Lists(m, c, o, n, StringAt(m, <<c, o>>))
    BY <2>1, StringIs
  <2> QED
    BY <2>1, <2>5, <2>6 DEF Lists
<1>8. w \in Seq(Chars)
  BY DEF Lists
<1>9. tk \in Seq({c} \X Nat) /\ <<c, p>> \in {c} \X Nat
  BY <1>3 DEF Earlier
<1>10. TokensOf(M, Append(tk, <<c, p>>)) = Append(TokensOf(m, tk), StringAt(M, <<c, p>>))
  <2>1. PICK A, x : A = {c} \X Nat /\ x = <<c, p>>
    OBVIOUS
  <2>2. tk \in Seq(A) /\ x \in A /\ StringAt(M, x) \in Seq(Chars)
    BY <1>4, <1>8, <1>9, <2>1
  <2>3. Kept(m, M, tk)
    BY <1>7 DEF Kept
  <2>4. TokensOf(M, Append(tk, x)) = Append(TokensOf(m, tk), StringAt(M, x))
    BY <2>2, <2>3, AppendTokens
  <2> QED
    BY <2>1, <2>4
<1> QED
  BY <1>4, <1>6, <1>10 DEF CutSeen

(* A call of strtok or strtok_r is a step of Tokenizer.                    *)
Parts(c, s, D) ==
  /\ Rests' = [Rests EXCEPT ![c] = Left(s, D)]
  /\ Tokens' = [Tokens EXCEPT ![c] = IF Begun(s, D) = <<>> THEN @ ELSE Append(@, Word(s, D))]

LEMMA TokenParts ==
  ASSUME StringInv, NEW c \in Clients, NEW b, NEW y, NEW l, NEW D \in Delimiters, Str(mem, b, y, l),
         b = c \/ mem[b][y] = 0, strtok_r(c, <<b, y>>, delimiters(D)),
         b = c => Earlier(taken[c], mem, c, y), busy' = busy \cup {c}
  PROVE  Parts(c, StringAt(mem, <<b, y>>), DelimiterSet(D))
<1>1. /\ Memory(mem) /\ DOMAIN mem = Buffers \cup {"literal", "empty"} /\ MemInv
      /\ lasts = [d \in Clients |-> lasts[d]] /\ taken = [d \in Clients |-> taken[d]]
  BY DEF StringInv, MemInv
<1>2. PICK k, j : /\ Parted(b, y, l, delimiters(D), k, j)
                  /\ \/ mem[b][y + k] = 0 /\ NoToken(c)
                     \/ mem[b][y + k] # 0 /\ b = c /\ TakesToken(c, y + k, y + k + j)
  BY TokenStep
<1>3. c \in Buffers /\ c \in DOMAIN mem /\ c # "literal" /\ c # "empty"
  BY <1>1, BufferAssumption DEF Clients
<1>4. PICK s, S : s = StringAt(mem, <<b, y>>) /\ S = DelimiterSet(D)
  OBVIOUS
<1>5. Lists(mem, b, y, l, s)
  BY <1>1, <1>4, StringIs
<1>6. /\ k \in 0 .. l /\ j \in 0 .. l - k
      /\ Hit(mem, b, y, {0} \cup (Chars \ S), k) /\ Hit(mem, b, y + k, {0} \cup S, j)
  BY <1>1, <1>2, <1>4, DelimitersAre DEF Parted
<1>7. /\ Lists(mem, b, y + k, l - k, Begun(s, S)) /\ Lists(mem, b, y + k, j, Word(s, S))
      /\ j < l - k => Lists(mem, b, (y + k) + (j + 1), (l - k) - (j + 1), Left(s, S))
      /\ j = l - k => Left(s, S) = <<>>
  BY <1>1, <1>5, <1>6, SplitIs
<1>8. l \in Nat /\ k \in Nat /\ j \in Nat /\ (mem[b][y + k] = 0 <=> k = l)
  <2>1. l \in Nat
    BY DEF Str
  <2> QED
    BY <1>1, <1>6, <2>1, StrChars
<1>9. ASSUME NEW x, NEW z, Rests'[c] = x, Tokens'[c] = z,
             \A d \in Clients : d # c => Rests'[d] = Rests[d] /\ Tokens'[d] = Tokens[d]
      PROVE  Rests' = [Rests EXCEPT ![c] = x] /\ Tokens' = [Tokens EXCEPT ![c] = z]
  <2>1. PICK R, Q, T, U : R = Rests /\ Q = Rests' /\ T = Tokens /\ U = Tokens'
    OBVIOUS
  <2>2. /\ R = [d \in Clients |-> R[d]] /\ Q = [d \in Clients |-> Q[d]]
        /\ T = [d \in Clients |-> T[d]] /\ U = [d \in Clients |-> U[d]]
    BY <2>1 DEF Rests, Tokens
  <2>3. /\ Q[c] = x /\ U[c] = z
        /\ \A d \in Clients : d # c => Q[d] = R[d] /\ U[d] = T[d]
    BY <1>9, <2>1
  <2>4. Q = [R EXCEPT ![c] = x]
    BY <2>2, <2>3, UpdateIs
  <2>5. U = [T EXCEPT ![c] = z]
    BY <2>2, <2>3, UpdateIs
  <2> QED
    BY <2>1, <2>4, <2>5
<1>10. ASSUME Rests'[c] = Left(s, S),
              Tokens'[c] = IF Begun(s, S) = <<>> THEN Tokens[c] ELSE Append(Tokens[c], Word(s, S)),
              \A d \in Clients : d # c => Rests'[d] = Rests[d] /\ Tokens'[d] = Tokens[d]
       PROVE  Parts(c, s, S)
  <2>1. Rests' = [Rests EXCEPT ![c] = Left(s, S)]
    BY <1>9, <1>10
  <2>2. Tokens' = [Tokens EXCEPT ![c] = IF Begun(s, S) = <<>> THEN Tokens[c] ELSE Append(Tokens[c], Word(s, S))]
    BY <1>9, <1>10
  <2> QED
    BY <2>1, <2>2 DEF Parts
<1>11. CASE mem[b][y + k] = 0 /\ NoToken(c)
  <2>1. lasts' = [lasts EXCEPT ![c] = EmptyString] /\ mem' = mem /\ taken' = taken
    BY <1>11 DEF NoToken
  <2>2. k = l /\ j = 0 /\ j = l - k /\ l - k = 0
    BY <1>6, <1>8, <1>11
  <2>3. Begun(s, S) = <<>> /\ Left(s, S) = <<>>
    BY <1>7, <2>2, NoChars
  <2>4. StringAt(mem, EmptyString) = <<>>
    <3>1. Str(mem, "empty", 0, 0)
      BY <1>1, EmptyIs
    <3>2. Lists(mem, "empty", 0, 0, StringAt(mem, <<"empty", 0>>))
      BY <1>1, <3>1, StringIs
    <3> QED
      BY <3>2, NoChars DEF EmptyString
  <2>5. Rests'[c] = <<>>
    <3>1. c \in busy' /\ lasts'[c] = EmptyString
      BY <1>1, <2>1
    <3> QED
      BY <2>1, <2>4, <3>1 DEF Rests
  <2>6. Tokens'[c] = Tokens[c]
    BY <2>1 DEF Tokens, TokensOf
  <2>7. ASSUME NEW d \in Clients, d # c PROVE Rests'[d] = Rests[d] /\ Tokens'[d] = Tokens[d]
    <3>1. lasts'[d] = lasts[d] /\ (d \in busy' <=> d \in busy)
      BY <1>1, <2>1, <2>7
    <3> QED
      BY <2>1, <3>1 DEF Rests, Tokens, TokensOf
  <2>8. Parts(c, s, S)
    BY <1>10, <2>3, <2>5, <2>6, <2>7
  <2> QED
    BY <1>4, <2>8
<1>12. CASE mem[b][y + k] # 0 /\ b = c /\ TakesToken(c, y + k, y + k + j)
  <2>1. PICK p, q : p = y + k /\ q = y + k + j
    OBVIOUS
  <2>2. PICK M : M = CutOff(mem, <<c, q>>)
    OBVIOUS
  <2>3. PICK r : r = IF mem[c][q] # 0 THEN q + 1 ELSE q
    OBVIOUS
  <2>4. /\ y \in Nat /\ p \in Nat /\ q \in Nat /\ y <= p /\ p < q /\ q <= y + l
        /\ q \in 0 .. Extent(mem, c) - 1 /\ \A i \in p .. q - 1 : mem[c][i] # 0
    BY <1>1, <1>2, <1>12, <2>1, PartedFacts
  <2>5. /\ mem' = M /\ lasts' = [lasts EXCEPT ![c] = <<c, r>>]
        /\ taken' = [taken EXCEPT ![c] = Append(@, <<c, p>>)]
    BY <1>12, <2>1, <2>2, <2>3 DEF TakesToken, Past, At, Plus
  <2>6. Zeroed(mem, M, c, q)
    BY <1>1, <1>3, <2>2, <2>4, CutOffIs
  <2>7. r \in Nat
    BY <2>3, <2>4
  <2>8. PICK tk : tk = taken[c] /\ Earlier(tk, mem, c, y)
    BY <1>12
  <2>9. Str(M, c, r, (y + l) - r) /\ Str(M, c, p, q - p)
    <3>1. Memory(mem) /\ Str(mem, c, y, l)
      BY <1>1, <1>12
    <3>2. /\ tk \in Seq({c} \X Nat)
          /\ \A i \in DOMAIN tk : \E o, n : tk[i] = <<c, o>> /\ Str(mem, c, o, n) /\ o + n <= y
      BY <2>8 DEF Earlier
    <3> QED
      BY <2>3, <2>4, <2>6, <2>7, <3>1, <3>2, CutTokens
  <2>10. PICK w, t : w = Word(s, S) /\ t = Left(s, S)
    OBVIOUS
  <2>11. /\ StringAt(M, <<c, r>>) = t
         /\ TokensOf(M, Append(tk, <<c, p>>)) = Append(TokensOf(mem, tk), w)
    <3>1. Memory(mem) /\ Str(mem, c, y, l)
      BY <1>1, <1>12
    <3>2. /\ Lists(mem, c, y + k, j, w)
          /\ j < l - k => Lists(mem, c, (y + k) + (j + 1), (l - k) - (j + 1), t)
          /\ j = l - k => t = <<>>
      BY <1>7, <1>12, <2>10
    <3>3. p < q /\ k \in 0 .. l /\ j \in 0 .. l - k
      BY <1>6, <2>4
    <3> QED
      <4>1. CutAt(mem, M, c, y, l, k, j, p, q, r, tk, w, t)
        BY <2>1, <2>3, <2>6, <2>8, <2>9, <3>1, <3>2, <3>3 DEF CutAt
      <4>2. CutSeen(mem, M, c, p, r, tk, w, t)
        BY <4>1, CutGives
      <4> QED
        BY <4>2 DEF CutSeen
  <2>12. Begun(s, S) # <<>>
    <3>1. Len(Begun(s, S)) = l - k
      BY <1>7 DEF Lists
    <3> QED
      BY <1>6, <1>8, <1>12, <3>1
  <2>13. Rests'[c] = t
    <3>1. c \in busy' /\ lasts'[c] = <<c, r>>
      BY <1>1, <2>5
    <3> QED
      BY <2>5, <2>11, <3>1 DEF Rests
  <2>14. Tokens'[c] = Append(Tokens[c], w)
    <3>1. taken'[c] = Append(tk, <<c, p>>)
      BY <1>1, <2>5, <2>8
    <3>2. Tokens'[c] = TokensOf(M, Append(tk, <<c, p>>)) /\ Tokens[c] = TokensOf(mem, tk)
      BY <2>5, <2>8, <3>1 DEF Tokens, TokensOf
    <3> QED
      BY <2>11, <3>2
  <2>15. /\ Memory(mem') /\ DOMAIN mem' = DOMAIN mem
         /\ \A d \in DOMAIN mem : Extent(mem', d) = Extent(mem, d) /\ (d # c => mem'[d] = mem[d])
    BY <2>5, <2>6 DEF Zeroed
  <2>16. ASSUME NEW d \in Clients, d # c PROVE Rests'[d] = Rests[d] /\ Tokens'[d] = Tokens[d]
    <3>1. lasts'[d] = lasts[d] /\ taken'[d] = taken[d] /\ (d \in busy' <=> d \in busy)
      BY <1>1, <2>5, <2>16
    <3> QED
      BY <1>3, <2>15, <2>16, <3>1, OthersSee
  <2>17. Parts(c, s, S)
    BY <1>10, <2>10, <2>12, <2>13, <2>14, <2>16
  <2> QED
    BY <1>4, <2>17
<1> QED
  BY <1>2, <1>11, <1>12

LEMMA TokenIs ==
  ASSUME NEW c \in Clients, NEW s, NEW D, NEW e, e = Tokens[c], Parts(c, s, D)
  PROVE  Split!Token(c, s, D, e)
<1>1. /\ Rests' = [Rests EXCEPT ![c] = Left(s, D)]
      /\ Tokens' = [Tokens EXCEPT ![c] = IF Begun(s, D) = <<>> THEN e ELSE Append(e, Word(s, D))]
  BY DEF Parts
<1> QED
  BY <1>1 DEF Split!Token, Begun, Word, Left, Rests, Tokens, TokensOf

LEMMA FirstTakes == ASSUME StringInv, NEW c \in Clients, FirstToken(c) PROVE Split!First(c)
<1>1. /\ Memory(mem) /\ MemInv /\ c \in Buffers /\ c \in DOMAIN mem /\ c \notin busy
      /\ Extent(mem, c) = Size[c] /\ Extent(mem, c) \in Nat
  BY DEF StringInv, MemInv, Memory, Clients, FirstToken
<1>2. PICK l : Str(mem, c, 0, l)
  <2>1. IsString(<<c, 0>>)
    BY DEF FirstToken
  <2>2. PICK i \in 0 .. Room(<<c, 0>>) - 1 : At(mem, Plus(<<c, 0>>, i)) = 0
    BY <2>1 DEF IsString
  <2>3. PICK n \in Nat : n = Extent(mem, c)
    BY <1>1
  <2>4. Room(<<c, 0>>) = n
    BY <2>3 DEF Room, Extent
  <2>5. 0 < Extent(mem, c)
    BY <2>2, <2>3, <2>4
  <2>6. Place(<<c, 0>>, c, 0)
    BY <1>1, <2>5 DEF Place
  <2> QED
    BY <2>1, <2>6, PlaceFacts
<1>3. PICK D \in Delimiters : strtok_r(c, <<c, 0>>, delimiters(D))
  BY DEF FirstToken
<1>4. taken[c] = <<>>
  BY <1>1 DEF StringInv
<1>5. Earlier(taken[c], mem, c, 0)
  BY <1>4 DEF Earlier
<1>6. busy' = busy \cup {c}
  BY DEF FirstToken
<1>7. PICK s, S : s = StringAt(mem, <<c, 0>>) /\ S = DelimiterSet(D)
  OBVIOUS
<1>8. Parts(c, s, S)
  BY <1>2, <1>3, <1>5, <1>6, <1>7, TokenParts
<1>9. Tokens[c] = <<>>
  BY <1>4, NoTokens DEF Tokens
<1>10. Split!Token(c, s, S, <<>>)
  BY <1>8, <1>9, TokenIs
<1>11. s \in UNION {[1 .. n -> Chars \ {0}] : n \in UNION {0 .. Size[b] : b \in Buffers}}
  <2>1. Lists(mem, c, 0, l, s)
    BY <1>1, <1>2, <1>7, StringIs
  <2>2. l \in Nat /\ 0 + l < Extent(mem, c)
    BY <1>2 DEF Str
  <2>3. l \in 0 .. Size[c]
    BY <1>1, <2>2
  <2>4. s \in [1 .. l -> Chars] /\ \A i \in 1 .. l : s[i] = mem[c][0 + (i - 1)]
    BY <2>1 DEF Lists, List
  <2>5. \A i \in 1 .. l : s[i] # 0
    <3> SUFFICES ASSUME NEW i \in 1 .. l PROVE s[i] # 0
      OBVIOUS
    <3>1. i - 1 \in 0 .. l - 1
      BY <2>2
    <3> QED
      BY <1>2, <2>4, <3>1 DEF Str
  <2>6. s \in [1 .. l -> Chars \ {0}]
    BY <2>4, <2>5
  <2>7. l \in UNION {0 .. Size[b] : b \in Buffers}
    BY <1>1, <2>3
  <2> QED
    BY <2>6, <2>7
<1>12. S \in {DelimiterSet(d) : d \in Delimiters}
  BY <1>7
<1> QED
  BY <1>10, <1>11, <1>12 DEF Split!First, DelimiterSet

LEMMA MoreTakes == ASSUME StringInv, NEW c \in Clients, MoreTokens(c) PROVE Split!More(c)
<1>1. MemInv /\ c \in busy /\ busy' = busy \cup {c}
  BY DEF StringInv, MoreTokens
<1>2. RestOK(mem, lasts[c], c) /\ TokensOK(mem, lasts[c], taken[c], c)
  BY <1>1 DEF StringInv
<1>3. PICK D \in Delimiters : strtok_r(c, lasts[c], delimiters(D))
  BY DEF MoreTokens
<1>4. c # "empty"
  BY BufferAssumption DEF Clients
<1>5. PICK s, S : s = StringAt(mem, lasts[c]) /\ S = DelimiterSet(D)
  OBVIOUS
<1>6. Parts(c, s, S)
  <2>1. CASE lasts[c] = EmptyString
    <3>1. strtok_r(c, <<"empty", 0>>, delimiters(D)) /\ s = StringAt(mem, <<"empty", 0>>)
      BY <1>3, <1>5, <2>1 DEF EmptyString
    <3>2. Str(mem, "empty", 0, 0) /\ mem["empty"][0] = 0
      BY <1>1, EmptyIs
    <3>3. Parts(c, StringAt(mem, <<"empty", 0>>), DelimiterSet(D))
      BY <1>1, <1>4, <3>1, <3>2, TokenParts
    <3> QED
      BY <1>5, <3>1, <3>3
  <2>2. CASE lasts[c] # EmptyString
    <3>1. PICK y, l : lasts[c] = <<c, y>> /\ Str(mem, c, y, l)
      BY <1>2, <2>2 DEF RestOK
    <3>2. Earlier(taken[c], mem, c, y)
      BY <1>2, <3>1 DEF TokensOK, Earlier
    <3>3. strtok_r(c, <<c, y>>, delimiters(D))
      BY <1>3, <3>1
    <3>4. Parts(c, StringAt(mem, <<c, y>>), DelimiterSet(D))
      BY <1>1, <3>1, <3>2, <3>3, TokenParts
    <3> QED
      BY <1>5, <3>1, <3>4
  <2> QED
    BY <2>1, <2>2
<1>7. Rests[c] = s
  BY <1>1, <1>5 DEF Rests
<1>8. Split!Token(c, Rests[c], S, Tokens[c])
  <2>1. /\ Rests' = [Rests EXCEPT ![c] = Left(Rests[c], S)]
        /\ Tokens' = [Tokens EXCEPT ![c] =
                        IF Begun(Rests[c], S) = <<>> THEN Tokens[c] ELSE Append(Tokens[c], Word(Rests[c], S))]
    BY <1>6, <1>7 DEF Parts
  <2> QED
    BY <2>1 DEF Split!Token, Begun, Word, Left, Rests, Tokens, TokensOf
<1>9. S \in {DelimiterSet(d) : d \in Delimiters}
  BY <1>5
<1> QED
  BY <1>8, <1>9 DEF Split!More, DelimiterSet, Rests, Tokens, TokensOf

(* Every other call leaves what the clients see.                           *)
LEMMA WriteHidden ==
  ASSUME StringInv, NEW d \in Writable, NEW f, Writes(mem', d, f), UNCHANGED <<lasts, taken, busy>>
  PROVE  Rests' = Rests /\ Tokens' = Tokens
<1>1. Memory(mem) /\ DOMAIN mem = Buffers \cup {"literal", "empty"}
  BY DEF StringInv, MemInv
<1>2. PICK a \in Buffers \ busy, x \in Nat : Place(d, a, x)
  <2>1. Buffers \ busy \subseteq DOMAIN mem
    BY <1>1
  <2> QED
    BY <1>1, <2>1, PlaceIs DEF Writable
<1>3. PICK k : List(f, k)
  BY DEF Writes
<1>4. d = <<a, x>> /\ a \in DOMAIN mem
  BY <1>2 DEF Place
<1>5. mem' = Over(mem, <<a, x>>, f)
  BY <1>4 DEF Writes, Over, Overwritten
<1>6. Changed(mem, mem', a, x, k, f)
  BY <1>1, <1>3, <1>4, <1>5, OverFacts
<1>7. /\ Memory(mem') /\ DOMAIN mem' = DOMAIN mem
      /\ \A c \in DOMAIN mem : Extent(mem', c) = Extent(mem, c) /\ (c # a => mem'[c] = mem[c])
  BY <1>6 DEF Changed
<1>8. a # "empty"
  BY BufferAssumption
<1>9. ASSUME NEW c \in Clients PROVE Rests'[c] = Rests[c] /\ Tokens'[c] = Tokens[c]
  <2>1. CASE c = a
    <3>1. c \notin busy /\ c \notin busy' /\ taken[c] = <<>> /\ taken'[c] = <<>>
      BY <1>2, <2>1 DEF StringInv
    <3>2. Rests'[c] = <<>> /\ Rests[c] = <<>>
      BY <3>1 DEF Rests
    <3>3. Tokens'[c] = TokensOf(mem', <<>>) /\ Tokens[c] = TokensOf(mem, <<>>)
      BY <3>1 DEF Tokens, TokensOf
    <3> QED
      BY <3>2, <3>3, NoTokens
  <2>2. CASE c # a
    BY <1>7, <1>8, <2>2, OthersSee
  <2> QED
    BY <2>1, <2>2
<1>10. PICK R, Q, T, U : R = Rests /\ Q = Rests' /\ T = Tokens /\ U = Tokens'
  OBVIOUS
<1>11. /\ R = [c \in Clients |-> R[c]] /\ Q = [c \in Clients |-> Q[c]]
       /\ T = [c \in Clients |-> T[c]] /\ U = [c \in Clients |-> U[c]]
  BY <1>10 DEF Rests, Tokens
<1>12. \A c \in Clients : Q[c] = R[c] /\ U[c] = T[c]
  BY <1>9, <1>10
<1>13. Q = R /\ U = T
  BY <1>11, <1>12
<1> QED
  BY <1>10, <1>13

LEMMA DoneForgets == ASSUME StringInv, NEW c \in Clients, Done(c) PROVE Split!Forget(c)
<1>1. /\ c \in busy /\ busy' = busy \ {c} /\ taken' = [taken EXCEPT ![c] = <<>>]
      /\ mem' = mem /\ lasts' = lasts /\ taken = [d \in Clients |-> taken[d]]
  BY DEF Done, StringInv
<1>2. taken'[c] = <<>> /\ \A d \in Clients : d # c => taken'[d] = taken[d]
  BY <1>1
<1>3. PICK R, Q, T, U : R = Rests /\ Q = Rests' /\ T = Tokens /\ U = Tokens'
  OBVIOUS
<1>4. /\ R = [d \in Clients |-> R[d]] /\ Q = [d \in Clients |-> Q[d]]
      /\ T = [d \in Clients |-> T[d]] /\ U = [d \in Clients |-> U[d]]
  BY <1>3 DEF Rests, Tokens
<1>5. Q[c] = <<>> /\ \A d \in Clients : d # c => Q[d] = R[d]
  BY <1>1, <1>3 DEF Rests
<1>6. U[c] = <<>>
  <2>1. U[c] = TokensOf(mem', <<>>)
    BY <1>2, <1>3 DEF Tokens, TokensOf
  <2> QED
    BY <2>1, NoTokens
<1>7. \A d \in Clients : d # c => U[d] = T[d]
  BY <1>1, <1>2, <1>3 DEF Tokens, TokensOf
<1>8. Q = [R EXCEPT ![c] = <<>>]
  BY <1>4, <1>5, UpdateIs
<1>9. U = [T EXCEPT ![c] = <<>>]
  BY <1>4, <1>6, <1>7, UpdateIs
<1>10. Rests' = [Rests EXCEPT ![c] = <<>>] /\ Tokens' = [Tokens EXCEPT ![c] = <<>>]
  BY <1>3, <1>8, <1>9
<1> QED
  BY <1>10 DEF Split!Forget, Rests, Tokens, TokensOf

LEMMA SplitInit == Init => Split!Init
<1> SUFFICES ASSUME Init PROVE Split!Init
  OBVIOUS
<1>1. busy = {} /\ taken = [c \in Clients |-> <<>>]
  BY DEF Init
<1>2. Rests = [c \in Clients |-> <<>>]
  BY <1>1 DEF Rests
<1>3. \A c \in Clients : TokensOf(mem, taken[c]) = <<>>
  BY <1>1, NoTokens
<1>4. Tokens = [c \in Clients |-> <<>>]
  BY <1>3 DEF Tokens
<1> QED
  BY <1>2, <1>4 DEF Split!Init, Rests, Tokens, TokensOf

LEMMA SplitNext ==
  ASSUME StringInv, [Next]_libVars
  PROVE  [Split!Next]_(Split!tokenizerVars)
<1>0. MemInv
  BY DEF StringInv
<1>1. ASSUME Rests' = Rests, Tokens' = Tokens PROVE UNCHANGED Split!tokenizerVars
  BY <1>1 DEF Split!tokenizerVars, Rests, Tokens, TokensOf
<1>2. CASE MemCpy
  <2>1. PICK d \in Writable, s \in Readable, n \in 0 .. MaxCount : MayCopy(d, s, n) /\ mem' = memcpy(mem, d, s, n)
    BY <1>2 DEF MemCpy, Call
  <2>2. Writes(mem', d, Bytes(mem, s, n))
    BY <1>0, <2>1, CallsWrite
  <2>3. Rests' = Rests /\ Tokens' = Tokens
    BY <1>2, <2>2, WriteHidden DEF MemCpy, Call
  <2> QED
    BY <1>1, <2>3
<1>3. CASE MemMove
  <2>1. PICK d \in Writable, s \in Readable, n \in 0 .. MaxCount : MayMove(d, s, n) /\ mem' = memmove(mem, d, s, n)
    BY <1>3 DEF MemMove, Call
  <2>2. Writes(mem', d, Bytes(mem, s, n))
    BY <1>0, <2>1, CallsWrite
  <2>3. Rests' = Rests /\ Tokens' = Tokens
    BY <1>3, <2>2, WriteHidden DEF MemMove, Call
  <2> QED
    BY <1>1, <2>3
<1>4. CASE StrNCpy
  <2>1. PICK d \in Writable, s \in Readable, n \in 0 .. MaxCount :
          MayCopyString(d, s, n) /\ mem' = strncpy(mem, d, s, n)
    BY <1>4 DEF StrNCpy, Call
  <2>2. Writes(mem', d, Padded(Limited(s, n), n))
    BY <1>0, <2>1, CallsWrite
  <2>3. Rests' = Rests /\ Tokens' = Tokens
    BY <1>4, <2>2, WriteHidden DEF StrNCpy, Call
  <2> QED
    BY <1>1, <2>3
<1>5. CASE StrNCat
  <2>1. PICK d \in Writable, s \in Readable, n \in 0 .. MaxCount :
          MayAppend(d, s, n) /\ mem' = strncat(mem, d, s, n)
    BY <1>5 DEF StrNCat, Call
  <2>2. Writes(mem', d, StringAt(mem, d) \o Limited(s, n) \o <<0>>)
    BY <1>0, <2>1, CallsWrite
  <2>3. Rests' = Rests /\ Tokens' = Tokens
    BY <1>5, <2>2, WriteHidden DEF StrNCat, Call
  <2> QED
    BY <1>1, <2>3
<1>6. CASE StrCat
  <2>1. PICK d \in Writable, s \in Readable :
          IsString(s) /\ MayAppend(d, s, strlen(mem, s)) /\ mem' = strcat(mem, d, s)
    BY <1>6 DEF StrCat
  <2>2. 0 \in 0 .. MaxCount
    BY BoundAssumption
  <2>3. Writes(mem', d, StringAt(mem, d) \o StringAt(mem, s) \o <<0>>)
    BY <1>0, <2>1, <2>2, CallsWrite
  <2>4. Rests' = Rests /\ Tokens' = Tokens
    BY <1>6, <2>3, WriteHidden DEF StrCat
  <2> QED
    BY <1>1, <2>4
<1>7. ASSUME NEW c \in Clients, FirstToken(c) \/ MoreTokens(c) \/ Done(c)
      PROVE  Split!Next
  <2>1. Split!First(c) \/ Split!More(c) \/ Split!Forget(c)
    BY <1>7, FirstTakes, MoreTakes, DoneForgets
  <2> QED
    BY <2>1 DEF Split!Next
<1>8. CASE UNCHANGED <<mem, lasts, taken, busy>>
  <2>1. Rests' = Rests /\ Tokens' = Tokens
    BY <1>8 DEF Rests, Tokens, TokensOf
  <2> QED
    BY <1>1, <2>1
<1>9. CASE Compute
  BY <1>8, <1>9 DEF Compute
<1>10. CASE UNCHANGED libVars
  BY <1>8, <1>10 DEF libVars
<1> QED
  BY <1>2, <1>3, <1>4, <1>5, <1>6, <1>7, <1>9, <1>10 DEF Next

-----------------------------------------------------------------------------
LEMMA StringInvariant == Spec => []StringInv
BY StringInit, StringNext, PTL DEF Spec

(* Whatever the program calls, no function of string.c writes a byte       *)
(* outside of a buffer or one that is no char, and what strtok and         *)
(* strtok_r saved is the end of a string in the client's own buffer, or    *)
(* the empty string literal.                                               *)
THEOREM TypeCorrect == Spec => []TypeOK
BY StringInvariant, StringTypeOK, PTL

(* memcpy, memmove, strncpy, strncat and strcat change the bytes of their  *)
(* destination to what the source was before the call, and no others, in   *)
(* every state a program can reach, whatever the buffers and the counts:   *)
(* also where memmove's source and destination overlap, and where strncpy  *)
(* and strncat are cut short or filled up.                                 *)
THEOREM CopiesCorrect == Spec => []CopiesAgree
<1>1. StringInv => CopiesAgree
  BY CopiesHold DEF StringInv
<1> QED
  BY <1>1, StringInvariant, PTL

(* strcmp, strncmp and memcmp give the sign of the lexicographic order of  *)
(* the strings, of what the count leaves of them or of the bytes, taken as *)
(* unsigned characters, in every state a program can reach: whatever the   *)
(* width of a character, the buffers and the counts, also where the two    *)
(* arguments are parts of one buffer.                                      *)
THEOREM ComparisonsCorrect == Spec => []ComparisonsAgree
<1>1. StringInv => ComparisonsAgree
  BY ComparisonsHold DEF StringInv
<1> QED
  BY <1>1, StringInvariant, PTL

(* strchr, strrchr, memchr, strspn, strcspn, strpbrk and strstr find the   *)
(* first, or the last, place that the string or the bytes have, and Null   *)
(* if there is none.  strchr and strrchr find the terminating 0 too; they  *)
(* are given a value of char, memchr is given any int and converts it.     *)
THEOREM SearchesCorrect == Spec => []SearchesAgree
<1>1. StringInv => SearchesAgree
  BY SearchesHold DEF StringInv
<1> QED
  BY <1>1, StringInvariant, PTL

(* strtok and strtok_r implement Tokenizer: clients that take their strings *)
(* apart at the same time, one with strtok's static pointer, get the tokens *)
(* of their own strings, with delimiters that may change from call to call, *)
(* and the tokens they have stay as they are although the strings are cut   *)
(* in place and other buffers are written.                                  *)
THEOREM TokensTaken == Spec => TakesTokens
<1>1. StringInv /\ [Next]_libVars => [Split!Next]_(Split!tokenizerVars)
  BY SplitNext
<1> QED
  BY <1>1, SplitInit, StringInvariant, PTL DEF Spec, TakesTokens, Split!Spec
==============================================================================
