---------------------------- MODULE ThreadsProofs ----------------------------
(***************************************************************************)
(* Theorems about Threads, for any number of threads, objects, values and  *)
(* mutexes: type correctness, and, for a program that obeys the lock       *)
(* discipline, mutual exclusion, visibility of guarded writes and absence  *)
(* of false race reports.                                                  *)
(***************************************************************************)
EXTENDS Threads, TLAPS

-----------------------------------------------------------------------------
(* Sequences: what removing or replacing the first item leaves.            *)

LEMMA TailFacts ==
  ASSUME NEW S, NEW s \in Seq(S), s # <<>>
  PROVE  /\ Head(s) \in S /\ Head(s) = s[1] /\ 1 \in DOMAIN s
         /\ Tail(s) \in Seq(S)
         /\ \A i \in DOMAIN Tail(s) : i + 1 \in DOMAIN s /\ Tail(s)[i] = s[i + 1]
         /\ Len(s) \in Nat \ {0} /\ Len(Tail(s)) = Len(s) - 1
OBVIOUS

LEMMA TailItems ==
  ASSUME NEW S, NEW s \in Seq(S), s # <<>>
  PROVE  \A i \in DOMAIN s :
           /\ i \in Nat /\ i >= 1
           /\ i > 1 => i - 1 \in DOMAIN Tail(s) /\ Tail(s)[i - 1] = s[i]
OBVIOUS

LEMMA ConsFacts ==
  ASSUME NEW S, NEW s \in Seq(S), NEW a \in S
  PROVE  /\ <<a>> \o s \in Seq(S)
         /\ (<<a>> \o s)[1] = a
         /\ \A i \in DOMAIN (<<a>> \o s) :
              i # 1 => i - 1 \in DOMAIN s /\ (<<a>> \o s)[i] = s[i - 1]
         /\ \A i \in DOMAIN s :
              i + 1 \in DOMAIN (<<a>> \o s) /\ (<<a>> \o s)[i + 1] = s[i]
OBVIOUS

(* What an item of a computation carries, by its kind.                     *)
LEMMA ItemFacts ==
  ASSUME NEW h \in KItems
  PROVE  /\ h.op \in {"read", "readActual", "write"} => h.loc \in Locs
         /\ h.op = "write" => h.val \in Tids \cup Values
         /\ h.op = "value" => h.val \in Values
         /\ h.op = "thrd_create" => h.arg \in Locs
         /\ h.op = "thrd_join" =>
              h.arg[1] \in Tids /\ h.arg[2] \in Locs \cup {NoLoc}
         /\ h.op \in {"mtx_init", "mtx_lock", "mtx_unlock"} => h.arg \in Mutexes
         /\ h.op = "spawn-aux" => h.tid \in Tids \ {0}
         /\ h.op = "join-aux" => h.tid \in Tids /\ h.ptr \in Locs \cup {NoLoc}
BY ThreadsAssumption
   DEF KItems, Statements, Tids, read, write, readActual, value, spawnAux,
       joinAux, HALT, builtin

LEMMA ValuesAreNaturals == Tids \cup Values \subseteq Nat
BY ThreadsAssumption DEF Tids

LEMMA MakeItems ==
  /\ \A l \in Locs : readActual(l) \in KItems
  /\ \A l \in Locs, v \in Tids \cup Values : write(l, v) \in KItems
  /\ \A u \in Tids \ {0} : spawnAux(u) \in KItems
  /\ \A u \in Tids, p \in Locs \cup {NoLoc} : joinAux(u, p) \in KItems
  /\ HALT \in KItems
  /\ Statements \subseteq KItems
BY DEF KItems, Statements

-----------------------------------------------------------------------------
(* Type correctness.                                                       *)

LEMMA TypeInit == Init => TypeOK
BY ThreadsAssumption DEF Init, TypeOK, Tids

LEMMA TypeStep == TypeOK /\ [Next]_vars => TypeOK'
<1> SUFFICES ASSUME TypeOK, [Next]_vars
             PROVE  TypeOK'
  OBVIOUS
<1> USE ThreadsAssumption
<1>t. ASSUME NEW t \in Tids, k[t] # <<>>
      PROVE  /\ Head(k[t]) \in KItems
             /\ Rest(t) \in Seq(KItems)
  BY <1>t, TailFacts DEF TypeOK, Rest
<1>c. ASSUME NEW a \in KItems, NEW s \in Seq(KItems)
      PROVE  Then(a, s) \in Seq(KItems)
  BY ConsFacts DEF Then
<1>e. <<>> \in Seq(KItems) /\ <<>> \in Seq([loc : Locs, val : Nat])
  OBVIOUS
<1>1. ASSUME NEW t \in Tids, NEW s \in Statements, Issue(t, s)
      PROVE  TypeOK'
  <2>1. s \in KItems /\ <<s>> \in Seq(KItems)
    BY MakeItems
  <2>2. k' \in [Tids -> Seq(KItems)]
    BY <1>1, <2>1 DEF TypeOK, Issue
  <2>3. stmts' \in [Tids -> Nat]
    BY <1>1 DEF TypeOK, Issue
  <2> QED
    BY <1>1, <2>2, <2>3 DEF TypeOK, Issue
<1>2. ASSUME NEW t \in Tids, Read(t)
      PROVE  TypeOK'
  <2>1. Head(k[t]) \in KItems /\ Head(k[t]).loc \in Locs /\ Rest(t) \in Seq(KItems)
    BY <1>2, <1>t, ItemFacts DEF Read, AtHead
  <2>2. Then(readActual(Head(k[t]).loc), Rest(t)) \in Seq(KItems)
    BY <2>1, <1>c, MakeItems
  <2> QED
    BY <1>2, <2>2 DEF TypeOK, Read, Rewrite
<1>3. ASSUME NEW t \in Tids, ReadActual(t)
      PROVE  TypeOK'
  BY <1>3, <1>t DEF TypeOK, ReadActual, Rewrite, AtHead
<1>4. ASSUME NEW t \in Tids, Write(t)
      PROVE  TypeOK'
  <2>1. /\ Head(k[t]).loc \in Locs /\ Head(k[t]).val \in Nat
        /\ Rest(t) \in Seq(KItems)
    BY <1>4, <1>t, ItemFacts, ValuesAreNaturals DEF Write, AtHead
  <2>2. k' \in [Tids -> Seq(KItems)]
    BY <1>4, <2>1 DEF TypeOK, Write, Rewrite
  <2>3. buffer' \in [Tids -> Seq([loc : Locs, val : Nat])]
    BY <1>4, <2>1 DEF TypeOK, Write
  <2>4. latest' \in [Locs -> Nat]
    BY <1>4, <2>1 DEF TypeOK, Write
  <2> QED
    BY <1>4, <2>2, <2>3, <2>4 DEF TypeOK, Write
<1>5. ASSUME NEW t \in Tids, Flush(t)
      PROVE  TypeOK'
  <2>1. /\ Head(buffer[t]) \in [loc : Locs, val : Nat]
        /\ Tail(buffer[t]) \in Seq([loc : Locs, val : Nat])
    BY <1>5, TailFacts DEF TypeOK, Flush
  <2> QED
    BY <1>5, <2>1 DEF TypeOK, Flush
<1>6. ASSUME NEW t \in Tids, ThrdCreateStart(t)
      PROVE  TypeOK'
  <2>1. Head(k[t]).arg \in Locs /\ Rest(t) \in Seq(KItems)
    BY <1>6, <1>t, ItemFacts DEF ThrdCreateStart, AtHead
  <2>2. nextThreadId \in Tids \ {0} /\ nextThreadId + 1 \in 1 .. MaxThread + 1
    BY <1>6 DEF ThrdCreateStart, TypeOK, Tids
  <2>3. Then(write(Head(k[t]).arg, nextThreadId),
             Then(spawnAux(nextThreadId), Rest(t))) \in Seq(KItems)
    BY <2>1, <2>2, <1>c, MakeItems
  <2> QED
    BY <1>6, <2>2, <2>3 DEF TypeOK, ThrdCreateStart, Rewrite
<1>7. ASSUME NEW t \in Tids, ThrdCreate(t)
      PROVE  TypeOK'
  <2>1. Head(k[t]).tid \in Tids /\ Rest(t) \in Seq(KItems)
    BY <1>7, <1>t, ItemFacts DEF ThrdCreate, AtHead
  <2> QED
    BY <1>7, <2>1 DEF TypeOK, ThrdCreate, Rewrite
<1>8. ASSUME NEW t \in Tids, ThrdJoinStart(t)
      PROVE  TypeOK'
  <2>1. /\ Head(k[t]).arg[1] \in Tids /\ Head(k[t]).arg[2] \in Locs \cup {NoLoc}
        /\ Rest(t) \in Seq(KItems)
    BY <1>8, <1>t, ItemFacts DEF ThrdJoinStart, AtHead
  <2>2. Then(joinAux(Head(k[t]).arg[1], Head(k[t]).arg[2]), Rest(t)) \in Seq(KItems)
    BY <2>1, <1>c, MakeItems
  <2> QED
    BY <1>8, <2>2 DEF TypeOK, ThrdJoinStart, Rewrite
<1>9. ASSUME NEW t \in Tids, ThrdJoin(t)
      PROVE  TypeOK'
  <2> DEFINE u == Head(k[t]).tid
  <2> DEFINE p == Head(k[t]).ptr
  <2>1. /\ u \in Tids /\ p \in Locs \cup {NoLoc}
        /\ Rest(t) \in Seq(KItems)
    BY <1>9, <1>t, ItemFacts DEF ThrdJoin, AtHead
  <2>2. k[u][1] \in KItems /\ k[u][1].val \in Values
    <3>1. k[u] # <<>> /\ k[u][1].op = "value"
      BY <1>9 DEF ThrdJoin, Joinable
    <3> QED
      BY <2>1, <3>1, <1>t, ItemFacts, TailFacts DEF TypeOK
  <2>3. p # NoLoc => Then(write(p, k[u][1].val), Rest(t)) \in Seq(KItems)
    BY <2>1, <2>2, <1>c, MakeItems
  <2> HIDE DEF u, p
  <2>4. PICK ks \in Seq(KItems) :
          k' = [k EXCEPT ![t] = ks, ![u] = <<>>]
    <3>1. k' = [k EXCEPT ![t] = IF p = NoLoc THEN Rest(t)
                               ELSE Then(write(p, k[u][1].val), Rest(t)),
                         ![u] = <<>>]
      BY <1>9 DEF ThrdJoin, u, p
    <3> QED
      BY <2>1, <2>3, <3>1
  <2>5. k' \in [Tids -> Seq(KItems)]
    BY <2>1, <2>4, <1>e DEF TypeOK
  <2>6. /\ threads' = threads \ {u}
        /\ buffer' = [buffer EXCEPT ![u] = <<>>]
        /\ locks' = [locks EXCEPT ![u] = [m \in Mutexes |-> 0]]
        /\ threadStatus' = [threadStatus EXCEPT ![u] = "threadJoined"]
        /\ UNCHANGED <<mem, nextThreadId, mutexes, glocks, errors, status,
                       stmts, latest>>
    BY <1>9 DEF ThrdJoin, JoinedStatus, u
  <2>7. buffer' \in [Tids -> Seq([loc : Locs, val : Nat])]
    BY <2>1, <2>6, <1>e DEF TypeOK
  <2>8. locks' \in [Tids -> [Mutexes -> Nat]]
    BY <2>1, <2>6 DEF TypeOK
  <2>9. threadStatus' \in [Tids -> {"none", "threadRunning", "threadJoined"}]
    BY <2>1, <2>6 DEF TypeOK
  <2> QED
    BY <2>5, <2>6, <2>7, <2>8, <2>9 DEF TypeOK
<1>10. ASSUME NEW t \in Tids, ThrdJoinUndef(t)
       PROVE  TypeOK'
  <2>1. Then(HALT, k[t]) \in Seq(KItems)
    BY <1>c, MakeItems DEF TypeOK
  <2>2. k' \in [Tids -> Seq(KItems)]
    BY <1>10, <2>1 DEF TypeOK, ThrdJoinUndef, Rewrite
  <2>3. errors' \subseteq [code : {"CEER4", "CEER5", "THREADS1"},
                            loc : Locs \cup {NoLoc}]
    BY <1>10 DEF TypeOK, ThrdJoinUndef
  <2> QED
    BY <1>10, <2>2, <2>3 DEF TypeOK, ThrdJoinUndef
<1>11. ASSUME NEW t \in Tids, MtxInit(t)
       PROVE  TypeOK'
  <2>1. Head(k[t]).arg \in Mutexes /\ Rest(t) \in Seq(KItems)
    BY <1>11, <1>t, ItemFacts DEF MtxInit, AtHead
  <2> QED
    BY <1>11, <2>1 DEF TypeOK, MtxInit, Rewrite
<1>12. ASSUME NEW t \in Tids, MtxLock(t)
       PROVE  TypeOK'
  <2>1. Head(k[t]).arg \in Mutexes /\ Rest(t) \in Seq(KItems)
    BY <1>12, <1>t, ItemFacts DEF MtxLock, AtHead
  <2>2. k' \in [Tids -> Seq(KItems)]
    BY <1>12, <2>1 DEF TypeOK, MtxLock, Rewrite
  <2>3. locks' \in [Tids -> [Mutexes -> Nat]]
    BY <1>12, <2>1, SMTT(30) DEF TypeOK, MtxLock
  <2> QED
    BY <1>12, <2>1, <2>2, <2>3 DEF TypeOK, MtxLock
<1>13. ASSUME NEW t \in Tids, MtxUnlock(t)
       PROVE  TypeOK'
  <2>1. Head(k[t]).arg \in Mutexes /\ Rest(t) \in Seq(KItems)
    BY <1>13, <1>t, ItemFacts DEF MtxUnlock, AtHead
  <2>2. k' \in [Tids -> Seq(KItems)]
    BY <1>13, <2>1 DEF TypeOK, MtxUnlock, Rewrite
  <2>3. locks' \in [Tids -> [Mutexes -> Nat]]
    BY <1>13, <2>1 DEF TypeOK, MtxUnlock, removeListItem
  <2> QED
    BY <1>13, <2>1, <2>2, <2>3 DEF TypeOK, MtxUnlock
<1>14. ASSUME NEW t \in Tids, NEW u \in Tids, Race(t, u)
       PROVE  TypeOK'
  <2>1. Then(HALT, k[t]) \in Seq(KItems) /\ Then(HALT, k[u]) \in Seq(KItems)
    BY <1>c, MakeItems DEF TypeOK
  <2>2. Head(k[t]).loc \in Locs
    BY <1>14, <1>t, ItemFacts DEF Race, Conflict, AtHead
  <2>3. k' \in [Tids -> Seq(KItems)]
    BY <1>14, <2>1 DEF TypeOK, Race, Conflict
  <2>4. errors' \subseteq [code : {"CEER4", "CEER5", "THREADS1"},
                            loc : Locs \cup {NoLoc}]
    BY <1>14, <2>2 DEF TypeOK, Race
  <2> QED
    BY <1>14, <2>3, <2>4 DEF TypeOK, Race
<1>15. ASSUME MainEnd
       PROVE  TypeOK'
  <2>1. k' \in [Tids -> Seq(KItems)]
    BY <1>15, <1>e DEF TypeOK, MainEnd
  <2>3. buffer' \in [Tids -> Seq([loc : Locs, val : Nat])]
    BY <1>15, <1>e DEF TypeOK, MainEnd
  <2>2. locks' \in [Tids -> [Mutexes -> Nat]]
    BY <1>15 DEF TypeOK, MainEnd
  <2> QED
    BY <1>15, <2>1, <2>2, <2>3 DEF TypeOK, MainEnd
<1>16. CASE UNCHANGED vars
  BY <1>16 DEF TypeOK, vars
<1> QED
  BY <1>1, <1>2, <1>3, <1>4, <1>5, <1>6, <1>7, <1>8, <1>9, <1>10, <1>11,
     <1>12, <1>13, <1>14, <1>15, <1>16 DEF Next, ThreadStep

(* Every cell of the thread configuration keeps its type, whatever the     *)
(* program does.                                                           *)
THEOREM TypeCorrect == Spec => []TypeOK
BY TypeInit, TypeStep, PTL DEF Spec

-----------------------------------------------------------------------------
(* The lock discipline.                                                    *)

(* WellFormed under the ways a computation changes.                        *)

LEMMA WellFormedTail ==
  ASSUME NEW ks \in Seq(KItems), ks # <<>>, NEW lk, WellFormed(ks, lk)
  PROVE  WellFormed(Tail(ks), lk)
<1> DEFINE T == Tail(ks)
<1>1. \A i \in DOMAIN T : i \in Nat /\ i + 1 \in DOMAIN ks /\ T[i] = ks[i + 1]
  BY TailFacts
<1> HIDE DEF T
<1>2. \A i, j \in DOMAIN T : j # i => j + 1 # i + 1
  BY <1>1
<1>3. WellFormed(T, lk)
  BY <1>1, <1>2 DEF WellFormed
<1> QED
  BY <1>3 DEF T

(* Past a head that is neither HALT nor a lone item, no item is a lone one. *)
LEMMA NoSoloAfter ==
  ASSUME NEW ks \in Seq(KItems), ks # <<>>, NEW lk, WellFormed(ks, lk),
         Head(ks).op # "HALT"
  PROVE  \A i \in DOMAIN Tail(ks) : Tail(ks)[i].op \notin SoloOps
<1> SUFFICES ASSUME NEW i \in DOMAIN Tail(ks), Tail(ks)[i].op \in SoloOps
             PROVE  FALSE
  OBVIOUS
<1>1. /\ i + 1 \in DOMAIN ks /\ ks[i + 1].op \in SoloOps
      /\ 1 \in DOMAIN ks /\ 1 # i + 1 /\ Head(ks) = ks[1]
  BY TailFacts
<1> QED
  BY <1>1 DEF WellFormed

(* Past a lone item there is only HALT, which asks for no lock.            *)
LEMMA OnlyHaltAfterSolo ==
  ASSUME NEW ks \in Seq(KItems), ks # <<>>, NEW lk, WellFormed(ks, lk),
         Head(ks).op \in SoloOps, NEW lk2
  PROVE  WellFormed(Tail(ks), lk2)
<1>1. \A i \in DOMAIN Tail(ks) : Tail(ks)[i].op = "HALT"
  <2>1. \A i \in DOMAIN Tail(ks) :
          i + 1 \in DOMAIN ks /\ i + 1 # 1 /\ Tail(ks)[i] = ks[i + 1]
    BY TailFacts
  <2>2. 1 \in DOMAIN ks /\ ks[1].op \in SoloOps
    BY TailFacts
  <2> QED
    BY <2>1, <2>2 DEF WellFormed
<1> QED
  BY <1>1 DEF WellFormed, Covered, Touches, SoloOps

LEMMA WellFormedHalt ==
  ASSUME NEW ks \in Seq(KItems), NEW lk, WellFormed(ks, lk)
  PROVE  WellFormed(Then(HALT, ks), lk)
<1> DEFINE H == Then(HALT, ks)
<1>1. /\ H[1] = HALT
      /\ \A i \in DOMAIN H : i \in Nat
      /\ \A i \in DOMAIN H : i # 1 => i - 1 \in DOMAIN ks /\ H[i] = ks[i - 1]
  BY ConsFacts, MakeItems DEF Then
<1> HIDE DEF H
<1>2. HALT.op = "HALT"
  BY DEF HALT
<1>3. \A i \in DOMAIN H : Covered(H[i], lk)
  BY <1>1, <1>2 DEF WellFormed, Covered, Touches
<1>4. ASSUME NEW i \in DOMAIN H, H[i].op \in SoloOps, NEW j \in DOMAIN H, j # i
      PROVE  H[j].op = "HALT"
  <2>1. i # 1
    BY <1>1, <1>2, <1>4 DEF SoloOps
  <2>2. CASE j = 1
    BY <1>1, <1>2, <2>2
  <2>3. CASE j # 1
    <3>1. j - 1 # i - 1
      BY <1>1, <1>4
    <3> QED
      BY <1>1, <1>4, <2>1, <2>3, <3>1 DEF WellFormed
  <2> QED
    BY <2>2, <2>3
<1> QED
  BY <1>3, <1>4 DEF WellFormed, H

LEMMA WellFormedPush ==
  ASSUME NEW ks \in Seq(KItems), NEW lk, WellFormed(ks, lk),
         \A i \in DOMAIN ks : ks[i].op \notin SoloOps,
         NEW a \in KItems, Covered(a, lk), a.op \notin SoloOps
  PROVE  /\ WellFormed(Then(a, ks), lk)
         /\ \A i \in DOMAIN Then(a, ks) : Then(a, ks)[i].op \notin SoloOps
<1> DEFINE H == Then(a, ks)
<1>1. /\ H[1] = a
      /\ \A i \in DOMAIN H : i # 1 => i - 1 \in DOMAIN ks /\ H[i] = ks[i - 1]
  BY ConsFacts DEF Then
<1> HIDE DEF H
<1>2. \A i \in DOMAIN H : Covered(H[i], lk) /\ H[i].op \notin SoloOps
  BY <1>1 DEF WellFormed
<1> QED
  BY <1>2 DEF WellFormed, H

(* The first lock taken of a mutex covers no less than before.             *)
LEMMA WellFormedMore ==
  ASSUME NEW ks \in Seq(KItems), NEW lk \in [Mutexes -> Nat],
         NEW lk2 \in [Mutexes -> Nat], WellFormed(ks, lk),
         \A m \in Mutexes : lk[m] > 0 => lk2[m] > 0,
         \A i \in DOMAIN ks : ks[i].op # "value"
  PROVE  WellFormed(ks, lk2)
<1>1. \A i \in DOMAIN ks : ks[i] \in KItems
  OBVIOUS
<1>2. \A l \in Locs : Guard[l] # NoMutex => Guard[l] \in Mutexes
  BY ThreadsAssumption
<1>3. ASSUME NEW i \in DOMAIN ks
      PROVE  Covered(ks[i], lk2)
  <2>1. Covered(ks[i], lk) /\ ks[i].op # "value"
    BY DEF WellFormed
  <2>2. ks[i].op = "mtx_unlock" => ks[i].arg \in Mutexes
    BY <1>1, ItemFacts
  <2> QED
    BY <1>2, <2>1, <2>2 DEF Covered, Touches
<1> QED
  BY <1>3 DEF WellFormed

-----------------------------------------------------------------------------
(* Steps that only rewrite one computation.                                *)

LEMMA RewriteKeeps ==
  ASSUME TypeOK, AllWellFormed, NEW t \in Tids, NEW ks,
         k' = [k EXCEPT ![t] = ks], WellFormed(ks, locks[t]),
         UNCHANGED locks
  PROVE  AllWellFormed'
<1> SUFFICES ASSUME NEW s \in Tids
             PROVE  WellFormed(k'[s], locks[s])
  BY DEF AllWellFormed, WellFormed, Covered, Touches
<1>1. CASE s = t
  BY <1>1 DEF TypeOK
<1>2. CASE s # t
  BY <1>2 DEF TypeOK, AllWellFormed
<1> QED
  BY <1>1, <1>2

LEMMA LocksKeep ==
  ASSUME MutualExclusion, LocksAtMostOnce, UNCHANGED <<locks, glocks>>
  PROVE  MutualExclusion' /\ LocksAtMostOnce'
BY DEF MutualExclusion, LocksAtMostOnce, Holds

LEMMA MemoryKeeps ==
  ASSUME Coherent, UNCHANGED <<locks, buffer, mem, latest>>
  PROVE  Coherent'
BY DEF Coherent, Holds

LEMMA ErrorsKeep ==
  ASSUME NoFalseRace, UNCHANGED errors
  PROVE  NoFalseRace'
BY DEF NoFalseRace

(* The head of a thread's computation, its rest and what covers it.        *)
LEMMA HeadFacts ==
  ASSUME TypeOK, AllWellFormed, NEW t \in Tids, k[t] # <<>>
  PROVE  /\ k[t] \in Seq(KItems)
         /\ Head(k[t]) \in KItems
         /\ Covered(Head(k[t]), locks[t])
         /\ Rest(t) \in Seq(KItems)
         /\ WellFormed(k[t], locks[t])
         /\ WellFormed(Rest(t), locks[t])
<1>1. k[t] \in Seq(KItems) /\ WellFormed(k[t], locks[t])
  BY DEF TypeOK, AllWellFormed
<1>2. Head(k[t]) \in KItems /\ Rest(t) \in Seq(KItems) /\ Head(k[t]) = k[t][1]
      /\ 1 \in DOMAIN k[t]
  BY <1>1, TailFacts DEF Rest
<1>3. Covered(Head(k[t]), locks[t])
  BY <1>1, <1>2 DEF WellFormed
<1> QED
  BY <1>1, <1>2, <1>3, WellFormedTail DEF Rest

(* A mutex that guards an object is one.                                   *)
LEMMA GuardFacts ==
  ASSUME NEW l \in Locs, Guard[l] # NoMutex
  PROVE  Guard[l] \in Mutexes
BY ThreadsAssumption

(* What every thread leaves when its cell is removed holding nothing.      *)
LEMMA RemovalKeeps ==
  ASSUME TypeOK, MutualExclusion, LocksAtMostOnce, Coherent,
         NEW u \in Tids, \A m \in Mutexes : ~Holds(u, m),
         buffer' = [buffer EXCEPT ![u] = <<>>],
         locks' = [locks EXCEPT ![u] = [m \in Mutexes |-> 0]],
         UNCHANGED <<mem, latest, glocks>>
  PROVE  MutualExclusion' /\ LocksAtMostOnce' /\ Coherent' /\ UNCHANGED locks
<1>1. locks' = locks
  <2>1. locks[u] = [m \in Mutexes |-> 0]
    BY DEF TypeOK, Holds
  <2> QED
    BY <2>1 DEF TypeOK
<1>2. MutualExclusion' /\ LocksAtMostOnce'
  BY <1>1, LocksKeep
<1>3. \A l \in Locs : Guard[l] # NoMutex =>
         \A i \in DOMAIN buffer[u] : buffer[u][i].loc # l
  BY GuardFacts DEF Coherent
<1>4. /\ buffer'[u] = <<>>
      /\ \A t \in Tids : t # u => buffer'[t] = buffer[t]
  BY DEF TypeOK
<1>5. Coherent'
  <2> SUFFICES ASSUME NEW l \in Locs, Guard[l] # NoMutex
               PROVE
                 /\ \A t \in Tids : \A i \in DOMAIN buffer'[t] :
                      buffer'[t][i].loc = l =>
                        /\ locks'[t][Guard[l]] > 0
                        /\ (\A j \in DOMAIN buffer'[t] : j > i => buffer'[t][j].loc # l)
                             => buffer'[t][i].val = latest'[l]
                 /\ (\A t \in Tids : \A i \in DOMAIN buffer'[t] : buffer'[t][i].loc # l)
                      => mem'[l] = latest'[l]
    BY DEF Coherent, Holds
  <2>1. ASSUME NEW t \in Tids, NEW i \in DOMAIN buffer'[t], buffer'[t][i].loc = l
        PROVE  /\ locks'[t][Guard[l]] > 0
               /\ (\A j \in DOMAIN buffer'[t] : j > i => buffer'[t][j].loc # l)
                    => buffer'[t][i].val = latest'[l]
    <3>1. t # u
      BY <1>4, <2>1
    <3> QED
      BY <1>1, <1>4, <2>1, <3>1 DEF Coherent, Holds
  <2>2. ASSUME \A t \in Tids : \A i \in DOMAIN buffer'[t] : buffer'[t][i].loc # l
        PROVE  mem'[l] = latest'[l]
    <3>1. \A t \in Tids : \A i \in DOMAIN buffer[t] : buffer[t][i].loc # l
      BY <1>3, <1>4, <2>2
    <3> QED
      BY <3>1 DEF Coherent
  <2> QED
    BY <2>1, <2>2
<1> QED
  BY <1>1, <1>2, <1>5

-----------------------------------------------------------------------------
(* LockInv is inductive.                                                   *)

LEMMA LockInit == Init => LockInv
<1> SUFFICES ASSUME Init
             PROVE  LockInv
  OBVIOUS
<1>1. TypeOK
  BY TypeInit
<1>2. MutualExclusion /\ LocksAtMostOnce
  BY DEF Init, MutualExclusion, LocksAtMostOnce, Holds
<1>3. AllWellFormed
  BY DEF Init, AllWellFormed, WellFormed
<1>4. Coherent
  BY DEF Init, Coherent
<1>5. NoFalseRace
  BY DEF Init, NoFalseRace
<1> QED
  BY <1>1, <1>2, <1>3, <1>4, <1>5 DEF LockInv

LEMMA WriteKeeps ==
  ASSUME LockInv, NEW t \in Tids, Write(t)
  PROVE  Coherent'
<1> DEFINE l0 == Head(k[t]).loc
<1> DEFINE v0 == Head(k[t]).val
<1> DEFINE w == [loc |-> l0, val |-> v0]
<1>1. /\ l0 \in Locs /\ v0 \in Nat
      /\ Guard[l0] # NoMutex => Holds(t, Guard[l0])
  <2>1. k[t] # <<>> /\ Head(k[t]).op = "write"
    BY DEF Write, AtHead
  <2>2. Head(k[t]) \in KItems /\ Covered(Head(k[t]), locks[t])
    BY <2>1, HeadFacts DEF LockInv
  <2>3. Head(k[t]).loc \in Locs /\ Head(k[t]).val \in Nat
    BY <2>1, <2>2, ItemFacts, ValuesAreNaturals
  <2> QED
    BY <2>1, <2>2, <2>3 DEF Covered, Touches, Holds
<1>2. /\ buffer' = [buffer EXCEPT ![t] = Append(@, w)]
      /\ latest' = [latest EXCEPT ![l0] = v0]
      /\ UNCHANGED <<locks, mem>>
  BY DEF Write
<1> HIDE DEF l0, v0
<1>3. /\ buffer[t] \in Seq([loc : Locs, val : Nat])
      /\ buffer'[t] = Append(buffer[t], w)
      /\ \A s \in Tids : s # t => buffer'[s] = buffer[s]
      /\ latest'[l0] = v0
      /\ \A l \in Locs : l # l0 => latest'[l] = latest[l]
  BY <1>1, <1>2 DEF LockInv, TypeOK
<1>4. LET n == Len(buffer[t]) IN
      /\ n \in Nat
      /\ DOMAIN buffer[t] = 1 .. n
      /\ DOMAIN buffer'[t] = 1 .. n + 1
      /\ buffer'[t][n + 1] = w
      /\ \A i \in 1 .. n : buffer'[t][i] = buffer[t][i]
  BY <1>1, <1>3
<1> SUFFICES ASSUME NEW l \in Locs, Guard[l] # NoMutex
             PROVE
               /\ \A s \in Tids : \A i \in DOMAIN buffer'[s] :
                    buffer'[s][i].loc = l =>
                      /\ locks'[s][Guard[l]] > 0
                      /\ (\A j \in DOMAIN buffer'[s] : j > i => buffer'[s][j].loc # l)
                           => buffer'[s][i].val = latest'[l]
               /\ (\A s \in Tids : \A i \in DOMAIN buffer'[s] : buffer'[s][i].loc # l)
                    => mem'[l] = latest'[l]
  BY DEF Coherent, Holds
<1>5. Guard[l] \in Mutexes
  BY GuardFacts
<1>6. ASSUME NEW s \in Tids, NEW i \in DOMAIN buffer'[s], buffer'[s][i].loc = l
      PROVE  /\ locks'[s][Guard[l]] > 0
             /\ (\A j \in DOMAIN buffer'[s] : j > i => buffer'[s][j].loc # l)
                  => buffer'[s][i].val = latest'[l]
  <2>1. CASE s # t
    <3>1. /\ i \in DOMAIN buffer[s] /\ buffer[s][i].loc = l
          /\ buffer'[s] = buffer[s]
      BY <1>3, <1>6, <2>1
    <3>2. Holds(s, Guard[l])
      BY <3>1 DEF LockInv, Coherent
    <3>3. l # l0
      BY <1>1, <1>5, <2>1, <3>2 DEF LockInv, MutualExclusion
    <3>4. latest'[l] = latest[l] /\ locks' = locks
      BY <1>2, <1>3, <3>3
    <3>5. (\A j \in DOMAIN buffer[s] : j > i => buffer[s][j].loc # l)
            => buffer[s][i].val = latest[l]
      BY <3>1 DEF LockInv, Coherent
    <3> QED
      BY <3>1, <3>2, <3>4, <3>5 DEF Holds
  <2>2. CASE s = t /\ i = Len(buffer[t]) + 1
    <3>1. w.loc = l0 /\ w.val = v0 /\ l = l0
      BY <1>4, <1>6, <2>2
    <3> QED
      BY <1>1, <1>2, <1>3, <1>4, <2>2, <3>1 DEF Holds
  <2>3. CASE s = t /\ i # Len(buffer[t]) + 1
    <3>1. /\ i \in DOMAIN buffer[t] /\ buffer[t][i].loc = l
          /\ buffer'[t][i] = buffer[t][i]
      BY <1>4, <1>6, <2>3
    <3>2. Holds(t, Guard[l])
      BY <3>1 DEF LockInv, Coherent
    <3>3. ASSUME \A j \in DOMAIN buffer'[t] : j > i => buffer'[t][j].loc # l
          PROVE  buffer'[t][i].val = latest'[l]
      <4>1. \A j \in DOMAIN buffer[t] : j > i => buffer[t][j].loc # l
        BY <1>4, <3>3
      <4>2. l # l0
        <5>1. /\ Len(buffer[t]) + 1 \in DOMAIN buffer'[t]
              /\ Len(buffer[t]) + 1 > i
          BY <1>4, <3>1
        <5> QED
          BY <1>4, <3>3, <5>1
      <4> QED
        BY <1>3, <3>1, <4>1, <4>2 DEF LockInv, Coherent
    <3> QED
      BY <1>2, <2>3, <3>2, <3>3 DEF Holds
  <2> QED
    BY <2>1, <2>2, <2>3
<1>7. ASSUME \A s \in Tids : \A i \in DOMAIN buffer'[s] : buffer'[s][i].loc # l
      PROVE  mem'[l] = latest'[l]
  <2>1. l # l0
    BY <1>4, <1>7
  <2>2. \A s \in Tids : \A i \in DOMAIN buffer[s] : buffer[s][i].loc # l
    <3>1. \A i \in DOMAIN buffer[t] : buffer[t][i].loc # l
      BY <1>4, <1>7
    <3> QED
      BY <1>3, <1>7, <3>1
  <2> QED
    BY <1>2, <1>3, <2>1, <2>2 DEF LockInv, Coherent
<1> QED
  BY <1>6, <1>7

LEMMA FlushKeeps ==
  ASSUME LockInv, NEW t \in Tids, Flush(t)
  PROVE  Coherent'
<1> DEFINE l0 == Head(buffer[t]).loc
<1> DEFINE v0 == Head(buffer[t]).val
<1>1. /\ buffer[t] # <<>>
      /\ mem' = [mem EXCEPT ![l0] = v0]
      /\ buffer' = [buffer EXCEPT ![t] = Tail(@)]
      /\ UNCHANGED <<locks, latest>>
  BY DEF Flush
<1>2. /\ buffer[t] \in Seq([loc : Locs, val : Nat])
      /\ buffer'[t] = Tail(buffer[t])
      /\ \A s \in Tids : s # t => buffer'[s] = buffer[s]
  BY <1>1 DEF LockInv, TypeOK
<1>3. /\ 1 \in DOMAIN buffer[t] /\ Head(buffer[t]) = buffer[t][1]
      /\ l0 \in Locs
      /\ \A i \in DOMAIN buffer'[t] :
           i \in Nat /\ i + 1 \in DOMAIN buffer[t] /\ buffer'[t][i] = buffer[t][i + 1]
      /\ \A i \in DOMAIN buffer[t] :
           i > 1 => i - 1 \in DOMAIN buffer'[t] /\ buffer'[t][i - 1] = buffer[t][i]
      /\ \A i \in DOMAIN buffer[t] : i \in Nat /\ i >= 1
  <2>1. /\ 1 \in DOMAIN buffer[t] /\ Head(buffer[t]) = buffer[t][1]
        /\ Head(buffer[t]) \in [loc : Locs, val : Nat]
        /\ \A i \in DOMAIN Tail(buffer[t]) :
             i + 1 \in DOMAIN buffer[t] /\ Tail(buffer[t])[i] = buffer[t][i + 1]
    BY <1>1, <1>2, TailFacts, ZenonT(60)
  <2>2. \A i \in DOMAIN buffer[t] :
          /\ i \in Nat /\ i >= 1
          /\ i > 1 => /\ i - 1 \in DOMAIN Tail(buffer[t])
                      /\ Tail(buffer[t])[i - 1] = buffer[t][i]
    BY <1>1, <1>2, TailItems
  <2>3. \A i \in DOMAIN Tail(buffer[t]) : i \in Nat
    BY <1>1, <1>2
  <2> QED
    BY <1>2, <2>1, <2>2, <2>3
<1>4. /\ mem'[l0] = v0
      /\ \A l \in Locs : l # l0 => mem'[l] = mem[l]
  BY <1>1, <1>3 DEF LockInv, TypeOK
<1>h. l0 = buffer[t][1].loc /\ v0 = buffer[t][1].val
  BY <1>3
<1> HIDE DEF l0, v0
<1> SUFFICES ASSUME NEW l \in Locs, Guard[l] # NoMutex
             PROVE
               /\ \A s \in Tids : \A i \in DOMAIN buffer'[s] :
                    buffer'[s][i].loc = l =>
                      /\ locks'[s][Guard[l]] > 0
                      /\ (\A j \in DOMAIN buffer'[s] : j > i => buffer'[s][j].loc # l)
                           => buffer'[s][i].val = latest'[l]
               /\ (\A s \in Tids : \A i \in DOMAIN buffer'[s] : buffer'[s][i].loc # l)
                    => mem'[l] = latest'[l]
  BY DEF Coherent, Holds
<1>5. ASSUME NEW s \in Tids, NEW i \in DOMAIN buffer'[s], buffer'[s][i].loc = l
      PROVE  /\ locks'[s][Guard[l]] > 0
             /\ (\A j \in DOMAIN buffer'[s] : j > i => buffer'[s][j].loc # l)
                  => buffer'[s][i].val = latest'[l]
  <2>1. CASE s # t
    BY <1>1, <1>2, <1>5, <2>1 DEF LockInv, Coherent, Holds
  <2>2. CASE s = t
    <3>1. i + 1 \in DOMAIN buffer[t] /\ buffer[t][i + 1].loc = l
          /\ buffer'[t][i] = buffer[t][i + 1]
      BY <1>3, <1>5, <2>2
    <3>2. Holds(t, Guard[l])
      BY <3>1 DEF LockInv, Coherent
    <3>3. ASSUME \A j \in DOMAIN buffer'[t] : j > i => buffer'[t][j].loc # l
          PROVE  buffer'[t][i].val = latest'[l]
      <4>1. ASSUME NEW j \in DOMAIN buffer[t], j > i + 1
            PROVE  buffer[t][j].loc # l
        <5>1. j - 1 \in DOMAIN buffer'[t] /\ buffer'[t][j - 1] = buffer[t][j]
              /\ j - 1 > i
          BY <1>3, <1>5, <2>2, <4>1
        <5> QED
          BY <3>3, <5>1
      <4> QED
        BY <1>1, <3>1, <4>1 DEF LockInv, Coherent
    <3> QED
      BY <1>1, <2>2, <3>2, <3>3 DEF Holds
  <2> QED
    BY <2>1, <2>2
<1>6. ASSUME \A s \in Tids : \A i \in DOMAIN buffer'[s] : buffer'[s][i].loc # l
      PROVE  mem'[l] = latest'[l]
  <2>1. CASE l = l0
    <3>1. \A j \in DOMAIN buffer[t] : j > 1 => buffer[t][j].loc # l
      BY <1>3, <1>6
    <3>2. v0 = latest[l]
      BY <1>3, <1>h, <2>1, <3>1 DEF LockInv, Coherent
    <3> QED
      BY <1>1, <1>4, <2>1, <3>2
  <2>2. CASE l # l0
    <3>1. \A s \in Tids : \A i \in DOMAIN buffer[s] : buffer[s][i].loc # l
      <4>1. \A i \in DOMAIN buffer[t] : buffer[t][i].loc # l
        BY <1>3, <1>h, <1>6, <2>2
      <4> QED
        BY <1>2, <1>6, <4>1
    <3> QED
      BY <1>1, <1>4, <2>2, <3>1 DEF LockInv, Coherent
  <2> QED
    BY <2>1, <2>2
<1> QED
  BY <1>5, <1>6

(* A step that rewrites one computation and leaves memory and locks alone. *)
LEMMA QuietKeeps ==
  ASSUME LockInv, TypeOK', NEW t \in Tids, NEW ks,
         k' = [k EXCEPT ![t] = ks], WellFormed(ks, locks[t]),
         UNCHANGED <<locks, glocks, buffer, mem, latest, errors>>
  PROVE  LockInv'
BY RewriteKeeps, LocksKeep, MemoryKeeps, ErrorsKeep DEF LockInv

(* The program issues what its locks cover.                                *)
LEMMA IssueKeeps ==
  ASSUME LockInv, TypeOK', LockDiscipline, NEW t \in Tids,
         NEW s \in Statements, Issue(t, s)
  PROVE  LockInv'
<1>1. MayIssue(t, s)
  BY DEF Issue
<1>2. Covered(s, locks[t])
  BY <1>1 DEF MayIssue, Covered, Holds
<1>3. WellFormed(<<s>>, locks[t])
  BY <1>2 DEF WellFormed
<1> QED
  BY <1>3, QuietKeeps DEF Issue

(* A read, thrd_create or thrd_join replaces its head by items that touch  *)
(* no more than it did.                                                    *)
LEMMA ReadKeeps ==
  ASSUME LockInv, TypeOK', NEW t \in Tids, Read(t)
  PROVE  LockInv'
<1> DEFINE h == Head(k[t])
<1>1. k[t] # <<>> /\ h.op = "read"
  BY DEF Read, AtHead
<1>2. /\ k[t] \in Seq(KItems) /\ h \in KItems /\ Covered(h, locks[t])
      /\ Rest(t) \in Seq(KItems) /\ WellFormed(k[t], locks[t])
      /\ WellFormed(Rest(t), locks[t])
  BY <1>1, HeadFacts DEF LockInv
<1>3. h.loc \in Locs /\ readActual(h.loc) \in KItems
  BY <1>1, <1>2, ItemFacts, MakeItems
<1>4. \A i \in DOMAIN Rest(t) : Rest(t)[i].op \notin SoloOps
  BY <1>1, <1>2, NoSoloAfter DEF Rest
<1>5. /\ Covered(readActual(h.loc), locks[t])
      /\ readActual(h.loc).op \notin SoloOps
  BY <1>1, <1>2 DEF Covered, Touches, readActual, SoloOps
<1>6. WellFormed(Then(readActual(h.loc), Rest(t)), locks[t])
  BY <1>2, <1>3, <1>4, <1>5, WellFormedPush
<1> QED
  BY <1>6, QuietKeeps DEF Read, Rewrite

LEMMA CreateStartKeeps ==
  ASSUME LockInv, TypeOK', NEW t \in Tids, ThrdCreateStart(t)
  PROVE  LockInv'
<1> DEFINE h == Head(k[t])
<1> DEFINE w == write(h.arg, nextThreadId)
<1> DEFINE s == spawnAux(nextThreadId)
<1>1. k[t] # <<>> /\ h.op = "thrd_create"
  BY DEF ThrdCreateStart, AtHead
<1>2. /\ k[t] \in Seq(KItems) /\ h \in KItems /\ Covered(h, locks[t])
      /\ Rest(t) \in Seq(KItems) /\ WellFormed(k[t], locks[t])
      /\ WellFormed(Rest(t), locks[t])
  BY <1>1, HeadFacts DEF LockInv
<1>3. nextThreadId \in Tids \ {0}
  BY ThreadsAssumption DEF ThrdCreateStart, LockInv, TypeOK, Tids
<1>4. h.arg \in Locs /\ w \in KItems /\ s \in KItems
  BY <1>1, <1>2, <1>3, ItemFacts, MakeItems
<1>5. \A i \in DOMAIN Rest(t) : Rest(t)[i].op \notin SoloOps
  BY <1>1, <1>2, NoSoloAfter DEF Rest
<1>6. /\ Covered(w, locks[t]) /\ w.op \notin SoloOps
      /\ Covered(s, locks[t]) /\ s.op \notin SoloOps
  BY <1>1, <1>2 DEF Covered, Touches, write, spawnAux, SoloOps
<1>k. k' = [k EXCEPT ![t] = Then(w, Then(s, Rest(t)))]
  BY DEF ThrdCreateStart, Rewrite
<1> HIDE DEF w, s
<1>7. /\ WellFormed(Then(s, Rest(t)), locks[t])
      /\ \A i \in DOMAIN Then(s, Rest(t)) : Then(s, Rest(t))[i].op \notin SoloOps
  BY <1>2, <1>4, <1>5, <1>6, WellFormedPush
<1>8. Then(s, Rest(t)) \in Seq(KItems)
  BY <1>2, <1>4, ConsFacts DEF Then
<1>9. WellFormed(Then(w, Then(s, Rest(t))), locks[t])
  BY <1>4, <1>6, <1>7, <1>8, WellFormedPush
<1> QED
  BY <1>9, <1>k, QuietKeeps DEF ThrdCreateStart

LEMMA JoinStartKeeps ==
  ASSUME LockInv, TypeOK', NEW t \in Tids, ThrdJoinStart(t)
  PROVE  LockInv'
<1> DEFINE h == Head(k[t])
<1> DEFINE j == joinAux(h.arg[1], h.arg[2])
<1>1. k[t] # <<>> /\ h.op = "thrd_join"
  BY DEF ThrdJoinStart, AtHead
<1>2. /\ k[t] \in Seq(KItems) /\ h \in KItems /\ Covered(h, locks[t])
      /\ Rest(t) \in Seq(KItems) /\ WellFormed(k[t], locks[t])
      /\ WellFormed(Rest(t), locks[t])
  BY <1>1, HeadFacts DEF LockInv
<1>3. j \in KItems
  BY <1>1, <1>2, ItemFacts, MakeItems
<1>4. \A i \in DOMAIN Rest(t) : Rest(t)[i].op \notin SoloOps
  BY <1>1, <1>2, NoSoloAfter DEF Rest
<1>5. Covered(j, locks[t]) /\ j.op \notin SoloOps
  BY <1>1, <1>2 DEF Covered, Touches, joinAux, SoloOps
<1>k. k' = [k EXCEPT ![t] = Then(j, Rest(t))]
  BY DEF ThrdJoinStart, Rewrite
<1> HIDE DEF j
<1>6. WellFormed(Then(j, Rest(t)), locks[t])
  BY <1>2, <1>3, <1>4, <1>5, WellFormedPush
<1> QED
  BY <1>6, <1>k, QuietKeeps DEF ThrdJoinStart

(* The rules that only drop the head of a computation.                     *)
LEMMA PopKeeps ==
  ASSUME LockInv, TypeOK', NEW t \in Tids, k[t] # <<>>,
         Rewrite(t, Rest(t)),
         UNCHANGED <<locks, glocks, buffer, mem, latest, errors>>
  PROVE  LockInv'
<1>1. WellFormed(Rest(t), locks[t])
  BY HeadFacts DEF LockInv
<1> QED
  BY <1>1, QuietKeeps DEF Rewrite

LEMMA WriteStepKeeps ==
  ASSUME LockInv, TypeOK', NEW t \in Tids, Write(t)
  PROVE  LockInv'
<1>1. k[t] # <<>> /\ k' = [k EXCEPT ![t] = Rest(t)]
  BY DEF Write, AtHead, Rewrite
<1>2. WellFormed(Rest(t), locks[t])
  BY <1>1, HeadFacts DEF LockInv
<1>3. UNCHANGED <<locks, glocks, errors>>
  BY DEF Write
<1>4. AllWellFormed'
  BY <1>1, <1>2, <1>3, RewriteKeeps DEF LockInv
<1> QED
  BY <1>3, <1>4, WriteKeeps, LocksKeep, ErrorsKeep DEF LockInv

LEMMA FlushStepKeeps ==
  ASSUME LockInv, TypeOK', NEW t \in Tids, Flush(t)
  PROVE  LockInv'
<1>1. UNCHANGED <<k, locks, glocks, errors>>
  BY DEF Flush
<1>2. AllWellFormed'
  BY <1>1 DEF LockInv, AllWellFormed, WellFormed, Covered, Touches
<1> QED
  BY <1>1, <1>2, FlushKeeps, LocksKeep, ErrorsKeep DEF LockInv

(* HALT in front of a computation.                                         *)
LEMMA UndefKeeps ==
  ASSUME LockInv, TypeOK', NEW t \in Tids, ThrdJoinUndef(t)
  PROVE  LockInv'
<1>1. WellFormed(Then(HALT, k[t]), locks[t])
  BY WellFormedHalt DEF LockInv, AllWellFormed, TypeOK
<1>2. AllWellFormed'
  BY <1>1, RewriteKeeps DEF LockInv, ThrdJoinUndef, Rewrite
<1>3. NoFalseRace'
  BY DEF LockInv, NoFalseRace, ThrdJoinUndef
<1> QED
  BY <1>2, <1>3, LocksKeep, MemoryKeeps DEF LockInv, ThrdJoinUndef

(* Both sides of a conflict hold the mutex of what they touch, so the      *)
(* object of a race has none.                                              *)
LEMMA RaceKeeps ==
  ASSUME LockInv, TypeOK', NEW t \in Tids, NEW u \in Tids, Race(t, u)
  PROVE  LockInv'
<1> DEFINE l == Head(k[t]).loc
<1>1. /\ t # u /\ k[t] # <<>> /\ k[u] # <<>>
      /\ Head(k[t]).op \in {"read", "write"} /\ Head(k[u]).op = "write"
      /\ Head(k[u]).loc = l
  BY DEF Race, Conflict, AtHead, sameBase
<1>2. /\ Head(k[t]) \in KItems /\ Covered(Head(k[t]), locks[t])
      /\ Head(k[u]) \in KItems /\ Covered(Head(k[u]), locks[u])
  BY <1>1, HeadFacts DEF LockInv
<1>3. l \in Locs
  BY <1>1, <1>2, ItemFacts
<1>4. Guard[l] = NoMutex
  <2> SUFFICES ASSUME Guard[l] # NoMutex
               PROVE  FALSE
    OBVIOUS
  <2>1. Guard[l] \in Mutexes
    BY <1>3, GuardFacts
  <2>2. Holds(t, Guard[l]) /\ Holds(u, Guard[l])
    BY <1>1, <1>2, <1>3 DEF Covered, Touches, Holds
  <2> QED
    BY <1>1, <2>1, <2>2 DEF LockInv, MutualExclusion
<1>5. NoFalseRace'
  <2>1. PICK c : errors' = errors \cup {[code |-> c, loc |-> l]}
    BY DEF Race
  <2> HIDE DEF l
  <2> QED
    BY <1>4, <2>1 DEF LockInv, NoFalseRace
<1>6. /\ WellFormed(Then(HALT, k[t]), locks[t])
      /\ WellFormed(Then(HALT, k[u]), locks[u])
  BY WellFormedHalt DEF LockInv, AllWellFormed, TypeOK
<1>u. UNCHANGED <<locks, glocks, buffer, mem, latest>>
  BY DEF Race
<1>7. k' = [k EXCEPT ![t] = Then(HALT, k[t]), ![u] = Then(HALT, k[u])]
  BY Zenon DEF Race
<1>8. AllWellFormed'
  <2> SUFFICES ASSUME NEW s \in Tids
               PROVE  WellFormed(k'[s], locks[s])
    BY <1>u DEF AllWellFormed, WellFormed, Covered, Touches
  <2>1. k'[s] \in {k[s], Then(HALT, k[s])}
    BY <1>1, <1>7 DEF LockInv, TypeOK
  <2>2. WellFormed(k[s], locks[s]) /\ k[s] \in Seq(KItems)
    BY DEF LockInv, AllWellFormed, TypeOK
  <2> QED
    BY <2>1, <2>2, WellFormedHalt
<1> QED
  BY <1>5, <1>u, <1>8, LocksKeep, MemoryKeeps DEF LockInv

(* A thread whose computation is a result holds no mutex.                  *)
LEMMA ResultHoldsNothing ==
  ASSUME LockInv, NEW u \in Tids, k[u] # <<>>, Head(k[u]).op = "value"
  PROVE  \A m \in Mutexes : ~Holds(u, m)
<1>1. Covered(Head(k[u]), locks[u])
  BY HeadFacts DEF LockInv
<1> QED
  BY <1>1 DEF Covered, Holds

LEMMA MainEndKeeps ==
  ASSUME LockInv, TypeOK', MainEnd
  PROVE  LockInv'
<1>1. 0 \in Tids /\ k[0] # <<>> /\ Head(k[0]).op = "value"
  BY ThreadsAssumption DEF MainEnd, MainDone, AtHead, Tids
<1>2. \A m \in Mutexes : ~Holds(0, m)
  BY <1>1, ResultHoldsNothing
<1>3. MutualExclusion' /\ LocksAtMostOnce' /\ Coherent' /\ UNCHANGED locks
  BY <1>1, <1>2, RemovalKeeps DEF LockInv, MainEnd
<1>4. WellFormed(<<>>, locks[0])
  BY DEF WellFormed
<1>5. AllWellFormed'
  BY <1>1, <1>3, <1>4, RewriteKeeps DEF LockInv, MainEnd
<1> QED
  BY <1>3, <1>5, ErrorsKeep DEF LockInv, MainEnd

(* The joined thread's computation is a result: it holds nothing, and its  *)
(* buffer has no write of a guarded object.                                *)
LEMMA JoinKeeps ==
  ASSUME LockInv, TypeOK', NEW t \in Tids, ThrdJoin(t)
  PROVE  LockInv'
<1> DEFINE h == Head(k[t])
<1> DEFINE u == h.tid
<1> DEFINE p == h.ptr
<1> DEFINE w == write(p, k[u][1].val)
<1> DEFINE ks == IF p = NoLoc THEN Rest(t) ELSE Then(w, Rest(t))
<1>1. k[t] # <<>> /\ h.op = "join-aux" /\ u # t
  BY DEF ThrdJoin, AtHead, Joinable, JoinValid
<1>2. /\ k[t] \in Seq(KItems) /\ h \in KItems /\ Covered(h, locks[t])
      /\ Rest(t) \in Seq(KItems) /\ WellFormed(k[t], locks[t])
      /\ WellFormed(Rest(t), locks[t])
  BY <1>1, HeadFacts DEF LockInv
<1>3. u \in Tids /\ p \in Locs \cup {NoLoc}
  BY <1>1, <1>2, ItemFacts
<1>4. k[u] # <<>> /\ k[u][1].op = "value"
  BY DEF ThrdJoin, Joinable
<1>5. k[u] \in Seq(KItems) /\ k[u][1] = Head(k[u]) /\ Head(k[u]) \in KItems
  BY <1>3, <1>4, TailFacts DEF LockInv, TypeOK
<1>6. \A m \in Mutexes : ~Holds(u, m)
  BY <1>3, <1>4, <1>5, ResultHoldsNothing
<1>7. MutualExclusion' /\ LocksAtMostOnce' /\ Coherent' /\ UNCHANGED locks
  <2>1. /\ buffer' = [buffer EXCEPT ![u] = <<>>]
        /\ locks' = [locks EXCEPT ![u] = [m \in Mutexes |-> 0]]
        /\ UNCHANGED <<mem, latest, glocks>>
    BY DEF ThrdJoin
  <2> HIDE DEF u
  <2> QED
    BY <1>3, <1>6, <2>1, RemovalKeeps DEF LockInv
<1>8. WellFormed(ks, locks[t])
  <2>1. CASE p = NoLoc
    BY <1>2, <2>1
  <2>2. CASE p # NoLoc
    <3>1. w \in KItems
      BY <1>3, <1>4, <1>5, <2>2, ItemFacts, MakeItems
    <3>2. \A i \in DOMAIN Rest(t) : Rest(t)[i].op \notin SoloOps
      BY <1>1, <1>2, NoSoloAfter DEF Rest
    <3>3. Covered(w, locks[t]) /\ w.op \notin SoloOps
      BY <1>1, <1>2 DEF Covered, Touches, write, SoloOps
    <3> HIDE DEF w
    <3>4. WellFormed(Then(w, Rest(t)), locks[t])
      BY <1>2, <3>1, <3>2, <3>3, WellFormedPush
    <3> QED
      BY <2>2, <3>4
  <2> QED
    BY <2>1, <2>2
<1>9. k' = [k EXCEPT ![t] = ks, ![u] = <<>>]
  BY Zenon DEF ThrdJoin
<1> HIDE DEF ks, u
<1>10. AllWellFormed'
  <2> SUFFICES ASSUME NEW s \in Tids
               PROVE  WellFormed(k'[s], locks[s])
    BY <1>7 DEF AllWellFormed, WellFormed, Covered, Touches
  <2>1. CASE s = u
    <3>1. k'[s] = <<>>
      BY <1>3, <1>9, <2>1 DEF LockInv, TypeOK
    <3> QED
      BY <3>1 DEF WellFormed
  <2>2. CASE s = t /\ s # u
    <3>1. k'[s] = ks
      BY <1>9, <2>2 DEF LockInv, TypeOK
    <3> QED
      BY <1>8, <2>2, <3>1
  <2>3. CASE s # t /\ s # u
    <3>1. k'[s] = k[s]
      BY <1>9, <2>3 DEF LockInv, TypeOK
    <3> QED
      BY <3>1 DEF LockInv, AllWellFormed
  <2> QED
    BY <2>1, <2>2, <2>3
<1>11. UNCHANGED errors
  BY DEF ThrdJoin
<1> QED
  BY <1>7, <1>10, <1>11, ErrorsKeep DEF LockInv

(* mtx_lock: the mutex is in nobody's <locks>, and what the thread had     *)
(* beyond the call is only HALT.                                           *)
LEMMA MtxLockKeeps ==
  ASSUME LockInv, TypeOK', NEW t \in Tids, MtxLock(t)
  PROVE  LockInv'
<1> DEFINE m0 == Head(k[t]).arg
<1>1. k[t] # <<>> /\ Head(k[t]).op = "mtx_lock"
  BY DEF MtxLock, AtHead
<1>2. /\ k[t] \in Seq(KItems) /\ Head(k[t]) \in KItems
      /\ Rest(t) \in Seq(KItems) /\ WellFormed(k[t], locks[t])
  BY <1>1, HeadFacts DEF LockInv
<1>3. m0 \in Mutexes /\ m0 \notin glocks
  BY <1>1, <1>2, ItemFacts DEF MtxLock, Unlocked
<1>4. /\ glocks' = glocks \cup {m0}
      /\ locks' = [locks EXCEPT ![t][m0] = locks[t][m0] + 1]
      /\ k' = [k EXCEPT ![t] = Rest(t)]
      /\ UNCHANGED <<buffer, mem, latest, errors>>
  BY DEF MtxLock, Rewrite
<1> HIDE DEF m0
<1>5. /\ locks \in [Tids -> [Mutexes -> Nat]]
      /\ \A s \in Tids : ~(locks[s][m0] > 0)
  BY <1>3 DEF LockInv, TypeOK, MutualExclusion, Holds
<1>6. /\ locks'[t][m0] = 1
      /\ \A s \in Tids : s # t => locks'[s] = locks[s]
      /\ \A m \in Mutexes : m # m0 => locks'[t][m] = locks[t][m]
  BY <1>3, <1>4, <1>5
<1>7. \A s \in Tids, m \in Mutexes :
        locks'[s][m] > 0 <=> (locks[s][m] > 0 \/ (s = t /\ m = m0))
  BY <1>3, <1>5, <1>6
<1>8. MutualExclusion'
  <2>1. ASSUME NEW m \in Mutexes
        PROVE  /\ \A s, u \in Tids : locks'[s][m] > 0 /\ locks'[u][m] > 0 => s = u
               /\ m \in glocks' <=> \E s \in Tids : locks'[s][m] > 0
    <3>1. CASE m = m0
      BY <1>4, <1>5, <1>7, <3>1
    <3>2. CASE m # m0
      <4>1. \A s \in Tids : locks'[s][m] > 0 <=> locks[s][m] > 0
        BY <1>7, <3>2
      <4>2. /\ \A s, u \in Tids : locks[s][m] > 0 /\ locks[u][m] > 0 => s = u
            /\ m \in glocks <=> \E s \in Tids : locks[s][m] > 0
        BY DEF LockInv, MutualExclusion, Holds
      <4> QED
        BY <1>4, <3>2, <4>1, <4>2
    <3> QED
      BY <3>1, <3>2
  <2> QED
    BY <2>1 DEF MutualExclusion, Holds
<1>9. LocksAtMostOnce'
  BY <1>6 DEF LockInv, LocksAtMostOnce
<1>10. AllWellFormed'
  <2> SUFFICES ASSUME NEW s \in Tids
               PROVE  WellFormed(k'[s], locks'[s])
    BY DEF AllWellFormed, WellFormed, Covered, Touches
  <2>1. CASE s = t
    <3>1. k'[t] = Tail(k[t])
      BY <1>4 DEF LockInv, TypeOK, Rest
    <3>2. WellFormed(Tail(k[t]), locks'[t])
      BY <1>1, <1>2, OnlyHaltAfterSolo DEF SoloOps
    <3> QED
      BY <2>1, <3>1, <3>2
  <2>2. CASE s # t
    <3>1. k'[s] = k[s] /\ locks'[s] = locks[s]
      BY <1>4, <1>6, <2>2 DEF LockInv, TypeOK
    <3> QED
      BY <3>1 DEF LockInv, AllWellFormed
  <2> QED
    BY <2>1, <2>2
<1>11. Coherent'
  <2>1. \A s \in Tids, l \in Locs :
          Guard[l] # NoMutex /\ locks[s][Guard[l]] > 0 => locks'[s][Guard[l]] > 0
    BY <1>7, GuardFacts
  <2> QED
    BY <1>4, <2>1 DEF LockInv, Coherent, Holds
<1> QED
  BY <1>4, <1>8, <1>9, <1>10, <1>11, ErrorsKeep DEF LockInv

(* mtx_unlock: the thread holds the mutex once and its buffer is empty, so *)
(* no write of an object it guards is pending any more.                    *)
LEMMA MtxUnlockKeeps ==
  ASSUME LockInv, TypeOK', NEW t \in Tids, MtxUnlock(t)
  PROVE  LockInv'
<1> DEFINE m0 == Head(k[t]).arg
<1>1. k[t] # <<>> /\ Head(k[t]).op = "mtx_unlock" /\ buffer[t] = <<>>
  BY DEF MtxUnlock, AtHead, Drained
<1>2. /\ k[t] \in Seq(KItems) /\ Head(k[t]) \in KItems
      /\ Covered(Head(k[t]), locks[t])
      /\ Rest(t) \in Seq(KItems) /\ WellFormed(k[t], locks[t])
  BY <1>1, HeadFacts DEF LockInv
<1>3. m0 \in Mutexes /\ locks[t][m0] > 0
  BY <1>1, <1>2, ItemFacts DEF Covered
<1>4. /\ glocks' = glocks \ {m0}
      /\ locks' = [locks EXCEPT ![t][m0] = removeListItem(locks[t][m0])]
      /\ k' = [k EXCEPT ![t] = Rest(t)]
      /\ UNCHANGED <<buffer, mem, latest, errors>>
  BY DEF MtxUnlock, Rewrite
<1> HIDE DEF m0
<1>5. locks \in [Tids -> [Mutexes -> Nat]] /\ locks[t][m0] <= 1
  BY <1>3 DEF LockInv, TypeOK, LocksAtMostOnce
<1>6. /\ locks'[t][m0] = 0
      /\ \A s \in Tids : s # t => locks'[s] = locks[s]
      /\ \A m \in Mutexes : m # m0 => locks'[t][m] = locks[t][m]
  BY <1>3, <1>4, <1>5 DEF removeListItem
<1>7. \A s \in Tids, m \in Mutexes :
        locks'[s][m] > 0 <=> (locks[s][m] > 0 /\ ~(s = t /\ m = m0))
  BY <1>3, <1>5, <1>6
<1>o. \A s \in Tids : locks[s][m0] > 0 => s = t
  BY <1>3 DEF LockInv, MutualExclusion, Holds
<1>8. MutualExclusion'
  <2>1. ASSUME NEW m \in Mutexes
        PROVE  /\ \A s, u \in Tids : locks'[s][m] > 0 /\ locks'[u][m] > 0 => s = u
               /\ m \in glocks' <=> \E s \in Tids : locks'[s][m] > 0
    <3>1. CASE m = m0
      BY <1>4, <1>7, <1>o, <3>1
    <3>2. CASE m # m0
      <4>1. \A s \in Tids : locks'[s][m] > 0 <=> locks[s][m] > 0
        BY <1>7, <3>2
      <4>2. /\ \A s, u \in Tids : locks[s][m] > 0 /\ locks[u][m] > 0 => s = u
            /\ m \in glocks <=> \E s \in Tids : locks[s][m] > 0
        BY DEF LockInv, MutualExclusion, Holds
      <4> QED
        BY <1>4, <3>2, <4>1, <4>2
    <3> QED
      BY <3>1, <3>2
  <2> QED
    BY <2>1 DEF MutualExclusion, Holds
<1>9. LocksAtMostOnce'
  BY <1>6 DEF LockInv, LocksAtMostOnce
<1>10. AllWellFormed'
  <2> SUFFICES ASSUME NEW s \in Tids
               PROVE  WellFormed(k'[s], locks'[s])
    BY DEF AllWellFormed, WellFormed, Covered, Touches
  <2>1. CASE s = t
    <3>1. k'[t] = Tail(k[t])
      BY <1>4 DEF LockInv, TypeOK, Rest
    <3>2. WellFormed(Tail(k[t]), locks'[t])
      BY <1>1, <1>2, OnlyHaltAfterSolo DEF SoloOps
    <3> QED
      BY <2>1, <3>1, <3>2
  <2>2. CASE s # t
    <3>1. k'[s] = k[s] /\ locks'[s] = locks[s]
      BY <1>4, <1>6, <2>2 DEF LockInv, TypeOK
    <3> QED
      BY <3>1 DEF LockInv, AllWellFormed
  <2> QED
    BY <2>1, <2>2
<1>11. Coherent'
  <2>1. \A s \in Tids : DOMAIN buffer[s] # {} => s # t
    BY <1>1
  <2>2. \A s \in Tids, l \in Locs :
          s # t /\ Guard[l] # NoMutex /\ locks[s][Guard[l]] > 0
            => locks'[s][Guard[l]] > 0
    BY <1>7, GuardFacts
  <2> QED
    BY <1>4, <2>1, <2>2 DEF LockInv, Coherent, Holds
<1> QED
  BY <1>4, <1>8, <1>9, <1>10, <1>11, ErrorsKeep DEF LockInv

LEMMA LockStep ==
  ASSUME LockDiscipline, LockInv, [Next]_vars
  PROVE  LockInv'
<1>1. TypeOK'
  BY TypeStep DEF LockInv
<1>2. ASSUME NEW t \in Tids, ReadActual(t)
      PROVE  LockInv'
  BY <1>1, <1>2, PopKeeps DEF ReadActual, AtHead
<1>3. ASSUME NEW t \in Tids, ThrdCreate(t)
      PROVE  LockInv'
  BY <1>1, <1>3, PopKeeps DEF ThrdCreate, AtHead
<1>4. ASSUME NEW t \in Tids, MtxInit(t)
      PROVE  LockInv'
  BY <1>1, <1>4, PopKeeps DEF MtxInit, AtHead
<1>5. ASSUME NEW t \in Tids, ThreadStep(t)
      PROVE  LockInv'
  BY <1>1, <1>2, <1>3, <1>4, <1>5, IssueKeeps, ReadKeeps, WriteStepKeeps,
     CreateStartKeeps, JoinStartKeeps, JoinKeeps, UndefKeeps, MtxLockKeeps,
     MtxUnlockKeeps DEF ThreadStep
<1>6. CASE UNCHANGED vars
  <2>1. UNCHANGED <<k, locks, glocks, buffer, mem, latest, errors>>
    BY <1>6 DEF vars
  <2>2. AllWellFormed'
    BY <2>1 DEF LockInv, AllWellFormed, WellFormed, Covered, Touches
  <2> QED
    BY <1>1, <2>1, <2>2, LocksKeep, MemoryKeeps, ErrorsKeep DEF LockInv
<1> QED
  BY <1>1, <1>5, <1>6, FlushStepKeeps, RaceKeeps, MainEndKeeps DEF Next

(* The inductive invariant of the lock discipline holds of every run of a  *)
(* program that obeys it.                                                  *)
THEOREM LockInvariant == LockDiscipline => (Spec => []LockInv)
<1> SUFFICES ASSUME LockDiscipline
             PROVE  Spec => []LockInv
  OBVIOUS
<1>1. LockInv /\ [Next]_vars => LockInv'
  BY LockStep
<1> QED
  BY <1>1, LockInit, PTL DEF Spec

(* mtx_lock and mtx_unlock exclude: no two threads hold one mutex, and     *)
(* <glocks> agrees with what the threads hold.                             *)
THEOREM LocksExclude == LockDiscipline => (Spec => []MutualExclusion)
<1>1. LockInv => MutualExclusion
  BY DEF LockInv
<1> QED
  BY <1>1, LockInvariant, PTL

(* A read of a guarded object that is about to take its bytes: its reader  *)
(* holds the mutex, so nobody else has a write of it pending, and it has   *)
(* none itself.                                                            *)
LEMMA HolderReadsLatest == LockInv => GuardedReadsSeeLatest
<1> SUFFICES ASSUME LockInv, NEW t \in threads, AtHead(t, "readActual"),
                    NEW l, l = Head(k[t]).loc, Guard[l] # NoMutex,
                    l \notin locations(buffer[t])
             PROVE  mem[l] = latest[l]
  BY DEF GuardedReadsSeeLatest
<1>1. t \in Tids /\ k[t] # <<>> /\ Head(k[t]).op = "readActual"
  BY DEF LockInv, TypeOK, AtHead
<1>2. Head(k[t]) \in KItems /\ Covered(Head(k[t]), locks[t])
  BY <1>1, HeadFacts DEF LockInv
<1>3. l \in Locs /\ Holds(t, Guard[l]) /\ Guard[l] \in Mutexes
  BY <1>1, <1>2, ItemFacts, GuardFacts DEF Covered, Touches, Holds
<1>4. ASSUME NEW s \in Tids, NEW i \in DOMAIN buffer[s], buffer[s][i].loc = l
      PROVE  FALSE
  <2>1. Holds(s, Guard[l])
    BY <1>3, <1>4 DEF LockInv, Coherent
  <2>2. s = t
    BY <1>1, <1>3, <2>1 DEF LockInv, MutualExclusion
  <2> QED
    BY <1>4, <2>2 DEF locations
<1> QED
  BY <1>3, <1>4 DEF LockInv, Coherent

(* Critical sections see each other's writes although writes are buffered. *)
THEOREM GuardedReadsLatest ==
  LockDiscipline => (Spec => []GuardedReadsSeeLatest)
BY LockInvariant, HolderReadsLatest, PTL

(* No race is ever reported on an object that is guarded.                  *)
THEOREM GuardedNeverRace == LockDiscipline => (Spec => []NoFalseRace)
<1>1. LockInv => NoFalseRace
  BY DEF LockInv
<1> QED
  BY <1>1, LockInvariant, PTL

-----------------------------------------------------------------------------
(* Thread ids, for any program.                                            *)

(* The steps that neither create, join nor end a thread.                   *)
LEMMA CellsKeep ==
  ASSUME RunningHasCell, UNCHANGED <<threads, threadStatus>>
  PROVE  RunningHasCell'
BY DEF RunningHasCell

LEMMA CellsStep == TypeOK /\ RunningHasCell /\ [Next]_vars => RunningHasCell'
<1> SUFFICES ASSUME TypeOK, RunningHasCell, [Next]_vars
             PROVE  RunningHasCell'
  OBVIOUS
<1>1. ASSUME NEW t \in Tids, ThrdCreate(t)
      PROVE  RunningHasCell'
  <2> DEFINE u == Head(k[t]).tid
  <2>1. u \in Tids \ {0}
    BY <1>1, TailFacts, ItemFacts DEF ThrdCreate, AtHead, TypeOK
  <2>2. /\ threadStatus' = [threadStatus EXCEPT ![u] = "threadRunning"]
        /\ threads' = threads \cup {u}
    BY <1>1 DEF ThrdCreate
  <2> QED
    BY <2>1, <2>2 DEF RunningHasCell, TypeOK
<1>2. ASSUME NEW t \in Tids, ThrdJoin(t)
      PROVE  RunningHasCell'
  <2> DEFINE u == Head(k[t]).tid
  <2>1. u \in Tids
    BY <1>2, TailFacts, ItemFacts DEF ThrdJoin, AtHead, TypeOK
  <2>2. /\ threadStatus' = [threadStatus EXCEPT ![u] = "threadJoined"]
        /\ threads' = threads \ {u}
    BY <1>2 DEF ThrdJoin, JoinedStatus
  <2> QED
    BY <2>1, <2>2 DEF RunningHasCell, TypeOK
<1>3. ASSUME MainEnd
      PROVE  RunningHasCell'
  BY <1>3 DEF MainEnd, RunningHasCell
<1>4. ASSUME NEW t \in Tids, ThreadStep(t), ~ThrdCreate(t), ~ThrdJoin(t)
      PROVE  UNCHANGED <<threads, threadStatus>>
  BY <1>4 DEF ThreadStep, Issue, Read, ReadActual, Write, ThrdCreateStart,
              ThrdJoinStart, ThrdJoinUndef, MtxInit, MtxLock, MtxUnlock
<1>5. ASSUME NEW t \in Tids, Flush(t)
      PROVE  UNCHANGED <<threads, threadStatus>>
  BY <1>5 DEF Flush
<1>6. ASSUME NEW t \in Tids, NEW u \in Tids, Race(t, u)
      PROVE  UNCHANGED <<threads, threadStatus>>
  BY <1>6 DEF Race
<1>7. CASE UNCHANGED vars
  BY <1>7, CellsKeep DEF vars
<1> QED
  BY <1>1, <1>2, <1>3, <1>4, <1>5, <1>6, <1>7, CellsKeep DEF Next

(* <thread-status> and the thread cells agree in every program, whoever    *)
(* joins whom, and a new thread never takes the id of the main thread.     *)
THEOREM RunningThreadsExist == Spec => []RunningHasCell
<1>1. Init => RunningHasCell
  BY ThreadsAssumption DEF Init, RunningHasCell, Tids
<1> QED
  BY <1>1, TypeCorrect, CellsStep, PTL DEF Spec
=============================================================================
