------------------------------- MODULE Threads -------------------------------
(***************************************************************************)
(* The threads of the execution semantics: thread creation and joining,    *)
(* plain mutexes (semantics/c/library/threads.k), the per-thread store     *)
(* buffer between a write and <mem> (semantics/common/execution/           *)
(* io-buffered.k), reads of shared objects and the data-race rules         *)
(* (semantics/c/language/execution/races.k).                               *)
(*                                                                         *)
(* A K rule is one step.  The rules carry priorities: a rule of priority p *)
(* applies only to a configuration no rule of smaller priority rewrites.   *)
(* Almost all rules have the default 50; the end of the main thread has 75 *)
(* and the rules that move a buffered write to <mem> have 80.  Buffers are *)
(* therefore drained only when every thread waits (Busy is false).         *)
(*                                                                         *)
(* The C program under execution is the environment: a thread between two  *)
(* statements (k[t] = << >>) picks any statement of Statements the program *)
(* assumption LockDiscipline allows.                                       *)
(***************************************************************************)
EXTENDS Naturals, Sequences, FiniteSets

CONSTANTS
  MaxThread,       \* largest thread id: a bound on next-thread-id
  Locs,            \* shared objects, one scalar each
  Values,          \* what the program writes (thread ids are written too)
  Mutexes,         \* what the program passes to mtx_init, _lock and _unlock
  Guard,           \* [Locs -> Mutexes \cup {NoMutex}]: the mutex of a location
  NoMutex, NoLoc,
  LockDiscipline,  \* TRUE: the program obeys MayIssue
  MaxStmts         \* statements of each thread, a bound on the program

ASSUME ThreadsAssumption ==
  /\ MaxThread \in Nat
  /\ Values \subseteq Nat
  /\ NoMutex \notin Mutexes
  /\ NoLoc \notin Locs
  /\ Guard \in [Locs -> Mutexes \cup {NoMutex}]
  /\ LockDiscipline \in BOOLEAN
  /\ MaxStmts \in [0 .. MaxThread -> Nat]

VARIABLES
  threads,        \* the <thread> cells that exist, by thread id
  k,              \* <k> of each thread: the computation left to do
  buffer,         \* <buffer> of each thread: writes not yet in <mem>
  mem,            \* <mem>
  threadStatus,   \* <thread-status>
  nextThreadId,   \* <next-thread-id>
  mutexes,        \* <mutexes>: the initialised ones
  glocks,         \* <glocks>: the locked ones
  locks,          \* <locks> of each thread, as a multiset
  errors,         \* errors reported so far: code and object
  status,         \* <status>
  stmts,          \* statements each thread has issued (bound)
  latest          \* history: the value of the last write executed, per object

vars == <<threads, k, buffer, mem, threadStatus, nextThreadId, mutexes,
          glocks, locks, errors, status, stmts, latest>>

Tids == 0 .. MaxThread

-----------------------------------------------------------------------------
(* Computations.                                                           *)

read(l)        == [op |-> "read", loc |-> l]
readActual(l)  == [op |-> "readActual", loc |-> l]
write(l, v)    == [op |-> "write", loc |-> l, val |-> v]
value(v)       == [op |-> "value", val |-> v]
spawnAux(u)    == [op |-> "spawn-aux", tid |-> u]
joinAux(u, p)  == [op |-> "join-aux", tid |-> u, ptr |-> p]
HALT           == [op |-> "HALT"]

(* A call of a library function: the arguments are bound to parameters,    *)
(* which are written and then read back through the store buffer.          *)
builtin(f, a)  == [op |-> f, arg |-> a]

Statements ==
  {read(l) : l \in Locs}
    \cup {write(l, v) : l \in Locs, v \in Values}
    \cup {builtin("thrd_create", l) : l \in Locs}
    \cup {builtin("thrd_join", <<u, p>>) : u \in Tids, p \in Locs \cup {NoLoc}}
    \cup {builtin(f, m) : f \in {"mtx_init", "mtx_lock", "mtx_unlock"},
                          m \in Mutexes}
    \cup {value(v) : v \in Values}

Holds(t, m) == locks[t][m] > 0

(* The locations a statement reads or writes.                              *)
Touches(s) ==
  {l \in Locs :
     \/ s.op \in {"read", "readActual", "write"} /\ s.loc = l
     \/ s.op = "thrd_create" /\ s.arg = l
     \/ s.op = "thrd_join" /\ s.arg[2] = l
     \/ s.op = "join-aux" /\ s.ptr = l}

(* What a program that guards its shared objects does: it touches l only   *)
(* while it holds Guard[l], unlocks what it holds, locks what it does not  *)
(* hold, and returns from a thread's function holding nothing.             *)
MayIssue(t, s) ==
  /\ \A l \in Touches(s) :
       Guard[l] # NoMutex => Holds(t, Guard[l])
  /\ s.op = "mtx_unlock" => Holds(t, s.arg)
  /\ s.op = "mtx_lock" => ~Holds(t, s.arg)
  /\ s.op = "value" => \A m \in Mutexes : ~Holds(t, m)

locations(b) == {b[i].loc : i \in DOMAIN b}

(* The <buffer> .List </buffer> of the rules that wait for the thread's    *)
(* writes.  A library call waits so too: its parameters are the last       *)
(* writes in the buffer and are read before the function runs.             *)
DrainedAlways(t) == TRUE
Drained(t) == buffer[t] = <<>>

(* The side condition of mtx-lock.                                         *)
UnlockedAlways(m) == TRUE
Unlocked(m) == m \notin glocks

(* removeListItem on the multiset: no item, no change.                     *)
RemoveUnchecked(n) == n - 1
removeListItem(n) == IF n > 0 THEN n - 1 ELSE 0

-----------------------------------------------------------------------------
(* Which thread has a rule of default priority to take.                    *)

JoinValid(t, u) ==
  /\ threadStatus[u] = "threadRunning"
  /\ u # t

(* thrd_join of a thread waits for the joiner's own buffer and for the     *)
(* other thread's <k> to be a result.                                      *)
Joinable(t, u) ==
  /\ JoinValid(t, u)
  /\ Drained(t)
  /\ u \in threads
  /\ Len(k[u]) = 1 /\ k[u][1].op = "value"

Builtins == {"thrd_create", "thrd_join", "mtx_init", "mtx_lock", "mtx_unlock"}

Ready(t) ==
  /\ t \in threads
  /\ \/ k[t] = <<>>
     \/ /\ k[t] # <<>>
        /\ LET h == Head(k[t]) IN
           \/ h.op \in {"read", "write"}
           \/ h.op = "readActual" /\ h.loc \notin locations(buffer[t])
           \/ h.op = "thrd_create" /\ Drained(t) /\ nextThreadId <= MaxThread
           \/ h.op = "thrd_join" /\ Drained(t)
           \/ h.op = "spawn-aux" /\ Drained(t)
           \/ h.op = "join-aux" /\ (Joinable(t, h.tid) \/ ~JoinValid(t, h.tid))
           \/ h.op = "mtx_init" /\ Drained(t) /\ h.arg \notin mutexes
           \/ h.op = "mtx_lock" /\ Drained(t)
                /\ h.arg \in mutexes /\ Unlocked(h.arg)
           \/ h.op = "mtx_unlock" /\ Drained(t) /\ h.arg \in mutexes

BusyUntilResult ==
  \E t \in threads : ~(k[t] # <<>> /\ Head(k[t]).op \in {"value", "HALT"})
Busy == \E t \in threads : Ready(t)

-----------------------------------------------------------------------------
Init ==
  /\ threads = {0}
  /\ k = [t \in Tids |-> <<>>]
  /\ buffer = [t \in Tids |-> <<>>]
  /\ mem = [l \in Locs |-> 0]
  /\ threadStatus = [t \in Tids |-> "none"]
  /\ nextThreadId = 1
  /\ mutexes = {}
  /\ glocks = {}
  /\ locks = [t \in Tids |-> [m \in Mutexes |-> 0]]
  /\ errors = {}
  /\ status = "mainCalled"
  /\ stmts = [t \in Tids |-> 0]
  /\ latest = [l \in Locs |-> 0]

(* The program reaches its next statement.  After MaxStmts statements all  *)
(* it can do is return.                                                    *)
Issue(t, s) ==
  /\ t \in threads
  /\ k[t] = <<>>
  /\ s.op # "value" => stmts[t] < MaxStmts[t]
  /\ LockDiscipline => MayIssue(t, s)
  /\ k' = [k EXCEPT ![t] = <<s>>]
  /\ stmts' = [stmts EXCEPT ![t] = IF s.op = "value" THEN @ ELSE @ + 1]
  /\ UNCHANGED <<threads, buffer, mem, threadStatus, nextThreadId, mutexes,
                 glocks, locks, errors, status, latest>>

AtHead(t, op) == t \in threads /\ k[t] # <<>> /\ Head(k[t]).op = op

(* K's a ~> rest, what follows the head, and the rewriting of the head.    *)
Then(a, rest) == <<a>> \o rest
Rest(t) == Tail(k[t])
Rewrite(t, ks) == k' = [k EXCEPT ![t] = ks]

(* read => readActual: from here on the access is past the race rules.     *)
Read(t) ==
  /\ AtHead(t, "read")
  /\ Rewrite(t, Then(readActual(Head(k[t]).loc), Rest(t)))
  /\ UNCHANGED <<threads, buffer, mem, threadStatus, nextThreadId, mutexes,
                 glocks, locks, errors, status, stmts, latest>>

(* readBytes: takes the bytes from <mem>, and waits while the thread's own *)
(* buffer still holds a write to them.                                     *)
ReadActual(t) ==
  /\ AtHead(t, "readActual")
  /\ Head(k[t]).loc \notin locations(buffer[t])
  /\ Rewrite(t, Rest(t))
  /\ UNCHANGED <<threads, buffer, mem, threadStatus, nextThreadId, mutexes,
                 glocks, locks, errors, status, stmts, latest>>

(* write => ... => writeBytesBuffered: appends to the thread's buffer.     *)
Write(t) ==
  /\ AtHead(t, "write")
  /\ LET h == Head(k[t]) IN
     /\ buffer' = [buffer EXCEPT ![t] =
                     Append(@, [loc |-> h.loc, val |-> h.val])]
     /\ latest' = [latest EXCEPT ![h.loc] = h.val]
  /\ Rewrite(t, Rest(t))
  /\ UNCHANGED <<threads, mem, threadStatus, nextThreadId, mutexes, glocks,
                 locks, errors, status, stmts>>

MainDone == AtHead(0, "value") /\ Len(k[0]) = 1

(* A buffered write reaches <mem>: priority 80, first in first out.        *)
Flush(t) ==
  /\ ~Busy
  /\ ~MainDone
  /\ t \in threads
  /\ buffer[t] # <<>>
  /\ mem' = [mem EXCEPT ![Head(buffer[t]).loc] = Head(buffer[t]).val]
  /\ buffer' = [buffer EXCEPT ![t] = Tail(@)]
  /\ UNCHANGED <<threads, k, threadStatus, nextThreadId, mutexes, glocks,
                 locks, errors, status, stmts, latest>>

-----------------------------------------------------------------------------
(* thrd_create, first rule: take a fresh id and store it through ThIdPtr.  *)
ThrdCreateStart(t) ==
  /\ AtHead(t, "thrd_create")
  /\ Drained(t)
  /\ nextThreadId <= MaxThread
  /\ Rewrite(t, Then(write(Head(k[t]).arg, nextThreadId),
                     Then(spawnAux(nextThreadId), Rest(t))))
  /\ nextThreadId' = nextThreadId + 1
  /\ UNCHANGED <<threads, buffer, mem, threadStatus, mutexes, glocks, locks,
                 errors, status, stmts, latest>>

(* thrd_create, second rule: with the creator's buffer drained, the new    *)
(* thread cell appears, about to call its function.                        *)
ThrdCreate(t) ==
  /\ AtHead(t, "spawn-aux")
  /\ Drained(t)
  /\ LET u == Head(k[t]).tid IN
     /\ threadStatus' = [threadStatus EXCEPT ![u] = "threadRunning"]
     /\ threads' = threads \cup {u}
  /\ Rewrite(t, Rest(t))
  /\ UNCHANGED <<buffer, mem, nextThreadId, mutexes, glocks, locks, errors,
                 status, stmts, latest>>

ThrdJoinStart(t) ==
  /\ AtHead(t, "thrd_join")
  /\ Drained(t)
  /\ Rewrite(t, Then(joinAux(Head(k[t]).arg[1], Head(k[t]).arg[2]), Rest(t)))
  /\ UNCHANGED <<threads, buffer, mem, threadStatus, nextThreadId, mutexes,
                 glocks, locks, errors, status, stmts, latest>>

StatusKept(u) == threadStatus
JoinedStatus(u) == [threadStatus EXCEPT ![u] = "threadJoined"]

(* The joined thread's cell, its <buffer> included, is removed.            *)
ThrdJoin(t) ==
  /\ AtHead(t, "join-aux")
  /\ LET u == Head(k[t]).tid
         p == Head(k[t]).ptr
         result == k[u][1].val
     IN
     /\ Joinable(t, u)
     /\ k' = [k EXCEPT ![t] = IF p = NoLoc THEN Rest(t)
                              ELSE Then(write(p, result), Rest(t)),
                       ![u] = <<>>]
     /\ threads' = threads \ {u}
     /\ buffer' = [buffer EXCEPT ![u] = <<>>]
     /\ locks' = [locks EXCEPT ![u] = [m \in Mutexes |-> 0]]
     /\ threadStatus' = JoinedStatus(u)
  /\ UNCHANGED <<mem, nextThreadId, mutexes, glocks, errors, status, stmts,
                 latest>>

(* UNDEF reports the error and leaves HALT in front of the computation,    *)
(* for which there is no rule unless what follows is of sort Error.        *)
ThrdJoinUndef(t) ==
  /\ AtHead(t, "join-aux")
  /\ ~JoinValid(t, Head(k[t]).tid)
  /\ Rewrite(t, Then(HALT, k[t]))
  /\ errors' = errors \cup {[code |-> "THREADS1", loc |-> NoLoc]}
  /\ UNCHANGED <<threads, buffer, mem, threadStatus, nextThreadId, mutexes,
                 glocks, locks, status, stmts, latest>>

MtxInit(t) ==
  /\ AtHead(t, "mtx_init")
  /\ Drained(t)
  /\ Head(k[t]).arg \notin mutexes
  /\ mutexes' = mutexes \cup {Head(k[t]).arg}
  /\ Rewrite(t, Rest(t))
  /\ UNCHANGED <<threads, buffer, mem, threadStatus, nextThreadId, glocks,
                 locks, errors, status, stmts, latest>>

MtxLock(t) ==
  /\ AtHead(t, "mtx_lock")
  /\ Drained(t)
  /\ Head(k[t]).arg \in mutexes
  /\ Unlocked(Head(k[t]).arg)
  /\ glocks' = glocks \cup {Head(k[t]).arg}
  /\ locks' = [locks EXCEPT ![t][Head(k[t]).arg] = @ + 1]
  /\ Rewrite(t, Rest(t))
  /\ UNCHANGED <<threads, buffer, mem, threadStatus, nextThreadId, mutexes,
                 errors, status, stmts, latest>>

(* mtx_unlock does not ask who holds the mutex; removeListItem leaves a    *)
(* list without the item as it is.                                         *)
MtxUnlock(t) ==
  /\ AtHead(t, "mtx_unlock")
  /\ Drained(t)
  /\ Head(k[t]).arg \in mutexes
  /\ glocks' = glocks \ {Head(k[t]).arg}
  /\ locks' = [locks EXCEPT ![t][Head(k[t]).arg] = removeListItem(@)]
  /\ Rewrite(t, Rest(t))
  /\ UNCHANGED <<threads, buffer, mem, threadStatus, nextThreadId, mutexes,
                 errors, status, stmts, latest>>

-----------------------------------------------------------------------------
(* Two threads are about to touch one object, one of them to write it.     *)
AnyBase(a, b) == TRUE
sameBase(a, b) == a.loc = b.loc

Conflict(t, u) ==
  /\ t # u
  /\ \/ AtHead(t, "read") /\ AtHead(u, "write")
     \/ AtHead(t, "write") /\ AtHead(u, "write")
  /\ sameBase(Head(k[t]), Head(k[u]))

Race(t, u) ==
  /\ Conflict(t, u)
  /\ k' = [k EXCEPT ![t] = Then(HALT, @), ![u] = Then(HALT, @)]
  /\ errors' = errors \cup
       {[code |-> IF AtHead(t, "read") THEN "CEER4" ELSE "CEER5",
         loc |-> Head(k[t]).loc]}
  /\ UNCHANGED <<threads, buffer, mem, threadStatus, nextThreadId, mutexes,
                 glocks, locks, status, stmts, latest>>

(* The main thread's result is all that is left of it: priority 75.        *)
MainEnd ==
  /\ ~Busy
  /\ MainDone
  /\ threads' = threads \ {0}
  /\ k' = [k EXCEPT ![0] = <<>>]
  /\ buffer' = [buffer EXCEPT ![0] = <<>>]
  /\ locks' = [locks EXCEPT ![0] = [m \in Mutexes |-> 0]]
  /\ status' = "terminated"
  /\ UNCHANGED <<mem, threadStatus, nextThreadId, mutexes, glocks, errors,
                 stmts, latest>>

ThreadStep(t) ==
  \/ \E s \in Statements : Issue(t, s)
  \/ Read(t)
  \/ ReadActual(t)
  \/ Write(t)
  \/ ThrdCreateStart(t)
  \/ ThrdCreate(t)
  \/ ThrdJoinStart(t)
  \/ ThrdJoin(t)
  \/ ThrdJoinUndef(t)
  \/ MtxInit(t)
  \/ MtxLock(t)
  \/ MtxUnlock(t)

Next ==
  \/ \E t \in Tids : ThreadStep(t) \/ Flush(t)
  \/ \E t, u \in Tids : Race(t, u)
  \/ MainEnd

Spec == Init /\ [][Next]_vars

(* The interpreter rewrites until no rule applies.                         *)
FairSpec == Spec /\ WF_vars(Next)

-----------------------------------------------------------------------------
KItems ==
  Statements \cup {readActual(l) : l \in Locs}
    \cup {write(l, v) : l \in Locs, v \in Tids}
    \cup {spawnAux(u) : u \in Tids \ {0}}
    \cup {joinAux(u, p) : u \in Tids, p \in Locs \cup {NoLoc}} \cup {HALT}

(* The cells hold what their declarations in the configuration say.        *)
TypeOK ==
  /\ threads \subseteq Tids
  /\ k \in [Tids -> Seq(KItems)]
  /\ buffer \in [Tids -> Seq([loc : Locs, val : Nat])]
  /\ mem \in [Locs -> Nat]
  /\ threadStatus \in [Tids -> {"none", "threadRunning", "threadJoined"}]
  /\ nextThreadId \in 1 .. MaxThread + 1
  /\ mutexes \subseteq Mutexes
  /\ glocks \subseteq Mutexes
  /\ locks \in [Tids -> [Mutexes -> Nat]]
  /\ errors \subseteq [code : {"CEER4", "CEER5", "THREADS1"}, loc : Locs \cup {NoLoc}]
  /\ status \in {"mainCalled", "terminated"}
  /\ stmts \in [Tids -> Nat]
  /\ latest \in [Locs -> Nat]

(* mtx_lock admits one holder: no mutex is held by two threads, and a      *)
(* mutex in <glocks> is in the <locks> of exactly one of them.             *)
MutualExclusion ==
  \A m \in Mutexes :
    /\ \A t, u \in Tids : Holds(t, m) /\ Holds(u, m) => t = u
    /\ m \in glocks <=> \E t \in Tids : Holds(t, m)

(* "Prior calls to mtx_unlock on the same mutex shall synchronize with     *)
(* this operation" (threads.h): a read of a guarded object that is about   *)
(* to take its bytes finds in <mem> the last value any thread wrote.       *)
GuardedReadsSeeLatest ==
  \A t \in threads :
    AtHead(t, "readActual") =>
      LET l == Head(k[t]).loc IN
        Guard[l] # NoMutex /\ l \notin locations(buffer[t])
          => mem[l] = latest[l]

(* The race rules never accuse an access of a guarded object.              *)
NoFalseRace ==
  \A e \in errors : e.code \in {"CEER4", "CEER5"} => Guard[e.loc] = NoMutex

(* A thread id in <thread-status> as running names an existing thread      *)
(* cell, so that a valid thrd_join waits for a thread that can still end   *)
(* and a second join of it finds it joined (THREADS1).                     *)
RunningHasCell ==
  \A u \in Tids : threadStatus[u] = "threadRunning" <=> u \in threads \ {0}

(* Buffered writes do not stay in a buffer: they reach <mem>, or the       *)
(* thread that made them is gone.                                          *)
BuffersDrain == \A t \in Tids : buffer[t] # <<>> ~> buffer[t] = <<>>

(* thrd_join "blocks until the thread identified by thr has terminated"    *)
(* (threads.h): what that thread wrote is in <mem> when it returns.        *)
JoinedThreadDrained ==
  [][\A u \in Tids :
       threadStatus[u] # "threadJoined" /\ threadStatus'[u] = "threadJoined"
         => buffer[u] = <<>>]_vars

-----------------------------------------------------------------------------
(* The inductive strengthening of the three properties above.              *)

SoloOps == {"mtx_lock", "mtx_unlock", "value"}

(* Under the locks held (lk), an item that touches a guarded object has    *)
(* its mutex, an unlock has what it unlocks, and a result holds none.      *)
Covered(a, lk) ==
  /\ \A l \in Touches(a) : Guard[l] # NoMutex => lk[Guard[l]] > 0
  /\ a.op = "mtx_unlock" => lk[a.arg] > 0
  /\ a.op = "value" => \A m \in Mutexes : ~(lk[m] > 0)

(* All items of a computation are covered, and nothing but HALT            *)
(* accompanies one that changes what is held.                              *)
WellFormed(ks, lk) ==
  \A i \in DOMAIN ks :
    /\ Covered(ks[i], lk)
    /\ ks[i].op \in SoloOps => \A j \in DOMAIN ks : j # i => ks[j].op = "HALT"

AllWellFormed == \A t \in Tids : WellFormed(k[t], locks[t])

LocksAtMostOnce == \A t \in Tids, m \in Mutexes : locks[t][m] <= 1

(* Only the holder has writes of a guarded object pending; the last of     *)
(* them is the latest write, and without one <mem> has it.                 *)
Coherent ==
  \A l \in Locs : Guard[l] # NoMutex =>
    /\ \A t \in Tids : \A i \in DOMAIN buffer[t] :
         buffer[t][i].loc = l =>
           /\ Holds(t, Guard[l])
           /\ (\A j \in DOMAIN buffer[t] : j > i => buffer[t][j].loc # l)
                => buffer[t][i].val = latest[l]
    /\ (\A t \in Tids : \A i \in DOMAIN buffer[t] : buffer[t][i].loc # l)
         => mem[l] = latest[l]

LockInv ==
  /\ TypeOK
  /\ MutualExclusion
  /\ LocksAtMostOnce
  /\ AllWellFormed
  /\ Coherent
  /\ NoFalseRace
=============================================================================
