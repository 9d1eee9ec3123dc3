---------------------------- MODULE ControlProofs ----------------------------
(***************************************************************************)
(* Theorems about Control, for programs of any size: the label decides     *)
(* whether a jump is possible, a jump keeps the calls below, locals live   *)
(* as long as their blocks, and signals and exit handlers are reported and *)
(* run as they should.                                                     *)
(***************************************************************************)
EXTENDS Control, SequenceTheorems, TLAPS

-----------------------------------------------------------------------------
(* The inductive invariant.                                                *)

(* A frame that is not of the library, and what can come after it.         *)
Objs == Nat \ {0}
Afters == {Resume} \cup {Revert(sig, "none") : sig \in Signals} \cup {Handlers(l) : l \in Lists}
Frames == [label : Objs, blocks : Seq(SUBSET Objs), after : Afters]
Saved == [controls : Seq(Frames \cup {Library}), label : Objs]
Tasks ==
  {Run, Halted} \cup {longjmp(n) : n \in Objs}
    \cup {callAtExit(l) : l \in Lists} \cup {Done(l) : l \in Lists}

TypeInv ==
  /\ program \in Programs
  /\ controls \in Seq(Frames) /\ mem \subseteq Objs /\ used \in Nat
  /\ jmpBufs \in Seq(Saved) /\ env \in [JmpBufs -> Nat]
  /\ k \in Tasks /\ sigState \in {"none", "raiseOrAbort"}
  /\ exits \in [Lists -> Seq(Nat)] /\ ran \in [Lists -> Seq(Nat)]
  /\ registered \in [Lists -> Nat]
  /\ status \in {"mainCalled", "mainExited"}

(* The frames of the stack and those that setjmp saved.                    *)
Below(s) == {s[i] : i \in 1 .. Len(s) - 1}
KnownFrames ==
  ToSet(controls) \cup UNION {Below(jmpBufs[n].controls) : n \in DOMAIN jmpBufs}

(* An object belongs to one block of one activation, wherever its frame is *)
(* known, and the label to the first block.                                *)
Disjoint(f, g) ==
  \A i \in DOMAIN f.blocks, j \in DOMAIN g.blocks :
    f.blocks[i] \cap g.blocks[j] # {} => f.label = g.label /\ i = j
PlacedIn(F, u) ==
  /\ \A f, g \in F : Disjoint(f, g) /\ (f.label = g.label => f.after = g.after)
  /\ \A f \in F : /\ f \in Frames /\ 1 \in DOMAIN f.blocks /\ f.label \in f.blocks[1]
                  /\ \A i \in DOMAIN f.blocks : f.blocks[i] \subseteq 1..u
Placed == PlacedIn(KnownFrames, used) /\ mem \subseteq 1..used

(* The stack: one activation per label, whose object is there; main or an  *)
(* exit handler at the bottom.                                             *)
StackOK ==
  /\ \A i, j \in DOMAIN controls : controls[i].label = controls[j].label => i = j
  /\ \A i \in DOMAIN controls : controls[i].label \in mem
  /\ controls # <<>> => controls[1].after.op = "handlers"

(* What setjmp saved: the library function on top of its caller; as long   *)
(* as the caller's label lives, it is on the stack in the same place and   *)
(* on the same activations.                                                *)
Kept(buf) ==
  LET s == buf.controls IN
  /\ Len(s) > 1 /\ Last(s) = Library /\ s[Len(s) - 1].label = buf.label
  /\ \A i \in 1 .. Len(s) - 1 : s[i] \in Frames /\ Len(s[i].blocks) > 1
  /\ buf.label \in mem => \E t \in DOMAIN controls : controls[t].label = buf.label
  /\ \A t \in DOMAIN controls : controls[t].label = buf.label =>
       t = Len(s) - 1 /\ \A i \in 1 .. t - 1 : controls[i] = s[i]
BufsOK ==
  /\ \A v \in JmpBufs : env[v] # 0 => env[v] \in DOMAIN jmpBufs
  /\ \A n \in DOMAIN jmpBufs : Kept(jmpBufs[n])

(* What <k> does is possible.  A function has its parameters and a body,   *)
(* except one that a jump is leaving.                                      *)
TaskOK ==
  /\ k.op = "run" => controls # <<>>
  /\ k.op = "longjmp" => k.id \in DOMAIN jmpBufs
  /\ \A i \in DOMAIN controls :
       \/ Len(controls[i].blocks) > 1
       \/ k.op = "halted"
       \/ k.op = "longjmp" /\ i = Len(controls) /\ ~Lands(controls[i], jmpBufs[k.id])

(* What MayJump asked for at the start of a jump holds until it arrives.   *)
MayLand(buf) ==
  \A t \in DOMAIN controls : controls[t].label = buf.label =>
    /\ program.nested =>
         /\ Len(controls[t].blocks) > Len(buf.controls[t].blocks)
         /\ UNION ToSet(buf.controls[t].blocks) \subseteq mem
    /\ program.returns => \A i \in t + 1 .. Len(controls) : controls[i].after.op # "revert"
JumpOK == k.op = "longjmp" => MayLand(jmpBufs[k.id])

(* A handler is on the stack while the state says so, unless the program   *)
(* jumped out of one or has been stopped.                                  *)
Handling == \E i \in DOMAIN controls : controls[i].after.op = "revert"
HandlingOK ==
  /\ error # "none" => k = Halted
  /\ program.returns /\ k # Halted /\ sigState = "raiseOrAbort" => Handling
  /\ SignalReports

(* The handlers called and those left are all that were registered, the    *)
(* last one first.                                                         *)
Countdown(n) == [i \in 1..n |-> n + 1 - i]
ExitsOK ==
  /\ \A l \in Lists : ran[l] \o exits[l] = Countdown(registered[l])
  /\ status = "mainCalled" => \A l \in Lists : ran[l] = <<>>
  /\ k.op = "done" => exits[k.list] = <<>>

ControlInv ==
  /\ TypeInv /\ Placed /\ StackOK /\ BufsOK /\ TaskOK /\ JumpOK
  /\ HandlingOK /\ ExitsOK /\ LocalsLive

-----------------------------------------------------------------------------
(* Sequences.                                                              *)

LEMMA PrefixLength ==
  ASSUME NEW S, NEW s \in Seq(S), NEW n \in Nat, n <= Len(s)
  PROVE  Len(SubSeq(s, 1, n)) = n
BY SubSeqProperties

LEMMA LastAndFront ==
  ASSUME NEW S, NEW s \in Seq(S), s # <<>>
  PROVE  /\ Len(s) \in Nat \ {0} /\ Len(s) \in DOMAIN s
         /\ Last(s) = s[Len(s)] /\ Last(s) \in S
         /\ Front(s) \in Seq(S) /\ Len(Front(s)) = Len(s) - 1
         /\ DOMAIN Front(s) = 1 .. Len(s) - 1
         /\ \A i \in DOMAIN Front(s) : i \in DOMAIN s /\ Front(s)[i] = s[i]
<1>1. /\ Len(s) \in Nat \ {0} /\ Len(s) \in DOMAIN s
      /\ Last(s) = s[Len(s)] /\ Last(s) \in S
  BY DEF Last
<1>2. Front(s) \in Seq(S) /\ Len(Front(s)) = Len(s) - 1
  <2>1. Front(s) \in Seq(S)
    BY DEF Front
  <2>2. Len(s) - 1 \in Nat /\ Len(s) - 1 <= Len(s)
    BY <1>1
  <2>3. Len(Front(s)) = Len(s) - 1
    BY <2>2, PrefixLength DEF Front
  <2> QED
    BY <2>1, <2>3
<1>3. DOMAIN Front(s) = 1 .. Len(s) - 1
  BY <1>2
<1>4. \A i \in 1 .. Len(s) - 1 : i \in DOMAIN s /\ Front(s)[i] = s[i]
  BY <1>1 DEF Front
<1> QED
  BY <1>1, <1>2, <1>3, <1>4

LEMMA AppendFacts ==
  ASSUME NEW S, NEW s \in Seq(S), NEW e \in S
  PROVE  /\ Append(s, e) \in Seq(S) /\ Len(Append(s, e)) = Len(s) + 1
         /\ DOMAIN Append(s, e) = 1 .. Len(s) + 1
         /\ Append(s, e)[Len(s) + 1] = e
         /\ \A i \in DOMAIN s : i \in DOMAIN Append(s, e) /\ Append(s, e)[i] = s[i]
         /\ Append(s, e) # <<>>
OBVIOUS

LEMMA ReplaceLast ==
  ASSUME NEW S, NEW s \in Seq(S), s # <<>>, NEW e \in S
  PROVE  /\ Front(s) \o <<e>> \in Seq(S) /\ Len(Front(s) \o <<e>>) = Len(s)
         /\ DOMAIN (Front(s) \o <<e>>) = DOMAIN s
         /\ (Front(s) \o <<e>>)[Len(s)] = e
         /\ \A i \in DOMAIN s : i # Len(s) => (Front(s) \o <<e>>)[i] = s[i]
BY LastAndFront

(* The place that Target finds.                                            *)
LEMMA TargetFound ==
  ASSUME TypeInv, StackOK, NEW buf
  PROVE  /\ \A t \in DOMAIN controls : controls[t].label = buf.label => Target(buf) = t
         /\ Target(buf) # 0 => \E t \in DOMAIN controls : controls[t].label = buf.label
<1> DEFINE I == {i \in 1 .. Len(controls) : controls[i].label = buf.label}
<1>1. Target(buf) = IF I # {} THEN Min(I) ELSE 0
  BY DEF Target, SelectInSeq
<1>2. DOMAIN controls = 1 .. Len(controls) /\ Len(controls) \in Nat
  BY DEF TypeInv
<1>3. ASSUME NEW t \in DOMAIN controls, controls[t].label = buf.label
      PROVE  Target(buf) = t
  <2>1. t \in I /\ \A j \in I : j = t
    BY <1>2, <1>3 DEF StackOK
  <2>2. Min(I) = t
    BY <2>1, <1>2 DEF Min
  <2> QED
    BY <1>1, <2>1, <2>2
<1>4. Target(buf) # 0 => \E t \in DOMAIN controls : controls[t].label = buf.label
  BY <1>1, <1>2
<1> QED
  BY <1>3, <1>4

-----------------------------------------------------------------------------
(* Where objects are.                                                      *)

LEMMA PlacedFewer ==
  ASSUME NEW F, NEW G, G \subseteq F, NEW u \in Nat, NEW w \in Nat, u <= w, PlacedIn(F, u)
  PROVE  PlacedIn(G, w)
<1>1. 1..u \subseteq 1..w
  OBVIOUS
<1> QED
  BY <1>1 DEF PlacedIn

(* A known frame may lose objects, and get a new one in some block.        *)
LEMMA PlacedChanged ==
  ASSUME NEW F, NEW u \in Nat, PlacedIn(F, u), NEW f \in F, NEW g \in Frames, NEW m,
         g.label = f.label, g.after = f.after,
         1 \in DOMAIN g.blocks, g.label \in g.blocks[1],
         \A i \in DOMAIN g.blocks : \A x \in g.blocks[i] :
           (i \in DOMAIN f.blocks /\ x \in f.blocks[i]) \/ (x = u + 1 /\ i = m)
  PROVE  PlacedIn(F \cup {g}, u + 1)
<1>1. ASSUME NEW h \in F, NEW j \in DOMAIN h.blocks PROVE u + 1 \notin h.blocks[j]
  BY DEF PlacedIn
<1>2. ASSUME NEW h \in F PROVE Disjoint(h, g) /\ Disjoint(g, h)
  BY <1>1 DEF PlacedIn, Disjoint
<1>3. Disjoint(g, g)
  BY <1>1 DEF PlacedIn, Disjoint
<1>4. \A i \in DOMAIN g.blocks : g.blocks[i] \subseteq 1 .. u + 1
  BY DEF PlacedIn
<1>5. PlacedIn(F, u + 1)
  BY PlacedFewer
<1> QED
  BY <1>2, <1>3, <1>4, <1>5 DEF PlacedIn

(* A new activation has a new object.                                      *)
LEMMA PlacedNew ==
  ASSUME NEW F, NEW u \in Nat, PlacedIn(F, u), NEW after \in Afters
  PROVE  /\ Activation(u + 1, after) \in Frames
         /\ PlacedIn(F \cup {Activation(u + 1, after)}, u + 1)
<1> DEFINE a == Activation(u + 1, after)
<1>1. /\ a \in Frames /\ a.label = u + 1 /\ a.after = after
      /\ DOMAIN a.blocks = {1, 2} /\ a.blocks[1] = {u + 1} /\ a.blocks[2] = {}
      /\ Len(a.blocks) = 2
  BY DEF Activation, Frames, Objs
<1> HIDE DEF a
<1>2. ASSUME NEW h \in F, NEW j \in DOMAIN h.blocks PROVE u + 1 \notin h.blocks[j]
  BY DEF PlacedIn
<1>3. ASSUME NEW h \in F PROVE h.label # u + 1
  BY <1>3, <1>2 DEF PlacedIn
<1>4. ASSUME NEW h \in F PROVE Disjoint(h, a) /\ Disjoint(a, h)
  BY <1>1, <1>2 DEF Disjoint
<1>5. Disjoint(a, a)
  BY <1>1 DEF Disjoint
<1>6. \A i \in DOMAIN a.blocks : a.blocks[i] \subseteq 1 .. u + 1
  BY <1>1
<1>7. PlacedIn(F, u + 1)
  BY PlacedFewer
<1>8. PlacedIn(F \cup {a}, u + 1)
  BY <1>1, <1>3, <1>4, <1>5, <1>6, <1>7 DEF PlacedIn
<1> QED
  BY <1>1, <1>8 DEF a

(* The frames of the stack and of what setjmp saved.                       *)
LEMMA Known ==
  ASSUME TypeInv
  PROVE  /\ \A i \in DOMAIN controls : controls[i] \in KnownFrames
         /\ \A n \in DOMAIN jmpBufs : \A i \in 1 .. Len(jmpBufs[n].controls) - 1 :
              jmpBufs[n].controls[i] \in KnownFrames
BY DEF KnownFrames, ToSet, Below

(* The frame on top; no other block holds an object of one of its blocks.  *)
LEMMA TopFrame ==
  ASSUME TypeInv, Placed, StackOK, controls # <<>>
  PROVE  /\ Len(controls) \in Nat \ {0} /\ Len(controls) \in DOMAIN controls
         /\ Top = controls[Len(controls)] /\ Top \in Frames /\ Top \in KnownFrames
         /\ Top.blocks \in Seq(SUBSET Objs) /\ Top.blocks # <<>>
         /\ 1 \in DOMAIN Top.blocks /\ Top.label \in Top.blocks[1]
         /\ \A f \in KnownFrames : f.label # Top.label =>
              \A i \in DOMAIN Top.blocks, j \in DOMAIN f.blocks :
                Top.blocks[i] \cap f.blocks[j] = {}
         /\ \A f \in KnownFrames : \A i \in DOMAIN Top.blocks, j \in DOMAIN f.blocks :
              i # j => Top.blocks[i] \cap f.blocks[j] = {}
<1>1. /\ Len(controls) \in Nat \ {0} /\ Len(controls) \in DOMAIN controls
      /\ Top = controls[Len(controls)] /\ Top \in Frames
  BY LastAndFront DEF TypeInv, Top
<1>2. Top \in KnownFrames
  BY <1>1, Known
<1>3. /\ Top.blocks \in Seq(SUBSET Objs)
      /\ 1 \in DOMAIN Top.blocks /\ Top.label \in Top.blocks[1]
  BY <1>1, <1>2 DEF Placed, PlacedIn, Frames
<1>4. Top.blocks # <<>>
  BY <1>3
<1>5. \A f \in KnownFrames : Disjoint(Top, f)
  BY <1>2 DEF Placed, PlacedIn
<1> QED
  BY <1>1, <1>2, <1>3, <1>4, <1>5 DEF Disjoint

(* The labels of saved frames are not new.                                 *)
LEMMA LabelsUsed ==
  ASSUME TypeInv, Placed
  PROVE  /\ \A f \in KnownFrames : f.label \in 1..used
         /\ BufsOK => \A n \in DOMAIN jmpBufs : jmpBufs[n].label \in 1..used
<1>1. \A f \in KnownFrames : f.label \in 1..used
  BY DEF Placed, PlacedIn
<1>2. ASSUME BufsOK, NEW n \in DOMAIN jmpBufs PROVE jmpBufs[n].label \in 1..used
  <2>1. jmpBufs[n] \in Saved
    BY DEF TypeInv
  <2> DEFINE s == jmpBufs[n].controls
  <2>2. s \in Seq(Frames \cup {Library}) /\ Len(s) \in Nat
    BY <2>1 DEF Saved
  <2>3. Len(s) > 1 /\ s[Len(s) - 1].label = jmpBufs[n].label
    BY <1>2 DEF BufsOK, Kept
  <2>4. s[Len(s) - 1] \in KnownFrames
    BY <2>2, <2>3, Known
  <2> QED
    BY <2>3, <2>4, <1>1
<1> QED
  BY <1>1, <1>2

-----------------------------------------------------------------------------
(* Steps that change only the function on top: its blocks, or, when a jump *)
(* arrives, all of it.                                                     *)

SameCalls ==
  /\ Len(controls') = Len(controls)
  /\ Last(controls').label = Top.label /\ Last(controls').after = Top.after
  /\ \A i \in 1 .. Len(controls) - 1 : controls'[i] = controls[i]

LEMMA SameLabels ==
  ASSUME TypeInv, TypeInv', controls # <<>>, SameCalls
  PROVE  /\ DOMAIN controls' = DOMAIN controls /\ Len(controls) \in DOMAIN controls
         /\ Len(controls) \in Nat
         /\ \A i \in DOMAIN controls : /\ controls'[i].label = controls[i].label
                                       /\ controls'[i].after = controls[i].after
                                       /\ i # Len(controls) => controls'[i] = controls[i]
<1>1. /\ controls \in Seq(Frames) /\ controls' \in Seq(Frames)
      /\ Len(controls) \in Nat \ {0} /\ Len(controls') = Len(controls)
  BY LastAndFront DEF TypeInv, SameCalls
<1>2. /\ DOMAIN controls' = 1 .. Len(controls) /\ DOMAIN controls = 1 .. Len(controls)
      /\ Len(controls) \in DOMAIN controls
  BY <1>1
<1>3. Top = controls[Len(controls)] /\ Last(controls') = controls'[Len(controls)]
  BY <1>1 DEF Top, Last
<1>4. ASSUME NEW i \in DOMAIN controls, i # Len(controls) PROVE controls'[i] = controls[i]
  BY <1>1, <1>2, <1>4 DEF SameCalls
<1> QED
  BY <1>1, <1>2, <1>3, <1>4 DEF SameCalls

LEMMA TopChanges ==
  ASSUME TypeInv, TypeInv', Placed, StackOK, BufsOK, controls # <<>>, SameCalls,
         jmpBufs' = jmpBufs, env' = env,
         mem' \subseteq mem \cup {used + 1},
         \A x \in mem \ mem' : \E i \in DOMAIN Top.blocks : i # 1 /\ x \in Top.blocks[i]
  PROVE  StackOK' /\ BufsOK'
<1>1. \A i \in DOMAIN controls : controls[i].label \in mem'
  <2> TAKE i \in DOMAIN controls
  <2>1. controls[i] \in KnownFrames /\ controls[i].label \in mem
    BY Known DEF StackOK
  <2>2. 1 \in DOMAIN controls[i].blocks /\ controls[i].label \in controls[i].blocks[1]
    BY <2>1 DEF Placed, PlacedIn
  <2>3. \A j \in DOMAIN Top.blocks : j # 1 => Top.blocks[j] \cap controls[i].blocks[1] = {}
    BY <2>1, <2>2, TopFrame
  <2> QED
    BY <2>1, <2>2, <2>3
<1>2. StackOK'
  <2>1. 1 \in DOMAIN controls /\ controls[1].after.op = "handlers"
    BY DEF StackOK, TypeInv
  <2>2. controls'[1].after.op = "handlers"
    BY <2>1, SameLabels
  <2>3. \A i, j \in DOMAIN controls' : controls'[i].label = controls'[j].label => i = j
    BY SameLabels DEF StackOK
  <2>4. \A i \in DOMAIN controls' : controls'[i].label \in mem'
    BY <1>1, SameLabels
  <2> QED
    BY <2>2, <2>3, <2>4 DEF StackOK
<1>3. ASSUME NEW n \in DOMAIN jmpBufs PROVE Kept(jmpBufs[n])'
  <2> DEFINE buf == jmpBufs[n]
             s == buf.controls
  <2>1. Kept(buf) /\ buf' = buf
    BY DEF BufsOK
  <2>2. /\ Len(s) > 1 /\ Last(s) = Library /\ s[Len(s) - 1].label = buf.label
        /\ \A i \in 1 .. Len(s) - 1 : s[i] \in Frames /\ Len(s[i].blocks) > 1
    BY <2>1 DEF Kept
  <2>3. ASSUME buf.label \in mem' PROVE \E t \in DOMAIN controls' : controls'[t].label = buf.label
    <3>1. buf.label \in mem
      BY <2>3, LabelsUsed DEF TypeInv
    <3>2. PICK t \in DOMAIN controls : controls[t].label = buf.label
      BY <3>1, <2>1 DEF Kept
    <3> QED
      BY <3>2, SameLabels
  <2>4. ASSUME NEW t \in DOMAIN controls', controls'[t].label = buf.label
        PROVE  t = Len(s) - 1 /\ \A i \in 1 .. t - 1 : controls'[i] = s[i]
    <3>1. t \in DOMAIN controls /\ controls[t].label = buf.label
      BY <2>4, SameLabels
    <3>2. t = Len(s) - 1 /\ \A i \in 1 .. t - 1 : controls[i] = s[i]
      BY <3>1, <2>1 DEF Kept
    <3>3. \A i \in 1 .. t - 1 : i \in DOMAIN controls /\ i # Len(controls)
      BY <3>1 DEF TypeInv
    <3> QED
      BY <3>2, <3>3, SameLabels
  <2> QED
    BY <2>1, <2>2, <2>3, <2>4 DEF Kept
<1>4. BufsOK'
  BY <1>3 DEF BufsOK
<1> QED
  BY <1>2, <1>4

(* New blocks of the function on top.                                      *)
LEMMA InTopFacts ==
  ASSUME TypeInv, controls # <<>>, NEW b \in Seq(SUBSET Objs)
  PROVE  /\ [Top EXCEPT !.blocks = b] \in Frames
         /\ InTop(b) \in Seq(Frames) /\ Len(InTop(b)) = Len(controls)
         /\ DOMAIN InTop(b) = DOMAIN controls /\ InTop(b) # <<>>
         /\ InTop(b)[Len(controls)] = [Top EXCEPT !.blocks = b]
         /\ \A i \in DOMAIN controls : i # Len(controls) => InTop(b)[i] = controls[i]
         /\ InTop(b)[Len(controls)].label = Top.label
         /\ InTop(b)[Len(controls)].after = Top.after
         /\ InTop(b)[Len(controls)].blocks = b
<1>1. /\ controls \in Seq(Frames) /\ Len(controls) \in Nat \ {0}
      /\ Len(controls) \in DOMAIN controls
      /\ Top = controls[Len(controls)] /\ Top \in Frames
  BY LastAndFront DEF TypeInv, Top
<1>2. [Top EXCEPT !.blocks = b] \in Frames
  BY <1>1 DEF Frames
<1>3. InTop(b) = [controls EXCEPT ![Len(controls)] = [Top EXCEPT !.blocks = b]]
  BY <1>1 DEF InTop
<1> QED
  BY <1>1, <1>2, <1>3 DEF Frames

(* The step changes the blocks of the function on top to b: there may be   *)
(* one new object, and objects of blocks that it closed may be gone.       *)
BlocksChange(b) ==
  /\ b \in Seq(SUBSET Objs) /\ 1 \in DOMAIN b /\ Top.label \in b[1]
  /\ controls' = InTop(b) /\ used' \in {used, used + 1}
  /\ used' = used + 1 => used + 1 \in mem'
  /\ \A i \in DOMAIN b : \A x \in b[i] :
       \/ i \in DOMAIN Top.blocks /\ x \in Top.blocks[i]
       \/ x = used + 1 /\ i = Len(b) /\ used' = used + 1
  /\ mem' \subseteq mem \cup {x \in {used + 1} : used' = used + 1}
  /\ \A x \in mem \ mem' : \E i \in DOMAIN Top.blocks : i \notin DOMAIN b /\ x \in Top.blocks[i]

LEMMA InTopStep ==
  ASSUME TypeInv, Placed, StackOK, BufsOK, controls # <<>>, TypeInv',
         jmpBufs' = jmpBufs, env' = env, NEW b, BlocksChange(b)
  PROVE  Placed' /\ StackOK' /\ BufsOK' /\ SameCalls
<1> USE DEF BlocksChange
<1> DEFINE g == [Top EXCEPT !.blocks = b]
<1>1. SameCalls
  <2>1. /\ Len(controls') = Len(controls)
        /\ controls'[Len(controls)].label = Top.label
        /\ controls'[Len(controls)].after = Top.after
        /\ \A i \in DOMAIN controls : i # Len(controls) => controls'[i] = controls[i]
    BY InTopFacts
  <2>2. \A i \in 1 .. Len(controls) - 1 : i \in DOMAIN controls /\ i # Len(controls)
    BY DEF TypeInv
  <2>3. Last(controls') = controls'[Len(controls)]
    BY <2>1 DEF Last
  <2> QED
    BY <2>1, <2>2, <2>3 DEF SameCalls
<1>2. StackOK' /\ BufsOK'
  BY <1>1, TopChanges
<1>3. g \in Frames /\ g.label = Top.label /\ g.after = Top.after /\ g.blocks = b
  BY InTopFacts, TopFrame DEF Frames
<1>4. KnownFrames' \subseteq KnownFrames \cup {g}
  <2>1. \A i \in DOMAIN controls' :
          (i \in DOMAIN controls /\ controls'[i] = controls[i]) \/ controls'[i] = g
    BY InTopFacts, Zenon
  <2>2. ToSet(controls') \subseteq ToSet(controls) \cup {g}
    BY <2>1 DEF ToSet
  <2> QED
    BY <2>2 DEF KnownFrames
<1>h. \A i \in DOMAIN g.blocks : \A x \in g.blocks[i] :
        (i \in DOMAIN Top.blocks /\ x \in Top.blocks[i]) \/ (x = used + 1 /\ i = Len(b))
  BY <1>3
<1>p. PlacedIn(KnownFrames \cup {g}, used + 1)
  <2> DEFINE F == KnownFrames
             f == Top
  <2>1. used \in Nat /\ PlacedIn(F, used) /\ f \in F /\ g \in Frames
    BY <1>3, TopFrame DEF Placed, TypeInv
  <2>2. 1 \in DOMAIN g.blocks /\ g.label \in g.blocks[1]
    BY <1>3
  <2> HIDE DEF F, f, g
  <2>3. PlacedIn(F \cup {g}, used + 1)
    BY <2>1, <2>2, <1>3, <1>h, PlacedChanged DEF f
  <2> QED
    BY <2>3 DEF F
<1> HIDE DEF g
<1>5. PlacedIn(KnownFrames', used')
  <2>1. CASE used' = used + 1
    BY <2>1, <1>p, <1>4, PlacedFewer DEF TypeInv
  <2>2. CASE used' = used
    <3>1. \A i \in DOMAIN g.blocks : \A x \in g.blocks[i] :
            i \in DOMAIN Top.blocks /\ x \in Top.blocks[i]
      BY <2>2, <1>3 DEF TypeInv
    <3>3. \A i \in DOMAIN g.blocks : g.blocks[i] \subseteq 1..used
      BY <3>1, TopFrame DEF Placed, PlacedIn
    <3>4. PlacedIn(KnownFrames \cup {g}, used)
      BY <1>p, <3>3 DEF Placed, PlacedIn
    <3> QED
      BY <2>2, <3>4, <1>4, PlacedFewer DEF TypeInv
  <2> QED
    BY <2>1, <2>2
<1>6. (mem \subseteq 1..used)'
  BY DEF Placed, TypeInv
<1> QED
  BY <1>1, <1>2, <1>5, <1>6 DEF Placed

-----------------------------------------------------------------------------
(* Steps that leave a function, enter one, or save the stack.              *)

LEMMA PopFacts ==
  ASSUME TypeInv, controls # <<>>, controls' = Front(controls)
  PROVE  /\ Len(controls) \in Nat \ {0} /\ Len(controls') = Len(controls) - 1
         /\ DOMAIN controls' = 1 .. Len(controls) - 1
         /\ \A i \in DOMAIN controls' :
              i \in DOMAIN controls /\ i # Len(controls) /\ controls'[i] = controls[i]
         /\ \A i \in DOMAIN controls : i # Len(controls) => i \in DOMAIN controls'
         /\ Top = controls[Len(controls)] /\ Len(controls) \in DOMAIN controls
<1>1. /\ Len(controls) \in Nat \ {0} /\ Len(controls') = Len(controls) - 1
      /\ DOMAIN controls' = 1 .. Len(controls) - 1
      /\ \A i \in DOMAIN controls' : i \in DOMAIN controls /\ controls'[i] = controls[i]
      /\ Top = controls[Len(controls)] /\ Len(controls) \in DOMAIN controls
  BY LastAndFront DEF TypeInv, Top
<1>2. DOMAIN controls = 1 .. Len(controls)
  BY DEF TypeInv
<1> QED
  BY <1>1, <1>2

LEMMA PopStep ==
  ASSUME TypeInv, TypeInv', Placed, StackOK, BufsOK, controls # <<>>,
         controls' = Front(controls), used' = used, jmpBufs' = jmpBufs, env' = env,
         NEW D, mem' = mem \ D, Top.label \in D,
         \A x \in D : \E i \in DOMAIN Top.blocks : x \in Top.blocks[i]
  PROVE  /\ Placed' /\ StackOK' /\ BufsOK'
         /\ \A i \in DOMAIN controls' : \A j \in DOMAIN controls[i].blocks :
              D \cap controls[i].blocks[j] = {}
<1>1. ASSUME NEW i \in DOMAIN controls', NEW j \in DOMAIN controls[i].blocks
      PROVE  D \cap controls[i].blocks[j] = {}
  <2>1. i \in DOMAIN controls /\ controls[i] \in KnownFrames /\ controls[i].label # Top.label
    BY PopFacts, Known DEF StackOK
  <2> QED
    BY <2>1, TopFrame
<1>2. StackOK'
  <2>1. \A i, j \in DOMAIN controls' : controls'[i].label = controls'[j].label => i = j
    BY PopFacts DEF StackOK
  <2>2. ASSUME NEW i \in DOMAIN controls' PROVE controls'[i].label \in mem'
    <3>1. controls'[i] = controls[i] /\ controls[i] \in KnownFrames /\ controls[i].label \in mem
      BY PopFacts, Known DEF StackOK
    <3>2. 1 \in DOMAIN controls[i].blocks /\ controls[i].label \in controls[i].blocks[1]
      BY <3>1 DEF Placed, PlacedIn
    <3> QED
      BY <3>1, <3>2, <1>1
  <2>3. controls' # <<>> => controls'[1].after.op = "handlers"
    <3>1. controls' # <<>> => 1 \in DOMAIN controls'
      BY DEF TypeInv
    <3> QED
      BY <3>1, PopFacts DEF StackOK
  <2> QED
    BY <2>1, <2>2, <2>3 DEF StackOK
<1>3. ASSUME NEW n \in DOMAIN jmpBufs PROVE Kept(jmpBufs[n])'
  <2> DEFINE buf == jmpBufs[n]
             s == buf.controls
  <2>1. Kept(buf) /\ buf' = buf
    BY DEF BufsOK
  <2>2. /\ Len(s) > 1 /\ Last(s) = Library /\ s[Len(s) - 1].label = buf.label
        /\ \A i \in 1 .. Len(s) - 1 : s[i] \in Frames /\ Len(s[i].blocks) > 1
    BY <2>1 DEF Kept
  <2>3. ASSUME buf.label \in mem' PROVE \E t \in DOMAIN controls' : controls'[t].label = buf.label
    <3>1. PICK t \in DOMAIN controls : controls[t].label = buf.label
      BY <2>1, <2>3 DEF Kept
    <3>2. t # Len(controls)
      BY <3>1, <2>3, PopFacts
    <3> QED
      BY <3>1, <3>2, PopFacts
  <2>4. ASSUME NEW t \in DOMAIN controls', controls'[t].label = buf.label
        PROVE  t = Len(s) - 1 /\ \A i \in 1 .. t - 1 : controls'[i] = s[i]
    <3>1. t \in DOMAIN controls /\ controls[t].label = buf.label
      BY <2>4, PopFacts
    <3>2. t = Len(s) - 1 /\ \A i \in 1 .. t - 1 : controls[i] = s[i]
      BY <3>1, <2>1 DEF Kept
    <3>3. \A i \in 1 .. t - 1 : i \in DOMAIN controls'
      BY <2>4, PopFacts
    <3> QED
      BY <3>2, <3>3, PopFacts
  <2> QED
    BY <2>1, <2>2, <2>3, <2>4 DEF Kept
<1>4. BufsOK'
  BY <1>3 DEF BufsOK
<1>5. Placed'
  <2>1. ToSet(controls') \subseteq ToSet(controls)
    BY PopFacts DEF ToSet
  <2>2. KnownFrames' \subseteq KnownFrames
    BY <2>1 DEF KnownFrames
  <2>3. PlacedIn(KnownFrames', used')
    BY <2>2, PlacedFewer DEF Placed, TypeInv
  <2> QED
    BY <2>3 DEF Placed
<1> QED
  BY <1>1, <1>2, <1>4, <1>5

LEMMA PushFacts ==
  ASSUME TypeInv, Placed, NEW after \in Afters, Apply(after)
  PROVE  /\ used' = used + 1 /\ mem' = mem \cup {used + 1} /\ used \in Nat
         /\ Activation(used + 1, after) \in Frames
         /\ controls' \in Seq(Frames) /\ controls' # <<>>
         /\ Len(controls) \in Nat /\ Len(controls') = Len(controls) + 1
         /\ DOMAIN controls = 1 .. Len(controls) /\ DOMAIN controls' = 1 .. Len(controls) + 1
         /\ controls'[Len(controls) + 1] = Activation(used + 1, after)
         /\ controls'[Len(controls) + 1].label = used + 1
         /\ controls'[Len(controls) + 1].after = after
         /\ controls'[Len(controls) + 1].blocks = <<{used + 1}, {}>>
         /\ \A i \in DOMAIN controls : controls'[i] = controls[i]
<1>1. /\ used' = used + 1 /\ mem' = mem \cup {used + 1}
      /\ controls' = Append(controls, Activation(used + 1, after))
      /\ used \in Nat /\ controls \in Seq(Frames)
  BY DEF Apply, TypeInv
<1>2. Activation(used + 1, after) \in Frames
  BY <1>1, PlacedNew DEF Placed
<1>3. /\ Activation(used + 1, after).label = used + 1
      /\ Activation(used + 1, after).after = after
      /\ Activation(used + 1, after).blocks = <<{used + 1}, {}>>
  BY DEF Activation
<1>4. /\ Len(controls) \in Nat /\ DOMAIN controls = 1 .. Len(controls)
  BY <1>1
<1> QED
  BY <1>1, <1>2, <1>3, <1>4, AppendFacts

LEMMA PushStep ==
  ASSUME TypeInv, Placed, StackOK, BufsOK, jmpBufs' = jmpBufs, env' = env,
         NEW after \in Afters, Apply(after), controls = <<>> => after.op = "handlers"
  PROVE  Placed' /\ StackOK' /\ BufsOK'
<1> DEFINE a == Activation(used + 1, after)
           n == Len(controls) + 1
<1>1. /\ \A i \in DOMAIN controls : controls[i].label \in 1..used
      /\ \A m \in DOMAIN jmpBufs : jmpBufs[m].label \in 1..used
  BY LabelsUsed, Known
<1>2. \A i \in DOMAIN controls' :
        (i \in DOMAIN controls /\ controls'[i] = controls[i]) \/ (i = n /\ i \notin DOMAIN controls)
  BY PushFacts
<1>3. n \in DOMAIN controls' /\ controls'[n].label = used + 1 /\ controls'[n] = a
  BY PushFacts
<1>4. used + 1 \notin 1..used
  BY PushFacts
<1>5. StackOK'
  <2>1. \A i, j \in DOMAIN controls' : controls'[i].label = controls'[j].label => i = j
    BY <1>1, <1>2, <1>3, <1>4 DEF StackOK
  <2>2. \A i \in DOMAIN controls' : controls'[i].label \in mem'
    BY <1>2, <1>3, PushFacts DEF StackOK
  <2>3. controls'[1].after.op = "handlers"
    <3>1. CASE controls = <<>>
      BY <3>1, PushFacts
    <3>2. CASE controls # <<>>
      <4>1. 1 \in DOMAIN controls
        BY <3>2 DEF TypeInv
      <4> QED
        BY <4>1, <3>2, PushFacts DEF StackOK
    <3> QED
      BY <3>1, <3>2
  <2> QED
    BY <2>1, <2>2, <2>3 DEF StackOK
<1>6. ASSUME NEW m \in DOMAIN jmpBufs PROVE Kept(jmpBufs[m])'
  <2> DEFINE buf == jmpBufs[m]
             s == buf.controls
  <2>1. Kept(buf) /\ buf' = buf
    BY DEF BufsOK
  <2>2. /\ Len(s) > 1 /\ Last(s) = Library /\ s[Len(s) - 1].label = buf.label
        /\ \A i \in 1 .. Len(s) - 1 : s[i] \in Frames /\ Len(s[i].blocks) > 1
    BY <2>1 DEF Kept
  <2>3. ASSUME buf.label \in mem' PROVE \E t \in DOMAIN controls' : controls'[t].label = buf.label
    <3>1. buf.label \in mem
      BY <2>3, <1>1, <1>4, PushFacts
    <3>2. PICK t \in DOMAIN controls : controls[t].label = buf.label
      BY <2>1, <3>1 DEF Kept
    <3> QED
      BY <3>2, PushFacts
  <2>4. ASSUME NEW t \in DOMAIN controls', controls'[t].label = buf.label
        PROVE  t = Len(s) - 1 /\ \A i \in 1 .. t - 1 : controls'[i] = s[i]
    <3>1. t \in DOMAIN controls /\ controls[t].label = buf.label
      BY <2>4, <1>1, <1>2, <1>3, <1>4
    <3>2. t = Len(s) - 1 /\ \A i \in 1 .. t - 1 : controls[i] = s[i]
      BY <3>1, <2>1 DEF Kept
    <3>3. \A i \in 1 .. t - 1 : i \in DOMAIN controls
      BY <3>1, PushFacts
    <3> QED
      BY <3>2, <3>3, PushFacts
  <2> QED
    BY <2>1, <2>2, <2>3, <2>4 DEF Kept
<1>7. BufsOK'
  BY <1>6 DEF BufsOK
<1>8. Placed'
  <2>1. ToSet(controls') \subseteq ToSet(controls) \cup {a}
    BY <1>2, <1>3 DEF ToSet
  <2>2. KnownFrames' \subseteq KnownFrames \cup {a}
    BY <2>1 DEF KnownFrames
  <2>3. PlacedIn(KnownFrames \cup {a}, used + 1)
    BY PlacedNew DEF Placed, TypeInv
  <2>4. PlacedIn(KnownFrames', used')
    BY <2>2, <2>3, PushFacts, PlacedFewer
  <2>5. mem' \subseteq 1..used'
    <3>1. used \in Nat /\ used' = used + 1 /\ mem' = mem \cup {used + 1}
      BY PushFacts
    <3> QED
      BY <3>1 DEF Placed
  <2> QED
    BY <2>4, <2>5 DEF Placed
<1> QED
  BY <1>5, <1>7, <1>8

LEMMA SetJmpStep ==
  ASSUME TypeInv, Placed, StackOK, BufsOK, TaskOK, NEW v \in JmpBufs, SetJmp(v)
  PROVE  jmpBufs' \in Seq(Saved) /\ env' \in [JmpBufs -> Nat] /\ Placed' /\ StackOK' /\ BufsOK'
<1> DEFINE s == Append(controls, Library)
           buf == [controls |-> s, label |-> Top.label]
           N == Len(jmpBufs)
<1>1. /\ k = Run /\ jmpBufs' = Append(jmpBufs, buf) /\ env' = [env EXCEPT ![v] = N + 1]
      /\ UNCHANGED <<controls, mem, used>>
  BY DEF SetJmp, Runs, storage
<1>2. k.op = "run" /\ controls # <<>>
  BY <1>1 DEF TaskOK, Run
<1>3. /\ s \in Seq(Frames \cup {Library}) /\ Len(s) = Len(controls) + 1
      /\ s[Len(s)] = Library /\ \A i \in 1 .. Len(controls) : s[i] = controls[i]
  <2>1. controls \in Seq(Frames \cup {Library}) /\ Library \in Frames \cup {Library}
    BY SeqMonotonic DEF TypeInv
  <2> QED
    BY <2>1, AppendProperties
<1>4. buf \in Saved /\ buf.controls = s /\ buf.label = Top.label
  BY <1>2, <1>3, TopFrame DEF Saved, Frames
<1> HIDE DEF s, buf
<1>5. /\ jmpBufs' \in Seq(Saved) /\ N \in Nat /\ DOMAIN jmpBufs = 1..N
      /\ DOMAIN jmpBufs' = 1 .. N + 1 /\ jmpBufs'[N + 1] = buf
      /\ \A n \in DOMAIN jmpBufs : jmpBufs'[n] = jmpBufs[n]
  <2>1. jmpBufs \in Seq(Saved)
    BY DEF TypeInv
  <2> QED
    BY <2>1, <1>1, <1>4, AppendFacts
<1>6. env' \in [JmpBufs -> Nat] /\ \A w \in JmpBufs : env'[w] # 0 => env'[w] \in DOMAIN jmpBufs'
  BY <1>1, <1>5 DEF TypeInv, BufsOK
<1>7. Kept(buf)
  <2>1. /\ Len(controls) \in Nat \ {0} /\ Top = controls[Len(controls)]
        /\ Len(controls) \in DOMAIN controls /\ DOMAIN controls = 1 .. Len(controls)
    BY <1>2, TopFrame DEF TypeInv
  <2>2. Len(s) > 1 /\ Last(s) = Library /\ s[Len(s) - 1].label = buf.label
    BY <2>1, <1>3, <1>4 DEF Last
  <2>3. \A i \in 1 .. Len(s) - 1 : s[i] \in Frames /\ Len(s[i].blocks) > 1
    BY <2>1, <1>2, <1>3 DEF TaskOK, TypeInv
  <2>4. \A t \in DOMAIN controls : controls[t].label = buf.label => t = Len(s) - 1
    BY <2>1, <1>3, <1>4 DEF StackOK
  <2>5. \A i \in 1 .. Len(controls) - 1 : controls[i] = s[i]
    BY <2>1, <1>3
  <2> QED
    BY <1>3, <1>4, <2>1, <2>2, <2>3, <2>4, <2>5 DEF Kept
<1>8. \A n \in DOMAIN jmpBufs' : Kept(jmpBufs'[n])
  BY <1>5, <1>7 DEF BufsOK
<1>9. BufsOK'
  BY <1>1, <1>6, <1>8 DEF BufsOK, Kept
<1>10. StackOK'
  BY <1>1 DEF StackOK
<1>11. Placed'
  <2>1. Below(s) \subseteq ToSet(controls)
    <3>1. Len(s) - 1 = Len(controls) /\ DOMAIN controls = 1 .. Len(controls)
      BY <1>3 DEF TypeInv
    <3>2. \A i \in 1 .. Len(s) - 1 : i \in DOMAIN controls /\ s[i] = controls[i]
      BY <3>1, <1>3
    <3> QED
      BY <3>2 DEF Below, ToSet
  <2>2. \A n \in DOMAIN jmpBufs' : Below(jmpBufs'[n].controls) \subseteq KnownFrames
    BY <1>4, <1>5, <2>1 DEF KnownFrames
  <2>3. KnownFrames' \subseteq KnownFrames
    BY <1>1, <2>2 DEF KnownFrames
  <2> QED
    BY <1>1, <2>3, PlacedFewer DEF Placed, TypeInv
<1> QED
  BY <1>5, <1>6, <1>9, <1>10, <1>11

-----------------------------------------------------------------------------
(* The other parts of the invariant.                                       *)

LEMMA TaskFacts ==
  ASSUME NEW c \in Tasks
  PROVE  /\ c.op = "run" <=> c = Run
         /\ c.op = "halted" <=> c = Halted
         /\ c.op = "longjmp" => c.id \in Objs
         /\ c.op \in {"callAtExit", "done"} => c.list \in Lists
         /\ Run.op = "run" /\ Halted.op = "halted" /\ Run # Halted
BY DEF Tasks, Run, Halted, longjmp, callAtExit, Done

LEMMA MakeTasks ==
  /\ Run \in Tasks /\ Halted \in Tasks
  /\ \A n \in Objs : longjmp(n) \in Tasks /\ longjmp(n).op = "longjmp" /\ longjmp(n).id = n
  /\ \A l \in Lists : /\ callAtExit(l) \in Tasks /\ callAtExit(l).op = "callAtExit"
                      /\ Done(l) \in Tasks /\ Done(l).op = "done" /\ Done(l).list = l
BY DEF Tasks, longjmp, callAtExit, Done

LEMMA AfterFacts ==
  ASSUME NEW a \in Afters
  PROVE  /\ a.op = "revert" => a.state = "none"
         /\ a.op = "handlers" => a.list \in Lists
BY DEF Afters, Resume, Revert, Handlers

LEMMA MakeAfters ==
  /\ Resume \in Afters /\ Resume.op = "resume"
  /\ \A sig \in Signals : Revert(sig, "none") \in Afters /\ Revert(sig, "none").op = "revert"
  /\ \A l \in Lists : Handlers(l) \in Afters /\ Handlers(l).op = "handlers"
BY DEF Afters, Resume, Revert, Handlers

LEMMA StorageSame ==
  ASSUME Placed, StackOK, BufsOK, LocalsLive, UNCHANGED <<program, storage, saved>>
  PROVE  Placed' /\ StackOK' /\ BufsOK' /\ LocalsLive'
BY DEF Placed, KnownFrames, StackOK, BufsOK, Kept, LocalsLive, storage, saved

LEMMA ExitsSame ==
  ASSUME ExitsOK, UNCHANGED exiting, k' = k \/ k'.op # "done"
  PROVE  ExitsOK'
BY DEF ExitsOK, exiting

LEMMA SameHandling ==
  ASSUME TypeInv, TypeInv', controls # <<>>, SameCalls
  PROVE  Handling' <=> Handling
BY SameLabels DEF Handling

(* A step that changes the blocks of the function on top.                  *)
LEMMA BlocksStep ==
  ASSUME ControlInv, controls # <<>>, NEW b, BlocksChange(b),
         UNCHANGED <<program, saved, k, sigState, exiting, error>>,
         k.op = "longjmp" => ~Lands(Top, jmpBufs[k.id]),
         Len(b) > 1 \/ k.op = "longjmp"
  PROVE  ControlInv'
<1> USE DEF ControlInv
<1>u. /\ program' = program /\ jmpBufs' = jmpBufs /\ env' = env /\ k' = k
      /\ sigState' = sigState /\ error' = error /\ UNCHANGED exiting
  BY DEF saved
<1>b. b \in Seq(SUBSET Objs)
  BY DEF BlocksChange
<1>1. TypeInv'
  <2>1. controls' \in Seq(Frames)
    BY <1>b, InTopFacts DEF BlocksChange
  <2>2. used' \in Nat /\ mem' \subseteq Objs
    BY DEF BlocksChange, TypeInv, Objs
  <2> QED
    BY <1>u, <2>1, <2>2 DEF TypeInv, exiting
<1>2. Placed' /\ StackOK' /\ BufsOK' /\ SameCalls
  BY <1>1, <1>u, InTopStep
<1>3. /\ DOMAIN controls' = DOMAIN controls /\ controls' # <<>>
      /\ Len(controls) \in DOMAIN controls /\ Len(controls') = Len(controls)
      /\ controls'[Len(controls)].blocks = b
      /\ \A i \in DOMAIN controls : i # Len(controls) => controls'[i] = controls[i]
  BY <1>b, InTopFacts, TopFrame, ZenonT(60) DEF BlocksChange
<1>4. \A i \in DOMAIN controls : /\ controls'[i].label = controls[i].label
                                 /\ controls'[i].after = controls[i].after
  BY <1>1, <1>2, SameLabels
<1>5. TaskOK'
  <2>1. ASSUME NEW i \in DOMAIN controls'
        PROVE  \/ Len(controls'[i].blocks) > 1
               \/ k.op = "halted"
               \/ /\ k.op = "longjmp" /\ i = Len(controls')
                  /\ ~Lands(controls'[i], jmpBufs[k.id])
    <3>1. CASE i = Len(controls)
      BY <3>1, <1>3, <1>4, TopFrame DEF Lands
    <3>2. CASE i # Len(controls)
      BY <3>2, <1>3 DEF TaskOK
    <3> QED
      BY <3>1, <3>2
  <2> QED
    BY <2>1, <1>3, <1>u DEF TaskOK, Lands
<1>6. \A f \in KnownFrames : f.label # Top.label =>
        \A j \in DOMAIN f.blocks : f.blocks[j] \subseteq mem => f.blocks[j] \subseteq mem'
  <2> TAKE f \in KnownFrames
  <2> HAVE f.label # Top.label
  <2>1. \A i \in DOMAIN Top.blocks, j \in DOMAIN f.blocks : Top.blocks[i] \cap f.blocks[j] = {}
    BY TopFrame
  <2> QED
    BY <2>1 DEF BlocksChange
<1>7. JumpOK'
  <2> SUFFICES ASSUME k.op = "longjmp", NEW t \in DOMAIN controls',
                      controls'[t].label = jmpBufs[k.id].label
               PROVE  /\ program.nested =>
                          /\ Len(controls'[t].blocks) > Len(jmpBufs[k.id].controls[t].blocks)
                          /\ UNION ToSet(jmpBufs[k.id].controls[t].blocks) \subseteq mem'
                      /\ program.returns =>
                           \A i \in t + 1 .. Len(controls') : controls'[i].after.op # "revert"
    BY <1>u DEF JumpOK, MayLand
  <2> DEFINE buf == jmpBufs[k.id]
  <2>1. t \in DOMAIN controls /\ controls[t].label = buf.label
    BY <1>3, <1>4
  <2>2. Top.label # buf.label
    BY DEF Lands
  <2>3. t # Len(controls) /\ controls'[t] = controls[t]
    BY <2>1, <2>2, <1>3, TopFrame
  <2>4. k.id \in DOMAIN jmpBufs /\ Kept(buf)
    BY DEF TaskOK, BufsOK
  <2>5. buf.controls[t] \in KnownFrames /\ buf.controls[t].label = buf.label
    <3>1. t = Len(buf.controls) - 1 /\ Len(buf.controls) > 1
      BY <2>1, <2>4 DEF Kept
    <3>2. buf.controls[t].label = buf.label
      BY <3>1, <2>4 DEF Kept
    <3>3. t \in 1 .. Len(buf.controls) - 1
      BY <3>1, <2>1 DEF TypeInv
    <3> QED
      BY <3>2, <3>3, <2>4, Known
  <2>6. MayLand(buf)
    BY DEF JumpOK
  <2>7. ASSUME program.nested
        PROVE  /\ Len(controls'[t].blocks) > Len(buf.controls[t].blocks)
               /\ UNION ToSet(buf.controls[t].blocks) \subseteq mem'
    <3>1. /\ Len(controls[t].blocks) > Len(buf.controls[t].blocks)
          /\ UNION ToSet(buf.controls[t].blocks) \subseteq mem
      BY <2>1, <2>6, <2>7 DEF MayLand
    <3> QED
      BY <3>1, <2>2, <2>3, <2>5, <1>6 DEF ToSet
  <2>8. ASSUME program.returns, NEW i \in t + 1 .. Len(controls')
        PROVE  controls'[i].after.op # "revert"
    <3>1. i \in t + 1 .. Len(controls) /\ i \in DOMAIN controls
      BY <2>1, <2>8, <1>3 DEF TypeInv
    <3> QED
      BY <3>1, <2>1, <2>6, <2>8, <1>4 DEF MayLand
  <2> QED
    BY <2>7, <2>8
<1>8. HandlingOK'
  <2>1. Handling' <=> Handling
    BY <1>1, <1>2, SameHandling
  <2> QED
    BY <2>1, <1>u DEF HandlingOK, SignalReports, Handling
<1>9. ExitsOK'
  BY <1>u, ExitsSame
<1>10. LocalsLive'
  <2> SUFFICES ASSUME program.nested, NEW i \in DOMAIN controls'
               PROVE  UNION ToSet(controls'[i].blocks) \subseteq mem'
    BY <1>u DEF LocalsLive
  <2>1. i \in DOMAIN controls /\ UNION ToSet(controls[i].blocks) \subseteq mem
    BY <1>3 DEF LocalsLive
  <2>2. \A j \in DOMAIN controls[i].blocks : controls[i].blocks[j] \subseteq mem
    BY <2>1 DEF ToSet
  <2>3. CASE i # Len(controls)
    <3>1. controls[i] \in KnownFrames /\ controls[i].label # Top.label
      BY <2>1, <2>3, Known, TopFrame DEF StackOK
    <3>2. \A j \in DOMAIN controls[i].blocks : controls[i].blocks[j] \subseteq mem'
      BY <3>1, <2>2, <1>6
    <3> QED
      BY <3>2, <2>1, <2>3, <1>3 DEF ToSet
  <2>4. CASE i = Len(controls)
    <3>1. \A j \in DOMAIN Top.blocks : Top.blocks[j] \subseteq mem
      BY <2>2, <2>4, TopFrame
    <3>2. ASSUME NEW j \in DOMAIN b, NEW x \in b[j] PROVE x \in mem'
      <4>1. CASE x = used + 1 /\ used' = used + 1
        BY <4>1 DEF BlocksChange
      <4>2. CASE j \in DOMAIN Top.blocks /\ x \in Top.blocks[j]
        <5>1. \A m \in DOMAIN Top.blocks : m # j => x \notin Top.blocks[m]
          BY <4>2, TopFrame
        <5> QED
          BY <4>2, <5>1, <3>1 DEF BlocksChange
      <4> QED
        BY <4>1, <4>2 DEF BlocksChange
    <3> QED
      BY <3>2, <2>4, <1>3 DEF ToSet
  <2> QED
    BY <2>3, <2>4
<1> QED
  BY <1>1, <1>2, <1>5, <1>7, <1>8, <1>9, <1>10

-----------------------------------------------------------------------------
(* Blocks.                                                                 *)

LEMMA Running ==
  ASSUME ControlInv, k = Run
  PROVE  /\ controls # <<>> /\ k.op = "run" /\ error = "none"
         /\ \A i \in DOMAIN controls : Len(controls[i].blocks) > 1
BY MakeTasks, TaskFacts DEF ControlInv, TaskOK, HandlingOK

(* The blocks of the function on top.                                      *)
LEMMA TopBlocks ==
  ASSUME ControlInv, controls # <<>>
  PROVE  /\ TypeInv /\ Top.blocks \in Seq(SUBSET Objs) /\ Top.blocks # <<>>
         /\ Len(Top.blocks) \in Nat \ {0} /\ DOMAIN Top.blocks = 1 .. Len(Top.blocks)
         /\ localAddresses(Top) = Top.blocks[Len(Top.blocks)]
         /\ 1 \in DOMAIN Top.blocks /\ Top.label \in Top.blocks[1]
<1>1. /\ TypeInv /\ Top.blocks \in Seq(SUBSET Objs) /\ Top.blocks # <<>>
      /\ 1 \in DOMAIN Top.blocks /\ Top.label \in Top.blocks[1]
  BY TopFrame DEF ControlInv
<1>2. Len(Top.blocks) \in Nat \ {0} /\ DOMAIN Top.blocks = 1 .. Len(Top.blocks)
  BY <1>1
<1>3. localAddresses(Top) = Top.blocks[Len(Top.blocks)]
  BY DEF localAddresses, Last
<1> QED
  BY <1>1, <1>2, <1>3

LEMMA EnterBlockStep ==
  ASSUME ControlInv, EnterBlock
  PROVE  ControlInv'
<1> DEFINE b == Append(Top.blocks, {})
<1>1. controls # <<>>
  BY Running DEF EnterBlock, Runs
<1>2. /\ b \in Seq(SUBSET Objs) /\ Len(b) = Len(Top.blocks) + 1
      /\ DOMAIN b = 1 .. Len(Top.blocks) + 1 /\ b[Len(Top.blocks) + 1] = {}
      /\ \A i \in DOMAIN Top.blocks : b[i] = Top.blocks[i]
  BY <1>1, TopBlocks, AppendFacts
<1>3. controls' = InTop(b) /\ used' = used /\ mem' = mem /\ used \in Nat
  BY <1>1, TopBlocks DEF EnterBlock, TypeInv
<1> HIDE DEF b
<1>4. BlocksChange(b)
  BY <1>1, <1>2, <1>3, TopBlocks DEF BlocksChange
<1>5. Len(b) > 1 /\ k.op # "longjmp"
  BY <1>1, <1>2, TopBlocks, Running DEF EnterBlock, Runs
<1> QED
  BY <1>1, <1>4, <1>5, BlocksStep DEF EnterBlock

LEMMA DeclareStep ==
  ASSUME ControlInv, Declare
  PROVE  ControlInv'
<1> DEFINE e == localAddresses(Top) \cup {used + 1}
           b == Front(Top.blocks) \o <<e>>
<1>1. controls # <<>> /\ k.op # "longjmp" /\ Len(Top.blocks) > 1
  BY Running, TopFrame DEF Declare, Runs, ControlInv
<1>2. used \in Nat /\ used' = used + 1 /\ mem' = mem \cup {used + 1} /\ controls' = InTop(b)
  BY <1>1, TopBlocks DEF Declare, TypeInv
<1>3. e \in SUBSET Objs
  BY <1>1, <1>2, TopBlocks DEF Objs
<1>4. /\ b \in Seq(SUBSET Objs) /\ Len(b) = Len(Top.blocks) /\ DOMAIN b = DOMAIN Top.blocks
      /\ b[Len(b)] = localAddresses(Top) \cup {used + 1}
      /\ \A i \in DOMAIN b : i # Len(b) => b[i] = Top.blocks[i]
  BY <1>1, <1>3, TopBlocks, ReplaceLast
<1> HIDE DEF b, e
<1>5. BlocksChange(b)
  <2>1. 1 \in DOMAIN b /\ 1 # Len(b) /\ Top.label \in b[1]
    BY <1>1, <1>4, TopBlocks
  <2>2. \A i \in DOMAIN b : \A x \in b[i] :
          \/ i \in DOMAIN Top.blocks /\ x \in Top.blocks[i]
          \/ x = used + 1 /\ i = Len(b)
    BY <1>1, <1>4, TopBlocks
  <2> QED
    BY <1>2, <1>4, <2>1, <2>2 DEF BlocksChange
<1>6. Len(b) > 1
  BY <1>1, <1>4
<1> QED
  BY <1>1, <1>5, <1>6, BlocksStep DEF Declare

(* The last block of the function on top goes.                             *)
LEMMA PopBlock ==
  ASSUME ControlInv, controls # <<>>, Len(Top.blocks) > 1,
         used' = used, mem' = mem \ localAddresses(Top), controls' = InTop(Front(Top.blocks))
  PROVE  BlocksChange(Front(Top.blocks)) /\ Len(Front(Top.blocks)) = Len(Top.blocks) - 1
<1> DEFINE b == Front(Top.blocks)
<1>1. /\ b \in Seq(SUBSET Objs) /\ Len(b) = Len(Top.blocks) - 1
      /\ DOMAIN b = 1 .. Len(Top.blocks) - 1
      /\ \A i \in DOMAIN b : i \in DOMAIN Top.blocks /\ b[i] = Top.blocks[i]
  BY TopBlocks, LastAndFront
<1>2. controls' = InTop(b) /\ used \in Nat
  BY TopBlocks DEF TypeInv
<1> HIDE DEF b
<1>3. 1 \in DOMAIN b /\ Top.label \in b[1]
  BY <1>1, TopBlocks
<1>4. /\ Len(Top.blocks) \in DOMAIN Top.blocks /\ Len(Top.blocks) \notin DOMAIN b
      /\ localAddresses(Top) = Top.blocks[Len(Top.blocks)]
  BY <1>1, TopBlocks
<1>5. BlocksChange(b)
  BY <1>1, <1>2, <1>3, <1>4 DEF BlocksChange
<1> QED
  BY <1>1, <1>5 DEF b

LEMMA LeaveBlockStep ==
  ASSUME ControlInv, LeaveBlock
  PROVE  ControlInv'
<1> DEFINE b == Front(Top.blocks)
<1>1. controls # <<>> /\ k.op # "longjmp"
  BY Running DEF LeaveBlock, Runs
<1>2. Len(Top.blocks) > 2 /\ Len(Top.blocks) \in Nat
  BY <1>1, TopBlocks DEF LeaveBlock
<1>3. BlocksChange(b) /\ Len(b) > 1
  BY <1>1, <1>2, PopBlock DEF LeaveBlock
<1> HIDE DEF b
<1> QED
  BY <1>1, <1>3, BlocksStep DEF LeaveBlock

LEMMA UnwindBlockStep ==
  ASSUME ControlInv, k.op = "longjmp", UnwindBlock(jmpBufs[k.id])
  PROVE  ControlInv'
<1> DEFINE b == Front(Top.blocks)
<1>1. controls # <<>> /\ ~Lands(Top, jmpBufs[k.id])
  BY DEF UnwindBlock
<1>2. BlocksChange(b)
  BY <1>1, PopBlock DEF UnwindBlock
<1> HIDE DEF b
<1> QED
  BY <1>1, <1>2, BlocksStep DEF UnwindBlock

-----------------------------------------------------------------------------
(* Errors and the start of a jump.                                         *)

LEMMA ReportStep ==
  ASSUME ControlInv, NEW code, Report(code), k # Halted,
         code = "SIGNAL2" /\ program.returns => Handling
  PROVE  ControlInv'
<1> USE DEF ControlInv
<1>1. TypeInv'
  BY MakeTasks DEF TypeInv, Report, storage, saved, exiting
<1>2. Placed' /\ StackOK' /\ BufsOK' /\ LocalsLive'
  BY StorageSame DEF Report
<1>3. k'.op = "halted" /\ k' = Halted
  BY TaskFacts, MakeTasks DEF Report
<1>4. TaskOK' /\ JumpOK'
  BY <1>3 DEF TaskOK, JumpOK
<1>5. HandlingOK'
  BY <1>3 DEF HandlingOK, Report, SignalReports, Handling, storage
<1>6. ExitsOK'
  BY <1>3, ExitsSame DEF Report
<1> QED
  BY <1>1, <1>2, <1>4, <1>5, <1>6

LEMMA LongJmpStep ==
  ASSUME ControlInv, NEW v \in JmpBufs, LongJmp(v)
  PROVE  ControlInv'
<1> USE DEF ControlInv
<1>r. k = Run /\ k # Halted /\ error = "none"
  BY Running, MakeTasks, TaskFacts DEF LongJmp, Runs
<1>1. CASE Report("SETJMP1")
  BY <1>1, <1>r, ReportStep
<1>2. CASE /\ env[v] # 0 /\ MayJump(jmpBufs[env[v]]) /\ k' = longjmp(env[v])
           /\ UNCHANGED <<program, storage, saved, sigState, exiting, error>>
  <2> DEFINE n == env[v]
             buf == jmpBufs[n]
  <2>1. n \in DOMAIN jmpBufs /\ n \in Objs
    BY <1>2 DEF BufsOK, TypeInv, Objs
  <2>2. /\ k' \in Tasks /\ k'.op = "longjmp" /\ k'.id = n
        /\ UNCHANGED <<program, controls, mem, used, jmpBufs, env, sigState, error>>
    BY <1>2, <2>1, MakeTasks DEF storage, saved
  <2>3. TypeInv'
    BY <2>2, <1>2 DEF TypeInv, exiting
  <2>4. Placed' /\ StackOK' /\ BufsOK' /\ LocalsLive'
    BY <1>2, StorageSame
  <2>5. TaskOK'
    BY <1>r, <2>1, <2>2, Running DEF TaskOK
  <2>6. MayLand(buf)
    <3>1. ASSUME NEW t \in DOMAIN controls, controls[t].label = buf.label
          PROVE  Target(buf) = t /\ Target(buf) # 0
      <4>1. Target(buf) = t
        BY <3>1, TargetFound
      <4>2. t # 0
        BY DEF TypeInv
      <4> QED
        BY <4>1, <4>2
    <3> QED
      BY <3>1, <1>2 DEF MayLand, MayJump
  <2>7. JumpOK'
    BY <2>2, <2>6 DEF JumpOK, MayLand
  <2>8. HandlingOK'
    BY <1>r, <2>2 DEF HandlingOK, Handling, SignalReports
  <2>9. ExitsOK'
    BY <1>2, <2>2, ExitsSame
  <2> QED
    BY <2>3, <2>4, <2>5, <2>7, <2>8, <2>9
<1> QED
  BY <1>1, <1>2 DEF LongJmp

-----------------------------------------------------------------------------
(* Calls.                                                                  *)

(* A call by the running program, of a signal handler or of an exit        *)
(* handler: every part of the invariant but what is particular to these.   *)
LEMMA CallStep ==
  ASSUME ControlInv, NEW after \in Afters, Apply(after),
         controls = <<>> => after.op = "handlers",
         UNCHANGED <<program, saved>>, k.op \in {"run", "callAtExit"}, k' = Run
  PROVE  /\ Placed' /\ StackOK' /\ BufsOK' /\ TaskOK' /\ JumpOK' /\ LocalsLive'
         /\ controls' \in Seq(Frames) /\ mem' \subseteq Objs /\ used' \in Nat
         /\ Handling => Handling'
         /\ after.op = "revert" => Handling'
<1> USE DEF ControlInv
<1>1. program' = program /\ jmpBufs' = jmpBufs /\ env' = env /\ k'.op = "run"
  BY TaskFacts, MakeTasks DEF saved
<1>2. Placed' /\ StackOK' /\ BufsOK'
  BY <1>1, PushStep
<1>3. \A i \in DOMAIN controls' :
        (i \in DOMAIN controls /\ controls'[i] = controls[i]) \/ i = Len(controls) + 1
  BY PushFacts
<1>4. TaskOK'
  <2>1. \A i \in DOMAIN controls : Len(controls[i].blocks) > 1
    BY DEF TaskOK
  <2>2. Len(controls'[Len(controls) + 1].blocks) > 1
    <3>1. controls'[Len(controls) + 1].blocks = <<{used + 1}, {}>>
      BY PushFacts
    <3> QED
      BY <3>1
  <2> QED
    BY <2>1, <2>2, <1>1, <1>3, PushFacts DEF TaskOK
<1>5. JumpOK'
  BY <1>1 DEF JumpOK
<1>6. LocalsLive'
  <2> SUFFICES ASSUME program.nested, NEW i \in DOMAIN controls'
               PROVE  UNION ToSet(controls'[i].blocks) \subseteq mem'
    BY <1>1 DEF LocalsLive
  <2>1. CASE i \in DOMAIN controls /\ controls'[i] = controls[i]
    BY <2>1, PushFacts DEF LocalsLive
  <2>2. CASE i = Len(controls) + 1
    <3>1. controls'[i].blocks = <<{used + 1}, {}>> /\ used + 1 \in mem'
      BY <2>2, PushFacts
    <3> QED
      BY <3>1 DEF ToSet
  <2> QED
    BY <2>1, <2>2, <1>3
<1>7. controls' \in Seq(Frames) /\ used' \in Nat /\ mem' \subseteq Objs
  <2>1. /\ controls' \in Seq(Frames) /\ used \in Nat /\ used' = used + 1
        /\ mem' = mem \cup {used + 1}
    BY PushFacts
  <2> QED
    BY <2>1 DEF TypeInv, Objs
<1>8. Handling => Handling'
  BY PushFacts DEF Handling
<1>9. after.op = "revert" => Handling'
  BY PushFacts DEF Handling
<1> QED
  BY <1>2, <1>4, <1>5, <1>6, <1>7, <1>8, <1>9

LEMMA CallKeeps ==
  ASSUME ControlInv, Call
  PROVE  ControlInv'
<1> USE DEF ControlInv
<1>1. k = Run /\ k.op = "run" /\ k' = Run /\ controls # <<>> /\ error = "none"
  BY Running DEF Call, Runs
<1>2. /\ Apply(Resume) /\ Resume \in Afters
      /\ UNCHANGED <<program, saved, sigState, exiting, error>>
  BY MakeAfters DEF Call
<1>3. /\ Placed' /\ StackOK' /\ BufsOK' /\ TaskOK' /\ JumpOK' /\ LocalsLive'
      /\ controls' \in Seq(Frames) /\ mem' \subseteq Objs /\ used' \in Nat
      /\ Handling => Handling'
  BY <1>1, <1>2, CallStep
<1>4. TypeInv'
  BY <1>1, <1>2, <1>3 DEF TypeInv, saved, exiting
<1>5. HandlingOK'
  BY <1>1, <1>2, <1>3 DEF HandlingOK, SignalReports
<1>6. ExitsOK'
  BY <1>1, <1>2, ExitsSame
<1> QED
  BY <1>3, <1>4, <1>5, <1>6

LEMMA RaiseKeeps ==
  ASSUME ControlInv, NEW sig \in Signals, Raise(sig)
  PROVE  ControlInv'
<1> USE DEF ControlInv
<1>1. k = Run /\ k.op = "run" /\ k # Halted /\ controls # <<>> /\ error = "none"
  BY Running, TaskFacts, MakeTasks DEF Raise, Runs
<1>2. CASE sigState = "raiseOrAbort" /\ Report("SIGNAL2")
  <2>1. program.returns => Handling
    BY <1>1, <1>2 DEF HandlingOK
  <2> QED
    BY <1>1, <1>2, <2>1, ReportStep
<1>3. CASE /\ sigState # "raiseOrAbort"
           /\ Apply(Revert(sig, sigState)) /\ sigState' = "raiseOrAbort"
           /\ UNCHANGED <<program, saved, k, exiting, error>>
  <2>1. /\ Apply(Revert(sig, "none"))
        /\ Revert(sig, "none") \in Afters /\ Revert(sig, "none").op = "revert"
    BY <1>3, MakeAfters DEF TypeInv
  <2>2. /\ Placed' /\ StackOK' /\ BufsOK' /\ TaskOK' /\ JumpOK' /\ LocalsLive'
        /\ controls' \in Seq(Frames) /\ mem' \subseteq Objs /\ used' \in Nat
        /\ Handling'
    BY <1>1, <1>3, <2>1, CallStep
  <2>3. TypeInv'
    BY <1>3, <2>2 DEF TypeInv, saved, exiting
  <2>4. HandlingOK'
    BY <1>1, <1>3, <2>2 DEF HandlingOK, SignalReports
  <2>5. ExitsOK'
    BY <1>3, ExitsSame
  <2> QED
    BY <2>2, <2>3, <2>4, <2>5
<1> QED
  BY <1>2, <1>3 DEF Raise

-----------------------------------------------------------------------------
(* Returns, and what a jump does to calls.                                 *)

(* All objects of the function on top that still live.                     *)
LEMMA TopObjects ==
  ASSUME ControlInv, controls # <<>>
  PROVE  /\ Top.label \in UNION ToSet(Top.blocks)
         /\ \A x \in UNION ToSet(Top.blocks) : \E i \in DOMAIN Top.blocks : x \in Top.blocks[i]
BY TopBlocks DEF ToSet

(* A function is left: the parts of the invariant that are not about <k>.  *)
LEMMA LeaveStep ==
  ASSUME ControlInv, controls # <<>>, controls' = Front(controls),
         UNCHANGED <<program, used, saved>>, TypeInv',
         NEW D, mem' = mem \ D, Top.label \in D,
         \A x \in D : \E i \in DOMAIN Top.blocks : x \in Top.blocks[i]
  PROVE  Placed' /\ StackOK' /\ BufsOK' /\ LocalsLive'
<1> USE DEF ControlInv
<1>1. program' = program /\ used' = used /\ jmpBufs' = jmpBufs /\ env' = env
  BY DEF saved
<1>2. /\ Placed' /\ StackOK' /\ BufsOK'
      /\ \A i \in DOMAIN controls' : \A j \in DOMAIN controls[i].blocks :
           D \cap controls[i].blocks[j] = {}
  BY <1>1, PopStep
<1>3. LocalsLive'
  <2> SUFFICES ASSUME program.nested, NEW i \in DOMAIN controls'
               PROVE  UNION ToSet(controls'[i].blocks) \subseteq mem'
    BY <1>1 DEF LocalsLive
  <2>1. i \in DOMAIN controls /\ controls'[i] = controls[i]
    BY PopFacts
  <2>2. \A j \in DOMAIN controls[i].blocks : controls[i].blocks[j] \subseteq mem
    BY <2>1 DEF LocalsLive, ToSet
  <2> QED
    BY <2>1, <2>2, <1>2 DEF ToSet
<1> QED
  BY <1>2, <1>3

LEMMA ReturnStep ==
  ASSUME ControlInv, Return
  PROVE  ControlInv'
<1> USE DEF ControlInv
<1> DEFINE after == Top.after
           D == UNION ToSet(Top.blocks)
<1>1. /\ k = Run /\ mem' = mem \ D /\ controls' = Front(controls)
      /\ UNCHANGED <<program, used, saved, exiting>>
  BY DEF Return
<1>2. /\ controls # <<>> /\ error = "none" /\ k # Halted
      /\ \A i \in DOMAIN controls : Len(controls[i].blocks) > 1
  BY <1>1, Running, TaskFacts, MakeTasks
<1>3. after \in Afters
  BY <1>2, TopFrame DEF Frames
<1>4. \/ after.op = "revert" /\ error' = "SIGNAL3" /\ k' = Halted /\ sigState' = sigState
      \/ /\ k' = IF after.op = "handlers" THEN callAtExit(after.list) ELSE Run
         /\ sigState' = IF after.op = "revert" THEN after.state ELSE sigState
         /\ error' = error
  BY DEF Return, Reverted
<1>5. /\ k' \in Tasks /\ k'.op \notin {"longjmp", "done"}
      /\ sigState' \in {"none", "raiseOrAbort"}
      /\ k' = Halted \/ (after.op = "revert" => sigState' = "none")
      /\ k'.op = "run" => after.op # "handlers"
  BY <1>3, <1>4, AfterFacts, MakeTasks, TaskFacts DEF TypeInv
<1> HIDE DEF after, D
<1>6. TypeInv'
  <2>1. controls' \in Seq(Frames)
    BY <1>1, <1>2, LastAndFront DEF TypeInv
  <2> QED
    BY <1>1, <1>5, <2>1 DEF TypeInv, saved, exiting
<1>7. Placed' /\ StackOK' /\ BufsOK' /\ LocalsLive'
  BY <1>1, <1>2, <1>6, TopObjects, LeaveStep DEF D
<1>8. TaskOK'
  <2>1. ASSUME k'.op = "run" PROVE controls' # <<>>
    <3>1. after.op # "handlers"
      BY <2>1, <1>5
    <3>2. Len(controls) # 1
      BY <3>1, <1>1, <1>2, PopFacts DEF StackOK, after
    <3>3. 1 \in DOMAIN controls'
      BY <3>2, <1>1, <1>2, PopFacts
    <3> QED
      BY <3>3
  <2> QED
    BY <2>1, <1>1, <1>2, <1>5, PopFacts DEF TaskOK
<1>9. JumpOK'
  BY <1>5 DEF JumpOK
<1>10. HandlingOK'
  <2>1. error' \in {"none", "SIGNAL3"} /\ (error' # "none" => k' = Halted)
    BY <1>2, <1>4
  <2>2. ASSUME program.returns, k' # Halted, sigState' = "raiseOrAbort"
        PROVE  Handling'
    <3>1. after.op # "revert" /\ sigState = "raiseOrAbort"
      BY <2>2, <1>4, <1>5
    <3>2. PICK i \in DOMAIN controls : controls[i].after.op = "revert"
      BY <3>1, <2>2, <1>2 DEF HandlingOK, Handling
    <3>3. i # Len(controls)
      BY <3>1, <3>2, <1>2, TopFrame DEF after
    <3> QED
      BY <3>2, <3>3, <1>1, <1>2, PopFacts DEF Handling
  <2> QED
    BY <2>1, <2>2, <1>1 DEF HandlingOK, SignalReports
<1>11. ExitsOK'
  BY <1>1, <1>5, ExitsSame
<1> QED
  BY <1>6, <1>7, <1>8, <1>9, <1>10, <1>11

(* During a jump: what setjmp saved of the function to which it returns.   *)
LEMMA Jumping ==
  ASSUME ControlInv, k.op = "longjmp"
  PROVE  /\ k.id \in DOMAIN jmpBufs /\ Kept(jmpBufs[k.id]) /\ MayLand(jmpBufs[k.id])
         /\ k # Halted /\ error = "none"
         /\ jmpBufs[k.id] \in Saved
         /\ \A t \in DOMAIN controls : controls[t].label = jmpBufs[k.id].label =>
              /\ jmpBufs[k.id].controls[t] \in KnownFrames
              /\ jmpBufs[k.id].controls[t].label = jmpBufs[k.id].label
<1> USE DEF ControlInv
<1>1. k.id \in DOMAIN jmpBufs /\ Kept(jmpBufs[k.id]) /\ MayLand(jmpBufs[k.id])
  BY DEF TaskOK, BufsOK, JumpOK
<1>2. k # Halted /\ error = "none"
  BY TaskFacts, MakeTasks DEF HandlingOK
<1>3. jmpBufs[k.id] \in Saved
  BY <1>1 DEF TypeInv
<1>4. ASSUME NEW t \in DOMAIN controls, controls[t].label = jmpBufs[k.id].label
      PROVE  /\ jmpBufs[k.id].controls[t] \in KnownFrames
             /\ jmpBufs[k.id].controls[t].label = jmpBufs[k.id].label
  <2> DEFINE s == jmpBufs[k.id].controls
  <2>1. t = Len(s) - 1 /\ s[Len(s) - 1].label = jmpBufs[k.id].label
    BY <1>1, <1>4 DEF Kept
  <2>2. t \in 1 .. Len(s) - 1
    BY <2>1 DEF TypeInv
  <2> QED
    BY <2>1, <2>2, <1>1, Known
<1> QED
  BY <1>1, <1>2, <1>3, <1>4

LEMMA UnwindCallStep ==
  ASSUME ControlInv, k.op = "longjmp", UnwindCall(jmpBufs[k.id])
  PROVE  ControlInv'
<1> USE DEF ControlInv
<1> DEFINE D == localAddresses(Top)
           buf == jmpBufs[k.id]
<1>1. /\ buf.label \in mem /\ controls # <<>> /\ Top.label # buf.label /\ Len(Top.blocks) = 1
      /\ mem' = mem \ D /\ controls' = Front(controls)
      /\ UNCHANGED <<program, used, saved, k, sigState, exiting, error>>
  BY DEF UnwindCall, StillRuns, Lands, DropObjects
<1>u. program' = program /\ jmpBufs' = jmpBufs /\ k' = k /\ error' = error /\ sigState' = sigState
  BY <1>1 DEF saved
<1>2. D = Top.blocks[1] /\ 1 \in DOMAIN Top.blocks /\ Top.label \in D
  BY <1>1, TopBlocks
<1> HIDE DEF D
<1>3. TypeInv'
  <2>1. controls' \in Seq(Frames)
    BY <1>1, LastAndFront DEF TypeInv
  <2> QED
    BY <1>1, <2>1 DEF TypeInv, saved, exiting
<1>4. Placed' /\ StackOK' /\ BufsOK' /\ LocalsLive'
  BY <1>1, <1>2, <1>3, LeaveStep
<1>5. TaskOK'
  <2>1. \A i \in DOMAIN controls' : Len(controls'[i].blocks) > 1
    BY <1>1, PopFacts DEF TaskOK
  <2> QED
    BY <2>1, <1>u DEF TaskOK
<1>6. ASSUME NEW t \in DOMAIN controls', controls'[t].label = buf.label
      PROVE  /\ program.nested =>
                  /\ Len(controls'[t].blocks) > Len(buf.controls[t].blocks)
                  /\ UNION ToSet(buf.controls[t].blocks) \subseteq mem'
             /\ program.returns =>
                  \A i \in t + 1 .. Len(controls') : controls'[i].after.op # "revert"
  <2>1. t \in DOMAIN controls /\ controls'[t] = controls[t] /\ controls[t].label = buf.label
    BY <1>1, <1>6, PopFacts
  <2>2. /\ program.nested =>
             /\ Len(controls[t].blocks) > Len(buf.controls[t].blocks)
             /\ UNION ToSet(buf.controls[t].blocks) \subseteq mem
        /\ program.returns =>
             \A i \in t + 1 .. Len(controls) : controls[i].after.op # "revert"
    BY <2>1, Jumping DEF MayLand
  <2>3. \A j \in DOMAIN buf.controls[t].blocks : D \cap buf.controls[t].blocks[j] = {}
    <3>1. buf.controls[t] \in KnownFrames /\ buf.controls[t].label # Top.label
      BY <2>1, <1>1, Jumping
    <3> QED
      BY <3>1, <1>1, <1>2, TopFrame
  <2>4. UNION ToSet(buf.controls[t].blocks) \subseteq mem =>
          UNION ToSet(buf.controls[t].blocks) \subseteq mem'
    BY <2>3, <1>1 DEF ToSet
  <2>5. \A i \in t + 1 .. Len(controls') :
          i \in t + 1 .. Len(controls) /\ controls'[i] = controls[i]
    <3>1. t \in Nat \ {0} /\ DOMAIN controls' = 1 .. Len(controls') /\ Len(controls') \in Nat
      BY <1>3, <1>6 DEF TypeInv
    <3> QED
      BY <3>1, <1>1, PopFacts
  <2> QED
    BY <2>1, <2>2, <2>4, <2>5
<1>7. JumpOK'
  BY <1>6, <1>u DEF JumpOK, MayLand
<1>8. HandlingOK'
  <2>1. PICK t \in DOMAIN controls : controls[t].label = buf.label
    BY <1>1, Jumping DEF Kept
  <2>2. t # Len(controls) /\ Len(controls) \in t + 1 .. Len(controls)
    <3>1. t # Len(controls)
      BY <2>1, <1>1, TopFrame
    <3> QED
      BY <3>1, <1>1, PopFacts DEF TypeInv
  <2>3. program.returns => Top.after.op # "revert"
    BY <2>1, <2>2, <1>1, Jumping, TopFrame DEF MayLand
  <2>4. program.returns /\ Handling => Handling'
    BY <2>3, <1>1, PopFacts DEF Handling
  <2> QED
    BY <2>4, <1>u, Jumping DEF HandlingOK, SignalReports
<1>9. ExitsOK'
  BY <1>1, ExitsSame
<1> QED
  BY <1>3, <1>4, <1>5, <1>7, <1>8, <1>9

(* The jump arrives: only the function on top goes back in time.           *)
LEMMA ArriveFacts ==
  ASSUME ControlInv, k.op = "longjmp", Arrive(jmpBufs[k.id])
  PROVE  /\ controls # <<>> /\ controls' \in Seq(Frames) /\ SameCalls
         /\ Len(Top.blocks) > 1 /\ mem' = mem \ localAddresses(Top) /\ k' = Run
         /\ UNCHANGED <<program, used, saved, sigState, exiting, error>>
         /\ Len(controls) \in DOMAIN controls
         /\ controls[Len(controls)].label = jmpBufs[k.id].label
         /\ Last(controls') = jmpBufs[k.id].controls[Len(controls)]
         /\ \A i \in DOMAIN controls' :
              controls'[i] \in KnownFrames /\ Len(controls'[i].blocks) > 1
<1> USE DEF ControlInv
<1> DEFINE buf == jmpBufs[k.id]
           s == buf.controls
           t == Len(controls)
<1>1. /\ controls # <<>> /\ Top.label = buf.label /\ controls' = Front(s) /\ k' = Run
      /\ mem' = mem \ ((localAddresses(Top) \ localAddresses(Last(s))) \cup UNION ToSet(Last(s).blocks))
      /\ UNCHANGED <<program, used, saved, sigState, exiting, error>>
  BY DEF Arrive, Lands, Ended
<1>2. /\ t \in Nat \ {0} /\ t \in DOMAIN controls /\ DOMAIN controls = 1..t
      /\ Top = controls[t] /\ controls[t].label = buf.label
  BY <1>1, TopFrame DEF TypeInv
<1>3. /\ t = Len(s) - 1 /\ \A i \in 1 .. t - 1 : controls[i] = s[i]
      /\ \A i \in 1..t : s[i] \in Frames /\ Len(s[i].blocks) > 1
      /\ Last(s) = Library /\ s[t].label = buf.label
  BY <1>2, Jumping DEF Kept
<1>4. \A i \in 1..t : s[i] \in KnownFrames
  BY <1>3, Jumping, Known
<1>5. s \in Seq(Frames \cup {Library}) /\ s # <<>>
  <2>1. s \in Seq(Frames \cup {Library})
    BY Jumping DEF Saved
  <2> QED
    BY <2>1, <1>2, <1>3
<1> HIDE DEF s, buf
<1>6. /\ Front(s) \in Seq(Frames \cup {Library}) /\ Len(Front(s)) = t /\ DOMAIN Front(s) = 1..t
      /\ \A i \in 1..t : Front(s)[i] = s[i]
  BY <1>3, <1>5, LastAndFront
<1>7. /\ controls' \in Seq(Frames) /\ Len(controls') = t /\ DOMAIN controls' = 1..t
      /\ \A i \in 1..t : controls'[i] = s[i]
  <2>1. Front(s) \in Seq(Frames)
    BY <1>2, <1>3, <1>6
  <2> QED
    BY <1>1, <1>6, <2>1
<1>8. Last(controls') = s[t]
  BY <1>2, <1>7 DEF Last
<1>9. s[t].after = Top.after
  BY <1>1, <1>2, <1>3, <1>4, TopFrame, SMTT(30) DEF Placed, PlacedIn
<1>10. SameCalls
  BY <1>1, <1>2, <1>3, <1>7, <1>8, <1>9 DEF SameCalls
<1>11. Len(Top.blocks) > 1
  BY <1>2 DEF TaskOK, Lands, buf
<1>12. localAddresses(Last(s)) = {} /\ UNION ToSet(Last(s).blocks) = {}
  <2>1. Last(s).blocks = <<{}>>
    BY <1>3 DEF Library
  <2> QED
    BY <2>1 DEF localAddresses, Last, ToSet
<1>13. mem' = mem \ localAddresses(Top)
  BY <1>1, <1>12
<1> QED
  BY <1>1, <1>2, <1>3, <1>4, <1>7, <1>8, <1>10, <1>11, <1>13 DEF s, buf

LEMMA ArriveStep ==
  ASSUME ControlInv, k.op = "longjmp", Arrive(jmpBufs[k.id])
  PROVE  ControlInv'
<1> USE DEF ControlInv
<1> DEFINE buf == jmpBufs[k.id]
           t == Len(controls)
           b == Last(controls').blocks
           m == Len(Top.blocks)
<1>1. /\ program' = program /\ used' = used /\ jmpBufs' = jmpBufs /\ env' = env
      /\ sigState' = sigState /\ error' = error /\ UNCHANGED exiting
      /\ controls # <<>> /\ SameCalls /\ k' = Run /\ k'.op = "run"
  BY ArriveFacts, MakeTasks, TaskFacts DEF saved
<1>2. TypeInv'
  <2>1. controls' \in Seq(Frames) /\ mem' \subseteq mem
    BY ArriveFacts
  <2> QED
    BY <1>1, <2>1, MakeTasks DEF TypeInv, exiting
<1>3. m \in DOMAIN Top.blocks /\ m > 1 /\ localAddresses(Top) = Top.blocks[m] /\ m \in Nat
  BY <1>1, ArriveFacts, TopBlocks
<1>4. StackOK' /\ BufsOK'
  <2>1. mem' \subseteq mem \cup {used + 1}
    BY ArriveFacts
  <2>2. \A x \in mem \ mem' : \E i \in DOMAIN Top.blocks : i # 1 /\ x \in Top.blocks[i]
    BY ArriveFacts, <1>3
  <2> QED
    BY <1>1, <1>2, <2>1, <2>2, TopChanges
<1>5. Placed'
  <2>1. ToSet(controls') \subseteq KnownFrames
    BY ArriveFacts DEF ToSet
  <2>2. KnownFrames' \subseteq KnownFrames
    BY <1>1, <2>1 DEF KnownFrames
  <2>3. PlacedIn(KnownFrames', used')
    BY <1>1, <2>2, PlacedFewer DEF Placed, TypeInv
  <2> QED
    BY <1>1, <2>3, ArriveFacts DEF Placed
<1>6. TaskOK'
  <2>1. controls' # <<>>
    BY <1>1, ArriveFacts, SameLabels, <1>2
  <2> QED
    BY <1>1, <2>1, ArriveFacts DEF TaskOK
<1>7. JumpOK'
  BY <1>1 DEF JumpOK
<1>8. HandlingOK'
  <2>1. Handling' <=> Handling
    BY <1>1, <1>2, SameHandling
  <2> QED
    BY <2>1, <1>1, Jumping DEF HandlingOK, SignalReports
<1>9. ExitsOK'
  BY <1>1, ExitsSame
<1>10. LocalsLive'
  <2> SUFFICES ASSUME program.nested, NEW i \in DOMAIN controls'
               PROVE  UNION ToSet(controls'[i].blocks) \subseteq mem'
    BY <1>1 DEF LocalsLive
  <2>1. /\ i \in DOMAIN controls
        /\ i # t => controls'[i] = controls[i]
        /\ controls'[i] \in KnownFrames
    BY <1>1, <1>2, SameLabels, ArriveFacts
  <2>2. CASE i # t
    <3>1. UNION ToSet(controls[i].blocks) \subseteq mem
      BY <2>1 DEF LocalsLive
    <3>2. controls[i] \in KnownFrames /\ controls[i].label # Top.label
      BY <2>1, <2>2, <1>1, TopFrame DEF StackOK
    <3>3. \A j \in DOMAIN controls[i].blocks : Top.blocks[m] \cap controls[i].blocks[j] = {}
      BY <3>2, <1>1, <1>3, TopFrame
    <3> QED
      BY <3>1, <3>3, <2>1, <2>2, <1>3, ArriveFacts DEF ToSet
  <2>3. CASE i = t
    <3> DEFINE g == buf.controls[t]
    <3>1. t \in DOMAIN controls /\ controls[t].label = buf.label
      BY ArriveFacts
    <3>2. /\ Len(controls[t].blocks) > Len(g.blocks) /\ UNION ToSet(g.blocks) \subseteq mem
      BY <3>1, Jumping DEF MayLand
    <3>3. g \in KnownFrames /\ g \in Frames /\ controls[t] = Top
      BY <3>1, <1>1, Jumping, TopFrame DEF Placed, PlacedIn
    <3>4. controls'[t] = g
      BY <1>1, ArriveFacts DEF Last, SameCalls
    <3>5. \A j \in DOMAIN g.blocks : j # m
      BY <3>2, <3>3, <1>3 DEF Frames
    <3>6. \A j \in DOMAIN g.blocks : Top.blocks[m] \cap g.blocks[j] = {}
      BY <3>3, <3>5, <1>1, <1>3, TopFrame
    <3> QED
      BY <3>2, <3>4, <3>6, <2>3, <1>3, ArriveFacts, SMTT(90) DEF ToSet
  <2> QED
    BY <2>2, <2>3
<1> QED
  BY <1>2, <1>4, <1>5, <1>6, <1>7, <1>8, <1>9, <1>10

LEMMA JumpStep ==
  ASSUME ControlInv, Jump
  PROVE  ControlInv'
<1>1. k.op = "longjmp" /\ k # Halted
  BY Jumping DEF Jump
<1>2. ASSUME Report("SETJMP2") PROVE ControlInv'
  BY <1>1, <1>2, ReportStep
<1> QED
  BY <1>1, <1>2, UnwindBlockStep, UnwindCallStep, ArriveStep DEF Jump

-----------------------------------------------------------------------------
(* Exit handlers.                                                          *)

LEMMA CountdownFacts ==
  ASSUME NEW n \in Nat
  PROVE  /\ Countdown(n) \in Seq(Nat) /\ Len(Countdown(n)) = n
         /\ \A i \in 1..n : Countdown(n)[i] = n + 1 - i
BY DEF Countdown

LEMMA ConcatAt ==
  ASSUME NEW r \in Seq(Nat), NEW e \in Seq(Nat)
  PROVE  /\ r \o e \in Seq(Nat) /\ Len(r \o e) = Len(r) + Len(e)
         /\ Len(r) \in Nat /\ Len(e) \in Nat
         /\ \A i \in 1 .. Len(r) : (r \o e)[i] = r[i]
         /\ \A i \in Len(r) + 1 .. Len(r) + Len(e) : (r \o e)[i] = e[i - Len(r)]
BY ConcatProperties

LEMMA OneMore ==
  ASSUME NEW n \in Nat
  PROVE  <<n + 1>> \o Countdown(n) = Countdown(n + 1)
<1> DEFINE h == <<n + 1>>
           c == Countdown(n)
           b == Countdown(n + 1)
<1>1. h \in Seq(Nat) /\ Len(h) = 1 /\ h[1] = n + 1 /\ n + 1 \in Nat
  OBVIOUS
<1>2. /\ c \in Seq(Nat) /\ Len(c) = n /\ \A i \in 1..n : c[i] = n + 1 - i
      /\ b \in Seq(Nat) /\ Len(b) = n + 1 /\ \A i \in 1 .. n + 1 : b[i] = n + 1 + 1 - i
  BY <1>1, CountdownFacts
<1> HIDE DEF h, b, c
<1> DEFINE a == h \o c
<1>3. /\ a \in Seq(Nat) /\ Len(a) = Len(h) + Len(c)
      /\ \A i \in 1 .. Len(h) : a[i] = h[i]
      /\ \A i \in Len(h) + 1 .. Len(h) + Len(c) : a[i] = c[i - Len(h)]
  BY <1>1, <1>2, ConcatAt
<1> HIDE DEF a
<1>4. /\ a \in Seq(Nat) /\ Len(a) = n + 1 /\ a[1] = n + 1
      /\ \A i \in 2 .. n + 1 : a[i] = c[i - 1]
  <2>1. 1 \in 1 .. Len(h) /\ Len(h) + Len(c) = n + 1 /\ Len(h) + 1 = 2
    BY <1>1, <1>2
  <2> QED
    BY <2>1, <1>1, <1>3
<1>5. \A i \in 1 .. n + 1 : a[i] = b[i]
  <2> TAKE i \in 1 .. n + 1
  <2>1. CASE i = 1
    BY <2>1, <1>2, <1>4
  <2>2. CASE i # 1
    <3>1. a[i] = c[i - 1] /\ i - 1 \in 1..n
      BY <2>2, <1>4
    <3>2. c[i - 1] = n + 1 - (i - 1)
      BY <3>1, <1>2
    <3> QED
      BY <3>1, <3>2, <1>2
  <2> QED
    BY <2>1, <2>2
<1>6. a = b
  BY <1>2, <1>4, <1>5, SeqEqual
<1> QED
  BY <1>6 DEF a, b, c, h

(* Moving the first handler left to the handlers called.                   *)
LEMMA OneCalled ==
  ASSUME NEW r \in Seq(Nat), NEW e \in Seq(Nat), e # <<>>
  PROVE  /\ Append(r, Head(e)) \o Tail(e) = r \o e
         /\ Append(r, Head(e)) \in Seq(Nat) /\ Tail(e) \in Seq(Nat)
<1>1. <<Head(e)>> \in Seq(Nat) /\ Tail(e) \in Seq(Nat) /\ Head(e) \in Nat
  BY HeadTailProperties
<1>2. Append(r, Head(e)) = r \o <<Head(e)>> /\ Append(r, Head(e)) \in Seq(Nat)
  BY <1>1, AppendIsConcat, AppendProperties
<1>3. e = <<Head(e)>> \o Tail(e)
  <2> DEFINE h == <<Head(e)>>
             t == Tail(e)
  <2>1. /\ h \in Seq(Nat) /\ Len(h) = 1 /\ h[1] = e[1]
        /\ t \in Seq(Nat) /\ Len(t) = Len(e) - 1 /\ Len(e) \in Nat \ {0}
        /\ \A i \in 1 .. Len(e) - 1 : t[i] = e[i + 1]
    BY HeadTailProperties
  <2> HIDE DEF h, t
  <2>2. /\ h \o t \in Seq(Nat) /\ Len(h \o t) = Len(h) + Len(t)
        /\ \A i \in 1 .. Len(h) : (h \o t)[i] = h[i]
        /\ \A i \in Len(h) + 1 .. Len(h) + Len(t) : (h \o t)[i] = t[i - Len(h)]
    BY <2>1, ConcatAt
  <2> DEFINE a == h \o t
  <2> HIDE DEF a
  <2>3. /\ a \in Seq(Nat) /\ Len(a) = Len(e) /\ a[1] = e[1]
        /\ \A i \in 2 .. Len(e) : a[i] = t[i - 1]
    BY <2>1, <2>2, SMTT(30) DEF a
  <2>4. \A i \in 1 .. Len(e) : a[i] = e[i]
    <3> TAKE i \in 1 .. Len(e)
    <3>1. CASE i = 1
      BY <3>1, <2>3
    <3>2. CASE i # 1
      <4>1. a[i] = t[i - 1] /\ i - 1 \in 1 .. Len(e) - 1
        BY <3>2, <2>1, <2>3
      <4>2. t[i - 1] = e[(i - 1) + 1] /\ (i - 1) + 1 = i
        BY <4>1, <2>1
      <4> QED
        BY <4>1, <4>2
    <3> QED
      BY <3>1, <3>2
  <2>5. a = e
    BY <2>3, <2>4, SeqEqual
  <2> QED
    BY <2>5 DEF a, h, t
<1>4. (r \o <<Head(e)>>) \o Tail(e) = r \o (<<Head(e)>> \o Tail(e))
  BY <1>1, ConcatAssociative, SMTT(30)
<1> QED
  BY <1>1, <1>2, <1>3, <1>4

LEMMA AtExitStep ==
  ASSUME ControlInv, NEW l \in Lists, AtExit(l)
  PROVE  ControlInv'
<1> USE DEF ControlInv
<1>r. k = Run /\ k.op = "run" /\ k # Halted /\ error = "none"
  BY Running, MakeTasks, TaskFacts DEF AtExit, Runs
<1>1. ASSUME Report(IF l = "atexit" THEN "STDLIB3" ELSE "STDLIB6") PROVE ControlInv'
  <2>1. CASE l = "atexit"
    BY <2>1, <1>1, <1>r, ReportStep
  <2>2. CASE l # "atexit"
    BY <2>2, <1>1, <1>r, ReportStep
  <2> QED
    BY <2>1, <2>2
<1>2. CASE /\ status = "mainCalled" /\ registered[l] < MaxHandlers
           /\ registered' = [registered EXCEPT ![l] = @ + 1]
           /\ exits' = [exits EXCEPT ![l] = FirstOfAll(l, registered[l] + 1)]
           /\ UNCHANGED <<program, storage, saved, k, sigState, status, ran, error>>
  <2> DEFINE n == registered[l]
  <2>1. n \in Nat /\ exits[l] \in Seq(Nat) /\ ran[l] = <<>> /\ exits[l] = Countdown(n)
    <3>1. n \in Nat /\ exits[l] \in Seq(Nat) /\ ran[l] = <<>>
      BY <1>2 DEF TypeInv, ExitsOK
    <3>2. <<>> \o exits[l] = exits[l]
      BY <3>1, ConcatEmptySeq
    <3> QED
      BY <3>1, <3>2 DEF ExitsOK
  <2>2. FirstOfAll(l, n + 1) = Countdown(n + 1)
    BY <2>1, OneMore DEF FirstOfAll
  <2>3. Countdown(n + 1) \in Seq(Nat)
    BY <2>1, CountdownFacts
  <2>4. /\ exits' = [exits EXCEPT ![l] = Countdown(n + 1)]
        /\ registered' = [registered EXCEPT ![l] = n + 1]
    BY <1>2, <2>2
  <2>5. TypeInv'
    BY <1>2, <2>1, <2>3, <2>4 DEF TypeInv, storage, saved
  <2>6. Placed' /\ StackOK' /\ BufsOK' /\ LocalsLive'
    BY <1>2, StorageSame
  <2>7. TaskOK' /\ JumpOK'
    BY <1>2, <1>r DEF TaskOK, JumpOK, storage
  <2>8. HandlingOK'
    BY <1>2 DEF HandlingOK, SignalReports, Handling, storage
  <2>9. ExitsOK'
    <3>1. ASSUME NEW m \in Lists PROVE ran'[m] \o exits'[m] = Countdown(registered'[m])
      <4>1. CASE m = l
        <5>1. ran'[m] = <<>> /\ exits'[m] = Countdown(n + 1) /\ registered'[m] = n + 1
          BY <4>1, <1>2, <2>1, <2>4 DEF TypeInv
        <5> QED
          BY <5>1, <2>3, ConcatEmptySeq
      <4>2. CASE m # l
        BY <4>2, <1>2, <2>4 DEF ExitsOK, TypeInv
      <4> QED
        BY <4>1, <4>2
    <3> QED
      BY <3>1, <1>2, <1>r DEF ExitsOK
  <2> QED
    BY <2>5, <2>6, <2>7, <2>8, <2>9
<1> QED
  BY <1>1, <1>2 DEF AtExit

LEMMA ExitStep ==
  ASSUME ControlInv, NEW l \in Lists, Exit(l)
  PROVE  ControlInv'
<1> USE DEF ControlInv
<1>r. k = Run /\ k.op = "run" /\ k # Halted /\ error = "none"
  BY Running, MakeTasks, TaskFacts DEF Exit, Runs
<1>1. ASSUME Report(IF l = "atexit" THEN "STDLIB4" ELSE "STDLIB5") PROVE ControlInv'
  <2>1. CASE l = "atexit"
    BY <2>1, <1>1, <1>r, ReportStep
  <2>2. CASE l # "atexit"
    BY <2>2, <1>1, <1>r, ReportStep
  <2> QED
    BY <2>1, <2>2
<1>2. CASE /\ status = "mainCalled" /\ status' = "mainExited" /\ k' = callAtExit(l)
           /\ UNCHANGED <<program, storage, saved, sigState, exits, registered, ran, error>>
  <2>1. k' \in Tasks /\ k'.op = "callAtExit"
    BY <1>2, MakeTasks
  <2>2. TypeInv'
    BY <1>2, <2>1 DEF TypeInv, storage, saved
  <2>3. Placed' /\ StackOK' /\ BufsOK' /\ LocalsLive'
    BY <1>2, StorageSame
  <2>4. TaskOK' /\ JumpOK'
    BY <1>2, <1>r, <2>1, Running DEF TaskOK, JumpOK, storage
  <2>5. HandlingOK'
    BY <1>2, <1>r DEF HandlingOK, SignalReports, Handling, storage
  <2>6. ExitsOK'
    BY <1>2, <2>1 DEF ExitsOK
  <2> QED
    BY <2>2, <2>3, <2>4, <2>5, <2>6
<1> QED
  BY <1>1, <1>2 DEF Exit

LEMMA CallAtExitStep ==
  ASSUME ControlInv, CallAtExit
  PROVE  ControlInv'
<1> USE DEF ControlInv
<1> DEFINE l == k.list
<1>1. k.op = "callAtExit" /\ l \in Lists /\ status' = "mainExited" /\ k # Halted /\ error = "none"
  BY TaskFacts, MakeTasks DEF CallAtExit, TypeInv, HandlingOK
<1>e. exits[l] \in Seq(Nat) /\ ran[l] \in Seq(Nat)
  BY <1>1 DEF TypeInv
<1>2. CASE /\ exits[l] # <<>> /\ Apply(Handlers(l)) /\ k' = Run
           /\ exits' = [exits EXCEPT ![l] = Tail(@)]
           /\ ran' = [ran EXCEPT ![l] = Append(@, Head(exits[l]))]
           /\ UNCHANGED <<program, saved, sigState, registered, error>>
  <2>1. Handlers(l) \in Afters /\ Handlers(l).op = "handlers"
    BY <1>1, MakeAfters
  <2>2. /\ Placed' /\ StackOK' /\ BufsOK' /\ TaskOK' /\ JumpOK' /\ LocalsLive'
        /\ controls' \in Seq(Frames) /\ mem' \subseteq Objs /\ used' \in Nat
        /\ Handling => Handling'
    BY <1>1, <1>2, <2>1, CallStep
  <2>3. /\ exits' = [exits EXCEPT ![l] = Tail(exits[l])]
        /\ ran' = [ran EXCEPT ![l] = Append(ran[l], Head(exits[l]))]
    BY <1>2
  <2>4. /\ Append(ran[l], Head(exits[l])) \o Tail(exits[l]) = ran[l] \o exits[l]
        /\ Append(ran[l], Head(exits[l])) \in Seq(Nat) /\ Tail(exits[l]) \in Seq(Nat)
    BY <1>2, <1>e, OneCalled
  <2> HIDE DEF l
  <2>5. TypeInv'
    BY <1>1, <1>2, <2>2, <2>3, <2>4, MakeTasks, SMTT(30) DEF TypeInv, saved
  <2>6. HandlingOK'
    BY <1>1, <1>2, <2>2 DEF HandlingOK, SignalReports
  <2>7. ASSUME NEW m \in Lists PROVE ran'[m] \o exits'[m] = Countdown(registered'[m])
    <3>1. CASE m = l
      <4>1. /\ ran'[m] = Append(ran[l], Head(exits[l])) /\ exits'[m] = Tail(exits[l])
            /\ registered'[m] = registered[l]
        BY <3>1, <1>2, <2>3 DEF TypeInv
      <4> QED
        BY <4>1, <2>4, <1>1 DEF ExitsOK
    <3>2. CASE m # l
      BY <3>2, <1>2, <2>3 DEF ExitsOK, TypeInv
    <3> QED
      BY <3>1, <3>2
  <2>8. k'.op # "done"
    BY <1>2, TaskFacts, MakeTasks
  <2>9. ExitsOK'
    BY <2>7, <2>8, <1>1 DEF ExitsOK
  <2> QED
    BY <2>2, <2>5, <2>6, <2>9
<1>3. CASE /\ exits[l] = <<>> /\ k' = Done(l)
           /\ UNCHANGED <<program, storage, saved, sigState, exits, registered, ran, error>>
  <2>1. k' \in Tasks /\ k'.op = "done" /\ k'.list = l
    BY <1>1, <1>3, MakeTasks
  <2>2. TypeInv'
    BY <1>1, <1>3, <2>1 DEF TypeInv, storage, saved
  <2>3. Placed' /\ StackOK' /\ BufsOK' /\ LocalsLive'
    BY <1>3, StorageSame
  <2>4. TaskOK' /\ JumpOK'
    BY <1>1, <1>3, <2>1 DEF TaskOK, JumpOK, storage
  <2>5. HandlingOK'
    BY <1>1, <1>3 DEF HandlingOK, SignalReports, Handling, storage
  <2>6. ExitsOK'
    BY <1>1, <1>3, <2>1 DEF ExitsOK
  <2> QED
    BY <2>2, <2>3, <2>4, <2>5, <2>6
<1> QED
  BY <1>2, <1>3 DEF CallAtExit

-----------------------------------------------------------------------------
(* The theorems.                                                           *)

LEMMA InvInit == Init => ControlInv
<1> SUFFICES ASSUME Init PROVE ControlInv
  OBVIOUS
<1> DEFINE a == Activation(1, Handlers("atexit"))
<1>1. Handlers("atexit") \in Afters /\ Handlers("atexit").op = "handlers"
  BY MakeAfters DEF Lists
<1>2. a \in Frames /\ PlacedIn({} \cup {a}, 1)
  <2>1. PlacedIn({}, 0)
    BY DEF PlacedIn
  <2>2. a = Activation(0 + 1, Handlers("atexit")) /\ 0 + 1 = 1
    OBVIOUS
  <2> QED
    BY <2>1, <2>2, <1>1, PlacedNew
<1>3. /\ a.label = 1 /\ a.after = Handlers("atexit") /\ a.blocks = <<{1}, {}>>
      /\ Len(a.blocks) = 2 /\ UNION ToSet(a.blocks) \subseteq {1}
  BY DEF Activation, ToSet
<1>4. /\ controls = <<a>> /\ DOMAIN controls = {1} /\ controls[1] = a /\ mem = {1} /\ used = 1
      /\ jmpBufs = <<>> /\ DOMAIN jmpBufs = {} /\ k.op = "run" /\ k = Run
  BY MakeTasks, TaskFacts DEF Init
<1> HIDE DEF a
<1>5. TypeInv
  <2>1. <<a>> \in Seq(Frames) /\ <<>> \in Seq(Saved) /\ <<>> \in Seq(Nat)
    BY <1>2
  <2> QED
    BY <2>1, <1>4, MakeTasks DEF Init, TypeInv, Objs
<1>6. Placed
  <2>1. KnownFrames = {} \cup {a}
    BY <1>4 DEF KnownFrames, ToSet
  <2> QED
    BY <2>1, <1>2, <1>4 DEF Placed
<1>7. StackOK /\ BufsOK /\ TaskOK /\ JumpOK
  BY <1>1, <1>3, <1>4 DEF Init, StackOK, BufsOK, TaskOK, JumpOK
<1>8. HandlingOK /\ LocalsLive
  BY <1>3, <1>4 DEF Init, HandlingOK, SignalReports, LocalsLive
<1>9. ExitsOK
  <2>1. Countdown(0) = <<>> /\ <<>> \o <<>> = <<>>
    BY DEF Countdown
  <2> QED
    BY <2>1, <1>4 DEF Init, ExitsOK
<1> QED
  BY <1>5, <1>6, <1>7, <1>8, <1>9 DEF ControlInv

LEMMA SetJmpKeeps ==
  ASSUME ControlInv, NEW v \in JmpBufs, SetJmp(v)
  PROVE  ControlInv'
<1> USE DEF ControlInv
<1>1. k = Run /\ k.op = "run"
  BY Running DEF SetJmp, Runs
<1>2. UNCHANGED <<program, controls, mem, used, k, sigState, exiting, error>>
  BY DEF SetJmp, storage
<1>3. jmpBufs' \in Seq(Saved) /\ env' \in [JmpBufs -> Nat] /\ Placed' /\ StackOK' /\ BufsOK'
  BY SetJmpStep
<1>4. TypeInv'
  BY <1>2, <1>3 DEF TypeInv, exiting
<1>5. TaskOK' /\ JumpOK'
  BY <1>1, <1>2 DEF TaskOK, JumpOK
<1>6. HandlingOK' /\ LocalsLive'
  BY <1>2 DEF HandlingOK, Handling, SignalReports, LocalsLive
<1>7. ExitsOK'
  BY <1>2, ExitsSame
<1> QED
  BY <1>3, <1>4, <1>5, <1>6, <1>7

LEMMA InvStutter ==
  ASSUME ControlInv, UNCHANGED vars
  PROVE  ControlInv'
<1>1. /\ UNCHANGED <<program, controls, mem, used, jmpBufs, env, k, sigState, exits, status>>
      /\ UNCHANGED <<registered, ran, error>>
  BY DEF vars, storage, saved, exiting
<1> QED
  BY <1>1 DEF ControlInv, TypeInv, Placed, KnownFrames, StackOK, BufsOK, Kept, TaskOK, JumpOK,
              MayLand, HandlingOK, SignalReports, Handling, ExitsOK, LocalsLive

LEMMA InvStep == ControlInv /\ [Next]_vars => ControlInv'
<1> SUFFICES ASSUME ControlInv, [Next]_vars PROVE ControlInv'
  OBVIOUS
<1>1. CASE EnterBlock
  BY <1>1, EnterBlockStep
<1>2. CASE Declare
  BY <1>2, DeclareStep
<1>3. CASE LeaveBlock
  BY <1>3, LeaveBlockStep
<1>4. CASE Call
  BY <1>4, CallKeeps
<1>5. CASE Return
  BY <1>5, ReturnStep
<1>6. ASSUME NEW v \in JmpBufs, SetJmp(v) PROVE ControlInv'
  BY <1>6, SetJmpKeeps
<1>7. ASSUME NEW v \in JmpBufs, LongJmp(v) PROVE ControlInv'
  BY <1>7, LongJmpStep
<1>8. CASE Jump
  BY <1>8, JumpStep
<1>9. ASSUME NEW sig \in Signals, Raise(sig) PROVE ControlInv'
  BY <1>9, RaiseKeeps
<1>10. ASSUME NEW l \in Lists, AtExit(l) PROVE ControlInv'
  BY <1>10, AtExitStep
<1>11. ASSUME NEW l \in Lists, Exit(l) PROVE ControlInv'
  BY <1>11, ExitStep
<1>12. CASE CallAtExit
  BY <1>12, CallAtExitStep
<1>13. CASE UNCHANGED vars
  BY <1>13, InvStutter
<1> QED
  BY <1>1, <1>2, <1>3, <1>4, <1>5, <1>6, <1>7, <1>8, <1>9, <1>10, <1>11, <1>12, <1>13 DEF Next

(* The inductive invariant: an object is in one block of one activation,   *)
(* and what setjmp saved of an activation that still runs differs from the *)
(* stack in the function that called setjmp only.                          *)
THEOREM ControlInvariant == Spec => []ControlInv
BY InvInit, InvStep, PTL DEF Spec

(* longjmp asks whether the label object of the function that called       *)
(* setjmp is in <mem> (setjmp.k), and thereby whether that function runs.  *)
THEOREM LabelsDecide == Spec => []LabelDecides
<1>1. ASSUME ControlInv PROVE LabelDecides
  <2> SUFFICES ASSUME NEW n \in DOMAIN jmpBufs
               PROVE  jmpBufs[n].label \in mem <=> Target(jmpBufs[n]) # 0
    BY DEF LabelDecides
  <2> DEFINE buf == jmpBufs[n]
  <2>1. Kept(buf) /\ TypeInv /\ StackOK
    BY <1>1 DEF ControlInv, BufsOK
  <2>2. ASSUME buf.label \in mem PROVE Target(buf) # 0
    <3>1. PICK t \in DOMAIN controls : controls[t].label = buf.label
      BY <2>1, <2>2 DEF Kept
    <3>2. Target(buf) = t
      BY <3>1, <2>1, TargetFound
    <3>3. t # 0
      BY <2>1 DEF TypeInv
    <3> QED
      BY <3>2, <3>3
  <2>3. ASSUME Target(buf) # 0 PROVE buf.label \in mem
    <3>1. PICK t \in DOMAIN controls : controls[t].label = buf.label
      BY <2>1, <2>3, TargetFound
    <3> QED
      BY <3>1, <2>1 DEF StackOK
  <2> QED
    BY <2>2, <2>3
<1> QED
  BY <1>1, ControlInvariant, PTL

(* The <thread-local> cell that a jump puts back has the calls below the   *)
(* function it returns to as they are at the time of the jump.             *)
THEOREM StackIsKept == Spec => StackKept
<1>1. ASSUME ControlInv, [Next]_vars
      PROVE  [k.op = "longjmp" /\ k' = Run =>
                /\ Len(controls') = Len(controls)
                /\ Top.label = Last(controls').label
                /\ \A i \in 1 .. Len(controls) - 1 : controls'[i] = controls[i]]_vars
  <2> SUFFICES ASSUME Next, k.op = "longjmp", k' = Run
               PROVE  SameCalls
    BY <1>1 DEF SameCalls
  <2>1. k # Run /\ k # Halted
    BY MakeTasks, TaskFacts
  <2>2. Jump
    BY <2>1 DEF Next, EnterBlock, Declare, LeaveBlock, Call, Return, SetJmp, LongJmp, Raise,
                AtExit, Exit, CallAtExit, Runs
  <2>3. Arrive(jmpBufs[k.id])
    BY <2>1, <2>2, MakeTasks, TaskFacts DEF Jump, UnwindBlock, UnwindCall, Report
  <2> QED
    BY <1>1, <2>3, ArriveFacts
<1> QED
  BY <1>1, ControlInvariant, PTL DEF Spec, StackKept

(* The objects of open blocks live, for a program whose jumps leave a      *)
(* block of the function they return to (deleteLocals, setjmp.k).          *)
THEOREM LocalsStayLive == Spec => []LocalsLive
<1>1. ControlInv => LocalsLive
  BY DEF ControlInv
<1> QED
  BY <1>1, ControlInvariant, PTL

(* SIGNAL2 is reported inside a handler only (signal.k), unless the        *)
(* program jumped out of one.                                              *)
THEOREM SignalReportsRight == Spec => []SignalReports
<1>1. ControlInv => SignalReports
  BY DEF ControlInv, HandlingOK
<1> QED
  BY <1>1, ControlInvariant, PTL

(* At the end every handler of the list was called once, in the reverse    *)
(* order of registration (callAtExit, init.k).                             *)
THEOREM HandlersAllRun == Spec => []HandlersRun
<1>1. ASSUME ControlInv PROVE HandlersRun
  <2> SUFFICES ASSUME k.op = "done" PROVE ran[k.list] = Countdown(registered[k.list])
    BY DEF HandlersRun, Countdown
  <2>1. k.list \in Lists /\ ran[k.list] \in Seq(Nat) /\ exits[k.list] = <<>>
    BY <1>1, TaskFacts DEF ControlInv, TypeInv, ExitsOK
  <2>2. ran[k.list] \o <<>> = ran[k.list]
    BY <2>1, ConcatEmptySeq
  <2> QED
    BY <1>1, <2>1, <2>2 DEF ControlInv, ExitsOK
<1> QED
  BY <1>1, ControlInvariant, PTL
=============================================================================
