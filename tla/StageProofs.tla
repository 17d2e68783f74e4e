------------------------------ MODULE StageProofs ------------------------------
(***************************************************************************)
(* What comes before a run: the loading of a flow file with all it uses,   *)
(* for any files, however they use one another, and any depth; the reading *)
(* and validating of what a file says, for any files; its references, for  *)
(* any flows, and what they stand for when it runs; the host allow-list,   *)
(* for any target and any URLs; the plan of the population and its         *)
(* driving, for any profile, ceiling and clock; and a data pool's turns,   *)
(* for any number of rows.                                                 *)
(***************************************************************************)
EXTENDS UseLoad, FlowFile, References, PoolTurns, TargetGate, Planner,
        SequenceTheorems, FiniteSetTheorems, WellFoundedInduction, TLAPS

-------------------------------------------------------------------------------
(* Loading (UseLoad). *)

Errs == {"unusable", "cycle", "depth"}

WalkFrame == [file : File, next : Nat \ {0}, errs : SUBSET Errs]

(* The top walker of a stack that is typed. *)
LEMMA TopType ==
  ASSUME LoadTypeOK, HasUse \/ Len(stack) > 0
  PROVE  /\ stack \in Seq(WalkFrame) /\ Len(stack) \in Nat \ {0} /\ DOMAIN stack = 1 .. Len(stack)
         /\ Top = stack[Len(stack)] /\ Top \in WalkFrame
         /\ done \in Seq(File) /\ Len(done) \in Nat /\ DOMAIN done = 1 .. Len(done)
<1>1. stack \in Seq(WalkFrame) /\ done \in Seq(File)
  BY DEF LoadTypeOK, WalkFrame, Errs
<1>2. Len(stack) \in Nat \ {0}
  BY <1>1, EmptySeq DEF HasUse
<1>3. QED BY <1>1, <1>2, ElementOfSeq DEF Top

(* Onward, frame by frame. *)
LEMMA OnwardFrames ==
  ASSUME LoadTypeOK, HasUse \/ Len(stack) > 0, NEW errs \in SUBSET Errs,
         NEW s, s = Onward(errs)
  PROVE  /\ s \in Seq(WalkFrame) /\ Len(s) = Len(stack) /\ DOMAIN s = 1 .. Len(stack)
         /\ \A i \in 1 .. Len(stack) - 1 : s[i] = stack[i]
         /\ s[Len(stack)].file = Top.file
         /\ s[Len(stack)].next = Top.next + 1
         /\ s[Len(stack)].errs = Top.errs \cup errs
<1>1. /\ stack \in Seq(WalkFrame) /\ Len(stack) \in Nat \ {0} /\ DOMAIN stack = 1 .. Len(stack)
      /\ Top = stack[Len(stack)] /\ Top \in WalkFrame
  BY TopType
<1> DEFINE top == Top
<1> DEFINE new == [file |-> top.file, next |-> top.next + 1, errs |-> top.errs \cup errs]
<1>2. new \in WalkFrame /\ new.file = top.file /\ new.next = top.next + 1 /\ new.errs = top.errs \cup errs
  <2> HIDE DEF top
  <2>1. top \in WalkFrame
    BY <1>1 DEF top
  <2>2. top.file \in File /\ top.next + 1 \in Nat \ {0} /\ top.errs \cup errs \in SUBSET Errs
    BY <2>1 DEF WalkFrame
  <2>3. QED BY <2>2 DEF WalkFrame
<1>3. s = [stack EXCEPT ![Len(stack)] = new]
  BY <1>1 DEF Onward, WalkFrame
<1> HIDE DEF new
<1>4. /\ [stack EXCEPT ![Len(stack)] = new] \in Seq(WalkFrame)
      /\ Len([stack EXCEPT ![Len(stack)] = new]) = Len(stack)
  BY <1>1, <1>2, ExceptSeq
<1>5. QED BY <1>1, <1>2, <1>3, <1>4

(* The same for a use step that meets no error. *)
None == {}

LEMMA OnwardClean ==
  ASSUME LoadTypeOK, HasUse, NEW s, s = Onward({})
  PROVE  /\ s \in Seq(WalkFrame) /\ Len(s) = Len(stack) /\ DOMAIN s = 1 .. Len(stack)
         /\ \A i \in 1 .. Len(stack) - 1 : s[i] = stack[i]
         /\ s[Len(stack)].file = Top.file
         /\ s[Len(stack)].next = Top.next + 1
         /\ s[Len(stack)].errs = Top.errs
<1>1. None \in SUBSET Errs /\ s = Onward(None)
  BY DEF None
<1>2. /\ s \in Seq(WalkFrame) /\ Len(s) = Len(stack) /\ DOMAIN s = 1 .. Len(stack)
      /\ \A i \in 1 .. Len(stack) - 1 : s[i] = stack[i]
      /\ s[Len(stack)].file = Top.file
      /\ s[Len(stack)].next = Top.next + 1
      /\ s[Len(stack)].errs = Top.errs \cup None
  BY <1>1, OnwardFrames
<1>3. Top.errs \cup None = Top.errs
  BY DEF None
<1>4. QED BY <1>2, <1>3

(* A use step the walker is done with: it is refused, or what it names was *)
(* compiled before.                                                        *)
LEMMA OnwardInv ==
  ASSUME LoadInv, HasUse, NEW errs \in SUBSET Errs, stack' = Onward(errs),
         UNCHANGED <<uses, done, verdict>>, errs # {} \/ Named \in Range(done)
  PROVE  LoadInv'
<1> DEFINE n == Len(stack)
<1>1. /\ stack \in Seq(WalkFrame) /\ n \in Nat \ {0} /\ DOMAIN stack = 1 .. n
      /\ Top = stack[n] /\ Top \in WalkFrame
  BY TopType DEF LoadInv
<1>2. /\ stack' \in Seq(WalkFrame) /\ Len(stack') = n /\ DOMAIN stack' = 1 .. n
      /\ \A i \in 1 .. n - 1 : stack'[i] = stack[i]
      /\ stack'[n].file = Top.file /\ stack'[n].next = Top.next + 1
      /\ stack'[n].errs = Top.errs \cup errs
  BY OnwardFrames DEF LoadInv
<1>3. \A i \in 1 .. n : /\ stack'[i].file = stack[i].file
                        /\ stack'[i].errs = {} => stack[i].errs = {}
  BY <1>1, <1>2
<1>4. LoadTypeOK'
  BY <1>2 DEF LoadInv, LoadTypeOK, WalkFrame, Errs
<1>5. CompiledOnce'
  <2>1. Files' = Files
    BY <1>1, <1>2, <1>3 DEF Files
  <2>2. QED BY <1>1, <1>2, <1>3, <2>1 DEF LoadInv, CompiledOnce
<1>6. WalkedSoFar'
  <2>1. SUFFICES ASSUME NEW i \in 1 .. n, stack'[i].errs = {},
                        NEW j \in 1 .. stack'[i].next - 1
                 PROVE  \/ uses[stack'[i].file][j] \in Range(done)
                        \/ /\ j = stack'[i].next - 1 /\ i < n
                           /\ stack'[i + 1].file = uses[stack'[i].file][j]
    BY <1>2 DEF WalkedSoFar
  <2>2. CASE i < n
    <3>1. i \in 1 .. n - 1 /\ i + 1 \in 1 .. n
      BY <1>1, <2>1, <2>2
    <3>2. stack'[i] = stack[i] /\ stack'[i + 1].file = stack[i + 1].file /\ i \in DOMAIN stack
      BY <1>1, <1>2, <1>3, <3>1
    <3>3. QED BY <2>1, <3>2 DEF LoadInv, WalkedSoFar
  <2>3. CASE i = n
    <3>1. Named \in Range(done) /\ stack[n].errs = {}
      BY <1>2, <1>3, <2>1, <2>3
    <3>2. j = Top.next \/ j \in 1 .. stack[n].next - 1
      BY <1>1, <1>2, <2>1, <2>3 DEF WalkFrame
    <3>3. CASE j = Top.next
      BY <1>2, <2>3, <3>1, <3>3 DEF Named
    <3>4. CASE j \in 1 .. stack[n].next - 1
      BY <1>1, <1>3, <2>3, <3>1, <3>4 DEF LoadInv, WalkedSoFar
    <3>5. QED BY <3>2, <3>3, <3>4
  <2>4. i < n \/ i = n
    <3>1. n \in Nat
      BY <1>1
    <3>2. i \in 1 .. n
      BY <2>1
    <3> HIDE DEF n
    <3>3. QED BY <3>1, <3>2
  <2>5. QED BY <2>2, <2>3, <2>4
<1>7. CompiledWhole'
  <2>1. (\A i \in DOMAIN stack' : stack'[i].errs = {}) => \A i \in DOMAIN stack : stack[i].errs = {}
    BY <1>1, <1>2, <1>3
  <2>2. Linked' = Linked
    BY DEF Linked, Before
  <2>3. QED BY <2>1, <2>2 DEF LoadInv, CompiledWhole
<1>8. EntryBelow'
  <2>1. stack # <<>> /\ stack' # <<>>
    BY <1>1, <1>2, EmptySeq
  <2>2. stack'[1].file = stack[1].file
    BY <1>1, <1>3
  <2>3. QED BY <2>1, <2>2 DEF LoadInv, EntryBelow, Accepted
<1>9. QED BY <1>4, <1>5, <1>6, <1>7, <1>8 DEF LoadInv

(* A use of a file that is neither compiled nor being compiled: a walker   *)
(* for it goes on the stack.                                               *)
LEMMA UseFileInv ==
  ASSUME LoadInv, UseFile
  PROVE  LoadInv'
<1> DEFINE n == Len(stack)
<1> DEFINE onward == Onward({})
<1>1. /\ HasUse /\ Named \in File \ Files /\ ~ Deep /\ Named \notin Range(done)
      /\ stack' = Append(onward, Walker(Named)) /\ UNCHANGED <<uses, done, verdict>>
  BY DEF UseFile, Followed
<1>2. /\ stack \in Seq(WalkFrame) /\ n \in Nat \ {0} /\ DOMAIN stack = 1 .. n
      /\ Top = stack[n] /\ Top \in WalkFrame
  BY <1>1, TopType DEF LoadInv
<1>3. /\ onward \in Seq(WalkFrame) /\ Len(onward) = n /\ DOMAIN onward = 1 .. n
      /\ \A i \in 1 .. n - 1 : onward[i] = stack[i]
      /\ onward[n].file = Top.file /\ onward[n].next = Top.next + 1
      /\ onward[n].errs = Top.errs
  BY <1>1, OnwardClean DEF LoadInv
<1> HIDE DEF onward
<1>4. Walker(Named) \in WalkFrame /\ Walker(Named).file = Named /\ Walker(Named).next = 1
      /\ Walker(Named).errs = {}
  BY <1>1 DEF Walker, WalkFrame
<1>5. /\ stack' \in Seq(WalkFrame) /\ Len(stack') = n + 1 /\ DOMAIN stack' = 1 .. n + 1
      /\ \A i \in 1 .. n : stack'[i] = onward[i]
      /\ stack'[n + 1] = Walker(Named)
  BY <1>1, <1>2, <1>3, <1>4
<1>6. /\ \A i \in 1 .. n - 1 : stack'[i] = stack[i]
      /\ \A i \in 1 .. n : stack'[i].file = stack[i].file /\ stack'[i].errs = stack[i].errs
      /\ stack'[n].next = Top.next + 1
  BY <1>2, <1>3, <1>5
<1>7. LoadTypeOK'
  BY <1>1, <1>5 DEF LoadInv, LoadTypeOK, WalkFrame, Errs
<1>8. CompiledOnce'
  <2>1. Files' = Files \cup {Named}
    <3>1. \A i : i \in 1 .. n + 1 <=> i \in 1 .. n \/ i = n + 1
      BY <1>2
    <3>2. \A i \in 1 .. n : stack'[i].file = stack[i].file
      BY <1>6
    <3>3. stack'[n + 1].file = Named
      BY <1>4, <1>5
    <3>4. Files = {stack[i].file : i \in 1 .. n}
      BY <1>2 DEF Files
    <3>5. Files' = {stack'[i].file : i \in 1 .. n + 1}
      BY <1>5 DEF Files
    <3>6. QED BY <3>1, <3>2, <3>3, <3>4, <3>5
  <2>2. \A i \in 1 .. n : stack'[i].file \in Files
    BY <1>2, <1>6 DEF Files
  <2>3. \A i, j \in DOMAIN stack' : stack'[i].file = stack'[j].file => i = j
    <3>1. \A i, j \in 1 .. n : stack'[i].file = stack'[j].file => i = j
      BY <1>2, <1>6 DEF LoadInv, CompiledOnce
    <3>2. \A i \in 1 .. n : stack'[i].file # stack'[n + 1].file
      BY <1>1, <1>4, <1>5, <2>2
    <3>3. \A i \in DOMAIN stack' : i \in 1 .. n \/ i = n + 1
      BY <1>2, <1>5
    <3>4. QED BY <3>1, <3>2, <3>3
  <2>4. Len(stack') =< MaxUseDepth + 1
    BY <1>1, <1>2, <1>5, UseAssumption DEF Deep
  <2>5. QED BY <1>1, <2>1, <2>3, <2>4 DEF LoadInv, CompiledOnce
<1>9. WalkedSoFar'
  <2>1. SUFFICES ASSUME NEW i \in 1 .. n + 1, stack'[i].errs = {},
                        NEW j \in 1 .. stack'[i].next - 1
                 PROVE  \/ uses[stack'[i].file][j] \in Range(done)
                        \/ /\ j = stack'[i].next - 1 /\ i < n + 1
                           /\ stack'[i + 1].file = uses[stack'[i].file][j]
    BY <1>1, <1>5 DEF WalkedSoFar
  <2>2. i < n \/ i = n
    <3>1. stack'[n + 1].next = 1
      BY <1>5 DEF Walker
    <3>2. i # n + 1
      <4>1. SUFFICES ASSUME i = n + 1 PROVE FALSE
        OBVIOUS
      <4>2. stack'[i].next - 1 = 0
        BY <3>1, <4>1
      <4>3. j \in 1 .. 0
        BY <2>1, <4>2
      <4>4. QED BY <4>3
    <3>3. n \in Nat
      BY <1>2
    <3>4. QED BY <2>1, <3>2, <3>3
  <2>3. CASE i < n
    <3>1. i \in 1 .. n - 1 /\ i + 1 \in 1 .. n /\ i < n + 1
      BY <1>2, <2>1, <2>3
    <3>2. stack'[i] = stack[i] /\ stack'[i + 1].file = stack[i + 1].file /\ i \in DOMAIN stack
      BY <1>2, <1>6, <3>1
    <3>3. QED BY <2>1, <3>1, <3>2 DEF LoadInv, WalkedSoFar
  <2>4. CASE i = n
    <3>1. stack[n].errs = {} /\ stack'[n].file = Top.file /\ n \in 1 .. n
      BY <1>2, <1>6, <2>1, <2>4
    <3>2. j = Top.next \/ j \in 1 .. stack[n].next - 1
      BY <1>2, <1>6, <2>1, <2>4 DEF WalkFrame
    <3>3. CASE j = Top.next
      <4>1. j = stack'[n].next - 1 /\ n < n + 1
        <5>1. Top.next \in Nat
          BY <1>2 DEF WalkFrame
        <5>2. QED BY <1>2, <1>6, <3>3, <5>1
      <4>2. QED BY <1>4, <1>5, <2>4, <3>1, <3>3, <4>1 DEF Named
    <3>4. CASE j \in 1 .. stack[n].next - 1
      BY <1>2, <2>4, <3>1, <3>4 DEF LoadInv, WalkedSoFar
    <3>5. QED BY <3>2, <3>3, <3>4
  <2>5. QED BY <2>2, <2>3, <2>4
<1>10. CompiledWhole'
  <2>1. (\A i \in DOMAIN stack' : stack'[i].errs = {}) => \A i \in DOMAIN stack : stack[i].errs = {}
    BY <1>2, <1>5, <1>6
  <2>2. Linked' = Linked
    BY <1>1 DEF Linked, Before
  <2>3. QED BY <1>1, <2>1, <2>2 DEF LoadInv, CompiledWhole
<1>11. EntryBelow'
  <2>1. stack # <<>> /\ stack' # <<>>
    BY <1>2, <1>5, EmptySeq
  <2>2. stack'[1].file = stack[1].file
    BY <1>2, <1>6
  <2>3. QED BY <1>1, <2>1, <2>2 DEF LoadInv, EntryBelow, Accepted
<1>12. QED BY <1>7, <1>8, <1>9, <1>10, <1>11 DEF LoadInv

(* A used file is compiled, and its walker's errors pass to its user. *)
LEMMA CompiledFrames ==
  ASSUME LoadInv, Compiled
  PROVE  /\ Len(stack) \in Nat \ {0, 1}
         /\ stack' \in Seq(WalkFrame) /\ Len(stack') = Len(stack) - 1
         /\ DOMAIN stack' = 1 .. Len(stack) - 1
         /\ \A i \in 1 .. Len(stack) - 1 :
              stack'[i].file = stack[i].file /\ stack'[i].next = stack[i].next
         /\ \A i \in 1 .. Len(stack) - 1 : stack'[i].errs = {} => stack[i].errs = {}
         /\ stack'[Len(stack) - 1].errs = {} => Top.errs = {}
         /\ \A i \in 1 .. Len(stack) - 1 : stack'[i].errs \subseteq stack[i].errs \cup Top.errs
<1> DEFINE n == Len(stack)
<1> DEFINE front == Front(stack)
<1>1. Len(stack) > 1 /\ stack' = [front EXCEPT ![n - 1].errs = @ \cup Top.errs]
  BY DEF Compiled
<1>2. stack \in Seq(WalkFrame)
  BY DEF LoadInv, LoadTypeOK, WalkFrame, Errs
<1>3. n \in Nat \ {0, 1}
  <2>1. Len(stack) \in Nat /\ Len(stack) > 1
    BY <1>1, <1>2, LenProperties
  <2>2. \A m \in Nat : m > 1 => m \in Nat \ {0, 1}
    OBVIOUS
  <2>3. QED BY <2>1, <2>2
<1>4. /\ DOMAIN stack = 1 .. n /\ Top = stack[n] /\ Top \in WalkFrame
  BY <1>2, <1>3, ElementOfSeq DEF Top
<1>5. /\ front \in Seq(WalkFrame) /\ Len(front) = n - 1 /\ DOMAIN front = 1 .. n - 1
      /\ \A i \in 1 .. n - 1 : front[i] = stack[i]
  <2>1. front = SubSeq(stack, 1, n - 1)
    BY DEF Front
  <2> HIDE DEF front, n
  <2>2. stack \in Seq(WalkFrame) /\ n = Len(stack)
    BY <1>2 DEF n
  <2>3. QED BY <1>3, <2>1, <2>2
<1> DEFINE left == [front[n - 1] EXCEPT !.errs = @ \cup Top.errs]
<1>6. stack' = [front EXCEPT ![n - 1] = left]
  BY <1>1
<1> HIDE DEF front
<1>7. front[n - 1] \in WalkFrame /\ n - 1 \in 1 .. n - 1
  BY <1>3, <1>5, ElementOfSeq
<1>8. /\ left \in WalkFrame /\ left.file = front[n - 1].file /\ left.next = front[n - 1].next
      /\ left.errs = front[n - 1].errs \cup Top.errs
  BY <1>4, <1>7 DEF WalkFrame
<1> HIDE DEF left
<1>9. /\ stack' \in Seq(WalkFrame) /\ Len(stack') = n - 1
      /\ stack'[n - 1] = left
      /\ \A i \in 1 .. n - 1 : i # n - 1 => stack'[i] = front[i]
  BY <1>5, <1>6, <1>7, <1>8, ExceptSeq
<1>10. DOMAIN stack' = 1 .. n - 1
  BY <1>9
<1>11. \A i \in 1 .. n - 1 : /\ stack'[i].file = stack[i].file /\ stack'[i].next = stack[i].next
                             /\ stack'[i].errs = {} => stack[i].errs = {}
                             /\ stack'[i].errs \subseteq stack[i].errs \cup Top.errs
  <2>1. SUFFICES ASSUME NEW i \in 1 .. n - 1
                 PROVE  /\ stack'[i].file = stack[i].file /\ stack'[i].next = stack[i].next
                        /\ stack'[i].errs = {} => stack[i].errs = {}
                        /\ stack'[i].errs \subseteq stack[i].errs \cup Top.errs
    OBVIOUS
  <2>2. CASE i = n - 1
    BY <1>5, <1>8, <1>9, <2>1, <2>2
  <2>3. CASE i # n - 1
    BY <1>5, <1>9, <2>1, <2>3
  <2>4. QED BY <2>2, <2>3
<1>12. QED BY <1>3, <1>8, <1>9, <1>10, <1>11

(* What appending a file to the compiled ones does. *)
LEMMA DoneAppended ==
  ASSUME NEW d \in Seq(File), NEW f \in File
  PROVE  /\ Append(d, f) \in Seq(File) /\ Len(Append(d, f)) = Len(d) + 1
         /\ DOMAIN d = 1 .. Len(d) /\ DOMAIN Append(d, f) = 1 .. Len(d) + 1 /\ Len(d) \in Nat
         /\ \A k \in 1 .. Len(d) : Append(d, f)[k] = d[k]
         /\ Append(d, f)[Len(d) + 1] = f
         /\ Range(Append(d, f)) = Range(d) \cup {f}
<1>1. /\ Append(d, f) \in Seq(File) /\ Len(Append(d, f)) = Len(d) + 1
      /\ DOMAIN d = 1 .. Len(d) /\ DOMAIN Append(d, f) = 1 .. Len(d) + 1 /\ Len(d) \in Nat
      /\ \A k \in 1 .. Len(d) : Append(d, f)[k] = d[k]
      /\ Append(d, f)[Len(d) + 1] = f
  OBVIOUS
<1> DEFINE e == Append(d, f)
<1> HIDE DEF e
<1>2. \A k : k \in 1 .. Len(d) + 1 <=> k \in 1 .. Len(d) \/ k = Len(d) + 1
  BY <1>1
<1>3. Range(e) = Range(d) \cup {f}
  BY <1>1, <1>2 DEF Range, e
<1>4. QED BY <1>1, <1>3 DEF e

LEMMA CompiledInv ==
  ASSUME LoadInv, Compiled
  PROVE  LoadInv'
<1> DEFINE n == Len(stack)
<1>1. /\ n \in Nat \ {0, 1}
      /\ stack' \in Seq(WalkFrame) /\ Len(stack') = n - 1 /\ DOMAIN stack' = 1 .. n - 1
      /\ \A i \in 1 .. n - 1 : stack'[i].file = stack[i].file /\ stack'[i].next = stack[i].next
      /\ \A i \in 1 .. n - 1 : stack'[i].errs = {} => stack[i].errs = {}
      /\ stack'[n - 1].errs = {} => Top.errs = {}
  BY CompiledFrames
<1>2. /\ ~ HasUse /\ done' = Append(done, Top.file) /\ UNCHANGED <<uses, verdict>>
  BY DEF Compiled
<1>3. /\ stack \in Seq(WalkFrame) /\ DOMAIN stack = 1 .. n /\ Top = stack[n] /\ Top \in WalkFrame
      /\ done \in Seq(File)
  BY <1>1, TopType DEF LoadInv
<1>4. Top.file \in File /\ Top.next \in Nat \ {0} /\ n \in DOMAIN stack
  BY <1>1, <1>3 DEF WalkFrame
<1>5. /\ done' \in Seq(File) /\ Len(done') = Len(done) + 1 /\ Len(done) \in Nat
      /\ DOMAIN done = 1 .. Len(done) /\ DOMAIN done' = 1 .. Len(done) + 1
      /\ \A k \in 1 .. Len(done) : done'[k] = done[k]
      /\ done'[Len(done) + 1] = Top.file
      /\ Range(done') = Range(done) \cup {Top.file}
  BY <1>2, <1>3, <1>4, DoneAppended
<1>6. Top.file \in Files /\ Top.file \notin Range(done)
  BY <1>3, <1>4 DEF LoadInv, CompiledOnce, Files
<1> HIDE DEF n
<1>7. \A i \in 1 .. n - 1 : i \in DOMAIN stack /\ i # n
  BY <1>1, <1>3
<1>8. LoadTypeOK'
  BY <1>1, <1>2, <1>5 DEF LoadInv, LoadTypeOK, WalkFrame, Errs
<1>9. CompiledOnce'
  <2>1. IsInjective(done)'
    <3>1. \A k \in 1 .. Len(done) : done[k] \in Range(done)
      BY <1>5 DEF Range
    <3>2. \A k \in 1 .. Len(done) : done'[k] # done'[Len(done) + 1]
      BY <1>5, <1>6, <3>1
    <3>3. \A k, l \in 1 .. Len(done) : done'[k] = done'[l] => k = l
      BY <1>5 DEF LoadInv, CompiledOnce, IsInjective
    <3>4. \A k \in 1 .. Len(done) + 1 : k \in 1 .. Len(done) \/ k = Len(done) + 1
      BY <1>5
    <3>5. \A k, l \in 1 .. Len(done) + 1 : done'[k] = done'[l] => k = l
      BY <3>2, <3>3, <3>4
    <3>6. QED BY <1>5, <3>5 DEF IsInjective
  <2>2. \A i, j \in DOMAIN stack' : stack'[i].file = stack'[j].file => i = j
    BY <1>1, <1>7 DEF LoadInv, CompiledOnce
  <2>3. Files' \subseteq Files \ {Top.file}
    BY <1>1, <1>3, <1>4, <1>7 DEF LoadInv, CompiledOnce, Files
  <2>4. Len(stack') =< MaxUseDepth + 1
    <3>1. Len(stack) =< MaxUseDepth + 1
      BY DEF LoadInv, CompiledOnce
    <3>2. QED BY <1>1, <3>1, UseAssumption DEF n
  <2>5. (Files \cap Range(done)) = {}
    BY DEF LoadInv, CompiledOnce
  <2>6. Files' \cap Range(done') = {}
    BY <1>5, <2>3, <2>5
  <2>7. QED BY <2>1, <2>2, <2>4, <2>6 DEF CompiledOnce
<1>10. WalkedSoFar'
  <2>1. SUFFICES ASSUME NEW i \in 1 .. n - 1, stack'[i].errs = {},
                        NEW j \in 1 .. stack'[i].next - 1
                 PROVE  \/ uses[stack'[i].file][j] \in Range(done')
                        \/ /\ j = stack'[i].next - 1 /\ i < n - 1
                           /\ stack'[i + 1].file = uses[stack'[i].file][j]
    BY <1>1, <1>2 DEF WalkedSoFar
  <2>2. /\ stack'[i].file = stack[i].file /\ stack'[i].next = stack[i].next
        /\ stack[i].errs = {} /\ i \in DOMAIN stack
    BY <1>1, <1>7, <2>1
  <2>3. \/ uses[stack[i].file][j] \in Range(done)
        \/ /\ j = stack[i].next - 1 /\ i < n /\ stack[i + 1].file = uses[stack[i].file][j]
    BY <2>1, <2>2 DEF LoadInv, WalkedSoFar, n
  <2>4. i = n - 1 \/ (i < n - 1 /\ i + 1 \in 1 .. n - 1)
    BY <1>1, <2>1
  <2>5. CASE i = n - 1
    <3>1. i + 1 = n
      BY <1>1, <2>5
    <3>2. QED BY <1>3, <1>5, <2>2, <2>3, <3>1
  <2>6. CASE i < n - 1 /\ i + 1 \in 1 .. n - 1
    <3>1. stack'[i + 1].file = stack[i + 1].file
      BY <1>1, <2>6
    <3>2. QED BY <1>5, <2>2, <2>3, <2>6, <3>1
  <2>7. QED BY <2>4, <2>5, <2>6
<1>11. CompiledWhole'
  <2>1. SUFFICES ASSUME verdict # "refused", \A i \in DOMAIN stack' : stack'[i].errs = {}
                 PROVE  Linked'
    BY <1>2 DEF CompiledWhole
  <2>2. Top.errs = {} /\ \A i \in DOMAIN stack : stack[i].errs = {}
    <3>1. n - 1 \in DOMAIN stack'
      BY <1>1
    <3>2. Top.errs = {}
      BY <1>1, <2>1, <3>1
    <3>3. \A i \in 1 .. n : i \in 1 .. n - 1 \/ i = n
      BY <1>1
    <3>4. QED BY <1>1, <1>3, <2>1, <3>2, <3>3
  <2>3. Linked
    BY <2>1, <2>2 DEF LoadInv, CompiledWhole
  <2>4. \A k \in 1 .. Len(done) : Before(k)' = Before(k)
    <3>1. SUFFICES ASSUME NEW k \in 1 .. Len(done) PROVE Before(k)' = Before(k)
      OBVIOUS
    <3>2. \A m \in 1 .. k - 1 : m \in 1 .. Len(done)
      BY <1>5, <3>1
    <3>3. QED BY <1>5, <3>2 DEF Before
  <2>5. ASSUME NEW k, k = Len(done) + 1
        PROVE  Before(k)' = Range(done)
    <3>1. k - 1 = Len(done) /\ Before(k)' = {done'[m] : m \in 1 .. k - 1}
      BY <1>5, <2>5 DEF Before
    <3>2. QED BY <1>5, <3>1 DEF Range
  <2>6. Range(uses[Top.file]) \subseteq Range(done)
    <3>1. uses[Top.file] \in Seq(File \cup {Unusable})
      BY <1>4 DEF LoadInv, LoadTypeOK
    <3>2. Len(uses[Top.file]) =< Top.next - 1
      <4>1. stack # <<>>
        BY <1>1 DEF n
      <4>2. Len(uses[Top.file]) \in Nat /\ ~ (Top.next =< Len(uses[Top.file]))
        BY <1>2, <3>1, <4>1 DEF HasUse
      <4>3. QED BY <1>4, <4>2
    <3>3. \A j \in DOMAIN uses[Top.file] : j \in 1 .. Top.next - 1
      BY <1>4, <3>1, <3>2
    <3>4. \A j \in 1 .. Top.next - 1 : uses[Top.file][j] \in Range(done)
      <4>1. n \in DOMAIN stack /\ Top = stack[n] /\ ~ (n < Len(stack))
        BY <1>1, <1>3 DEF n
      <4>2. \A j \in 1 .. stack[n].next - 1 :
              uses[stack[n].file][j] \in Range(done) \/ n < Len(stack)
        BY <1>4, <2>2, <4>1 DEF LoadInv, WalkedSoFar
      <4>3. QED BY <4>1, <4>2
    <3>5. QED BY <3>3, <3>4 DEF Range
  <2>7. \A k \in DOMAIN done' : Range(uses[done'[k]]) \subseteq Before(k)'
    <3>1. SUFFICES ASSUME NEW k \in 1 .. Len(done) + 1
                   PROVE  Range(uses[done'[k]]) \subseteq Before(k)'
      BY <1>5
    <3>2. CASE k \in 1 .. Len(done)
      BY <1>5, <2>3, <2>4, <3>2 DEF Linked
    <3>3. CASE k = Len(done) + 1
      BY <1>5, <2>5, <2>6, <3>3
    <3>4. QED BY <1>5, <3>1, <3>2, <3>3
  <2>8. QED BY <1>2, <2>7 DEF Linked
<1>12. EntryBelow'
  <2>1. stack # <<>> /\ stack' # <<>> /\ 1 \in 1 .. n - 1
    BY <1>1 DEF n
  <2>2. stack'[1].file = stack[1].file /\ stack[1].file = Entry
    BY <1>1, <2>1 DEF LoadInv, EntryBelow
  <2>3. Entry # Top.file
    BY <1>3, <1>4, <1>7, <2>1, <2>2 DEF LoadInv, CompiledOnce
  <2>4. verdict' = "loading" /\ Entry \notin Range(done')
    BY <1>2, <1>5, <2>1, <2>3 DEF LoadInv, EntryBelow
  <2>5. QED BY <2>1, <2>2, <2>4 DEF EntryBelow, Accepted
<1>13. QED BY <1>8, <1>9, <1>10, <1>11, <1>12 DEF LoadInv

(* The entry has been walked: ParseFlow returns. *)
LEMMA ParseFlowInv ==
  ASSUME LoadInv, ParseFlow
  PROVE  LoadInv'
<1>1. /\ Len(stack) = 1 /\ ~ HasUse /\ stack' = <<>> /\ UNCHANGED <<uses, done>>
      /\ verdict' = IF Top.errs = {} THEN "accepted" ELSE "refused"
  BY DEF ParseFlow
<1>2. /\ stack \in Seq(WalkFrame) /\ DOMAIN stack = {1} /\ Top = stack[1] /\ Top \in WalkFrame
      /\ stack # <<>>
  <2>1. /\ stack \in Seq(WalkFrame) /\ DOMAIN stack = 1 .. 1 /\ Top = stack[1] /\ Top \in WalkFrame
    <3>1. Len(stack) > 0
      BY <1>1
    <3>2. /\ stack \in Seq(WalkFrame) /\ DOMAIN stack = 1 .. Len(stack)
          /\ Top = stack[Len(stack)] /\ Top \in WalkFrame
      BY <3>1, TopType DEF LoadInv
    <3>3. QED BY <1>1, <3>2
  <2>2. stack # <<>>
    <3>1. Len(<<>>) = 0
      OBVIOUS
    <3>2. QED BY <1>1, <3>1
  <2>3. QED BY <2>1, <2>2
<1>3. /\ Top.file = Entry /\ verdict = "loading" /\ Top.next \in Nat
      /\ uses[Entry] \in Seq(File \cup {Unusable})
  BY <1>2, UseAssumption DEF LoadInv, LoadTypeOK, EntryBelow, WalkFrame
<1>4. LoadTypeOK'
  BY <1>1 DEF LoadInv, LoadTypeOK
<1>5. CompiledOnce'
  <2>1. DOMAIN stack' = {} /\ Len(stack') = 0
    BY <1>1
  <2>2. Files' = {}
    BY <2>1 DEF Files
  <2>3. QED BY <1>1, <2>1, <2>2, UseAssumption DEF LoadInv, CompiledOnce
<1>6. WalkedSoFar'
  BY <1>1 DEF WalkedSoFar
<1>7. CompiledWhole'
  <2>1. SUFFICES ASSUME verdict' # "refused" PROVE Linked'
    BY DEF CompiledWhole
  <2>2. Linked
    BY <1>1, <1>2, <1>3, <2>1 DEF LoadInv, CompiledWhole
  <2>3. QED BY <1>1, <2>2 DEF Linked, Before
<1>8. EntryBelow'
  <2>1. SUFFICES ASSUME Top.errs = {} PROVE Range(uses[Entry]) \subseteq Range(done)
    BY <1>1 DEF LoadInv, EntryBelow, Accepted
  <2>2. \A j \in 1 .. Top.next - 1 : uses[Entry][j] \in Range(done)
    BY <1>1, <1>2, <1>3, <2>1 DEF LoadInv, WalkedSoFar
  <2>3. \A j \in DOMAIN uses[Entry] : j \in 1 .. Top.next - 1
    BY <1>1, <1>2, <1>3 DEF HasUse
  <2>4. QED BY <2>2, <2>3 DEF Range
<1>9. QED BY <1>4, <1>5, <1>6, <1>7, <1>8 DEF LoadInv

LEMMA InitInv == LoadInit => LoadInv
<1>1. SUFFICES ASSUME LoadInit PROVE LoadInv
  OBVIOUS
<1>2. /\ stack = <<Walker(Entry)>> /\ done = <<>> /\ verdict = "loading"
      /\ uses \in [File -> Seq(File \cup {Unusable})]
  BY <1>1, UseAssumption DEF LoadInit
<1>3. Walker(Entry) \in WalkFrame /\ Walker(Entry).file = Entry /\ Walker(Entry).next = 1
  BY UseAssumption DEF Walker, WalkFrame
<1>4. /\ stack \in Seq(WalkFrame) /\ Len(stack) = 1 /\ DOMAIN stack = {1}
      /\ stack[1] = Walker(Entry) /\ stack # <<>>
  BY <1>2, <1>3
<1>5. LoadTypeOK
  BY <1>2, <1>4 DEF LoadTypeOK, WalkFrame, Errs
<1>6. Range(done) = {} /\ DOMAIN done = {}
  BY <1>2 DEF Range
<1>7. CompiledOnce
  BY <1>4, <1>6, UseAssumption DEF CompiledOnce, IsInjective
<1>8. WalkedSoFar
  <2>1. SUFFICES ASSUME NEW i \in DOMAIN stack, NEW j \in 1 .. stack[i].next - 1 PROVE FALSE
    BY DEF WalkedSoFar
  <2>2. QED BY <1>3, <1>4, <2>1
<1>9. CompiledWhole
  BY <1>6 DEF CompiledWhole, Linked
<1>10. EntryBelow
  BY <1>2, <1>3, <1>4, <1>6 DEF EntryBelow, Accepted
<1>11. QED BY <1>5, <1>7, <1>8, <1>9, <1>10 DEF LoadInv

LEMMA StepInv == LoadInv /\ [LoadNext]_useVars => LoadInv'
<1>1. SUFFICES ASSUME LoadInv, [LoadNext]_useVars PROVE LoadInv'
  OBVIOUS
<1>2. {"unusable"} \in SUBSET Errs /\ {"cycle"} \in SUBSET Errs /\ {"depth"} \in SUBSET Errs
      /\ {} \in SUBSET Errs
  BY DEF Errs
<1>3. CASE UseUnusable
  BY <1>1, <1>2, <1>3, OnwardInv DEF UseUnusable, Refuse
<1>4. CASE UseCycle
  BY <1>1, <1>2, <1>4, OnwardInv DEF UseCycle, Refuse
<1>5. CASE UseTooDeep
  BY <1>1, <1>2, <1>5, OnwardInv DEF UseTooDeep, Refuse, Followed
<1>6. CASE UseShared
  BY <1>1, <1>2, <1>6, OnwardInv DEF UseShared, Shared, Followed
<1>7. CASE UseFile
  BY <1>1, <1>7, UseFileInv
<1>8. CASE Compiled
  BY <1>1, <1>8, CompiledInv
<1>9. CASE ParseFlow
  BY <1>1, <1>9, ParseFlowInv
<1>10. CASE UNCHANGED useVars
  <2>1. uses' = uses /\ stack' = stack /\ done' = done /\ verdict' = verdict
    BY <1>10 DEF useVars
  <2>2. Files' = Files /\ Linked' = Linked /\ Accepted' = Accepted
    BY <2>1 DEF Files, Linked, Before, Accepted
  <2>3. LoadTypeOK' /\ CompiledOnce'
    BY <1>1, <2>1, <2>2 DEF LoadInv, LoadTypeOK, CompiledOnce
  <2>4. WalkedSoFar'
    BY <1>1, <2>1 DEF LoadInv, WalkedSoFar
  <2>5. CompiledWhole' /\ EntryBelow'
    BY <1>1, <2>1, <2>2 DEF LoadInv, CompiledWhole, EntryBelow
  <2>6. QED BY <2>3, <2>4, <2>5 DEF LoadInv
<1>11. QED BY <1>1, <1>3, <1>4, <1>5, <1>6, <1>7, <1>8, <1>9, <1>10 DEF LoadNext

(* LoadInv, which says of every walker what it has had compiled and of its *)
(* errors that they are not lost, holds of every load (ParseFlow).         *)
THEOREM LoadInductive == LoadSpec => []LoadInv
<1>1. QED BY InitInv, StepInv, PTL DEF LoadSpec

(* However files use one another, a file is compiled once and never while  *)
(* it is being compiled, and an accepted load is complete and acyclic:     *)
(* what a compiled file uses was compiled before it (walker.use).          *)
THEOREM LoadsSound == LoadSpec => []LoadSound
<1>1. LoadInv => LoadSound
  <2>1. SUFFICES ASSUME LoadInv, Accepted
                 PROVE  Range(uses[Entry]) \subseteq Range(done) \ {Entry} /\ Linked
    BY DEF LoadSound, LinkedBefore, LoadInv
  <2>2. stack = <<>> /\ verdict # "refused"
    BY <2>1 DEF Accepted, LoadInv, EntryBelow
  <2>3. Linked
    BY <2>1, <2>2 DEF LoadInv, CompiledWhole
  <2>4. QED BY <2>1, <2>3 DEF LoadInv, EntryBelow
<1>2. QED BY LoadInductive, <1>1, PTL

(* A set that holds 0, and with every number its successor, holds them all. *)
LEMMA AllNumbers ==
  ASSUME NEW S, 0 \in S, \A n \in Nat : n \in S => n + 1 \in S
  PROVE  Nat \subseteq S
<1>1. SUFFICES ASSUME Nat \ S # {} PROVE FALSE
  OBVIOUS
<1>2. PICK n \in Nat \ S : \A m \in Nat \ S : <<m, n>> \notin OpToRel(<, Nat)
  BY <1>1, NatLessThanWellFounded, WFMin
<1>3. n - 1 \in Nat
  <2>1. n # 0 /\ n \in Nat
    BY <1>2
  <2>2. QED BY <2>1
<1>4. <<n - 1, n>> \in OpToRel(<, Nat)
  BY <1>2, <1>3 DEF OpToRel
<1>5. n - 1 \in S
  BY <1>2, <1>3, <1>4
<1>6. (n - 1) + 1 = n
  <2>1. n \in Nat
    BY <1>2
  <2>2. QED BY <2>1
<1>7. QED BY <1>2, <1>3, <1>5, <1>6

Graph == [File -> Seq(File \cup {Unusable})]

(* The chains of n use steps from the entry. *)
Chains(graph, n) ==
  {c \in [1 .. n + 1 -> File] :
     c[1] = Entry /\ \A i \in 1 .. n : c[i + 1] \in Range(graph[c[i]])}

(* The levels are what their recursion says: the ends of the chains of     *)
(* each length solve it.                                                   *)
LEMMA LevelsAre ==
  ASSUME NEW graph
  PROVE  /\ Levels(graph)[0] = {Entry}
         /\ \A n \in Nat : Levels(graph)[n + 1]
                             = UNION {Range(graph[f]) \cap File : f \in Levels(graph)[n]}
<1> DEFINE Beyond(level, n) == UNION {Range(graph[f]) \cap File : f \in level[n - 1]}
<1> DEFINE Final(n) == {c[n + 1] : c \in Chains(graph, n)}
<1> DEFINE ends == [n \in Nat |-> Final(n)]
<1>1. Final(0) = {Entry}
  <2>1. \A c \in Chains(graph, 0) : c[0 + 1] = Entry
    BY DEF Chains
  <2>2. [i \in 1 .. 0 + 1 |-> Entry] \in Chains(graph, 0)
    BY UseAssumption DEF Chains
  <2>3. QED BY <2>1, <2>2
<1>2. ASSUME NEW n \in Nat \ {0}
      PROVE  Final(n) = UNION {Range(graph[f]) \cap File : f \in Final(n - 1)}
  <2>1. ASSUME NEW c \in Chains(graph, n)
        PROVE  \E f \in Final(n - 1) : c[n + 1] \in Range(graph[f]) \cap File
    <3>1. c \in [1 .. n + 1 -> File] /\ c[1] = Entry /\ n \in 1 .. n /\ n + 1 \in 1 .. n + 1
          /\ \A i \in 1 .. n : c[i + 1] \in Range(graph[c[i]])
      BY <2>1 DEF Chains
    <3>2. PICK b : b = [i \in 1 .. n |-> c[i]]
      OBVIOUS
    <3>3. b \in Chains(graph, n - 1)
      <4>1. n - 1 + 1 = n /\ b \in [1 .. n -> File] /\ b[1] = Entry
        BY <3>1, <3>2
      <4>2. \A i \in 1 .. n - 1 : b[i + 1] \in Range(graph[b[i]])
        BY <3>1, <3>2
      <4>3. QED BY <4>1, <4>2 DEF Chains
    <3>4. b[n - 1 + 1] = c[n] /\ c[n + 1] \in Range(graph[c[n]]) \cap File
      BY <3>1, <3>2
    <3>5. QED BY <3>3, <3>4
  <2>2. ASSUME NEW b \in Chains(graph, n - 1), NEW g \in Range(graph[b[n - 1 + 1]]) \cap File
        PROVE  g \in Final(n)
    <3>1. n - 1 + 1 = n /\ b \in [1 .. n -> File] /\ b[1] = Entry /\ g \in Range(graph[b[n]]) /\ g \in File
          /\ \A i \in 1 .. n - 1 : b[i + 1] \in Range(graph[b[i]])
      BY <2>2 DEF Chains
    <3>2. PICK c : c = [i \in 1 .. n + 1 |-> IF i = n + 1 THEN g ELSE b[i]]
      OBVIOUS
    <3>3. c \in [1 .. n + 1 -> File] /\ c[1] = Entry /\ c[n + 1] = g
          /\ \A i \in 1 .. n : c[i] = b[i]
      BY <3>1, <3>2
    <3>4. \A i \in 1 .. n : c[i + 1] \in Range(graph[c[i]])
      <4>1. TAKE i \in 1 .. n
      <4>2. CASE i = n
        BY <3>1, <3>3, <4>2
      <4>3. CASE i # n
        <5>1. i \in 1 .. n - 1 /\ i + 1 \in 1 .. n
          BY <4>3
        <5>2. QED BY <3>1, <3>3, <5>1
      <4>4. QED BY <4>2, <4>3
    <3>5. c \in Chains(graph, n)
      BY <3>3, <3>4 DEF Chains
    <3>6. QED BY <3>3, <3>5
  <2>3. QED BY <2>1, <2>2
<1>3. ends = [n \in Nat |-> IF n = 0 THEN {Entry} ELSE Beyond(ends, n)]
  <2>1. \A n \in Nat : Final(n) = IF n = 0 THEN {Entry} ELSE Beyond(ends, n)
    <3>1. TAKE n \in Nat
    <3>2. CASE n = 0
      BY <1>1, <3>2
    <3>3. CASE n # 0
      <4>1. n \in Nat \ {0} /\ n - 1 \in Nat
        BY <3>3
      <4>2. ends[n - 1] = Final(n - 1)
        BY <4>1
      <4> HIDE DEF Final, ends
      <4>3. QED BY <1>2, <3>3, <4>1, <4>2
    <3>4. QED BY <3>2, <3>3
  <2> HIDE DEF Final, Beyond
  <2>2. QED BY <2>1
<1> HIDE DEF ends
<1>4. PICK level : level = Levels(graph)
  OBVIOUS
<1>5. level = [n \in Nat |-> IF n = 0 THEN {Entry} ELSE Beyond(level, n)]
  BY <1>3, <1>4 DEF Levels
<1>6. level[0] = {Entry}
  BY <1>5
<1>7. \A n \in Nat : level[n + 1] = Beyond(level, n + 1)
  <2>1. \A n \in Nat : n + 1 \in Nat /\ n + 1 # 0
    OBVIOUS
  <2> HIDE DEF Beyond
  <2>2. QED BY <1>5, <2>1
<1>8. \A n \in Nat : (n + 1) - 1 = n
  OBVIOUS
<1>9. \A n \in Nat : level[n + 1] = UNION {Range(graph[f]) \cap File : f \in level[n]}
  BY <1>7, <1>8
<1>10. QED BY <1>4, <1>6, <1>9

(* A chain of files, each used by the one below it, climbs the levels.     *)
LEMMA ChainClimbs ==
  ASSUME NEW graph \in Graph, NEW chain \in Seq(File),
         Len(chain) > 0, chain[1] = Entry,
         \A i \in 1 .. Len(chain) - 1 : chain[i + 1] \in Range(graph[chain[i]])
  PROVE  \A i \in 1 .. Len(chain) : chain[i] \in Levels(graph)[i - 1]
<1> DEFINE Climbed == {n \in Nat : n + 1 =< Len(chain) => chain[n + 1] \in Levels(graph)[n]}
<1>1. 0 \in Climbed
  BY LevelsAre
<1>2. \A n \in Nat : n \in Climbed => n + 1 \in Climbed
  <2>1. SUFFICES ASSUME NEW n \in Nat, n \in Climbed, n + 1 + 1 =< Len(chain)
                 PROVE  chain[n + 1 + 1] \in Levels(graph)[n + 1]
    OBVIOUS
  <2>2. n + 1 \in 1 .. Len(chain) - 1 /\ n + 1 =< Len(chain) /\ n + 1 + 1 \in 1 .. Len(chain)
    BY <2>1
  <2>3. chain[n + 1] \in Levels(graph)[n]
    BY <2>1, <2>2
  <2>4. chain[n + 1 + 1] \in Range(graph[chain[n + 1]]) \cap File
    BY <2>2
  <2>5. PICK f \in Levels(graph)[n] : chain[n + 1 + 1] \in Range(graph[f]) \cap File
    BY <2>3, <2>4, Zenon
  <2>6. Levels(graph)[n + 1] = UNION {Range(graph[g]) \cap File : g \in Levels(graph)[n]}
    BY LevelsAre
  <2>7. QED BY <2>5, <2>6
<1>3. Nat \subseteq Climbed
  <2> HIDE DEF Climbed
  <2>1. QED BY <1>1, <1>2, AllNumbers
<1>4. QED
  <2>1. TAKE i \in 1 .. Len(chain)
  <2>2. i - 1 \in Nat /\ (i - 1) + 1 = i /\ i =< Len(chain)
    OBVIOUS
  <2>3. i - 1 \in Climbed
    BY <1>3, <2>2
  <2>4. QED BY <2>2, <2>3

(* If the last file of the chain uses one of the chain, no level is empty. *)
LEMMA CycleNeverEnds ==
  ASSUME NEW graph \in Graph, NEW chain \in Seq(File),
         Len(chain) > 0, chain[1] = Entry,
         \A i \in 1 .. Len(chain) - 1 : chain[i + 1] \in Range(graph[chain[i]]),
         NEW back \in 1 .. Len(chain), chain[back] \in Range(graph[chain[Len(chain)]])
  PROVE  \A n \in Nat : Levels(graph)[n] # {}
<1> DEFINE Met == {n \in Nat : \E i \in 1 .. Len(chain) : chain[i] \in Levels(graph)[n]}
<1>1. 0 \in Met
  <2>1. 1 \in 1 .. Len(chain)
    OBVIOUS
  <2>2. QED BY <2>1, LevelsAre
<1>2. \A n \in Nat : n \in Met => n + 1 \in Met
  <2>1. SUFFICES ASSUME NEW n \in Nat, NEW i \in 1 .. Len(chain), chain[i] \in Levels(graph)[n]
                 PROVE  \E j \in 1 .. Len(chain) : chain[j] \in Levels(graph)[n + 1]
    OBVIOUS
  <2>2. \A j \in 1 .. Len(chain) :
          chain[j] \in Range(graph[chain[i]]) => chain[j] \in Levels(graph)[n + 1]
    BY <2>1, LevelsAre
  <2>3. CASE i = Len(chain)
    BY <2>2, <2>3
  <2>4. CASE i # Len(chain)
    <3>1. i \in 1 .. Len(chain) - 1 /\ i + 1 \in 1 .. Len(chain)
      BY <2>4
    <3>2. QED BY <2>2, <3>1
  <2>5. QED BY <2>3, <2>4
<1>3. Nat \subseteq Met
  <2> HIDE DEF Met
  <2>1. QED BY <1>1, <1>2, AllNumbers
<1>4. QED BY <1>3

(* Files of which each uses only those before it leave no way to nest as   *)
(* deep as there are files.                                                *)
LEMMA LinkedEnds ==
  ASSUME NEW graph \in Graph, NEW ranking \in Seq(File), IsInjective(ranking),
         Entry \notin Range(ranking), Range(graph[Entry]) \subseteq Range(ranking),
         \A k \in 1 .. Len(ranking) : \A g \in Range(graph[ranking[k]]) :
           \E m \in 1 .. k - 1 : g = ranking[m]
  PROVE  Levels(graph)[Cardinality(File)] = {}
<1>1. /\ ranking \in [1 .. Len(ranking) -> File] /\ Len(ranking) \in Nat
      /\ \A g \in Range(ranking) : \E m \in 1 .. Len(ranking) : g = ranking[m]
  BY DEF Range
<1> DEFINE Early == {n \in Nat : \A g \in Levels(graph)[n + 1] : \E m \in 1 .. Len(ranking) - n : g = ranking[m]}
<1>2. 0 \in Early
  <2>1. Levels(graph)[0 + 1] = UNION {Range(graph[f]) \cap File : f \in {Entry}}
    BY LevelsAre
  <2>2. Levels(graph)[0 + 1] \subseteq Range(graph[Entry])
    BY <2>1
  <2>3. QED BY <1>1, <2>2
<1>3. \A n \in Nat : n \in Early => n + 1 \in Early
  <2>1. SUFFICES ASSUME NEW n \in Nat, n \in Early, NEW g \in Levels(graph)[n + 1 + 1]
                 PROVE  \E m \in 1 .. Len(ranking) - (n + 1) : g = ranking[m]
    OBVIOUS
  <2>2. Levels(graph)[n + 1 + 1] = UNION {Range(graph[f]) \cap File : f \in Levels(graph)[n + 1]}
    <3>1. n + 1 \in Nat
      OBVIOUS
    <3>2. QED BY <3>1, LevelsAre
  <2>3. PICK f \in Levels(graph)[n + 1] : g \in Range(graph[f])
    BY <2>1, <2>2
  <2>4. PICK k \in 1 .. Len(ranking) - n : f = ranking[k]
    BY <2>1
  <2>5. k \in 1 .. Len(ranking)
    BY <1>1, <2>4
  <2>6. PICK m \in 1 .. k - 1 : g = ranking[m]
    BY <2>3, <2>4, <2>5
  <2>7. m \in 1 .. Len(ranking) - (n + 1)
    BY <1>1, <2>4, <2>6
  <2>8. QED BY <2>6, <2>7
<1>4. Nat \subseteq Early
  <2> HIDE DEF Early
  <2>1. QED BY <1>2, <1>3, AllNumbers
<1>5. Cardinality(File) \in Nat /\ Cardinality(File) > 0
      /\ IsFiniteSet(File \ {Entry}) /\ Cardinality(File \ {Entry}) = Cardinality(File) - 1
  <2>1. Cardinality(File) \in Nat
    BY UseAssumption, FS_CardinalityType
  <2>2. IsFiniteSet(File \ {Entry}) /\ Cardinality(File \ {Entry}) = Cardinality(File) - 1
    BY UseAssumption, FS_RemoveElement
  <2>3. Cardinality(File \ {Entry}) \in Nat
    BY <2>2, FS_CardinalityType
  <2>4. QED BY <2>1, <2>2, <2>3
<1>6. Len(ranking) =< Cardinality(File) - 1
  <2>1. SUFFICES ASSUME Cardinality(File) - 1 < Len(ranking) PROVE FALSE
    BY <1>1, <1>5
  <2>2. IsFiniteSet(1 .. Len(ranking)) /\ Cardinality(1 .. Len(ranking)) = Len(ranking)
    BY <1>1, FS_Interval
  <2>3. ranking \in [1 .. Len(ranking) -> File \ {Entry}]
    BY <1>1 DEF Range
  <2>4. \E x, y \in 1 .. Len(ranking) : x # y /\ ranking[x] = ranking[y]
    BY <1>5, <2>1, <2>2, <2>3, FS_PigeonHole
  <2>5. QED BY <1>1, <2>4 DEF IsInjective
<1>7. PICK n \in Nat : n = Cardinality(File) - 1
  BY <1>5
<1>8. n + 1 = Cardinality(File) /\ Len(ranking) - n =< 0
  BY <1>1, <1>5, <1>6, <1>7
<1>9. n \in Early
  BY <1>4, <1>7
<1>10. \A g \in Levels(graph)[n + 1] : FALSE
  <2>1. \A m \in 1 .. Len(ranking) - n : FALSE
    BY <1>1, <1>8
  <2>2. QED BY <1>9, <2>1
<1>11. QED BY <1>8, <1>10

(* The stack, from the entry to the top, is a chain of uses. *)
LEMMA StackClimbs ==
  ASSUME LoadInv, StackIsChain, Len(stack) > 0
  PROVE  \E chain \in Seq(File) :
           /\ Len(chain) = Len(stack) /\ Len(chain) > 0 /\ chain[1] = Entry
           /\ \A i \in 1 .. Len(stack) : chain[i] = stack[i].file
           /\ \A i \in 1 .. Len(chain) - 1 : chain[i + 1] \in Range(uses[chain[i]])
<1>1. /\ stack \in Seq(WalkFrame) /\ Len(stack) \in Nat \ {0} /\ DOMAIN stack = 1 .. Len(stack)
  BY TopType DEF LoadInv
<1>2. PICK chain : chain = [i \in 1 .. Len(stack) |-> stack[i].file]
  OBVIOUS
<1>3. \A i \in 1 .. Len(stack) : stack[i] \in WalkFrame
  BY <1>1, ElementOfSeq
<1>4. chain \in Seq(File) /\ Len(chain) = Len(stack)
  <2>1. \A i \in 1 .. Len(stack) : stack[i].file \in File
    BY <1>3 DEF WalkFrame
  <2>2. chain \in [1 .. Len(stack) -> File]
    BY <1>2, <2>1
  <2>3. QED BY <1>1, <2>2
<1>5. chain[1] = Entry
  <2>1. stack # <<>>
    BY <1>1, EmptySeq
  <2>2. 1 \in 1 .. Len(stack)
    BY <1>1
  <2>3. QED BY <1>2, <2>1, <2>2 DEF LoadInv, EntryBelow
<1>6. ASSUME NEW i \in 1 .. Len(stack) - 1
      PROVE  chain[i + 1] \in Range(uses[chain[i]])
  <2>1. i \in 1 .. Len(stack) /\ i + 1 \in 1 .. Len(stack)
    BY <1>1
  <2>2. chain[i] = stack[i].file /\ chain[i + 1] = stack[i + 1].file
    BY <1>2, <2>1
  <2>3. stack[i + 1].file \in Range(uses[stack[i].file])
    BY DEF StackIsChain, Range
  <2>4. QED BY <2>2, <2>3
<1>7. QED BY <1>1, <1>2, <1>4, <1>5, <1>6

(* What the top walker's step names is one of its file's uses. *)
LEMMA NamedIsUsed ==
  ASSUME LoadInv, HasUse
  PROVE  /\ Top.file \in File /\ Top.next \in DOMAIN uses[Top.file]
         /\ Named \in Range(uses[Top.file]) /\ Len(stack) > 0 /\ Len(stack) \in Nat
<1>1. Top \in WalkFrame /\ Len(stack) \in Nat \ {0}
  BY TopType DEF LoadInv
<1>2. Top.file \in File /\ Top.next \in Nat \ {0}
  BY <1>1 DEF WalkFrame
<1>3. uses[Top.file] \in Seq(File \cup {Unusable}) /\ Top.next =< Len(uses[Top.file])
  BY <1>2 DEF LoadInv, LoadTypeOK, HasUse
<1>4. Top.next \in DOMAIN uses[Top.file]
  BY <1>2, <1>3
<1>5. QED BY <1>1, <1>2, <1>4 DEF Named, Range

(* Each of the three refusals has its cause. *)
LEMMA UnusableCause ==
  ASSUME LoadInv, UseUnusable
  PROVE  HasCause("unusable")
<1>1. Top.file \in File /\ Unusable \in Range(uses[Top.file])
  BY NamedIsUsed DEF UseUnusable
<1>2. QED BY <1>1 DEF HasCause

LEMMA CycleCause ==
  ASSUME LoadInv, StackIsChain, UseCycle
  PROVE  HasCause("cycle")
<1>1. HasUse /\ Named \in Files /\ Named \in Range(uses[Top.file]) /\ Len(stack) > 0 /\ Len(stack) \in Nat
  BY NamedIsUsed DEF UseCycle
<1>2. PICK chain \in Seq(File) :
        /\ Len(chain) = Len(stack) /\ Len(chain) > 0 /\ chain[1] = Entry
        /\ \A i \in 1 .. Len(stack) : chain[i] = stack[i].file
        /\ \A i \in 1 .. Len(chain) - 1 : chain[i + 1] \in Range(uses[chain[i]])
  BY <1>1, StackClimbs
<1>3. PICK back \in 1 .. Len(chain) : chain[back] = Named
  <2>1. DOMAIN stack = 1 .. Len(stack)
    BY <1>1, TopType DEF LoadInv
  <2>2. QED BY <1>1, <1>2, <2>1 DEF Files
<1>4. chain[Len(chain)] = Top.file
  BY <1>1, <1>2 DEF Top
<1>5. uses \in Graph
  BY DEF LoadInv, LoadTypeOK, Graph
<1>6. \A n \in Nat : Levels(uses)[n] # {}
  <2>1. chain[back] \in Range(uses[chain[Len(chain)]])
    BY <1>1, <1>3, <1>4
  <2>2. QED BY <1>2, <1>5, <2>1, CycleNeverEnds
<1>7. Cardinality(File) \in Nat
  BY UseAssumption, FS_CardinalityType
<1>8. HasCycle
  BY <1>6, <1>7 DEF HasCycle, AtDepth
<1>9. QED BY <1>8 DEF HasCause

LEMMA DepthCause ==
  ASSUME LoadInv, StackIsChain, UseTooDeep
  PROVE  HasCause("depth")
<1>1. /\ HasUse /\ Named \in File /\ Named \in Range(uses[Top.file])
      /\ Len(stack) \in Nat /\ Len(stack) > 0 /\ Len(stack) > MaxUseDepth
  BY NamedIsUsed DEF UseTooDeep, Followed, Deep
<1>2. Len(stack) = MaxUseDepth + 1
  BY <1>1, UseAssumption DEF LoadInv, CompiledOnce
<1>3. PICK chain \in Seq(File) :
        /\ Len(chain) = Len(stack) /\ Len(chain) > 0 /\ chain[1] = Entry
        /\ \A i \in 1 .. Len(stack) : chain[i] = stack[i].file
        /\ \A i \in 1 .. Len(chain) - 1 : chain[i + 1] \in Range(uses[chain[i]])
  BY <1>1, StackClimbs
<1>4. uses \in Graph
  BY DEF LoadInv, LoadTypeOK, Graph
<1>5. \A i \in 1 .. Len(chain) : chain[i] \in Levels(uses)[i - 1]
  BY <1>3, <1>4, ChainClimbs
<1>6. Top.file \in Levels(uses)[MaxUseDepth]
  <2>1. Len(stack) \in 1 .. Len(chain) /\ chain[Len(stack)] = Top.file
    BY <1>1, <1>3 DEF Top
  <2>2. Len(stack) - 1 = MaxUseDepth
    BY <1>2, UseAssumption
  <2>3. QED BY <1>5, <2>1, <2>2
<1>7. Levels(uses)[MaxUseDepth + 1] = UNION {Range(uses[f]) \cap File : f \in Levels(uses)[MaxUseDepth]}
  BY LevelsAre, UseAssumption
<1>8. Named \in Levels(uses)[MaxUseDepth + 1]
  BY <1>1, <1>6, <1>7
<1>9. QED BY <1>8 DEF HasCause, AtDepth

(* The causes lie in the files, which do not change. *)
LEMMA CausesStay ==
  ASSUME uses' = uses, NEW err
  PROVE  HasCause(err)' <=> HasCause(err)
  BY DEF HasCause, HasCycle, AtDepth

(* A walker goes on, with an error that has its cause or with none. *)
LEMMA OnwardCause ==
  ASSUME LoadInv, CauseInv, HasUse, NEW errs \in SUBSET Errs, \A err \in errs : HasCause(err),
         stack' = Onward(errs), UNCHANGED <<uses, done, verdict>>
  PROVE  CauseInv'
<1> DEFINE n == Len(stack)
<1>1. /\ n \in Nat \ {0} /\ DOMAIN stack = 1 .. n /\ Top = stack[n]
  BY TopType DEF LoadInv
<1>2. /\ Len(stack') = n /\ DOMAIN stack' = 1 .. n
      /\ \A i \in 1 .. n - 1 : stack'[i] = stack[i]
      /\ stack'[n].file = Top.file /\ stack'[n].errs = Top.errs \cup errs
  BY OnwardFrames DEF LoadInv
<1> HIDE DEF n
<1>3. \A i \in 1 .. n : stack'[i].file = stack[i].file
  BY <1>1, <1>2
<1>4. StackIsChain'
  <2>1. \A i \in 1 .. n - 1 : i \in 1 .. n /\ i + 1 \in 1 .. n
    BY <1>1
  <2>2. QED BY <1>1, <1>2, <1>3, <2>1 DEF CauseInv, StackIsChain, n
<1>5. \A i \in DOMAIN stack' : \A err \in stack'[i].errs : HasCause(err)
  <2>1. SUFFICES ASSUME NEW i \in 1 .. n, NEW err \in stack'[i].errs PROVE HasCause(err)
    BY <1>2
  <2>2. CASE i = n
    BY <1>1, <1>2, <2>1, <2>2 DEF CauseInv
  <2>3. CASE i # n
    <3>1. i \in 1 .. n - 1
      BY <1>1, <2>3
    <3>2. QED BY <1>1, <1>2, <2>1, <3>1 DEF CauseInv
  <2>4. QED BY <2>2, <2>3
<1>6. QED BY <1>4, <1>5, CausesStay DEF CauseInv

LEMMA UseFileCause ==
  ASSUME LoadInv, CauseInv, UseFile
  PROVE  CauseInv'
<1> DEFINE n == Len(stack)
<1> DEFINE onward == Onward({})
<1>1. /\ HasUse /\ stack' = Append(onward, Walker(Named)) /\ UNCHANGED <<uses, done, verdict>>
  BY DEF UseFile, Followed
<1>2. /\ n \in Nat \ {0} /\ DOMAIN stack = 1 .. n /\ Top = stack[n] /\ Top \in WalkFrame
  BY <1>1, TopType DEF LoadInv
<1>3. /\ onward \in Seq(WalkFrame) /\ Len(onward) = n
      /\ \A i \in 1 .. n - 1 : onward[i] = stack[i]
      /\ onward[n].file = Top.file /\ onward[n].next = Top.next + 1
      /\ onward[n].errs = Top.errs
  BY <1>1, OnwardClean DEF LoadInv
<1> HIDE DEF onward, n
<1>4. Walker(Named).file = Named /\ Walker(Named).errs = {}
  BY DEF Walker
<1>5. /\ Len(stack') = n + 1 /\ DOMAIN stack' = 1 .. n + 1
      /\ \A i \in 1 .. n : stack'[i] = onward[i]
      /\ stack'[n + 1] = Walker(Named)
  BY <1>1, <1>2, <1>3
<1>6. StackIsChain'
  <2>1. SUFFICES ASSUME NEW i \in 1 .. n
                 PROVE  /\ stack'[i].next - 1 \in DOMAIN uses[stack'[i].file]
                        /\ stack'[i + 1].file = uses[stack'[i].file][stack'[i].next - 1]
    BY <1>1, <1>2, <1>5 DEF StackIsChain
  <2>2. CASE i = n
    <3>1. Top.next \in Nat \ {0}
      BY <1>2 DEF WalkFrame
    <3>2. stack'[n].file = Top.file /\ stack'[n].next - 1 = Top.next /\ stack'[n + 1].file = Named
      BY <1>2, <1>3, <1>4, <1>5, <3>1
    <3>3. Top.next \in DOMAIN uses[Top.file]
      BY <1>1, NamedIsUsed
    <3>4. QED BY <2>2, <3>2, <3>3 DEF Named
  <2>3. CASE i # n
    <3>1. i \in 1 .. n - 1 /\ i \in 1 .. n /\ i + 1 \in 1 .. n
      BY <1>2, <2>3
    <3>2. stack'[i] = stack[i] /\ stack'[i + 1].file = stack[i + 1].file
      <4>1. CASE i + 1 = n
        BY <1>2, <1>3, <1>5, <3>1, <4>1
      <4>2. CASE i + 1 # n
        <5>1. i + 1 \in 1 .. n - 1
          BY <1>2, <3>1, <4>2
        <5>2. QED BY <1>3, <1>5, <3>1, <5>1
      <4>3. QED BY <4>1, <4>2
    <3>3. QED BY <3>1, <3>2 DEF CauseInv, StackIsChain, n
  <2>4. QED BY <2>2, <2>3
<1>7. \A i \in DOMAIN stack' : \A err \in stack'[i].errs : HasCause(err)
  <2>1. SUFFICES ASSUME NEW i \in 1 .. n + 1, NEW err \in stack'[i].errs PROVE HasCause(err)
    BY <1>5
  <2>2. CASE i = n + 1
    BY <1>4, <1>5, <2>1, <2>2
  <2>3. CASE i = n
    BY <1>2, <1>3, <1>5, <2>1, <2>3 DEF CauseInv
  <2>4. CASE i # n + 1 /\ i # n
    <3>1. i \in 1 .. n - 1 /\ i \in 1 .. n
      BY <1>2, <2>4
    <3>2. QED BY <1>2, <1>3, <1>5, <2>1, <3>1 DEF CauseInv
  <2>5. QED BY <2>2, <2>3, <2>4
<1>8. QED BY <1>1, <1>6, <1>7, CausesStay DEF CauseInv

LEMMA CompiledCause ==
  ASSUME LoadInv, CauseInv, Compiled
  PROVE  CauseInv'
<1> DEFINE n == Len(stack)
<1>1. /\ n \in Nat \ {0, 1} /\ Len(stack') = n - 1 /\ DOMAIN stack' = 1 .. n - 1
      /\ \A i \in 1 .. n - 1 : stack'[i].file = stack[i].file /\ stack'[i].next = stack[i].next
      /\ \A i \in 1 .. n - 1 : stack'[i].errs \subseteq stack[i].errs \cup Top.errs
  BY CompiledFrames
<1>2. UNCHANGED <<uses, verdict>>
  BY DEF Compiled
<1>3. DOMAIN stack = 1 .. n /\ Top = stack[n]
  BY <1>1, TopType DEF LoadInv
<1> HIDE DEF n
<1>4. StackIsChain'
  <2>1. \A i \in 1 .. n - 1 - 1 : i \in 1 .. n - 1 /\ i + 1 \in 1 .. n - 1
    BY <1>1
  <2>2. QED BY <1>1, <1>2, <2>1 DEF CauseInv, StackIsChain, n
<1>5. \A i \in DOMAIN stack' : \A err \in stack'[i].errs : HasCause(err)
  <2>1. SUFFICES ASSUME NEW i \in 1 .. n - 1, NEW err \in stack'[i].errs PROVE HasCause(err)
    BY <1>1
  <2>2. i \in 1 .. n /\ n \in 1 .. n /\ (err \in stack[i].errs \/ err \in stack[n].errs)
    BY <1>1, <1>3, <2>1
  <2>3. QED BY <1>3, <2>2 DEF CauseInv
<1>6. QED BY <1>2, <1>4, <1>5, CausesStay DEF CauseInv

LEMMA ParseFlowCause ==
  ASSUME LoadInv, CauseInv, ParseFlow
  PROVE  CauseInv'
<1>1. /\ Len(stack) = 1 /\ stack' = <<>> /\ UNCHANGED <<uses, done>>
      /\ verdict' = IF Top.errs = {} THEN "accepted" ELSE "refused"
  BY DEF ParseFlow
<1>2. Len(stack') = 0 /\ DOMAIN stack' = {}
  BY <1>1
<1>3. DOMAIN stack = 1 .. Len(stack) /\ Top = stack[Len(stack)] /\ Top \in WalkFrame
  BY <1>1, TopType DEF LoadInv
<1>4. verdict' = "refused" => \E err \in {"unusable", "cycle", "depth"} : HasCause(err)
  <2>1. SUFFICES ASSUME Top.errs # {} PROVE \E err \in {"unusable", "cycle", "depth"} : HasCause(err)
    BY <1>1
  <2>2. Top.errs \subseteq {"unusable", "cycle", "depth"}
    BY <1>3 DEF WalkFrame, Errs
  <2>3. \A err \in Top.errs : HasCause(err)
    BY <1>1, <1>3 DEF CauseInv
  <2>4. QED BY <2>1, <2>2, <2>3
<1>5. StackIsChain'
  BY <1>2 DEF StackIsChain
<1>6. QED BY <1>1, <1>2, <1>4, <1>5, CausesStay DEF CauseInv

LEMMA CauseStep == LoadInv /\ CauseInv /\ [LoadNext]_useVars => CauseInv'
<1>1. SUFFICES ASSUME LoadInv, CauseInv, [LoadNext]_useVars PROVE CauseInv'
  OBVIOUS
<1>2. {"unusable"} \in SUBSET Errs /\ {"cycle"} \in SUBSET Errs /\ {"depth"} \in SUBSET Errs
      /\ {} \in SUBSET Errs
  BY DEF Errs
<1>3. CASE UseUnusable
  BY <1>1, <1>2, <1>3, OnwardCause, UnusableCause DEF UseUnusable, Refuse
<1>4. CASE UseCycle
  BY <1>1, <1>2, <1>4, OnwardCause, CycleCause DEF UseCycle, Refuse, CauseInv
<1>5. CASE UseTooDeep
  BY <1>1, <1>2, <1>5, OnwardCause, DepthCause DEF UseTooDeep, Refuse, Followed, CauseInv
<1>6. CASE UseShared
  BY <1>1, <1>2, <1>6, OnwardCause DEF UseShared, Shared, Followed
<1>7. CASE UseFile
  BY <1>1, <1>7, UseFileCause
<1>8. CASE Compiled
  BY <1>1, <1>8, CompiledCause
<1>9. CASE ParseFlow
  BY <1>1, <1>9, ParseFlowCause
<1>10. CASE UNCHANGED useVars
  <2>1. uses' = uses /\ stack' = stack /\ verdict' = verdict
    BY <1>10 DEF useVars
  <2>2. QED BY <1>1, <2>1, CausesStay DEF CauseInv, StackIsChain
<1>11. QED BY <1>1, <1>3, <1>4, <1>5, <1>6, <1>7, <1>8, <1>9, <1>10 DEF LoadNext

(* A refusal has its reason in the files, whatever files there are: a      *)
(* cycle, a use that leads nowhere, or a chain beyond maxUseDepth; and no  *)
(* cycle is ever accepted (walker.use).                                    *)
THEOREM RefusalsHaveCause == LoadSpec => []RefusedForCause
<1>1. LoadInit => CauseInv
  <2>1. SUFFICES ASSUME LoadInit PROVE CauseInv
    OBVIOUS
  <2>2. stack = <<Walker(Entry)>> /\ verdict = "loading" /\ Walker(Entry).errs = {}
    BY <2>1 DEF LoadInit, Walker
  <2>3. Len(stack) = 1 /\ DOMAIN stack = {1} /\ stack[1].errs = {}
    BY <2>2
  <2>4. StackIsChain
    BY <2>3 DEF StackIsChain
  <2>5. QED BY <2>2, <2>3, <2>4 DEF CauseInv
<1>2. LoadInv /\ CauseInv => RefusedForCause
  <2>1. SUFFICES ASSUME LoadInv, CauseInv PROVE RefusedForCause
    OBVIOUS
  <2>2. ASSUME Accepted PROVE ~ HasCycle
    <3>1. stack = <<>> /\ verdict # "refused"
      BY <2>1, <2>2 DEF LoadInv, EntryBelow, Accepted
    <3>2. Linked
      BY <2>1, <3>1 DEF LoadInv, CompiledWhole
    <3>3. done \in Seq(File) /\ DOMAIN done = 1 .. Len(done) /\ uses \in Graph
      BY <2>1 DEF LoadInv, LoadTypeOK, Graph
    <3>4. \A k \in 1 .. Len(done) : \A g \in Range(uses[done[k]]) : \E m \in 1 .. k - 1 : g = done[m]
      BY <3>2, <3>3 DEF Linked, Before
    <3>5. /\ IsInjective(done) /\ Entry \notin Range(done)
          /\ Range(uses[Entry]) \subseteq Range(done)
      BY <2>1, <2>2 DEF LoadInv, CompiledOnce, EntryBelow
    <3>6. Levels(uses)[Cardinality(File)] = {}
      BY <3>3, <3>4, <3>5, LinkedEnds
    <3>7. QED BY <3>6 DEF HasCycle, AtDepth
  <2>3. ASSUME verdict = "refused"
        PROVE  \/ HasCycle \/ AtDepth(MaxUseDepth + 1) # {}
               \/ \E f \in File : Unusable \in Range(uses[f])
    <3>1. PICK err \in {"unusable", "cycle", "depth"} : HasCause(err)
      BY <2>1, <2>3 DEF CauseInv
    <3>2. QED BY <3>1 DEF HasCause
  <2>4. QED BY <2>2, <2>3 DEF RefusedForCause
<1>3. QED BY <1>1, <1>2, CauseStep, InitInv, StepInv, PTL DEF LoadSpec

-------------------------------------------------------------------------------
(* What a flow file says (FlowFile). *)

(* A step after flattenAuth is the step that was written, but for its auth. *)
LEMMA FlattenedIs ==
  ASSUME NEW s, NEW flowAuth, NEW r, r = Flattened(s, flowAuth),
         DOMAIN s = {"kinds", "spec", "also", "checks", "bad", "retry", "auth"}
  PROVE  /\ r.kinds = s.kinds /\ r.spec = s.spec /\ r.also = s.also /\ r.checks = s.checks
         /\ r.bad = s.bad /\ r.retry = s.retry
         /\ r.auth = LET own == IF s.auth = Absent /\ MakesRequest(s) THEN flowAuth ELSE s.auth
                     IN  IF OptsOut(own) THEN Absent ELSE own
<1> DEFINE own == IF s.auth = Absent /\ MakesRequest(s) THEN flowAuth ELSE s.auth
<1> DEFINE auth == IF OptsOut(own) THEN Absent ELSE own
<1>1. r = [s EXCEPT !.auth = auth]
  BY DEF Flattened
<1> HIDE DEF auth
<1>2. /\ r.kinds = s.kinds /\ r.spec = s.spec /\ r.also = s.also /\ r.checks = s.checks
      /\ r.bad = s.bad /\ r.retry = s.retry /\ r.auth = auth
  BY <1>1
<1>3. QED BY <1>2 DEF auth

(* A step that parses has one kind. *)
LEMMA OneKind ==
  ASSUME NEW s, s.kinds \subseteq Kinds, StepParses(s)
  PROVE  s.kinds = {Kind(s)} /\ Kind(s) \in Kinds
<1>1. IsFiniteSet(Kinds)
  <2>1. Kinds = {"call"} \cup {"graphql"} \cup {"ws"} \cup {"grpc"} \cup {"wait"} \cup {"poll"} \cup {"use"}
    BY DEF Kinds
  <2>2. QED BY <2>1, FS_Singleton, FS_Union
<1>2. IsFiniteSet(s.kinds)
  BY <1>1, FS_Subset
<1>3. PICK k : s.kinds = {k}
  BY <1>2, FS_Singleton DEF StepParses
<1>4. QED BY <1>3 DEF Kind

LEMMA FileStart == FileInit => FileInv
  BY DEF FileInit, FileInv

LEMMA FileStep == FileInv /\ [FileNext]_fileVars => FileInv'
<1>1. SUFFICES ASSUME FileInv, [FileNext]_fileVars PROVE FileInv'
  OBVIOUS
<1>2. CASE Parse
  BY <1>1, <1>2 DEF Parse, FileInv
<1>3. CASE Validate
  BY <1>1, <1>3 DEF Validate, FileInv
<1>4. CASE UNCHANGED fileVars
  BY <1>1, <1>4 DEF fileVars, FileInv
<1>5. QED BY <1>1, <1>2, <1>3, <1>4 DEF FileNext

(* What is known of a step of one kind that came through. *)
LEMMA Came ==
  ASSUME FileInv, accepted = "accepted"
  PROVE  /\ step.kinds = {Kind(step)} /\ Kind(step) \in Kinds
         /\ step.kinds = written.step.kinds /\ step.spec = written.step.spec
         /\ step.also = written.step.also /\ step.retry = written.step.retry
         /\ step.auth = LET own == IF written.step.auth = Absent /\ MakesRequest(written.step)
                                   THEN written.auth ELSE written.step.auth
                        IN  IF OptsOut(own) THEN Absent ELSE own
         /\ DOMAIN step.spec \subseteq SpecKeys[Kind(step)]
         /\ step.also \subseteq StepKeys
         /\ "with" \in step.also => step.kinds = {"use"}
         /\ step.also \cap Misplaced(step) = {}
         /\ step.retry # Absent => DOMAIN step.retry \subseteq RetryKeys
         /\ ChecksOK(step) /\ RetryOK(step) /\ AuthOK(step)
         /\ written.profile.keys \subseteq ProfileKeys
<1>1. PICK s : s = written.step
  OBVIOUS
<1>2. PICK r : r = step
  OBVIOUS
<1>3. /\ StepParses(s) /\ r = Flattened(s, written.auth) /\ StepOK(r)
      /\ DOMAIN s = {"kinds", "spec", "also", "checks", "bad", "retry", "auth"}
      /\ s.kinds \subseteq Kinds /\ ProfileParses(written.profile)
  BY <1>1, <1>2, FileAssumption DEF FileInv
<1>4. /\ r.kinds = s.kinds /\ r.spec = s.spec /\ r.also = s.also /\ r.retry = s.retry
      /\ r.auth = LET own == IF s.auth = Absent /\ MakesRequest(s) THEN written.auth ELSE s.auth
                  IN  IF OptsOut(own) THEN Absent ELSE own
  BY <1>3, FlattenedIs
<1>5. s.kinds = {Kind(s)} /\ Kind(s) \in Kinds /\ Kind(r) = Kind(s)
  BY <1>3, <1>4, OneKind DEF Kind
<1>6. Misplaced(r) = Misplaced(s)
  BY <1>4 DEF Misplaced, Opens
<1>7. /\ DOMAIN s.spec \subseteq SpecKeys[Kind(s)] /\ s.also \subseteq StepKeys
      /\ "with" \in s.also => s.kinds = {"use"}
      /\ s.also \cap Misplaced(s) = {}
      /\ s.retry # Absent => DOMAIN s.retry \subseteq RetryKeys
  BY <1>3 DEF StepParses
<1>8. ChecksOK(r) /\ RetryOK(r) /\ AuthOK(r) /\ written.profile.keys \subseteq ProfileKeys
  BY <1>3 DEF StepOK, ProfileParses
<1>9. QED BY <1>1, <1>2, <1>4, <1>5, <1>6, <1>7, <1>8

(* The keys of the step, of each kind, that nobody would read, are refused. *)
LEMMA KeysAreRead ==
  ASSUME NEW s, s.kinds = {Kind(s)}, Kind(s) \in Kinds, s.also \subseteq StepKeys,
         "with" \in s.also => s.kinds = {"use"}, s.also \cap Misplaced(s) = {}, ChecksOK(s)
  PROVE  s.also \subseteq KeyReads(s) \cup Unread(s)
<1>1. PICK k \in Kinds : s.kinds = {k}
  OBVIOUS
<1>2. SUFFICES ASSUME NEW key \in s.also PROVE key \in KeyReads(s) \cup Unread(s)
  OBVIOUS
<1>3. key \in {"extract", "assert", "throttle", "on_failure", "with", "headers", "query", "body"}
      /\ key \notin Misplaced(s) /\ (key = "with" => k = "use")
  BY <1>1, <1>2 DEF StepKeys, CallOnly
<1>4. CASE k = "call"
  BY <1>1, <1>3, <1>4 DEF KeyReads, CallOnly
<1>5. CASE k \in {"graphql", "grpc"}
  <2>1. key \notin {"query", "body", "with"}
    BY <1>1, <1>3, <1>5 DEF Misplaced
  <2>2. KeyReads(s) = {"extract", "assert", "throttle", "on_failure", "headers"}
    BY <1>1, <1>5 DEF KeyReads
  <2>3. QED BY <1>3, <2>1, <2>2
<1>6. CASE k = "ws"
  <2>1. key \notin {"query", "body", "with"}
    BY <1>1, <1>3, <1>6 DEF Misplaced
  <2>2. KeyReads(s) = {"extract", "assert", "throttle", "on_failure", "headers"}
    BY <1>1, <1>6 DEF KeyReads
  <2>3. QED BY <1>3, <2>1, <2>2
<1>7. CASE k = "use"
  <2>1. key \notin {"headers", "query", "body"}
    BY <1>1, <1>3, <1>7 DEF Misplaced, CallOnly
  <2>2. key \notin {"extract", "assert", "throttle"}
    BY <1>1, <1>2, <1>7 DEF ChecksOK
  <2>3. KeyReads(s) = {"with", "on_failure"}
    BY <1>1, <1>7 DEF KeyReads
  <2>4. QED BY <1>3, <2>1, <2>2, <2>3
<1>8. CASE k \in {"wait", "poll"}
  <2>1. key \notin {"headers", "query", "body", "with"}
    BY <1>1, <1>3, <1>8 DEF Misplaced, CallOnly
  <2>2. {"extract", "assert", "throttle", "on_failure"} \subseteq Unread(s)
    BY <1>1, <1>8 DEF Unread
  <2>3. QED BY <1>3, <2>1, <2>2
<1>9. QED BY <1>1, <1>4, <1>5, <1>6, <1>7, <1>8 DEF Kinds

(* And so of the keys of its own mapping. *)
LEMMA SpecIsRead ==
  ASSUME NEW s, s.kinds = {Kind(s)}, Kind(s) \in Kinds, DOMAIN s.spec \subseteq SpecKeys[Kind(s)]
  PROVE  DOMAIN s.spec \subseteq SpecReads(s) \cup Unread(s)
<1>1. CASE s.kinds = {"poll"}
  <2>1. Kind(s) = "poll"
    BY <1>1
  <2>2. SpecKeys["poll"] = PollKeys
    BY DEF SpecKeys
  <2>3. QED BY <1>1, <2>1, <2>2 DEF Unread
<1>2. CASE s.kinds = {"wait"}
  <2>1. Kind(s) = "wait"
    BY <1>2
  <2>2. SpecKeys["wait"] = {"value"}
    BY DEF SpecKeys
  <2>3. QED BY <1>2, <2>1, <2>2 DEF SpecReads
<1>3. CASE s.kinds # {"poll"} /\ s.kinds # {"wait"}
  BY <1>3 DEF SpecReads, Unread
<1>4. QED BY <1>1, <1>2, <1>3

(* A step that says nothing of its own sends the flow's credentials if and *)
(* only if it makes a request.                                             *)
LEMMA DefaultGoes ==
  ASSUME NEW s, s.kinds = {Kind(s)}, Kind(s) \in Kinds, DOMAIN s.spec \subseteq SpecKeys[Kind(s)]
  PROVE  MakesRequest(s) <=> \/ s.kinds \cap {"call", "graphql", "grpc", "poll"} # {}
                             \/ "url" \in DOMAIN s.spec \/ "endpoint" \in DOMAIN s.spec
<1>1. PICK k \in Kinds : k = Kind(s)
  OBVIOUS
<1>2. CASE k \in {"call", "graphql", "grpc", "poll"}
  BY <1>1, <1>2 DEF MakesRequest
<1>3. CASE k = "ws"
  BY <1>1, <1>3 DEF MakesRequest, Opens
<1>4. CASE k \in {"wait", "use"}
  <2>1. SpecKeys["wait"] = {"value"} /\ SpecKeys["use"] = {"value"}
    BY DEF SpecKeys
  <2>2. "url" \notin DOMAIN s.spec /\ "endpoint" \notin DOMAIN s.spec
    BY <1>1, <1>4, <2>1
  <2>3. QED BY <1>1, <1>4, <2>2 DEF MakesRequest
<1>5. QED BY <1>1, <1>2, <1>3, <1>4 DEF Kinds

(* Whatever a flow file says, what is accepted is read when it runs, the   *)
(* known cases apart, and credentials go where their author put them (the  *)
(* walker with flattenAuth, Scenario.Validate, runStep, Provider.Apply).   *)
THEOREM FilesRead == FileSpec => []ReadAsWritten
<1>1. FileInv => NothingIsSilent
  <2>1. SUFFICES ASSUME FileInv, accepted = "accepted" PROVE NothingIsSilent
    BY DEF NothingIsSilent
  <2>2. /\ step.kinds = {Kind(step)} /\ Kind(step) \in Kinds
        /\ DOMAIN step.spec \subseteq SpecKeys[Kind(step)]
        /\ step.also \subseteq StepKeys /\ ("with" \in step.also => step.kinds = {"use"})
        /\ step.also \cap Misplaced(step) = {}
        /\ (step.retry # Absent => DOMAIN step.retry \subseteq RetryKeys)
        /\ ChecksOK(step) /\ RetryOK(step) /\ AuthOK(step)
        /\ written.profile.keys \subseteq ProfileKeys
    BY <2>1, Came
  <2>3. DOMAIN step.spec \subseteq SpecReads(step) \cup Unread(step)
    BY <2>2, SpecIsRead
  <2>4. step.also \subseteq KeyReads(step) \cup Unread(step)
    BY <2>2, KeysAreRead
  <2>5. step.retry # Absent => DOMAIN step.retry \subseteq RetryReads(step)
    BY <2>2 DEF RetryOK, RetryReads
  <2>6. step.auth # Absent => DOMAIN step.auth \subseteq AuthReads(step) \cup {"key_id_header"}
    BY <2>2 DEF AuthOK, AuthReads
  <2>7. written.profile.keys \subseteq ProfileReads \cup {"iterations"}
    BY <2>2 DEF ProfileKeys, ProfileReads
  <2>8. QED BY <2>3, <2>4, <2>5, <2>6, <2>7 DEF NothingIsSilent
<1>2. FileInv => CredentialsAsWritten
  <2>1. SUFFICES ASSUME FileInv, accepted = "accepted" PROVE CredentialsAsWritten
    BY DEF CredentialsAsWritten
  <2>2. PICK s : s = written.step
    OBVIOUS
  <2>3. /\ step.kinds = {Kind(step)} /\ Kind(step) \in Kinds
        /\ DOMAIN step.spec \subseteq SpecKeys[Kind(step)]
        /\ step.kinds = s.kinds /\ step.spec = s.spec
        /\ step.auth = LET own == IF s.auth = Absent /\ MakesRequest(s) THEN written.auth ELSE s.auth
                       IN  IF OptsOut(own) THEN Absent ELSE own
    BY <2>1, <2>2, Came
  <2>4. MakesRequest(s) <=> MakesRequest(step)
    BY <2>3 DEF MakesRequest, Opens
  <2>5. MakesRequest(step) <=> \/ step.kinds \cap {"call", "graphql", "grpc", "poll"} # {}
                               \/ "url" \in DOMAIN step.spec \/ "endpoint" \in DOMAIN step.spec
    BY <2>3, DefaultGoes
  <2>6. OptsOut(s.auth) => step.auth = Absent
    BY <2>3 DEF OptsOut
  <2>7. s.auth # Absent /\ ~ OptsOut(s.auth) => step.auth = s.auth
    BY <2>3
  <2>8. s.auth = Absent /\ written.auth # Absent /\ ~ OptsOut(written.auth) =>
          (step.auth = written.auth <=> MakesRequest(s))
    BY <2>3
  <2>9. QED BY <2>2, <2>4, <2>5, <2>6, <2>7, <2>8 DEF CredentialsAsWritten
<1>3. QED BY <1>1, <1>2, FileStart, FileStep, PTL DEF FileSpec, ReadAsWritten

-------------------------------------------------------------------------------
(* The allow-list (TargetGate). *)

LEMMA GateStart ==
  ASSUME GateInit
  PROVE  GateInv
<1>1. base \in Seq(URL) /\ base # <<>>
  BY GateAssumption DEF GateInit
<1>2. urls \in Seq(URL)
  <2>1. CASE urls \in {<<u>> : u \in URLs}
    <3>1. PICK u \in URL : urls = <<u>>
      BY <2>1, GateAssumption
    <3>2. QED BY <3>1
  <2>2. CASE urls \in {<<u, t>> : u \in URLs, t \in {x \in URLs : x.form = "absolute"}}
    <3>1. PICK u \in URL, t \in URL : urls = <<u, t>>
      BY <2>2, GateAssumption
    <3>2. QED BY <3>1
  <2>3. QED BY <2>1, <2>2 DEF GateInit
<1>3. QED BY <1>1, <1>2 DEF GateInit, GateInv

(* Allows passes only what resolveURL takes to a listed origin. *)
LEMMA AllowedIsListed ==
  ASSUME NEW u, base \in Seq(URL), base # <<>>, Allows(u)
  PROVE  Reached(u) \in Origins
<1>1. 1 \in DOMAIN base
  BY LenProperties, EmptySeq
<1>2. Origin(base[1].scheme, base[1].host) \in Origins
  BY <1>1 DEF Origins
<1>3. QED BY <1>2 DEF Reached, Allows

(* A URL without a template in its host or scheme expands to itself there, *)
(* and Check has seen it.                                                  *)
LEMMA CheckedIsAllowed ==
  ASSUME NEW i \in DOMAIN urls, NEW u, u \in Expansions(urls[i]), urls \in Seq(URL), Check,
         ~ urls[i].dynamicHost, ~ urls[i].dynamicScheme
  PROVE  Allows(u)
<1>1. urls[i] \in URL
  BY LenProperties
<1>2. /\ u.form = urls[i].form
      /\ u.scheme = urls[i].scheme /\ u.host = urls[i].host
  <2>1. u \in {[urls[i] EXCEPT !.scheme = s, !.host = h] :
                  s \in {urls[i].scheme}, h \in {urls[i].host}}
    BY DEF Expansions
  <2>2. PICK v \in URL : v = urls[i]
    BY <1>1
  <2>3. u = [v EXCEPT !.scheme = v.scheme, !.host = v.host]
    BY <2>1, <2>2
  <2>4. u.form = v.form /\ u.scheme = v.scheme /\ u.host = v.host
    BY <2>3 DEF URL
  <2>5. QED BY <2>2, <2>4
<1>3. Static(urls[i]) => Origin(urls[i].scheme, urls[i].host) \in Origins
  BY DEF Check
<1>4. QED BY <1>2, <1>3 DEF Static, Allows

LEMMA GateStep ==
  ASSUME GateInv, [GateNext]_gateVars
  PROVE  GateInv'
<1> USE DEF GateInv
<1>1. CASE CheckTarget
  <2>1. Origins' = Origins /\ (Check' <=> Check)
    BY <1>1 DEF CheckTarget, Origins, Check
  <2>2. CASE Check /\ gateMode \notin banned
    BY <1>1, <2>1, <2>2 DEF CheckTarget
  <2>3. CASE ~ (Check /\ gateMode \notin banned)
    BY <1>1, <2>1, <2>3 DEF CheckTarget
  <2>4. QED BY <2>2, <2>3
<1>2. CASE SendRequest
  <2>1. Origins' = Origins /\ (Check' <=> Check)
    BY <1>2 DEF SendRequest, Origins, Check
  <2>2. PICK i \in DOMAIN urls : \E u \in Expansions(urls[i]) :
          IF Allows(u) THEN sent' = sent \cup {Reached(u)} /\ UNCHANGED gate
          ELSE gate' = "blocked" /\ UNCHANGED sent
    BY <1>2 DEF SendRequest
  <2>3. PICK u \in Expansions(urls[i]) :
          IF Allows(u) THEN sent' = sent \cup {Reached(u)} /\ UNCHANGED gate
          ELSE gate' = "blocked" /\ UNCHANGED sent
    BY <2>2
  <2>4. gate = "running" /\ UNCHANGED <<base, banned, gateMode, urls>>
    BY <1>2 DEF SendRequest
  <2>5. CASE Allows(u)
    <3>1. sent' \subseteq Origins'
      BY <2>1, <2>3, <2>5, AllowedIsListed
    <3>2. QED BY <2>1, <2>3, <2>4, <2>5, <3>1
  <2>6. CASE ~ Allows(u)
    <3>1. urls[i].dynamicHost \/ urls[i].dynamicScheme
      BY <2>3, <2>4, <2>6, CheckedIsAllowed
    <3>2. QED BY <2>1, <2>3, <2>4, <2>6, <3>1
  <2>7. QED BY <2>5, <2>6
<1>3. CASE UNCHANGED gateVars
  <2>1. UNCHANGED <<base, banned, gateMode, urls, gate, sent>>
    BY <1>3 DEF gateVars
  <2>2. Origins' = Origins /\ (Check' <=> Check)
    BY <2>1 DEF Origins, Check
  <2>3. QED BY <2>1, <2>2
<1>4. QED BY <1>1, <1>2, <1>3 DEF GateNext

(* The origin of a URL of the protocols there are is its host and whether  *)
(* it is secure.                                                           *)
LEMMA OriginOf ==
  ASSUME NEW s, NEW t, NEW h, NEW g, {CaseFolded(s), CaseFolded(t)} \subseteq Protocols,
         Secure(s) = Secure(t), CaseFolded(h) = CaseFolded(g)
  PROVE  Origin(s, h) = Origin(t, g)
<1>1. PICK x \in Protocols : x = CaseFolded(s)
  OBVIOUS
<1>2. PICK y \in Protocols : y = CaseFolded(t)
  OBVIOUS
<1>3. x \in {"https", "wss", "grpcs"} <=> y \in {"https", "wss", "grpcs"}
  BY <1>1, <1>2 DEF Secure
<1>4. QED BY <1>1, <1>2, <1>3 DEF Origin, Protocols

(* Whatever the target and the URLs: nothing is sent off the allow-list or *)
(* in a disallowed mode, what the gate lets through is blocked only for a  *)
(* template in a host or scheme, and a refusal has its reason (Check,      *)
(* Allows, origin).                                                        *)
THEOREM GatesSound == GateSpec => []GatesAgree
<1>1. GateInit => GateInv
  BY GateStart
<1>2. GateInv /\ [GateNext]_gateVars => GateInv'
  BY GateStep
<1>3. GateInv => GatesAgree
  <2>1. SUFFICES ASSUME GateInv PROVE GatesAgree
    OBVIOUS
  <2>2. /\ sent \subseteq Origins
        /\ gateMode \in banned => sent = {} /\ gate # "blocked"
        /\ gate = "blocked" => \E i \in DOMAIN urls : urls[i].dynamicHost \/ urls[i].dynamicScheme
    BY <2>1 DEF GateInv
  <2>3. ASSUME gate = "refused", gateMode \notin banned
        PROVE  \E i \in DOMAIN urls :
                 /\ Static(urls[i])
                 /\ \A j \in DOMAIN base :
                      \/ {CaseFolded(urls[i].scheme), CaseFolded(base[j].scheme)} \ Protocols # {}
                      \/ CaseFolded(base[j].host) # CaseFolded(urls[i].host)
                      \/ Secure(base[j].scheme) # Secure(urls[i].scheme)
    <3>1. PICK i \in DOMAIN urls : Static(urls[i]) /\ Origin(urls[i].scheme, urls[i].host) \notin Origins
      BY <2>1, <2>3 DEF GateInv, Check
    <3>2. \A j \in DOMAIN base :
            Origin(base[j].scheme, base[j].host) # Origin(urls[i].scheme, urls[i].host)
      BY <3>1 DEF Origins
    <3>3. ASSUME NEW j \in DOMAIN base,
                 {CaseFolded(urls[i].scheme), CaseFolded(base[j].scheme)} \ Protocols = {},
                 CaseFolded(base[j].host) = CaseFolded(urls[i].host),
                 Secure(base[j].scheme) = Secure(urls[i].scheme)
          PROVE  FALSE
      <4>1. {CaseFolded(base[j].scheme), CaseFolded(urls[i].scheme)} \subseteq Protocols
        BY <3>3
      <4>2. QED BY <3>2, <3>3, <4>1, OriginOf
    <3>4. QED BY <3>1, <3>3
  <2>4. QED BY <2>2, <2>3 DEF GatesAgree
<1>4. QED BY <1>1, <1>2, <1>3, PTL DEF GateSpec

-------------------------------------------------------------------------------
(* The plan (Planner): the arithmetic of the curve. *)

LEMMA Division ==
  ASSUME NEW a \in Nat, NEW b \in Nat \ {0}
  PROVE  a \div b \in Nat /\ b * (a \div b) <= a /\ a < b * ((a \div b) + 1)
<1>1. a = b * (a \div b) + (a % b) /\ a % b \in 0 .. b - 1 /\ a \div b \in Nat
  OBVIOUS
<1> DEFINE q == a \div b
           r == a % b
<1>2. a = b * q + r /\ r \in 0 .. b - 1 /\ q \in Nat
  BY <1>1
<1> HIDE DEF q, r
<1>3. b * (q + 1) = b * q + b
  BY <1>2
<1>4. b * q \in Nat
  BY <1>2
<1>5. q \in Nat /\ b * q <= a /\ a < b * (q + 1)
  BY <1>2, <1>3, <1>4
<1>6. QED BY <1>5 DEF q

(* How far up its n virtual users a ramp of d ticks is after t of them.    *)
Steps(n, d, t) == Truncated(2 * t * n + d, 2 * d)

LEMMA StepsAre ==
  ASSUME NEW n \in Nat, NEW d \in Nat \ {0}, NEW t \in Nat
  PROVE  /\ Steps(n, d, t) \in Nat
         /\ 2 * (d * Steps(n, d, t)) <= 2 * (t * n) + d
         /\ 2 * (t * n) < 2 * (d * Steps(n, d, t)) + d
<1> DEFINE q == (2 * t * n + d) \div (2 * d)
<1>1. PICK x \in Nat : x = t * n
  OBVIOUS
<1>2. 2 * t * n = 2 * x
  BY <1>1
<1>3. Steps(n, d, t) = q
  BY <1>2 DEF Steps, Truncated
<1>4. q \in Nat /\ (2 * d) * q <= 2 * x + d /\ 2 * x + d < (2 * d) * (q + 1)
  <2>1. PICK a \in Nat, b \in Nat \ {0} : a = 2 * x + d /\ b = 2 * d
    OBVIOUS
  <2>2. q = a \div b
    BY <1>2, <2>1
  <2>3. a \div b \in Nat /\ b * (a \div b) <= a /\ a < b * ((a \div b) + 1)
    BY Division
  <2> HIDE DEF q
  <2>4. q \in Nat /\ b * q <= a /\ a < b * (q + 1)
    BY <2>2, <2>3
  <2>5. QED BY <2>1, <2>4
<1> HIDE DEF q
<1>5. PICK y \in Nat : y = d * q
  BY <1>4
<1>6. (2 * d) * q = 2 * y /\ (2 * d) * (q + 1) = 2 * y + 2 * d
  BY <1>4, <1>5
<1>7. 2 * y <= 2 * x + d /\ 2 * x < 2 * y + d
  BY <1>4, <1>6
<1>8. QED BY <1>1, <1>3, <1>4, <1>5, <1>7

(* The steps of a longer product are more, by more than the rounding. *)
LEMMA Monotone ==
  ASSUME NEW d \in Nat \ {0}, NEW p \in Nat, NEW q \in Nat, NEW x \in Nat, NEW y \in Nat,
         x <= y, 2 * (d * p) <= 2 * x + d, 2 * y < 2 * (d * q) + d
  PROVE  p <= q
<1>1. SUFFICES ASSUME p >= q + 1 PROVE FALSE
  OBVIOUS
<1>2. PICK u \in Nat : u = d * p
  OBVIOUS
<1>3. PICK v \in Nat : v = d * q
  OBVIOUS
<1>4. d * p >= d * (q + 1)
  BY <1>1
<1>5. d * (q + 1) = d * q + d
  OBVIOUS
<1>6. u >= v + d
  BY <1>2, <1>3, <1>4, <1>5
<1>7. 2 * u <= 2 * x + d /\ 2 * y < 2 * v + d
  BY <1>2, <1>3
<1>8. QED BY <1>6, <1>7

LEMMA StepsRise ==
  ASSUME NEW n \in Nat, NEW d \in Nat \ {0}, NEW t \in Nat
  PROVE  /\ Steps(n, d, t) <= Steps(n, d, t + 1)
         /\ t <= d => Steps(n, d, t) <= n
<1>1. PICK p \in Nat : /\ p = Steps(n, d, t)
                       /\ 2 * (d * p) <= 2 * (t * n) + d
  BY StepsAre
<1>2. PICK q \in Nat : /\ q = Steps(n, d, t + 1)
                       /\ 2 * ((t + 1) * n) < 2 * (d * q) + d
  <2>1. t + 1 \in Nat
    OBVIOUS
  <2>2. QED BY <2>1, StepsAre
<1>3. PICK x \in Nat, y \in Nat, z \in Nat : x = t * n /\ y = (t + 1) * n /\ z = d * n
  OBVIOUS
<1>4. x <= y
  <2>1. (t + 1) * n = t * n + n
    OBVIOUS
  <2>2. QED BY <1>3, <2>1
<1>5. p <= q
  BY <1>1, <1>2, <1>3, <1>4, Monotone
<1>6. ASSUME t <= d PROVE p <= n
  <2>1. t * n <= d * n
    BY <1>6
  <2>2. 2 * z < 2 * (d * n) + d
    BY <1>3
  <2>3. QED BY <1>1, <1>3, <2>1, <2>2, Monotone
<1>7. QED BY <1>1, <1>2, <1>5, <1>6

(* A hold is flat. *)
LEMMA HoldIsFlat ==
  ASSUME NEW v \in Nat, NEW d \in Nat \ {0}, NEW t \in Nat
  PROVE  Interpolated(HoldSegment(v, d), t) = v
<1>1. Interpolated(HoldSegment(v, d), t) = v + Steps(v - v, d, t)
  BY DEF Interpolated, HoldSegment, Steps
<1>2. v - v = 0
  OBVIOUS
<1>3. Steps(0, d, t) = 0
  <2>1. 2 * t * 0 = 0
    OBVIOUS
  <2>2. Steps(0, d, t) = Truncated(d, 2 * d)
    BY <2>1 DEF Steps
  <2>3. PICK q : q = d \div (2 * d)
    OBVIOUS
  <2>4. q \in Nat /\ (2 * d) * q <= d
    BY <2>3, Division
  <2>5. q = 0
    <3>1. SUFFICES ASSUME q >= 1 PROVE FALSE
      BY <2>4
    <3>2. (2 * d) * q >= 2 * d
      BY <2>4, <3>1
    <3>3. QED BY <2>4, <3>2
  <2>6. QED BY <2>2, <2>3, <2>5 DEF Truncated
<1>4. QED BY <1>1, <1>2, <1>3

-------------------------------------------------------------------------------
(* The curve of a plan. *)

(* The recursion of Ends, for whoever knows a function that satisfies it. *)
LEMMA EndsUnfold ==
  ASSUME NEW segs, NEW g,
         g = [i \in 0 .. Len(segs) |-> IF i = 0 THEN 0 ELSE g[i - 1] + segs[i].duration]
  PROVE  Ends(segs) = [i \in 0 .. Len(segs) |->
                         IF i = 0 THEN 0 ELSE Ends(segs)[i - 1] + segs[i].duration]
<1> DEFINE P(e) == e = [i \in 0 .. Len(segs) |-> IF i = 0 THEN 0 ELSE e[i - 1] + segs[i].duration]
<1>1. \E e : P(e)
  OBVIOUS
<1>2. Ends(segs) = CHOOSE e : P(e)
  BY DEF Ends
<1> HIDE DEF P
<1>3. P(Ends(segs))
  BY <1>1, <1>2
<1>4. QED BY <1>3 DEF P

(* The concatenation of two sequences of one element each. *)
LEMMA PairOf ==
  ASSUME NEW a, NEW b
  PROVE  <<a>> \o <<b>> = <<a, b>>
<1> DEFINE x == <<a>>
           y == <<b>>
           z == <<a, b>>
<1>1. Len(x) = 1 /\ Len(y) = 1 /\ x[1] = a /\ y[1] = b /\ Len(z) = 2 /\ z[1] = a /\ z[2] = b
  OBVIOUS
<1>2. x \in Seq({a, b}) /\ y \in Seq({a, b}) /\ z \in Seq({a, b})
  OBVIOUS
<1> HIDE DEF x, y, z
<1>3. /\ x \o y \in Seq({a, b}) /\ Len(x \o y) = Len(x) + Len(y)
      /\ \A i \in 1 .. Len(x) + Len(y) : (x \o y)[i] = IF i <= Len(x) THEN x[i] ELSE y[i - Len(x)]
  BY <1>2, ConcatProperties
<1>4. Len(x \o y) = 2 /\ (x \o y)[1] = a /\ (x \o y)[2] = b
  BY <1>1, <1>3
<1>5. x \o y = z
  BY <1>1, <1>2, <1>3, <1>4, SeqEqual
<1>6. QED BY <1>5 DEF x, y, z

LEMMA EndsOfOne ==
  ASSUME NEW segs, Len(segs) = 1, segs[1].duration \in Nat
  PROVE  Ends(segs)[0] = 0 /\ Ends(segs)[1] = segs[1].duration
<1> DEFINE g == [i \in 0 .. 1 |-> IF i = 0 THEN 0 ELSE segs[1].duration]
<1>1. g = [i \in 0 .. 1 |-> IF i = 0 THEN 0 ELSE g[i - 1] + segs[i].duration]
  OBVIOUS
<1> HIDE DEF g
<1>2. Ends(segs) = [i \in 0 .. 1 |-> IF i = 0 THEN 0 ELSE Ends(segs)[i - 1] + segs[i].duration]
  <2>1. g = [i \in 0 .. Len(segs) |-> IF i = 0 THEN 0 ELSE g[i - 1] + segs[i].duration]
    BY <1>1
  <2>2. Ends(segs) = [i \in 0 .. Len(segs) |->
                        IF i = 0 THEN 0 ELSE Ends(segs)[i - 1] + segs[i].duration]
    BY ZenonT(30), <2>1, EndsUnfold
  <2>3. Len(segs) = 1
    OBVIOUS
  <2>4. QED BY <2>2, <2>3
<1> DEFINE e == Ends(segs)
<1>3. e = [i \in 0 .. 1 |-> IF i = 0 THEN 0 ELSE e[i - 1] + segs[i].duration]
  BY <1>2
<1> HIDE DEF e
<1>4. e[0] = 0 /\ e[1] = segs[1].duration
  BY <1>3
<1>5. QED BY <1>4 DEF e

LEMMA EndsOfTwo ==
  ASSUME NEW segs, Len(segs) = 2, segs[1].duration \in Nat, segs[2].duration \in Nat
  PROVE  /\ Ends(segs)[0] = 0 /\ Ends(segs)[1] = segs[1].duration
         /\ Ends(segs)[2] = segs[1].duration + segs[2].duration
<1> DEFINE g == [i \in 0 .. 2 |-> IF i = 0 THEN 0 ELSE IF i = 1 THEN segs[1].duration
                                  ELSE segs[1].duration + segs[2].duration]
<1>1. g = [i \in 0 .. 2 |-> IF i = 0 THEN 0 ELSE g[i - 1] + segs[i].duration]
  <2>1. \A i \in 0 .. 2 : i = 0 \/ i = 1 \/ i = 2
    OBVIOUS
  <2>2. \A i \in 0 .. 2 : g[i] = IF i = 0 THEN 0 ELSE g[i - 1] + segs[i].duration
    BY <2>1
  <2>3. QED BY <2>2
<1> HIDE DEF g
<1>2. Ends(segs) = [i \in 0 .. 2 |-> IF i = 0 THEN 0 ELSE Ends(segs)[i - 1] + segs[i].duration]
  <2>1. g = [i \in 0 .. Len(segs) |-> IF i = 0 THEN 0 ELSE g[i - 1] + segs[i].duration]
    BY <1>1
  <2>2. Ends(segs) = [i \in 0 .. Len(segs) |->
                        IF i = 0 THEN 0 ELSE Ends(segs)[i - 1] + segs[i].duration]
    BY ZenonT(30), <2>1, EndsUnfold
  <2>3. 0 .. Len(segs) = 0 .. 2
    OBVIOUS
  <2>4. QED BY <2>2, <2>3
<1> DEFINE e == Ends(segs)
<1>3. e = [i \in 0 .. 2 |-> IF i = 0 THEN 0 ELSE e[i - 1] + segs[i].duration]
  BY <1>2
<1> HIDE DEF e
<1>4. e[0] = 0 /\ e[1] = segs[1].duration
  BY <1>3
<1>5. e[2] = segs[1].duration + segs[2].duration
  BY <1>3, <1>4
<1>6. QED BY <1>4, <1>5 DEF e

(* The first segment that is still ahead is the one the curve is in. *)
LEMMA CurveWithin ==
  ASSUME NEW segs, NEW at, NEW i \in DOMAIN segs, DOMAIN segs \subseteq Nat, segs # <<>>,
         segs[i].duration > 0, at < Ends(segs)[i],
         \A j \in DOMAIN segs : j < i => ~ (segs[j].duration > 0 /\ at < Ends(segs)[j])
  PROVE  CurveAt(segs, at) = Interpolated(segs[i], at - Ends(segs)[i - 1])
<1> DEFINE ahead == {j \in DOMAIN segs : segs[j].duration > 0 /\ at < Ends(segs)[j]}
<1>1. i \in ahead /\ \A j \in ahead : i <= j
  OBVIOUS
<1>2. \A k \in ahead : (\A j \in ahead : k <= j) => k = i
  BY <1>1
<1>3. (CHOOSE k \in ahead : \A j \in ahead : k <= j) = i
  BY <1>1, <1>2
<1>4. ahead # {}
  BY <1>1
<1> DEFINE k == CHOOSE l \in ahead : \A j \in ahead : l <= j
<1>5. k = i
  BY <1>3
<1>6. CurveAt(segs, at) = CASE segs = <<>> -> 0
        [] segs # <<>> /\ ahead # {} -> Interpolated(segs[k], at - Ends(segs)[k - 1])
        [] OTHER -> segs[Len(segs)].end
  BY DEF CurveAt
<1> HIDE DEF ahead, k
<1>7. QED BY <1>4, <1>5, <1>6

LEMMA CurveBeyond ==
  ASSUME NEW segs, NEW at, segs # <<>>,
         \A j \in DOMAIN segs : ~ (segs[j].duration > 0 /\ at < Ends(segs)[j])
  PROVE  CurveAt(segs, at) = segs[Len(segs)].end
<1> DEFINE ahead == {j \in DOMAIN segs : segs[j].duration > 0 /\ at < Ends(segs)[j]}
<1>1. ahead = {}
  OBVIOUS
<1> DEFINE k == CHOOSE l \in ahead : \A j \in ahead : l <= j
<1>2. CurveAt(segs, at) = CASE segs = <<>> -> 0
        [] segs # <<>> /\ ahead # {} -> Interpolated(segs[k], at - Ends(segs)[k - 1])
        [] OTHER -> segs[Len(segs)].end
  BY DEF CurveAt
<1> HIDE DEF ahead, k
<1>3. QED BY <1>1, <1>2

(* A profile whose ramp, if any, is one, and that lasts. *)
Sustainable(p) ==
  /\ p.vus \in Nat /\ p.hold \in Nat
  /\ p.ramp # Unset => /\ p.ramp \in [from : Int, to : Int, over : Int]
                       /\ p.ramp.from \in Nat /\ p.ramp.over \in Nat \ {0}
  /\ p.ramp = Unset => p.hold > 0
  /\ PeakOf(p) \in Nat \ {0}

(* What planSustained draws: the ramp, and the peak from there on. *)
Drawn(p, at) ==
  IF p.ramp # Unset /\ at < p.ramp.over THEN Interpolated(RampSegment(p.ramp), at) ELSE PeakOf(p)

DrawnFor(p) == (IF p.ramp = Unset THEN 0 ELSE p.ramp.over) + p.hold

LEMMA CurveIs ==
  ASSUME NEW p, Sustainable(p)
  PROVE  /\ SegmentsOf(p) # <<>>
         /\ Total(SegmentsOf(p)) = DrawnFor(p)
         /\ \A at \in Nat : CurveAt(SegmentsOf(p), at) = Drawn(p, at)
<1> DEFINE segs == SegmentsOf(p)
           hold == HoldSegment(PeakOf(p), p.hold)
           ramp == RampSegment(p.ramp)
<1>1. /\ hold.duration = p.hold /\ hold.end = PeakOf(p) /\ p.hold \in Nat /\ PeakOf(p) \in Nat
      /\ ramp.duration = p.ramp.over /\ ramp.end = p.ramp.to
  BY DEF Sustainable, HoldSegment, RampSegment
<1>2. p.ramp # Unset => PeakOf(p) = ramp.end /\ ramp.duration \in Nat \ {0}
  BY <1>1 DEF PeakOf, Sustainable
<1>3. p.hold > 0 => \A t \in Nat : Interpolated(hold, t) = PeakOf(p)
  BY <1>1, HoldIsFlat
<1>4. CASE p.ramp = Unset
  <2>1. segs = <<hold>> /\ p.hold > 0
    BY <1>4 DEF SegmentsOf, RampOf, Sustainable
  <2> HIDE DEF segs, hold, ramp
  <2>2. Len(segs) = 1 /\ segs[1] = hold /\ DOMAIN segs = {1} /\ segs # <<>>
    BY <2>1
  <2>3. Ends(segs)[0] = 0 /\ Ends(segs)[1] = p.hold
    BY <1>1, <2>2, EndsOfOne
  <2>4. ASSUME NEW at \in Nat PROVE CurveAt(segs, at) = PeakOf(p)
    <3>1. CASE at < p.hold
      <4>1. CurveAt(segs, at) = Interpolated(segs[1], at - Ends(segs)[1 - 1])
        BY <1>1, <2>1, <2>2, <2>3, <3>1, CurveWithin
      <4>2. at - Ends(segs)[1 - 1] = at
        BY <2>3
      <4>3. QED BY <1>3, <2>1, <2>2, <4>1, <4>2
    <3>2. CASE ~ (at < p.hold)
      BY <1>1, <2>2, <2>3, <3>2, CurveBeyond
    <3>3. QED BY <3>1, <3>2
  <2>5. Total(segs) = p.hold
    BY <2>2, <2>3 DEF Total
  <2>6. segs # <<>> /\ Total(segs) = DrawnFor(p) /\ \A at \in Nat : CurveAt(segs, at) = Drawn(p, at)
    BY <1>1, <1>4, <2>2, <2>4, <2>5 DEF Drawn, DrawnFor
  <2>7. QED BY <2>6 DEF segs
<1>5. CASE p.ramp # Unset /\ p.hold = 0
  <2>1. segs = <<ramp>>
    BY <1>5 DEF SegmentsOf, RampOf
  <2> HIDE DEF segs, hold, ramp
  <2>2. Len(segs) = 1 /\ segs[1] = ramp /\ DOMAIN segs = {1} /\ segs # <<>>
    BY <2>1
  <2>3. Ends(segs)[0] = 0 /\ Ends(segs)[1] = ramp.duration /\ ramp.duration \in Nat \ {0}
    BY <1>2, <1>5, <2>2, EndsOfOne
  <2>4. ASSUME NEW at \in Nat
        PROVE  CurveAt(segs, at) = IF at < ramp.duration THEN Interpolated(ramp, at) ELSE PeakOf(p)
    <3>1. CASE at < ramp.duration
      <4>1. CurveAt(segs, at) = Interpolated(segs[1], at - Ends(segs)[1 - 1])
        BY <2>2, <2>3, <3>1, CurveWithin
      <4>2. at - Ends(segs)[1 - 1] = at
        BY <2>3
      <4>3. QED BY <2>2, <3>1, <4>1, <4>2
    <3>2. CASE ~ (at < ramp.duration)
      BY <1>2, <1>5, <2>2, <2>3, <3>2, CurveBeyond
    <3>3. QED BY <3>1, <3>2
  <2>5. Total(segs) = ramp.duration
    BY <2>2, <2>3 DEF Total
  <2>6. segs # <<>> /\ Total(segs) = DrawnFor(p) /\ \A at \in Nat : CurveAt(segs, at) = Drawn(p, at)
    BY <1>1, <1>5, <2>2, <2>3, <2>4, <2>5 DEF Drawn, DrawnFor, ramp
  <2>7. QED BY <2>6 DEF segs
<1>6. CASE p.ramp # Unset /\ p.hold > 0
  <2>1. segs = <<ramp, hold>>
    <3>1. segs = <<ramp>> \o <<hold>>
      BY <1>6 DEF SegmentsOf, RampOf
    <3>2. QED BY <3>1, PairOf
  <2> HIDE DEF segs, hold, ramp
  <2>2. Len(segs) = 2 /\ segs[1] = ramp /\ segs[2] = hold /\ DOMAIN segs = {1, 2} /\ segs # <<>>
    BY <2>1
  <2> DEFINE d == ramp.duration
  <2>3. /\ Ends(segs)[0] = 0 /\ Ends(segs)[1] = d /\ Ends(segs)[2] = d + p.hold
        /\ d \in Nat \ {0}
    BY <1>1, <1>2, <1>6, <2>2, EndsOfTwo
  <2> HIDE DEF d
  <2>4. ASSUME NEW at \in Nat
        PROVE  CurveAt(segs, at) = IF at < d THEN Interpolated(ramp, at) ELSE PeakOf(p)
    <3>1. CASE at < d
      <4>1. CurveAt(segs, at) = Interpolated(segs[1], at - Ends(segs)[1 - 1])
        BY <2>2, <2>3, <3>1, CurveWithin DEF d
      <4>2. at - Ends(segs)[1 - 1] = at
        BY <2>3
      <4>3. QED BY <2>2, <3>1, <4>1, <4>2
    <3>2. CASE ~ (at < d) /\ at < d + p.hold
      <4>1. CurveAt(segs, at) = Interpolated(segs[2], at - Ends(segs)[2 - 1])
        BY <1>1, <1>6, <2>2, <2>3, <3>2, CurveWithin
      <4>2. at - Ends(segs)[2 - 1] = at - d /\ at - d \in Nat
        BY <2>3, <3>2
      <4>3. QED BY <1>3, <1>6, <2>2, <3>2, <4>1, <4>2
    <3>3. CASE ~ (at < d + p.hold)
      <4>1. ~ (at < d)
        BY <1>1, <2>3, <3>3
      <4>2. \A j \in DOMAIN segs : ~ (at < Ends(segs)[j])
        BY <2>2, <2>3, <3>3, <4>1
      <4>3. CurveAt(segs, at) = segs[Len(segs)].end
        BY <2>2, <4>2, CurveBeyond
      <4>4. QED BY <1>1, <2>2, <4>1, <4>3
    <3>4. QED BY <3>1, <3>2, <3>3
  <2>5. Total(segs) = d + p.hold
    BY <2>2, <2>3 DEF Total
  <2>6. segs # <<>> /\ Total(segs) = DrawnFor(p) /\ \A at \in Nat : CurveAt(segs, at) = Drawn(p, at)
    BY <1>1, <1>6, <2>2, <2>3, <2>4, <2>5 DEF Drawn, DrawnFor, ramp, d
  <2>7. QED BY <2>6 DEF segs
<1>7. QED BY <1>1, <1>4, <1>5, <1>6

(* What Plan lets pass is a single pass, or a curve over segments. *)
LEMMA PlanIs ==
  ASSUME NEW p \in Profiles, Plan(p) # Refused
  PROVE  \/ Plan(p) = PlanOnce(p) /\ PlanOnce(p).peak \in Nat \ {0}
         \/ /\ Sustainable(p) /\ Plan(p) = PlanSustained(p)
            /\ Plan(p).segments = SegmentsOf(p) /\ Plan(p).peak = PeakOf(p)
            /\ Plan(p).duration = DrawnFor(p) /\ Plan(p).stop # "once"
<1>1. /\ p.vus \in Nat /\ p.hold \in Nat
      /\ p.ramp \in [from : Int, to : Int, over : Int] \cup {Unset, Malformed}
  BY ProfileAssumption
<1>2. CASE p.mode \notin Sustained
  BY <1>1, <1>2 DEF Plan, PlanOnce
<1>3. CASE p.mode \in Sustained
  <2>1. /\ Plan(p) = PlanSustained(p)
        /\ ~ BadRamp(p.ramp) /\ SegmentsOf(p) # <<>> /\ ~ (PeakOf(p) <= 0)
    BY <1>3 DEF Plan, PlanSustained
  <2>2. ASSUME p.ramp # Unset
        PROVE  /\ p.ramp \in [from : Int, to : Int, over : Int]
               /\ p.ramp.from \in Nat /\ p.ramp.to \in Nat /\ p.ramp.over \in Nat \ {0}
    BY <1>1, <2>1, <2>2 DEF BadRamp
  <2>3. PeakOf(p) \in Nat \ {0}
    BY <1>1, <2>1, <2>2 DEF PeakOf
  <2>4. p.ramp = Unset => p.hold > 0
    BY <1>1, <2>1 DEF SegmentsOf, RampOf
  <2>5. Sustainable(p)
    BY <1>1, <2>2, <2>3, <2>4 DEF Sustainable
  <2>6. Total(SegmentsOf(p)) = DrawnFor(p)
    BY <2>5, CurveIs
  <2>7. PlanSustained(p) =
          [mode |-> p.mode, arrival |-> IF p.cap = Unset THEN "closed" ELSE "open",
           segments |-> SegmentsOf(p), stop |-> IF p.mode = "stress" THEN "thresholds" ELSE "duration",
           cap |-> p.cap, peak |-> PeakOf(p), duration |-> Total(SegmentsOf(p))]
    BY <2>1 DEF PlanSustained
  <2>8. QED BY <2>1, <2>5, <2>6, <2>7
<1>4. QED BY <1>2, <1>3

(* A ramp that does not go down: within half a virtual user of its line,   *)
(* never falling, and never above the peak.                                *)
LEMMA RampIs ==
  ASSUME NEW p, Sustainable(p), p.ramp # Unset, p.ramp.from <= p.ramp.to, NEW at \in Nat
  PROVE  /\ Interpolated(RampSegment(p.ramp), at)
              = p.ramp.from + Steps(p.ramp.to - p.ramp.from, p.ramp.over, at)
         /\ p.ramp.to - p.ramp.from \in Nat /\ p.ramp.over \in Nat \ {0}
         /\ p.ramp.from \in Nat /\ p.ramp.to \in Nat /\ PeakOf(p) = p.ramp.to
  BY DEF Sustainable, Interpolated, RampSegment, Steps, PeakOf

LEMMA DrawnRises ==
  ASSUME NEW p, Sustainable(p), p.ramp # Unset => p.ramp.from <= p.ramp.to, NEW at \in Nat
  PROVE  /\ Drawn(p, at) \in Nat /\ Drawn(p, at) <= PeakOf(p)
         /\ Drawn(p, at) <= Drawn(p, at + 1)
<1>1. PeakOf(p) \in Nat /\ at + 1 \in Nat
  BY DEF Sustainable
<1>2. CASE p.ramp = Unset
  BY <1>1, <1>2 DEF Drawn
<1>3. CASE p.ramp # Unset
  <2> DEFINE n == p.ramp.to - p.ramp.from
             d == p.ramp.over
             from == p.ramp.from
  <2>1. \A t \in Nat : Interpolated(RampSegment(p.ramp), t) = from + Steps(n, d, t)
    BY <1>3, RampIs
  <2>2. n \in Nat /\ d \in Nat \ {0} /\ from \in Nat /\ PeakOf(p) = from + n
    <3>1. PeakOf(p) = p.ramp.to /\ p.ramp.to \in Nat /\ from \in Nat /\ d \in Nat \ {0}
          /\ n \in Nat
      BY <1>1, <1>3, RampIs
    <3>2. QED BY <3>1
  <2>3. \A t \in Nat : Drawn(p, t) = IF t < d THEN from + Steps(n, d, t) ELSE from + n
    BY <1>3, <2>1, <2>2 DEF Drawn
  <2> HIDE DEF n, d, from
  <2>4. /\ Steps(n, d, at) \in Nat /\ Steps(n, d, at + 1) \in Nat
        /\ Steps(n, d, at) <= Steps(n, d, at + 1)
        /\ at <= d => Steps(n, d, at) <= n
    BY <1>1, <2>2, StepsAre, StepsRise
  <2>5. QED BY <1>1, <2>2, <2>3, <2>4
<1>4. QED BY <1>2, <1>3

LEMMA DrawnIsNear ==
  ASSUME NEW p, Sustainable(p), p.ramp # Unset, p.ramp.from <= p.ramp.to,
         NEW t \in Nat, t <= p.ramp.over
  PROVE  LET exact == t * (p.ramp.to - p.ramp.from)
             off   == (Drawn(p, t) - p.ramp.from) * p.ramp.over - exact
         IN  2 * off \in - p.ramp.over .. p.ramp.over
<1>1. PICK n \in Nat, d \in Nat \ {0}, from \in Nat :
        n = p.ramp.to - p.ramp.from /\ d = p.ramp.over /\ from = p.ramp.from
  BY RampIs
<1>2. PICK q \in Nat : q = Drawn(p, t) - from /\ (t < d => q = Steps(n, d, t)) /\ (t = d => q = n)
  <2>1. CASE t < d
    <3>1. Drawn(p, t) = from + Steps(n, d, t)
      BY <1>1, <2>1, RampIs DEF Drawn
    <3>2. Steps(n, d, t) \in Nat
      BY StepsAre
    <3>3. QED BY <2>1, <3>1, <3>2
  <2>2. CASE t = d
    <3>1. Drawn(p, t) = p.ramp.to /\ p.ramp.to \in Nat
      BY <1>1, <2>2, RampIs DEF Drawn
    <3>2. QED BY <1>1, <2>2, <3>1
  <2>3. QED BY <1>1, <2>1, <2>2
<1>3. 2 * (d * q) <= 2 * (t * n) + d /\ 2 * (t * n) <= 2 * (d * q) + d
  <2>1. PICK x \in Nat, y \in Nat : x = t * n /\ y = d * q
    OBVIOUS
  <2>2. CASE t < d
    <3>1. q = Steps(n, d, t)
      BY <1>2, <2>2
    <3>2. 2 * (d * q) <= 2 * (t * n) + d /\ 2 * (t * n) < 2 * (d * q) + d
      BY <3>1, StepsAre
    <3>3. 2 * y <= 2 * x + d /\ 2 * x < 2 * y + d
      BY <2>1, <3>2
    <3>4. 2 * x <= 2 * y + d
      BY <3>3
    <3>5. QED BY <2>1, <3>3, <3>4
  <2>3. CASE t = d
    <3>1. q = n
      BY <1>2, <2>3
    <3>2. x = y
      BY <2>1, <2>3, <3>1
    <3>3. 2 * y <= 2 * x + d /\ 2 * x <= 2 * y + d
      BY <3>2
    <3>4. QED BY <2>1, <3>3
  <2>4. t < d \/ t = d
    BY <1>1
  <2>5. QED BY <2>2, <2>3, <2>4
<1>4. PICK x \in Nat, y \in Nat : x = t * n /\ y = d * q
  OBVIOUS
<1>5. q * d = y
  BY <1>4
<1>6. 2 * (q * d - t * n) \in - d .. d
  BY <1>3, <1>4, <1>5
<1>7. QED BY <1>1, <1>2, <1>6

LEMMA TickIs ==
  ASSUME NEW total \in Nat \ {0}, NEW peak \in Nat \ {0}
  PROVE  LET tick == SpawnTick(total, peak)
         IN  /\ tick > 0 /\ tick <= MaxTick
             /\ tick > MinTick => tick * (2 * peak) < total
<1> USE ClockAssumption
<1>1. PICK b \in Nat \ {0} : b = 2 * peak + 1
  OBVIOUS
<1>2. PICK t : t = total \div b
  OBVIOUS
<1>3. t \in Nat /\ b * t <= total
  BY <1>2, Division
<1>4. PICK tick : tick = SpawnTick(total, peak)
  OBVIOUS
<1>5. tick = IF t < MinTick THEN MinTick ELSE IF t > MaxTick THEN MaxTick ELSE t
  BY <1>1, <1>2, <1>4 DEF SpawnTick
<1>6. tick \in Nat \ {0} /\ tick <= MaxTick /\ (tick > MinTick => tick <= t)
  BY <1>3, <1>5
<1>7. ASSUME tick <= t PROVE tick * (2 * peak) < total
  <2>1. b * t = t * (2 * peak) + t
    BY <1>1, <1>3
  <2>2. tick * (2 * peak) <= t * (2 * peak)
    BY <1>3, <1>6, <1>7
  <2>3. PICK x \in Nat, y \in Nat : x = tick * (2 * peak) /\ y = t * (2 * peak)
    BY <1>3, <1>6
  <2>4. x <= y /\ y + t <= total /\ t > 0
    BY <1>3, <1>6, <1>7, <2>1, <2>2, <2>3
  <2>5. QED BY <1>3, <2>3, <2>4
<1>8. QED BY <1>4, <1>6, <1>7

-------------------------------------------------------------------------------
(* The plan, the gate and the spawner. *)

LEMMA PlanStart ==
  ASSUME Init
  PROVE  PlanInv
BY DEF Init, PlanInv

(* The profile of a run that does not ramp down, as Sustainable says it.   *)
LEMMA UpIs ==
  ASSUME PlanInv, RampsUp, Sustainable(profile)
  PROVE  profile.ramp # Unset => profile.ramp.from <= profile.ramp.to
BY DEF RampsUp

LEMMA PlanStep ==
  ASSUME PlanInv, [Next]_vars
  PROVE  PlanInv'
<1> USE DEF PlanInv
<1>1. CASE PlanProfile
  <2>1. RampsUp' <=> RampsUp
    BY <1>1 DEF PlanProfile, RampsUp
  <2>2. CASE Plan(profile) = Refused
    BY <1>1, <2>1, <2>2 DEF PlanProfile
  <2>3. CASE Plan(profile) # Refused
    BY <1>1, <2>1, <2>3 DEF PlanProfile
  <2>4. QED BY <2>2, <2>3
<1>2. CASE Gate
  <2>1. RampsUp' <=> RampsUp
    BY <1>2 DEF Gate, RampsUp
  <2>2. /\ phase = "gating" /\ UNCHANGED <<profile, ceiling, sched, elapsed>>
        /\ sched = Plan(profile) /\ sched # Refused /\ spawned = 0
    BY <1>2 DEF Gate
  <2>3. CASE ~ WithinCeilings(sched, ceiling)
    BY <1>2, <2>1, <2>2, <2>3 DEF Gate
  <2>4. CASE WithinCeilings(sched, ceiling)
    <3>1. /\ phase' = "running"
          /\ spawned' = IF sched.arrival = "closed" /\ sched.stop # "once"
                          THEN CurveAt(sched.segments, 0) ELSE sched.peak
      BY <1>2, <2>4 DEF Gate
    <3>2. ceiling.vus > 0 => sched.peak <= ceiling.vus
      BY <2>4 DEF WithinCeilings
    <3>3. RampsUp => spawned' \in Nat /\ spawned' <= sched.peak
      <4>1. SUFFICES ASSUME RampsUp PROVE spawned' \in Nat /\ spawned' <= sched.peak
        OBVIOUS
      <4>2. sched.peak \in Nat
        BY <2>2, PlanIs DEF Sustainable
      <4>3. CASE spawned' = sched.peak
        BY <4>2, <4>3
      <4>4. CASE sched.stop # "once" /\ spawned' = CurveAt(sched.segments, 0)
        <5>1. /\ Sustainable(profile) /\ sched.segments = SegmentsOf(profile)
              /\ sched.peak = PeakOf(profile)
          BY <2>2, <4>4, PlanIs DEF PlanOnce
        <5>2. spawned' = Drawn(profile, 0)
          BY <4>4, <5>1, CurveIs
        <5>3. QED BY <4>1, <5>1, <5>2, UpIs, DrawnRises
      <4>5. QED BY <3>1, <4>3, <4>4
    <3>4. QED BY <2>1, <2>2, <3>1, <3>2, <3>3
  <2>5. QED BY <2>3, <2>4
<1>3. CASE SpawnerTick
  <2>1. RampsUp' <=> RampsUp
    BY <1>3 DEF SpawnerTick, RampsUp
  <2>2. /\ phase = "running" /\ UNCHANGED <<profile, ceiling, sched>>
        /\ sched = Plan(profile) /\ sched # Refused /\ elapsed < sched.duration
    BY <1>3 DEF SpawnerTick
  <2>3. sched.duration \in Nat
    BY <2>2, PlanIs DEF PlanOnce, Sustainable, DrawnFor
  <2>4. Sustainable(profile) /\ sched.segments = SegmentsOf(profile) /\ sched.peak = PeakOf(profile)
    BY <2>2, PlanIs DEF PlanOnce
  <2>5. PICK later \in (elapsed + 1) .. sched.duration :
          /\ elapsed' = later
          /\ IF later >= sched.duration
               THEN phase' = "over" /\ UNCHANGED spawned
               ELSE /\ spawned' = LET target == CurveAt(sched.segments, later)
                                  IN  IF spawned < target THEN target ELSE spawned
                    /\ UNCHANGED phase
    BY <1>3 DEF SpawnerTick
  <2>6. later \in Nat
    BY <2>3, <2>5
  <2>7. CASE later >= sched.duration
    BY <2>1, <2>2, <2>5, <2>6, <2>7
  <2>8. CASE ~ (later >= sched.duration)
    <3>1. PICK target : target = CurveAt(sched.segments, later)
      OBVIOUS
    <3>2. target = Drawn(profile, later)
      BY <2>4, <2>6, <3>1, CurveIs
    <3>3. spawned' = (IF spawned < target THEN target ELSE spawned) /\ phase' = phase
      BY <2>5, <2>8, <3>1
    <3>4. RampsUp => target \in Nat /\ target <= sched.peak
      BY <2>4, <2>6, <3>2, UpIs, DrawnRises
    <3>5. RampsUp => spawned' \in Nat /\ spawned' <= sched.peak
      BY <2>2, <3>3, <3>4
    <3>6. QED BY <2>1, <2>2, <2>5, <2>6, <3>3, <3>5
  <2>9. QED BY <2>7, <2>8
<1>4. CASE Stopped \/ UNCHANGED vars
  <2>1. UNCHANGED <<phase, profile, ceiling, sched, elapsed, spawned>>
    BY <1>4 DEF Stopped, vars
  <2>2. RampsUp' <=> RampsUp
    BY <2>1 DEF RampsUp
  <2>3. QED BY <2>1, <2>2
<1>5. QED BY <1>1, <1>2, <1>3, <1>4 DEF Next

(* What passed the gate is driven as it was drawn, whatever the profile,   *)
(* the target's ceilings and the clock: a profile that does not ramp down  *)
(* never has more virtual users than its peak and the ceiling allow, its   *)
(* curve follows the ramp to half a virtual user and never falls, and the  *)
(* spawner looks often enough (Plan, CheckCeilings, curveAt, spawnTick).   *)
THEOREM PlansDriven == Spec => []PlannerSound
<1>1. Init => PlanInv
  BY PlanStart
<1>2. PlanInv /\ [Next]_vars => PlanInv'
  BY PlanStep
<1>3. PlanInv => CeilingHoldsRampingUp
  <2>1. SUFFICES ASSUME PlanInv, RampsUp
                 PROVE  CeilingHolds /\ (phase = "running" => spawned <= sched.peak)
    BY DEF CeilingHoldsRampingUp
  <2>2. ceiling.vus \in Nat
    BY <2>1, ProfileAssumption DEF PlanInv
  <2>3. phase \in {"running", "over"} => sched.peak \in Nat
    BY <2>1, PlanIs DEF PlanInv, Sustainable
  <2>4. QED BY <2>1, <2>2, <2>3 DEF PlanInv, CeilingHolds
<1>4. PlanInv => CurveFollowsTheRamp /\ SpawnerKeepsUp
  <2>1. SUFFICES ASSUME PlanInv, Running PROVE CurveFollowsTheRamp /\ SpawnerKeepsUp
    BY DEF CurveFollowsTheRamp, SpawnerKeepsUp
  <2>2. /\ Sustainable(profile) /\ sched.segments = SegmentsOf(profile)
        /\ sched.peak = PeakOf(profile) /\ sched.duration = DrawnFor(profile)
    BY <2>1, PlanIs DEF PlanInv, Running, PlanOnce
  <2>3. PICK d \in Nat \ {0}, peak \in Nat \ {0} : d = sched.duration /\ peak = sched.peak
    BY <2>2 DEF Sustainable, DrawnFor
  <2>4. SpawnerKeepsUp
    BY <2>3, TickIs DEF SpawnerKeepsUp
  <2>5. \A t \in 0 .. d : Curve[t] = Drawn(profile, t)
    BY <2>2, <2>3, CurveIs DEF Curve
  <2>6. ASSUME RampsUp
        PROVE  /\ \A t \in 1 .. d : Curve[t - 1] <= Curve[t]
               /\ Curve[d] = peak
               /\ profile.ramp # Unset =>
                    \A t \in 0 .. profile.ramp.over :
                      LET exact == t * (profile.ramp.to - profile.ramp.from)
                          off   == (Curve[t] - profile.ramp.from) * profile.ramp.over - exact
                      IN  2 * off \in - profile.ramp.over .. profile.ramp.over
    <3>1. profile.ramp # Unset => profile.ramp.from <= profile.ramp.to
      BY <2>1, <2>2, <2>6, UpIs
    <3>2. ASSUME NEW t \in 1 .. d PROVE Curve[t - 1] <= Curve[t]
      <4>1. PICK s \in Nat : s = t - 1 /\ s \in 0 .. d /\ t = s + 1 /\ t \in 0 .. d
        BY <2>3
      <4>2. Drawn(profile, s) <= Drawn(profile, s + 1)
        BY <2>2, <3>1, DrawnRises
      <4>3. QED BY <2>5, <4>1, <4>2
    <3>3. Curve[d] = peak
      <4>1. Drawn(profile, d) = PeakOf(profile)
        BY <2>2, <2>3 DEF Drawn, DrawnFor, Sustainable
      <4>2. QED BY <2>2, <2>3, <2>5, <4>1
    <3>4. ASSUME profile.ramp # Unset, NEW t \in 0 .. profile.ramp.over
          PROVE  LET exact == t * (profile.ramp.to - profile.ramp.from)
                     off   == (Curve[t] - profile.ramp.from) * profile.ramp.over - exact
                 IN  2 * off \in - profile.ramp.over .. profile.ramp.over
      <4>1. profile.ramp.over \in Nat /\ t \in Nat /\ t <= profile.ramp.over /\ t \in 0 .. d
        BY <2>2, <2>3, <3>4 DEF Sustainable, DrawnFor
      <4>2. Curve[t] = Drawn(profile, t)
        BY <2>5, <4>1
      <4>3. QED BY <2>2, <3>1, <3>4, <4>1, <4>2, DrawnIsNear
    <3>5. QED BY <3>2, <3>3, <3>4
  <2>7. QED BY <2>3, <2>4, <2>6 DEF CurveFollowsTheRamp
<1>5. PlanInv => PlannerSound
  BY <1>3, <1>4 DEF PlannerSound
<1>6. QED BY <1>1, <1>2, <1>5, PTL DEF Spec

-------------------------------------------------------------------------------
(* References (References). *)

(* What the validator had seen of a frame's flow before the frame's next   *)
(* step, and that a name it knew has a value, or was missed.               *)
Told(frame) == Seen(frame.flow)[frame.next - 1]

Found(frame, root, rest) == <<root, rest>> \in frame.vars \/ root \in frame.missed

OwnVars(frame) ==
  LET own == frame.flow.steps IN
  \A v \in frame.vars :
    \/ v[1] = "inputs" /\ v[2] \in DOMAIN frame.flow.inputs
    \/ \E i \in 1 .. Len(own) : i =< frame.next /\ v[2] = "" /\ v[1] \in ToSet(own[i].extract)
    \/ \E i \in 1 .. Len(own) :
         /\ i < frame.next /\ own[i].id = v[1] /\ own[i].use # NoFlow
         /\ v[2] \in ToSet(own[i].use.outputs)

(* A frame of a run of f that has kept up with the validator.  The entry   *)
(* flow's inputs are nobody's to fill.                                     *)
KeptUp(f, frame, entry) ==
  /\ frame = [flow |-> frame.flow, next |-> frame.next, vars |-> frame.vars, missed |-> frame.missed]
  /\ frame.flow \in Within(f) /\ frame.next \in 1 .. Len(frame.flow.steps) + 1
  /\ \A v \in Told(frame).extracted : Found(frame, v, "")
  /\ \A root \in DOMAIN Told(frame).closed :
       \/ root = "inputs" /\ entry
       \/ \A o \in Told(frame).closed[root] : Found(frame, root, o)
  /\ OwnVars(frame)

(* A caller waits in the use step of the flow it uses. *)
Waits(caller, used) ==
  /\ caller.next \in DOMAIN caller.flow.steps
  /\ caller.flow.steps[caller.next].use # NoFlow
  /\ caller.flow.steps[caller.next].use = used.flow

RefInv ==
  /\ flow \in Flows
  /\ frames \in Seq(Range(frames))
  /\ frames # <<>> => FlowOK(flow)
  /\ \A k \in DOMAIN frames : KeptUp(flow, frames[k], k = 1)
  /\ \A k \in DOMAIN frames \ {1} : Waits(frames[k - 1], frames[k])
  /\ RefsResolve

(* The recursion of Seen: a function that satisfies it exists, one step    *)
(* longer at a time.                                                       *)
LEMMA SeenIs ==
  ASSUME NEW f, Len(f.steps) \in Nat
  PROVE  /\ Seen(f)[0] = Start(f)
         /\ \A i \in 1 .. Len(f.steps) : Seen(f)[i] = AddStep(Seen(f)[i - 1], f.steps[i])
<1> DEFINE n        == Len(f.steps)
           Next1(v, i) == AddStep(v, f.steps[i])
           P(e, m)  == e = [i \in 0 .. m |-> IF i = 0 THEN Start(f) ELSE Next1(e[i - 1], i)]
           Solved   == {m \in Nat : \E e : P(e, m)}
<1>1. 0 \in Solved
  <2>1. P([i \in 0 .. 0 |-> Start(f)], 0)
    <3> HIDE DEF Next1
    <3>1. QED
      OBVIOUS
  <2>2. QED BY <2>1
<1>2. \A m \in Nat : m \in Solved => m + 1 \in Solved
  <2>1. SUFFICES ASSUME NEW m \in Nat, m \in Solved PROVE \E e : P(e, m + 1)
    <3> HIDE DEF P
    <3>1. QED
      OBVIOUS
  <2>2. PICK e : P(e, m)
    BY <2>1
  <2> DEFINE h == [i \in 0 .. m + 1 |-> IF i = m + 1 THEN Next1(e[m], i) ELSE e[i]]
  <2> HIDE DEF Next1
  <2>3. \A i \in 0 .. m + 1 : h[i] = IF i = 0 THEN Start(f) ELSE Next1(h[i - 1], i)
    <3>1. TAKE i \in 0 .. m + 1
    <3>2. CASE i = m + 1
      <4>1. h[i] = Next1(e[m], i) /\ i # 0 /\ i - 1 = m /\ m # m + 1 /\ m \in 0 .. m + 1
        BY <3>2
      <4>2. h[i - 1] = e[m]
        BY <4>1
      <4>3. QED BY <4>1, <4>2
    <3>3. CASE i # m + 1
      <4>1. i \in 0 .. m /\ h[i] = e[i]
        BY <3>3
      <4>2. CASE i = 0
        BY <2>2, <4>1, <4>2
      <4>3. CASE i # 0
        <5>1. i - 1 \in 0 .. m + 1 /\ i - 1 # m + 1
          BY <4>1, <4>3
        <5>2. h[i - 1] = e[i - 1]
          BY <5>1
        <5>3. e[i] = Next1(e[i - 1], i)
          BY <2>2, <4>1, <4>3
        <5>4. QED BY <4>1, <4>3, <5>2, <5>3
      <4>4. QED BY <4>2, <4>3
    <3>4. QED BY <3>2, <3>3
  <2>4. h = [i \in 0 .. m + 1 |-> h[i]]
    OBVIOUS
  <2> HIDE DEF h
  <2>5. P(h, m + 1)
    BY <2>3, <2>4
  <2> HIDE DEF P
  <2>6. QED BY <2>5
<1>3. PICK g : P(g, n)
  <2>1. Nat \subseteq Solved
    <3> HIDE DEF Solved
    <3>1. QED BY <1>1, <1>2, AllNumbers
  <2>2. QED BY <2>1
<1>4. P(Seen(f), n)
  <2>1. Seen(f) = CHOOSE e : P(e, n)
    BY DEF Seen
  <2> HIDE DEF P
  <2>2. QED BY <1>3, <2>1
<1>5. PICK s : s = Seen(f)
  OBVIOUS
<1>6. P(s, n)
  BY <1>4, <1>5
<1> HIDE DEF Next1
<1>7. s[0] = Start(f)
  BY <1>6
<1>8. \A i \in 1 .. n : s[i] = Next1(s[i - 1], i)
  <2>1. TAKE i \in 1 .. n
  <2>2. i \in 0 .. n /\ i # 0
    OBVIOUS
  <2>3. QED BY <1>6, <2>2
<1>9. QED BY <1>5, <1>7, <1>8 DEF Next1

(* Whatever the validator has seen, a name is available for a reason, and  *)
(* what is wrong stays wrong.                                              *)
LEMMA SeenShape ==
  ASSUME NEW f, Len(f.steps) \in Nat, NEW i \in 0 .. Len(f.steps)
  PROVE  Seen(f)[i].available = {"env"} \cup (IF f.data = "" THEN {} ELSE {f.data})
                                \cup Seen(f)[i].extracted \cup DOMAIN Seen(f)[i].closed
<1> DEFINE n     == Len(f.steps)
           s     == Seen(f)
           basis == {"env"} \cup (IF f.data = "" THEN {} ELSE {f.data})
           Shape(v) == v.available = basis \cup v.extracted \cup DOMAIN v.closed
           M     == {m \in Nat : m =< n => Shape(s[m])}
<1>1. /\ s[0] = Start(f)
      /\ \A j \in 1 .. n : s[j] = AddStep(s[j - 1], f.steps[j])
  BY SeenIs
<1>2. Shape(Start(f))
  BY DEF Start
<1>3. ASSUME NEW v, NEW st, Shape(v) PROVE Shape(AddStep(v, st))
  <2> HIDE DEF basis
  <2>1. /\ AddStep(v, st).available = v.available \cup (IF st.use # NoFlow THEN {st.id} ELSE {})
                                     \cup (ToSet(st.extract) \ DOMAIN AddStep(v, st).closed)
        /\ AddStep(v, st).extracted = v.extracted \cup (ToSet(st.extract) \ DOMAIN AddStep(v, st).closed)
        /\ DOMAIN AddStep(v, st).closed = DOMAIN v.closed \cup (IF st.use # NoFlow THEN {st.id} ELSE {})
    BY DEF AddStep
  <2>2. QED BY <1>3, <2>1
<1> HIDE DEF s, Shape
<1>4. 0 \in M
  BY <1>1, <1>2
<1>5. \A m \in Nat : m \in M => m + 1 \in M
  <2>1. SUFFICES ASSUME NEW m \in Nat, m \in M, m + 1 =< n PROVE Shape(s[m + 1])
    OBVIOUS
  <2>2. m + 1 \in 1 .. n /\ (m + 1) - 1 = m /\ m =< n
    BY <2>1
  <2>3. Shape(s[m]) /\ s[m + 1] = AddStep(s[m], f.steps[m + 1])
    BY <1>1, <2>1, <2>2
  <2>4. QED BY <1>3, <2>3
<1>6. i \in M
  <2>1. Nat \subseteq M
    <3> HIDE DEF M
    <3>1. QED BY <1>4, <1>5, AllNumbers
  <2>2. QED BY <2>1
<1>7. Shape(s[i])
  BY <1>6
<1> DEFINE v == s[i]
<1>8. v.available = basis \cup v.extracted \cup DOMAIN v.closed
  BY <1>7 DEF Shape
<1> HIDE DEF v, basis
<1>9. v = Seen(f)[i]
  BY DEF v, s
<1>10. QED BY <1>8, <1>9 DEF basis

(* A flow that passed was in order after every one of its steps.           *)
LEMMA SeenOK ==
  ASSUME NEW f, Len(f.steps) \in Nat, Seen(f)[Len(f.steps)].ok, NEW i \in 0 .. Len(f.steps)
  PROVE  Seen(f)[i].ok
<1> DEFINE n == Len(f.steps)
           M == {m \in Nat : m =< n => Seen(f)[n - m].ok}
<1>1. ASSUME NEW j \in 1 .. n, Seen(f)[j].ok PROVE Seen(f)[j - 1].ok
  <2> DEFINE v == Seen(f)[j - 1]
             w == Seen(f)[j]
  <2>1. w = AddStep(v, f.steps[j]) /\ w.ok
    BY <1>1, SeenIs
  <2> HIDE DEF v, w
  <2>2. v.ok
    BY <2>1 DEF AddStep
  <2>3. QED BY <2>2 DEF v
<1>2. 0 \in M
  OBVIOUS
<1>3. \A m \in Nat : m \in M => m + 1 \in M
  <2>1. SUFFICES ASSUME NEW m \in Nat, m \in M, m + 1 =< n PROVE Seen(f)[n - (m + 1)].ok
    OBVIOUS
  <2>2. n - m \in 1 .. n /\ (n - m) - 1 = n - (m + 1) /\ m =< n
    BY <2>1
  <2>3. QED BY <1>1, <2>1, <2>2
<1>4. n - i \in M
  <2>1. Nat \subseteq M
    <3> HIDE DEF M
    <3>1. QED BY <1>2, <1>3, AllNumbers
  <2>2. QED BY <2>1
<1>5. n - (n - i) = i /\ n - i =< n
  OBVIOUS
<1>6. QED BY <1>4, <1>5

(* A step of a flow that was accepted: what the validator knew before it,  *)
(* what it looked at and what it knows after it.                           *)
LEMMA StepSeen ==
  ASSUME NEW f, WellFormed(f), OwnOK(f), NEW i \in DOMAIN f.steps
  PROVE  LET st     == f.steps[i]
             before == Seen(f)[i - 1]
             after  == Seen(f)[i]
             named  == IF st.use # NoFlow THEN {st.id} ELSE {}
             new    == ToSet(st.extract) \ DOMAIN after.closed
         IN /\ before.available = {"env"} \cup (IF f.data = "" THEN {} ELSE {f.data})
                                  \cup before.extracted \cup DOMAIN before.closed
            /\ \A ref \in RefsOf(st) : ref = <<ref[1], ref[2]>> /\ CheckRef(before, ref)
            /\ UseOK(st)
            /\ after.extracted = before.extracted \cup new
            /\ DOMAIN after.closed = DOMAIN before.closed \cup named
            /\ \A root \in DOMAIN after.closed :
                 after.closed[root] = IF root \in named THEN ToSet(st.use.outputs) ELSE before.closed[root]
            /\ ToSet(st.assert) \subseteq before.available \cup named \cup new
<1> DEFINE st     == f.steps[i]
           before == Seen(f)[i - 1]
           after  == Seen(f)[i]
           named  == IF st.use # NoFlow THEN {st.id} ELSE {}
           new    == ToSet(st.extract) \ DOMAIN after.closed
           n      == Len(f.steps)
<1>1. n \in Nat /\ DOMAIN f.steps = 1 .. n /\ i \in 1 .. n /\ i - 1 \in 0 .. n /\ i \in 0 .. n
  BY DEF WellFormed
<1>2. after = AddStep(before, st)
  BY <1>1, SeenIs
<1>3. after.ok
  BY <1>1, SeenOK DEF OwnOK
<1>4. before.available = {"env"} \cup (IF f.data = "" THEN {} ELSE {f.data})
                        \cup before.extracted \cup DOMAIN before.closed
  BY <1>1, SeenShape
<1>5. UseOK(st) /\ \A ref \in RefsOf(st) : ref = <<ref[1], ref[2]>>
  BY <1>1 DEF OwnOK, WellFormed
<1> HIDE DEF before, after, st
<1>6. /\ after.extracted = before.extracted \cup new
      /\ DOMAIN after.closed = DOMAIN before.closed \cup named
      /\ \A root \in DOMAIN after.closed :
           after.closed[root] = IF root \in named THEN ToSet(st.use.outputs) ELSE before.closed[root]
  BY <1>2 DEF AddStep
<1>7. \A ref \in RefsOf(st) : CheckRef(before, ref)
  BY <1>2, <1>3 DEF AddStep
<1>8. ToSet(st.assert) \subseteq before.available \cup named \cup new
  <2>1. ToSet(st.assert) \subseteq (before.available \cup named) \cup (ToSet(st.extract) \ DOMAIN AddStep(before, st).closed)
    BY <1>2, <1>3 DEF AddStep
  <2>2. QED BY <1>2, <2>1
<1>9. QED BY <1>4, <1>5, <1>6, <1>7, <1>8 DEF before, after, st

(* Why a reference may have no value: what RefsResolve says of one. *)
Excused(frame, ref, entry) ==
  LET seen == Seen(frame.flow)[frame.next] IN
  \/ ref[1] \in {"env", frame.flow.data}
  \/ ref[1] \in frame.missed
  \/ ref[1] = "inputs" /\ entry
  \/ ref[1] \in seen.extracted /\ ref[2] # ""
  \/ ref[1] \in DOMAIN seen.closed /\ ref[2] = ""

(* A frame of an accepted flow that stands before a step. *)
Ready(f, frame, entry) ==
  /\ KeptUp(f, frame, entry)
  /\ WellFormed(frame.flow) /\ OwnOK(frame.flow)
  /\ frame.next \in DOMAIN frame.flow.steps

(* A reference of an accepted step that has no value has an excuse.        *)
LEMMA RefExcused ==
  ASSUME NEW f, NEW frame, NEW entry \in BOOLEAN, Ready(f, frame, entry),
         NEW ref \in RefsOf(frame.flow.steps[frame.next]), ~ Resolves(frame, ref)
  PROVE  Excused(frame, ref, entry)
<1> DEFINE g      == frame.flow
           before == Seen(g)[frame.next - 1]
           after  == Seen(g)[frame.next]
           basis  == {"env"} \cup (IF g.data = "" THEN {} ELSE {g.data})
<1>1. /\ before.available = basis \cup before.extracted \cup DOMAIN before.closed
      /\ ref = <<ref[1], ref[2]>> /\ CheckRef(before, ref)
      /\ before.extracted \subseteq after.extracted
  <2>1. WellFormed(g) /\ OwnOK(g) /\ frame.next \in DOMAIN g.steps /\ ref \in RefsOf(g.steps[frame.next])
    BY DEF Ready
  <2> HIDE DEF g
  <2>2. /\ before.available = {"env"} \cup (IF g.data = "" THEN {} ELSE {g.data})
                              \cup before.extracted \cup DOMAIN before.closed
        /\ ref = <<ref[1], ref[2]>> /\ CheckRef(before, ref)
        /\ after.extracted = before.extracted \cup (ToSet(g.steps[frame.next].extract) \ DOMAIN after.closed)
    BY <2>1, StepSeen
  <2>3. QED BY <2>2
<1>2. /\ \A v \in before.extracted : Found(frame, v, "")
      /\ \A root \in DOMAIN before.closed :
           (root = "inputs" /\ entry) \/ \A o \in before.closed[root] : Found(frame, root, o)
  BY DEF Ready, KeptUp, Told
<1> HIDE DEF before, after
<1>3. CASE ref[1] \in basis
  BY <1>3 DEF Excused
<1>4. CASE ref[1] \notin basis
  <2>1. ref \notin frame.vars
    BY <1>4 DEF Resolves
  <2>2. <<ref[1], ref[2]>> \notin frame.vars
    BY <1>1, <2>1
  <2>3. CASE ref[1] \in before.extracted
    <3>1. CASE ref[2] # ""
      BY <1>1, <2>3, <3>1 DEF Excused, after
    <3>2. CASE ref[2] = ""
      BY <1>2, <2>2, <2>3, <3>2 DEF Excused, Found
    <3>3. QED BY <3>1, <3>2
  <2>4. CASE ref[1] \in DOMAIN before.closed
    <3>1. ref[2] \in before.closed[ref[1]]
      BY <1>1, <2>4 DEF CheckRef
    <3>2. (ref[1] = "inputs" /\ entry) \/ Found(frame, ref[1], ref[2])
      BY <1>2, <2>4, <3>1
    <3>3. QED BY <2>2, <3>2 DEF Excused, Found
  <2>5. ref[1] \in before.available
    BY <1>1 DEF CheckRef
  <2>6. QED BY <1>1, <1>4, <2>3, <2>4, <2>5
<1>5. QED BY <1>3, <1>4

(* So has what an assertion looks for, when the step did not extract it.   *)
LEMMA AssertExcused ==
  ASSUME NEW f, NEW frame, NEW entry \in BOOLEAN, Ready(f, frame, entry),
         frame.flow.steps[frame.next].use = NoFlow,
         NEW v \in ToSet(frame.flow.steps[frame.next].assert), <<v, "">> \notin frame.vars,
         v \notin ToSet(frame.flow.steps[frame.next].extract),
         NEW ref, ref = <<v, "">>
  PROVE  Excused(frame, ref, entry)
<1> DEFINE g      == frame.flow
           st     == g.steps[frame.next]
           before == Seen(g)[frame.next - 1]
           after  == Seen(g)[frame.next]
           basis  == {"env"} \cup (IF g.data = "" THEN {} ELSE {g.data})
<1>1. /\ before.available = basis \cup before.extracted \cup DOMAIN before.closed
      /\ v \in before.available
      /\ DOMAIN before.closed \subseteq DOMAIN after.closed
  <2>1. WellFormed(g) /\ OwnOK(g) /\ frame.next \in DOMAIN g.steps /\ st.use = NoFlow
        /\ v \in ToSet(st.assert) /\ v \notin ToSet(st.extract)
    BY DEF Ready
  <2> DEFINE named == IF st.use # NoFlow THEN {st.id} ELSE {}
             new   == ToSet(st.extract) \ DOMAIN after.closed
  <2> HIDE DEF g
  <2>2. /\ before.available = {"env"} \cup (IF g.data = "" THEN {} ELSE {g.data})
                              \cup before.extracted \cup DOMAIN before.closed
        /\ DOMAIN after.closed = DOMAIN before.closed \cup named
        /\ ToSet(st.assert) \subseteq before.available \cup named \cup new
    BY <2>1, StepSeen
  <2>3. named = {}
    BY <2>1
  <2> HIDE DEF before, after, st, named
  <2>4. QED BY <2>1, <2>2, <2>3
<1>2. /\ \A w \in before.extracted : Found(frame, w, "")
  BY DEF Ready, KeptUp, Told
<1>3. ref[1] = v /\ ref[2] = ""
  OBVIOUS
<1> HIDE DEF before, after
<1>4. CASE v \in basis
  <2>1. v \in {"env", frame.flow.data}
    BY <1>4
  <2>2. QED BY <1>3, <2>1 DEF Excused
<1>5. CASE v \in before.extracted
  <2>1. v \in frame.missed
    BY <1>2, <1>5 DEF Found
  <2>2. QED BY <1>3, <2>1 DEF Excused
<1>6. CASE v \in DOMAIN before.closed
  BY <1>1, <1>3, <1>6 DEF Excused, after
<1> HIDE DEF basis
<1>7. v \in basis \/ v \in before.extracted \/ v \in DOMAIN before.closed
  BY <1>1
<1>8. QED BY <1>4, <1>5, <1>6, <1>7

(* What a request leaves in its frame, when it found the first values it   *)
(* was to extract.                                                         *)
AfterRequest(frame, found) ==
  LET extract == frame.flow.steps[frame.next].extract IN
  [flow   |-> frame.flow,
   next   |-> frame.next + 1,
   vars   |-> frame.vars \cup {<<extract[i], "">> : i \in 1 .. found},
   missed |-> frame.missed \cup {extract[i] : i \in found + 1 .. Len(extract)}]

(* A request keeps its frame up with the validator, whatever it found.     *)
LEMMA RequestKept ==
  ASSUME NEW f, NEW frame, NEW entry \in BOOLEAN, Ready(f, frame, entry),
         frame.flow.steps[frame.next].use = NoFlow,
         NEW found \in 0 .. Len(frame.flow.steps[frame.next].extract)
  PROVE  KeptUp(f, AfterRequest(frame, found), entry)
<1> DEFINE g       == frame.flow
           k       == frame.next
           st      == g.steps[k]
           extract == st.extract
           before  == Seen(g)[k - 1]
           after   == Seen(g)[k]
           new     == AfterRequest(frame, found)
           named   == IF st.use # NoFlow THEN {st.id} ELSE {}
<1>1. /\ after.extracted = before.extracted \cup (ToSet(extract) \ DOMAIN after.closed)
      /\ DOMAIN after.closed = DOMAIN before.closed
      /\ \A root \in DOMAIN after.closed : after.closed[root] = before.closed[root]
  <2>1. WellFormed(g) /\ OwnOK(g) /\ k \in DOMAIN g.steps /\ named = {}
    BY DEF Ready
  <2> HIDE DEF g, k, named
  <2>2. /\ after.extracted = before.extracted \cup (ToSet(extract) \ DOMAIN after.closed)
        /\ DOMAIN after.closed = DOMAIN before.closed \cup named
        /\ \A root \in DOMAIN after.closed :
             after.closed[root] = IF root \in named THEN ToSet(st.use.outputs) ELSE before.closed[root]
    BY <2>1, StepSeen DEF named
  <2> HIDE DEF before, after, st
  <2>3. QED BY <2>1, <2>2
<1>2. k \in 1 .. Len(g.steps) /\ k \in Nat /\ Len(g.steps) \in Nat /\ g \in Within(f)
  <2>1. g.steps \in Seq(Range(g.steps)) /\ k \in DOMAIN g.steps /\ g \in Within(f)
    BY DEF Ready, WellFormed, KeptUp
  <2> HIDE DEF g, k
  <2>2. DOMAIN g.steps = 1 .. Len(g.steps) /\ Len(g.steps) \in Nat
    BY <2>1
  <2>3. QED BY <2>1, <2>2
<1>3. Len(extract) \in Nat /\ DOMAIN extract = 1 .. Len(extract) /\ found \in 0 .. Len(extract)
  <2>1. extract \in Seq(Range(extract))
    BY DEF Ready, WellFormed
  <2> HIDE DEF extract
  <2>2. QED BY <2>1 DEF extract
<1>4. /\ new.flow = g /\ new.next = k + 1
      /\ new.vars = frame.vars \cup {<<extract[i], "">> : i \in 1 .. found}
      /\ new.missed = frame.missed \cup {extract[i] : i \in found + 1 .. Len(extract)}
      /\ new = [flow |-> new.flow, next |-> new.next, vars |-> new.vars, missed |-> new.missed]
  BY DEF AfterRequest
<1>5. Told(new) = after /\ Told(frame) = before
  <2>1. (k + 1) - 1 = k
    BY <1>2
  <2> HIDE DEF new, k, g
  <2>2. Told(new) = after
    BY <1>4, <2>1 DEF Told
  <2>3. QED BY <2>2 DEF Told, k, g
<1>6. /\ \A w \in before.extracted : Found(frame, w, "")
      /\ \A root \in DOMAIN before.closed :
           (root = "inputs" /\ entry) \/ \A o \in before.closed[root] : Found(frame, root, o)
      /\ OwnVars(frame)
  BY <1>5 DEF Ready, KeptUp
<1> HIDE DEF before, after, new
<1>7. \A root, o : Found(frame, root, o) => Found(new, root, o)
  BY <1>4 DEF Found
<1>8. \A v \in ToSet(extract) : Found(new, v, "")
  <2>1. TAKE v \in ToSet(extract)
  <2>2. PICK i \in 1 .. Len(extract) : v = extract[i]
    BY <1>3 DEF ToSet
  <2>3. CASE i =< found
    <3>1. i \in 1 .. found
      BY <1>3, <2>3
    <3>2. <<v, "">> \in new.vars
      BY <1>4, <2>2, <3>1
    <3>3. QED BY <3>2 DEF Found
  <2>4. CASE ~ (i =< found)
    <3>1. i \in found + 1 .. Len(extract)
      BY <1>3, <2>4
    <3>2. v \in new.missed
      BY <1>4, <2>2, <3>1
    <3>3. QED BY <3>2 DEF Found
  <2>5. QED BY <2>3, <2>4
<1>9. OwnVars(new)
  <2>1. SUFFICES ASSUME NEW v \in new.vars
                 PROVE  \/ v[1] = "inputs" /\ v[2] \in DOMAIN g.inputs
                        \/ \E i \in 1 .. Len(g.steps) :
                             i =< k + 1 /\ v[2] = "" /\ v[1] \in ToSet(g.steps[i].extract)
                        \/ \E i \in 1 .. Len(g.steps) :
                             /\ i < k + 1 /\ g.steps[i].id = v[1] /\ g.steps[i].use # NoFlow
                             /\ v[2] \in ToSet(g.steps[i].use.outputs)
    BY <1>4 DEF OwnVars
  <2>2. CASE v \in frame.vars
    <3>1. \A i \in 1 .. Len(g.steps) : (i =< k => i =< k + 1) /\ (i < k => i < k + 1)
      BY <1>2
    <3>2. QED BY <1>6, <2>2, <3>1 DEF OwnVars
  <2>3. CASE v \notin frame.vars
    <3>1. PICK i \in 1 .. found : v = <<extract[i], "">>
      BY <1>4, <2>3
    <3>2. v[2] = "" /\ v[1] = extract[i]
      BY <3>1
    <3>3. i \in DOMAIN extract
      <4> HIDE DEF extract
      <4>1. QED BY <1>3
    <3>5. v[1] \in ToSet(extract)
      <4> HIDE DEF extract
      <4>1. QED BY <3>2, <3>3 DEF ToSet
    <3>6. v[1] \in ToSet(g.steps[k].extract) /\ k =< k + 1
      BY <1>2, <3>5
    <3>7. QED BY <1>2, <3>2, <3>6
  <2>4. QED BY <2>2, <2>3
<1>10. k + 1 \in 1 .. Len(g.steps) + 1
  BY <1>2
<1> HIDE DEF g, k, extract
<1>11. QED BY <1>1, <1>2, <1>4, <1>5, <1>6, <1>7, <1>8, <1>9, <1>10 DEF KeptUp, new

(* What a used flow leaves in its caller's frame when it returns. *)
AfterUse(caller, used) ==
  LET id   == caller.flow.steps[caller.next].id
      back == {o \in ToSet(used.flow.outputs) : <<o, "">> \in used.vars}
  IN [flow   |-> caller.flow,
      next   |-> caller.next + 1,
      vars   |-> caller.vars \cup {<<id, o>> : o \in back},
      missed |-> caller.missed \cup (IF used.missed = {} THEN {} ELSE {id})]

(* Every output of a flow that was accepted was extracted in it, or the    *)
(* flow missed something.                                                  *)
LEMMA OutputsFound ==
  ASSUME NEW f, NEW used, KeptUp(f, used, FALSE), WellFormed(used.flow), OwnOK(used.flow),
         used.next > Len(used.flow.steps)
  PROVE  \A o \in ToSet(used.flow.outputs) : <<o, "">> \in used.vars \/ used.missed # {}
<1>1. used.next = Len(used.flow.steps) + 1 /\ Len(used.flow.steps) \in Nat
  <2>1. used.flow.steps \in Seq(Range(used.flow.steps)) /\ used.next \in 1 .. Len(used.flow.steps) + 1
    BY DEF WellFormed, KeptUp
  <2>2. Len(used.flow.steps) \in Nat
    BY <2>1
  <2>3. QED BY <2>1, <2>2
<1>2. used.next - 1 = Len(used.flow.steps)
  BY <1>1
<1>3. \A v \in Seen(used.flow)[Len(used.flow.steps)].extracted : Found(used, v, "")
  BY <1>2 DEF KeptUp, Told
<1>4. ToSet(used.flow.outputs) \subseteq Seen(used.flow)[Len(used.flow.steps)].extracted
  BY DEF OwnOK
<1>5. QED BY <1>3, <1>4 DEF Found

(* So does a flow that returns, for its caller: the outputs are the fields *)
(* the validator gave the use step.                                        *)
LEMMA ReturnKept ==
  ASSUME NEW f, NEW caller, NEW entry \in BOOLEAN, Ready(f, caller, entry),
         NEW used, KeptUp(f, used, FALSE), WellFormed(used.flow), OwnOK(used.flow),
         used.next > Len(used.flow.steps), Waits(caller, used)
  PROVE  KeptUp(f, AfterUse(caller, used), entry)
<1> DEFINE g       == caller.flow
           k       == caller.next
           st      == g.steps[k]
           outputs == used.flow.outputs
           before  == Seen(g)[k - 1]
           after   == Seen(g)[k]
           new     == AfterUse(caller, used)
           named   == IF st.use # NoFlow THEN {st.id} ELSE {}
           back    == {o \in ToSet(outputs) : <<o, "">> \in used.vars}
<1>1. st.use # NoFlow /\ st.use.outputs = outputs
  BY DEF Waits
<1>2. /\ after.extracted = before.extracted
      /\ DOMAIN after.closed = DOMAIN before.closed \cup {st.id}
      /\ \A root \in DOMAIN after.closed :
           after.closed[root] = IF root = st.id THEN ToSet(outputs) ELSE before.closed[root]
  <2>1. WellFormed(g) /\ OwnOK(g) /\ k \in DOMAIN g.steps /\ named = {st.id}
    BY <1>1 DEF Ready
  <2> HIDE DEF g, k, named
  <2>2. /\ UseOK(st)
        /\ after.extracted = before.extracted \cup (ToSet(st.extract) \ DOMAIN after.closed)
        /\ DOMAIN after.closed = DOMAIN before.closed \cup named
        /\ \A root \in DOMAIN after.closed :
             after.closed[root] = IF root \in named THEN ToSet(st.use.outputs) ELSE before.closed[root]
    BY <2>1, StepSeen DEF named
  <2>3. ToSet(st.extract) = {}
    <3>1. st.extract = <<>>
      BY <1>1, <2>2 DEF UseOK
    <3>2. QED BY <3>1 DEF ToSet
  <2> HIDE DEF before, after, st
  <2>4. QED BY <1>1, <2>1, <2>2, <2>3
<1>3. k \in 1 .. Len(g.steps) /\ k \in Nat /\ Len(g.steps) \in Nat /\ g \in Within(f)
  <2>1. g.steps \in Seq(Range(g.steps)) /\ k \in DOMAIN g.steps /\ g \in Within(f)
    BY DEF Ready, WellFormed, KeptUp
  <2> HIDE DEF g, k
  <2>2. DOMAIN g.steps = 1 .. Len(g.steps) /\ Len(g.steps) \in Nat
    BY <2>1
  <2>3. QED BY <2>1, <2>2
<1>4. /\ new.flow = g /\ new.next = k + 1
      /\ new.vars = caller.vars \cup {<<st.id, o>> : o \in back}
      /\ new.missed = caller.missed \cup (IF used.missed = {} THEN {} ELSE {st.id})
      /\ new = [flow |-> new.flow, next |-> new.next, vars |-> new.vars, missed |-> new.missed]
  BY DEF AfterUse
<1>5. Told(new) = after /\ Told(caller) = before
  <2>1. (k + 1) - 1 = k
    BY <1>3
  <2> HIDE DEF new, k, g
  <2>2. Told(new) = after
    BY <1>4, <2>1 DEF Told
  <2>3. QED BY <2>2 DEF Told, k, g
<1>6. /\ \A w \in before.extracted : Found(caller, w, "")
      /\ \A root \in DOMAIN before.closed :
           (root = "inputs" /\ entry) \/ \A o \in before.closed[root] : Found(caller, root, o)
      /\ OwnVars(caller)
  BY <1>5 DEF Ready, KeptUp
<1>7. \A o \in ToSet(outputs) : <<o, "">> \in used.vars \/ used.missed # {}
  BY OutputsFound
<1> HIDE DEF before, after, new
<1>8. \A root, o : Found(caller, root, o) => Found(new, root, o)
  BY <1>4 DEF Found
<1>9. \A o \in ToSet(outputs) : Found(new, st.id, o)
  <2>1. TAKE o \in ToSet(outputs)
  <2>2. CASE <<o, "">> \in used.vars
    <3>1. <<st.id, o>> \in new.vars
      BY <1>4, <2>2
    <3>2. QED BY <3>1 DEF Found
  <2>3. CASE used.missed # {}
    BY <1>4, <2>3 DEF Found
  <2>4. QED BY <1>7, <2>2, <2>3
<1>10. OwnVars(new)
  <2>1. SUFFICES ASSUME NEW v \in new.vars
                 PROVE  \/ v[1] = "inputs" /\ v[2] \in DOMAIN g.inputs
                        \/ \E i \in 1 .. Len(g.steps) :
                             i =< k + 1 /\ v[2] = "" /\ v[1] \in ToSet(g.steps[i].extract)
                        \/ \E i \in 1 .. Len(g.steps) :
                             /\ i < k + 1 /\ g.steps[i].id = v[1] /\ g.steps[i].use # NoFlow
                             /\ v[2] \in ToSet(g.steps[i].use.outputs)
    BY <1>4 DEF OwnVars
  <2>2. CASE v \in caller.vars
    <3>1. \A i \in 1 .. Len(g.steps) : (i =< k => i =< k + 1) /\ (i < k => i < k + 1)
      BY <1>3
    <3>2. QED BY <1>6, <2>2, <3>1 DEF OwnVars
  <2>3. CASE v \notin caller.vars
    <3>1. PICK o \in ToSet(outputs) : v = <<st.id, o>>
      BY <1>4, <2>3
    <3>2. v[1] = g.steps[k].id /\ v[2] \in ToSet(g.steps[k].use.outputs) /\ g.steps[k].use # NoFlow
      BY <1>1, <3>1
    <3>3. k \in 1 .. Len(g.steps) /\ k < k + 1
      BY <1>3
    <3>4. QED BY <3>2, <3>3
  <2>4. QED BY <2>2, <2>3
<1>11. k + 1 \in 1 .. Len(g.steps) + 1
  BY <1>3
<1>12. \A root \in DOMAIN after.closed :
         (root = "inputs" /\ entry) \/ \A o \in after.closed[root] : Found(new, root, o)
  <2> HIDE DEF st, outputs
  <2>1. TAKE root \in DOMAIN after.closed
  <2>2. CASE root = st.id
    BY <1>2, <1>9, <2>2
  <2>3. CASE root # st.id
    BY <1>2, <1>6, <1>8, <2>3
  <2>4. QED BY <2>2, <2>3
<1> HIDE DEF g, k, st
<1>13. QED BY <1>2, <1>3, <1>4, <1>5, <1>6, <1>8, <1>10, <1>11, <1>12 DEF KeptUp, new

(* A frame before its first step. *)
LEMMA NewKept ==
  ASSUME NEW f, NEW used \in Within(f), WellFormed(used), NEW entry \in BOOLEAN,
         NEW inputs, IF entry THEN inputs = {} ELSE inputs = {<<"inputs", i>> : i \in DOMAIN used.inputs}
  PROVE  KeptUp(f, Frame(used, inputs), entry)
<1> DEFINE new == Frame(used, inputs)
<1>1. Len(used.steps) \in Nat
  <2>1. used.steps \in Seq(Range(used.steps))
    BY DEF WellFormed
  <2>2. QED BY <2>1
<1>2. /\ new.flow = used /\ new.next = 1 /\ new.vars = inputs /\ new.missed = {}
      /\ new = [flow |-> new.flow, next |-> new.next, vars |-> new.vars, missed |-> new.missed]
  BY DEF Frame
<1>3. Told(new) = Start(used)
  <2>1. Seen(used)[0] = Start(used)
    BY <1>1, SeenIs
  <2>2. new.next - 1 = 0
    BY <1>2
  <2>3. QED BY <1>2, <2>1, <2>2 DEF Told
<1>4. /\ Start(used).extracted = {}
      /\ \A root \in DOMAIN Start(used).closed : root = "inputs" /\ Start(used).closed[root] = DOMAIN used.inputs
  BY DEF Start
<1>5. \A v \in inputs : v[1] = "inputs" /\ v[2] \in DOMAIN used.inputs
  OBVIOUS
<1>6. OwnVars(new)
  BY <1>2, <1>5 DEF OwnVars
<1>7. \A root \in DOMAIN Start(used).closed :
        (root = "inputs" /\ entry) \/ \A o \in Start(used).closed[root] : Found(new, root, o)
  BY <1>2, <1>4 DEF Found
<1> HIDE DEF new
<1>8. 1 \in 1 .. Len(used.steps) + 1
  BY <1>1
<1>9. QED BY <1>2, <1>3, <1>4, <1>6, <1>7, <1>8 DEF KeptUp, new

(* A sequence over a set is one over its own members.                      *)
LEMMA OwnRange ==
  ASSUME NEW S, NEW s \in Seq(S)
  PROVE  s \in Seq(Range(s))
BY DEF Range

(* The frames of a run that goes on. *)
LEMMA FramesAre ==
  ASSUME RefInv, frames # <<>>
  PROVE  LET n == Len(frames) IN
         /\ n \in Nat \ {0} /\ DOMAIN frames = 1 .. n /\ TopFrame = frames[n]
         /\ frames \in Seq(Range(frames))
         /\ \A k \in 1 .. n : /\ KeptUp(flow, frames[k], k = 1)
                              /\ WellFormed(frames[k].flow) /\ OwnOK(frames[k].flow)
                              /\ UsedBy(frames[k].flow) \subseteq Within(flow)
         /\ \A k \in 2 .. n : Waits(frames[k - 1], frames[k])
<1> DEFINE n == Len(frames)
<1>1. frames \in Seq(Range(frames)) /\ flow \in Flows /\ FlowOK(flow)
  BY DEF RefInv
<1>2. n \in Nat \ {0} /\ DOMAIN frames = 1 .. n /\ TopFrame = frames[n]
  BY <1>1, EmptySeq DEF TopFrame
<1>3. \A k \in 1 .. n : KeptUp(flow, frames[k], k = 1)
  BY <1>2 DEF RefInv
<1>4. \A k \in 1 .. n : frames[k].flow \in Within(flow)
  BY <1>3 DEF KeptUp
<1>5. \A g \in Within(flow) : WellFormed(g) /\ OwnOK(g) /\ UsedBy(g) \subseteq Within(flow)
  BY <1>1, RefAssumption DEF FlowOK
<1>6. \A k \in 2 .. n : Waits(frames[k - 1], frames[k])
  <2>1. \A k \in 2 .. n : k \in DOMAIN frames \ {1}
    BY <1>2
  <2>2. QED BY <2>1 DEF RefInv
<1> HIDE DEF n
<1>7. QED BY <1>1, <1>2, <1>3, <1>4, <1>5, <1>6 DEF n

(* The top frame of a run that goes on stands before a step.               *)
LEMMA TopReady ==
  ASSUME RefInv, Going
  PROVE  Ready(flow, TopFrame, Len(frames) = 1)
<1>1. frames # <<>> /\ TopFrame.next =< Len(TopFrame.flow.steps)
  BY DEF Going
<1> DEFINE n == Len(frames)
<1>2. n \in 1 .. n /\ TopFrame = frames[n]
  BY <1>1, FramesAre
<1>3. KeptUp(flow, TopFrame, n = 1) /\ WellFormed(TopFrame.flow) /\ OwnOK(TopFrame.flow)
  BY <1>1, <1>2, FramesAre
<1> HIDE DEF n
<1>4. TopFrame.next \in DOMAIN TopFrame.flow.steps
  <2>1. TopFrame.flow.steps \in Seq(Range(TopFrame.flow.steps))
        /\ TopFrame.next \in 1 .. Len(TopFrame.flow.steps) + 1
    BY <1>3 DEF WellFormed, KeptUp
  <2>2. Len(TopFrame.flow.steps) \in Nat /\ DOMAIN TopFrame.flow.steps = 1 .. Len(TopFrame.flow.steps)
    BY <2>1
  <2>3. QED BY <1>1, <2>1, <2>2
<1>5. QED BY <1>3, <1>4 DEF Ready, n

(* The invariant, from one frame that changed at the top of the others. *)
LEMMA NewTop ==
  ASSUME RefInv, frames # <<>>, UNCHANGED flow, NEW m \in 1 .. Len(frames) + 1,
         frames' \in Seq(Range(frames')), Len(frames') = m,
         \A k \in 1 .. m - 1 : frames'[k] = frames[k],
         KeptUp(flow, frames'[m], m = 1),
         m > 1 => Waits(frames[m - 1], frames'[m]),
         RefsResolve'
  PROVE  RefInv'
<1> DEFINE n == Len(frames)
           s == frames'
<1>1. /\ n \in Nat \ {0} /\ DOMAIN frames = 1 .. n
      /\ \A k \in 1 .. n : KeptUp(flow, frames[k], k = 1)
      /\ \A k \in 2 .. n : Waits(frames[k - 1], frames[k])
  BY FramesAre
<1>2. DOMAIN s = 1 .. m /\ m \in Nat
  BY <1>1
<1>3. \A k \in DOMAIN s : KeptUp(flow, s[k], k = 1)
  <2>1. TAKE k \in DOMAIN s
  <2>2. CASE k = m
    BY <2>2
  <2>3. CASE k # m
    <3>1. k \in 1 .. m - 1 /\ k \in 1 .. n
      BY <1>1, <1>2, <2>3
    <3>2. QED BY <1>1, <3>1
  <2>4. QED BY <2>2, <2>3
<1>4. \A k \in DOMAIN s \ {1} : Waits(s[k - 1], s[k])
  <2>1. TAKE k \in DOMAIN s \ {1}
  <2>2. k \in 2 .. m /\ k - 1 \in 1 .. m - 1 /\ s[k - 1] = frames[k - 1]
    BY <1>1, <1>2
  <2>3. CASE k = m
    BY <2>2, <2>3
  <2>4. CASE k # m
    <3>1. k \in 1 .. m - 1 /\ k \in 2 .. n
      BY <1>1, <1>2, <2>2, <2>4
    <3>2. QED BY <1>1, <2>2, <3>1
  <2>5. QED BY <2>3, <2>4
<1>5. flow' = flow /\ flow \in Flows /\ FlowOK(flow)
  BY DEF RefInv
<1>6. QED BY <1>3, <1>4, <1>5 DEF RefInv

(* A run that ends on references that have their excuses.                  *)
LEMMA FailKept ==
  ASSUME RefInv, Going, NEW refs, Fail(refs),
         \A ref \in refs : Excused(TopFrame, ref, Len(frames) = 1)
  PROVE  RefInv'
<1>1. RefsResolve'
  <2>1. ASSUME NEW lost \in failed'
        PROVE  Excused(lost.frame, lost.ref, Len(frames') = 1)
    <3>1. PICK ref \in refs : lost = [ref |-> ref, frame |-> TopFrame]
      BY DEF Fail
    <3>2. lost.frame = TopFrame /\ lost.ref = ref /\ frames' = frames
      BY <3>1 DEF Fail
    <3>3. QED BY <3>2
  <2>2. QED BY <2>1 DEF RefsResolve, Excused
<1>2. QED BY <1>1 DEF RefInv, Fail

(* What the assertions of a request look for and do not find. *)
LostAfter(frame, found) ==
  LET st == frame.flow.steps[frame.next] IN
  IF found < Len(st.extract) THEN {}
  ELSE {<<v, "">> : v \in ToSet(st.assert)} \ (frame.vars \cup {<<st.extract[i], "">> : i \in 1 .. found})

(* What was lost is excused.                                               *)
LEMMA LostExcused ==
  ASSUME NEW f, NEW frame, NEW entry \in BOOLEAN, Ready(f, frame, entry),
         frame.flow.steps[frame.next].use = NoFlow,
         NEW found \in 0 .. Len(frame.flow.steps[frame.next].extract),
         NEW ref \in LostAfter(frame, found)
  PROVE  Excused(frame, ref, entry)
<1> DEFINE st      == frame.flow.steps[frame.next]
           extract == st.extract
           k       == Len(extract)
<1>1. k \in Nat /\ DOMAIN extract = 1 .. k
  <2>1. extract \in Seq(Range(extract))
    BY DEF Ready, WellFormed
  <2> HIDE DEF extract
  <2>2. QED BY <2>1, LenProperties
<1>2. ~ (found < k) /\ found \in 0 .. k
  BY DEF LostAfter
<1>3. PICK v \in ToSet(st.assert) : ref = <<v, "">>
  BY <1>2 DEF LostAfter
<1>4. <<v, "">> \notin frame.vars /\ \A i \in 1 .. found : <<v, "">> # <<extract[i], "">>
  BY <1>2, <1>3 DEF LostAfter
<1>5. found = k
  <2> HIDE DEF k
  <2>1. QED BY <1>1, <1>2
<1>6. \A i \in 1 .. k : v # extract[i]
  <2> HIDE DEF k, extract
  <2>1. QED BY <1>4, <1>5
<1>7. v \notin ToSet(extract)
  <2> HIDE DEF k, extract
  <2>1. QED BY <1>1, <1>6 DEF ToSet
<1>8. QED BY <1>3, <1>4, <1>7, AssertExcused

(* A frame that has moved on.                                              *)
Moved(t, x, y, z) == [t EXCEPT !.next = x, !.vars = y, !.missed = z]

LEMMA FrameExcept ==
  ASSUME NEW a, NEW b, NEW c, NEW d, NEW x, NEW y, NEW z, NEW t,
         t = [flow |-> a, next |-> b, vars |-> c, missed |-> d]
  PROVE  Moved(t, x, y, z) = [flow |-> a, next |-> x, vars |-> y, missed |-> z]
<1> DEFINE e == Moved(t, x, y, z)
<1> USE DEF Moved
<1>1. t \in [flow : {a}, next : {b}, vars : {c}, missed : {d}]
  OBVIOUS
<1>2. e \in [flow : {a}, next : {x}, vars : {y}, missed : {z}]
  <2>1. t \in [flow : {a}, next : {b}, vars : {c}, missed : {d}] => e \in [flow : {a}, next : {x}, vars : {y}, missed : {z}]
    OBVIOUS
  <2>2. QED BY <1>1, <2>1
<1> HIDE DEF e
<1>3. e = [flow |-> a, next |-> x, vars |-> y, missed |-> z]
  BY <1>2
<1>4. QED BY <1>3 DEF e

(* One lemma for each step of the run.                                     *)
LEMMA RequestStep ==
  ASSUME RefInv, Request
  PROVE  RefInv'
<1> DEFINE n       == Len(frames)
           top     == TopFrame
           st      == Step
           extract == st.extract
           broken  == Unresolved(top, st.refs)
           Got(found)  == {<<extract[i], "">> : i \in 1 .. found}
           Gone(found) == {extract[i] : i \in found + 1 .. Len(extract)}
           Lost(found) == IF found < Len(extract) THEN {}
                          ELSE {<<v, "">> : v \in ToSet(st.assert)} \ (top.vars \cup Got(found))
<1>1. Going /\ st.use = NoFlow /\ frames # <<>>
  BY DEF Request, Going
<1>2. Ready(flow, top, n = 1)
  BY <1>1, TopReady
<1>3. st = top.flow.steps[top.next]
  BY DEF Step
<1>4. CASE broken # {}
  <2>1. Fail(broken)
    BY <1>4 DEF Request
  <2>2. ASSUME NEW ref \in broken PROVE Excused(top, ref, n = 1)
    <3>1. ref \in RefsOf(st) /\ ~ Resolves(top, ref)
      BY <2>2 DEF Unresolved, RefsOf
    <3>2. (n = 1) \in BOOLEAN
      OBVIOUS
    <3> HIDE DEF top, st, n
    <3>3. QED BY <1>2, <1>3, <3>1, <3>2, RefExcused
  <2> HIDE DEF broken
  <2>3. QED BY <1>1, <2>1, <2>2, FailKept
<1>5. CASE broken = {}
  <2>1. PICK found \in 0 .. Len(extract) :
          /\ frames' = [frames EXCEPT ![n] =
               [top EXCEPT !.next = @ + 1, !.vars = top.vars \cup Got(found), !.missed = @ \cup Gone(found)]]
          /\ failed' = {[ref |-> ref, frame |-> top] : ref \in Lost(found)}
          /\ UNCHANGED <<flow, outside>>
    BY <1>5 DEF Request
  <2> DEFINE new == AfterRequest(top, found)
  <2>2. /\ n \in Nat \ {0} /\ DOMAIN frames = 1 .. n /\ top = frames[n] /\ frames \in Seq(Range(frames))
    BY <1>1, FramesAre
  <2>3. KeptUp(flow, new, n = 1) /\ new.flow = top.flow
    <3>1. KeptUp(flow, new, n = 1)
      <4>1. (n = 1) \in BOOLEAN /\ top.flow.steps[top.next].use = NoFlow
            /\ found \in 0 .. Len(top.flow.steps[top.next].extract)
        BY <1>1, <1>3
      <4> HIDE DEF top, n
      <4>2. QED BY <1>2, <4>1, RequestKept
    <3>2. QED BY <3>1 DEF AfterRequest
  <2>4. frames' = [frames EXCEPT ![n] = new]
    <3> DEFINE t == top
               x == t.next + 1
               y == top.vars \cup Got(found)
               z == t.missed \cup Gone(found)
    <3>1. t = [flow |-> t.flow, next |-> t.next, vars |-> t.vars, missed |-> t.missed]
      BY <1>2, <2>2 DEF Ready, KeptUp
    <3>2. new = [flow |-> t.flow, next |-> x, vars |-> y, missed |-> z]
      BY <1>3 DEF AfterRequest
    <3>3. frames' = [frames EXCEPT ![n] = Moved(t, x, y, z)]
      BY <2>1 DEF Moved
    <3> HIDE DEF new, x, y, z, n, t
    <3>4. Moved(t, x, y, z) = new
      BY <3>1, <3>2, FrameExcept
    <3>5. QED BY <3>3, <3>4
  <2> HIDE DEF new
  <2>5. /\ frames' \in Seq(Range(frames')) /\ Len(frames') = n /\ frames'[n] = new
        /\ \A k \in 1 .. n - 1 : frames'[k] = frames[k]
    <3> HIDE DEF n
    <3>1. frames' \in Seq(Range(frames) \cup {new}) /\ Len(frames') = Len(frames)
      BY <2>2, <2>4 DEF Range
    <3>2. frames' \in Seq(Range(frames'))
      BY <3>1, OwnRange
    <3>3. frames'[n] = new /\ \A k \in 1 .. n - 1 : frames'[k] = frames[k]
      BY <2>2, <2>4
    <3>4. QED BY <3>1, <3>2, <3>3 DEF n
  <2>6. n > 1 => Waits(frames[n - 1], frames'[n])
    <3>1. ASSUME n > 1 PROVE Waits(frames[n - 1], frames[n])
      <4>1. n \in 2 .. n
        BY <2>2, <3>1
      <4>2. QED BY <1>1, <4>1, FramesAre
    <3>2. QED BY <2>2, <2>3, <2>5, <3>1 DEF Waits
  <2>7. ASSUME NEW ref \in Lost(found) PROVE Excused(top, ref, n = 1)
    <3>1. ref \in LostAfter(top, found)
      BY <1>3 DEF LostAfter
    <3>2. (n = 1) \in BOOLEAN /\ st.use = NoFlow
      BY <1>1
    <3> HIDE DEF top, st, n, Lost
    <3>3. QED BY <1>2, <1>3, <3>1, <3>2, LostExcused DEF extract
  <2>8. RefsResolve'
    <3>1. ASSUME NEW lost \in failed' PROVE Excused(lost.frame, lost.ref, Len(frames') = 1)
      <4>1. PICK ref \in Lost(found) : lost = [ref |-> ref, frame |-> top]
        BY <2>1
      <4>2. lost.frame = top /\ lost.ref = ref
        BY <4>1
      <4> HIDE DEF top, Lost
      <4>3. QED BY <2>5, <2>7, <4>2
    <3>2. QED BY <3>1 DEF RefsResolve, Excused
  <2>9. UNCHANGED flow /\ n \in 1 .. Len(frames) + 1
    <3>1. UNCHANGED flow
      BY <2>1
    <3>2. n \in 1 .. n + 1
      <4> HIDE DEF n
      <4>1. QED BY <2>2
    <3>3. QED BY <3>1, <3>2
  <2>10. QED BY <1>1, <2>3, <2>5, <2>6, <2>8, <2>9, NewTop
<1>6. QED BY <1>4, <1>5

LEMMA UseStep ==
  ASSUME RefInv, Use
  PROVE  RefInv'
<1> DEFINE n       == Len(frames)
           top     == TopFrame
           st      == Step
           used    == st.use
           given   == DOMAIN st.with
           broken  == Unresolved(top, UNION {st.with[i] : i \in given \cap DOMAIN used.inputs})
           default == UNION {Unresolved(Frame(used, {}), used.inputs[i]) : i \in DOMAIN used.inputs \ given}
           inputs  == {<<"inputs", i>> : i \in DOMAIN used.inputs}
           new     == Frame(used, inputs)
<1>1. Going /\ used # NoFlow /\ frames # <<>>
  BY DEF Use, Going
<1>2. Ready(flow, top, n = 1)
  BY <1>1, TopReady
<1>3. st = top.flow.steps[top.next] /\ top.next \in DOMAIN top.flow.steps
  BY <1>2 DEF Step, Ready
<1>4. /\ n \in Nat \ {0} /\ DOMAIN frames = 1 .. n /\ top = frames[n] /\ frames \in Seq(Range(frames))
      /\ UsedBy(top.flow) \subseteq Within(flow)
  <2>1. /\ n \in Nat \ {0} /\ DOMAIN frames = 1 .. n /\ top = frames[n] /\ frames \in Seq(Range(frames))
    BY <1>1, FramesAre
  <2>2. n \in 1 .. n
    BY <2>1
  <2>3. UsedBy(frames[n].flow) \subseteq Within(flow)
    BY <1>1, <2>2, FramesAre
  <2>4. QED BY <2>1, <2>3
<1>5. used \in Within(flow) /\ WellFormed(used) /\ OwnOK(used)
  <2>1. used \in UsedBy(top.flow)
    BY <1>1, <1>3 DEF UsedBy
  <2>2. used \in Within(flow) /\ flow \in Flows /\ FlowOK(flow)
    BY <1>1, <1>4, <2>1 DEF RefInv
  <2> HIDE DEF used
  <2>3. QED BY <2>2, RefAssumption DEF FlowOK
<1>6. CASE broken \cup default # {}
  <2>1. Fail(broken \cup default)
    BY <1>6 DEF Use
  <2>2. ASSUME NEW ref \in broken PROVE Excused(top, ref, n = 1)
    <3>1. ref \in RefsOf(st) /\ ~ Resolves(top, ref)
      BY <2>2 DEF Unresolved, RefsOf, WithRefs
    <3>2. (n = 1) \in BOOLEAN
      OBVIOUS
    <3> HIDE DEF top, st, n
    <3>3. QED BY <1>2, <1>3, <3>1, <3>2, RefExcused
  <2>3. ASSUME NEW ref \in default PROVE Excused(top, ref, n = 1)
    <3>1. PICK i \in DOMAIN used.inputs \ given : ref \in used.inputs[i]
      BY <2>3 DEF Unresolved
    <3>2. UseOK(st)
      BY <1>2, <1>3, StepSeen DEF Ready
    <3>3. used.inputs[i] # Required
      BY <1>1, <3>1, <3>2 DEF UseOK
    <3>4. ref[1] = "env"
      BY <1>5, <3>1, <3>3 DEF OwnOK
    <3>5. QED BY <3>4 DEF Excused
  <2> HIDE DEF broken, default
  <2>4. \A ref \in broken \cup default : Excused(top, ref, n = 1)
    BY <2>2, <2>3
  <2>5. QED BY <1>1, <2>1, <2>4, FailKept
<1>7. CASE broken \cup default = {}
  <2>1. frames' = Append(frames, new) /\ UNCHANGED <<flow, outside, failed>> /\ failed = {}
    BY <1>1, <1>7 DEF Use, Going
  <2>2. KeptUp(flow, new, FALSE) /\ new.flow = used
    <3>1. KeptUp(flow, new, FALSE)
      <4> HIDE DEF used
      <4>1. QED BY <1>5, NewKept
    <3>2. QED BY <3>1 DEF Frame
  <2> HIDE DEF new
  <2>3. /\ frames' \in Seq(Range(frames')) /\ Len(frames') = n + 1 /\ frames'[n + 1] = new
        /\ \A k \in 1 .. n : frames'[k] = frames[k]
    <3>1. frames \in Seq(Range(frames) \cup {new}) /\ new \in Range(frames) \cup {new}
      BY <1>4
    <3>2. /\ frames' \in Seq(Range(frames) \cup {new}) /\ Len(frames') = n + 1 /\ frames'[n + 1] = new
          /\ \A k \in 1 .. n : frames'[k] = frames[k]
      BY <2>1, <3>1, AppendProperties
    <3>3. QED BY <3>2, OwnRange
  <2>4. Waits(frames[n], new)
    BY <1>1, <1>3, <1>4, <2>2 DEF Waits
  <2>5. RefsResolve'
    BY <2>1 DEF RefsResolve
  <2> DEFINE m == n + 1
  <2>6. m \in 1 .. Len(frames) + 1 /\ m - 1 = n /\ (m = 1) = FALSE /\ m > 1
    BY <1>4
  <2>7. /\ KeptUp(flow, frames'[m], m = 1) /\ Waits(frames[m - 1], frames'[m])
        /\ \A k \in 1 .. m - 1 : frames'[k] = frames[k]
    BY <2>2, <2>3, <2>4, <2>6
  <2> HIDE DEF m
  <2>8. frames' \in Seq(Range(frames')) /\ Len(frames') = m
    BY <2>3 DEF m
  <2>9. QED BY <1>1, <2>1, <2>5, <2>6, <2>7, <2>8, NewTop
<1>8. QED BY <1>6, <1>7

LEMMA UseReturnsStep ==
  ASSUME RefInv, UseReturns
  PROVE  RefInv'
<1> DEFINE n      == Len(frames)
           m      == n - 1
           caller == frames[Len(frames) - 1]
           used   == TopFrame
           id     == caller.flow.steps[caller.next].id
           back   == {o \in ToSet(used.flow.outputs) : <<o, "">> \in used.vars}
           x      == caller.next + 1
           y      == caller.vars \cup {<<id, o>> : o \in back}
           z      == caller.missed \cup (IF used.missed = {} THEN {} ELSE {id})
           new    == AfterUse(caller, used)
           rest   == SubSeq(frames, 1, Len(frames) - 2)
<1>1. Len(frames) > 1 /\ failed = {} /\ used.next > Len(used.flow.steps) /\ UNCHANGED <<flow, outside, failed>>
  BY DEF UseReturns
<1>2. frames # <<>>
  BY <1>1
<1>3. /\ n \in Nat \ {0} /\ DOMAIN frames = 1 .. n /\ used = frames[n] /\ frames \in Seq(Range(frames))
  BY <1>2, FramesAre
<1>4. m \in 1 .. n /\ n \in 2 .. n /\ m \in Nat /\ m < n /\ caller = frames[m] /\ (n = 1) = FALSE
  BY <1>1, <1>3
<1>5. /\ KeptUp(flow, caller, m = 1) /\ WellFormed(caller.flow) /\ OwnOK(caller.flow)
      /\ KeptUp(flow, used, FALSE) /\ WellFormed(used.flow) /\ OwnOK(used.flow)
      /\ Waits(caller, used)
  <2>1. \A k \in 1 .. n : KeptUp(flow, frames[k], k = 1) /\ WellFormed(frames[k].flow) /\ OwnOK(frames[k].flow)
    BY <1>2, FramesAre
  <2>2. \A k \in 2 .. n : Waits(frames[k - 1], frames[k])
    BY <1>2, FramesAre
  <2>3. KeptUp(flow, frames[n], n = 1) /\ WellFormed(frames[n].flow) /\ OwnOK(frames[n].flow)
    BY <1>4, <2>1
  <2>4. KeptUp(flow, frames[m], m = 1) /\ WellFormed(frames[m].flow) /\ OwnOK(frames[m].flow)
    BY <1>4, <2>1
  <2>5. Waits(frames[m], frames[n])
    BY <1>4, <2>2
  <2>6. KeptUp(flow, frames[n], FALSE)
    BY <1>4, <2>3
  <2> HIDE DEF m, n, caller, used
  <2>7. QED BY <1>3, <1>4, <2>3, <2>4, <2>5, <2>6
<1>6. KeptUp(flow, new, m = 1)
  <2>1. Ready(flow, caller, m = 1)
    BY <1>5 DEF Ready, Waits
  <2>2. (m = 1) \in BOOLEAN
    OBVIOUS
  <2> HIDE DEF m, caller, used
  <2>3. QED BY <1>1, <1>5, <2>1, <2>2, ReturnKept
<1>7. frames' = Append(rest, new)
  <2>1. frames' = Append(rest, Moved(caller, x, y, z))
    BY DEF UseReturns, Moved
  <2>2. caller = [flow |-> caller.flow, next |-> caller.next, vars |-> caller.vars, missed |-> caller.missed]
    BY <1>5 DEF KeptUp
  <2>3. new = [flow |-> caller.flow, next |-> x, vars |-> y, missed |-> z]
    BY DEF AfterUse
  <2> HIDE DEF caller, used, x, y, z, new, rest
  <2>4. Moved(caller, x, y, z) = new
    BY <2>2, <2>3, FrameExcept
  <2>5. QED BY <2>1, <2>4
<1>8. new.flow = caller.flow
  BY DEF AfterUse
<1> HIDE DEF new
<1>9. /\ frames' \in Seq(Range(frames')) /\ Len(frames') = m /\ frames'[m] = new
      /\ \A k \in 1 .. m - 1 : frames'[k] = frames[k]
  <2>1. n - 2 \in 0 .. n /\ n - 2 = m - 1 /\ (m - 1) + 1 = m
    BY <1>3, <1>4
  <2>2. frames \in Seq(Range(frames) \cup {new}) /\ new \in Range(frames) \cup {new}
    BY <1>3
  <2>3. /\ rest \in Seq(Range(frames) \cup {new}) /\ Len(rest) = m - 1
        /\ \A k \in 1 .. m - 1 : rest[k] = frames[k]
    BY <1>3, <1>4, <2>1, <2>2
  <2> HIDE DEF rest, m
  <2>4. /\ frames' \in Seq(Range(frames) \cup {new}) /\ Len(frames') = (m - 1) + 1 /\ frames'[(m - 1) + 1] = new
        /\ \A k \in 1 .. m - 1 : frames'[k] = rest[k]
    BY <1>7, <2>2, <2>3, AppendProperties
  <2>5. QED BY <2>1, <2>3, <2>4, OwnRange
<1>10. m > 1 => Waits(frames[m - 1], frames'[m])
  <2>1. ASSUME m > 1 PROVE Waits(frames[m - 1], frames[m])
    <3>1. m \in 2 .. n
      BY <1>4, <2>1
    <3>2. QED BY <1>2, <3>1, FramesAre
  <2> HIDE DEF m, caller
  <2>2. QED BY <1>4, <1>8, <1>9, <2>1 DEF Waits
<1>11. RefsResolve' /\ UNCHANGED flow
  BY <1>1 DEF RefsResolve
<1>12. m \in 1 .. Len(frames) + 1
  BY <1>4
<1>13. KeptUp(flow, frames'[m], m = 1)
  BY <1>6, <1>9
<1> HIDE DEF m, n
<1>14. QED BY <1>2, <1>9, <1>10, <1>11, <1>12, <1>13, NewTop

LEMMA RefInitInv ==
  ASSUME RefInit
  PROVE  RefInv
<1>1. flow \in Flows /\ failed = {} /\ RefsResolve
  BY DEF RefInit, RefsResolve
<1>2. CASE FlowOK(flow)
  <2> DEFINE new == Frame(flow, {})
  <2>1. frames = <<new>>
    BY <1>2 DEF RefInit
  <2>2. flow \in Within(flow)
    BY DEF Within
  <2>3. WellFormed(flow)
    BY <1>1, <2>2, RefAssumption
  <2>4. KeptUp(flow, new, TRUE)
    BY <2>2, <2>3, NewKept
  <2> HIDE DEF new
  <2>5. frames \in Seq(Range(frames)) /\ DOMAIN frames = {1} /\ frames[1] = new
    <3>1. frames \in Seq({new}) /\ DOMAIN frames = {1} /\ frames[1] = new
      BY <2>1
    <3>2. QED BY <3>1, OwnRange
  <2>6. \A k \in DOMAIN frames : KeptUp(flow, frames[k], k = 1)
    BY <2>4, <2>5
  <2>7. QED BY <1>1, <1>2, <2>5, <2>6 DEF RefInv
<1>3. CASE ~ FlowOK(flow)
  <2>1. frames = <<>>
    BY <1>3 DEF RefInit
  <2>2. frames \in Seq(Range(frames)) /\ DOMAIN frames = {}
    BY <2>1
  <2>3. QED BY <1>1, <2>1, <2>2 DEF RefInv
<1>4. QED BY <1>2, <1>3

LEMMA RefInvNext ==
  ASSUME RefInv, [RefNext]_refVars
  PROVE  RefInv'
<1>1. CASE Request
  BY <1>1, RequestStep
<1>2. CASE Use
  BY <1>2, UseStep
<1>3. CASE UseReturns
  BY <1>3, UseReturnsStep
<1>4. CASE UNCHANGED refVars
  BY <1>4 DEF RefInv, RefsResolve, refVars
<1>5. QED BY <1>1, <1>2, <1>3, <1>4 DEF RefNext

LEMMA RefInvImplies ==
  ASSUME RefInv
  PROVE  NamesHold
<1>1. \A k \in DOMAIN frames : OwnVars(frames[k])
  BY DEF RefInv, KeptUp
<1>2. ScopesAreApart
  BY <1>1 DEF ScopesAreApart, OwnVars
<1>3. QED BY <1>2 DEF RefInv, NamesHold

(* For any flow files, however deep they nest, and any environment, row    *)
(* and extractions: in a flow the validator accepted a reference fails     *)
(* only for what lies outside the flow or was not extracted, and frames    *)
(* see nothing of one another but inputs and outputs (validateAs,          *)
(* checkRef, UseSpec.validate; Scope.Child, runUse).                       *)
THEOREM NamesAlwaysHold == RefSpec => []NamesHold
<1>1. RefInit => RefInv
  BY RefInitInv
<1>2. RefInv /\ [RefNext]_refVars => RefInv'
  BY RefInvNext
<1>3. RefInv => NamesHold
  BY RefInvImplies
<1>4. QED BY <1>1, <1>2, <1>3, PTL DEF RefSpec

-------------------------------------------------------------------------------
(* Pools whose rows go out in turn (PoolTurns). *)

(* A pool whose rows go out in turn: every row has had as many draws as    *)
(* the rounds that are over, and those up to the cursor one more.          *)
InTurns ==
  /\ order \in {"round-robin", "random"}
  /\ cursor \in 0 .. Rows - 1
  /\ drawn \in [1 .. Rows -> Nat]
  /\ order = "round-robin" =>
       \E k \in Nat : \A i \in 1 .. Rows : drawn[i] = IF i <= cursor THEN k + 1 ELSE k

LEMMA SomeRows == Rows \in Nat /\ Rows > 0
BY TurnsAssumption

(* The invariant holds at first, is kept by both kinds of draw, and says    *)
(* what PoolsEvenHanded says.                                              *)
LEMMA TurnsInitInv ==
  ASSUME TurnsInit
  PROVE  InTurns
<1>1. /\ order \in {"round-robin", "random"} /\ cursor = 0
      /\ drawn = [i \in 1 .. Rows |-> 0]
  BY DEF TurnsInit, RoundRobin!PoolInit, RoundRobin!Row
<1>2. \A i \in 1 .. Rows : drawn[i] = IF i <= cursor THEN 0 + 1 ELSE 0
  BY <1>1, SomeRows
<1>3. QED BY <1>1, <1>2, SomeRows DEF InTurns

(* The next row in turn is the one after the cursor; after the last row    *)
(* all have had one draw more.                                             *)
LEMMA InTurnStep ==
  ASSUME InTurns, NextInTurn
  PROVE  InTurns'
<1> USE SomeRows
<1>1. PICK row \in 1 .. Rows : RoundRobin!DrawRow(row)
  BY DEF NextInTurn
<1>2. /\ row = cursor + 1 /\ cursor' = (cursor + 1) % Rows
      /\ drawn' = [drawn EXCEPT ![row] = @ + 1] /\ order = "round-robin" /\ order' = order
  BY <1>1 DEF NextInTurn, RoundRobin!DrawRow, RoundRobin!DrawUnique, RoundRobin!DrawExhausted,
              RoundRobin!DrawRoundRobin, RoundRobin!DrawRandom, RoundRobin!DrawNothing, RoundRobin!HandOut
<1>3. PICK k \in Nat : \A i \in 1 .. Rows : drawn[i] = IF i <= cursor THEN k + 1 ELSE k
  BY <1>2 DEF InTurns
<1>4. cursor \in 0 .. Rows - 1 /\ drawn \in [1 .. Rows -> Nat] /\ drawn' \in [1 .. Rows -> Nat]
  <2>1. cursor \in 0 .. Rows - 1 /\ drawn \in [1 .. Rows -> Nat]
    BY DEF InTurns
  <2>2. QED BY <1>2, <2>1
<1>5. \A i \in 1 .. Rows : drawn'[i] = IF i <= cursor + 1 THEN k + 1 ELSE k
  BY <1>2, <1>3, <1>4
<1>6. CASE cursor + 1 = Rows
  <2>1. cursor' = 0
    BY <1>2, <1>6
  <2>2. \A i \in 1 .. Rows : drawn'[i] = IF i <= cursor' THEN (k + 1) + 1 ELSE k + 1
    BY <1>5, <1>6, <2>1
  <2>3. QED BY <1>2, <1>4, <2>1, <2>2 DEF InTurns
<1>7. CASE cursor + 1 # Rows
  <2>1. cursor' = cursor + 1
    BY <1>2, <1>4, <1>7
  <2>2. QED BY <1>2, <1>4, <1>5, <1>7, <2>1 DEF InTurns
<1>8. QED BY <1>6, <1>7

LEMMA RandomStep ==
  ASSUME InTurns, NextRandom
  PROVE  InTurns'
<1>1. PICK row \in 1 .. Rows : Random!DrawRow(row)
  BY DEF NextRandom
<1>2. /\ drawn' = [drawn EXCEPT ![row] = @ + 1] /\ cursor' = cursor
      /\ order = "random" /\ order' = order
  BY <1>1, TurnsAssumption DEF NextRandom, Random!DrawRow, Random!DrawUnique, Random!DrawExhausted,
              Random!DrawRoundRobin, Random!DrawRandom, Random!DrawNothing, Random!HandOut
<1>3. QED BY <1>2 DEF InTurns

LEMMA InTurnsImplies ==
  ASSUME InTurns
  PROVE  PoolsEvenHanded
<1>1. SUFFICES ASSUME order = "round-robin", NEW i \in 1 .. Rows, NEW j \in 1 .. Rows, i < j
               PROVE  drawn[i] - drawn[j] \in {0, 1}
  BY DEF PoolsEvenHanded, RoundRobin!EvenHanded, RoundRobin!Row
<1>2. PICK k \in Nat : \A r \in 1 .. Rows : drawn[r] = IF r <= cursor THEN k + 1 ELSE k
  BY <1>1 DEF InTurns
<1>3. i \in Int /\ j \in Int /\ cursor \in Int
  BY SomeRows DEF InTurns
<1>4. QED BY <1>1, <1>2, <1>3

(* However many rows a pool has and however often it is drawn from, rows   *)
(* that go out in turn go out evenly: at any moment a row was handed out   *)
(* as often as any after it, or once more (Pool.Next, internal/data).      *)
THEOREM PoolsStayEvenHanded == TurnsSpec => []PoolsEvenHanded
<1>1. TurnsInit => InTurns
  BY TurnsInitInv
<1>2. InTurns /\ [TurnsNext]_turnVars => InTurns'
  <2>1. ASSUME InTurns, UNCHANGED turnVars PROVE InTurns'
    BY <2>1 DEF InTurns, turnVars
  <2>2. QED BY <2>1, InTurnStep, RandomStep DEF TurnsNext
<1>3. InTurns => PoolsEvenHanded
  BY InTurnsImplies
<1>4. QED BY <1>1, <1>2, <1>3, PTL DEF TurnsSpec
===============================================================================
