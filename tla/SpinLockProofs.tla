---------------------------- MODULE SpinLockProofs ----------------------------
(***************************************************************************)
(* Proofs about SpinLock for any number of CPUs, locks and nested sections *)
(* and any irreflexive nesting order.  IInv is inductive: each action      *)
(* changes one slot of one CPU's stack, so every step below first says     *)
(* which slot that is and what it holds, and then goes through the parts   *)
(* of IInv that the action can disturb.                                    *)
(***************************************************************************)
EXTENDS SpinLock, WellFoundedInduction, TLAPS

(* A well-typed frame on the stack of c is in a slot. *)
LEMMA SlotFacts ==
    ASSUME TypeOK, NEW c \in CPU
    PROVE  /\ depth[c] \in Nat /\ depth[c] <= MaxDepth
           /\ depth[c] > 0 => depth[c] \in Slot
           /\ depth[c] < MaxDepth => depth[c] + 1 \in Slot
           /\ \A i \in Slot : /\ i \in Nat /\ i > 0 /\ i <= MaxDepth
                              /\ stk[c][i] \in Frame
                              /\ stk[c][i].flags \in BOOLEAN
                              /\ stk[c][i].lock \in Lock \cup {NoLock}
BY SpinLockAssumption DEF TypeOK, Slot, Frame

(* What Push does to the stacks. *)
LEMMA PushFacts ==
    ASSUME TypeOK, NEW c \in CPU, NEW f \in Frame, Push(c, f)
    PROVE  /\ depth[c] + 1 \in Slot
           /\ depth'[c] = depth[c] + 1
           /\ stk'[c][depth[c] + 1] = f
           /\ \A i \in Slot : i # depth[c] + 1 => stk'[c][i] = stk[c][i]
           /\ \A d \in CPU : d # c => depth'[d] = depth[d] /\ stk'[d] = stk[d]
           /\ depth' \in [CPU -> 0 .. MaxDepth]
           /\ stk' \in [CPU -> [Slot -> Frame]]
<1>1. depth[c] + 1 \in Slot /\ depth[c] + 1 \in 0 .. MaxDepth
  BY SpinLockAssumption DEF TypeOK, Push, Slot
<1>2. depth' = [depth EXCEPT ![c] = depth[c] + 1]
  BY DEF Push
<1>3. stk' = [stk EXCEPT ![c] = [stk[c] EXCEPT ![depth[c] + 1] = f]]
  BY DEF Push
<1>4. [stk[c] EXCEPT ![depth[c] + 1] = f] \in [Slot -> Frame]
  BY <1>1 DEF TypeOK
<1> QED
  BY <1>1, <1>2, <1>3, <1>4 DEF TypeOK

(* What Pop does to the stacks. *)
LEMMA PopFacts ==
    ASSUME TypeOK, NEW c \in CPU, depth[c] > 0, Pop(c)
    PROVE  /\ depth[c] \in Slot
           /\ depth'[c] = depth[c] - 1
           /\ stk'[c][depth[c]] = NoFrame
           /\ \A i \in Slot : i # depth[c] => stk'[c][i] = stk[c][i]
           /\ \A d \in CPU : d # c => depth'[d] = depth[d] /\ stk'[d] = stk[d]
           /\ depth' \in [CPU -> 0 .. MaxDepth]
           /\ stk' \in [CPU -> [Slot -> Frame]]
<1>1. depth[c] \in Slot /\ depth[c] - 1 \in 0 .. MaxDepth
  BY SpinLockAssumption DEF TypeOK, Slot
<1>2. depth' = [depth EXCEPT ![c] = depth[c] - 1]
  BY DEF Pop
<1>3. stk' = [stk EXCEPT ![c] = [stk[c] EXCEPT ![depth[c]] = NoFrame]]
  BY DEF Pop
<1>4. NoFrame \in Frame
  BY DEF NoFrame, Frame
<1>5. [stk[c] EXCEPT ![depth[c]] = NoFrame] \in [Slot -> Frame]
  BY <1>1, <1>4 DEF TypeOK
<1> QED
  BY <1>1, <1>2, <1>3, <1>5 DEF TypeOK

(* What MoveTo does to the stacks. *)
LEMMA MoveFacts ==
    ASSUME TypeOK, NEW c \in CPU, depth[c] > 0,
           NEW p \in {"held", "restore"}, MoveTo(c, p)
    PROVE  /\ depth[c] \in Slot
           /\ depth' = depth
           /\ stk'[c][depth[c]].at = p
           /\ stk'[c][depth[c]].lock = stk[c][depth[c]].lock
           /\ stk'[c][depth[c]].flags = stk[c][depth[c]].flags
           /\ \A i \in Slot : i # depth[c] => stk'[c][i] = stk[c][i]
           /\ \A d \in CPU : d # c => stk'[d] = stk[d]
           /\ stk' \in [CPU -> [Slot -> Frame]]
<1> DEFINE f == [lock |-> Top(c).lock, flags |-> Top(c).flags, at |-> p]
<1>1. depth[c] \in Slot
  BY SpinLockAssumption DEF TypeOK, Slot
<1>2. stk' = [stk EXCEPT ![c] = [stk[c] EXCEPT ![depth[c]] = f]]
  BY DEF MoveTo, Top
<1>3. /\ f \in Frame /\ f.at = p
      /\ f.lock = stk[c][depth[c]].lock
      /\ f.flags = stk[c][depth[c]].flags
  BY <1>1 DEF TypeOK, Frame, Top
<1> HIDE DEF f
<1>4. [stk[c] EXCEPT ![depth[c]] = f] \in [Slot -> Frame]
  BY <1>1, <1>3 DEF TypeOK
<1>5. depth' = depth
  BY DEF MoveTo
<1> QED
  BY <1>1, <1>2, <1>3, <1>4, <1>5 DEF TypeOK

-------------------------------------------------------------------------------
(* Only an interrupt can be outermost without being a section, so the        *)
(* sections below the top of a stack are the ones MayNest looks at.          *)
LEMMA RunningFrames ==
    ASSUME TypeOK, FrameInv, NEW c \in CPU, NEW l \in Lock, MayNest(c, l),
           NEW i \in Slot, i <= depth[c], stk[c][i].at # "irq"
    PROVE  stk[c][i].at = "held" /\ <<stk[c][i].lock, l>> \in Order
<1>1. \A j \in i .. depth[c] : j \in Slot /\ stk[c][j].at # "irq"
  <2> TAKE j \in i .. depth[c]
  <2>1. j \in Slot /\ ~(j > depth[c]) /\ (j = i \/ j # 1)
    BY SlotFacts, SpinLockAssumption DEF Slot
  <2> QED
    BY <2>1 DEF FrameInv
<1>2. i \in Running(c)
  BY <1>1, SlotFacts DEF Running, Slot
<1> QED
  BY <1>2 DEF MayNest

(* A step that moves nobody into or out of a critical section. *)
SectionsUnchanged == \A e \in CPU, i \in Slot, k \in Lock :
                         HeldAt(e, i, k)' <=> HeldAt(e, i, k)

(* The critical sections are the only part of the stacks MutualExclusion     *)
(* sees.                                                                     *)
LEMMA SameSections ==
    ASSUME IInv, bit' = bit, SectionsUnchanged
    PROVE  MutualExclusion'
BY DEF SectionsUnchanged, IInv, MutualExclusion, Holds

(* Entering a section: its frame becomes the innermost one. *)
LEMMA SaveStep ==
    ASSUME IInv, NEW c \in CPU, NEW l \in Lock, LocalIrqSave(c, l)
    PROVE  IInv' /\ SectionsUnchanged
<1> DEFINE f == [lock |-> l, flags |-> IF_[c], at |-> "spin"]
<1>1. /\ TypeOK /\ FrameInv /\ NestInv /\ MutualExclusion /\ IrqFlagRestored
  BY DEF IInv
<1>2. MayNest(c, l) /\ Push(c, f) /\ bit' = bit /\ sti' = sti
  BY DEF LocalIrqSave
<1>3. f \in Frame /\ f.lock = l /\ f.at = "spin" /\ f.flags = IF_[c]
  BY <1>1 DEF Frame, TypeOK
<1>4. IF_' \in [CPU -> BOOLEAN] /\ ~IF_'[c] /\ \A d \in CPU : d # c => IF_'[d] = IF_[d]
  BY <1>1 DEF LocalIrqSave, TypeOK
<1> HIDE DEF f
<1>5. /\ depth[c] + 1 \in Slot /\ depth'[c] = depth[c] + 1
      /\ stk'[c][depth[c] + 1] = f
      /\ \A i \in Slot : i # depth[c] + 1 => stk'[c][i] = stk[c][i]
      /\ \A d \in CPU : d # c => depth'[d] = depth[d] /\ stk'[d] = stk[d]
      /\ depth' \in [CPU -> 0 .. MaxDepth]
      /\ stk' \in [CPU -> [Slot -> Frame]]
  BY <1>1, <1>2, <1>3, PushFacts
<1>6. TypeOK'
  BY <1>1, <1>2, <1>4, <1>5 DEF TypeOK
<1>7. IF_[c] = (depth[c] + 1 = 1 /\ sti[c])
  <2>1. CASE depth[c] = 0
    BY <2>1, <1>1 DEF IrqFlagRestored, TypeOK
  <2>2. CASE depth[c] # 0
    BY <2>2, <1>1, SlotFacts DEF FrameInv, TypeOK
  <2> QED
    BY <2>1, <2>2
<1>8. FrameInv'
  <2> SUFFICES ASSUME NEW e \in CPU, NEW i \in Slot
               PROVE  IF i > depth'[e] THEN stk'[e][i] = NoFrame
                      ELSE /\ ~IF_'[e]
                           /\ stk'[e][i].at # "none"
                           /\ stk'[e][i].at = "irq" <=> stk'[e][i].lock = NoLock
                           /\ stk'[e][i].flags = (i = 1 /\ sti'[e])
                           /\ i # 1 => stk'[e][i].at # "irq"
                           /\ i # depth'[e] => stk'[e][i].at \in {"held", "irq"}
    BY DEF FrameInv
  <2>1. CASE e # c
    BY <2>1, <1>1, <1>2, <1>4, <1>5 DEF FrameInv
  <2>2. CASE e = c /\ i > depth[c] + 1
    BY <2>2, <1>1, <1>5, SlotFacts DEF FrameInv
  <2>3. CASE e = c /\ i = depth[c] + 1
    BY <2>3, <1>2, <1>3, <1>4, <1>5, <1>7, SlotFacts, SpinLockAssumption
  <2>4. CASE e = c /\ i <= depth[c]
    <3>1. stk[c][i].at \in {"held", "irq"}
      BY <2>4, <1>1, <1>2, RunningFrames
    <3>2. stk'[c][i] = stk[c][i] /\ ~(i > depth'[c]) /\ ~(i > depth[c])
      BY <2>4, <1>1, <1>5, SlotFacts
    <3> QED
      BY <2>4, <3>1, <3>2, <1>1, <1>2, <1>4 DEF FrameInv
  <2>5. i > depth[c] + 1 \/ i = depth[c] + 1 \/ i <= depth[c]
    BY <1>1, SlotFacts
  <2> QED
    BY <2>1, <2>2, <2>3, <2>4, <2>5
<1>9. NestInv'
  <2> SUFFICES ASSUME NEW e \in CPU, NEW i \in Slot, NEW j \in Slot,
                      i < j, j <= depth'[e], stk'[e][i].at # "irq"
               PROVE  <<stk'[e][i].lock, stk'[e][j].lock>> \in Order
    BY DEF NestInv
  <2>1. CASE e # c
    BY <2>1, <1>1, <1>5 DEF NestInv
  <2>2. CASE e = c /\ j <= depth[c]
    <3>1. stk'[c][i] = stk[c][i] /\ stk'[c][j] = stk[c][j]
      BY <2>2, <1>1, <1>5, SlotFacts
    <3> QED
      BY <3>1, <2>2, <1>1 DEF NestInv
  <2>3. CASE e = c /\ j = depth[c] + 1
    <3>1. stk'[c][i] = stk[c][i] /\ i <= depth[c]
      BY <2>3, <1>1, <1>5, SlotFacts
    <3> QED
      BY <3>1, <2>3, <1>1, <1>2, <1>3, <1>5, RunningFrames
  <2>4. ASSUME e = c PROVE j <= depth[c] \/ j = depth[c] + 1
    <3>1. j \in Nat /\ depth[c] \in Nat /\ j <= depth[c] + 1
      BY <2>4, <1>1, <1>5, SlotFacts
    <3> QED
      BY <3>1
  <2> QED
    BY <2>1, <2>2, <2>3, <2>4
<1>10. SectionsUnchanged
  <2> SUFFICES ASSUME NEW e \in CPU, NEW i \in Slot, NEW k \in Lock
               PROVE  HeldAt(e, i, k)' <=> HeldAt(e, i, k)
    BY DEF SectionsUnchanged
  <2>1. CASE e = c /\ i = depth[c] + 1
    <3>1. stk[c][i] = NoFrame
      BY <2>1, <1>1, SlotFacts DEF FrameInv
    <3> QED
      BY <3>1, <2>1, <1>3, <1>5 DEF HeldAt, NoFrame
  <2>2. CASE ~(e = c /\ i = depth[c] + 1)
    BY <2>2, <1>5 DEF HeldAt
  <2> QED
    BY <2>1, <2>2
<1>11. MutualExclusion'
  BY <1>2, <1>10, SameSections
<1>12. IrqFlagRestored'
  <2> SUFFICES ASSUME NEW e \in CPU
               PROVE  /\ depth'[e] = 0 => IF_'[e] = sti'[e]
                      /\ (\E k \in Lock : Holds(e, k)') => ~IF_'[e]
    BY DEF IrqFlagRestored
  <2>1. CASE e = c
    BY <2>1, <1>1, <1>4, <1>5, SlotFacts
  <2>2. CASE e # c
    BY <2>2, <1>1, <1>2, <1>4, <1>5, <1>10 DEF SectionsUnchanged, IrqFlagRestored, Holds
  <2> QED
    BY <2>1, <2>2
<1> QED
  BY <1>6, <1>8, <1>9, <1>11, <1>12, <1>10 DEF IInv

(* An interrupt: its frame becomes the outermost one, as IF is set only      *)
(* while no frame is open.                                                   *)
LEMMA InterruptStep ==
    ASSUME IInv, NEW c \in CPU, Interrupt(c)
    PROVE  IInv' /\ SectionsUnchanged
<1> DEFINE f == [lock |-> NoLock, flags |-> TRUE, at |-> "irq"]
<1>1. /\ TypeOK /\ FrameInv /\ NestInv /\ MutualExclusion /\ IrqFlagRestored
  BY DEF IInv
<1>2. IF_[c] /\ Push(c, f) /\ bit' = bit /\ sti' = sti
  BY DEF Interrupt
<1>3. f \in Frame /\ f.lock = NoLock /\ f.at = "irq" /\ f.flags = TRUE
  BY DEF Frame
<1>4. IF_' \in [CPU -> BOOLEAN] /\ ~IF_'[c] /\ \A d \in CPU : d # c => IF_'[d] = IF_[d]
  BY <1>1 DEF Interrupt, TypeOK
<1> HIDE DEF f
<1>5. /\ depth[c] + 1 \in Slot /\ depth'[c] = depth[c] + 1
      /\ stk'[c][depth[c] + 1] = f
      /\ \A i \in Slot : i # depth[c] + 1 => stk'[c][i] = stk[c][i]
      /\ \A d \in CPU : d # c => depth'[d] = depth[d] /\ stk'[d] = stk[d]
      /\ depth' \in [CPU -> 0 .. MaxDepth]
      /\ stk' \in [CPU -> [Slot -> Frame]]
  BY <1>1, <1>2, <1>3, PushFacts
<1>6. TypeOK'
  BY <1>1, <1>2, <1>4, <1>5 DEF TypeOK
<1>7. depth[c] = 0
  <2> SUFFICES ASSUME depth[c] # 0 PROVE FALSE
    OBVIOUS
  <2>1. depth[c] \in Slot /\ ~(depth[c] > depth[c])
    BY <1>1, SlotFacts
  <2> QED
    BY <2>1, <1>1, <1>2 DEF FrameInv
<1>8. sti[c] = TRUE
  BY <1>1, <1>2, <1>7 DEF IrqFlagRestored, TypeOK
<1>9. FrameInv'
  <2> SUFFICES ASSUME NEW e \in CPU, NEW i \in Slot
               PROVE  IF i > depth'[e] THEN stk'[e][i] = NoFrame
                      ELSE /\ ~IF_'[e]
                           /\ stk'[e][i].at # "none"
                           /\ stk'[e][i].at = "irq" <=> stk'[e][i].lock = NoLock
                           /\ stk'[e][i].flags = (i = 1 /\ sti'[e])
                           /\ i # 1 => stk'[e][i].at # "irq"
                           /\ i # depth'[e] => stk'[e][i].at \in {"held", "irq"}
    BY DEF FrameInv
  <2>1. CASE e # c
    BY <2>1, <1>1, <1>2, <1>4, <1>5 DEF FrameInv
  <2>2. CASE e = c /\ i > depth[c] + 1
    BY <2>2, <1>1, <1>5, SlotFacts DEF FrameInv
  <2>3. CASE e = c /\ i = depth[c] + 1
    <3>1. i = 1 /\ ~(i > depth'[c]) /\ i = depth'[c] /\ stk'[c][i] = f
      BY <2>3, <1>5, <1>7
    <3>2. f.flags = (i = 1 /\ sti'[c])
      BY <3>1, <1>2, <1>3, <1>8
    <3> QED
      BY <2>3, <3>1, <3>2, <1>3, <1>4
  <2>4. i > depth[c] + 1 \/ i = depth[c] + 1
    BY <1>1, <1>7, SlotFacts
  <2> QED
    BY <2>1, <2>2, <2>3, <2>4
<1>10. NestInv'
  <2> SUFFICES ASSUME NEW e \in CPU, NEW i \in Slot, NEW j \in Slot,
                      i < j, j <= depth'[e], stk'[e][i].at # "irq"
               PROVE  <<stk'[e][i].lock, stk'[e][j].lock>> \in Order
    BY DEF NestInv
  <2>1. ASSUME e = c PROVE FALSE
    <3>1. i \in Nat /\ i > 0 /\ j \in Nat /\ j <= 1
      BY <2>1, <1>1, <1>5, <1>7, SlotFacts
    <3> QED
      BY <3>1
  <2> QED
    BY <2>1, <1>1, <1>5 DEF NestInv
<1>11. SectionsUnchanged
  <2> SUFFICES ASSUME NEW e \in CPU, NEW i \in Slot, NEW k \in Lock
               PROVE  HeldAt(e, i, k)' <=> HeldAt(e, i, k)
    BY DEF SectionsUnchanged
  <2>1. CASE e = c /\ i = depth[c] + 1
    <3>1. stk[c][i] = NoFrame
      BY <2>1, <1>1, SlotFacts DEF FrameInv
    <3> QED
      BY <3>1, <2>1, <1>3, <1>5 DEF HeldAt, NoFrame
  <2>2. CASE ~(e = c /\ i = depth[c] + 1)
    BY <2>2, <1>5 DEF HeldAt
  <2> QED
    BY <2>1, <2>2
<1>12. MutualExclusion'
  BY <1>2, <1>11, SameSections
<1>13. IrqFlagRestored'
  <2> SUFFICES ASSUME NEW e \in CPU
               PROVE  /\ depth'[e] = 0 => IF_'[e] = sti'[e]
                      /\ (\E k \in Lock : Holds(e, k)') => ~IF_'[e]
    BY DEF IrqFlagRestored
  <2>1. CASE e = c
    BY <2>1, <1>1, <1>4, <1>5, SlotFacts
  <2>2. CASE e # c
    BY <2>2, <1>1, <1>2, <1>4, <1>5, <1>11 DEF SectionsUnchanged, IrqFlagRestored, Holds
  <2> QED
    BY <2>1, <2>2
<1> QED
  BY <1>6, <1>9, <1>10, <1>12, <1>13, <1>11 DEF IInv

(* Leaving a section or a handler: the innermost frame, which is not in its  *)
(* critical section, goes; IF gets what the frame has saved.                 *)
LEMMA PopStep ==
    ASSUME IInv, NEW c \in CPU, depth[c] > 0, Top(c).at # "held", Pop(c),
           bit' = bit, sti' = sti, IF_' = [IF_ EXCEPT ![c] = Top(c).flags]
    PROVE  IInv' /\ SectionsUnchanged
<1>1. /\ TypeOK /\ FrameInv /\ NestInv /\ MutualExclusion /\ IrqFlagRestored
  BY DEF IInv
<1>2. /\ depth[c] \in Slot /\ depth'[c] = depth[c] - 1
      /\ stk'[c][depth[c]] = NoFrame
      /\ \A i \in Slot : i # depth[c] => stk'[c][i] = stk[c][i]
      /\ \A d \in CPU : d # c => depth'[d] = depth[d] /\ stk'[d] = stk[d]
      /\ depth' \in [CPU -> 0 .. MaxDepth]
      /\ stk' \in [CPU -> [Slot -> Frame]]
  BY <1>1, PopFacts
<1>3. Top(c).flags \in BOOLEAN /\ Top(c).flags = (depth[c] = 1 /\ sti[c])
  BY <1>1, <1>2, SlotFacts DEF FrameInv, Top
<1>4. /\ IF_' \in [CPU -> BOOLEAN]
      /\ IF_'[c] = (depth[c] = 1 /\ sti[c])
      /\ \A d \in CPU : d # c => IF_'[d] = IF_[d]
  BY <1>1, <1>3 DEF TypeOK
<1>5. TypeOK'
  BY <1>1, <1>2, <1>4 DEF TypeOK
<1>6. FrameInv'
  <2> SUFFICES ASSUME NEW e \in CPU, NEW i \in Slot
               PROVE  IF i > depth'[e] THEN stk'[e][i] = NoFrame
                      ELSE /\ ~IF_'[e]
                           /\ stk'[e][i].at # "none"
                           /\ stk'[e][i].at = "irq" <=> stk'[e][i].lock = NoLock
                           /\ stk'[e][i].flags = (i = 1 /\ sti'[e])
                           /\ i # 1 => stk'[e][i].at # "irq"
                           /\ i # depth'[e] => stk'[e][i].at \in {"held", "irq"}
    BY DEF FrameInv
  <2>1. CASE e # c
    BY <2>1, <1>1, <1>2, <1>4 DEF FrameInv
  <2>2. CASE e = c /\ i > depth[c]
    BY <2>2, <1>1, <1>2, SlotFacts DEF FrameInv
  <2>3. CASE e = c /\ i = depth[c]
    BY <2>3, <1>1, <1>2, SlotFacts
  <2>4. CASE e = c /\ i < depth[c]
    <3>1. stk'[c][i] = stk[c][i] /\ ~(i > depth[c]) /\ ~(i > depth'[c]) /\ i # depth[c]
          /\ depth[c] # 1
      BY <2>4, <1>1, <1>2, SlotFacts
    <3> QED
      BY <2>4, <3>1, <1>1, <1>4 DEF FrameInv
  <2>5. i > depth[c] \/ i = depth[c] \/ i < depth[c]
    BY <1>1, SlotFacts
  <2> QED
    BY <2>1, <2>2, <2>3, <2>4, <2>5
<1>7. NestInv'
  <2> SUFFICES ASSUME NEW e \in CPU, NEW i \in Slot, NEW j \in Slot,
                      i < j, j <= depth'[e], stk'[e][i].at # "irq"
               PROVE  <<stk'[e][i].lock, stk'[e][j].lock>> \in Order
    BY DEF NestInv
  <2>1. CASE e # c
    BY <2>1, <1>1, <1>2 DEF NestInv
  <2>2. CASE e = c
    <3>1. stk'[c][i] = stk[c][i] /\ stk'[c][j] = stk[c][j] /\ j <= depth[c]
      BY <2>2, <1>1, <1>2, SlotFacts
    <3> QED
      BY <3>1, <2>2, <1>1 DEF NestInv
  <2> QED
    BY <2>1, <2>2
<1>8. SectionsUnchanged
  <2> SUFFICES ASSUME NEW e \in CPU, NEW i \in Slot, NEW k \in Lock
               PROVE  HeldAt(e, i, k)' <=> HeldAt(e, i, k)
    BY DEF SectionsUnchanged
  <2>1. CASE e = c /\ i = depth[c]
    BY <2>1, <1>2 DEF HeldAt, NoFrame, Top
  <2>2. CASE ~(e = c /\ i = depth[c])
    BY <2>2, <1>2 DEF HeldAt
  <2> QED
    BY <2>1, <2>2
<1>9. MutualExclusion'
  BY <1>8, SameSections
<1>10. IrqFlagRestored'
  <2> SUFFICES ASSUME NEW e \in CPU
               PROVE  /\ depth'[e] = 0 => IF_'[e] = sti'[e]
                      /\ (\E k \in Lock : Holds(e, k)') => ~IF_'[e]
    BY DEF IrqFlagRestored
  <2>1. CASE e = c
    <3>1. depth'[c] = 0 => IF_'[c] = sti'[c]
      BY <1>1, <1>2, <1>4, SlotFacts DEF TypeOK
    <3>2. ASSUME NEW k \in Lock, Holds(c, k)' PROVE ~IF_'[c]
      <4>1. PICK i \in Slot : HeldAt(c, i, k)
        BY <3>2, <1>8 DEF SectionsUnchanged, Holds
      <4>2. i # depth[c] /\ ~(i > depth[c])
        BY <4>1, <1>1 DEF HeldAt, Top, FrameInv, NoFrame
      <4>3. depth[c] # 1
        BY <4>2, <1>1, <1>2, SlotFacts
      <4> QED
        BY <4>3, <1>4
    <3> QED
      BY <2>1, <3>1, <3>2
  <2>2. CASE e # c
    BY <2>2, <1>1, <1>2, <1>4, <1>8 DEF SectionsUnchanged, IrqFlagRestored, Holds
  <2> QED
    BY <2>1, <2>2
<1> QED
  BY <1>5, <1>6, <1>7, <1>9, <1>10, <1>8 DEF IInv

(* spin_lock and spin_unlock leave every frame where it is and only move the *)
(* innermost one into, or out of, its critical section.                      *)
LEMMA MoveStep ==
    ASSUME IInv, NEW c \in CPU, depth[c] > 0, NEW p \in {"held", "restore"},
           MoveTo(c, p), Top(c).at \in {"spin", "held"},
           bit' \in [Lock -> BOOLEAN], IF_' = IF_, sti' = sti
    PROVE  /\ TypeOK' /\ FrameInv' /\ NestInv' /\ IrqFlagRestored'
           /\ Top(c).lock \in Lock
           /\ \A i \in Slot, k \in Lock :
                 i = depth[c] => (HeldAt(c, i, k)' <=> (k = Top(c).lock /\ p = "held"))
           /\ \A e \in CPU, i \in Slot, k \in Lock :
                 ~(e = c /\ i = depth[c]) => (HeldAt(e, i, k)' <=> HeldAt(e, i, k))
<1>1. /\ TypeOK /\ FrameInv /\ NestInv /\ MutualExclusion /\ IrqFlagRestored
  BY DEF IInv
<1>2. /\ depth[c] \in Slot /\ depth' = depth
      /\ stk'[c][depth[c]].at = p
      /\ stk'[c][depth[c]].lock = stk[c][depth[c]].lock
      /\ stk'[c][depth[c]].flags = stk[c][depth[c]].flags
      /\ \A i \in Slot : i # depth[c] => stk'[c][i] = stk[c][i]
      /\ \A d \in CPU : d # c => stk'[d] = stk[d]
      /\ stk' \in [CPU -> [Slot -> Frame]]
  BY <1>1, MoveFacts
<1>3. TypeOK'
  BY <1>1, <1>2 DEF TypeOK
<1>4. /\ stk[c][depth[c]].at # "irq" /\ stk[c][depth[c]].lock # NoLock
      /\ Top(c).lock \in Lock /\ ~IF_[c]
      /\ stk[c][depth[c]].flags = (depth[c] = 1 /\ sti[c])
  <2>1. Top(c) = stk[c][depth[c]] /\ ~(depth[c] > depth[c])
    BY <1>1, <1>2, SlotFacts DEF Top
  <2> QED
    BY <2>1, <1>1, <1>2, SlotFacts DEF FrameInv
<1>5. FrameInv'
  <2> SUFFICES ASSUME NEW e \in CPU, NEW i \in Slot
               PROVE  IF i > depth'[e] THEN stk'[e][i] = NoFrame
                      ELSE /\ ~IF_'[e]
                           /\ stk'[e][i].at # "none"
                           /\ stk'[e][i].at = "irq" <=> stk'[e][i].lock = NoLock
                           /\ stk'[e][i].flags = (i = 1 /\ sti'[e])
                           /\ i # 1 => stk'[e][i].at # "irq"
                           /\ i # depth'[e] => stk'[e][i].at \in {"held", "irq"}
    BY DEF FrameInv
  <2>1. CASE e # c
    BY <2>1, <1>1, <1>2 DEF FrameInv
  <2>2. CASE e = c /\ i # depth[c]
    BY <2>2, <1>1, <1>2 DEF FrameInv
  <2>3. CASE e = c /\ i = depth[c]
    <3>1. ~(i > depth'[c])
      BY <2>3, <1>1, <1>2, SlotFacts
    <3> QED
      BY <2>3, <3>1, <1>2, <1>4
  <2> QED
    BY <2>1, <2>2, <2>3
<1>6. NestInv'
  <2> SUFFICES ASSUME NEW e \in CPU, NEW i \in Slot, NEW j \in Slot,
                      i < j, j <= depth'[e], stk'[e][i].at # "irq"
               PROVE  <<stk'[e][i].lock, stk'[e][j].lock>> \in Order
    BY DEF NestInv
  <2>1. /\ stk'[e][i].lock = stk[e][i].lock /\ stk'[e][j].lock = stk[e][j].lock
        /\ stk[e][i].at # "irq"
    BY <1>2, <1>4
  <2> QED
    BY <2>1, <1>1, <1>2 DEF NestInv
<1>7. \A i \in Slot, k \in Lock :
         i = depth[c] => (HeldAt(c, i, k)' <=> (k = Top(c).lock /\ p = "held"))
  BY <1>2 DEF HeldAt, Top
<1>8. \A e \in CPU, i \in Slot, k \in Lock :
         ~(e = c /\ i = depth[c]) => (HeldAt(e, i, k)' <=> HeldAt(e, i, k))
  BY <1>2 DEF HeldAt
<1>9. IrqFlagRestored'
  <2> SUFFICES ASSUME NEW e \in CPU
               PROVE  /\ depth'[e] = 0 => IF_'[e] = sti'[e]
                      /\ (\E k \in Lock : Holds(e, k)') => ~IF_'[e]
    BY DEF IrqFlagRestored
  <2>1. CASE e = c
    BY <2>1, <1>1, <1>2, <1>4 DEF IrqFlagRestored
  <2>2. CASE e # c
    BY <2>2, <1>1, <1>2, <1>8 DEF IrqFlagRestored, Holds
  <2> QED
    BY <2>1, <2>2
<1> QED
  BY <1>3, <1>4, <1>5, <1>6, <1>7, <1>8, <1>9

(* Taking a lock: its bit was clear, so nobody was in its critical section.  *)
LEMMA LockStep ==
    ASSUME IInv, NEW c \in CPU, SpinLock(c)
    PROVE  /\ IInv'
           /\ \E l \in Lock : /\ Holds(c, l)' /\ \A e \in CPU : ~Holds(e, l)
                             /\ \A e \in CPU, k \in Lock :
                                   k # l => (Holds(e, k)' <=> Holds(e, k))
<1>1. /\ TypeOK /\ MutualExclusion
      /\ depth[c] > 0 /\ Top(c).at = "spin" /\ MoveTo(c, "held")
      /\ ~bit[Top(c).lock] /\ bit' = [bit EXCEPT ![Top(c).lock] = TRUE] /\ IF_' = IF_ /\ sti' = sti
  BY DEF IInv, SpinLock, TopAt
<1>2. bit' \in [Lock -> BOOLEAN]
  BY <1>1 DEF TypeOK
<1>l. PICK l \in Lock : l = Top(c).lock
  BY <1>1, <1>2, MoveStep
<1>3. /\ TypeOK' /\ FrameInv' /\ NestInv' /\ IrqFlagRestored'
      /\ \A i \in Slot, k \in Lock : i = depth[c] => (HeldAt(c, i, k)' <=> k = l)
      /\ \A e \in CPU, i \in Slot, k \in Lock :
            ~(e = c /\ i = depth[c]) => (HeldAt(e, i, k)' <=> HeldAt(e, i, k))
  BY <1>1, <1>2, <1>l, MoveStep
<1>4. depth[c] \in Slot
  BY <1>1, SlotFacts
<1>5. \A i \in Slot, k \in Lock : i = depth[c] => ~HeldAt(c, i, k)
  BY <1>1, <1>l DEF HeldAt, Top
<1>6. bit'[l] = TRUE /\ \A k \in Lock : k # l => bit'[k] = bit[k]
  BY <1>1, <1>l DEF TypeOK
<1>7. MutualExclusion'
  <2> SUFFICES ASSUME NEW k \in Lock
               PROVE  /\ bit'[k] <=> \E e \in CPU : \E i \in Slot : HeldAt(e, i, k)'
                      /\ \A e, d \in CPU : \A i, j \in Slot :
                            HeldAt(e, i, k)' /\ HeldAt(d, j, k)' => e = d /\ i = j
    BY DEF MutualExclusion, Holds
  <2>1. CASE k = l
    <3>1. \A e \in CPU, i \in Slot : ~HeldAt(e, i, k)
      BY <2>1, <1>1, <1>l DEF MutualExclusion, Holds
    <3> QED
      BY <3>1, <2>1, <1>3, <1>4, <1>6
  <2>2. CASE k # l
    <3>1. \A e \in CPU, i \in Slot : HeldAt(e, i, k)' <=> HeldAt(e, i, k)
      BY <2>2, <1>3, <1>5
    <3>2. bit'[k] = bit[k] /\ MutualExclusion
      BY <2>2, <1>1, <1>6
    <3> QED
      BY <3>1, <3>2 DEF MutualExclusion, Holds
  <2> QED
    BY <2>1, <2>2
<1>8. Holds(c, l)'
  BY <1>3, <1>4 DEF Holds
<1>9. \A e \in CPU : ~Holds(e, l)
  BY <1>1, <1>l DEF MutualExclusion
<1>10. \A e \in CPU, k \in Lock : k # l => (Holds(e, k)' <=> Holds(e, k))
  BY <1>3, <1>5 DEF Holds
<1> QED
  BY <1>3, <1>7, <1>8, <1>9, <1>10 DEF IInv

(* Releasing a lock: the only frame in its critical section leaves it.       *)
LEMMA UnlockStep ==
    ASSUME IInv, NEW c \in CPU, SpinUnlock(c)
    PROVE  /\ IInv'
           /\ \E l \in Lock : /\ Holds(c, l) /\ \A e \in CPU : ~Holds(e, l)'
                             /\ \A e \in CPU, k \in Lock :
                                   k # l => (Holds(e, k)' <=> Holds(e, k))
<1>1. /\ TypeOK /\ MutualExclusion
      /\ depth[c] > 0 /\ Top(c).at = "held" /\ MoveTo(c, "restore")
      /\ bit' = [bit EXCEPT ![Top(c).lock] = FALSE] /\ IF_' = IF_ /\ sti' = sti
  BY DEF IInv, SpinUnlock, TopAt
<1>2. bit' \in [Lock -> BOOLEAN]
  BY <1>1 DEF TypeOK
<1>l. PICK l \in Lock : l = Top(c).lock
  BY <1>1, <1>2, MoveStep
<1>3. /\ TypeOK' /\ FrameInv' /\ NestInv' /\ IrqFlagRestored'
      /\ \A i \in Slot, k \in Lock : i = depth[c] => ~HeldAt(c, i, k)'
      /\ \A e \in CPU, i \in Slot, k \in Lock :
            ~(e = c /\ i = depth[c]) => (HeldAt(e, i, k)' <=> HeldAt(e, i, k))
  BY <1>1, <1>2, <1>l, MoveStep
<1>4. depth[c] \in Slot
  BY <1>1, SlotFacts
<1>5. \A i \in Slot, k \in Lock : i = depth[c] => (HeldAt(c, i, k) <=> k = l)
  BY <1>1, <1>l DEF HeldAt, Top
<1>6. bit'[l] = FALSE /\ \A k \in Lock : k # l => bit'[k] = bit[k]
  BY <1>1, <1>l DEF TypeOK
<1>7. MutualExclusion'
  <2> SUFFICES ASSUME NEW k \in Lock
               PROVE  /\ bit'[k] <=> \E e \in CPU : \E i \in Slot : HeldAt(e, i, k)'
                      /\ \A e, d \in CPU : \A i, j \in Slot :
                            HeldAt(e, i, k)' /\ HeldAt(d, j, k)' => e = d /\ i = j
    BY DEF MutualExclusion, Holds
  <2>1. CASE k = l
    <3>1. \A e \in CPU, i \in Slot : HeldAt(e, i, k) => e = c /\ i = depth[c]
      BY <2>1, <1>1, <1>4, <1>5 DEF MutualExclusion
    <3>2. \A e \in CPU, i \in Slot : ~HeldAt(e, i, k)'
      BY <3>1, <1>3
    <3> QED
      BY <3>2, <2>1, <1>6
  <2>2. CASE k # l
    <3>1. \A e \in CPU, i \in Slot : HeldAt(e, i, k)' <=> HeldAt(e, i, k)
      BY <2>2, <1>3, <1>5
    <3>2. bit'[k] = bit[k] /\ MutualExclusion
      BY <2>2, <1>1, <1>6
    <3> QED
      BY <3>1, <3>2 DEF MutualExclusion, Holds
  <2> QED
    BY <2>1, <2>2
<1>8. Holds(c, l)
  BY <1>3, <1>4, <1>5 DEF Holds
<1>9. \A e \in CPU : ~Holds(e, l)'
  BY <1>3, <1>6, <1>7 DEF MutualExclusion
<1>10. \A e \in CPU, k \in Lock : k # l => (Holds(e, k)' <=> Holds(e, k))
  BY <1>3, <1>5 DEF Holds
<1> QED
  BY <1>3, <1>7, <1>8, <1>9, <1>10 DEF IInv

-------------------------------------------------------------------------------
(* The end of x86_cpu_init, with no frame open. *)
LEMMA StiStep ==
    ASSUME IInv, NEW c \in CPU, Sti(c)
    PROVE  IInv' /\ SectionsUnchanged
<1>1. /\ TypeOK /\ FrameInv /\ NestInv /\ MutualExclusion /\ IrqFlagRestored
  BY DEF IInv
<1>2. /\ depth[c] = 0 /\ bit' = bit /\ depth' = depth /\ stk' = stk
      /\ sti' \in [CPU -> BOOLEAN] /\ sti'[c] = TRUE
      /\ IF_' \in [CPU -> BOOLEAN] /\ IF_'[c] = TRUE
      /\ \A d \in CPU : d # c => sti'[d] = sti[d] /\ IF_'[d] = IF_[d]
  BY <1>1 DEF Sti, TypeOK
<1>3. TypeOK' /\ NestInv' /\ SectionsUnchanged
  BY <1>1, <1>2 DEF TypeOK, NestInv, SectionsUnchanged, HeldAt
<1>4. FrameInv'
  <2> SUFFICES ASSUME NEW e \in CPU, NEW i \in Slot
               PROVE  IF i > depth'[e] THEN stk'[e][i] = NoFrame
                      ELSE /\ ~IF_'[e]
                           /\ stk'[e][i].at # "none"
                           /\ stk'[e][i].at = "irq" <=> stk'[e][i].lock = NoLock
                           /\ stk'[e][i].flags = (i = 1 /\ sti'[e])
                           /\ i # 1 => stk'[e][i].at # "irq"
                           /\ i # depth'[e] => stk'[e][i].at \in {"held", "irq"}
    BY DEF FrameInv
  <2>1. CASE e = c
    BY <2>1, <1>1, <1>2, SlotFacts DEF FrameInv
  <2>2. CASE e # c
    BY <2>2, <1>1, <1>2 DEF FrameInv
  <2> QED
    BY <2>1, <2>2
<1>5. IrqFlagRestored'
  <2> SUFFICES ASSUME NEW e \in CPU
               PROVE  /\ depth'[e] = 0 => IF_'[e] = sti'[e]
                      /\ (\E k \in Lock : Holds(e, k)') => ~IF_'[e]
    BY DEF IrqFlagRestored
  <2>1. CASE e = c
    <3>1. \A i \in Slot : stk'[c][i] = NoFrame
      BY <1>1, <1>2, SlotFacts DEF FrameInv
    <3> QED
      BY <2>1, <3>1, <1>2 DEF Holds, HeldAt, NoFrame
  <2>2. CASE e # c
    BY <2>2, <1>1, <1>2, <1>3 DEF SectionsUnchanged, IrqFlagRestored, Holds
  <2> QED
    BY <2>1, <2>2
<1>6. MutualExclusion'
  BY <1>2, <1>3, SameSections
<1> QED
  BY <1>3, <1>4, <1>5, <1>6 DEF IInv

(* Restoring the flags and returning from an interrupt are the two ways to   *)
(* leave a frame: popf can only set IF, but IF is clear in a frame.          *)
LEMMA LeaveStep ==
    ASSUME IInv, NEW c \in CPU, LocalIrqRestore(c) \/ Iret(c)
    PROVE  IInv' /\ SectionsUnchanged
<1>1. TypeOK /\ FrameInv
  BY DEF IInv
<1>2. depth[c] > 0 /\ Pop(c) /\ bit' = bit /\ sti' = sti /\ Top(c).at # "held"
  BY DEF LocalIrqRestore, Iret, TopAt
<1>3. depth[c] \in Slot /\ ~(depth[c] > depth[c])
  BY <1>1, <1>2, SlotFacts
<1>4. Top(c).flags \in BOOLEAN /\ IF_[c] = FALSE
  BY <1>1, <1>3, SlotFacts DEF FrameInv, Top, TypeOK
<1>5. IF_' = [IF_ EXCEPT ![c] = Top(c).flags]
  <2>1. CASE LocalIrqRestore(c)
    <3>1. (IF_[c] \/ Top(c).flags) = Top(c).flags
      BY <1>4
    <3> QED
      BY <2>1, <3>1 DEF LocalIrqRestore
  <2>2. CASE Iret(c)
    BY <2>2 DEF Iret
  <2> QED
    BY <2>1, <2>2
<1> QED
  BY <1>2, <1>5, PopStep

(* No CPU is in a section when arch_init begins. *)
LEMMA InitIInv == Init => IInv
<1> SUFFICES ASSUME Init PROVE IInv
  OBVIOUS
<1>1. NoFrame \in Frame /\ NoFrame.at = "none"
  BY DEF NoFrame, Frame
<1>2. TypeOK
  BY <1>1, SpinLockAssumption DEF Init, TypeOK
<1>3. \A c \in CPU, i \in Slot : stk[c][i] = NoFrame
  BY DEF Init
<1>4. FrameInv /\ NestInv
  BY <1>2, <1>3, SlotFacts DEF Init, FrameInv, NestInv
<1>5. \A c \in CPU, i \in Slot, l \in Lock : ~HeldAt(c, i, l)
  BY <1>1, <1>3 DEF HeldAt
<1>6. MutualExclusion /\ IrqFlagRestored
  BY <1>5 DEF Init, MutualExclusion, IrqFlagRestored, Holds
<1> QED
  BY <1>2, <1>4, <1>6 DEF IInv

(* Every step of every CPU preserves IInv. *)
LEMMA NextIInv == IInv /\ [Next]_vars => IInv'
<1> SUFFICES ASSUME IInv, [Next]_vars PROVE IInv'
  OBVIOUS
<1>1. ASSUME NEW c \in CPU, Sti(c) PROVE IInv'
  BY <1>1, StiStep
<1>2. ASSUME NEW c \in CPU, NEW l \in Lock, LocalIrqSave(c, l) PROVE IInv'
  BY <1>2, SaveStep
<1>3. ASSUME NEW c \in CPU, SpinLock(c) PROVE IInv'
  BY <1>3, LockStep
<1>4. ASSUME NEW c \in CPU, SpinUnlock(c) PROVE IInv'
  BY <1>4, UnlockStep
<1>5. ASSUME NEW c \in CPU, LocalIrqRestore(c) \/ Iret(c) PROVE IInv'
  BY <1>5, LeaveStep
<1>6. ASSUME NEW c \in CPU, Interrupt(c) PROVE IInv'
  BY <1>6, InterruptStep
<1>7. CASE UNCHANGED vars
  BY <1>7 DEF vars, IInv, TypeOK, FrameInv, NestInv, MutualExclusion, IrqFlagRestored,
              Holds, HeldAt
<1> QED
  BY <1>1, <1>2, <1>3, <1>4, <1>5, <1>6, <1>7 DEF Next

(* IInv holds in every reachable state. *)
THEOREM Inductive == Spec => []IInv
<1> QED
  BY InitIInv, NextIInv, PTL DEF Spec

(* The bits, flags and frames keep their types on any number of CPUs. *)
THEOREM TypeCorrect == Spec => []TypeOK
<1>1. IInv => TypeOK
  BY DEF IInv
<1> QED
  BY <1>1, Inductive, PTL

(* No two frames of any CPUs are in the critical section of one lock, and    *)
(* the lock's bit tells whether one is (spin_lock, spin_unlock).             *)
THEOREM MutexTheorem == Spec => []MutualExclusion
<1>1. IInv => MutualExclusion
  BY DEF IInv
<1> QED
  BY <1>1, Inductive, PTL

(* Interrupts are off inside every section, at any depth of nesting, and a   *)
(* CPU that has left them all has the flag it started with.                  *)
THEOREM IrqFlagTheorem == Spec => []IrqFlagRestored
<1>1. IInv => IrqFlagRestored
  BY DEF IInv
<1> QED
  BY <1>1, Inductive, PTL

(* No CPU spins on a lock its own interrupted or outer code holds: the       *)
(* frames below the spinning one hold locks ordered strictly before its own. *)
THEOREM NoSelfDeadlockTheorem == Spec => []NoSelfDeadlock
<1>1. IInv => NoSelfDeadlock
  <2> SUFFICES ASSUME IInv, NEW c \in CPU, NEW l \in Lock, SpinsOn(c, l), Holds(c, l)
               PROVE  FALSE
    BY DEF NoSelfDeadlock
  <2>1. TypeOK /\ FrameInv /\ NestInv
    BY DEF IInv
  <2>2. PICK i \in Slot : stk[c][i].lock = l /\ stk[c][i].at = "held"
    BY DEF Holds, HeldAt
  <2>3. depth[c] > 0 /\ stk[c][depth[c]].at = "spin" /\ stk[c][depth[c]].lock = l
    BY DEF SpinsOn, TopAt, Top
  <2>4. i # depth[c] /\ ~(i > depth[c])
    BY <2>1, <2>2, <2>3 DEF FrameInv, NoFrame
  <2>5. depth[c] \in Slot /\ i < depth[c] /\ depth[c] <= depth[c]
    BY <2>1, <2>3, <2>4, SlotFacts
  <2>6. <<stk[c][i].lock, stk[c][depth[c]].lock>> \in Order
    BY <2>1, <2>2, <2>5 DEF NestInv
  <2> QED
    BY <2>2, <2>3, <2>6, SpinLockAssumption
<1> QED
  BY <1>1, Inductive, PTL

(* Which lock is taken directly inside which, the inner one first. *)
Inside == {p \in Lock \X Lock : <<p[2], p[1]>> \in Order}

(* CPUs never wait for each other in a circle when the locks cannot be       *)
(* followed inward for ever, as when the callers nest them by rank.  It is   *)
(* the discipline migrate_task lacks, and the weakest that excludes the      *)
(* exception of LockProgress: of the locks the CPUs of a circle spin on, one *)
(* would have none of the others inside it, but its holder spins on one.     *)
THEOREM OrderedTheorem ==
    ASSUME IsWellFoundedOn(Inside, Lock)
    PROVE  Spec => []~CircularWait
<1>1. IInv => ~CircularWait
  <2> SUFFICES ASSUME IInv, CircularWait
               PROVE  FALSE
    OBVIOUS
  <2>1. TypeOK /\ FrameInv /\ NestInv
    BY DEF IInv
  <2>2. PICK S \in SUBSET CPU :
               /\ S # {}
               /\ \A c \in S : TopAt(c, "spin") /\ \E d \in S : Holds(d, Top(c).lock)
    BY DEF CircularWait
  <2>3. \A c \in S : depth[c] \in Slot /\ depth[c] > 0 /\ stk[c][depth[c]].at = "spin"
                     /\ Top(c).lock = stk[c][depth[c]].lock
    BY <2>1, <2>2, SlotFacts DEF TopAt, Top
  <2>4. \A c \in S : Top(c).lock \in Lock
    <3> SUFFICES ASSUME NEW c \in S
                 PROVE  Top(c).lock \in Lock
      OBVIOUS
    <3>1. ~(depth[c] > depth[c])
      BY <2>1, <2>2, <2>3, SlotFacts
    <3>2. stk[c][depth[c]].lock # NoLock
      BY <3>1, <2>1, <2>2, <2>3 DEF FrameInv
    <3> QED
      BY <3>2, <2>1, <2>2, <2>3, SlotFacts
  <2>5. PICK T : T = {Top(c).lock : c \in S}
    OBVIOUS
  <2>6. PICK x \in T : \A y \in T : ~(<<y, x>> \in Inside)
    <3>1. T \subseteq Lock
      BY <2>4, <2>5
    <3>2. PICK c \in S : TRUE
      BY <2>2
    <3>3. Top(c).lock \in T
      BY <2>5, <3>2
    <3> QED
      BY <3>1, <3>3, WFMin
  <2>7. PICK c \in S : x = Top(c).lock
    BY <2>5
  <2>8. PICK d \in S : Holds(d, x)
    BY <2>2, <2>7
  <2>9. PICK i \in Slot : stk[d][i].lock = x /\ stk[d][i].at = "held"
    BY <2>8 DEF Holds, HeldAt
  <2>10. i # depth[d] /\ ~(i > depth[d])
    BY <2>1, <2>2, <2>3, <2>9 DEF FrameInv, NoFrame
  <2>11. i < depth[d] /\ depth[d] <= depth[d]
    <3>1. d \in CPU
      BY <2>2
    <3>2. depth[d] \in Nat /\ i \in Nat
      BY <2>1, <3>1, SlotFacts
    <3> QED
      BY <3>2, <2>10
  <2>12. <<x, Top(d).lock>> \in Order
    BY <2>1, <2>2, <2>3, <2>9, <2>11 DEF NestInv
  <2>13. <<Top(d).lock, x>> \in Inside
    BY <2>4, <2>7, <2>12 DEF Inside
  <2> QED
    BY <2>5, <2>6, <2>13
<1> QED
  BY <1>1, Inductive, PTL

-------------------------------------------------------------------------------
(* The owner of a lock is the CPU in its critical section: MutualExclusion   *)
(* determines the CPU that Owner chooses.                                    *)
LEMMA OwnerFacts ==
    ASSUME IInv, NEW l \in Lock
    PROVE  /\ \A c \in CPU : Holds(c, l) => Owner[l] = c
           /\ (\A c \in CPU : ~Holds(c, l)) => Owner[l] = NoLock
<1>1. ASSUME NEW c \in CPU, Holds(c, l)
      PROVE  (CHOOSE d \in CPU : Holds(d, l)) = c
  <2>1. \A d \in CPU : Holds(d, l) => d = c
    BY <1>1 DEF IInv, MutualExclusion, Holds
  <2> QED
    BY <1>1, <2>1
<1>2. Owner[l] = IF \E c \in CPU : Holds(c, l)
                 THEN CHOOSE c \in CPU : Holds(c, l) ELSE NoLock
  BY DEF Owner
<1> QED
  BY <1>1, <1>2

(* Spin locks implement LockSpec: taking the bit is its Acquire, clearing it *)
(* its Release, and everything else leaves the owners alone.                 *)
THEOREM Refinement == Spec => ImplementsLockSpec
<1>1. Init => Abstract!Init
  <2> SUFFICES ASSUME Init PROVE Owner = [l \in Lock |-> NoLock]
    BY DEF Abstract!Init
  <2>1. \A c \in CPU, l \in Lock : ~Holds(c, l)
    BY DEF Init, Holds, HeldAt, NoFrame
  <2>2. \A l \in Lock : Owner[l] = NoLock
    BY <2>1, InitIInv, OwnerFacts
  <2> QED
    BY <2>2 DEF Owner
<1>2. IInv /\ IInv' /\ [Next]_vars => [Abstract!Next]_Owner
  <2> SUFFICES ASSUME IInv, IInv', [Next]_vars PROVE Abstract!Next \/ Owner' = Owner
    OBVIOUS
  <2>1. \A l \in Lock : /\ \A c \in CPU : Holds(c, l)' => Owner'[l] = c
                        /\ (\A c \in CPU : ~Holds(c, l)') => Owner'[l] = NoLock
    <3>1. ASSUME NEW l \in Lock, NEW c \in CPU, Holds(c, l)'
          PROVE  (CHOOSE d \in CPU : Holds(d, l)') = c
      <4>1. \A d \in CPU : Holds(d, l)' => d = c
        BY <3>1 DEF IInv, MutualExclusion, Holds
      <4> QED
        BY <3>1, <4>1
    <3>2. \A l \in Lock : Owner'[l] = IF \E c \in CPU : Holds(c, l)'
                                      THEN CHOOSE c \in CPU : Holds(c, l)' ELSE NoLock
      BY DEF Owner
    <3> QED
      BY <3>1, <3>2
  <2>2. \A l \in Lock : /\ \A c \in CPU : Holds(c, l) => Owner[l] = c
                        /\ (\A c \in CPU : ~Holds(c, l)) => Owner[l] = NoLock
    BY OwnerFacts
  <2>3. ASSUME NEW k \in Lock, \A c \in CPU : Holds(c, k)' <=> Holds(c, k)
        PROVE  Owner'[k] = Owner[k]
    <3>1. CASE \E c \in CPU : Holds(c, k)
      <4>1. PICK c \in CPU : Holds(c, k)
        BY <3>1
      <4>2. Owner[k] = c
        BY <4>1, <2>2
      <4>3. Owner'[k] = c
        BY <4>1, <2>1, <2>3
      <4> QED
        BY <4>2, <4>3
    <3>2. CASE \A c \in CPU : ~Holds(c, k)
      <4>1. Owner[k] = NoLock
        BY <3>2, <2>2
      <4>2. Owner'[k] = NoLock
        BY <3>2, <2>1, <2>3
      <4> QED
        BY <4>1, <4>2
    <3> QED
      BY <3>1, <3>2
  <2>4. ASSUME SectionsUnchanged PROVE Owner' = Owner
    <3>1. \A c \in CPU, l \in Lock : Holds(c, l)' <=> Holds(c, l)
      BY <2>4 DEF SectionsUnchanged, Holds
    <3>2. \A l \in Lock : Owner'[l] = Owner[l]
      BY <3>1, <2>3
    <3> QED
      BY <3>2 DEF Owner
  <2>5. ASSUME NEW c \in CPU, SpinLock(c) PROVE Abstract!Next
    <3>1. PICK l \in Lock : /\ Holds(c, l)' /\ \A e \in CPU : ~Holds(e, l)
                            /\ \A e \in CPU, k \in Lock :
                                  k # l => (Holds(e, k)' <=> Holds(e, k))
      BY <2>5, LockStep
    <3>2. Owner[l] = NoLock /\ Owner'[l] = c
      BY <3>1, <2>1, <2>2
    <3>3. \A k \in Lock : k # l => Owner'[k] = Owner[k]
      BY <3>1, <2>3
    <3>4. Owner' = [Owner EXCEPT ![l] = c]
      BY <3>2, <3>3 DEF Owner
    <3> QED
      BY <3>2, <3>4 DEF Abstract!Next, Abstract!Acquire
  <2>6. ASSUME NEW c \in CPU, SpinUnlock(c) PROVE Abstract!Next
    <3>1. PICK l \in Lock : /\ Holds(c, l) /\ \A e \in CPU : ~Holds(e, l)'
                            /\ \A e \in CPU, k \in Lock :
                                  k # l => (Holds(e, k)' <=> Holds(e, k))
      BY <2>6, UnlockStep
    <3>2. Owner[l] = c /\ Owner'[l] = NoLock
      BY <3>1, <2>1, <2>2
    <3>3. \A k \in Lock : k # l => Owner'[k] = Owner[k]
      BY <3>1, <2>3
    <3>4. Owner' = [Owner EXCEPT ![l] = NoLock]
      BY <3>2, <3>3 DEF Owner
    <3> QED
      BY <3>2, <3>4 DEF Abstract!Next, Abstract!Release
  <2>7. ASSUME UNCHANGED vars PROVE SectionsUnchanged
    BY <2>7 DEF vars, SectionsUnchanged, HeldAt
  <2> QED
    BY <2>4, <2>5, <2>6, <2>7, StiStep, SaveStep, InterruptStep, LeaveStep DEF Next
<1> QED
  BY <1>1, <1>2, Inductive, PTL DEF Spec, ImplementsLockSpec, Abstract!Spec
===============================================================================
