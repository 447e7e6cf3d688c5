------------------------------- MODULE SpinLock -------------------------------
(***************************************************************************)
(* The kernel's spin locks (include/spinlock.h, arch_spinlock.h): a test-  *)
(* and-set bit per lock, taken with the CPU's interrupt flag saved and     *)
(* cleared first, and released before the flag is restored.  Sections nest *)
(* (migrate_task takes three locks), and an interrupt handler, which runs  *)
(* with interrupts off, may take the same locks as the code it interrupted *)
(* (kmalloc and printk are called from xhci_intr).                         *)
(***************************************************************************)
EXTENDS Naturals

CONSTANTS CPU,      \* the processors
          Lock,     \* the spin locks
          NoLock,   \* the lock of an interrupt frame, and the owner of a free lock
          Order,    \* {<<outer, inner>>}: which lock is taken inside which
          MaxDepth  \* bound on the nesting of sections and handlers on a CPU

ASSUME SpinLockAssumption == /\ NoLock \notin Lock
                             /\ NoLock \notin CPU
                             /\ MaxDepth \in Nat
                             /\ \A l \in Lock : <<l, l>> \notin Order

VARIABLES bit,   \* bit[l]: bit 0 of the lock word
          IF_,   \* IF_[c]: the interrupt flag of CPU c
          sti,   \* sti[c]: x86_cpu_init has executed its sti
          depth, \* depth[c]: how many sections and handlers are open on CPU c
          stk    \* stk[c][1 .. depth[c]]: their frames, innermost last

vars == <<bit, IF_, sti, depth, stk>>

(* An open frame.  at is where its code is: "spin" in spin_lock, "held" in   *)
(* the critical section, "restore" between spin_unlock and popf, "irq" in an *)
(* interrupt handler; flags is the saved interrupt flag.                     *)
Slot == 1 .. MaxDepth
Frame == [lock : Lock \cup {NoLock}, flags : BOOLEAN,
          at : {"none", "spin", "held", "restore", "irq"}]
NoFrame == [lock |-> NoLock, flags |-> FALSE, at |-> "none"]

Top(c) == stk[c][depth[c]]
TopAt(c, p) == depth[c] > 0 /\ Top(c).at = p
Push(c, f) == /\ depth[c] < MaxDepth
              /\ depth' = [depth EXCEPT ![c] = @ + 1]
              /\ stk' = [stk EXCEPT ![c][depth[c] + 1] = f]
Pop(c) == /\ depth' = [depth EXCEPT ![c] = @ - 1]
          /\ stk' = [stk EXCEPT ![c][depth[c]] = NoFrame]
MoveTo(c, p) == /\ stk' = [stk EXCEPT ![c][depth[c]] =
                                 [lock |-> @.lock, flags |-> @.flags, at |-> p]]
                /\ UNCHANGED depth

HeldAt(c, i, l) == stk[c][i].lock = l /\ stk[c][i].at = "held"
Holds(c, l) == \E i \in Slot : HeldAt(c, i, l)
SpinsOn(c, l) == TopAt(c, "spin") /\ Top(c).lock = l

(* The frames of the code being executed on c: those above the last          *)
(* interrupt.  The callers nest sections along Order, which may be cyclic    *)
(* (migrate_task locks the queue it takes from, the task and the queue it    *)
(* moves to, whichever these are), but they know nothing of what the code    *)
(* they interrupted holds.                                                   *)
Running(c) == {i \in 1 .. depth[c] : \A j \in i .. depth[c] : stk[c][j].at # "irq"}
MayNest(c, l) == \A i \in Running(c) : /\ stk[c][i].at = "held"
                                       /\ <<stk[c][i].lock, l>> \in Order

TypeOK == /\ bit \in [Lock -> BOOLEAN]
          /\ IF_ \in [CPU -> BOOLEAN]
          /\ sti \in [CPU -> BOOLEAN]
          /\ depth \in [CPU -> 0 .. MaxDepth]
          /\ stk \in [CPU -> [Slot -> Frame]]

(* All CPUs enter arch_init with interrupts off. *)
Init == /\ bit = [l \in Lock |-> FALSE]
        /\ IF_ = [c \in CPU |-> FALSE]
        /\ sti = [c \in CPU |-> FALSE]
        /\ depth = [c \in CPU |-> 0]
        /\ stk = [c \in CPU |-> [i \in Slot |-> NoFrame]]

-------------------------------------------------------------------------------
(* The end of x86_cpu_init: asm("sti"). *)
Sti(c) == /\ ~sti[c] /\ depth[c] = 0
          /\ sti' = [sti EXCEPT ![c] = TRUE]
          /\ IF_' = [IF_ EXCEPT ![c] = TRUE]
          /\ UNCHANGED <<bit, depth, stk>>

(* arch_local_irq_save: returns the old IF, masked out of the flags word,    *)
(* and clears it.  KeepIrqsOn is a version that leaves interrupts on.        *)
KeepIrqsOn(c, l) == /\ MayNest(c, l)
                    /\ Push(c, [lock |-> l, flags |-> IF_[c], at |-> "spin"])
                    /\ UNCHANGED <<bit, IF_, sti>>
LocalIrqSave(c, l) == /\ MayNest(c, l)
                      /\ Push(c, [lock |-> l, flags |-> IF_[c], at |-> "spin"])
                      /\ IF_' = [IF_ EXCEPT ![c] = FALSE]
                      /\ UNCHANGED <<bit, sti>>

(* spin_lock: lock btsq until the bit was clear.  A failed attempt changes   *)
(* nothing.  TestThenSet is a lock whose test and set are not one step.      *)
TestThenSet(c) == /\ TopAt(c, "spin")
                  /\ bit' = [bit EXCEPT ![Top(c).lock] = TRUE]
                  /\ MoveTo(c, "held")
                  /\ UNCHANGED <<IF_, sti>>
SpinLock(c) == /\ TopAt(c, "spin")
               /\ ~bit[Top(c).lock]
               /\ bit' = [bit EXCEPT ![Top(c).lock] = TRUE]
               /\ MoveTo(c, "held")
               /\ UNCHANGED <<IF_, sti>>

(* spin_unlock: lock btrq.  ForgetBit is an unlock that leaves the bit set.  *)
ForgetBit(c) == /\ TopAt(c, "held")
                /\ MoveTo(c, "restore")
                /\ UNCHANGED <<bit, IF_, sti>>
SpinUnlock(c) == /\ TopAt(c, "held")
                 /\ bit' = [bit EXCEPT ![Top(c).lock] = FALSE]
                 /\ MoveTo(c, "restore")
                 /\ UNCHANGED <<IF_, sti>>

(* arch_local_irq_restore: ors the saved IF into the flags.  RestoreIrqsOn   *)
(* is a restore that ignores what was saved.                                 *)
RestoreIrqsOn(c) == /\ TopAt(c, "restore")
                    /\ IF_' = [IF_ EXCEPT ![c] = TRUE]
                    /\ Pop(c)
                    /\ UNCHANGED <<bit, sti>>
LocalIrqRestore(c) == /\ TopAt(c, "restore")
                      /\ IF_' = [IF_ EXCEPT ![c] = IF_[c] \/ Top(c).flags]
                      /\ Pop(c)
                      /\ UNCHANGED <<bit, sti>>

(* An interrupt through an interrupt gate: the CPU pushes its flags and      *)
(* clears IF.                                                                *)
Interrupt(c) == /\ IF_[c]
                /\ Push(c, [lock |-> NoLock, flags |-> TRUE, at |-> "irq"])
                /\ IF_' = [IF_ EXCEPT ![c] = FALSE]
                /\ UNCHANGED <<bit, sti>>

(* iretq at the end of IRQ_COMMON loads the pushed flags. *)
Iret(c) == /\ TopAt(c, "irq")
           /\ IF_' = [IF_ EXCEPT ![c] = Top(c).flags]
           /\ Pop(c)
           /\ UNCHANGED <<bit, sti>>

Next == \E c \in CPU : \/ Sti(c) \/ Interrupt(c) \/ Iret(c)
                       \/ \E l \in Lock : LocalIrqSave(c, l)
                       \/ SpinLock(c) \/ SpinUnlock(c) \/ LocalIrqRestore(c)

(* A CPU inside a section or a handler keeps executing: nothing deschedules  *)
(* it there, since interrupts are off.  Nothing forces it to enter one.      *)
Leave(c) == SpinLock(c) \/ SpinUnlock(c) \/ LocalIrqRestore(c) \/ Iret(c)
Spec == Init /\ [][Next]_vars
FairSpec == Spec /\ \A c \in CPU : WF_vars(Leave(c))

-------------------------------------------------------------------------------
(* No two CPUs, and no two frames of one CPU, are in the critical section of *)
(* one lock; the bit is set exactly while somebody is (spin_lock and         *)
(* spin_unlock, arch_spinlock.h).                                            *)
MutualExclusion ==
    \A l \in Lock :
        /\ bit[l] <=> \E c \in CPU : Holds(c, l)
        /\ \A c, d \in CPU : \A i, j \in Slot :
              HeldAt(c, i, l) /\ HeldAt(d, j, l) => c = d /\ i = j

(* A CPU never waits for a lock that the code it has interrupted holds:      *)
(* nobody could ever release it.  It is what the irqsave in                  *)
(* __raw_spin_lock_irqsave, before the spin_lock, is for.                    *)
NoSelfDeadlock == \A c \in CPU, l \in Lock : ~(SpinsOn(c, l) /\ Holds(c, l))

(* After the last section and handler a CPU has the interrupt flag it had    *)
(* before them, and no nested unlock turns interrupts on inside an outer     *)
(* section (spin_unlock_irqrestore in reverse order, as in migrate_task).    *)
IrqFlagRestored ==
    \A c \in CPU : /\ depth[c] = 0 => IF_[c] = sti[c]
                   /\ (\E l \in Lock : Holds(c, l)) => ~IF_[c]

(* What makes the three inductive: an interrupt can only be the outermost    *)
(* frame, as every other frame runs with interrupts off; only the outermost  *)
(* frame can have saved a set flag; only the innermost is not yet, or no     *)
(* longer, in its critical section; and locks nest along Order.              *)
FrameInv == \A c \in CPU : \A i \in Slot :
    IF i > depth[c] THEN stk[c][i] = NoFrame
    ELSE /\ ~IF_[c]
         /\ stk[c][i].at # "none"
         /\ stk[c][i].at = "irq" <=> stk[c][i].lock = NoLock
         /\ stk[c][i].flags = (i = 1 /\ sti[c])
         /\ i # 1 => stk[c][i].at # "irq"
         /\ i # depth[c] => stk[c][i].at \in {"held", "irq"}
NestInv == \A c \in CPU : \A i, j \in Slot :
    i < j /\ j <= depth[c] /\ stk[c][i].at # "irq"
    => <<stk[c][i].lock, stk[c][j].lock>> \in Order
IInv == TypeOK /\ FrameInv /\ NestInv /\ MutualExclusion /\ IrqFlagRestored

(* Some CPUs wait for each other: each spins on a lock that one of them      *)
(* holds.  Two calls of migrate_task in opposite directions get there.       *)
CircularWait == \E S \in SUBSET CPU :
    /\ S # {}
    /\ \A c \in S : TopAt(c, "spin") /\ \E d \in S : Holds(d, Top(c).lock)

(* Whenever CPUs wait for locks, some CPU gets one, unless they wait for     *)
(* each other in a circle: a circle of sections nested in different orders,  *)
(* as opposite calls of migrate_task are (kernel/task.c:106), is the only    *)
(* way in which the spinning stops everybody.                                *)
LockProgress == (\E c \in CPU : TopAt(c, "spin"))
                ~> ((\E c \in CPU : TopAt(c, "held")) \/ CircularWait)

(* The promise of LockSpec, for the owner the open frames determine. *)
Owner == [l \in Lock |-> IF \E c \in CPU : Holds(c, l)
                         THEN CHOOSE c \in CPU : Holds(c, l) ELSE NoLock]
Abstract == INSTANCE LockSpec WITH NoOwner <- NoLock, owner <- Owner
ImplementsLockSpec == Abstract!Spec
===============================================================================
