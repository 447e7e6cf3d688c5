------------------------------ MODULE IrqVectors ------------------------------
(***************************************************************************)
(* Interrupt vectors (include/bitmap.h, kernel/irq.c) and what the PCI     *)
(* core and its drivers do with them (MSI and MSI-X set-up in pci.c, the   *)
(* probe functions): every CPU has a bitmap of vectors and a list of       *)
(* handlers per vector; a probe takes vectors, programs them into its      *)
(* device and registers its handler for each.                              *)
(*                                                                         *)
(* The boot processor, CPU 0, probes all devices before it wakes the       *)
(* others; each CPU then takes a vector of its own for its timer.          *)
(* Interrupts are numbered from 0 as in the code: the vector on the CPU is *)
(* 32 more.                                                                *)
(***************************************************************************)
EXTENDS Integers, FiniteSets

CONSTANTS N,       \* the most CPUs there may be
          NR,      \* irq_nr, 256 - 32
          Dev,     \* the PCI devices that have a driver
          Timer,   \* the owner of the timer interrupts, not a device
          msi,     \* msi[d]: MSI vectors d asks for, 0 without the capability
          msix     \* msix[d]: entries of d's MSI-X table, 0 without the capability,
                   \* or if its driver does not use it

CPU == 0 .. N - 1

ASSUME IrqAssumption ==
    /\ N \in Nat \ {0} /\ NR \in Nat
    /\ Timer \notin Dev
    /\ msi \in [Dev -> Nat] /\ msix \in [Dev -> Nat]
    /\ \A d \in Dev : msi[d] # 0 => NR % msi[d] = 0

VARIABLES nr_cpus,  \* how many CPUs ACPI has reported (never changes)
          bitmap,   \* bitmap[c]: the interrupts whose bit is set
          action,   \* action[c][i]: who has a handler for interrupt i on CPU c
          boot,     \* boot[c]: "off", "irqs" after setup_irq, "timer" with its timer
          probe,    \* probe[d]: where the probe of d is
          entries,  \* entries[d]: the interrupts on d's irq_list, as they were added
          mode      \* mode[d]: what is enabled in d: "none", "msi", "msix"

vars == <<nr_cpus, bitmap, action, boot, probe, entries, mode>>

round_up(x, y) == ((x + (y - 1)) \div y) * y
div_round_up(x, y) == (x + y - 1) \div y

(* bitmap_find_free_region: the lowest place with that many clear bits.      *)
Regions(b, bits) == {i \in 0 .. NR - bits : \A j \in i .. i + bits - 1 : j \notin b}
bitmap_find_free_region(b, bits) ==
    {i \in Regions(b, bits) : \A j \in Regions(b, bits) : i <= j}

(* What bitmap_allocate_bits leaves in the bitmap, and what                  *)
(* bitmap_allocate_bits_aligned does when the region it has found starts at  *)
(* f: it clears the bits up to the aligned start, and sets those from a      *)
(* place computed with div_round_up, not round_up, to the end of the block.  *)
(* SetFound marks the region that was found, not the aligned one.            *)
bitmap_allocate_bits(b, i, bits) == b \cup i .. i + bits - 1
SetFound(b, f, bits, align) == b \cup f .. f + bits - 1
bitmap_allocate_bits_aligned(b, f, bits, align) ==
    (b \ f .. round_up(f, align) - 1)
    \cup div_round_up(f, align) .. round_up(f, align) + bits - 1

Init == /\ nr_cpus \in 1 .. N
        /\ bitmap = [c \in CPU |-> {}]
        /\ action = [c \in CPU |-> [i \in -1 .. NR - 1 |-> {}]]
        /\ boot = [c \in CPU |-> IF c = 0 THEN "irqs" ELSE "off"]
        /\ probe = [d \in Dev |-> "no"]
        /\ entries = [d \in Dev |-> {}]
        /\ mode = [d \in Dev |-> "none"]

-------------------------------------------------------------------------------
(* Probes run one after the other, in do_init_call.  The capabilities decide *)
(* between pci_enable_msix, pci_enable_msi and no interrupt at all.          *)
Probing == \E d \in Dev : probe[d] \notin {"no", "done"}
Probed == \A d \in Dev : probe[d] = "done"
pci_probe(d) ==
    /\ boot[0] = "irqs" /\ ~Probing /\ probe[d] = "no"
    /\ probe' = [probe EXCEPT ![d] = IF msix[d] > 0 THEN "msix"
                                     ELSE IF msi[d] > 0 THEN "msi" ELSE "request"]
    /\ UNCHANGED <<nr_cpus, bitmap, action, boot, entries, mode>>

(* alloc_irqs tries the CPUs in turn.  Only CPU 0 has a bitmap at this time: *)
(* when it is full and there are other CPUs, the code goes through pointers  *)
(* nobody has set yet, and the model stops.  With one CPU alloc_irqs returns *)
(* -1.                                                                       *)
alloc_irqs(f, bits, align) ==
    /\ f \in bitmap_find_free_region(bitmap[0], round_up(bits, align))
    /\ bitmap' = [bitmap EXCEPT ![0] = bitmap_allocate_bits_aligned(@, f, bits, align)]
NoRoom(bits, align) ==
    /\ nr_cpus = 1 /\ Regions(bitmap[0], round_up(bits, align)) = {}
    /\ UNCHANGED bitmap

(* pci_irq_register, for entry k of the MSI-X table. *)
Register(d, k, i) == entries' = [entries EXCEPT ![d] = @ \cup {<<k, i>>}]
RegisterBlock(d, i) ==
    entries' = [entries EXCEPT ![d] = {<<k, i + k>> : k \in 0 .. msi[d] - 1}]

(* One turn of the loop in msix_capability_init, which goes on with -1 when  *)
(* there is no interrupt left, and its end.                                  *)
MsixEntry(d) ==
    /\ probe[d] = "msix" /\ Cardinality(entries[d]) < msix[d]
    /\ \/ \E f \in 0 .. NR : /\ alloc_irqs(f, 1, 1)
                             /\ Register(d, Cardinality(entries[d]), f)
       \/ NoRoom(1, 1) /\ Register(d, Cardinality(entries[d]), -1)
    /\ UNCHANGED <<nr_cpus, action, boot, probe, mode>>
MsixEnable(d) ==
    /\ probe[d] = "msix" /\ Cardinality(entries[d]) = msix[d]
    /\ mode' = [mode EXCEPT ![d] = "msix"]
    /\ probe' = [probe EXCEPT ![d] = "request"]
    /\ UNCHANGED <<nr_cpus, bitmap, action, boot, entries>>

(* msi_capability_init: one aligned block, or -ENOSPC, which the drivers     *)
(* ignore.  Unaligned asks for a block without alignment.                    *)
Unaligned(d) ==
    /\ probe[d] = "msi"
    /\ \E f \in 0 .. NR : alloc_irqs(f, msi[d], 1) /\ RegisterBlock(d, f)
    /\ mode' = [mode EXCEPT ![d] = "msi"]
    /\ probe' = [probe EXCEPT ![d] = "request"]
    /\ UNCHANGED <<nr_cpus, action, boot>>
MsiInit(d) ==
    /\ probe[d] = "msi"
    /\ \/ \E f \in 0 .. NR : /\ alloc_irqs(f, msi[d], msi[d])
                             /\ RegisterBlock(d, round_up(f, msi[d]))
                             /\ mode' = [mode EXCEPT ![d] = "msi"]
       \/ NoRoom(msi[d], msi[d]) /\ UNCHANGED <<entries, mode>>
    /\ probe' = [probe EXCEPT ![d] = "request"]
    /\ UNCHANGED <<nr_cpus, action, boot>>

(* The driver's loop over irq_list: request_irq_smp(get_cpu(), ...). *)
request_irqs(d) ==
    /\ probe[d] = "request"
    /\ action' = [action EXCEPT ![0] = [i \in DOMAIN @ |->
                     IF \E e \in entries[d] : e[2] = i THEN @[i] \cup {d} ELSE @[i]]]
    /\ probe' = [probe EXCEPT ![d] = "done"]
    /\ UNCHANGED <<nr_cpus, bitmap, boot, entries, mode>>

(* An AP, woken after the probes: x86_cpu_init calls setup_irq. *)
setup_irq(c) ==
    /\ boot[c] = "off" /\ c < nr_cpus /\ Probed
    /\ boot' = [boot EXCEPT ![c] = "irqs"]
    /\ UNCHANGED <<nr_cpus, bitmap, action, probe, entries, mode>>

(* The end of arch_init: alloc_irqs_cpu for the CPU itself, request_irq_smp. *)
(* Its result is not tested: -1 again stands for no interrupt.               *)
TimerIrq(c) ==
    /\ boot[c] = "irqs" /\ Probed
    /\ boot' = [boot EXCEPT ![c] = "timer"]
    /\ \/ \E i \in bitmap_find_free_region(bitmap[c], 1) :
             /\ bitmap' = [bitmap EXCEPT ![c] = bitmap_allocate_bits(@, i, 1)]
             /\ action' = [action EXCEPT ![c][i] = @ \cup {Timer}]
       \/ /\ Regions(bitmap[c], 1) = {}
          /\ action' = [action EXCEPT ![c][-1] = @ \cup {Timer}]
          /\ UNCHANGED bitmap
    /\ UNCHANGED <<nr_cpus, probe, entries, mode>>

Next == \/ \E d \in Dev : \/ pci_probe(d) \/ MsixEntry(d) \/ MsixEnable(d) \/ MsiInit(d)
                          \/ request_irqs(d)
        \/ \E c \in CPU : setup_irq(c) \/ TimerIrq(c)

Spec == Init /\ [][Next]_vars

-------------------------------------------------------------------------------
TypeOK == /\ nr_cpus \in 1 .. N
          /\ bitmap \in [CPU -> SUBSET (0 .. NR - 1)]
          /\ action \in [CPU -> [-1 .. NR - 1 -> SUBSET (Dev \cup {Timer})]]
          /\ boot \in [CPU -> {"off", "irqs", "timer"}]
          /\ probe \in [Dev -> {"no", "msix", "msi", "request", "done"}]
          /\ entries \in [Dev -> SUBSET (Nat \X (-1 .. NR - 1))]
          /\ mode \in [Dev -> {"none", "msi", "msix"}]

(* The interrupts a device can raise: with MSI-X what its table says; with   *)
(* MSI the device replaces the low bits of the one number it was given.      *)
CanRaise(d) ==
    CASE mode[d] = "msix" -> {e[2] : e \in entries[d]}
      [] mode[d] = "msi" -> LET base == (CHOOSE e \in entries[d] : e[1] = 0)[2]
                            IN {base - (base % msi[d]) + k : k \in 0 .. msi[d] - 1}
      [] OTHER -> {}

(* Every interrupt that a probed device can raise has the handler of its     *)
(* driver and of nobody else, on the CPU it is sent to, for any mix of       *)
(* MSI-X tables and aligned MSI blocks, also when the vectors run out        *)
(* (entries that got none are MsixEntriesValid's).                           *)
RaisedIsHandled ==
    \A d \in Dev : probe[d] = "done" /\ mode[d] # "none" =>
        \A i \in CanRaise(d) : i # -1 => i \in 0 .. NR - 1 /\ action[0][i] = {d}

(* Bits in use are never given back by another allocation: every interrupt   *)
(* on a device's list, and of every timer, is marked, so nobody else gets    *)
(* it, and no bit is set past the end of the bitmap.  The clearing and       *)
(* setting loops of bitmap_allocate_bits_aligned could break it.             *)
InUseIsMarked ==
    /\ \A c \in CPU : bitmap[c] \subseteq 0 .. NR - 1
    /\ \A d \in Dev : \A e \in entries[d] : e[2] >= 0 => e[2] \in bitmap[0]
    /\ \A c \in CPU, i \in 0 .. NR - 1 : Timer \in action[c][i] => i \in bitmap[c]

(* "It returns a negative errno if an error occurs" (pci.c:453): MSI-X is    *)
(* not enabled with an entry for which there was no interrupt.               *)
MsixEntriesValid ==
    \A d \in Dev : mode[d] = "msix" => \A e \in entries[d] : e[2] >= 0
===============================================================================
