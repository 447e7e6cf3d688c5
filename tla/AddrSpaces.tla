------------------------------ MODULE AddrSpaces -------------------------------
(***************************************************************************)
(* The address spaces of the kernel: those of its tasks, which begin as a  *)
(* copy of the kernel's and are filled by page faults on several CPUs at   *)
(* once without a lock (arch/x86_64/mm); and those of a virtual machine:   *)
(* the EPT of the guest L1, the tables that L1 keeps in its own memory for *)
(* itself and for its guest L2, and the shadow EPT in which the host puts  *)
(* both together for L2 (arch/x86_64/kvm/vmx).                             *)
(***************************************************************************)
EXTENDS PageTables

CONSTANTS Task,          \* tasks, by their ids
          Touched,       \* the addresses that they use
          GuestPages,    \* pages of guest memory that the machine starts with
          GuestTables,   \* the contents that L1 may give to its first pages
          GuestWords,    \* the entries that L1 may write later
          GuestRoots,    \* the roots that L1 may give its guest's tables
          Budgets        \* bounds on what the tasks, L1 and L2 do

User == 0 .. 7

(* What L1 writes are entries: addresses that the machine has, and any bits. *)
GuestWord == [a : Addr, bits : SUBSET Bits, big : BOOLEAN]

ASSUME SpacesAssumption == /\ Task \subseteq Nat \ {0} /\ Touched \subseteq User /\ GuestPages \in 4 .. 8
                           /\ \A g \in GuestTables : /\ DOMAIN g \subseteq Addr
                                                     /\ \A x \in DOMAIN g : g[x] \in [0 .. 1 -> GuestWord]
                           /\ GuestWords \subseteq GuestWord /\ GuestRoots \subseteq Addr
                           /\ \A b \in Budgets : b \in [vm : BOOLEAN, touch : Nat, l1 : Nat, write : Nat, l2 : Nat]

VARIABLES mem,       \* physical memory
          kernel,    \* the kernel's PML4T
          pgd,       \* pgd[t], or Unmapped before the task is created
          fault,     \* fault[t]: where alloc_new_page is
          wrote,     \* wrote[t]: the addresses where t has written its id
          vm,        \* state; the roots eptp, shadow and ept12; given: the frame given for each gpa
          stale,     \* addresses of L2 that L1 has mapped elsewhere since they were shadowed
          left

vars == <<mem, kernel, pgd, fault, wrote, vm, stale, left>>
taskVars == <<pgd, fault, wrote>>
vmVars == <<vm, stale>>

NoFault == [addr |-> 0, level |-> 0, table |-> 0, empty |-> FALSE]

(* map_kernel_memory: the upper half is memory itself, in 1GB pages. *)
KERNEL_SPACE == 8
PHYS2VIRT(x) == x + KERNEL_SPACE
ioremap(phys) == PHYS2VIRT(phys)
map_kernel_memory ==
  LET pdpt == [i \in 0 .. 1 |-> Entry(i * Size(2), {"r", "w"}, TRUE)]
  IN  <<[i \in 0 .. 1 |-> IF i = 0 THEN None ELSE Entry(2, {"r", "w"}, FALSE)], pdpt>>

Init ==
  /\ mem = map_kernel_memory /\ kernel = 1
  /\ pgd = [t \in Task |-> Unmapped] /\ fault = [t \in Task |-> NoFault] /\ wrote = [t \in Task |-> {}]
  /\ vm = [state |-> "off", eptp |-> 0, shadow |-> 0, ept12 |-> 0, given |-> [x \in Addr |-> Unmapped]]
  /\ stale = {} /\ left \in Budgets

--------------------------------------------------------------------------------
(* Tasks.  The processor's translation in an address space. *)
Virt(root, x) == Translate(mem, root, x, Here(mem), PG_PRESENT)
Id(t) == Entry(t, {}, FALSE)

(* Mutant: the new task uses the table of its creator. *)
SharePgd(t) ==
  /\ pgd[t] = Unmapped /\ left.touch > 0
  /\ pgd' = [pgd EXCEPT ![t] = kernel] /\ UNCHANGED <<mem, kernel, fault, wrote, vmVars, left>>
(* A copy of the PML4T of the boot code, which creates the tasks. *)
arch_init_mm(t) ==
  /\ pgd[t] = Unmapped /\ left.touch > 0
  /\ mem' = Append(mem, mem[kernel])
  /\ pgd' = [pgd EXCEPT ![t] = Len(mem) + 1]
  /\ UNCHANGED <<kernel, fault, wrote, vmVars, left>>

(* The task writes its id; without a page there is a fault. *)
Touch(t, x) ==
  /\ pgd[t] # Unmapped /\ fault[t] = NoFault /\ left.touch > 0
  /\ IF Virt(pgd[t], x) # Unmapped
     THEN /\ mem' = [mem EXCEPT ![Virt(pgd[t], x)][0] = Id(t)]
          /\ wrote' = [wrote EXCEPT ![t] = @ \cup {x}] /\ UNCHANGED fault
     ELSE /\ fault' = [fault EXCEPT ![t] = [addr |-> x, level |-> 1, table |-> pgd[t], empty |-> FALSE]]
          /\ UNCHANGED <<mem, wrote>>
  /\ left' = [left EXCEPT !.touch = @ - 1]
  /\ UNCHANGED <<kernel, pgd, vmVars>>

(* alloc_new_page reads the entry of a level, and goes to the next level or, *)
(* when the entry holds no address, makes a page for it.                     *)
Entered(t) == mem[fault[t].table][Index(fault[t].level, fault[t].addr)]
Descend(t, a) == IF fault[t].level = 4 THEN NoFault
                 ELSE [fault[t] EXCEPT !.level = @ + 1, !.table = a, !.empty = FALSE]
TestEntry(t) ==
  /\ fault[t].level > 0 /\ ~ fault[t].empty
  /\ fault' = [fault EXCEPT ![t] = IF Entered(t).a = 0 THEN [@ EXCEPT !.empty = TRUE]
                                   ELSE Descend(t, Entered(t).a)]
  /\ UNCHANGED <<mem, kernel, pgd, wrote, vmVars, left>>
SetEntry(t) ==
  /\ fault[t].empty
  /\ mem' = [kmalloc(mem, 1) EXCEPT ![fault[t].table][Index(fault[t].level, fault[t].addr)] =
               Entry(Len(mem) + 1, {"r", "w"}, FALSE)]
  /\ fault' = [fault EXCEPT ![t] = Descend(t, Len(mem) + 1)]
  /\ UNCHANGED <<kernel, pgd, wrote, vmVars, left>>

alloc_new_page(t) == TestEntry(t) \/ SetEntry(t)

--------------------------------------------------------------------------------
(* The virtual machine: its EPT and its memory, one block that kmalloc       *)
(* zeroes, mapped from address 0.                                            *)
alloc_guest_memory ==
  /\ vm.state = "off" /\ left.vm
  /\ LET eptp == Len(mem) + 1
         block == Len(mem) + 2
     IN  /\ mem' = map_guest_memory(kmalloc(mem, 1 + GuestPages), eptp, 0, block, GuestPages)
         /\ vm' = [vm EXCEPT !.state = "boot", !.eptp = eptp,
                             !.given = [x \in Addr |-> IF x < GuestPages THEN block + x ELSE Unmapped]]
  /\ UNCHANGED <<kernel, taskVars, stale, left>>

Gpa(m, x) == ept_gpa_to_hpa(m, vm.eptp, x)
L1Frames(m) == [x \in Addr |-> Translate(m, vm.eptp, x, Here(m), EPT_PRESENT)]
L1Page(x) == L1Frames(mem)[x]
L2Page(x) == Translate(mem, vm.shadow, x, Here(mem), EPT_PRESENT)
CR3 == 0          \* L1's own tables begin at its page 0, and those for L2 at vm.ept12
LeafOf(x) == Leaf(mem, vm.ept12, x, L1Frames(mem), EPT_PRESENT)

(* L1 writes its tables, all of them or one entry, or gives L2 other ones:   *)
(* it changes ept_pointer, or loads another region.  The addresses of L2     *)
(* that change under the shadow are stale: INVEPT does nothing, and the      *)
(* shadow is the same for every ept_pointer.                                 *)
L1Boots ==
  /\ vm.state = "boot"
  /\ \E g \in GuestTables :
       mem' = [f \in DOMAIN mem |-> LET at == {x \in DOMAIN g : L1Page(x) = f}
                                    IN  IF at = {} THEN mem[f] ELSE g[CHOOSE x \in at : TRUE]]
  /\ vm' = [vm EXCEPT !.state = "L1"] /\ UNCHANGED <<kernel, taskVars, stale, left>>

Composed(m, root, x) ==
  LET g == Translate(m, root, x, L1Frames(m), EPT_PRESENT)
  IN  IF g = Unmapped THEN Unmapped ELSE L1Frames(m)[g]
Outdated(m, root) ==
  {y \in Addr : vm.shadow # 0 /\ L2Page(y) # Unmapped /\ Composed(m, root, y) # L2Page(y)}
L1Writes(x, i, w) ==
  /\ vm.state = "L1" /\ left.write > 0 /\ L1Page(x) # Unmapped
  /\ mem' = [mem EXCEPT ![L1Page(x)][i] = w]
  /\ stale' = stale \cup Outdated(mem', vm.ept12)
  /\ left' = [left EXCEPT !.write = @ - 1]
  /\ UNCHANGED <<kernel, taskVars, vm>>
L1SetsRoot(root) ==
  /\ vm.state = "L1" /\ left.write > 0
  /\ vm' = [vm EXCEPT !.ept12 = root]
  /\ stale' = stale \cup Outdated(mem, root)
  /\ left' = [left EXCEPT !.write = @ - 1]
  /\ UNCHANGED <<mem, kernel, taskVars>>

(* An access of L1 beyond its memory: a new page, which is not zeroed. *)
vmx_handle_ept_volation(x) ==
  /\ vm.state = "L1" /\ left.l1 > 0 /\ L1Page(x) = Unmapped
  /\ \E word \in GuestWords :
       LET page == Len(mem) + 1
       IN  mem' = ept_map_page(Append(mem, [i \in 0 .. 1 |-> word]), vm.eptp, x, page)
  /\ vm' = [vm EXCEPT !.given[x] = Len(mem) + 1]
  /\ left' = [left EXCEPT !.l1 = @ - 1]
  /\ UNCHANGED <<kernel, taskVars, stale>>

(* nested_vmx_set_ctrl_state gives vmcs02 an empty EPT once. *)
nested_vmx_run ==
  /\ vm.state = "L1" /\ left.l2 > 0
  /\ IF vm.shadow = 0
     THEN mem' = kmalloc(mem, 1) /\ vm' = [vm EXCEPT !.state = "L2", !.shadow = Len(mem) + 1]
     ELSE vm' = [vm EXCEPT !.state = "L2"] /\ UNCHANGED mem
  /\ UNCHANGED <<kernel, taskVars, stale, left>>
nested_vmx_vmexit == /\ vm.state = "L2" /\ vm' = [vm EXCEPT !.state = "L1"]
                     /\ UNCHANGED <<mem, kernel, taskVars, stale, left>>

(* Mutant: the address of L1 is taken for a frame. *)
ShadowNotComposed(x) ==
  /\ vm.state = "L2" /\ left.l2 > 0 /\ L2Page(x) = Unmapped
  /\ LET l1gpa == nested_ept_l2gpa_to_l1gpa(mem, vm.eptp, vm.ept12, x)
     IN  IF l1gpa = Unmapped
         THEN vm' = [vm EXCEPT !.state = "stopped"] /\ UNCHANGED mem
         ELSE mem' = ept_map_page(mem, vm.shadow, x, l1gpa) /\ UNCHANGED vm
  /\ left' = [left EXCEPT !.l2 = @ - 1] /\ UNCHANGED <<kernel, taskVars, stale>>
(* An access of L2: the shadow EPT gets the page that both tables give, and  *)
(* the machine ends when one of them has none.                               *)
nested_vmx_handle_ept_volation(x) ==
  /\ vm.state = "L2" /\ left.l2 > 0 /\ L2Page(x) = Unmapped
  /\ LET l1gpa == nested_ept_l2gpa_to_l1gpa(mem, vm.eptp, vm.ept12, x)
         hpa == IF l1gpa = Unmapped THEN Unmapped ELSE Gpa(mem, l1gpa)
     IN  IF hpa = Unmapped
         THEN vm' = [vm EXCEPT !.state = "stopped"] /\ UNCHANGED mem
         ELSE mem' = ept_map_page(mem, vm.shadow, x, hpa) /\ UNCHANGED vm
  /\ left' = [left EXCEPT !.l2 = @ - 1] /\ UNCHANGED <<kernel, taskVars, stale>>

Next == \/ \E t \in Task : arch_init_mm(t) \/ alloc_new_page(t) \/ \E x \in Touched : Touch(t, x)
        \/ alloc_guest_memory \/ L1Boots \/ nested_vmx_run \/ nested_vmx_vmexit
        \/ \E x \in 1 .. 3, i \in 0 .. 1, w \in GuestWords : L1Writes(x, i, w)
        \/ \E root \in GuestRoots : L1SetsRoot(root)
        \/ \E x \in Addr : vmx_handle_ept_volation(x) \/ nested_vmx_handle_ept_volation(x)

Spec == Init /\ [][Next]_vars

--------------------------------------------------------------------------------
(* Every task finds what it wrote, and nobody else's id: the faults of       *)
(* several CPUs, which share no lock, never map a frame twice or lose a page *)
(* that is in use, since the tasks share no table but the kernel's; and the  *)
(* addresses of the kernel (ioremap's too) are memory itself for all.        *)
TaskMemory ==
  \A t \in Task : pgd[t] # Unmapped =>
    /\ \A x \in wrote[t] : Virt(pgd[t], x) # Unmapped /\ mem[Virt(pgd[t], x)][0] = Id(t)
    /\ \A p \in User : Virt(pgd[t], ioremap(p)) = p

(* The EPT of L1 gives for every address the frame that was mapped there, to *)
(* the processor and to ept_gpa_to_hpa: a later mapping, which may add       *)
(* tables, never moves or adds another.                                      *)
EptExact ==
  vm.eptp # 0 => \A x \in Addr : L1Page(x) = vm.given[x] /\ Gpa(mem, x) = vm.given[x]

(* The software's walks through the tables in L1's memory agree with the     *)
(* processor's, whatever L1 writes there (except below its 2MB pages).       *)
GuestWalksExact ==
  vm.state \in {"L1", "L2"} =>
    \A x \in Addr :
      LET tr == L1Frames(mem)
      IN  /\ 3 \notin Leaf(mem, CR3, x, tr, PG_PRESENT) =>
               paging64_gva_to_gpa(mem, vm.eptp, CR3, x) = Translate(mem, CR3, x, tr, PG_PRESENT)
          /\ 3 \notin LeafOf(x) =>
               nested_ept_l2gpa_to_l1gpa(mem, vm.eptp, vm.ept12, x) = Translate(mem, vm.ept12, x, tr, EPT_PRESENT)

(* The frames that hold the kernel's page tables, the tasks', the EPT of L1  *)
(* and the shadow.                                                           *)
HostTables ==
  LET below(S) == {f \in 1 .. Len(mem) : \E t \in S, i \in 0 .. 1 : mem[t][i].a = f /\ ~ mem[t][i].big}
      roots == {f \in 1 .. Len(mem) : f \in {kernel, vm.eptp, vm.shadow} \/ \E t \in Task : pgd[t] = f}
      pdpts == below(roots)
      pdts == below(pdpts)
  IN  roots \cup pdpts \cup pdts \cup below(pdts)

(* Whatever L1 writes into its tables, the frames that it reaches hold no    *)
(* table of the host and are no task's; L2 reaches only those, even where    *)
(* the shadow is out of date; and an address of L2 reaches the page that     *)
(* L1's tables give it.  The exceptions of the last are below a 2MB page,    *)
(* and after L1 has changed its tables or its ept_pointer, since nothing     *)
(* ever removes an entry of the shadow.                                      *)
GuestIsolated ==
  LET l1 == {L1Page(x) : x \in Addr} \ {Unmapped}
  IN  /\ vm.eptp # 0 => /\ l1 \cap HostTables = {}
                        /\ \A t \in Task, y \in User : pgd[t] # Unmapped => Virt(pgd[t], y) \notin l1
      /\ vm.shadow # 0 =>
           \A x \in Addr : L2Page(x) # Unmapped =>
             /\ L2Page(x) \in l1
             /\ x \in stale \/ 3 \in LeafOf(x) \/ L2Page(x) = Composed(mem, vm.ept12, x)
================================================================================
