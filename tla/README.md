# Oscar-Kernel: a TLA+ verification project

Oscar-Kernel is a small bare-metal kernel for x86_64 SMP machines with a hypervisor
(VMX, nested VMX) and a few PCIe drivers. This directory holds TLA+ models of its core,
written from the source, the TLC configurations that check them and TLAPS proofs.
Paths below are relative to the repository's root.

## 1. Inventory

| Component | State | Operations | Correct when |
|---|---|---|---|
| Spin locks (`include/spinlock.h`, `arch_spinlock.h`) | a bit per lock, the interrupt flag of each CPU | `spin_lock_irqsave`, `spin_unlock_irqrestore` | one holder; no CPU waits for itself; the interrupt flag comes back |
| Boot memory allocator (`mm/bootmem.c`, used by `kmalloc`) | page bitmap, bump page and offset | `bootmem_init`, `bootmem_alloc`, `bootmem_free` | blocks disjoint, aligned, in usable memory, outside the kernel |
| Scheduler and context switch (`kernel/task.c`, `arch/x86_64/kernel/task.c`, `mm/tlb.c`) | run queues, `rq->current`, `task->sp/state/counter`, cr3 | `create_task`, `pick_next_task`, `schedule`, `__switch_to`, `task_exit`, `task_timer_tick`, `migrate_task` (no caller) | a stack is in use on one CPU at a time; current, cr3 and stack agree; nobody starves |
| Processor bring-up (`arch/x86_64/entry.c`, `entry64.S`, `lapic.c`, `kernel/cpu.c`) | registers and tables of each CPU, `cpu->status` | `bsp_entry_64`, `ap_entry_16`, `x86_cpu_init`, `lapic_enable`, `wakeup_all_processors` | no CPU faults on its way, interrupts are on only with its own tables, every CPU starts |
| Interrupt entry (`isr.S`, `intr_handler_common`) | saved stack pointers, `cpu->status`, interrupt stacks | `IRQ_COMMON` | the interrupted thread resumes, or the one switched to |
| Exceptions and page faults (`traps.c`, `mm/fault.c`) | cr2, `cpu->status`, page tables | `do_page_fault_exception`, `page_fault_mm`, `alloc_new_page` | the faulting page is mapped, only an invalid access kills |
| Page tables (`entry.c`, `mm/ioremap.c`, `kernel/task.c`, `kvm/vmx/mmu.c`) | the kernel's, the tasks', the EPT and the shadow EPT | mapping, software walks | a walk gives what was mapped; no address reaches foreign memory |
| IRQ vectors (`include/bitmap.h`, `kernel/irq.c`, `setup_irq`) | a vector bitmap and action lists per CPU | `alloc_irqs`, `request_irq_smp`, `free_irq` (no caller) | a vector has one owner; blocks are aligned |
| Firmware tables, nodes and zones (`acpi.c`, `mm/numa.c`, `mm/mm.c`) | lists of nodes, zones, CPUs | `arch_numa_init`, `get_cpu` | every CPU and range on one list, once |
| PCI, MSI/MSI-X (`drivers/pci/pci.c`, `arch/x86_64/pci.c`) | configuration registers, device list, resources | scan, BAR sizing, driver matching, enabling MSI/MSI-X | nothing decodes a wrong address; resources and messages are exact |
| Init calls (`init/main.c`, `include/init.h`) | the functions of eight levels | `do_init_call` | each device is probed once, after it was found |
| x550 network card (`drivers/ethernet/intel/x550.c`) | descriptor rings, the driver's copies of heads and tails | probe, `ixgbe_intr`, `packet_transmit` | no interrupt before the rings exist; packets are announced in order |
| xHCI (`drivers/usb/xhci.c`) | command, event and transfer rings, slots, transfers in flight | submission, event handling, enumeration, unplugging | rings keep their cycle discipline; a completion goes to its command |
| VMX (`kvm/vmx/vmx.c`, `vmx.S`) | VMCS, EPT, guest registers | launch and resume, the exit handlers | every entry is legal, every emulated instruction retires |
| Nested VMX (`nested.c`, `vmcs12.c`) | vmcs01/02/12, shadow VMCS | VMX instruction emulation, world switches | the guest hypervisor sees its own fields |
| Console and printk (`drivers/console`, `lib/string.c`) | cursor, text on the screen | `printk`, line feed, scroll | the text is on the screen when `printk` has returned |
| Frame buffer and NVIDIA GPU (`drivers/video/fbdev`, `drivers/gpu/nvidia`) | push buffer, indirect buffer, fence, video memory | copy, fill, blit, waiting for room and fences | commands execute once and in order |
| IOMMU (`iommu.c`) | remapping tables | `intel_iommu_init`, never called | – |

How they interact. The boot processor (BSP) comes from the loader, sets up its page tables and itself,
lists the memory and the CPUs, runs the init calls – which scan the PCI buses and probe the drivers,
whose devices then interrupt – and wakes the application processors (APs) one at
a time. Each CPU then creates tasks (`create_task` puts a task on the least loaded queue,
of whichever CPU) and starts its timer. From then on everything is driven by interrupts:
a timer tick saves the stack pointer in `current->sp`, runs `task_timer_tick` on the CPU's
interrupt stack and returns on whatever stack `current->sp` names afterwards. USB devices are enumerated inside the
xHCI interrupt handler. `printk`, from anywhere, draws on the boot frame buffer, and through the GPU once its driver has registered.
Interrupt gates run with interrupts off. Exceptions use trap gates, so page faults,
`task_exit` and `schedule()` called by a task all run with interrupts ON and can be
interrupted, and switched away from, at any instruction.

What is hard. Timer interrupts inside a context switch or a page-fault handler; per-CPU
state (`cpu->status`, cr2) that is per task in fact; run queues and status words of other
CPUs read without locks; the bump allocator's page boundaries; an interrupt handler that
takes the locks of the code it interrupted; the BSP waiting for APs that already run tasks; rings shared with devices that
run on (xHCI, the network card, the GPU's channel), their laps and their waits; VMCS fields kept in several copies;
page tables written without locks or by a guest.
`PROJECT.json` lists these hazards with their lines and the properties that aim at them.

## 2. Modules

| Module | Models | Used by |
|---|---|---|
| `LockSpec` | what a lock promises (abstract) | `SpinLock`, which implements it |
| `SpinLock` | spin locks, interrupt flag, nested sections, interrupts | `MCSpinLock`, `SpinLockProofs` |
| `BootMem` | the allocator | `MCBootMem`, `BootMemProofs` |
| `Sched` | AP start, task creation, scheduling, switching, page faults | `MCSched`, `SchedProofs` |
| `IrqVectors` | vector bitmaps, handlers, vectors of the probes | `MCIrqVectors`, `IrqVectorsProofs` |
| `CmdChannel` | a channel of one command at a time (abstract) | `Xhci`, whose command ring implements it |
| `Xhci` | the xHCI driver and an external controller | `MCXhci` |
| `NestedVmx` | what nested virtualisation promises (abstract) | `Vmx`, which implements it |
| `Vmx` | the hypervisor's loop, exits, VMCSs, nested guests | `MCVmx`, `VmxProofs` |
| `Gpu` | the GPU's channel, memory and an external GPU | `Console` |
| `Console` | printk, cursor, scrolling, frame buffers | `MCConsole` |
| `PageTables` | tables, mapping and walks as operators | `AddrSpaces` |
| `AddrSpaces` | tasks' tables under concurrent faults; EPT and shadow EPT | `MCAddrSpaces`, `AddrSpacesProofs` |
| `Topology` | ACPI tables, nodes, zones, CPU lists as operators | `Pci` |
| `Pci` | configuration space, scan, sizing, MSI and MSI-X | `X550`, `Bringup` |
| `X550` | the network driver and an external card | `Boot` |
| `Bringup` | a CPU's way from its entry point; waking the others | `Boot` |
| `Boot` | the composition of the last five; drivers and init calls | `MCBoot`, `BootProofs`, `BringupProofs` |
| `SpinLockProofs`, `BootMemProofs`, `SchedProofs`, `IrqVectorsProofs`, `VmxProofs`, `AddrSpacesProofs`, `BootProofs`, `BringupProofs` | theorems and proofs | |
| `MC*` | constants for TLC | |

In each module the definitions that a comment introduces as a mutant, or as what the code would do if it "forgot" a step, are
plausible bugs, used only to show that a property notices them. No specification refers to them.

### SpinLock

State: `bit[l]` is the lock word, `IF_[c]` the interrupt flag, `stk[c]` the open frames of
CPU `c` (sections and interrupt handlers, innermost last). `spin_lock_irqsave` is two
steps, `LocalIrqSave` (`arch_local_irq_save`) and `SpinLock` (`lock btsq` until the bit was clear);
`spin_unlock_irqrestore` is `SpinUnlock` and `LocalIrqRestore`. `Interrupt` and `Iret` are
the interrupt gate and `iretq`; both ends of x86's own behaviour are used as the code relies on them.
Callers are arbitrary code that nests sections along the relation `Order` and releases them in reverse; a handler may take any lock, whatever
the interrupted code holds. `Order` may have circles: `migrate_task` locks the queue it takes from, the task and the queue it moves to, in the
order of its arguments (`kernel/task.c:106`), so the run has both directions. Initial state: the lock words are 0 and all CPUs have interrupts
off until `x86_cpu_init`'s `sti`.

### BootMem

`bitmap` is the set of pages whose bit is 1. `bootmem_alloc` runs inside one section of
`bootmem.spin_lock`, so each of its paths is one action: `AllocPages` (lines 91-97),
`SpillOverEnd` (99-104), `SpillToNewPage` (105-112), `BumpAlloc` (114-116),
`NewBumpPage` (117-124) and `AllocFails`. `bootmem_free` takes no lock: `FreeRead` reads the
byte, `FreeWrite` writes it back, or loses to a concurrent write of the same byte.
`blocks` is a history variable: what has been handed out. Page size, alignment, the 64GB
limit, the kernel's 16MB and the 4GB default are constants. Firmware regions are given in whole
pages, as UEFI reports them. Where the code would index past the end of the bitmap (possible only after
a `bootmem_free`) the model stops.

### Sched

One action per step that another actor can see. A timer interrupt is one action
(`TickCount` or `TickSchedule`): it runs with interrupts off and touches its CPU's state only.
`TickSchedule` contains `pick_next_task`, `context_switch` without the switch
(`switch_to` returns in IRQ context) and the return on `current->sp`.
In process and exception context `schedule()` is `PickNext`, `SwitchMm`, `SetCurrent`, `SaveSp` and
`LoadSp`, with ticks possible between any two. `sp[x] = y` says that the stack pointer saved in task x
points to the frame at the top of thread y's stack; returning on it pops the frame (`ReturnOn`),
after which every other pointer to it is `Stale`. A CPU that returns to a popped frame is `Lost`
and takes no more steps: what it executes is arbitrary.

Bring-up: `WakeAp`, `ApIsIdle` (both loops of `wakeup_all_processors`), `ApInit`, then per CPU
`create_task`, `cpu_min_load` (one queue per step, as it takes no lock), `Enqueue` and `StartTimer`.
What a task does is a constant: `Prog[t]` is a sequence of touching an unmapped page ("touch"), touching the
address `address_check` refuses ("bad") and calling `schedule()` ("yield"), as `test_task` does;
then it computes for ever.

Abstractions. `pick_next_task` in process context is one step: the only
thing a tick in the middle of it can change on its own CPU's queue is a counter.
`page_fault_mm` reads cr2 and `current` in one step. Addresses are
"touch" (any good one), "bad" and "zero" (cr2 after a handler cleared it). The local that keeps
`cpu->status` in `intr_handler_common` is not a variable, since a tick is one step. Which task is created
by which CPU is the constant `Boot`: `arch_init` creates two per CPU, the commented-out calls other mixes; the runs use
three or four tasks in all. `rq->length` is the length of the queue, as both change under the rq lock.

### IrqVectors

`bitmap[c]` is the set of interrupts whose bit is 1 on CPU `c`, `action[c][i]` whose handlers are on the list of
interrupt `i`. A probe (`pci_probe`) goes through `MsixEntry` for each table entry and `MsixEnable`, or
`MsiInit`, then `request_irqs`; probes run one after the other on the BSP, before the APs are woken, so nothing
interleaves with them. Then each CPU does `TimerIrq`, the APs after their `setup_irq`. -1 is a failed allocation, used as a number
where the code does not test it. `CanRaise` is what a device does with what it was given: with MSI it replaces the low bits of the data
(the comment at `kernel/irq.c:30`), so an unaligned block would raise other devices' vectors. Not modelled: `irq_nr`, which only functions without a caller read;
`free_irq`; and what happens when CPU 0's vectors run out while there are other CPUs, whose bitmap pointers are not set yet (the model stops).
The devices' MSI order field is taken to be 0 after reset, as `pci_msi_multiple_enable` only ors into it.

### Xhci

One actor is the interrupt handler `xhci_intr`, which in the code runs the enumeration of a device
(`usb_device_init`) inside itself: `drv.todo` is the sequence of commands and transfers still to do, each
submitted (`SubmitCommand`, `SubmitTransfer`) and then polled for on the event ring (`CommandReturns`, `TransferReturns`) or left to a
later interrupt. A connected port is reset first (`HandleConnect`, then `PortIsReset` when the
controller reports it), and may change in between. The other actors are the controller (`HcCommand`, `HcTransfer`) and the ports (`PortChange`); `hc.unseen` counts the port changes that fall while the
change bit is still set, of which the driver never hears. A TRB keeps its cycle bit and a serial number that only
the properties read. The code's two complementary scans of the event ring, the second of which ignores the cycle bit
(`xhci.c:54`), are `CmdVisible`. `Budgets` bounds what ports, devices and keys do in one behaviour, so that
every behaviour ends; a property of the handler is therefore not helped by endless events.
The command ring is shown to implement `CmdChannel` (`CommandsOnce`).

### Vmx and NestedVmx

`m` is the processor's VMX state: the current VMCS, the launched ones and the fields of all. Fields are a few of each group
the code copies together. `pc` walks through `vmx_run`: entry, guest, exit. In the guest, L1 executes instructions with
or without an exit (`L1Runs`, `L1Exits`), L2 likewise; each exit handler of `vmx_handle_exit` is an operator or an action. `NestedVmx` says what L1 and L2 may rely on:
entering L2 takes its state from the region L1 loaded, leaving it puts the saved fields and the exit's reason there and continues L1
at its host fields. `Vmx` implements it (`NestedArchitecture`). `Kept` are fields the code does not read back (`sysenter`);
the exit qualification is reflected in its low half only, since the parameter is 32 bits wide (`nested.c:1035`).

### Gpu and Console

`todo` is the program of words, waits and copies that the display's code has still to run under printk's lock; `Display` runs its next item,
`Device` is the GPU, which fetches an indirect buffer entry and executes its words. A page of video memory holds a row of pixels, whose content
is the number of the line of text drawn there. Video memory and BAR1 addresses are given out in order; `mm.entry` is what the pages hold as page-table entries or as a runlist, so that an entry
beyond the `PtEntries` of a table lies in the object allocated next, and `nvidia_fifo_runlist_commit` writes its first entry. The GPU stops at a page that no entry leads to. `WaitIb` and `WaitFree`, with `Wrap`, are the loops of `nv_dma_wait`.

### PageTables and AddrSpaces

Tables of four levels with two entries each, in a sequence of frames. `Translate` is the processor's walk; `ept_gpa_to_hpa`,
`paging64_gva_to_gpa` and `nested_ept_l2gpa_to_l1gpa` are the code's. `AddrSpaces` has tasks whose faults go through `alloc_new_page` one entry at a time
(`TestEntry`, `SetEntry`), and a virtual machine whose L1 writes its own tables, and the root of its guest's (`L1SetsRoot`: `vm.ept12` is the `ept_pointer` that L1 put into whichever vmcs12 it has loaded).
The shadow EPT is made once and kept for every one of them, as in `nested.c:561`; `stale` collects the addresses whose composition has changed since. The actors of the two halves share nothing
but memory and its allocator, which has a lock; most budgets have one half or the other, and one has both (`Budgets`).

### Topology, Pci, X550, Bringup, Boot

`todo` is what the BSP has still to do between `arch_numa_init` and the waking of the APs: a call is replaced by the
configuration accesses it makes, one step each, so that devices run in between. `Topology` builds the lists as operators, since nothing runs beside it.
In `X550` the interrupt handler is one action, the driver's steps are one per access. `Bringup` has a program counter per CPU: a step the processor
would refuse (an XCR0 it does not have, paging without PAE, code at an address its tables do not map) leads to `"fault"`.
STARTUP messages are sent and delivered separately; one of the two for each AP may be lost (`Miss`). An AP that is up goes on to create tasks (`entry.c:653`): of these only
what the BSP waits for is here, their page faults, which save, set and restore the CPU's status and may overlap (`PageFault`, `FaultReturn`; `MaxFaults` of them); the rest is `Sched`. `Boot` puts them together, adds
the drivers' probes as the PCI core sees them and `do_init_call` with the drivers in either link order. The interrupts are numbered as `IrqVectors` shows they may be (`free_irq`).

## 3. Runs

| Run | Instance | Shows |
|---|---|---|
| `spinlock` | 3 CPUs, 3 locks nested as `migrate_task` does in both directions, depth 4 | the five lock properties, and that `SpinLock` implements `LockSpec` |
| `bootmem` | 5 pages of 6 units, alignment 2, sizes 0, 1, 4, 6, 7; four firmware maps | `NoOverlap`, `InUsableMemory`, `BlocksAligned` |
| `bootmem_free` | 4 pages, frees in a shared byte between the steps of allocations | `KernelImageSafe` |
| `sched_preempt` | 2 CPUs, 4 tasks: one that is killed and one that yields, one that uses memory and one that computes | `NoSharing`, and `PreemptionSound` of the CPUs whose tasks do not call `schedule()` |
| `sched_start` | 3 CPUs whose two APs place 3 tasks of two priorities with page faults, both at once | `AllCpusStart`, `StarvationFree` |
| `sched_saved_sp` | 1 CPU, tasks that yield | violation of `SavedOnOwnStack` |
| `irq_vectors` | 12 vectors, 5 devices that need more in some orders, 1 or 2 CPUs | `RaisedIsHandled`, `InUseIsMarked` |
| `xhci` | 2 ports; rings of 24, 42 and 16 entries; 2 slots; eight budgets | `CommandsOnce` (implements `CmdChannel`), `TransfersInOrder`, `ScratchpadSafe`, `SlotOwned`, `HidArmed`, `HandlerReturns` |
| `vmx` | 2 regions, values 0 to 3; a plain guest and four hypervisors | `EntryLegal`, `L2Controls`, `NestedArchitecture` (implements `NestedVmx`), `GuestProgress` |
| `console` | 2 columns, 2 lines in two screen heights or 4 lines, 6 characters, buffers of 27 words and 8 entries, page tables of 6 | `TextIntact`, `CommandsInOrder`, `PrintkReturns` |
| `addr_spaces` | 2 tasks and 2 addresses, or a guest with 6 pages and two roots for its guest; or both | `TaskMemory`, `EptExact`, `GuestWalksExact`, `GuestIsolated` |
| `boot` | 14 machines, 2 orders of the drivers, CPUs 0, 2, 6, 2 page faults per AP | `TopologyExact`, `DecodeSound`, `ResourcesExact`, `MessagesExact`, `ProbedOnce`, `TransmitSound`, `BootSound`, `CpusStart` |

Further configurations. `MCSchedPlace.cfg` (three CPUs, four tasks placed by both APs at once: `TasksOnOnlineCpus` and `PreemptionSound` hold) and five that end
with a violation: see "Noted" below. They can be run with `tlc -config <file> <module>` and are not among the runs of `PROJECT.json`.

Bounds. Locks: depth 4 is the three sections of `migrate_task` under an interrupt, the
deepest nesting the code has; three CPUs so that two can compete for what a third holds, and so that two opposite migrations leave a third CPU to see the locks. Allocator: a page of
three alignment units has every case of the boundary arithmetic (a block that ends on it, before it,
behind it, a page filled exactly, a size of 0), five pages give room for a two-page block, a hole
and the page find_free_bitmap wants in addition. Scheduler: three tasks is the least with which a tick can
find a task in a switch, another in its page fault and a third runnable; two CPUs for sharing, of which one switches between a task in its page fault and one that computes while the other's tasks call `schedule()` (`sched_preempt`); three for the start,
since a fault on an AP can be in the BSP's way only while it waits for another AP. Vectors: MSI blocks of 2 and 4 after MSI-X tables of 2 and 3
give every misalignment of the first free bit.
xHCI: an enumeration is shorter than each ring, as with 256 entries, and the budgets plug and type often enough for every ring to make more than one lap;
one odd event (a port change in mid-handler, a timeout, a failed command) at every point is what two ports can do to each other. Two changes that the driver does not see cost both of the two slots, so that
Enable Slot fails and slot 0 is used.
VMX: two regions are what a switch can mix up; up to three entries per behaviour show a stale copy from two switches ago. Console: more characters than the screen holds, so that it scrolls, and buffers small enough to wrap
in one scroll, with `GpuAssumption` keeping the code's relations: the indirect buffer fills first, and a block has more entries than a table has memory for; the largest screen needs more than a table.
Address spaces: two entries per table have both neighbours of every index; large pages of each size occur in the guest's tables, a root is one of them or beyond the guest's memory.
Boot: registers of 8 bits with every kind of BAR; the machines differ in tables, revisions, memory order, BARs, capabilities, CPU features and number of CPUs, and four are irregular, one for each exception of `TopologyExact` that numa.c is sensitive to beside domains and the MADT's end;
two faults on an AP are the least that can leave its status wrong. No instance has a counter without a bound.

Deadlock is checked in `bootmem` and `sched_start`. It is not in `spinlock`, where all CPUs can wait for each other, `bootmem_free`, where the model stops at the edge of the
bitmap, `sched_preempt` and `sched_saved_sp`, where all CPUs can be lost, `irq_vectors` and `boot`, which end with the boot, and `xhci`, `vmx`, `console` and `addr_spaces`,
which end when the budget of devices, guests, characters or faults is used up (or the virtual machine has stopped).

Fairness. `SpinLock`: a CPU inside a section or handler keeps executing (weak fairness of `Leave`), since interrupts
are off and nothing deschedules it; nobody is forced to enter one. `lock btsq` does not promise a
particular CPU the lock, so `LockProgress` only says that somebody gets one, or that CPUs wait for each other in a circle. `Sched`: CPUs execute (WF of the boot
steps), a started periodic timer keeps firing (WF of `Tick`), and a thread that is on its CPU again and again gets to
execute its next step (SF of `RunStep`: a slice is a second long). `Xhci`: the handler runs with interrupts off and keeps executing, and the controller executes what its
doorbells announce (WF of `Driver`, `HcCommand`, each `HcTransfer`); ports and users are under no obligation. `Vmx`: one processor runs the loop and the guest
in turns and does not stop (WF of `HostStep`, and of the guest executing an instruction again that it was left at). `Console`: printk runs with interrupts
off until it is done, the GPU executes what it is given (WF of both). `Boot`: while some processor can execute or a message is under way, something happens
(WF of `Execute` as a whole; all its steps but those of the endless probe of the network card come to an end); losing a message is never required.

Finding. `sched_saved_sp`: a tick between `rq->current = next` and `__switch_to` overwrites the next task's saved stack pointer with a frame on the previous one's stack, while
the comment at `arch/x86_64/kernel/task.c:104` has interrupt frames saved on the next task's own stack. It needs a
process-context `schedule()`; where tasks only compute and fault on good addresses `PreemptionSound` and `StarvationFree` hold.

Noted while modelling. Where a property would fail for one of these, it excepts the case and says so.

- With a further configuration to reproduce it: `find_free_bitmap` needs one page more than the request, so "First Fit" (`bootmem.c:2`) does not hold (`MCBootMemFirstFit.cfg`);
  interleaved page faults of two tasks on one AP leave `cpu->status` at EXCEPTION_CONTEXT and the BSP waiting for ever (`MCSchedStuck.cfg`; `AllCpusStart` and `CpusStart` except it); cr2, read with
  interrupts on, may be another task's (`MCSchedKill.cfg`); MSI-X is enabled with vectors that could not be allocated (`MCIrqVectorsErrno.cfg`);
  a page table of the GPU has memory for 4096 entries (`nvidia_gpu_drv.c:91`, and the TODO at line 130) while a block has 32768 (`nvidia_gpu.h:81`) and the frame buffer takes 8192: the entries of the second half are in the runlist,
  whose first word `nvidia_fifo_runlist_commit` clears (line 318), so that the text of a larger screen is lost and the GPU stops (`MCConsoleWide.cfg`).
- Locks: two calls of `migrate_task` in opposite directions wait for each other for ever (`task.c:106`); nothing calls it yet.
- Bring-up: `x2_apic_supported` tests `regs[2] & (BIT21 == BIT21)`, the SSE3 bit (`lapic.h:180`); AVX-512 is enabled without a test of AVX (`entry.c:420`);
  without a MADT all processors are started, of which only one is on a list (`entry.c:315`); the run queues are published before they are set, with interrupts on (`task.c:33`).
- Tables: the MADT loop ends 44 bytes early (`numa.c:42`); `mm_node_init` empties the list of all nodes (`mm.c:10`), so that with two domains the first one's CPUs are lost. The x2APIC
  entries of SRAT and MADT are dropped (`numa.c:120`, `numa.c:43-50`), CPUs that only the MADT has are not looked for when there is an SRAT, and memory of the SRAT counts whether it is enabled or not (`numa.c:97`). `Regular` names all of these.
- PCI and drivers: the x550 probe transmits for ever (`x550.c:342`), so later drivers and the APs never start on a machine with that card, which is why `CpusStart` excepts it; `msi_irq_mask` reads an
  uninitialised mask (`pci.c:109`) and has no caller; the receive tail is set past the ring (`x550.c:131`); nothing checks that a transmit ring is full (`x550.c:254`).
- xHCI: the list of transfers in flight is set up after the controller runs (`xhci.c:1253`); a port that changes twice before the handler reads PORTSC keeps a stale slot, and when slots run out the failed Enable Slot's slot 0, the scratchpad's, is used (`xhci.c:126`; `ScratchpadSafe` says when, `SlotOwned` excepts it); the driver disables a slot twice with an uninitialised `udev` (`xhci.c:1060`);
  an OUT endpoint 1 would share the default endpoint's ring (`xhci.h:570`).
- VMX: the handlers of RDMSR and of other instructions leave rip where it is, so the guest exits for ever (`vmx.c:899`; `Unserved`); the CR4 shadow is loaded from CR0's (`vmx.c:893`); the page given on an EPT violation is not zeroed (`vmx.c:941`);
  INVEPT is skipped before it does anything (`nested.c:267`), and one shadow EPT serves every `ept_pointer` and every vmcs12 (`nested.c:561`), so that L2 goes on with what another root gave it (`GuestIsolated` excepts the addresses for the exact page, not for isolation); 2MB pages are translated from the entry above (`mmu.c:73`, 132, 186, 257).
- Display: the scroll clears one pixel row too high (`graphic_console.c:26`); the upper half of the semaphore address is shifted the wrong way (`nvidia_gpu_drv.c:494`); printk formats into 256 bytes without a limit (`lib/string.c:380`).

## 4. Proofs

Every theorem is about the specification the runs check, for all values of the constants that satisfy the module's
assumptions. In each proof module the inductive invariant `IInv` (`BootProofs`: `TypeInv`, `DecodeInv`, `NicInv`; `BringupProofs`: `OnceInv`, `NumaInv`, `BringInv`, `ResInv`, `MsgInv`, `OnInv`; `AddrSpacesProofs`: `SpacesInv`) was checked by TLC on the run's
instance before it was proved; one lemma per action shows that a step keeps it.

`SpinLockProofs` (assumption: `NoLock` is neither a lock nor a CPU, no lock is ordered inside itself; any
CPUs, locks, order and depth). `MutualExclusion` and `IrqFlagRestored` are not inductive: a
handler may take locks, and an unlock restores a flag saved steps ago. `IInv` adds `FrameInv` – an open frame
means interrupts are off, hence an interrupt frame can only be the outermost one; only the outermost frame saved a set
flag; only the innermost may be spinning or restoring – and `NestInv`, which carries the order of the callers' nesting. One lemma per
action (`SaveStep`, `LockStep`, …), each with one step per conjunct the action disturbs. From `[]IInv`:
`TypeCorrect`, `MutexTheorem`, `IrqFlagTheorem`, `OrderedTheorem` (if the locks cannot be followed inward for ever, as when they are nested by rank, no circle of CPUs waits: of the locks of a circle one has none of the others inside it,
by the library's well-founded minimum, but its holder spins on one), `NoSelfDeadlockTheorem` (a CPU spins on `l` only with frames that are all
"held" and ordered before `l`, and `l` is not ordered before itself; the frame of the interrupted code holds nothing, as interrupts were on) and
`Refinement` (`Spec => LockSpec!Spec` under the mapping `Owner`).

`BootMemProofs` (any page size that is a multiple of the alignment, any memory size, maps and request sizes).
`NoOverlapTheorem` and `UsableTheorem` assume `MaxFrees = 0`, the kernel as it is, since nothing calls `bootmem_free`. `IInv` adds that the pages of every block are marked
(`BlocksMarked`), that the bump page is marked, backed, and free beyond the bump offset (`BumpPageOwned`), and that every clear bit is backed
memory (`FreeBacked`). `SpillOverEnd` is shown to be unreachable there: the bump page is always marked. `KernelTheorem`,
`TypeCorrect` and `AlignTheorem` hold with any number of racing frees; `KernelInv` adds that a byte a free has read shows the kernel's pages,
`AlignInv` that the bump offset is a multiple of the alignment, which the rounding of each request keeps.

`SchedProofs` (any CPUs, tasks, programs and priorities; `SchedAssumption`: finitely many tasks, and each call of `create_task`
makes a task of its own, as `kmalloc` does). The argument is ownership. `Own(c)` is CPU `c`'s idle thread, `arch_init` on it and the tasks of its queue;
these sets are disjoint, since a task is put on one queue, once, by the CPU that made it (`QueueInv`). Everything a CPU runs, picks,
saves a stack pointer in or resumes is in `Own(c)`: the saved pointer of a thread of `Own(c)` points into `Own(c)` or is stale (`HomeInv`). So two CPUs never run on the same
stack, wherever ticks fall (`NoSharingTheorem`), although on one CPU the saved pointers do get confused (`sched_saved_sp`). `PreemptionTheorem` adds, for CPUs whose
tasks never call `schedule()`, that current, stack and cr3 agree and everything else on the queue can be resumed on its own stack (`PreemptInv`); `OnlineTheorem` that
`cpu_min_load`, which reads without locks, only chooses CPUs that were up when it began and stay so.

`IrqVectorsProofs` (any CPUs, devices, vectors). The bitmap only grows from its start: the set bits of each CPU are a prefix `0 .. k-1` (`Prefixes`), so an
allocation returns a block at or above `k`, which nobody has. With `ListInv` and `OwnedInv` – what a device has was allocated
for it, by table entry or block – follow `MarkedTheorem` and, once its handlers are installed (`HandlerInv`), `HandledTheorem`.

`VmxProofs` (any regions and guest budgets; fields have the four values of the model). `IInv` relates the software's copies to the processor's: the
`launched` flag to the VMCS that is current at each point of `vmx_run` (`LoopInv`, whence `EntryTheorem`), the shadow VMCS to the region L1 loaded (`RegionInv`),
vmcs12 to both between the copies (`CopyInv`), and keeps AVX with SSE in XCR0 (`XcrInv`). `NestedTheorem` is the refinement of `NestedVmx`: each step of the hypervisor is an
entry of L2, an exit to L1, a region operation or a stutter; `ControlsTheorem` that L2's controls are what both levels ask for.

`AddrSpacesProofs` (any tasks, any contents of the guest's tables, any budgets; `SpacesAssumption`: task ids are positive, a guest starts with
4 to 8 pages, and what L1 writes are entries with addresses of `Addr`, whether it has a page there or not; the four levels of two entries each are those of `PageTables`). None of the four properties is inductive: that a mapping does not disturb another one
rests on the tables in between. `SpacesInv` says that there is a map `own` from frames to roles (`RoleInv`). A role is an address space (a task's, the EPT, the shadow EPT or the kernel's), a level
and the prefix of the addresses that lead there, a page being of level 5. Each present entry of a table of the host leads to the frame whose role is that of the table, one level down and one index
longer (`Linked`); the last level of the shadow leads to pages of the guest instead, and the upper half of every task's root is the kernel's table. Since a frame has one role, two walks that meet in a frame
have the same space and prefix. From that: a walk of the processor ends where following the entries does (`HostWalk`); filling an entry that was empty changes the page of exactly
the addresses under it (`OthersKept`, `GrowOne`, `EptMap`), also when another CPU's fault saw the entry before it (`TaskOk`: an entry that `TestEntry` found empty is of a table of its own task, so nobody else fills it);
L1's stores only reach frames of the role of its pages (`PagesWritten`). There is one lemma per action (`TouchStep`, `SetStep`, `PageStep`, `ShadowStep`, ...) and the theorems `TaskTheorem`, `EptTheorem`, `WalksTheorem` and
`IsolationTheorem` follow from `SpacesTheorem`, as does `ApartTheorem`: pages of different tasks, of different addresses, and of tasks and the guest are different frames (`PagesApart`).
The walks through tables in L1's memory get no help from roles, as L1 may write anything: `GuestWalk` compares the two walks entry by entry (`GuestTranslate`),
and `ShadowOk` keeps, for each page that L2 reaches, that it was given to L1 and that both tables led there when it was mapped. L1 may change the root at any time (`RootStep`): what the shadow has then is stale, but each page it gives still was given to L1. Frames given to L1 have roles of their own, so L2 reaches no table of the host and no page of a task
(`BelowTables`, `HostTablesAre`, `PagesApart`). That memory does not run out is part of the model.

`BootProofs` (any machine whose registers can hold the addresses the firmware gives, `MachinesAssumption`; any order of the drivers,
`OrdersAssumption`; any `W >= 6`, ring size and bounds). The driver of the boot is the sequence `todo`. `TodoInv` says which of its steps may be neighbours
(`Linked`): "ones" is followed by writing back the same register of the same function, "advance" by "ring", the three waits by each other. Each call is replaced by a sequence that is linked in itself
and can stand before anything (`Whole`, one lemma per call; `Join` puts them together). From that `DecodeTheorem`: a register differs from the firmware's address only while
the step that restores it is at the head (`BarsInv`), and decoding is off from before the ones to after the restore (`OffInv`). `TransmitTheorem`: the driver's tail, the register and the number of packets agree at each point
between "fill" and "ring" (`SendInv`), so the card is between its head and that tail, where all descriptors are written; the handler cannot disturb it, because its
queue is another one. `HandlerTheorem`: interrupts are unmasked in a step that comes directly after both rings were set up (`CardInv`).

`BringupProofs`, the probes (the same assumptions; that no function has the id of an unused slot, part of `MachinesAssumption`, is needed here: each driver's table ends with one).
`ProbedOnce` speaks of what has been probed; `OnceInv` speaks of what is still in `todo`. The init calls stay in the order of their levels (`Sorted`), each once. A function is on the
list or has its set-up in `todo`, never both (`ListInv`), and while a set-up is in `todo` every driver is. A driver that is no longer in `todo` has probed, or has a probe in `todo` for, each listed
function it knows (`ProbeInv`); as one id belongs to one driver (`OneKnows`), no second probe can follow. A step that puts only unmarked steps into `todo` keeps all this (`QuietOnce`); the
others have a lemma each.

`BringupProofs`, the resources (`MachinesAssumption`, which also says what PCI says of registers: a memory BAR holds addresses in steps of at least 16 bytes, the
upper half of a 64-bit one follows it and has bits of size only where the lower half is all size, and an MSI-X table is in a memory BAR). `ResourcesExact` is about the end of some twenty accesses per function, each
reading what an earlier one left in `local` or in the device. `ResInv` therefore says where the scan is: while the registration of a function is in `todo`, what stands before it is the
rest of the sizing of one register (`Plan`) and the sizings still to come (`Phase`); what has been read of that register is what the device holds after ones were written
(`Known`), and the registers before it are right (`Right`). No other function is being scanned then. One lemma for the accesses (`SizingOps`), one each for the begin and the end of
a register (`BarRes`, `EndRes`), and the other steps leave the scan alone (`SameScan`). That the range is right at the end is arithmetic on
powers of two: the complement of the size mask is one less than the size (`BarSizes`), and the sum of start and size does not leave the width (`BaseIs`).

`BringupProofs`, the messages (the same assumptions, and any number of vectors). `MessagesExact` speaks of the end of a set-up; `MsgInv` says for each function how far its set-up is (`Stage`): no call was made yet and
`todo` has at most one (`Fresh`), or the rest of the set-up is at the head of `todo` (`MsixRun`: `m` table entries are written and hold the first `m` interrupts of `irq_list`; `MsiRun`: which of the four
accesses are left, and what the capability holds already), or nothing of it is left (`Settled`). So two set-ups never mix (`RunHead`). The table is only written if the function decodes the address that pci_dev has for it. The
address is right by `ResInv` (`TableThere`). For the decoding, `OnInv` says that a function with a table entry or an MSI-X call in `todo` decodes, or will once the sizing that goes on is over, or is enabled before that place:
sizing switches decoding off and restores it from `local`, and "command_off" and "command_back" are linked to the accesses between them in `TodoInv`. `OrderPow` is the arithmetic of MSI's order field.

`BringupProofs`, the processors (the same assumptions, and `CpuAssumption`: APIC ids are numbers, 0 the boot processor's; `MachinesAssumption` also says that the tables are
sequences and that XSAVE, where it is, keeps the x87 and SSE state). First the lists, as facts about `arch_numa_init(m)`: each of its loops is a recursive function on the prefixes of a
table, and one lemma per loop shows by the least counterexample (`UpTo`) that after `k` entries the node has the CPUs and the memory of the first `k` (`Listed`, `Mapped`; a zone that grows
stays disjoint from the others because the firmware's areas do not overlap). What the firmware reports, in whatever kind of entry, is what the loops look for on the machines the claim is made of (`RegularReports`), and `NumaExact` puts them together for both kinds of tables, and `NumaInv` – the lists are made while only the boot processor
runs, which gets no message – gives `TopologyTheorem`. Then the processors: `CpuInv(c)` says for each place of `c` which mode, page table, descriptor tables and list entries it
has (the sets `OnPaging`, `OnData`, … `Finished` nest as these accumulate), `TableInv` that the page tables are ahead of every processor and that only listed ones are woken, by a boot processor that is
past them. Both hold where the claim is made (`BringInv`); `CpuReady` has one case per step: the processor allows it, finds code and stack mapped, and arrives; the tasks' faults change nothing of it (`TaskFacts`). With `NicInv` this is
`BootTheorem`.

`FlattenSeq` is defined by recursion, so the lemmas on it (`FlattenElements`: what the concatenation contains) are proved from the well-foundedness of `<` (`UpTo`), by looking at the
least number a statement would fail for; the induction theorems proper take an operator as a parameter, which the prover cannot instantiate.

Only model-checked, and why:

- liveness (`LockProgress`, `StarvationFree`, `AllCpusStart`, `HandlerReturns`, `GuestProgress`, `PrintkReturns`, `CpusStart`): out of the prover's reach;
- `Xhci`: the invariants count TRBs over several laps of two rings, and depend on the sizes (a completion of an earlier lap must have been overwritten, the slots must suffice), so they are not facts for all constants; `Console`: the text and the command buffers are related by recursion over rows and words;

## 5. Not modelled, and what is left

Not modelled:

- the IOMMU: `intel_iommu_init` is never called;
- string formatting, fonts and pixel formats, descriptor contents, the image of the guest: data that no property tells apart;
- functions without a caller: `free_irq`, `request_irq`, `bitmap_find_free`, the `*_range`, affinity and masking interfaces of MSI, and `migrate_task` except for its lock order;
- exception handlers that print and halt; the engine set-up of the GPU (registers, falcons), the x550's MAC address;
- what every processor the kernel boots on must have: 1GB pages for the identical mapping (`entry64.S:45`), long mode, x87;
- bits 52 to 63 of page-table entries, the expansion ROM's resource, which nothing reads, and task ids (`pid++` is not atomic, `task.c:50`);
- what a wild pointer reads or writes: models stop, or except the case, where the code would follow one.

PROJECT.json gives what is left out of each component. What remains worth doing:

1. task ids and PCIDs; the queues' initialisation with interrupts on; running out of memory in `alloc_new_page`.
2. Abstract specifications of the allocator (disjoint blocks) and of the scheduler (each thread on one CPU), and the refinements.
3. Proofs: those listed last in section 4, first for `Xhci` that slots have one owner.
