-------------------------------- MODULE Bringup --------------------------------
(***************************************************************************)
(* How a processor gets from its first instruction to interrupts on:       *)
(* entry64.S, x86_cpu_init and what it calls in entry.c, lapic.c, and the  *)
(* startup messages the boot processor sends to the others.                *)
(*                                                                         *)
(* at[c] is where CPU c is: the next function or the next step of the      *)
(* assembly.  A step the processor refuses, or that leaves the CPU running *)
(* where its page table maps nothing, takes it to "fault": no exception    *)
(* handler exists yet, so the machine resets.                              *)
(***************************************************************************)
EXTENDS Pci

CONSTANTS CpuId,        \* local APIC ids; 0 is the boot processor's
          MaxFaults     \* bound on the page faults of the tasks of a processor
BSP == 0
ASSUME CpuAssumption == CpuId \subseteq Nat /\ BSP \in CpuId /\ MaxFaults \in Nat
NoTable == -1           \* what gdt, idt and tr hold besides the id of the CPU
ApTable == -2           \* whose table it is: the gdt of ap_startup_vector

VARIABLES
    topo,        \* the node list: see module Topology
    at,          \* at[c]: where CPU c is
    reg,         \* reg[c]: its registers
    tables,      \* tables[t]: which halves page table t maps
    cpu,         \* cpu[c]: what struct cpu and x86_cpu of c hold
    trampoline,  \* whether ap_startup_vector is at 0x20000
    pending,     \* pending[c]: the startup messages on their way to c
    lost,        \* the CPUs that have missed a startup message
    ap           \* index, in the order of the lists, of the CPU to wake

bring_vars == <<topo, at, reg, tables, cpu, trampoline, pending, lost, ap>>
wake_vars == <<topo, trampoline, pending, lost, ap>>
own_vars == <<tables, cpu>>

(* A processor after INIT; the boot processor as the loader leaves it. *)
Reset == [rip |-> "low", sp |-> "none", pg |-> FALSE, pae |-> FALSE, lme |-> FALSE,
          cr3 |-> "none", gdt |-> NoTable, idt |-> NoTable, tr |-> NoTable, IF_ |-> FALSE, cr4 |-> {},
          xcr0 |-> {"x87"}, apic |-> 1]
Loaded == [Reset EXCEPT !.pg = TRUE, !.pae = TRUE, !.lme = TRUE, !.cr3 = "loader",
                        !.sp = "low", !.IF_ = TRUE]

BringupInit ==
    /\ topo = NoNode
    /\ at = [c \in CpuId |-> IF c = BSP THEN "bsp_entry_64" ELSE "off"]
    /\ reg = [c \in CpuId |-> IF c = BSP THEN Loaded ELSE Reset]
    /\ tables = [loader |-> {"low"}, init |-> {}, kernel |-> {}, none |-> {}]
    /\ cpu = [c \in CpuId |-> [has |-> {}, lapic |-> 0, status |-> "OFFLINE", faults |-> <<>>]]
    /\ trampoline = FALSE
    /\ pending = [c \in CpuId |-> <<>>]
    /\ lost = {} /\ ap = 1

(* CPU c goes from one place to another with registers r, if the processor   *)
(* allows it (ok) and finds its code and stack mapped afterwards.            *)
Runs(r) == r.pg => {r.rip, r.sp} \subseteq tables'[r.cr3] \cup {"none"}
Go(c, from, to, ok, r) ==
    /\ at[c] = from
    /\ reg' = [reg EXCEPT ![c] = r]
    /\ at' = [at EXCEPT ![c] = IF ok /\ Runs(r) THEN to ELSE "fault"]
    /\ UNCHANGED wake_vars

-------------------------------------------------------------------------------
(* The boot processor: stack, page table, jump to the upper half.  The call  *)
(* pushes a low address; only %rsp moves up with the page table, so both     *)
(* halves must be mapped.  HighOnly leaves out the identical mapping.        *)
bsp_entry_64 ==
    /\ UNCHANGED own_vars
    /\ Go(BSP, "bsp_entry_64", "setup_init_mapping", TRUE,
          [reg[BSP] EXCEPT !.IF_ = FALSE, !.sp = "low"])
HighOnly ==
    /\ tables' = [tables EXCEPT !.init = {"high"}] /\ UNCHANGED cpu
    /\ Go(BSP, "setup_init_mapping", "jump", TRUE,
          [reg[BSP] EXCEPT !.cr3 = "init", !.sp = "high"])
setup_init_mapping ==
    /\ tables' = [tables EXCEPT !.init = {"low", "high"}] /\ UNCHANGED cpu
    /\ Go(BSP, "setup_init_mapping", "jump", TRUE,
          [reg[BSP] EXCEPT !.cr3 = "init", !.sp = "high"])

(* The others, from real mode at 0x20000.  Paging turns long mode on only if *)
(* PAE is on; the code that turns it on runs at a low address.               *)
ap_entry_16(c) ==
    /\ UNCHANGED own_vars
    /\ Go(c, "ap_entry_16", "pae", trampoline, [reg[c] EXCEPT !.gdt = ApTable, !.IF_ = FALSE])
EnablePae(c) ==
    /\ UNCHANGED own_vars
    /\ Go(c, "pae", "cr3", reg[c].gdt = ApTable, [reg[c] EXCEPT !.pae = TRUE])
LoadCr3(c) ==
    /\ UNCHANGED own_vars
    /\ Go(c, "cr3", "lme", TRUE, [reg[c] EXCEPT !.cr3 = "init"])
EnableLongMode(c) ==
    /\ UNCHANGED own_vars
    /\ Go(c, "lme", "paging", ~reg[c].pg, [reg[c] EXCEPT !.lme = TRUE])
EnablePaging(c) ==
    /\ UNCHANGED own_vars
    /\ Go(c, "paging", "jump", reg[c].lme /\ reg[c].pae, [reg[c] EXCEPT !.pg = TRUE])

(* To kernel_space_entry, which both share, and to the stack of this CPU.    *)
Jump(c) ==
    /\ UNCHANGED own_vars
    /\ Go(c, "jump", "kernel_space_entry", TRUE, [reg[c] EXCEPT !.rip = "high"])
kernel_space_entry(c) ==
    /\ UNCHANGED own_vars
    /\ Go(c, "kernel_space_entry", IF c = BSP THEN "arch_init" ELSE "x86_cpu_init", TRUE,
          [reg[c] EXCEPT !.sp = "high"])

-------------------------------------------------------------------------------
(* x86_cpu_init.  The firmware says what the processors have: machine.has    *)
(* is a set of features, machine.xcr0 the state components of CPUID leaf 13. *)
(* For a CPU that is on no list get_cpu returns NULL: what it writes there   *)
(* is lost in low memory, and it faults when it reads it back.               *)
Has(f) == f \in machine.has
x86_cpu_init(c) ==
    /\ cpu' = IF get_cpu(topo, c) = {} THEN cpu
              ELSE [cpu EXCEPT ![c].has = {"arch_data", "irq_stack", "lapic_ops"}]
    /\ UNCHANGED tables
    /\ Go(c, "x86_cpu_init", "enable_cpu_features", TRUE, reg[c])

Avx512 == {"opmask", "h16_zmm", "zmm_h256"}
Xcr0 == (IF Has("sse") THEN {"sse"} ELSE {})
        \cup (IF Has("xsave") THEN {"x87"} ELSE {})
        \cup (IF Has("avx") /\ "avx" \in machine.xcr0 THEN {"avx"} ELSE {})
        \cup (IF Avx512 \cup {"avx"} \subseteq machine.xcr0 THEN Avx512 ELSE {})
Cr4 == machine.has \cap {"xsave", "fxsr", "vmx", "smx", "pcid", "pge"}
(* What xsetbv accepts. *)
LegalXcr0(x) ==
    /\ x \subseteq machine.xcr0 /\ "x87" \in x
    /\ "avx" \in x => "sse" \in x
    /\ Avx512 \cap x # {} => Avx512 \cup {"avx"} \subseteq x
enable_cpu_features(c) ==
    /\ UNCHANGED own_vars
    /\ Go(c, "enable_cpu_features", "map_kernel_memory",
          "x87" \in Xcr0 => LegalXcr0(Xcr0) /\ "xsave" \in Cr4,
          [reg[c] EXCEPT !.cr4 = Cr4, !.xcr0 = IF "x87" \in Xcr0 THEN Xcr0 ELSE @])

(* The boot processor builds the table, without the identical mapping; a     *)
(* CPU that comes before it keeps the table it has.                          *)
map_kernel_memory(c) ==
    /\ tables' = IF c = BSP THEN [tables EXCEPT !.kernel = {"high"}] ELSE tables
    /\ UNCHANGED cpu
    /\ Go(c, "map_kernel_memory", "set_kernel_segment", TRUE,
          [reg[c] EXCEPT !.cr3 = IF tables'["kernel"] # {} THEN "kernel" ELSE @])
set_kernel_segment(c) ==
    /\ UNCHANGED own_vars
    /\ Go(c, "set_kernel_segment", "set_tss_desc", "arch_data" \in cpu[c].has,
          [reg[c] EXCEPT !.gdt = c])
(* The descriptor goes into the table at gdt_base: ltr finds it if that is   *)
(* the table in use.                                                         *)
set_tss_desc(c) ==
    /\ cpu' = [cpu EXCEPT ![c].has = @ \cup {"tss"}] /\ UNCHANGED tables
    /\ Go(c, "set_tss_desc", "set_intr_desc", reg[c].gdt = c, [reg[c] EXCEPT !.tr = c])
set_intr_desc(c) ==
    /\ UNCHANGED own_vars
    /\ Go(c, "set_intr_desc", "setup_irq", TRUE, [reg[c] EXCEPT !.idt = c])
setup_irq(c) ==
    /\ cpu' = [cpu EXCEPT ![c].has = @ \cup {"irq_desc"}] /\ UNCHANGED tables
    /\ Go(c, "setup_irq", "lapic_enable", TRUE, reg[c])

(* regs[2] & (BIT21) == BIT21 is regs[2] & 1, which is the bit of SSE3.      *)
x2_apic_supported == Has("sse3")
Mode == IF x2_apic_supported THEN 2 ELSE 1
lapic_enable(c) ==
    /\ cpu' = [cpu EXCEPT ![c].lapic = Mode] /\ UNCHANGED tables
    /\ Go(c, "lapic_enable", "idle",
          (Mode = 2 => Has("x2apic")) /\ (Mode = 1 => reg[c].apic = 1),
          [reg[c] EXCEPT !.apic = Mode])
SetIdle(c) ==
    /\ cpu' = [cpu EXCEPT ![c].status = "IDLE"] /\ UNCHANGED tables
    /\ Go(c, "idle", "sti", TRUE, reg[c])
Sti(c) ==
    /\ UNCHANGED own_vars
    /\ Go(c, "sti", IF c = BSP THEN "start_kernel" ELSE "up", TRUE, [reg[c] EXCEPT !.IF_ = TRUE])

(* A processor that is up creates tasks, which fault when they touch memory. *)
(* cpu[c].faults has an entry for each fault: the status the handler found   *)
(* and saved, until it puts it back and returns.  The timer switches between *)
(* tasks in their handlers (module Sched), so these return in any order;     *)
(* tasks as test_task never end, so that the idle task does not run again.   *)
(* An interrupt handler puts the status back before it switches tasks.       *)
PageFault(c) ==
    /\ at[c] = "up" /\ Len(cpu[c].faults) < MaxFaults
    /\ cpu' = [cpu EXCEPT ![c].faults = Append(@, cpu[c].status), ![c].status = "EXCEPTION"]
    /\ UNCHANGED <<tables, at, reg, wake_vars>>
FaultReturn(c) ==
    /\ at[c] = "up"
    /\ \E k \in DOMAIN cpu[c].faults :
          /\ cpu[c].faults[k] # "returned"
          /\ cpu' = [cpu EXCEPT ![c].status = cpu[c].faults[k], ![c].faults[k] = "returned"]
    /\ UNCHANGED <<tables, at, reg, wake_vars>>

-------------------------------------------------------------------------------
(* wakeup_all_processors, when the init functions have returned.             *)
BspAt(from, to) == at[BSP] = from /\ at' = [at EXCEPT ![BSP] = to]
Target == Cpus(topo)[ap].id
wakeup_all_processors ==
    /\ todo = <<>>
    /\ BspAt("start_kernel", IF acpi_get_desc(machine, "APIC") THEN "wake" ELSE "mp_init_all")
    /\ trampoline' = TRUE
    /\ UNCHANGED <<topo, reg, tables, cpu, pending, lost, ap>>

(* INIT and two STARTUP messages; OneStartup sends one.                      *)
OneStartup(s) == s \o <<"INIT", "STARTUP">>
lapic_send_ipi(s) == s \o <<"INIT", "STARTUP", "STARTUP">>
mp_init_all ==
    /\ BspAt("mp_init_all", "online")
    /\ pending' = [c \in CpuId |-> IF c # BSP /\ c \in machine.cpus
                                   THEN lapic_send_ipi(pending[c]) ELSE pending[c]]
    /\ UNCHANGED <<topo, reg, tables, cpu, trampoline, lost, ap>>
mp_init_single ==
    /\ ap <= Len(Cpus(topo)) /\ Target # BSP
    /\ BspAt("wake", "spin")
    /\ pending' = [pending EXCEPT ![Target] = lapic_send_ipi(@)]
    /\ UNCHANGED <<topo, reg, tables, cpu, trampoline, lost, ap>>
(* The loops pass a CPU that is the boot processor itself or is idle.        *)
NextCpu ==
    /\ ap <= Len(Cpus(topo))
    /\ \/ BspAt("wake", "wake") /\ Target = BSP
       \/ BspAt("spin", "wake") /\ cpu[Target].status = "IDLE"
       \/ BspAt("check", "check") /\ (Target = BSP \/ cpu[Target].status = "IDLE")
    /\ ap' = ap + 1
    /\ UNCHANGED <<topo, reg, tables, cpu, trampoline, pending, lost>>
LoopEnd ==
    /\ ap > Len(Cpus(topo))
    /\ BspAt("wake", "check") \/ BspAt("check", "online")
    /\ ap' = 1
    /\ UNCHANGED <<topo, reg, tables, cpu, trampoline, pending, lost>>

(* The hardware: a STARTUP counts only for a CPU that waits for one, and a   *)
(* CPU may miss one of the two.                                              *)
Deliver(c) ==
    /\ pending[c] # <<>> /\ at[c] # "fault"
    /\ pending' = [pending EXCEPT ![c] = Tail(@)]
    /\ CASE Head(pending[c]) = "INIT" ->
              /\ at' = [at EXCEPT ![c] = "wait"]
              /\ reg' = [reg EXCEPT ![c] = [Reset EXCEPT !.apic = reg[c].apic]]
         [] Head(pending[c]) = "STARTUP" ->
              at' = [at EXCEPT ![c] = IF @ = "wait" THEN "ap_entry_16" ELSE @] /\ UNCHANGED reg
    /\ UNCHANGED <<topo, tables, cpu, trampoline, lost, ap>>
Miss(c) ==
    /\ pending[c] # <<>> /\ Head(pending[c]) = "STARTUP" /\ c \notin lost
    /\ pending' = [pending EXCEPT ![c] = Tail(@)] /\ lost' = lost \cup {c}
    /\ UNCHANGED <<topo, at, reg, tables, cpu, trampoline, ap>>

CpuStep(c) ==
    \/ ap_entry_16(c) \/ EnablePae(c) \/ LoadCr3(c) \/ EnableLongMode(c) \/ EnablePaging(c)
    \/ Jump(c) \/ kernel_space_entry(c) \/ x86_cpu_init(c) \/ enable_cpu_features(c)
    \/ map_kernel_memory(c) \/ set_kernel_segment(c) \/ set_tss_desc(c) \/ set_intr_desc(c)
    \/ setup_irq(c) \/ lapic_enable(c) \/ SetIdle(c) \/ Sti(c)
TaskStep(c) == PageFault(c) \/ FaultReturn(c)
BspStep ==
    \/ bsp_entry_64 \/ setup_init_mapping \/ wakeup_all_processors \/ mp_init_all
    \/ mp_init_single \/ NextCpu \/ LoopEnd
===============================================================================
