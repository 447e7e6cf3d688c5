--------------------------------- MODULE Boot ---------------------------------
(***************************************************************************)
(* The boot: the boot processor's entry and set-up (module Bringup), the   *)
(* node and CPU lists (Topology), do_init_call with the host bridge, the   *)
(* scan of the buses and the drivers (Pci and X550), and waking the other  *)
(* processors (Bringup again).                                             *)
(***************************************************************************)
EXTENDS X550, Bringup

CONSTANTS Machines,     \* the machines to boot
          DriverOrders  \* the orders the linker may give the drivers

(* A memory BAR is at least 16 bytes large; a 64-bit one has an upper half,  *)
(* whose size counts where the lower half is all size.                       *)
SizedBar(bar, i) ==
    /\ bar[i].kind \in {"mem", "mem64"} => bar[i].size \in 4 .. W
    /\ bar[i].kind = "mem64" =>
          /\ bar[i + 1].kind = "high"
          /\ bar[i + 1].size \in IF bar[i].size < W THEN {0} ELSE 0 .. W - 1

(* The firmware gives a base address register an address that it can hold,   *)
(* and the MSI-X table of a function that has one is in a memory BAR.        *)
ASSUME MachinesAssumption ==
    \A m \in Machines :
       /\ Len(m.fn) \in Nat /\ DOMAIN m.fn = 1 .. Len(m.fn)
       /\ \A f \in DOMAIN m.fn :
             /\ m.fn[f].decode \in BOOLEAN /\ m.fn[f].msix_size \in Nat /\ m.fn[f].msi_order \in Nat
             /\ m.fn[f].id # "zero"   \* no function has the id of an unused slot
             /\ DOMAIN m.fn[f].bar = 0 .. Rom
             /\ \A i \in 0 .. Rom : /\ HeldBy(m.fn[f].bar[i], m.fn[f].bar[i].at) = m.fn[f].bar[i].at
                                   /\ m.fn[f].bar[i].at \in 0 .. AllOnes
             /\ \A i \in 0 .. (IF m.fn[f].bridge THEN 1 ELSE 5) : SizedBar(m.fn[f].bar, i)
             /\ (\E k \in DOMAIN m.fn[f].caps : m.fn[f].caps[k] = "MSIX") =>
                   /\ m.fn[f].bir \in 0 .. (IF m.fn[f].bridge THEN 1 ELSE 5)
                   /\ m.fn[f].bar[m.fn[f].bir].kind \in {"mem", "mem64"}
       /\ \A s \in {m.table["APIC"], m.table["SRAT"], m.ardc} :
             Len(s) \in Nat /\ DOMAIN s = 1 .. Len(s)
       /\ \A k \in DOMAIN m.table["SRAT"] :
             m.table["SRAT"][k].type = "mem" => {m.table["SRAT"][k].base, m.table["SRAT"][k].len} \subseteq Nat
       /\ \A k \in DOMAIN m.ardc : {m.ardc[k].base, m.ardc[k].len} \subseteq Nat
       \* A 64-bit processor has SSE, and XSAVE keeps the x87 and SSE state.
       /\ "sse" \in m.has /\ ("xsave" \in m.has => {"x87", "sse"} \subseteq m.xcr0)

vars == <<pci_vars, nic_vars, bring_vars>>

(* The id tables of the drivers: 64 slots, the unused ones zero; slots that  *)
(* repeat a zero are left out.                                               *)
ids == [xhci |-> <<"xhci1", "xhci2", "xhci3", "zero">>,
        nvidia |-> <<"gpu1", "gpu2", "zero">>,
        x550 |-> <<"x550", "zero">>]

(* The linker puts the initialisation of each driver in the image once.      *)
ASSUME OrdersAssumption ==
    \A o \in DriverOrders :
       /\ o \in [1 .. 3 -> DOMAIN ids]
       /\ \A j, k \in 1 .. 3 : o[j] = o[k] => j = k

(* The probes, as far as the PCI core sees them.  UnmaskFirst unmasks the    *)
(* card's interrupts before the rings exist.                                 *)
UnmaskFirst(d, f) ==
    IF d = "x550" THEN <<<<"enable", f>>, <<"msix", f>>, <<"unmask", f>>, <<"rx_init", f>>,
                         <<"tx_init", f>>, <<"fill", f>>>>
    ELSE <<>>
Probe(d, f) ==
    CASE d = "xhci" ->
           <<<<"enable", f>>, <<"master", f>>>> \o pci_get_bar_size(f, 0)
           \o pci_get_bar_size(f, 0) \o <<<<"msix", f>>>>
      [] d = "nvidia" ->
           <<<<"enable", f>>, <<"master", f>>>> \o pci_get_bar_size(f, 0)
           \o <<<<"msi", f>>>> \o pci_get_bar_size(f, 1) \o pci_get_bar_size(f, 3)
      [] d = "x550" ->
           pci_get_bar_size(f, 0)
           \o <<<<"enable", f>>, <<"reset", f>>, <<"master", f>>, <<"msix", f>>,
                <<"rx_init", f>>, <<"tx_init", f>>, <<"unmask", f>>, <<"fill", f>>>>
pci_probe ==
    /\ At("probe")
    /\ probed' = [probed EXCEPT ![fn] = Append(@, arg)]
    /\ Then(Probe(arg, fn))
    /\ UNCHANGED <<machine, local, end_bus_number, cfg, table, pci_device_list, resource,
                   irq_list, free_irq>>

(* arch_numa_init, called by arch_init before start_kernel.                  *)
NumaInit ==
    /\ At("numa") /\ BspAt("arch_init", "x86_cpu_init")
    /\ topo' = arch_numa_init(machine)
    /\ Then(<<>>)
    /\ UNCHANGED <<reg, tables, cpu, trampoline, pending, lost, ap>>
    /\ UNCHANGED <<machine, local, end_bus_number, cfg, table, pci_device_list, resource,
                   irq_list, free_irq, probed, nic_vars>>

(* do_init_call: the levels in order, within a level as the linker put them. *)
(* ScanWithDrivers puts pci_scan on the drivers' level, after them.          *)
initcalls(order) ==
    [l \in 1 .. 8 |-> CASE l = 4 -> <<<<"hostbridge">>>>
                        [] l = 5 -> <<<<"pci_scan">>>>
                        [] l = 7 -> [k \in DOMAIN order |-> <<"driver", order[k]>>]
                        [] OTHER -> <<>>]
ScanWithDrivers(order) ==
    <<<<"hostbridge">>>> \o initcalls(order)[7] \o <<<<"pci_scan">>>>
do_init_call(order) == FlattenSeq(initcalls(order))

Init ==
    /\ \E m \in Machines : PciInit(m)
    /\ NicInit
    /\ BringupInit
    /\ \E order \in DriverOrders : todo = <<<<"numa">>>> \o do_init_call(order)

PciNext ==
    \/ CommandOff \/ Ones \/ Back \/ CommandBack
    \/ x86_pci_hostbridge_init \/ pci_scan \/ pci_device_init \/ Bar \/ BarEnd
    \/ register_pci_device \/ pci_enable_device \/ pci_set_master
    \/ pci_enable_msix \/ pci_enable_msi \/ pci_msix_clear_and_set_ctrl
    \/ pci_msi_set_enable \/ msix_entry_setup \/ msi_entry_setup
    \/ pci_msi_multiple_enable \/ pci_register_driver(ids) \/ pci_probe

Execute ==
    \/ at[BSP] = "start_kernel" /\ PciNext /\ UNCHANGED <<nic_vars, bring_vars>>
    \/ at[BSP] = "start_kernel" /\ NicNext /\ UNCHANGED bring_vars
    \/ (BspStep \/ \E c \in CpuId : CpuStep(c) \/ TaskStep(c) \/ Deliver(c))
       /\ UNCHANGED <<pci_vars, nic_vars>>
Next == \/ NumaInit
        \/ Execute
        \/ (\E c \in CpuId : Miss(c)) /\ UNCHANGED <<pci_vars, nic_vars>>

Spec == Init /\ [][Next]_vars

(* As long as a processor can execute or a message is on its way, something  *)
(* happens (NumaInit is left out only because CpusStart does not need it);   *)
(* that alone is no promise for any one of them, and is enough, since none   *)
(* of them goes on for ever but the network card.                            *)
FairSpec == Spec /\ WF_vars(Execute)

-------------------------------------------------------------------------------
(* Every processor that an enabled entry of the firmware's tables reports is *)
(* found by get_cpu, once, and the indices 0 .. nr_cpus - 1 name different   *)
(* ones, as cpu_min_load and alloc_irqs assume when they go through them;    *)
(* the zones are disjoint and together are the firmware's memory: the        *)
(* enabled areas of the SRAT, or the usable and the reserved areas of the    *)
(* loader's map, which numa.c takes both.  It is claimed of Regular machines *)
(* only, since on others numa.c loses CPUs or finds memory that is not       *)
(* there: with x2APIC entries (numa.c:120, and numa.c:43-50 for the type 9   *)
(* of acpi.h:57), with CPUs of the MADT that the SRAT does not have, with a  *)
(* MADT that ends with less than a header's length of other entries, with    *)
(* memory in the SRAT that is not enabled (numa.c:97 does not read the flags *)
(* of acpi.h:130), with several proximity domains or areas that overlap.     *)
Reported(m, name, kinds) ==
    IF acpi_get_desc(m, name)
    THEN {e.id : e \in {e \in Range(m.table[name]) : e.type \in kinds /\ e.enabled}} ELSE {}
FirmwareCpus(m) ==
    IF acpi_get_desc(m, "SRAT") \/ acpi_get_desc(m, "APIC")
    THEN Reported(m, "SRAT", {"cpu", "x2cpu"}) \cup Reported(m, "APIC", {"lapic", "x2apic"})
    ELSE {0}
Covers(e) == e.base .. e.base + e.len - 1
Apart(s, kinds) ==
    \A j, k \in DOMAIN s :
       (j # k /\ {s[j].type, s[k].type} \subseteq kinds) => Covers(s[j]) \cap Covers(s[k]) = {}
FirmwareMemory(m) ==
    IF acpi_get_desc(m, "SRAT")
    THEN UNION {Covers(e) : e \in {e \in Range(m.table["SRAT"]) : e.type = "mem" /\ e.enabled}}
    ELSE UNION {Covers(a) : a \in {a \in Range(m.ardc) : a.type \in {1, 2}}}
Regular(m) ==
    /\ Reported(m, "SRAT", {"x2cpu"}) = {} /\ Reported(m, "APIC", {"x2apic"}) = {}
    /\ IF acpi_get_desc(m, "SRAT")
       THEN /\ \E d \in 0 .. 63 : \A e \in Range(m.table["SRAT"]) : e.domain = d
            /\ Apart(m.table["SRAT"], {"mem"})
            /\ \A e \in Range(m.table["SRAT"]) : (e.type = "mem" /\ e.len # 0) => e.enabled
            /\ Reported(m, "APIC", {"lapic"}) \subseteq Reported(m, "SRAT", {"cpu"})
       ELSE /\ acpi_get_desc(m, "APIC") =>
                  \A k \in DOMAIN m.table["APIC"] :
                     m.table["APIC"][k].type = "lapic" => Visited(m.table["APIC"], k)
            /\ Apart(m.ardc, {1, 2})
Span(z) == z.start .. z.start + z.cnt - 1
TopologyExact ==
    (Regular(machine) /\ ~(\E k \in DOMAIN todo : todo[k][1] = "numa")) =>
       /\ {c.id : c \in Range(Cpus(topo))} = FirmwareCpus(machine)
       /\ \A id \in FirmwareCpus(machine) :
             \E i \in 0 .. topo.nr_cpus - 1 :
                get_cpu(topo, id) = get_cpu_by_index(topo, i) /\ get_cpu(topo, id) # {}
       /\ topo.nr_cpus = Len(Cpus(topo))
       /\ \A j, k \in DOMAIN Zones(topo) :
             j # k => Span(Zones(topo)[j]) \cap Span(Zones(topo)[k]) = {}
       /\ UNION {Span(z) : z \in Range(Zones(topo))} = FirmwareMemory(machine)

(* No processor takes an exception on its way from its first instruction to  *)
(* kernel code with interrupts on (CR bits, page tables, descriptor tables,  *)
(* APIC mode), and interrupts are on only where an interrupt finds this      *)
(* CPU's own gates, segments, stack and lists; the network card interrupts   *)
(* only once its rings exist (HandlerReady).  CPUs: claimed of machines      *)
(* with the boot processor on a list, where x2APIC goes with SSE3 (that bit  *)
(* is what x2_apic_supported tests) and the AVX state component with AVX.    *)
Expected(m) ==
    /\ Regular(m) /\ m.cpus = FirmwareCpus(m) /\ BSP \in m.cpus
    /\ "sse3" \in m.has <=> "x2apic" \in m.has
    /\ "avx" \in m.xcr0 => "avx" \in m.has
OwnTables(c) ==
    /\ reg[c].idt = c /\ reg[c].gdt = c /\ reg[c].tr = c
    /\ {"arch_data", "irq_stack", "lapic_ops", "tss", "irq_desc"} \subseteq cpu[c].has
    /\ cpu[c].lapic = reg[c].apic
BootSound ==
    /\ HandlerReady
    /\ Expected(machine) =>
          \A c \in CpuId : /\ at[c] # "fault"
                           /\ (reg[c].IF_ /\ reg[c].cr3 # "loader") => OwnTables(c)

(* Once the CPUs are listed:                                                 *)
(* unless the network card is probed, whose probe transmits for ever, every  *)
(* processor of the firmware's tables comes up, also when it misses one of   *)
(* its two STARTUP messages, and the boot processor gets past waiting for    *)
(* their status to be idle; except when the page faults of the tasks that a  *)
(* processor has begun meanwhile (entry.c:653) leave it in the status of an  *)
(* exception after the last handler returned (traps.c:342): then the boot    *)
(* processor waits for it for ever (entry.c:337).                            *)
Settles(m) == Expected(m) /\ \A f \in DOMAIN m.fn : m.fn[f].id # "x550"
LeftInException(c) ==
    /\ cpu[c].status = "EXCEPTION"
    /\ \A k \in DOMAIN cpu[c].faults : cpu[c].faults[k] = "returned"
CpusStart ==
    (Settles(machine) /\ topo # NoNode) ~>
        \/ at[BSP] = "online" /\ \A c \in machine.cpus \ {BSP} : at[c] = "up"
        \/ \E c \in machine.cpus \ {BSP} : LeftInException(c)

(* Sizing writes all ones over an address: at no moment does a function      *)
(* decode anything but the ranges the firmware gave it.                      *)
DecodeSound ==
    \A f \in Fn : cfg[f].decode =>
       \A i \in 0 .. NBar(f) - 1 : cfg[f].bar[i] = Hw(f).bar[i].at

(* What a registered function's pci_dev says of a memory BAR, 32 or 64 bits  *)
(* wide, is the range the function decodes; drivers map their registers and  *)
(* MSI-X tables by it.  (An I/O BAR or the upper half of a 64-bit one gets a *)
(* resource too, which means nothing.)                                       *)
MemoryBar(f, i) == Hw(f).bar[i].kind \in {"mem", "mem64"}
Extent(f, i) == IF Hw(f).bar[i].kind = "mem64" /\ Hw(f).bar[i].size = W
                THEN 2^(W + Hw(f).bar[i + 1].size) ELSE 2^Hw(f).bar[i].size
ResourcesExact ==
    \A f \in Range(pci_device_list) : \A i \in 0 .. NBar(f) - 1 :
       MemoryBar(f, i) =>
          LET r == resource[f][i + 1] IN
          /\ r.start = Hw(f).bar[i].at - low(Hw(f).bar[i].at, 4)
                       + (IF Hw(f).bar[i].kind = "mem64" THEN Hw(f).bar[i + 1].at * 2^W ELSE 0)
          /\ r.end = r.start + Extent(f, i) - 1
          /\ bit(r.flags, 0) = 0

(* Once a function may send messages, each message it can send is an         *)
(* interrupt on its irq_list, where the driver will install its handler, and *)
(* each of those has a message: one table entry per interrupt with MSI-X,    *)
(* the block that starts at the data with MSI.                               *)
MessagesExact ==
    \A f \in Fn :
       /\ cfg[f].msix.on => Range(table[f]) = Range(irq_list[f])
       /\ cfg[f].msi.on => {cfg[f].msi.data + k : k \in 0 .. 2^cfg[f].msi.order - 1}
                           = Range(irq_list[f])

(* A function is probed only after it has been registered, by drivers that   *)
(* know its id, and not twice; when do_init_call returns, every function     *)
(* that a driver knows and that is on a bus the bridge covers was probed.    *)
Knows(d, f) == Hw(f).id \in Range(ids[d])
ProbedOnce ==
    \A f \in Fn :
       /\ probed[f] # <<>> => f \in Range(pci_device_list)
       /\ \A k \in DOMAIN probed[f] : Knows(probed[f][k], f)
       /\ Len(probed[f]) <= 1
       /\ (todo = <<>> /\ Hw(f).bus <= end_bus_number /\ \E d \in DOMAIN ids : Knows(d, f))
             => Len(probed[f]) = 1
===============================================================================
