-------------------------------- MODULE MCBoot --------------------------------
(* Machines to boot.  Registers have 8 bits.  The functions have 32- and     *)
(* 64-bit memory BARs, with upper halves whose low bits look like each of    *)
(* the type bits, one that is larger than a register, I/O BARs with and      *)
(* without address bit 2, and ROMs.  The firmware's tables are met with and  *)
(* without an SRAT and a MADT, in both revisions, with memory that joins     *)
(* from either side, and with irregular ones: two proximity domains, a MADT  *)
(* that ends with its CPUs, x2APIC entries, memory that is not enabled.      *)
(* Machines start their processors one by one or both at once, or have only  *)
(* one; they have x2APIC or not, XSAVE or not, AVX-512 or not.               *)
EXTENDS Boot

None == [kind |-> "none", size |-> 0, at |-> 0]
IO(a) == [kind |-> "io", size |-> 2, at |-> a + 1]
Mem(s, a) == [kind |-> "mem", size |-> s, at |-> a]
Mem64(s, a) == [kind |-> "mem64", size |-> s, at |-> a + 4]
High(s, a) == [kind |-> "high", size |-> s, at |-> a]
Regs(s) == [i \in 0 .. 7 |-> IF i < Len(s) THEN s[i + 1] ELSE None]

Gpu == [id |-> "gpu2", bus |-> 1, bridge |-> FALSE, decode |-> TRUE, msi_order |-> 2, msix_size |-> 0,
        caps |-> <<"PM", "MSI", "EXP">>,
        bir |-> 0, bar |-> Regs(<<Mem(5, 32), Mem64(6, 64), High(0, 4), Mem64(8, 0),
                                  High(1, 6), IO(100), None, Mem(5, 64)>>)]
UsbMsix == [id |-> "xhci3", bus |-> 0, bridge |-> FALSE, decode |-> FALSE, msi_order |-> 1,
            msix_size |-> 2, caps |-> <<"MSI", "MSIX">>,
            bir |-> 0, bar |-> Regs(<<Mem64(4, 16), High(0, 1)>>)]
UsbMsi == [UsbMsix EXCEPT !.id = "xhci1", !.caps = <<"PM", "MSI">>, !.bar = Regs(<<Mem64(4, 48), High(0, 2)>>)]
Nic == [id |-> "x550", bus |-> 2, bridge |-> FALSE, decode |-> FALSE, msi_order |-> 0, msix_size |-> 3,
        caps |-> <<"PM", "MSI", "MSIX">>,
        bir |-> 2, bar |-> Regs(<<Mem64(5, 96), High(0, 0), Mem64(4, 80), High(0, 3)>>)]
Bridge == [id |-> "bridge", bus |-> 0, bridge |-> TRUE, decode |-> TRUE, msi_order |-> 0,
           msix_size |-> 0, caps |-> <<"EXP">>,
           bir |-> 0, bar |-> Regs(<<Mem64(4, 112), High(0, 12), High(0, 33)>>)]
Serial == [id |-> "serial", bus |-> 0, bridge |-> FALSE, decode |-> TRUE, msi_order |-> 0,
           msix_size |-> 0, caps |-> <<>>,
           bir |-> 0, bar |-> Regs(<<IO(8), IO(12), None>>)]

Cpu(i) == [type |-> "lapic", len |-> 8, id |-> i, enabled |-> TRUE]
Off(i) == [Cpu(i) EXCEPT !.enabled = FALSE]
X2Cpu(i) == [Cpu(i) EXCEPT !.type = "x2apic", !.len = 16]
IoApic == [type |-> "ioapic", len |-> 12, id |-> 0, enabled |-> TRUE]
Override == [type |-> "override", len |-> 10, id |-> 0, enabled |-> TRUE]
Node(i, d) == [type |-> "cpu", domain |-> d, id |-> i, enabled |-> TRUE, base |-> 0, len |-> 0]
X2Node(i, d) == [Node(i, d) EXCEPT !.type = "x2cpu"]
Ram(b, l, d) == [type |-> "mem", domain |-> d, id |-> 0, enabled |-> TRUE, base |-> b, len |-> l]
Area(t, b, l) == [type |-> t, base |-> b, len |-> l]

Tail4 == <<IoApic, IoApic, Override, Override, Override>>
Haswell == {"sse", "sse3", "x2apic", "xsave", "fxsr", "avx", "vmx", "smx", "pcid", "pge"}
Plain == [cpus |-> {0, 2, 6}, has |-> Haswell, xcr0 |-> {"x87", "sse", "avx"},
          rsdp |-> TRUE, revision |-> 2, xsdt |-> <<"FACP", "APIC", "MCFG">>, rsdt |-> <<>>,
          table |-> [APIC |-> <<Cpu(0), Cpu(2), Off(4), Cpu(6)>> \o Tail4, SRAT |-> <<>>,
                    MCFG |-> <<[end_bus_number |-> 2]>>],
          ardc |-> <<Area(1, 0, 4), Area(3, 4, 1), Area(2, 7, 2), Area(1, 5, 2), Area(2, 9, 1)>>,
          fn |-> <<Bridge, UsbMsix, Gpu>>]
Srat == <<Ram(4, 2, 1), Node(0, 1), Ram(0, 2, 1), [Node(8, 1) EXCEPT !.enabled = FALSE],
          Ram(2, 2, 1), Node(2, 1), Ram(9, 0, 1)>>

MCMachines ==
    {Plain,
     [Plain EXCEPT !.revision = 0, !.rsdt = <<"SRAT", "APIC">>, !.table["SRAT"] = Srat,
                   !.table["APIC"] = <<Cpu(0), Cpu(2), Off(8)>> \o Tail4,
                   !.cpus = {0, 2}, !.fn = <<Serial, UsbMsi, UsbMsix, Gpu>>,
                   !.has = @ \ {"sse3", "x2apic", "smx"}],
     [Plain EXCEPT !.rsdp = FALSE, !.cpus = {0}, !.fn = <<Serial, UsbMsi, Gpu, Nic>>],
     [Plain EXCEPT !.table["MCFG"][1].end_bus_number = 1,
                   !.table["APIC"] = <<Cpu(0)>> \o Tail4, !.cpus = {0}, !.fn = <<Serial, UsbMsi, Gpu, Nic>>],
     [Plain EXCEPT !.xsdt = <<"SRAT">>, !.fn = <<UsbMsi, Gpu>>,
                   !.table["SRAT"] = Srat \o <<Node(4, 0), Node(6, 1), Ram(12, 2, 0)>>],
     [Plain EXCEPT !.xsdt = <<"SRAT">>, !.fn = <<UsbMsi>>, !.cpus = {0, 2, 6},
                   !.table["SRAT"] = Srat \o <<Node(6, 1)>>,
                   !.has = {"sse", "fxsr", "pge"}, !.xcr0 = {}],
     [Plain EXCEPT !.table["APIC"] = Tail4 \o <<Cpu(0), Cpu(1)>>, !.fn = <<>>],
     [Plain EXCEPT !.table["APIC"] = <<Cpu(0), X2Cpu(2), X2Cpu(6)>> \o Tail4, !.fn = <<>>],
     [Plain EXCEPT !.xsdt = <<"SRAT">>, !.table["SRAT"] = Srat \o <<X2Node(6, 1)>>, !.fn = <<>>],
     [Plain EXCEPT !.xsdt = <<"SRAT">>, !.cpus = {0, 2}, !.fn = <<>>,
                   !.table["SRAT"] = Srat \o <<[Ram(12, 2, 1) EXCEPT !.enabled = FALSE]>>],
     [Plain EXCEPT !.xsdt = <<"SRAT", "APIC">>, !.table["SRAT"] = Srat, !.fn = <<>>],
     [Plain EXCEPT !.rsdp = FALSE, !.cpus = {0}, !.fn = <<Serial, UsbMsi>>,
                   !.xcr0 = @ \cup {"opmask", "zmm_h256", "h16_zmm"}],
     [Plain EXCEPT !.fn = <<UsbMsix, Nic>>],
     [Plain EXCEPT !.fn = <<UsbMsi, Gpu, [Nic EXCEPT !.caps = <<"PM", "MSI">>]>>]}
MCOrders == {<<"xhci", "x550", "nvidia">>, <<"nvidia", "xhci", "x550">>}
===============================================================================
