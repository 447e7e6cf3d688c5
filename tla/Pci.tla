--------------------------------- MODULE Pci ----------------------------------
(***************************************************************************)
(* The PCI core: drivers/pci/pci.c, the inline helpers of include/pci.h    *)
(* and the host bridge of arch/x86_64/pci.c.                               *)
(*                                                                         *)
(* The boot processor runs all of it, one configuration access after the   *)
(* other, while devices and their interrupts go on.  What it still has to  *)
(* do is the sequence todo: a call is replaced by the accesses it makes,   *)
(* an access is one step.                                                  *)
(*                                                                         *)
(* A configuration register of 32 bits is W bits wide here, an address     *)
(* 2 W; the low four bits of a base address register keep their meaning    *)
(* (0: I/O, 1: reserved, 2: 64-bit).                                       *)
(***************************************************************************)
EXTENDS Topology

CONSTANT W
ASSUME WAssumption == W \in Nat /\ W >= 6

VARIABLES machine,          \* the hardware (never changes)
          todo,             \* what the boot processor has still to do
          local,            \* the locals of pci_get_bar_size
          end_bus_number,   \* of host_bridge, -1 while that is NULL
          cfg,              \* cfg[f]: the configuration registers of function f
          table,            \* table[f]: f's MSI-X table, in its memory
          pci_device_list,  \* the functions found, in order
          resource,         \* resource[f][i]: what pci_dev holds of BAR i
          irq_list,         \* irq_list[f]: the interrupts registered with f
          free_irq,         \* the next free interrupt (see module IrqVectors)
          probed            \* probed[f]: the drivers that have probed f, in order

pci_vars == <<machine, todo, local, end_bus_number, cfg, table, pci_device_list,
              resource, irq_list, free_irq, probed>>

Fn == DOMAIN machine.fn
Hw(f) == machine.fn[f]
NBar(f) == IF Hw(f).bridge THEN 2 ELSE 6

bit(v, k) == (v \div 2^k) % 2
low(v, k) == v % 2^k
AllOnes == 2^W - 1

(* What register i of f holds after v is written to it: the low bits tell    *)
(* what it is, those below the size are zero.  Registers past the last BAR   *)
(* are there too (a 64-bit BAR reads the next one); Rom is the expansion ROM. *)
Rom == 7
HeldBy(b, v) ==
    LET a == v - low(v, b.size)
    IN  CASE b.kind = "none" -> 0
          [] b.kind = "io"   -> a + 1
          [] b.kind = "mem"  -> a
          [] b.kind = "mem64" -> a + 4
          [] b.kind = "high" -> a
Held(f, i, v) == HeldBy(Hw(f).bar[i], v)

PciInit(m) ==
    /\ machine = m
    /\ local = [cmd |-> FALSE, ori |-> 0, lo |-> [size |-> 0, ori |-> 0], hi |-> 0]
    /\ end_bus_number = -1
    /\ cfg = [f \in DOMAIN m.fn |->
                 [decode |-> m.fn[f].decode, master |-> FALSE,
                  bar |-> [i \in 0 .. Rom |-> m.fn[f].bar[i].at],
                  msi |-> [on |-> FALSE, data |-> -1, order |-> 0],
                  msix |-> [on |-> FALSE]]]
    /\ table = [f \in DOMAIN m.fn |-> [k \in 0 .. m.fn[f].msix_size - 1 |-> -1]]
    /\ pci_device_list = <<>>
    /\ resource = [f \in DOMAIN m.fn |-> <<>>]
    /\ irq_list = [f \in DOMAIN m.fn |-> <<>>]
    /\ free_irq = 0
    /\ probed = [f \in DOMAIN m.fn |-> <<>>]

(* The next thing to do is op; Then replaces it.  A function that the code   *)
(* does not find on any bus is not in the machine.                           *)
At(op) == todo # <<>> /\ Head(todo)[1] = op
fn == Head(todo)[2]
arg == Head(todo)[3]
Then(ops) == todo' = ops \o Tail(todo)

(* A configuration access, through the ports 0xcf8 and 0xcfc or the          *)
(* memory-mapped window: the same register either way.                       *)
read_config(f, i) == cfg[f].bar[i]
write_config(f, i, v) == cfg' = [cfg EXCEPT ![f].bar[i] = Held(f, i, v)]

-------------------------------------------------------------------------------
(* Base address registers.  pci_get_bar_type and pci_get_bar_base read.      *)
pci_get_bar_type(f, i) ==
    LET v == read_config(f, i) IN IF bit(v, 1) = 1 THEN 2^W - 1 ELSE low(v, 4)
pci_get_bar_base(f, i) ==
    LET v  == read_config(f, i)
        hi == IF bit(v, 2) = 1 THEN read_config(f, i + 1) ELSE 0
    IN  IF bit(v, 1) = 1 THEN 0
        ELSE v - low(v, IF bit(v, 0) = 1 THEN 2 ELSE 4) + hi * 2^W

(* pci_get_bar_size: decoding is off while a register holds all ones.        *)
(* SizeDecoding leaves it on.                                                *)
SizeDecoding(f, i) ==
    <<<<"ones", f, i>>, <<"back_lo", f, i>>>>
    \o (IF bit(read_config(f, i), 2) = 1
        THEN <<<<"ones", f, i + 1>>, <<"back_hi", f, i + 1>>>> ELSE <<>>)
pci_get_bar_size(f, i) ==
    <<<<"command_off", f>>, <<"ones", f, i>>, <<"back_lo", f, i>>>>
    \o (IF bit(read_config(f, i), 2) = 1
        THEN <<<<"ones", f, i + 1>>, <<"back_hi", f, i + 1>>>> ELSE <<>>)
    \o <<<<"command_back", f>>>>
CommandOff ==
    /\ At("command_off")
    /\ local' = [local EXCEPT !.cmd = cfg[fn].decode, !.hi = AllOnes]
    /\ cfg' = [cfg EXCEPT ![fn].decode = FALSE]
    /\ Then(<<>>)
    /\ UNCHANGED <<machine, end_bus_number, table, pci_device_list, resource, irq_list,
                   free_irq, probed>>
Ones ==
    /\ At("ones")
    /\ local' = [local EXCEPT !.ori = read_config(fn, arg)]
    /\ write_config(fn, arg, AllOnes)
    /\ Then(<<>>)
    /\ UNCHANGED <<machine, end_bus_number, table, pci_device_list, resource, irq_list,
                   free_irq, probed>>

(* The size bits are read and the address is written back; the low half      *)
(* carries the type.                                                         *)
Back ==
    /\ At("back_lo") \/ At("back_hi")
    /\ local' = IF At("back_lo")
                THEN [local EXCEPT !.lo = [size |-> read_config(fn, arg), ori |-> local.ori]]
                ELSE [local EXCEPT !.hi = read_config(fn, arg)]
    /\ write_config(fn, arg, local.ori)
    /\ Then(<<>>)
    /\ UNCHANGED <<machine, end_bus_number, table, pci_device_list, resource, irq_list,
                   free_irq, probed>>
CommandBack ==
    /\ At("command_back")
    /\ cfg' = [cfg EXCEPT ![fn].decode = local.cmd]
    /\ Then(<<>>)
    /\ UNCHANGED <<machine, local, end_bus_number, table, pci_device_list, resource,
                   irq_list, free_irq, probed>>

(* The value pci_get_bar_size returns: the two's complement of the bits that *)
(* could be set, 0 for an I/O register.  LowOnly forgets the upper half.     *)
LowOnly(l) ==
    IF bit(l.lo.ori, 0) = 1 THEN 0
    ELSE (2^W - (l.lo.size - low(l.lo.size, 4))) % 2^W
Size(l) ==
    IF bit(l.lo.ori, 0) = 1 THEN 0
    ELSE (2^(2*W) - (l.lo.size - low(l.lo.size, 4) + l.hi * 2^W)) % 2^(2*W)

-------------------------------------------------------------------------------
(* pci_scan visits every function of every bus up to the last, in order, and *)
(* pci_device_init sizes its BARs and its ROM before it goes on the list.    *)
x86_pci_hostbridge_init ==
    /\ At("hostbridge")
    /\ end_bus_number' = IF acpi_get_desc(machine, "MCFG")
                         THEN machine.table["MCFG"][1].end_bus_number ELSE 5
    /\ Then(<<>>)
    /\ UNCHANGED <<machine, local, cfg, table, pci_device_list, resource, irq_list,
                   free_irq, probed>>
pci_scan ==
    /\ At("pci_scan")
    /\ pci_device_list' = <<>>
    /\ Then(FlattenSeq([f \in Fn |-> IF Hw(f).bus <= end_bus_number
                                     THEN <<<<"device_init", f>>>> ELSE <<>>]))
    /\ UNCHANGED <<machine, local, end_bus_number, cfg, table, resource, irq_list,
                   free_irq, probed>>
pci_device_init ==
    /\ At("device_init")
    /\ Then(FlattenSeq([i \in 1 .. NBar(fn) |-> <<<<"bar", fn, i - 1>>>>])
            \o <<<<"command_off", fn>>, <<"ones", fn, Rom>>, <<"back_lo", fn, Rom>>,
                 <<"command_back", fn>>, <<"register", fn>>>>)
    /\ UNCHANGED <<machine, local, end_bus_number, cfg, table, pci_device_list, resource,
                   irq_list, free_irq, probed>>
Bar ==
    /\ At("bar")
    /\ resource' = [resource EXCEPT ![fn] =
                       Append(@, [start |-> pci_get_bar_base(fn, arg), end |-> 0, flags |-> 0])]
    /\ Then(pci_get_bar_size(fn, arg) \o <<<<"bar_end", fn, arg>>>>)
    /\ UNCHANGED <<machine, local, end_bus_number, cfg, table, pci_device_list, irq_list,
                   free_irq, probed>>
BarEnd ==
    /\ At("bar_end")
    /\ LET r == resource[fn][arg + 1] IN
       resource' = [resource EXCEPT ![fn][arg + 1] =
                       [r EXCEPT !.end = (r.end + r.start + Size(local) - 1) % 2^(2*W),
                                 !.flags = pci_get_bar_type(fn, arg)]]
    /\ Then(<<>>)
    /\ UNCHANGED <<machine, local, end_bus_number, cfg, table, pci_device_list, irq_list,
                   free_irq, probed>>
register_pci_device ==
    /\ At("register")
    /\ pci_device_list' = Append(pci_device_list, fn)
    /\ Then(<<>>)
    /\ UNCHANGED <<machine, local, end_bus_number, cfg, table, resource, irq_list,
                   free_irq, probed>>

-------------------------------------------------------------------------------
(* The capability list: where the capability is, 0 if the function has none; *)
(* and how many vectors it offers, -1 for -ENODEV.                           *)
pci_find_capability(f, id) ==
    LET is == {k \in DOMAIN Hw(f).caps : Hw(f).caps[k] = id}
    IN  IF is = {} THEN 0 ELSE CHOOSE k \in is : \A j \in is : k <= j
pci_msi_vec_count(f) == IF pci_find_capability(f, "MSI") = 0 THEN -1 ELSE 2^Hw(f).msi_order
pci_msix_vec_count(f) == IF pci_find_capability(f, "MSIX") = 0 THEN -1 ELSE Hw(f).msix_size

(* What a probe asks of the core: pci_enable_device, pci_set_master. *)
pci_enable_device ==
    /\ At("enable")
    /\ cfg' = [cfg EXCEPT ![fn].decode = TRUE]
    /\ Then(<<>>)
    /\ UNCHANGED <<machine, local, end_bus_number, table, pci_device_list, resource,
                   irq_list, free_irq, probed>>
pci_set_master ==
    /\ At("master")
    /\ cfg' = [cfg EXCEPT ![fn].master = TRUE]
    /\ Then(<<>>)
    /\ UNCHANGED <<machine, local, end_bus_number, table, pci_device_list, resource,
                   irq_list, free_irq, probed>>

(* MSI-X if the function has it, else MSI, at most 32 vectors: the drivers   *)
(* call pci_enable_msi when pci_enable_msix fails.  Both switch the          *)
(* capability off, set it up and switch it on.                               *)
pci_enable_msix ==
    /\ At("msix")
    /\ Then(IF pci_msix_vec_count(fn) < 0 THEN <<<<"msi", fn>>>>
            ELSE <<<<"msix_ctrl", fn, FALSE>>>>
                 \o [k \in 1 .. pci_msix_vec_count(fn) |-> <<"msix_entry", fn, k - 1>>]
                 \o <<<<"msix_ctrl", fn, TRUE>>>>)
    /\ UNCHANGED <<machine, local, end_bus_number, cfg, table, pci_device_list, resource,
                   irq_list, free_irq, probed>>
pci_enable_msi ==
    /\ At("msi")
    /\ LET nvec == IF pci_msi_vec_count(fn) > 32 THEN 32 ELSE pci_msi_vec_count(fn)
       IN  Then(IF nvec < 1 THEN <<>>
                ELSE <<<<"msi_ctrl", fn, FALSE>>, <<"msi_entry", fn, nvec>>,
                       <<"msi_multiple", fn, nvec>>, <<"msi_ctrl", fn, TRUE>>>>)
    /\ UNCHANGED <<machine, local, end_bus_number, cfg, table, pci_device_list, resource,
                   irq_list, free_irq, probed>>
pci_msix_clear_and_set_ctrl ==
    /\ At("msix_ctrl")
    /\ cfg' = [cfg EXCEPT ![fn].msix.on = arg]
    /\ Then(<<>>)
    /\ UNCHANGED <<machine, local, end_bus_number, table, pci_device_list, resource,
                   irq_list, free_irq, probed>>
pci_msi_set_enable ==
    /\ At("msi_ctrl")
    /\ cfg' = [cfg EXCEPT ![fn].msi.on = arg]
    /\ Then(<<>>)
    /\ UNCHANGED <<machine, local, end_bus_number, table, pci_device_list, resource,
                   irq_list, free_irq, probed>>

(* alloc_irqs for n interrupts aligned to n, and pci_irq_register of each.   *)
Aligned(n) == ((free_irq + n - 1) \div n) * n
Allocate(f, n) ==
    /\ free_irq' = Aligned(n) + n
    /\ irq_list' = [irq_list EXCEPT ![f] = @ \o [k \in 1 .. n |-> Aligned(n) + k - 1]]

(* msix_entry_setup maps the table where pci_dev says its BAR is: the write  *)
(* arrives if the function decodes that address.                             *)
Address(f, i) == read_config(f, i) - low(read_config(f, i), 4)
                 + (IF Hw(f).bar[i].kind = "mem64" THEN read_config(f, i + 1) * 2^W ELSE 0)
Decodes(f, i) == cfg[f].decode /\ resource[f][i + 1].start = Address(f, i)
msix_entry_setup ==
    /\ At("msix_entry")
    /\ Allocate(fn, 1)
    /\ table' = IF Decodes(fn, Hw(fn).bir) THEN [table EXCEPT ![fn][arg] = Aligned(1)]
                ELSE table
    /\ Then(<<>>)
    /\ UNCHANGED <<machine, local, end_bus_number, cfg, pci_device_list, resource, probed>>
msi_entry_setup ==
    /\ At("msi_entry")
    /\ Allocate(fn, arg)
    /\ cfg' = [cfg EXCEPT ![fn].msi.data = Aligned(arg)]
    /\ Then(<<>>)
    /\ UNCHANGED <<machine, local, end_bus_number, table, pci_device_list, resource, probed>>

(* The order of the number of vectors: the loop counts its bits, less one.   *)
(* CountBits forgets to take that one away.                                  *)
CountBits(n) == 1 + CHOOSE k \in 0 .. n : 2^k <= n /\ n < 2^(k + 1)
Order(n) == CHOOSE k \in 0 .. n : 2^k <= n /\ n < 2^(k + 1)
pci_msi_multiple_enable ==
    /\ At("msi_multiple")
    /\ cfg' = [cfg EXCEPT ![fn].msi.order = Order(arg)]
    /\ Then(<<>>)
    /\ UNCHANGED <<machine, local, end_bus_number, table, pci_device_list, resource,
                   irq_list, free_irq, probed>>

-------------------------------------------------------------------------------
(* pci_register_driver probes every function on the list once for each slot  *)
(* of the driver's id table that has the function's id.                      *)
pci_register_driver(ids) ==
    /\ At("driver")
    /\ Then(FlattenSeq([k \in DOMAIN pci_device_list |->
               FlattenSeq([i \in DOMAIN ids[fn] |->
                 IF ids[fn][i] = Hw(pci_device_list[k]).id
                 THEN <<<<"probe", pci_device_list[k], fn>>>> ELSE <<>>])]))
    /\ UNCHANGED <<machine, local, end_bus_number, cfg, table, pci_device_list, resource,
                   irq_list, free_irq, probed>>
===============================================================================
