--------------------------------- MODULE MCVmx ---------------------------------
(***************************************************************************)
(* Bounds for TLC: one behaviour of a plain guest with every instruction,  *)
(* and behaviours of a guest hypervisor with two VMCS regions, with VMCS   *)
(* shadowing and without, that enters its nested guest up to three times.  *)
(***************************************************************************)
EXTENDS Vmx

All == {"on", "msr_bitmaps", "shadow"}
NoShadow == {"on", "msr_bitmaps"}
Plain == [insns |-> Insn \ {"vmptrld", "vmwrite", "vmlaunch", "vmresume"},
          exits |-> 2, asyncs |-> 1, writes |-> 0, steps |-> 1, cpus |-> {{}, All}]
Hypervisor(cpu, insns, exits, asyncs, writes, steps) ==
  [insns |-> insns \cup {"vmptrld"}, exits |-> exits, asyncs |-> asyncs, writes |-> writes, steps |-> steps,
   cpus |-> {cpu}]
Regions == Hypervisor(All, {"vmlaunch"}, 6, 0, 1, 0)      \* a nested guest in each region
Resumed == Hypervisor(All, {"vmresume"}, 5, 0, 1, 1)
Interrupted == Hypervisor(All, {"vmlaunch"}, 4, 2, 0, 1)
Unshadowed == Hypervisor(NoShadow, {"vmlaunch", "vmwrite"}, 4, 0, 0, 1)
MCBudgets == {Plain, Regions, Resumed, Interrupted, Unshadowed}
================================================================================
