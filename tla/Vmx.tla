---------------------------------- MODULE Vmx ----------------------------------
(***************************************************************************)
(* The hypervisor (arch/x86_64/kvm/vmx): one virtual CPU with its VMCS     *)
(* (vmcs01), the loop that enters the guest and serves its exits, and      *)
(* nested virtualisation: the guest hypervisor's VMCS regions, the VMCS    *)
(* its nested guest runs on (vmcs02) and vmcs12, the copy of a region that *)
(* the hypervisor reads, with VMCS shadowing or without.                   *)
(*                                                                         *)
(* The processor's VMX instructions act on m: the current VMCS, the        *)
(* launched ones and the fields of all; fields are abstracted to a few of  *)
(* each group that the code copies together.                               *)
(***************************************************************************)
EXTENDS Integers, Sequences

CONSTANTS Region,     \* L1's VMCS regions
          Val,        \* values of fields, 0 .. n
          Budgets     \* what the guests do in a behaviour: see BudgetType

Saved == {"rip", "rsp", "cr3"}         \* guest state that sync_vmcs12 reads back
Kept == {"sysenter"}                   \* guest state that it leaves out
Guest == Saved \cup Kept
Host == {"host_rip", "host_rsp"}
Ctrl == {"ctls", "bitmap"}             \* a control word; the address of a page
Ro == {"reason", "qual"}
Other == Host \cup Ctrl \cup Ro
Field == Guest \cup Other

(* Instructions of L1 whose handler only skips them, and the ones it leaves  *)
(* where they are, for L1 to execute again: most have no handler at all;     *)
(* "bad_operand" is a VMX instruction whose memory operand is not found.     *)
SkippedVmxon == {"vmxon", "vmxoff", "vmclear"}
SkippedVmread == {"vmptrst", "vmread"}
SkippedXsaves == {"xsaves", "xrstors"}
Skipped == SkippedVmxon \cup SkippedVmread \cup SkippedXsaves
             \cup {"cpuid", "vmcall", "wrmsr", "invept", "out"}
UnservedRdtsc == {"rdpmc", "rdtsc", "rdtscp"}
Unserved == UnservedRdtsc \cup {"hlt", "invd", "invlpg", "rdmsr", "mov_dr", "mwait", "monitor",
              "wbinvd", "invvpid", "rdrand", "apic_access", "bad_operand"}
Insn == Skipped \cup Unserved \cup {"mov_cr", "rep_out", "xsetbv", "touch", "fault",
          "vmptrld", "vmwrite", "vmlaunch", "vmresume"}
Cpu == SUBSET {"on", "msr_bitmaps", "shadow"}     \* controls the processor supports
BudgetType == [insns : SUBSET Insn, exits : Nat, asyncs : Nat, writes : Nat, steps : Nat, cpus : SUBSET Cpu]

ASSUME VmxAssumption == /\ Val = 0 .. 3
                        /\ Budgets \subseteq BudgetType
                        /\ Region \cap {"none", "null", "kmalloc", "vmcs01", "vmcs02"} = {}

VARIABLES m,          \* the processor: cur, launched, data
          vcpu,       \* struct vmx_vcpu: state, guest_mode, shadow_enabled, shadow_vmcs, vmcs12, rip, rsp
          link,       \* VMCS_LINK_POINTER of vmcs01: where L1's VMREAD and VMWRITE go
          regs,       \* L1's registers that handlers use, as the code keeps them
          mapped,     \* the page L1 touches is in its EPT
          pc, insn,   \* "init", "alloc", "entry", "guest", "exit", "hung", "stopped"
          left        \* what is left of the budget

vars == <<m, vcpu, link, regs, mapped, pc, insn, left>>

Zero == [f \in Field |-> 0]
Vmcs == {"vmcs01", "vmcs02", "kmalloc"} \cup Region
Next1(v) == (v + 1) % 2

Init ==
  /\ m = [cur |-> "none", launched |-> {}, data |-> [v \in Vmcs |-> Zero]]
  /\ vcpu = [state |-> 0, guest_mode |-> FALSE, shadow_enabled |-> FALSE,
             shadow_vmcs |-> "null", vmcs12 |-> "null", rip |-> 0, rsp |-> 0]
  /\ link = "none"
  /\ regs = [rcx |-> 0, xcr0 |-> {"x87"}, lme |-> FALSE, ia32e |-> FALSE,
             cr0_shadow |-> 0, cr4_shadow |-> 0, vmcs_cr4_shadow |-> 0]
  /\ mapped = FALSE /\ pc = "init" /\ insn = "none"
  /\ left \in Budgets

--------------------------------------------------------------------------------
(* The processor.  VMCLEAR and VMPTRLD of an invalid address fail and change *)
(* nothing; VMCLEAR of the current VMCS leaves none current.                 *)
vmclear(p, v) ==
  IF v = "none" THEN p
  ELSE [p EXCEPT !.launched = @ \ {v}, !.cur = IF @ = v THEN "none" ELSE @]
vmptr_load(p, v) == IF v = "none" THEN p ELSE [p EXCEPT !.cur = v]
vmcs_write(p, f, v) == [p EXCEPT !.data[p.cur][f] = v]
CopyFields(p, from, to, fs) ==
  [p EXCEPT !.data[to] = [f \in Field |-> IF f \in fs THEN p.data[from][f] ELSE @[f]]]

--------------------------------------------------------------------------------
(* Setting up. *)

(* A control word: when a wanted control is not supported, the required ones *)
(* are added and the unsupported ones dropped.                               *)
Adjust(want, required, supported) ==
  IF want \subseteq supported THEN want ELSE (want \cup required) \cap supported

vmx_set_ctrl_state(cpu) == Adjust({"on", "msr_bitmaps", "shadow"}, {"on"}, cpu)

(* Where the processor continues on an exit: vm_exit, on vmx_run's stack.    *)
VmExitCode == 3
SaveHost(p) == vmcs_write(vmcs_write(p, "host_rip", VmExitCode), "host_rsp", VmExitCode)
vmx_save_host_state(p) == SaveHost(p)

(* The guest starts where its code was copied, as after a reset.             *)
vmx_set_bist_state == [f \in Guest |-> 0]
vmx_set_guest_state(p) ==
  [p EXCEPT !.data["vmcs01"] = [f \in Field |-> IF f \in Guest THEN vmx_set_bist_state[f] ELSE @[f]]]

(* vmx_enable fails on a processor without VMX or with VMX locked out.       *)
vmx_enable(cpu) == cpu # {}

VmxInitFails == /\ pc = "init" /\ \E cpu \in left.cpus : ~ vmx_enable(cpu)
                /\ pc' = "stopped" /\ UNCHANGED <<m, vcpu, link, regs, mapped, insn, left>>

VmxInit(cpu) ==
  /\ pc = "init" /\ vmx_enable(cpu)
  /\ m' = vmx_save_host_state(
             vmptr_load(vmclear(vmclear(m, "vmcs01"), "vmcs02"), "vmcs01"))
  /\ vcpu' = [vcpu EXCEPT !.shadow_enabled = "shadow" \in vmx_set_ctrl_state(cpu)]
  /\ pc' = "alloc" /\ UNCHANGED <<link, regs, mapped, insn, left>>

(* alloc_guest_memory, with half the size when it fails, three times; then   *)
(* the guest starts, with its memory mapped or, in the end, without.         *)
alloc_guest_memory(ok) == mapped' = ok
VmInitTest ==
  /\ pc = "alloc" /\ \E ok \in BOOLEAN : alloc_guest_memory(ok)
  /\ m' = vmx_set_guest_state(m) /\ link' = "none"
  /\ pc' = "entry" /\ UNCHANGED <<vcpu, regs, insn, left>>

--------------------------------------------------------------------------------
(* vmx_run: the entry with VMLAUNCH or VMRESUME. *)
LaunchWorks == m.cur \in {"vmcs01", "vmcs02"} /\ m.cur \notin m.launched
ResumeWorks == m.cur \in {"vmcs01", "vmcs02"} /\ m.cur \in m.launched

vm_launch == /\ pc = "entry" /\ vcpu.state = 0 /\ LaunchWorks
             /\ m' = [m EXCEPT !.launched = @ \cup {m.cur}]
             /\ pc' = "guest" /\ UNCHANGED <<vcpu, link, regs, mapped, insn, left>>
vm_resume == /\ pc = "entry" /\ vcpu.state = 1 /\ ResumeWorks
             /\ pc' = "guest" /\ UNCHANGED <<m, vcpu, link, regs, mapped, insn, left>>

--------------------------------------------------------------------------------
(* The guests.  L1 runs an instruction that does not exit; with shadowing    *)
(* its VMWRITEs go to the linked region; L2 changes its state.               *)
L1Data(p) == p.data["vmcs01"]
Spend(k) == left[k] > 0 /\ left' = [left EXCEPT ![k] = @ - 1]

L1Runs ==
  /\ pc = "guest" /\ ~ vcpu.guest_mode
  /\ \/ insn = "touch" /\ mapped /\ UNCHANGED <<regs, left>>
     \/ insn = "none" /\ Spend("steps") /\ regs' \in {regs, [regs EXCEPT !.lme = TRUE]}
  /\ insn' = "none"
  /\ m' = vmcs_write(m, "rip", Next1(L1Data(m).rip))
  /\ UNCHANGED <<vcpu, link, mapped, pc>>

(* What a register of L1 may hold. *)
kvm_reg_read == {0, 1}
WrittenFields == {"rip", "sysenter", "host_rip", "ctls", "bitmap"}

(* One that changes the field. *)
L1Writes(f, v) ==
  /\ pc = "guest" /\ ~ vcpu.guest_mode /\ insn = "none" /\ link # "none"
  /\ v # m.data[link][f] /\ Spend("writes")
  /\ m' = vmcs_write([m EXCEPT !.data[link][f] = v], "rip", Next1(L1Data(m).rip))
  /\ UNCHANGED <<vcpu, link, regs, mapped, pc, insn>>

L2Runs(f) ==
  /\ pc = "guest" /\ vcpu.guest_mode /\ Spend("steps")
  /\ m' = vmcs_write(m, f, Next1(m.data[m.cur][f]))
  /\ UNCHANGED <<vcpu, link, regs, mapped, pc, insn>>

(* vm_exit, and the start of vm_exit_handler: state is set once VMLAUNCH     *)
(* came back; vmx_save_guest_state and the handler read RIP and RSP.         *)
Exits(p, i) ==
  /\ pc = "guest" /\ pc' = "exit" /\ insn' = i
  /\ m' = p
  /\ vcpu' = [vcpu EXCEPT !.state = 1, !.rip = p.data[p.cur].rip, !.rsp = p.data[p.cur].rsp]
  /\ UNCHANGED <<link, mapped>>

CanExecute(i) ==
  /\ i \in left.insns
  /\ i = "vmwrite" => ~ vcpu.shadow_enabled
  /\ i \in {"vmwrite", "vmlaunch", "vmresume"} => vcpu.vmcs12 # "null"

L1Exits(i) ==
  /\ ~ vcpu.guest_mode /\ (i = "touch" => ~ mapped) /\ Exits(m, i)
  /\ \/ insn = i /\ UNCHANGED <<regs, left>>
     \/ /\ insn = "none" /\ CanExecute(i) /\ Spend("exits")
        /\ regs' = IF i = "rep_out" THEN [regs EXCEPT !.rcx = 2] ELSE regs

L2Exits(reason, qual) ==
  /\ vcpu.guest_mode /\ Spend("exits") /\ UNCHANGED regs
  /\ Exits(vmcs_write(vmcs_write(m, "reason", reason), "qual", qual), "l2")

(* Exits that are no instruction's: an external interrupt in either guest;   *)
(* an EPT violation of L2; the preemption timer and the like, whose controls *)
(* the code leaves off for L1 but whose handlers it has.                     *)
Async == {"external_interrupt", "preemption_timer", "ept"}
AsyncExit(a) ==
  /\ insn = "none" /\ Spend("asyncs") /\ UNCHANGED regs
  /\ (a = "ept" => vcpu.guest_mode) /\ (a = "preemption_timer" => ~ vcpu.guest_mode)
  /\ Exits(m, a)

--------------------------------------------------------------------------------
(* vm_exit_handler: the handler, then GUEST_RIP is written. *)
Served(p, v) == pc' = "entry" /\ vcpu' = v /\ m' = vmcs_write(p, "rip", v.rip)
Skip(v) == [v EXCEPT !.rip = Next1(@)]
Handling(i) == pc = "exit" /\ ~ vcpu.guest_mode /\ insn = i /\ UNCHANGED left

HandleSkipped == /\ \E i \in Skipped : Handling(i)
                 /\ Served(m, Skip(vcpu)) /\ insn' = "none"
                 /\ UNCHANGED <<link, regs, mapped>>

HandleUnserved == /\ \E i \in Unserved : Handling(i)
                  /\ Served(m, vcpu) /\ UNCHANGED <<link, regs, mapped, insn>>

(* The handlers of exceptions and of triple faults do not return. *)
vmx_handle_exception == /\ Handling("fault") /\ pc' = "hung"
                        /\ UNCHANGED <<m, vcpu, link, regs, mapped, insn>>

(* Whether L1 reads or writes the control register is not asked; the read    *)
(* shadow of CR4 gets the value kept for CR0.  Odd values set CR0.PG.        *)
vmx_enter_longmode(v) == v % 2 = 1 /\ regs.lme
vmx_handle_cr_access(cr, v) ==
  /\ Handling("mov_cr") /\ insn' = "none"
  /\ Served(IF cr = 3 THEN vmcs_write(m, "cr3", v) ELSE m, Skip(vcpu))
  /\ regs' = CASE cr = 0 -> [regs EXCEPT !.cr0_shadow = v,
                                         !.ia32e = @ \/ vmx_enter_longmode(v)]
                [] cr = 4 -> [regs EXCEPT !.cr4_shadow = v,
                                         !.vmcs_cr4_shadow = regs.cr0_shadow]
                [] OTHER -> regs
  /\ UNCHANGED <<link, mapped>>

(* A repeated OUT or IN: one exit for each iteration. *)
vmx_handle_io ==
  /\ Handling("rep_out")
  /\ regs' = [regs EXCEPT !.rcx = @ - 1]
  /\ Served(m, IF regs'.rcx = 0 THEN Skip(vcpu) ELSE vcpu)
  /\ insn' = IF regs'.rcx = 0 THEN "none" ELSE insn
  /\ UNCHANGED <<link, mapped>>

(* Mutant: AVX state without SSE state is let through. *)
ValidXcr0NoSse(x, supported) == x \subseteq supported /\ "x87" \in x
ValidXcr0(x, supported) ==
  /\ x \subseteq supported /\ "x87" \in x
  /\ ~ ("avx" \in x /\ "sse" \notin x)

(* crs: CR0 and CR4 allow it.  An invalid value is skipped silently. *)
vmx_handle_xsetbv(x, supported, crs) ==
  /\ Handling("xsetbv") /\ insn' = "none"
  /\ Served(m, Skip(vcpu))
  /\ regs' = IF ValidXcr0(x, supported) /\ crs THEN [regs EXCEPT !.xcr0 = x] ELSE regs
  /\ UNCHANGED <<link, mapped>>

(* Mutant: the page is not mapped. *)
EptUnmapped == Handling("touch") /\ Served(m, vcpu) /\ UNCHANGED <<link, regs, mapped, insn>>
vmx_handle_ept_volation == /\ Handling("touch") /\ mapped' = TRUE
                           /\ Served(m, vcpu) /\ UNCHANGED <<link, regs, insn>>

(* An external interrupt runs its host handler; the timer is set again.      *)
vmx_handle_external_interrupt ==
  /\ pc = "exit" /\ insn \in {"external_interrupt", "preemption_timer"}
  /\ insn' = "none"
  /\ Served(m, vcpu) /\ UNCHANGED <<link, regs, mapped, left>>

(* The shadow EPT of L2 gets the page, or the virtual machine ends.          *)
nested_vmx_handle_ept_volation(found) ==
  /\ pc = "exit" /\ insn = "ept" /\ insn' = "none"
  /\ Served(m, vcpu) /\ found /\ UNCHANGED <<link, regs, mapped, left>>
VmStops == /\ pc = "exit" /\ insn = "ept" /\ pc' = "stopped"
           /\ UNCHANGED <<m, vcpu, link, regs, mapped, insn, left>>

--------------------------------------------------------------------------------
(* Nested virtualisation. *)
vmx_handle_vmptrld(r) ==
  /\ Handling("vmptrld") /\ insn' = "none"
  /\ IF vcpu.shadow_enabled
     THEN /\ link' = r
          /\ Served(m, Skip([vcpu EXCEPT !.shadow_vmcs = r, !.vmcs12 = "kmalloc"]))
     ELSE link' = link /\ Served(m, Skip([vcpu EXCEPT !.vmcs12 = r]))
  /\ UNCHANGED <<regs, mapped>>

(* The value is that of whatever register the decoding names. *)
vmx_handle_vmwrite(f, v) ==
  /\ Handling("vmwrite") /\ insn' = "none"
  /\ Served([m EXCEPT !.data[vcpu.vmcs12][f] = v], Skip(vcpu))
  /\ UNCHANGED <<link, regs, mapped>>

(* Mutant: the shadow is read without the guest state. *)
ShadowToVmcs12Ctrl(p) ==
  vmptr_load(CopyFields(vmptr_load(vmclear(vmclear(p, p.cur), vcpu.shadow_vmcs), vcpu.shadow_vmcs),
                        vcpu.shadow_vmcs, vcpu.vmcs12, Ctrl \cup {"reason"}), p.cur)
(* Between a region and vmcs12; from the shadow, the exit qualification and  *)
(* the other read-only fields of natural width are not copied.               *)
copy_shadow_to_vmcs12(p) ==
  LET q == vmptr_load(vmclear(vmclear(p, p.cur), vcpu.shadow_vmcs), vcpu.shadow_vmcs)
  IN  vmptr_load(CopyFields(q, q.cur, vcpu.vmcs12, Guest \cup Ctrl \cup {"reason"}), p.cur)
copy_shadow_to_vmcs12_host(p) ==
  LET q == vmptr_load(vmclear(vmclear(p, p.cur), vcpu.shadow_vmcs), vcpu.shadow_vmcs)
  IN  vmptr_load(CopyFields(q, q.cur, vcpu.vmcs12, Host), p.cur)
copy_vmcs12_to_shadow(p) ==
  LET q == vmptr_load(vmclear(p, p.cur), vcpu.shadow_vmcs)
  IN  vmptr_load(CopyFields(q, vcpu.vmcs12, q.cur, Guest \cup Ctrl \cup Ro), p.cur)

(* ept_gpa_to_hpa of the address in the bitmap field: 0 is mapped, at 2.     *)
IsMapped(gpa) == gpa = 0
Hpa(gpa) == gpa + 2

(* Mutant: controls that vmcs02 has from an earlier entry are kept. *)
CtrlStateOnce(p) ==
  LET v12 == p.data[vcpu.vmcs12]
  IN  IF p.data[p.cur].bitmap = 0
      THEN vmcs_write(vmcs_write(p, "bitmap", Hpa(v12.bitmap)), "ctls", v12.ctls)
      ELSE p
(* Fails at the first address that is not mapped: the rest of vmcs02 stays   *)
(* as it was, and the caller does not look at the result.                    *)
nested_vmx_set_ctrl_state(p) ==
  LET v12 == p.data[vcpu.vmcs12]
  IN  IF IsMapped(v12.bitmap)
      THEN vmcs_write(vmcs_write(p, "bitmap", Hpa(v12.bitmap)), "ctls", v12.ctls)
      ELSE p
nested_vmx_save_host_state(p) == SaveHost(p)
nested_vmx_set_guest_state(p) == CopyFields(p, vcpu.vmcs12, p.cur, Guest)

(* Mutant: vmcs01 stays launched. *)
PrepareNoClear(p) ==
  nested_vmx_set_guest_state(nested_vmx_save_host_state(nested_vmx_set_ctrl_state(
    vmptr_load(p, "vmcs02"))))
prepare_vmcs02(p) ==
  nested_vmx_set_guest_state(nested_vmx_save_host_state(nested_vmx_set_ctrl_state(
    vmptr_load(vmclear(p, "vmcs01"), "vmcs02"))))

nested_vmx_run ==
  /\ Handling("vmlaunch") \/ Handling("vmresume")
  /\ insn' = "none"
  /\ LET p == prepare_vmcs02(IF vcpu.shadow_enabled THEN copy_shadow_to_vmcs12(m) ELSE m)
         g == p.data[vcpu.vmcs12]
     IN  Served(p, [vcpu EXCEPT !.state = 0, !.guest_mode = TRUE, !.rip = g.rip, !.rsp = g.rsp])
  /\ UNCHANGED <<link, regs, mapped>>

sync_vmcs12(p) == CopyFields(p, p.cur, vcpu.vmcs12, Saved \cup Ro)

(* The low half of an exit qualification: it is passed as 32 bits of 64.     *)
LowHalf(qual) == qual % 2

(* Where L1 continues. *)
LeaveGuestMode(v, host) ==
  [v EXCEPT !.state = 0, !.guest_mode = FALSE, !.rip = host.host_rip, !.rsp = host.host_rsp]

nested_vmx_vmexit ==
  /\ pc = "exit" /\ insn = "l2" /\ insn' = "none"
  /\ LET p1 == sync_vmcs12(IF vcpu.shadow_enabled THEN copy_shadow_to_vmcs12_host(m) ELSE m)
         p2 == [p1 EXCEPT !.data[vcpu.vmcs12].qual = LowHalf(m.data[m.cur].qual)]
         p3 == vmclear(p2, "vmcs02")
         p4 == vmptr_load(IF vcpu.shadow_enabled THEN copy_vmcs12_to_shadow(p3) ELSE p3, "vmcs01")
         v  == LeaveGuestMode(vcpu, p4.data[vcpu.vmcs12])
     IN  /\ vcpu' = v /\ pc' = "entry"
         /\ m' = vmcs_write(vmcs_write(p4, "rip", v.rip), "rsp", v.rsp)
  /\ UNCHANGED <<link, regs, mapped, left>>

--------------------------------------------------------------------------------
L1Handler ==
  \/ HandleSkipped \/ HandleUnserved \/ vmx_handle_exception
  \/ \E cr \in {0, 3, 4}, v \in kvm_reg_read : vmx_handle_cr_access(cr, v)
  \/ vmx_handle_io
  \/ \E x \in SUBSET {"x87", "sse", "avx"}, crs \in BOOLEAN :
       vmx_handle_xsetbv(x, {"x87", "sse", "avx"}, crs)
  \/ vmx_handle_ept_volation
  \/ \E r \in Region : vmx_handle_vmptrld(r)
  \/ \E f \in WrittenFields, v \in kvm_reg_read : vmx_handle_vmwrite(f, v)
  \/ nested_vmx_run

Handler == L1Handler \/ nested_vmx_vmexit \/ vmx_handle_external_interrupt
             \/ nested_vmx_handle_ept_volation(TRUE) \/ VmStops

GuestStep == \/ L1Runs \/ \E i \in Insn : L1Exits(i)
             \/ \E f \in WrittenFields, v \in kvm_reg_read : L1Writes(f, v)
             \/ \E f \in Saved \ {"rsp"} : L2Runs(f)
             \/ \E reason \in {1, 2} : L2Exits(reason, reason + 1)
             \/ \E a \in Async : AsyncExit(a)

HostStep == \/ VmxInitFails \/ \E cpu \in left.cpus : VmxInit(cpu)
            \/ VmInitTest \/ vm_launch \/ vm_resume \/ Handler

Next == HostStep \/ GuestStep

(* One processor runs the hypervisor's loop and the guest in turns, and does *)
(* not stop: the loop goes on, and the guest executes the instruction it is  *)
(* at again when it has been left there.                                     *)
Again == pc = "guest" /\ insn # "none" /\ (L1Runs \/ L1Exits(insn))
Spec == Init /\ [][Next]_vars /\ WF_vars(HostStep) /\ WF_vars(Again)

--------------------------------------------------------------------------------
(* Types. *)
TypeOK ==
  /\ m \in [cur : {"none", "vmcs01", "vmcs02"} \cup Region, launched : SUBSET {"vmcs01", "vmcs02"},
            data : [Vmcs -> [Field -> Val]]]
  /\ vcpu \in [state : {0, 1}, guest_mode : BOOLEAN, shadow_enabled : BOOLEAN,
               shadow_vmcs : Region \cup {"null"}, vmcs12 : Region \cup {"null", "kmalloc"},
               rip : Val, rsp : Val]
  /\ link \in Region \cup {"none"}
  /\ regs.rcx \in Nat /\ pc \in {"init", "alloc", "entry", "guest", "exit", "hung", "stopped"}

(* The processor accepts what the host does for its guests.  Every entry of  *)
(* vmx_run succeeds: the current VMCS is the one of the guest to run, never  *)
(* a shadow VMCS, and the state kept in software says whether the processor  *)
(* takes VMLAUNCH or VMRESUME for it, through every switch between vmcs01,   *)
(* vmcs02 and the shadow VMCS; its exit will come back to the host's code;   *)
(* and the XCR0 that the guest's XSETBV reaches faults nowhere.              *)
EntryLegal ==
  /\ "x87" \in regs.xcr0 /\ ("avx" \in regs.xcr0 => "sse" \in regs.xcr0)
  /\ pc = "entry" => /\ m.cur = IF vcpu.guest_mode THEN "vmcs02" ELSE "vmcs01"
                     /\ vcpu.state = 0 <=> m.cur \notin m.launched
                     /\ m.data[m.cur].host_rip = VmExitCode

(* L2 runs under the controls that L1 asked for in the region it loaded,     *)
(* unless an address among them is not mapped: nested_vmx_set_ctrl_state     *)
(* then stops half-way and is not heeded.                                    *)
L1Region == IF vcpu.shadow_enabled THEN vcpu.shadow_vmcs ELSE vcpu.vmcs12
L2Controls ==
  pc = "guest" /\ vcpu.guest_mode =>
    LET asked == m.data[L1Region]
    IN  IsMapped(asked.bitmap) => /\ m.data["vmcs02"].ctls = asked.ctls
                                  /\ m.data["vmcs02"].bitmap = Hpa(asked.bitmap)

(* The code gives L1 and L2 what nested virtualisation promises: entering L2 *)
(* and leaving it any number of times, with several regions, with shadowing  *)
(* or without, every saved field of L2 comes back to the region L1 loaded,   *)
(* with the reason and the low half of the qualification of the exit, and L1 *)
(* continues where its host fields say; no field of another region changes.  *)
Arch == INSTANCE NestedVmx WITH
  NoRegion <- "null",
  mode <- IF vcpu.guest_mode THEN "L2" ELSE "L1",
  l1 <- IF vcpu.guest_mode THEN [rip |-> 0, rsp |-> 0]
        ELSE [rip |-> L1Data(m).rip, rsp |-> L1Data(m).rsp],
  l2 <- [f \in Guest |-> IF vcpu.guest_mode THEN m.data["vmcs02"][f] ELSE 0],
  view <- [r \in Region |-> m.data[r]],
  cur <- L1Region
NestedArchitecture == Arch!Spec

(* An instruction of L1 whose handler emulates it is retired: L1 does not    *)
(* run into the same exit for ever, be it a repeated OUT or the touch of a   *)
(* page that the EPT lacked.                                                 *)
GuestProgress ==
  (insn \in Insn \ (Unserved \cup {"fault"})) ~> (insn = "none")
================================================================================
