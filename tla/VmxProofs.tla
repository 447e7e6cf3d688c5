------------------------------- MODULE VmxProofs -------------------------------
(***************************************************************************)
(* Proofs about Vmx for any set of VMCS regions and whatever the guests    *)
(* do: every entry of vmx_run is one the processor accepts, L2 runs under  *)
(* the controls L1 asked for, and nested virtualisation implements         *)
(* NestedVmx.  First what the VMX instructions do to the processor, then   *)
(* what the code's sequences of them do, then the invariant and the steps. *)
(***************************************************************************)
EXTENDS Vmx, TLAPS

Loadable == {"vmcs01", "vmcs02"} \cup Region
Proc == [cur : {"none"} \cup Loadable, launched : SUBSET {"vmcs01", "vmcs02"},
         data : [Vmcs -> [Field -> Val]]]

(* The names of the hypervisor's own VMCSs and of no VMCS are no regions. *)
LEMMA Names ==
    /\ Loadable \subseteq Vmcs /\ "kmalloc" \in Vmcs /\ "none" \notin Vmcs
    /\ "vmcs01" \in Loadable /\ "vmcs02" \in Loadable /\ Region \subseteq Loadable
    /\ \A r \in Region : r \notin {"none", "null", "kmalloc", "vmcs01", "vmcs02"}
BY VmxAssumption DEF Loadable, Vmcs

(* The groups of fields are apart. *)
LEMMA Groups ==
    /\ Guest = {"rip", "rsp", "cr3", "sysenter"} /\ Guest \subseteq Field
    /\ Saved = {"rip", "rsp", "cr3"} /\ Kept = {"sysenter"}
    /\ Host = {"host_rip", "host_rsp"} /\ Host \subseteq Field
    /\ Ctrl = {"ctls", "bitmap"} /\ Ctrl \subseteq Field
    /\ Ro = {"reason", "qual"} /\ Ro \subseteq Field
    /\ Field = Guest \cup Host \cup Ctrl \cup Ro
    /\ WrittenFields \subseteq Field
BY DEF Guest, Saved, Kept, Host, Ctrl, Ro, Other, Field, WrittenFields

(* Values of fields are small numbers. *)
LEMMA Values ==
    /\ \A v \in Val : v \in Nat /\ Next1(v) \in Val /\ LowHalf(v) \in Val
    /\ 0 \in Val /\ 1 \in Val /\ 2 \in Val /\ 3 \in Val
    /\ kvm_reg_read \subseteq Val /\ VmExitCode = 3 /\ Hpa(0) = 2
<1>1. Val = 0 .. 3
  BY VmxAssumption
<1> QED
  BY <1>1 DEF Next1, LowHalf, kvm_reg_read, VmExitCode, Hpa

-------------------------------------------------------------------------------
(* VMCLEAR ends the launched state and currency of one VMCS and keeps all    *)
(* fields.                                                                   *)
LEMMA ClearFacts ==
    ASSUME NEW p \in Proc, NEW v \in {"none"} \cup Loadable
    PROVE  /\ vmclear(p, v) \in Proc
           /\ vmclear(p, v).cur = IF p.cur = v THEN "none" ELSE p.cur
           /\ vmclear(p, v).launched = p.launched \ {v}
           /\ vmclear(p, v).data = p.data
<1>1. CASE v = "none"
  BY <1>1 DEF vmclear, Proc
<1>2. CASE v # "none"
  BY <1>2 DEF vmclear, Proc
<1> QED
  BY <1>1, <1>2

(* VMPTRLD only makes a VMCS current. *)
LEMMA LoadFacts ==
    ASSUME NEW p \in Proc, NEW v \in Loadable
    PROVE  /\ vmptr_load(p, v) \in Proc
           /\ vmptr_load(p, v).cur = v
           /\ vmptr_load(p, v).launched = p.launched
           /\ vmptr_load(p, v).data = p.data
<1>1. v # "none"
  BY Names
<1> QED
  BY <1>1 DEF vmptr_load, Proc

(* VMWRITE changes one field of the current VMCS. *)
LEMMA WriteFacts ==
    ASSUME NEW p \in Proc, p.cur # "none", NEW f \in Field, NEW v \in Val
    PROVE  /\ vmcs_write(p, f, v) \in Proc
           /\ vmcs_write(p, f, v).cur = p.cur
           /\ vmcs_write(p, f, v).launched = p.launched
           /\ vmcs_write(p, f, v).data[p.cur][f] = v
           /\ \A x \in Vmcs : x # p.cur => vmcs_write(p, f, v).data[x] = p.data[x]
           /\ \A g \in Field : g # f => vmcs_write(p, f, v).data[p.cur][g] = p.data[p.cur][g]
<1>1. p.cur \in Vmcs
  BY Names DEF Proc
<1> QED
  BY <1>1 DEF vmcs_write, Proc

(* Copying fields changes them in one VMCS. *)
LEMMA CopyFacts ==
    ASSUME NEW p \in Proc, NEW from \in Vmcs, NEW to \in Vmcs, NEW fs
    PROVE  /\ CopyFields(p, from, to, fs) \in Proc
           /\ CopyFields(p, from, to, fs).cur = p.cur
           /\ CopyFields(p, from, to, fs).launched = p.launched
           /\ \A x \in Vmcs : x # to => CopyFields(p, from, to, fs).data[x] = p.data[x]
           /\ \A g \in Field : CopyFields(p, from, to, fs).data[to][g]
                                 = IF g \in fs THEN p.data[from][g] ELSE p.data[to][g]
<1> DEFINE row == [f \in Field |-> IF f \in fs THEN p.data[from][f] ELSE p.data[to][f]]
<1>1. CopyFields(p, from, to, fs) = [p EXCEPT !.data[to] = row]
  BY DEF CopyFields
<1>2. /\ row \in [Field -> Val]
      /\ \A g \in Field : row[g] = IF g \in fs THEN p.data[from][g] ELSE p.data[to][g]
  BY DEF Proc
<1> HIDE DEF row
<1> QED
  BY <1>1, <1>2 DEF Proc
-------------------------------------------------------------------------------
(* What the sequences of these instructions do, for a vcpu whose vmcs12 is   *)
(* the allocated copy of a shadow VMCS.                                      *)
Shadowing == vcpu.shadow_vmcs \in Region /\ vcpu.vmcs12 = "kmalloc"

(* Making the shadow VMCS current, copying from it and going back: the VMCS  *)
(* that was current is cleared on the way, so it is no longer launched.      *)
FromShadow(p, fs) ==
  LET q == vmptr_load(vmclear(vmclear(p, p.cur), vcpu.shadow_vmcs), vcpu.shadow_vmcs)
  IN  vmptr_load(CopyFields(q, q.cur, vcpu.vmcs12, fs), p.cur)

(* What a copy from the shadow VMCS does to the guest hypervisor's region.   *)
(* What a copy from the shadow VMCS does to the guest hypervisor's region.   *)
LEMMA FromShadowFacts ==
    ASSUME NEW p \in Proc, p.cur \in {"vmcs01", "vmcs02"}, Shadowing, NEW fs
    PROVE  /\ FromShadow(p, fs) \in Proc /\ FromShadow(p, fs).cur = p.cur
           /\ FromShadow(p, fs).launched = p.launched \ {p.cur}
           /\ \A x \in Vmcs : x # "kmalloc" => FromShadow(p, fs).data[x] = p.data[x]
           /\ \A g \in Field : FromShadow(p, fs).data["kmalloc"][g]
                                 = IF g \in fs THEN p.data[vcpu.shadow_vmcs][g]
                                   ELSE p.data["kmalloc"][g]
<1> DEFINE s  == vcpu.shadow_vmcs
           p1 == vmclear(p, p.cur)
           p2 == vmclear(p1, s)
           q  == vmptr_load(p2, s)
           r  == FromShadow(p, fs)
           p3 == CopyFields(q, q.cur, vcpu.vmcs12, fs)
<1>1. /\ s \in Loadable /\ s \in Vmcs /\ "kmalloc" \in Vmcs /\ p.cur \in Loadable
      /\ vcpu.vmcs12 = "kmalloc" /\ s \notin {"vmcs01", "vmcs02"}
  BY Names DEF Shadowing
<1>2. p1 \in Proc /\ p1.launched = p.launched \ {p.cur} /\ p1.data = p.data
  BY <1>1, ClearFacts
<1>3. p2 \in Proc /\ p2.launched = p1.launched \ {s} /\ p2.data = p.data
  BY <1>1, <1>2, ClearFacts
<1>4. p2.launched = p.launched \ {p.cur}
  BY <1>1, <1>2, <1>3 DEF Proc
<1>5. q \in Proc /\ q.cur = s /\ q.launched = p.launched \ {p.cur} /\ q.data = p.data
  BY <1>1, <1>3, <1>4, LoadFacts
<1>6. r = vmptr_load(p3, p.cur)
  BY DEF FromShadow
<1> HIDE DEF p1, p2, q, r, s
<1>7. /\ p3 \in Proc /\ p3.launched = q.launched
      /\ \A x \in Vmcs : x # "kmalloc" => p3.data[x] = q.data[x]
      /\ \A g \in Field : p3.data["kmalloc"][g] = IF g \in fs THEN q.data[s][g]
                                                  ELSE q.data["kmalloc"][g]
  BY <1>1, <1>5, CopyFacts
<1> HIDE DEF p3
<1>8. r \in Proc /\ r.cur = p.cur /\ r.launched = p3.launched /\ r.data = p3.data
  BY <1>1, <1>7, <1>6, LoadFacts
<1> QED
  BY <1>5, <1>7, <1>8 DEF r, s

(* Preparing vmcs02: it is current afterwards, vmcs01 no longer launched;    *)
(* the host part is set, the guest part and, if their address is mapped, the *)
(* controls are those of vmcs12.                                             *)
LEMMA PrepareFacts ==
    ASSUME NEW p \in Proc, vcpu.vmcs12 \in Region \cup {"kmalloc"}
    PROVE  /\ prepare_vmcs02(p) \in Proc /\ prepare_vmcs02(p).cur = "vmcs02"
           /\ prepare_vmcs02(p).launched = p.launched \ {"vmcs01"}
           /\ \A x \in Vmcs : x # "vmcs02" => prepare_vmcs02(p).data[x] = p.data[x]
           /\ prepare_vmcs02(p).data["vmcs02"]["host_rip"] = VmExitCode
           /\ \A g \in Guest : prepare_vmcs02(p).data["vmcs02"][g] = p.data[vcpu.vmcs12][g]
           /\ IsMapped(p.data[vcpu.vmcs12]["bitmap"]) =>
                 /\ prepare_vmcs02(p).data["vmcs02"]["ctls"] = p.data[vcpu.vmcs12]["ctls"]
                 /\ prepare_vmcs02(p).data["vmcs02"]["bitmap"] = Hpa(p.data[vcpu.vmcs12]["bitmap"])
<1> DEFINE w  == vcpu.vmcs12
           p1 == vmclear(p, "vmcs01")
           p2 == vmptr_load(p1, "vmcs02")
           c1 == vmcs_write(p2, "bitmap", Hpa(p2.data[w].bitmap))
           p3 == nested_vmx_set_ctrl_state(p2)
           h1 == vmcs_write(p3, "host_rip", VmExitCode)
           p4 == nested_vmx_save_host_state(p3)
           p5 == nested_vmx_set_guest_state(p4)
<1>1. /\ w \in Vmcs /\ w # "vmcs02" /\ "vmcs02" \in Vmcs /\ "vmcs02" # "none"
      /\ "vmcs01" \in Loadable /\ "vmcs02" \in Loadable
  BY Names
<1>2. /\ {"bitmap", "ctls", "host_rip", "host_rsp"} \subseteq Field /\ Guest \subseteq Field
      /\ {"bitmap", "ctls", "host_rip", "host_rsp"} \cap Guest = {}
      /\ VmExitCode \in Val
  BY Groups, Values
<1>3. prepare_vmcs02(p) = p5
  BY DEF prepare_vmcs02
<1>4. p1 \in Proc /\ p1.launched = p.launched \ {"vmcs01"} /\ p1.data = p.data
  BY <1>1, ClearFacts
<1>5. p2 \in Proc /\ p2.cur = "vmcs02" /\ p2.launched = p1.launched /\ p2.data = p.data
  BY <1>1, <1>4, LoadFacts
<1> HIDE DEF p1, p2, w
<1>6. /\ p3 \in Proc /\ p3.cur = "vmcs02" /\ p3.launched = p2.launched
      /\ \A x \in Vmcs : x # "vmcs02" => p3.data[x] = p2.data[x]
      /\ IsMapped(p2.data[w]["bitmap"]) =>
            /\ p3.data["vmcs02"]["ctls"] = p2.data[w]["ctls"]
            /\ p3.data["vmcs02"]["bitmap"] = Hpa(p2.data[w]["bitmap"])
  <2>1. CASE IsMapped(p2.data[w]["bitmap"])
    <3>1. p2.data[w]["ctls"] \in Val /\ Hpa(p2.data[w]["bitmap"]) \in Val
      BY <2>1, <1>1, <1>2, <1>5, Values DEF IsMapped, Proc
    <3>2. p3 = vmcs_write(c1, "ctls", p2.data[w].ctls)
      BY <2>1 DEF nested_vmx_set_ctrl_state, w
    <3>3. /\ c1 \in Proc /\ c1.cur = "vmcs02" /\ c1.launched = p2.launched
          /\ c1.data["vmcs02"]["bitmap"] = Hpa(p2.data[w]["bitmap"])
          /\ \A x \in Vmcs : x # "vmcs02" => c1.data[x] = p2.data[x]
      BY <3>1, <1>1, <1>2, <1>5, WriteFacts
    <3> HIDE DEF c1, p3
    <3> QED
      BY <3>1, <3>2, <3>3, <1>1, <1>2, WriteFacts
  <2>2. CASE ~ IsMapped(p2.data[w]["bitmap"])
    <3>1. p3 = p2
      BY <2>2 DEF nested_vmx_set_ctrl_state, w
    <3> QED
      BY <3>1, <2>2, <1>5
  <2> QED
    BY <2>1, <2>2
<1> HIDE DEF p3
<1>7. /\ p4 \in Proc /\ p4.cur = "vmcs02" /\ p4.launched = p3.launched
      /\ \A x \in Vmcs : x # "vmcs02" => p4.data[x] = p3.data[x]
      /\ p4.data["vmcs02"]["host_rip"] = VmExitCode
      /\ \A g \in {"bitmap", "ctls"} : p4.data["vmcs02"][g] = p3.data["vmcs02"][g]
  <2>1. p4 = vmcs_write(h1, "host_rsp", VmExitCode)
    BY DEF nested_vmx_save_host_state, SaveHost
  <2>2. /\ h1 \in Proc /\ h1.cur = "vmcs02" /\ h1.launched = p3.launched
        /\ \A x \in Vmcs : x # "vmcs02" => h1.data[x] = p3.data[x]
        /\ h1.data["vmcs02"]["host_rip"] = VmExitCode
        /\ \A g \in {"bitmap", "ctls"} : h1.data["vmcs02"][g] = p3.data["vmcs02"][g]
    BY <1>1, <1>2, <1>6, WriteFacts
  <2> HIDE DEF h1, p4
  <2> QED
    BY <2>1, <2>2, <1>1, <1>2, WriteFacts
<1> HIDE DEF p4
<1>8. /\ p5 \in Proc /\ p5.cur = "vmcs02" /\ p5.launched = p4.launched
      /\ \A x \in Vmcs : x # "vmcs02" => p5.data[x] = p4.data[x]
      /\ \A g \in Field : p5.data["vmcs02"][g] = IF g \in Guest THEN p4.data[w][g]
                                                 ELSE p4.data["vmcs02"][g]
  BY <1>1, <1>7, CopyFacts DEF nested_vmx_set_guest_state, w
<1> HIDE DEF p5
<1> QED
  BY <1>1, <1>2, <1>3, <1>4, <1>5, <1>6, <1>7, <1>8 DEF w
-------------------------------------------------------------------------------
(* The invariant.  The registers handlers use, and the exit being handled:   *)
(* a repeated OUT has iterations left, VMLAUNCH and VMRESUME a VMCS loaded,  *)
(* and an exit that L1 is to handle comes from L2.                           *)
RegsOK == regs \in [rcx : Nat, xcr0 : SUBSET {"x87", "sse", "avx"}, lme : BOOLEAN,
                    ia32e : BOOLEAN, cr0_shadow : {0, 1}, cr4_shadow : {0, 1},
                    vmcs_cr4_shadow : {0, 1}]
InsnInv == /\ insn = "rep_out" => regs.rcx > 0
           /\ insn \in {"vmwrite", "vmlaunch", "vmresume"} => vcpu.vmcs12 # "null"
           /\ insn = "vmwrite" => ~ vcpu.shadow_enabled
           /\ insn = "l2" => vcpu.guest_mode

(* Which VMCS is current and launched where in the loop, what the software   *)
(* state says of it, and where its exits go.                                 *)
Running == IF vcpu.guest_mode THEN "vmcs02" ELSE "vmcs01"
Fresh == /\ vcpu.state = 0 /\ ~ vcpu.guest_mode /\ vcpu.vmcs12 = "null" /\ link = "none"
         /\ m.launched = {} /\ m.data["vmcs01"]["rsp"] = 0
LoopInv == /\ pc \in {"init", "alloc"} => Fresh
           /\ m.launched \subseteq {Running}
           /\ pc \in {"alloc", "entry", "guest", "exit"} =>
                 m.cur = Running /\ m.data["vmcs01"]["host_rip"] = VmExitCode
           /\ vcpu.guest_mode => m.data["vmcs02"]["host_rip"] = VmExitCode
           /\ pc = "entry" => (vcpu.state = 0 <=> m.cur \notin m.launched)
           /\ pc \in {"guest", "exit"} => m.cur \in m.launched
           /\ pc = "exit" => vcpu.state = 1

(* The region L1 loaded: with shadowing it is the shadow VMCS and vmcs12 its *)
(* copy, without it is vmcs12 itself.                                        *)
RegionInv == /\ vcpu.vmcs12 = "null" => vcpu.shadow_vmcs = "null"
             /\ vcpu.vmcs12 # "null" => IF vcpu.shadow_enabled THEN Shadowing
                                        ELSE vcpu.vmcs12 \in Region
             /\ vcpu.guest_mode => vcpu.vmcs12 # "null"
             /\ link # "none" => vcpu.shadow_enabled /\ link = vcpu.shadow_vmcs

(* While L2 runs: vmcs02 has the controls asked for, and the copy of the     *)
(* shadow VMCS has what an exit must not change in it.                       *)
CopyInv == vcpu.guest_mode =>
  /\ IsMapped(m.data[L1Region]["bitmap"]) =>
        /\ m.data["vmcs02"]["ctls"] = m.data[L1Region]["ctls"]
        /\ m.data["vmcs02"]["bitmap"] = Hpa(m.data[L1Region]["bitmap"])
  /\ \A f \in Kept \cup Ctrl : m.data[vcpu.vmcs12][f] = m.data[L1Region][f]

XcrInv == "x87" \in regs.xcr0 /\ ("avx" \in regs.xcr0 => "sse" \in regs.xcr0)

IInv == TypeOK /\ RegsOK /\ InsnInv /\ LoopInv /\ RegionInv /\ CopyInv /\ XcrInv

(* The processor's part of the type invariant. *)
LEMMA ProcType == TypeOK <=> /\ m \in Proc
                             /\ vcpu \in [state : {0, 1}, guest_mode : BOOLEAN,
                                  shadow_enabled : BOOLEAN, shadow_vmcs : Region \cup {"null"},
                                  vmcs12 : Region \cup {"null", "kmalloc"}, rip : Val, rsp : Val]
                             /\ link \in Region \cup {"none"} /\ regs.rcx \in Nat
                             /\ pc \in {"init", "alloc", "entry", "guest", "exit", "hung", "stopped"}
<1>1. {"none", "vmcs01", "vmcs02"} \cup Region = {"none"} \cup Loadable
  BY DEF Loadable
<1> QED
  BY <1>1 DEF TypeOK, Proc

(* Where L1's region is, once it has loaded one. *)
LEMMA L1RegionFacts ==
    ASSUME TypeOK, RegionInv, vcpu.vmcs12 # "null"
    PROVE  /\ L1Region \in Region /\ L1Region \in Vmcs
           /\ L1Region \notin {"none", "null", "kmalloc", "vmcs01", "vmcs02"}
           /\ vcpu.vmcs12 \in Region \cup {"kmalloc"} /\ vcpu.vmcs12 \in Vmcs
           /\ vcpu.shadow_enabled => Shadowing /\ L1Region = vcpu.shadow_vmcs
           /\ ~ vcpu.shadow_enabled => L1Region = vcpu.vmcs12
BY Names DEF RegionInv, L1Region, Shadowing

-------------------------------------------------------------------------------
(* Entering L2: vmcs02 is current and not launched, nothing is; its guest    *)
(* state is the region's; no region has changed.                             *)
LEMMA EnterFacts ==
    ASSUME IInv, nested_vmx_run
    PROVE  /\ m' \in Proc /\ m'.cur = "vmcs02" /\ m'.launched = {}
           /\ \A x \in Vmcs : x \notin {"vmcs02", "kmalloc"} => m'.data[x] = m.data[x]
           /\ m'.data["vmcs02"]["host_rip"] = VmExitCode
           /\ \A g \in Guest : m'.data["vmcs02"][g] = m.data[L1Region][g]
           /\ IsMapped(m.data[L1Region]["bitmap"]) =>
                 /\ m'.data["vmcs02"]["ctls"] = m.data[L1Region]["ctls"]
                 /\ m'.data["vmcs02"]["bitmap"] = Hpa(m.data[L1Region]["bitmap"])
           /\ \A g \in Kept \cup Ctrl : m'.data[vcpu.vmcs12][g] = m.data[L1Region][g]
           /\ \E rip, rsp \in Val : vcpu' = [vcpu EXCEPT !.state = 0, !.guest_mode = TRUE,
                                                         !.rip = rip, !.rsp = rsp]
           /\ vcpu.vmcs12 # "null" /\ ~ vcpu.guest_mode /\ pc = "exit" /\ pc' = "entry"
           /\ insn' = "none" /\ UNCHANGED <<link, regs, mapped>>
<1> DEFINE w == vcpu.vmcs12
           q == IF vcpu.shadow_enabled THEN copy_shadow_to_vmcs12(m) ELSE m
           p == prepare_vmcs02(q)
           g == p.data[w]
<1>1. /\ pc = "exit" /\ ~ vcpu.guest_mode /\ insn \in {"vmlaunch", "vmresume"}
      /\ insn' = "none" /\ UNCHANGED <<link, regs, mapped>> /\ pc' = "entry"
      /\ vcpu' = [vcpu EXCEPT !.state = 0, !.guest_mode = TRUE, !.rip = g.rip, !.rsp = g.rsp]
      /\ m' = vmcs_write(p, "rip", vcpu'.rip)
  BY DEF nested_vmx_run, Handling, Served
<1>2. /\ TypeOK /\ RegionInv /\ w # "null" /\ m \in Proc /\ m.cur = "vmcs01"
      /\ m.launched \subseteq {"vmcs01"}
  BY <1>1, ProcType DEF IInv, InsnInv, LoopInv, Running
<1>3. /\ L1Region \in Region /\ L1Region \in Vmcs /\ w \in Vmcs /\ w \in Region \cup {"kmalloc"}
      /\ L1Region \notin {"none", "null", "kmalloc", "vmcs01", "vmcs02"} /\ w # "vmcs02"
      /\ vcpu.shadow_enabled => Shadowing /\ L1Region = vcpu.shadow_vmcs /\ w = "kmalloc"
      /\ ~ vcpu.shadow_enabled => L1Region = w
  BY <1>2, L1RegionFacts, Names DEF Shadowing
<1>4. /\ Guest \subseteq Field /\ Ctrl \subseteq Field /\ Kept \subseteq Guest
      /\ Ctrl = {"ctls", "bitmap"} /\ "rip" \in Guest /\ "rsp" \in Guest
      /\ "host_rip" \notin Guest
      /\ {"rip", "rsp", "host_rip", "ctls", "bitmap"} \subseteq Field /\ "rip" \notin Kept \cup Ctrl
  BY Groups
<1>5. /\ q \in Proc /\ q.launched \subseteq {"vmcs01"}
      /\ \A x \in Vmcs : x # "kmalloc" => q.data[x] = m.data[x]
      /\ \A f \in Guest \cup Ctrl : q.data[w][f] = m.data[L1Region][f]
  <2>1. CASE vcpu.shadow_enabled
    <3> DEFINE fs == Guest \cup Ctrl \cup {"reason"}
    <3>1. q = FromShadow(m, fs)
      BY <2>1 DEF copy_shadow_to_vmcs12, FromShadow
    <3>2. \A f \in Guest \cup Ctrl : f \in fs /\ f \in Field
      BY <1>4
    <3> HIDE DEF fs, q
    <3>3. /\ q \in Proc /\ q.launched = m.launched \ {m.cur}
          /\ \A x \in Vmcs : x # "kmalloc" => q.data[x] = m.data[x]
          /\ \A h \in Field : q.data["kmalloc"][h] = IF h \in fs THEN m.data[vcpu.shadow_vmcs][h]
                                                     ELSE m.data["kmalloc"][h]
      BY <3>1, <1>2, <1>3, <2>1, FromShadowFacts
    <3> QED
      BY <3>2, <3>3, <2>1, <1>2, <1>3
  <2>2. CASE ~ vcpu.shadow_enabled
    BY <2>2, <1>2, <1>3
  <2> QED
    BY <2>1, <2>2
<1> HIDE DEF q
<1>6. /\ p \in Proc /\ p.cur = "vmcs02" /\ p.launched = q.launched \ {"vmcs01"}
      /\ \A x \in Vmcs : x # "vmcs02" => p.data[x] = q.data[x]
      /\ p.data["vmcs02"]["host_rip"] = VmExitCode
      /\ \A f \in Guest : p.data["vmcs02"][f] = q.data[w][f]
      /\ IsMapped(q.data[w]["bitmap"]) =>
            /\ p.data["vmcs02"]["ctls"] = q.data[w]["ctls"]
            /\ p.data["vmcs02"]["bitmap"] = Hpa(q.data[w]["bitmap"])
  BY <1>3, <1>5, PrepareFacts
<1> HIDE DEF p
<1>7. g.rip \in Val /\ g.rsp \in Val /\ g.rip = m.data[L1Region]["rip"] /\ vcpu'.rip = g.rip
  <2>1. g = q.data[w] /\ g \in [Field -> Val]
    BY <1>3, <1>6 DEF Proc
  <2>2. vcpu'.rip = g.rip
    BY <1>1, <1>2 DEF TypeOK
  <2> QED
    BY <2>1, <2>2, <1>4, <1>5
<1>8. /\ m' \in Proc /\ m'.cur = "vmcs02" /\ m'.launched = p.launched
      /\ m'.data["vmcs02"]["rip"] = g.rip
      /\ \A x \in Vmcs : x # "vmcs02" => m'.data[x] = p.data[x]
      /\ \A f \in Field : f # "rip" => m'.data["vmcs02"][f] = p.data["vmcs02"][f]
  BY <1>1, <1>4, <1>6, <1>7, WriteFacts
<1>9. \E rip, rsp \in Val : vcpu' = [vcpu EXCEPT !.state = 0, !.guest_mode = TRUE,
                                                 !.rip = rip, !.rsp = rsp]
  BY <1>1, <1>7
<1>10. m'.launched = {}
  BY <1>5, <1>6, <1>8
<1>11. /\ \A x \in Vmcs : x \notin {"vmcs02", "kmalloc"} => m'.data[x] = m.data[x]
       /\ \A f \in Kept \cup Ctrl : m'.data[w][f] = m.data[L1Region][f]
  BY <1>3, <1>4, <1>5, <1>6, <1>8
<1>12. /\ \A f \in Guest : m'.data["vmcs02"][f] = m.data[L1Region][f]
       /\ m'.data["vmcs02"]["host_rip"] = VmExitCode
  BY <1>4, <1>5, <1>6, <1>7, <1>8
<1>13. IsMapped(m.data[L1Region]["bitmap"]) =>
          /\ m'.data["vmcs02"]["ctls"] = m.data[L1Region]["ctls"]
          /\ m'.data["vmcs02"]["bitmap"] = Hpa(m.data[L1Region]["bitmap"])
  <2>1. /\ q.data[w]["bitmap"] = m.data[L1Region]["bitmap"]
        /\ q.data[w]["ctls"] = m.data[L1Region]["ctls"]
    BY <1>4, <1>5
  <2> QED
    BY <2>1, <1>4, <1>6, <1>8
<1> QED
  BY <1>1, <1>2, <1>8, <1>9, <1>10, <1>11, <1>12, <1>13

(* Leaving L2: vmcs01 is current and nothing launched; the region L1 loaded  *)
(* has the saved state, the reason and the low half of the qualification,    *)
(* and is otherwise, as every other region, what it was; L1 continues where  *)
(* its host fields say.                                                      *)
LEMMA LeaveFacts ==
    ASSUME IInv, nested_vmx_vmexit
    PROVE  /\ m' \in Proc /\ m'.cur = "vmcs01" /\ m'.launched = {}
           /\ \A r \in Region : r # L1Region => m'.data[r] = m.data[r]
           /\ \A f \in Field : m'.data[L1Region][f] =
                 IF f \in Saved \cup {"reason"} THEN m.data["vmcs02"][f]
                 ELSE IF f = "qual" THEN LowHalf(m.data["vmcs02"][f])
                 ELSE m.data[L1Region][f]
           /\ m'.data["vmcs01"]["rip"] = m.data[L1Region]["host_rip"]
           /\ m'.data["vmcs01"]["rsp"] = m.data[L1Region]["host_rsp"]
           /\ m'.data["vmcs01"]["host_rip"] = VmExitCode
           /\ \E rip, rsp \in Val : vcpu' = [vcpu EXCEPT !.state = 0, !.guest_mode = FALSE,
                                                         !.rip = rip, !.rsp = rsp]
           /\ vcpu.vmcs12 # "null" /\ vcpu.guest_mode /\ pc = "exit" /\ pc' = "entry"
           /\ insn' = "none" /\ UNCHANGED <<link, regs, mapped>>
<1> DEFINE w  == vcpu.vmcs12
           s  == L1Region
           p0 == IF vcpu.shadow_enabled THEN copy_shadow_to_vmcs12_host(m) ELSE m
           p1 == sync_vmcs12(p0)
           p2 == [p1 EXCEPT !.data[w].qual = LowHalf(m.data[m.cur].qual)]
           p3 == vmclear(p2, "vmcs02")
           p4 == vmptr_load(IF vcpu.shadow_enabled THEN copy_vmcs12_to_shadow(p3) ELSE p3, "vmcs01")
           h  == p4.data[w]
           n  == vmcs_write(p4, "rip", vcpu'.rip)
<1>1. /\ pc = "exit" /\ insn = "l2" /\ insn' = "none" /\ UNCHANGED <<link, regs, mapped>>
      /\ pc' = "entry" /\ m' = vmcs_write(n, "rsp", vcpu'.rsp)
      /\ vcpu' = [vcpu EXCEPT !.state = 0, !.guest_mode = FALSE,
                              !.rip = h.host_rip, !.rsp = h.host_rsp]
  BY DEF nested_vmx_vmexit, LeaveGuestMode
<1>2. /\ TypeOK /\ RegionInv /\ CopyInv /\ vcpu.guest_mode /\ w # "null" /\ m \in Proc
      /\ m.cur = "vmcs02" /\ m.launched \subseteq {"vmcs02"}
      /\ m.data["vmcs01"]["host_rip"] = VmExitCode
  BY <1>1, ProcType DEF IInv, InsnInv, LoopInv, RegionInv, Running
<1>3. /\ s \in Region /\ s \in Vmcs /\ s \in Loadable /\ w \in Vmcs /\ w \in Region \cup {"kmalloc"}
      /\ s \notin {"none", "null", "kmalloc", "vmcs01", "vmcs02"} /\ w \notin {"vmcs01", "vmcs02"}
      /\ vcpu.shadow_enabled => Shadowing /\ s = vcpu.shadow_vmcs /\ w = "kmalloc"
      /\ ~ vcpu.shadow_enabled => s = w
      /\ "vmcs01" \in Loadable /\ "vmcs02" \in Loadable /\ "vmcs01" # "none"
      /\ "vmcs01" \in Vmcs /\ "vmcs02" \in Vmcs /\ Region \subseteq Vmcs
      /\ \A r \in Region : r \notin {"kmalloc", "vmcs01", "vmcs02"}
  BY <1>2, L1RegionFacts, Names DEF Shadowing
<1>4. /\ Saved = {"rip", "rsp", "cr3"} /\ Ro = {"reason", "qual"} /\ Host = {"host_rip", "host_rsp"}
      /\ Kept = {"sysenter"} /\ Ctrl = {"ctls", "bitmap"} /\ Guest = Saved \cup Kept
      /\ Field = Guest \cup Host \cup Ctrl \cup Ro
  BY Groups
<1>5. /\ p0 \in Proc /\ p0.cur = "vmcs02" /\ p0.launched \subseteq {"vmcs02"}
      /\ \A x \in Vmcs : x # "kmalloc" => p0.data[x] = m.data[x]
      /\ \A f \in Host \cup Kept \cup Ctrl : p0.data[w][f] = m.data[s][f]
  <2>1. CASE vcpu.shadow_enabled
    <3>1. p0 = FromShadow(m, Host)
      BY <2>1 DEF copy_shadow_to_vmcs12_host, FromShadow
    <3> HIDE DEF p0
    <3>2. /\ p0 \in Proc /\ p0.cur = m.cur /\ p0.launched = m.launched \ {m.cur}
          /\ \A x \in Vmcs : x # "kmalloc" => p0.data[x] = m.data[x]
          /\ \A g \in Field : p0.data["kmalloc"][g] = IF g \in Host THEN m.data[vcpu.shadow_vmcs][g]
                                                      ELSE m.data["kmalloc"][g]
      BY <3>1, <1>2, <1>3, <2>1, FromShadowFacts
    <3>3. \A f \in Kept \cup Ctrl : m.data[w][f] = m.data[s][f]
      BY <1>2 DEF CopyInv
    <3> QED
      BY <3>2, <3>3, <2>1, <1>2, <1>3, <1>4
  <2>2. CASE ~ vcpu.shadow_enabled
    BY <2>2, <1>2, <1>3
  <2> QED
    BY <2>1, <2>2
<1> HIDE DEF p0, s
<1>6. /\ p1 \in Proc /\ p1.launched = p0.launched /\ p1.cur = "vmcs02"
      /\ \A x \in Vmcs : x # w => p1.data[x] = p0.data[x]
      /\ \A f \in Field : p1.data[w][f] = IF f \in Saved \cup Ro THEN m.data["vmcs02"][f]
                                          ELSE p0.data[w][f]
  BY <1>3, <1>5, CopyFacts DEF sync_vmcs12
<1> HIDE DEF p1
<1>7. LowHalf(m.data[m.cur].qual) \in Val /\ m.cur = "vmcs02"
  <2>1. m.data[m.cur].qual \in Val
    BY <1>2, <1>3, <1>4 DEF Proc
  <2> QED
    BY <2>1, <1>2, Values
<1>8. /\ p2 \in Proc /\ p2.launched = p1.launched /\ p2.cur = "vmcs02"
      /\ \A x \in Vmcs : x # w => p2.data[x] = p0.data[x]
      /\ p2.data[w]["qual"] = LowHalf(m.data["vmcs02"]["qual"])
      /\ \A f \in Field : f # "qual" => p2.data[w][f] = p1.data[w][f]
  <2>1. PICK q \in Val : q = LowHalf(m.data["vmcs02"]["qual"])
    BY <1>7
  <2>2. p2 = [p1 EXCEPT !.data = [p1.data EXCEPT ![w] = [p1.data[w] EXCEPT !["qual"] = q]]]
    BY <1>7, <2>1
  <2>3. p1.data \in [Vmcs -> [Field -> Val]] /\ "qual" \in Field
    BY <1>4, <1>6 DEF Proc
  <2> DEFINE row == [p1.data[w] EXCEPT !["qual"] = q]
             all == [p1.data EXCEPT ![w] = row]
  <2>4. row \in [Field -> Val] /\ row["qual"] = q /\ \A f \in Field : f # "qual" => row[f] = p1.data[w][f]
    BY <1>3, <2>3
  <2> HIDE DEF row
  <2>5. /\ all \in [Vmcs -> [Field -> Val]] /\ all[w] = row
        /\ \A x \in Vmcs : x # w => all[x] = p1.data[x]
    BY <1>3, <2>3, <2>4
  <2>6. p2 = [p1 EXCEPT !.data = all]
    BY <2>2 DEF row
  <2> HIDE DEF all, p2
  <2>7. p2 \in Proc /\ p2.launched = p1.launched /\ p2.cur = p1.cur /\ p2.data = all
    BY <1>6, <2>5, <2>6 DEF Proc
  <2> QED
    BY <1>6, <2>1, <2>4, <2>5, <2>7, Zenon
<1> HIDE DEF p2
<1>9. p3 \in Proc /\ p3.cur = "none" /\ p3.launched = {} /\ p3.data = p2.data
  <2>1. p3 \in Proc /\ p3.cur = "none" /\ p3.launched = p2.launched \ {"vmcs02"} /\ p3.data = p2.data
    BY <1>3, <1>8, ClearFacts
  <2> QED
    BY <2>1, <1>5, <1>6, <1>8
<1> HIDE DEF p3
<1>10. /\ p4 \in Proc /\ p4.cur = "vmcs01" /\ p4.launched = {}
       /\ \A x \in Vmcs : x # s => p4.data[x] = p3.data[x]
       /\ \A f \in Field \ Host : p4.data[s][f] = p3.data[w][f]
       /\ \A f \in Host : p4.data[s][f] = m.data[s][f]
  <2>1. CASE vcpu.shadow_enabled
    <3> DEFINE a == vmclear(p3, p3.cur)
               b == vmptr_load(a, vcpu.shadow_vmcs)
               c == CopyFields(b, vcpu.vmcs12, b.cur, Guest \cup Ctrl \cup Ro)
    <3>1. p4 = vmptr_load(c, "vmcs01")
      <4>1. vmptr_load(c, "none") = c
        BY DEF vmptr_load
      <4>2. p4 = vmptr_load(vmptr_load(c, p3.cur), "vmcs01")
        BY <2>1 DEF copy_vmcs12_to_shadow
      <4> HIDE DEF c, p4
      <4> QED
        BY <4>1, <4>2, <1>9
    <3>2. a \in Proc /\ a.launched = {} /\ a.data = p3.data
      BY <1>9, ClearFacts
    <3> HIDE DEF a
    <3>3. b \in Proc /\ b.cur = s /\ b.launched = {} /\ b.data = p3.data
      BY <3>2, <2>1, <1>3, LoadFacts
    <3> HIDE DEF b
    <3>4. /\ c \in Proc /\ c.launched = {}
          /\ \A x \in Vmcs : x # s => c.data[x] = p3.data[x]
          /\ \A f \in Field : c.data[s][f] = IF f \in Guest \cup Ctrl \cup Ro THEN p3.data[w][f]
                                             ELSE p3.data[s][f]
      BY <3>3, <1>3, CopyFacts
    <3> HIDE DEF c, p4
    <3>5. p4 \in Proc /\ p4.cur = "vmcs01" /\ p4.launched = {} /\ p4.data = c.data
      BY <3>1, <3>4, <1>3, LoadFacts
    <3>6. p3.data[s] = m.data[s]
      BY <2>1, <1>3, <1>5, <1>8, <1>9
    <3>7. \A f \in Field \ Host : f \in Guest \cup Ctrl \cup Ro
      BY <1>4
    <3>8. \A f \in Host : f \in Field /\ f \notin Guest \cup Ctrl \cup Ro
      BY <1>4
    <3> QED
      BY <3>4, <3>5, <3>6, <3>7, <3>8
  <2>2. CASE ~ vcpu.shadow_enabled
    <3>1. p4 \in Proc /\ p4.cur = "vmcs01" /\ p4.launched = {} /\ p4.data = p3.data
      BY <2>2, <1>3, <1>9, LoadFacts
    <3>2. \A f \in Host : p3.data[w][f] = m.data[s][f]
      BY <1>4, <1>5, <1>6, <1>8, <1>9
    <3> QED
      BY <3>1, <3>2, <2>2, <1>3
  <2> QED
    BY <2>1, <2>2
<1> HIDE DEF p4
<1>11. \A f \in Host : h[f] = m.data[s][f] /\ h[f] \in Val
  <2>1. h \in [Field -> Val] /\ Host \subseteq Field
    BY <1>3, <1>4, <1>10 DEF Proc
  <2>2. CASE w = s
    BY <2>1, <2>2, <1>10
  <2>3. CASE w # s
    <3>1. h = p2.data[w]
      BY <2>3, <1>3, <1>9, <1>10
    <3> QED
      BY <3>1, <2>1, <1>4, <1>5, <1>6, <1>8
  <2> QED
    BY <2>2, <2>3
<1> HIDE DEF h
<1>12. /\ vcpu'.rip \in Val /\ vcpu'.rip = m.data[s]["host_rip"]
       /\ vcpu'.rsp \in Val /\ vcpu'.rsp = m.data[s]["host_rsp"]
       /\ {"rip", "rsp", "host_rip"} \subseteq Field /\ "vmcs01" # "none"
  <2>1. vcpu'.rip = h.host_rip /\ vcpu'.rsp = h.host_rsp
    BY <1>1, <1>2 DEF TypeOK
  <2> QED
    BY <2>1, <1>4, <1>11
<1>13. /\ n \in Proc /\ n.cur = "vmcs01" /\ n.launched = {}
       /\ n.data["vmcs01"]["rip"] = vcpu'.rip
       /\ \A x \in Vmcs : x # "vmcs01" => n.data[x] = p4.data[x]
       /\ \A f \in Field : f # "rip" => n.data["vmcs01"][f] = p4.data["vmcs01"][f]
  BY <1>10, <1>12, WriteFacts
<1> HIDE DEF n
<1>14. /\ m' \in Proc /\ m'.cur = "vmcs01" /\ m'.launched = {}
       /\ m'.data["vmcs01"]["rip"] = vcpu'.rip /\ m'.data["vmcs01"]["rsp"] = vcpu'.rsp
       /\ m'.data["vmcs01"]["host_rip"] = p4.data["vmcs01"]["host_rip"]
       /\ \A x \in Vmcs : x # "vmcs01" => m'.data[x] = p4.data[x]
  BY <1>1, <1>12, <1>13, WriteFacts
<1>15. m'.data["vmcs01"]["host_rip"] = VmExitCode
  BY <1>2, <1>3, <1>5, <1>8, <1>9, <1>10, <1>14
<1>16. \A r \in Region : r # s => m'.data[r] = m.data[r]
  <2> SUFFICES ASSUME NEW r \in Region, r # s PROVE m'.data[r] = m.data[r]
    OBVIOUS
  <2>1. r # w
    BY <1>3
  <2> QED
    BY <2>1, <1>3, <1>5, <1>8, <1>9, <1>10, <1>14
<1>17. \A f \in Field : m'.data[s][f] =
                 IF f \in Saved \cup {"reason"} THEN m.data["vmcs02"][f]
                 ELSE IF f = "qual" THEN LowHalf(m.data["vmcs02"][f])
                 ELSE m.data[s][f]
  <2> SUFFICES ASSUME NEW f \in Field
               PROVE  p4.data[s][f] =
                 IF f \in Saved \cup {"reason"} THEN m.data["vmcs02"][f]
                 ELSE IF f = "qual" THEN LowHalf(m.data["vmcs02"][f])
                 ELSE m.data[s][f]
    BY <1>3, <1>14
  <2>1. CASE f \in Host
    BY <2>1, <1>4, <1>10
  <2>2. CASE f \in Saved \cup {"reason"}
    BY <2>2, <1>4, <1>6, <1>8, <1>9, <1>10
  <2>3. CASE f = "qual"
    BY <2>3, <1>4, <1>8, <1>9, <1>10
  <2>4. CASE f \in Kept \cup Ctrl
    BY <2>4, <1>4, <1>5, <1>6, <1>8, <1>9, <1>10
  <2> QED
    BY <2>1, <2>2, <2>3, <2>4, <1>4
<1>18. \E rip, rsp \in Val : vcpu' = [vcpu EXCEPT !.state = 0, !.guest_mode = FALSE,
                                                  !.rip = rip, !.rsp = rsp]
  BY <1>1, <1>4, <1>11
<1> QED
  BY <1>1, <1>2, <1>12, <1>14, <1>15, <1>16, <1>17, <1>18 DEF s
-------------------------------------------------------------------------------
Vcpu == [state : {0, 1}, guest_mode : BOOLEAN, shadow_enabled : BOOLEAN,
         shadow_vmcs : Region \cup {"null"}, vmcs12 : Region \cup {"null", "kmalloc"},
         rip : Val, rsp : Val]

(* A handler that returns to the loop without a switch between L1 and L2:    *)
(* p is the processor and v the vcpu before GUEST_RIP is written.            *)
LEMMA ServedStep ==
    ASSUME IInv, pc = "exit",
           NEW p \in Proc, p.cur = m.cur, p.launched = m.launched,
           p.data["vmcs01"]["host_rip"] = m.data["vmcs01"]["host_rip"],
           NEW v \in Vcpu, v.state = vcpu.state, v.guest_mode = vcpu.guest_mode,
           v.guest_mode => p = m /\ v = vcpu,
           Served(p, v), link' \in Region \cup {"none"}, regs'.rcx \in Nat
    PROVE  /\ TypeOK' /\ LoopInv' /\ CopyInv' /\ pc' = "entry" /\ vcpu' = v
           /\ m' \in Proc /\ m'.cur = m.cur /\ m.cur = Running /\ m.cur \in Vmcs
           /\ m'.data[m.cur]["rip"] = v.rip
           /\ \A x \in Vmcs : x # m.cur => m'.data[x] = p.data[x]
           /\ \A f \in Field : f # "rip" => m'.data[m.cur][f] = p.data[m.cur][f]
<1>1. /\ pc' = "entry" /\ vcpu' = v /\ m' = vmcs_write(p, "rip", v.rip)
  BY DEF Served
<1>2. /\ m \in Proc /\ m.cur = Running /\ m.cur \in {"vmcs01", "vmcs02"} /\ m.cur \in Vmcs
      /\ m.cur \in m.launched /\ m.launched \subseteq {Running} /\ vcpu.state = 1
      /\ m.data["vmcs01"]["host_rip"] = VmExitCode
      /\ vcpu.guest_mode => m.data["vmcs02"]["host_rip"] = VmExitCode
      /\ TypeOK /\ RegionInv /\ CopyInv
  BY ProcType, Names DEF IInv, LoopInv, Running
<1>3. "rip" \in Field /\ "host_rip" \in Field /\ {"ctls", "bitmap", "sysenter"} \subseteq Field
  BY Groups
<1>4. /\ m' \in Proc /\ m'.cur = m.cur /\ m'.launched = m.launched
      /\ m'.data[m.cur]["rip"] = v.rip
      /\ \A x \in Vmcs : x # m.cur => m'.data[x] = p.data[x]
      /\ \A f \in Field : f # "rip" => m'.data[m.cur][f] = p.data[m.cur][f]
  BY <1>1, <1>2, <1>3, WriteFacts DEF Vcpu
<1>5. \A x \in {"vmcs01", "vmcs02"} : m'.data[x]["host_rip"] = p.data[x]["host_rip"]
  BY <1>2, <1>3, <1>4, Names
<1>6. TypeOK'
  BY <1>1, <1>4, ProcType DEF TypeOK, Proc, Loadable, Vcpu
<1>7. LoopInv'
  BY <1>1, <1>2, <1>4, <1>5 DEF LoopInv, Running
<1>8. CopyInv'
  <2> SUFFICES ASSUME vcpu.guest_mode
               PROVE  /\ IsMapped(m'.data[L1Region]["bitmap"]) =>
                            /\ m'.data["vmcs02"]["ctls"] = m'.data[L1Region]["ctls"]
                            /\ m'.data["vmcs02"]["bitmap"] = Hpa(m'.data[L1Region]["bitmap"])
                      /\ \A f \in Kept \cup Ctrl : m'.data[vcpu.vmcs12][f] = m'.data[L1Region][f]
    BY <1>1 DEF CopyInv, L1Region, IsMapped, Hpa
  <2>1. p = m /\ m.cur = "vmcs02" /\ vcpu.vmcs12 # "null"
    BY <1>2 DEF Running, RegionInv
  <2>2. /\ L1Region \in Vmcs /\ L1Region # "vmcs02"
        /\ vcpu.vmcs12 \in Vmcs /\ vcpu.vmcs12 # "vmcs02"
    BY <1>2, <2>1, L1RegionFacts, Names
  <2>3. m'.data[L1Region] = m.data[L1Region] /\ m'.data[vcpu.vmcs12] = m.data[vcpu.vmcs12]
    BY <1>4, <2>1, <2>2
  <2>4. \A f \in {"ctls", "bitmap"} : m'.data["vmcs02"][f] = m.data["vmcs02"][f]
    BY <1>3, <1>4, <2>1
  <2> QED
    BY <2>3, <2>4, <1>2 DEF CopyInv
<1> QED
  BY <1>1, <1>2, <1>4, <1>6, <1>7, <1>8

(* A step of L1 as its guest hypervisor sees it: L1 retires an instruction,  *)
(* and the step does this to its regions and to the one loaded.              *)
L1Step == /\ ~ vcpu.guest_mode /\ ~ vcpu'.guest_mode
          /\ m'.data["vmcs01"]["rip"] \in Val
          /\ m'.data["vmcs01"]["rsp"] = m.data["vmcs01"]["rsp"]
SameRegions == \A r \in Region : m'.data[r] = m.data[r]
SameLoaded == L1Region' = L1Region

(* A handler that serves an instruction of L1 and leaves its regions alone.  *)
LEMMA PlainStep ==
    ASSUME IInv, pc = "exit", ~ vcpu.guest_mode,
           NEW p \in Proc, p.cur = m.cur, p.launched = m.launched,
           p.data["vmcs01"]["host_rip"] = m.data["vmcs01"]["host_rip"],
           p.data["vmcs01"]["rsp"] = m.data["vmcs01"]["rsp"],
           \A r \in Region : p.data[r] = m.data[r],
           NEW rip \in Val, Served(p, [vcpu EXCEPT !.rip = rip]),
           link' = link, RegsOK', InsnInv', XcrInv'
    PROVE  IInv' /\ L1Step /\ SameRegions /\ SameLoaded
<1> DEFINE v == [vcpu EXCEPT !.rip = rip]
<1>1. /\ vcpu \in Vcpu /\ link \in Region \cup {"none"} /\ RegionInv /\ "rsp" \in Field
      /\ \A r \in Region : r \in Vmcs /\ r # "vmcs01"
  BY Names, Groups DEF IInv, TypeOK, Vcpu
<1>2. /\ v \in Vcpu /\ v.state = vcpu.state /\ v.guest_mode = vcpu.guest_mode /\ v.rip = rip
      /\ v.shadow_enabled = vcpu.shadow_enabled /\ v.shadow_vmcs = vcpu.shadow_vmcs
      /\ v.vmcs12 = vcpu.vmcs12
  BY <1>1 DEF Vcpu
<1>3. Served(p, v) /\ link' \in Region \cup {"none"} /\ regs'.rcx \in Nat
  BY <1>1 DEF RegsOK
<1> HIDE DEF v
<1>4. /\ TypeOK' /\ LoopInv' /\ CopyInv' /\ vcpu' = v
      /\ m.cur = Running /\ m'.data[m.cur]["rip"] = rip
      /\ \A x \in Vmcs : x # m.cur => m'.data[x] = p.data[x]
      /\ \A f \in Field : f # "rip" => m'.data[m.cur][f] = p.data[m.cur][f]
  BY <1>2, <1>3, ServedStep
<1>5. RegionInv'
  BY <1>1, <1>2, <1>4 DEF RegionInv, Shadowing
<1>6. m.cur = "vmcs01"
  BY <1>4 DEF Running
<1>7. L1Step /\ SameRegions /\ SameLoaded
  BY <1>1, <1>2, <1>4, <1>6 DEF L1Step, SameRegions, SameLoaded, L1Region
<1> QED
  BY <1>4, <1>5, <1>7 DEF IInv

(* Handlers of instructions that are no VMX instructions, or do nothing.     *)
LEMMA HandlerStep ==
    ASSUME IInv,
           \/ HandleSkipped \/ HandleUnserved \/ vmx_handle_io \/ vmx_handle_ept_volation
           \/ \E cr \in {0, 3, 4}, x \in kvm_reg_read : vmx_handle_cr_access(cr, x)
           \/ \E x \in SUBSET {"x87", "sse", "avx"}, crs \in BOOLEAN :
                vmx_handle_xsetbv(x, {"x87", "sse", "avx"}, crs)
    PROVE  IInv' /\ L1Step /\ SameRegions /\ SameLoaded
<1>1. /\ m \in Proc /\ vcpu \in Vcpu /\ RegsOK /\ InsnInv /\ XcrInv
      /\ vcpu = [vcpu EXCEPT !.rip = vcpu.rip]
  BY ProcType DEF IInv, TypeOK, Vcpu
<1>2. vcpu.rip \in Val /\ Next1(vcpu.rip) \in Val
  BY <1>1, Values DEF Vcpu
<1>3. CASE HandleSkipped
  <2>1. /\ pc = "exit" /\ ~ vcpu.guest_mode /\ insn' = "none" /\ link' = link /\ regs' = regs
        /\ Served(m, [vcpu EXCEPT !.rip = Next1(vcpu.rip)])
    BY <1>3 DEF HandleSkipped, Handling, Skip
  <2>2. RegsOK' /\ InsnInv' /\ XcrInv'
    BY <2>1, <1>1 DEF RegsOK, InsnInv, XcrInv
  <2> QED
    BY <2>1, <2>2, <1>1, <1>2, PlainStep
<1>4. CASE HandleUnserved
  <2>1. /\ pc = "exit" /\ ~ vcpu.guest_mode /\ insn \in Unserved
        /\ insn' = insn /\ link' = link /\ regs' = regs
        /\ Served(m, [vcpu EXCEPT !.rip = vcpu.rip])
    BY <1>1, <1>4 DEF HandleUnserved, Handling
  <2>2. insn \notin {"rep_out", "vmwrite", "vmlaunch", "vmresume", "l2"}
    BY <2>1 DEF Unserved, UnservedRdtsc
  <2>3. RegsOK' /\ InsnInv' /\ XcrInv'
    BY <2>1, <2>2, <1>1 DEF RegsOK, InsnInv, XcrInv
  <2> QED
    BY <2>1, <2>3, <1>1, <1>2, PlainStep
<1>5. CASE vmx_handle_io
  <2>1. /\ pc = "exit" /\ ~ vcpu.guest_mode /\ insn = "rep_out" /\ link' = link
        /\ regs' = [regs EXCEPT !.rcx = @ - 1]
        /\ insn' = IF regs'.rcx = 0 THEN "none" ELSE insn
        /\ Served(m, IF regs'.rcx = 0 THEN Skip(vcpu) ELSE vcpu)
    BY <1>5 DEF vmx_handle_io, Handling
  <2>2. \E rip \in Val : Served(m, [vcpu EXCEPT !.rip = rip])
    BY <2>1, <1>1, <1>2 DEF Skip
  <2>3. regs.rcx \in Nat /\ regs.rcx > 0 /\ regs'.rcx = regs.rcx - 1
    BY <2>1, <1>1 DEF RegsOK, InsnInv
  <2>4. RegsOK' /\ XcrInv'
    BY <2>1, <2>3, <1>1 DEF RegsOK, XcrInv
  <2>5. InsnInv'
    BY <2>1, <2>3, <1>1 DEF InsnInv
  <2> QED
    BY <2>1, <2>2, <2>4, <2>5, <1>1, PlainStep
<1>6. CASE vmx_handle_ept_volation
  <2>1. /\ pc = "exit" /\ ~ vcpu.guest_mode /\ insn = "touch"
        /\ insn' = insn /\ link' = link /\ regs' = regs
        /\ Served(m, [vcpu EXCEPT !.rip = vcpu.rip])
    BY <1>1, <1>6 DEF vmx_handle_ept_volation, Handling
  <2>2. RegsOK' /\ InsnInv' /\ XcrInv'
    BY <2>1, <1>1 DEF RegsOK, InsnInv, XcrInv
  <2> QED
    BY <2>1, <2>2, <1>1, <1>2, PlainStep
<1>7. ASSUME NEW cr \in {0, 3, 4}, NEW x \in kvm_reg_read, vmx_handle_cr_access(cr, x)
      PROVE  IInv' /\ L1Step /\ SameRegions /\ SameLoaded
  <2> DEFINE p == IF cr = 3 THEN vmcs_write(m, "cr3", x) ELSE m
  <2>1. /\ pc = "exit" /\ ~ vcpu.guest_mode /\ insn' = "none" /\ link' = link
        /\ Served(p, [vcpu EXCEPT !.rip = Next1(vcpu.rip)])
        /\ regs' = CASE cr = 0 -> [regs EXCEPT !.cr0_shadow = x,
                                               !.ia32e = @ \/ vmx_enter_longmode(x)]
                     [] cr = 4 -> [regs EXCEPT !.cr4_shadow = x,
                                              !.vmcs_cr4_shadow = regs.cr0_shadow]
                     [] OTHER -> regs
    BY <1>7 DEF vmx_handle_cr_access, Handling, Skip
  <2>2. /\ x \in Val /\ x \in {0, 1} /\ {"cr3", "rsp", "host_rip"} \subseteq Field
    BY Values, Groups DEF kvm_reg_read
  <2>3. /\ m.cur = "vmcs01" /\ "vmcs01" \in Vmcs
        /\ \A r \in Region : r \in Vmcs /\ r # "vmcs01"
    BY <2>1, Names DEF IInv, LoopInv, Running
  <2>4. /\ p \in Proc /\ p.cur = m.cur /\ p.launched = m.launched
        /\ p.data["vmcs01"]["host_rip"] = m.data["vmcs01"]["host_rip"]
        /\ p.data["vmcs01"]["rsp"] = m.data["vmcs01"]["rsp"]
        /\ \A r \in Region : p.data[r] = m.data[r]
    <3>1. CASE cr = 3
      BY <3>1, <2>2, <2>3, <1>1, WriteFacts
    <3>2. CASE cr # 3
      BY <3>2, <1>1
    <3> QED
      BY <3>1, <3>2
  <2> HIDE DEF p
  <2>5. (regs.ia32e \/ vmx_enter_longmode(x)) \in BOOLEAN
    BY DEF vmx_enter_longmode
  <2>6. RegsOK' /\ XcrInv'
    <3>1. CASE cr = 0
      BY <3>1, <2>1, <2>2, <2>5, <1>1 DEF RegsOK, XcrInv
    <3>2. CASE cr = 4
      BY <3>2, <2>1, <2>2, <1>1 DEF RegsOK, XcrInv
    <3>3. CASE cr = 3
      BY <3>3, <2>1, <1>1 DEF RegsOK, XcrInv
    <3> QED
      BY <3>1, <3>2, <3>3
  <2>7. InsnInv'
    BY <2>1 DEF InsnInv
  <2> QED
    BY <2>1, <2>4, <2>6, <2>7, <1>2, PlainStep
<1>8. ASSUME NEW x \in SUBSET {"x87", "sse", "avx"}, NEW crs \in BOOLEAN,
             vmx_handle_xsetbv(x, {"x87", "sse", "avx"}, crs)
      PROVE  IInv' /\ L1Step /\ SameRegions /\ SameLoaded
  <2>1. /\ pc = "exit" /\ ~ vcpu.guest_mode /\ insn' = "none" /\ link' = link
        /\ Served(m, [vcpu EXCEPT !.rip = Next1(vcpu.rip)])
        /\ regs' = IF ValidXcr0(x, {"x87", "sse", "avx"}) /\ crs
                   THEN [regs EXCEPT !.xcr0 = x] ELSE regs
    BY <1>8 DEF vmx_handle_xsetbv, Handling, Skip
  <2>2. RegsOK' /\ InsnInv' /\ XcrInv'
    BY <2>1, <1>1 DEF RegsOK, InsnInv, XcrInv, ValidXcr0
  <2> QED
    BY <2>1, <2>2, <1>1, <1>2, PlainStep
<1> QED
  BY <1>3, <1>4, <1>5, <1>6, <1>7, <1>8

(* VMPTRLD: L1 has loaded the region. *)
LEMMA LoadStep ==
    ASSUME IInv, NEW r \in Region, vmx_handle_vmptrld(r)
    PROVE  IInv' /\ L1Step /\ SameRegions /\ L1Region' = r
<1> DEFINE v == IF vcpu.shadow_enabled
                THEN [vcpu EXCEPT !.shadow_vmcs = r, !.vmcs12 = "kmalloc", !.rip = Next1(@)]
                ELSE [vcpu EXCEPT !.vmcs12 = r, !.rip = Next1(@)]
<1>1. /\ m \in Proc /\ vcpu \in Vcpu /\ RegsOK /\ RegionInv /\ XcrInv /\ TypeOK
      /\ link \in Region \cup {"none"} /\ "rsp" \in Field /\ Next1(vcpu.rip) \in Val
      /\ \A x \in Region : x \in Vmcs /\ x \notin {"null", "none", "kmalloc", "vmcs01"}
  BY ProcType, Names, Groups, Values DEF IInv, TypeOK, Vcpu
<1>2. /\ pc = "exit" /\ ~ vcpu.guest_mode /\ insn' = "none" /\ regs' = regs
      /\ link' = IF vcpu.shadow_enabled THEN r ELSE link
      /\ Served(m, v)
  BY DEF vmx_handle_vmptrld, Handling, Skip
<1>3. /\ v \in Vcpu /\ v.state = vcpu.state /\ v.guest_mode = vcpu.guest_mode
      /\ v.shadow_enabled = vcpu.shadow_enabled
      /\ vcpu.shadow_enabled => v.shadow_vmcs = r /\ v.vmcs12 = "kmalloc"
      /\ ~ vcpu.shadow_enabled => v.vmcs12 = r /\ v.shadow_vmcs = vcpu.shadow_vmcs
  BY <1>1 DEF Vcpu
<1>4. link' \in Region \cup {"none"} /\ regs'.rcx \in Nat
  BY <1>1, <1>2 DEF RegsOK
<1> HIDE DEF v
<1>5. /\ TypeOK' /\ LoopInv' /\ CopyInv' /\ vcpu' = v
      /\ m.cur = Running /\ m'.data[m.cur]["rip"] = v.rip
      /\ \A x \in Vmcs : x # m.cur => m'.data[x] = m.data[x]
      /\ \A f \in Field : f # "rip" => m'.data[m.cur][f] = m.data[m.cur][f]
  BY <1>1, <1>2, <1>3, <1>4, ServedStep
<1>6. RegsOK' /\ InsnInv' /\ XcrInv'
  BY <1>1, <1>2 DEF RegsOK, InsnInv, XcrInv
<1>7. RegionInv'
  BY <1>1, <1>2, <1>3, <1>5 DEF RegionInv, Shadowing
<1>8. m.cur = "vmcs01" /\ v.rip \in Val
  BY <1>2, <1>3, <1>5 DEF Running, Vcpu
<1>9. L1Step /\ SameRegions /\ L1Region' = r
  BY <1>1, <1>2, <1>3, <1>5, <1>8 DEF L1Step, SameRegions, L1Region
<1> QED
  BY <1>5, <1>6, <1>7, <1>9 DEF IInv

(* VMWRITE, where it exits: the field of the loaded region is written. *)
LEMMA VmwriteStep ==
    ASSUME IInv, NEW f \in WrittenFields, NEW x \in kvm_reg_read, vmx_handle_vmwrite(f, x)
    PROVE  /\ IInv' /\ L1Step /\ SameLoaded /\ L1Region \in Region
           /\ \A r \in Region : m'.data[r] = IF r = L1Region THEN [m.data[r] EXCEPT ![f] = x]
                                             ELSE m.data[r]
<1> DEFINE p == [m EXCEPT !.data[vcpu.vmcs12][f] = x]
           v == [vcpu EXCEPT !.rip = Next1(@)]
           w == vcpu.vmcs12
<1>1. /\ m \in Proc /\ vcpu \in Vcpu /\ RegsOK /\ InsnInv /\ RegionInv /\ XcrInv /\ TypeOK
      /\ link \in Region \cup {"none"} /\ Next1(vcpu.rip) \in Val
      /\ {"rsp", "host_rip"} \subseteq Field /\ f \in Field /\ x \in Val
      /\ \A r \in Region : r \in Vmcs /\ r # "vmcs01"
  BY ProcType, Names, Groups, Values DEF IInv, TypeOK, Vcpu
<1>2. /\ pc = "exit" /\ ~ vcpu.guest_mode /\ insn = "vmwrite" /\ insn' = "none" /\ regs' = regs
      /\ link' = link /\ Served(p, v)
  BY DEF vmx_handle_vmwrite, Handling, Skip
<1>3. w = L1Region /\ w \in Region /\ w \in Vmcs /\ w # "vmcs01" /\ ~ vcpu.shadow_enabled
  BY <1>1, <1>2, L1RegionFacts DEF InsnInv
<1>4. /\ p \in Proc /\ p.cur = m.cur /\ p.launched = m.launched
      /\ p.data[w] = [m.data[w] EXCEPT ![f] = x]
      /\ \A y \in Vmcs : y # w => p.data[y] = m.data[y]
  BY <1>1, <1>3 DEF Proc
<1>5. /\ v \in Vcpu /\ v.state = vcpu.state /\ v.guest_mode = vcpu.guest_mode
      /\ v.shadow_enabled = vcpu.shadow_enabled /\ v.vmcs12 = vcpu.vmcs12
      /\ v.shadow_vmcs = vcpu.shadow_vmcs
  BY <1>1 DEF Vcpu
<1>6. p.data["vmcs01"] = m.data["vmcs01"] /\ regs'.rcx \in Nat /\ link' \in Region \cup {"none"}
  BY <1>1, <1>2, <1>3, <1>4, Names DEF RegsOK
<1> HIDE DEF p, v
<1>7. /\ TypeOK' /\ LoopInv' /\ CopyInv' /\ vcpu' = v
      /\ m.cur = Running /\ m'.data[m.cur]["rip"] = v.rip
      /\ \A y \in Vmcs : y # m.cur => m'.data[y] = p.data[y]
      /\ \A g \in Field : g # "rip" => m'.data[m.cur][g] = p.data[m.cur][g]
  BY <1>2, <1>4, <1>5, <1>6, ServedStep
<1>8. RegsOK' /\ InsnInv' /\ XcrInv' /\ RegionInv'
  BY <1>1, <1>2, <1>5, <1>7 DEF RegsOK, InsnInv, XcrInv, RegionInv, Shadowing
<1>9. m.cur = "vmcs01" /\ v.rip \in Val
  BY <1>2, <1>5, <1>7 DEF Running, Vcpu
<1>10. L1Step /\ SameLoaded
  BY <1>1, <1>2, <1>5, <1>6, <1>7, <1>9 DEF L1Step, SameLoaded, L1Region
<1>11. \A r \in Region : m'.data[r] = IF r = L1Region THEN [m.data[r] EXCEPT ![f] = x]
                                      ELSE m.data[r]
  BY <1>1, <1>3, <1>4, <1>7, <1>9
<1> QED
  BY <1>3, <1>7, <1>8, <1>10, <1>11 DEF IInv

(* External interrupts, the preemption timer and EPT violations of L2 leave  *)
(* whoever ran where it was.                                                 *)
LEMMA AsyncStep ==
    ASSUME IInv, vmx_handle_external_interrupt \/ nested_vmx_handle_ept_volation(TRUE)
    PROVE  /\ IInv' /\ SameRegions /\ SameLoaded /\ vcpu' = vcpu
           /\ m.cur = Running /\ m.cur \in Vmcs
           /\ m'.data[m.cur]["rip"] \in Val
           /\ \A f \in Field : f # "rip" => m'.data[m.cur][f] = m.data[m.cur][f]
<1>1. /\ m \in Proc /\ vcpu \in Vcpu /\ RegsOK /\ RegionInv /\ XcrInv /\ TypeOK
      /\ link \in Region \cup {"none"} /\ regs.rcx \in Nat
      /\ \A x \in Region : x \in Vmcs /\ x \notin {"vmcs01", "vmcs02"}
  BY ProcType, Names DEF IInv, TypeOK, Vcpu
<1>2. /\ pc = "exit" /\ insn' = "none" /\ regs' = regs /\ link' = link /\ Served(m, vcpu)
  BY DEF vmx_handle_external_interrupt, nested_vmx_handle_ept_volation
<1>3. /\ TypeOK' /\ LoopInv' /\ CopyInv' /\ vcpu' = vcpu
      /\ m.cur = Running /\ m.cur \in Vmcs /\ m'.data[m.cur]["rip"] = vcpu.rip
      /\ \A x \in Vmcs : x # m.cur => m'.data[x] = m.data[x]
      /\ \A f \in Field : f # "rip" => m'.data[m.cur][f] = m.data[m.cur][f]
  BY <1>1, <1>2, ServedStep
<1>4. RegsOK' /\ InsnInv' /\ XcrInv' /\ RegionInv'
  BY <1>1, <1>2, <1>3 DEF RegsOK, InsnInv, XcrInv, RegionInv, Shadowing
<1>5. SameRegions /\ SameLoaded /\ vcpu.rip \in Val
  BY <1>1, <1>3 DEF SameRegions, SameLoaded, L1Region, Running, Vcpu
<1> QED
  BY <1>3, <1>4, <1>5 DEF IInv

(* A step that L1 and L2 see nothing of. *)
Unseen == /\ vcpu'.guest_mode = vcpu.guest_mode /\ SameRegions /\ SameLoaded
          /\ ~ vcpu.guest_mode => /\ m'.data["vmcs01"]["rip"] = m.data["vmcs01"]["rip"]
                                  /\ m'.data["vmcs01"]["rsp"] = m.data["vmcs01"]["rsp"]
          /\ vcpu.guest_mode => \A f \in Guest : m'.data["vmcs02"][f] = m.data["vmcs02"][f]

(* The loop stops: VMX is missing, a handler does not return, or the virtual *)
(* machine ends.                                                             *)
LEMMA StopStep ==
    ASSUME IInv, VmxInitFails \/ vmx_handle_exception \/ VmStops \/ UNCHANGED vars
    PROVE  IInv' /\ Unseen
<1>1. UNCHANGED <<m, vcpu, link, regs, insn>> /\ (pc' \in {"stopped", "hung"} \/ pc' = pc)
  BY DEF VmxInitFails, vmx_handle_exception, VmStops, Handling, vars
<1>2. L1Region' = L1Region /\ Running' = Running
  BY <1>1 DEF L1Region, Running
<1>3. /\ TypeOK' /\ RegsOK' /\ InsnInv' /\ RegionInv' /\ CopyInv' /\ XcrInv'
  BY <1>1, <1>2 DEF IInv, TypeOK, RegsOK, InsnInv, RegionInv, Shadowing, CopyInv, XcrInv,
                    IsMapped, Hpa
<1>4. LoopInv'
  BY <1>1, <1>2 DEF IInv, LoopInv, Fresh
<1> QED
  BY <1>1, <1>2, <1>3, <1>4 DEF IInv, Unseen, SameRegions, SameLoaded

(* vmx_init: vmcs01 is current, not launched, and its exits come back here.  *)
LEMMA InitStep ==
    ASSUME IInv, NEW cpu, VmxInit(cpu)
    PROVE  IInv' /\ Unseen
<1> DEFINE p1 == vmclear(m, "vmcs01")
           p2 == vmclear(p1, "vmcs02")
           p3 == vmptr_load(p2, "vmcs01")
           p4 == vmcs_write(p3, "host_rip", VmExitCode)
           on == "shadow" \in vmx_set_ctrl_state(cpu)
<1>1. /\ pc = "init" /\ pc' = "alloc" /\ UNCHANGED <<link, regs, insn>>
      /\ m' = vmcs_write(p4, "host_rsp", VmExitCode)
      /\ vcpu' = [vcpu EXCEPT !.shadow_enabled = on]
  BY DEF VmxInit, vmx_save_host_state, SaveHost
<1>2. /\ m \in Proc /\ vcpu \in Vcpu /\ RegsOK /\ InsnInv /\ RegionInv /\ XcrInv /\ TypeOK /\ Fresh
      /\ m.launched = {}
  BY <1>1, ProcType DEF IInv, LoopInv, Fresh, TypeOK, Vcpu
<1>3. /\ {"rip", "rsp", "host_rip", "host_rsp"} \subseteq Field /\ VmExitCode \in Val
      /\ "vmcs01" \in Loadable /\ "vmcs02" \in Loadable /\ "vmcs01" # "none" /\ "vmcs01" \in Vmcs
      /\ \A r \in Region : r \in Vmcs /\ r \notin {"null", "vmcs01"}
  BY Groups, Values, Names
<1>4. p1 \in Proc /\ p1.launched = m.launched \ {"vmcs01"} /\ p1.data = m.data
  BY <1>2, <1>3, ClearFacts
<1> HIDE DEF p1
<1>5. p2 \in Proc /\ p2.launched = p1.launched \ {"vmcs02"} /\ p2.data = m.data
  BY <1>3, <1>4, ClearFacts
<1> HIDE DEF p2
<1>6. p3 \in Proc /\ p3.cur = "vmcs01" /\ p3.launched = {} /\ p3.data = m.data
  BY <1>2, <1>3, <1>4, <1>5, LoadFacts
<1> HIDE DEF p3
<1>7. /\ p4 \in Proc /\ p4.cur = "vmcs01" /\ p4.launched = {}
      /\ p4.data["vmcs01"]["host_rip"] = VmExitCode
      /\ \A x \in Vmcs : x # "vmcs01" => p4.data[x] = m.data[x]
      /\ \A f \in {"rip", "rsp"} : p4.data["vmcs01"][f] = m.data["vmcs01"][f]
  BY <1>3, <1>6, WriteFacts
<1> HIDE DEF p4
<1>8. /\ m' \in Proc /\ m'.cur = "vmcs01" /\ m'.launched = {}
      /\ m'.data["vmcs01"]["host_rip"] = VmExitCode
      /\ \A x \in Vmcs : x # "vmcs01" => m'.data[x] = m.data[x]
      /\ \A f \in {"rip", "rsp"} : m'.data["vmcs01"][f] = m.data["vmcs01"][f]
  BY <1>1, <1>3, <1>7, WriteFacts
<1>9. on \in BOOLEAN
  OBVIOUS
<1> HIDE DEF on
<1>10. /\ vcpu' \in Vcpu /\ vcpu'.state = 0 /\ ~ vcpu'.guest_mode /\ ~ vcpu.guest_mode
       /\ vcpu'.vmcs12 = "null" /\ vcpu'.shadow_vmcs = "null" /\ vcpu.shadow_vmcs = "null"
       /\ vcpu.vmcs12 = "null" /\ link' = "none"
  BY <1>1, <1>2, <1>9 DEF Vcpu, Fresh, RegionInv
<1>11. TypeOK'
  BY <1>1, <1>2, <1>8, <1>10 DEF TypeOK, Proc, Loadable, Vcpu
<1>12. InsnInv' /\ RegsOK' /\ XcrInv'
  <2>1. insn \notin {"vmwrite", "vmlaunch", "vmresume", "l2"}
    BY <1>2, <1>10 DEF InsnInv
  <2> QED
    BY <2>1, <1>1, <1>2 DEF InsnInv, RegsOK, XcrInv
<1>13. LoopInv'
  BY <1>1, <1>2, <1>3, <1>8, <1>10 DEF LoopInv, Fresh, Running
<1>14. RegionInv' /\ CopyInv'
  BY <1>10 DEF RegionInv, CopyInv
<1>15. Unseen
  <2>1. vcpu'.guest_mode = vcpu.guest_mode /\ L1Region' = L1Region
    BY <1>2, <1>10 DEF Vcpu, L1Region
  <2> QED
    BY <2>1, <1>3, <1>8, <1>10 DEF Unseen, SameRegions, SameLoaded
<1> QED
  BY <1>11, <1>12, <1>13, <1>14, <1>15 DEF IInv

(* vm_init_test: the guest starts at 0, as after a reset. *)
LEMMA TestStep ==
    ASSUME IInv, VmInitTest
    PROVE  IInv' /\ L1Step /\ SameRegions /\ SameLoaded
<1> DEFINE row == [f \in Field |-> IF f \in Guest THEN vmx_set_bist_state[f]
                                   ELSE m.data["vmcs01"][f]]
<1>1. /\ pc = "alloc" /\ pc' = "entry" /\ UNCHANGED <<vcpu, regs, insn>> /\ link' = "none"
      /\ m' = [m EXCEPT !.data["vmcs01"] = row]
  BY DEF VmInitTest, vmx_set_guest_state
<1>2. /\ m \in Proc /\ RegsOK /\ InsnInv /\ RegionInv /\ XcrInv /\ TypeOK /\ Fresh
      /\ m.cur = "vmcs01" /\ m.data["vmcs01"]["host_rip"] = VmExitCode /\ m.launched = {}
      /\ ~ vcpu.guest_mode
  BY <1>1, ProcType DEF IInv, LoopInv, Fresh, Running
<1>3. /\ {"rip", "rsp", "host_rip"} \subseteq Field /\ {"rip", "rsp"} \subseteq Guest
      /\ "host_rip" \notin Guest /\ 0 \in Val /\ "vmcs01" \in Vmcs
      /\ \A r \in Region : r \in Vmcs /\ r # "vmcs01"
  BY Groups, Values, Names
<1>4. /\ row \in [Field -> Val] /\ row["rip"] = 0 /\ row["rsp"] = 0
      /\ row["host_rip"] = m.data["vmcs01"]["host_rip"]
  BY <1>2, <1>3 DEF Proc, vmx_set_bist_state
<1> HIDE DEF row
<1>5. /\ m' \in Proc /\ m'.cur = "vmcs01" /\ m'.launched = {} /\ m'.data["vmcs01"] = row
      /\ \A r \in Region : m'.data[r] = m.data[r]
  BY <1>1, <1>2, <1>3, <1>4 DEF Proc
<1>6. TypeOK' /\ RegsOK' /\ InsnInv' /\ XcrInv'
  <2>1. TypeOK'
    BY <1>1, <1>2, <1>5 DEF TypeOK, Proc, Loadable
  <2> QED
    BY <2>1, <1>1, <1>2 DEF RegsOK, InsnInv, XcrInv
<1>7. LoopInv' /\ RegionInv' /\ CopyInv'
  BY <1>1, <1>2, <1>4, <1>5 DEF LoopInv, RegionInv, CopyInv, Running, Fresh, Shadowing
<1>8. L1Step /\ SameRegions /\ SameLoaded
  BY <1>1, <1>2, <1>3, <1>4, <1>5 DEF L1Step, SameRegions, SameLoaded, L1Region, Fresh
<1> QED
  BY <1>6, <1>7, <1>8 DEF IInv

(* The entries: VMLAUNCH and VMRESUME change nothing but what is launched.   *)
LEMMA EntryStep ==
    ASSUME IInv, vm_launch \/ vm_resume
    PROVE  IInv' /\ Unseen
<1>1. /\ pc = "entry" /\ pc' = "guest" /\ UNCHANGED <<vcpu, link, regs, insn>>
      /\ m' = [m EXCEPT !.launched = @ \cup {m.cur}] \/ (m' = m /\ m.cur \in m.launched)
  BY DEF vm_launch, vm_resume, ResumeWorks
<1>2. /\ m \in Proc /\ TypeOK /\ LoopInv /\ CopyInv /\ m.cur = Running
  BY <1>1, ProcType DEF IInv, LoopInv
<1>3. /\ m' \in Proc /\ m'.cur = m.cur /\ m'.data = m.data
      /\ m'.launched \subseteq {Running} /\ m'.cur \in m'.launched
  BY <1>1, <1>2 DEF Proc, LoopInv, Running
<1>4. L1Region' = L1Region /\ Running' = Running
  BY <1>1 DEF L1Region, Running
<1>5. TypeOK' /\ RegsOK' /\ InsnInv' /\ XcrInv' /\ RegionInv'
  BY <1>1, <1>2, <1>3 DEF IInv, TypeOK, Proc, Loadable, RegsOK, InsnInv, XcrInv, RegionInv,
                          Shadowing
<1>6. LoopInv' /\ CopyInv'
  BY <1>1, <1>2, <1>3, <1>4 DEF LoopInv, CopyInv, IsMapped, Hpa
<1>7. Unseen
  BY <1>1, <1>3, <1>4 DEF Unseen, SameRegions, SameLoaded
<1> QED
  BY <1>5, <1>6, <1>7 DEF IInv
-------------------------------------------------------------------------------
(* L1 executes an instruction that does not exit. *)
LEMMA L1RunsStep ==
    ASSUME IInv, L1Runs
    PROVE  IInv' /\ L1Step /\ SameRegions /\ SameLoaded
<1>1. /\ pc = "guest" /\ pc' = pc /\ ~ vcpu.guest_mode /\ UNCHANGED <<vcpu, link>>
      /\ insn' = "none" /\ regs' \in {regs, [regs EXCEPT !.lme = TRUE]}
      /\ m' = vmcs_write(m, "rip", Next1(m.data["vmcs01"]["rip"]))
  BY DEF L1Runs, L1Data
<1>2. /\ m \in Proc /\ TypeOK /\ RegsOK /\ RegionInv /\ XcrInv /\ LoopInv /\ m.cur = "vmcs01"
      /\ {"rip", "rsp", "host_rip"} \subseteq Field /\ "vmcs01" \in Vmcs
      /\ \A r \in Region : r \in Vmcs /\ r # "vmcs01"
  BY <1>1, ProcType, Groups, Names DEF IInv, LoopInv, Running
<1>3. Next1(m.data["vmcs01"]["rip"]) \in Val
  <2>1. m.data["vmcs01"]["rip"] \in Val
    BY <1>2 DEF Proc
  <2> QED
    BY <2>1, Values
<1>4. /\ m' \in Proc /\ m'.cur = m.cur /\ m'.launched = m.launched
      /\ m'.data["vmcs01"]["rip"] \in Val
      /\ \A f \in Field : f # "rip" => m'.data["vmcs01"][f] = m.data["vmcs01"][f]
      /\ \A x \in Vmcs : x # "vmcs01" => m'.data[x] = m.data[x]
  BY <1>1, <1>2, <1>3, WriteFacts
<1>5. RegsOK' /\ XcrInv'
  BY <1>1, <1>2 DEF RegsOK, XcrInv
<1>6. TypeOK'
  BY <1>1, <1>2, <1>4, <1>5 DEF TypeOK, Proc, Loadable, RegsOK
<1>7. InsnInv' /\ LoopInv' /\ RegionInv' /\ CopyInv'
  BY <1>1, <1>2, <1>4 DEF InsnInv, LoopInv, RegionInv, CopyInv, Running, Shadowing
<1>8. L1Step /\ SameRegions /\ SameLoaded
  BY <1>1, <1>2, <1>4 DEF L1Step, SameRegions, SameLoaded, L1Region
<1> QED
  BY <1>5, <1>6, <1>7, <1>8 DEF IInv

(* L1 writes a field of the shadow VMCS without an exit. *)
LEMMA L1WritesStep ==
    ASSUME IInv, NEW f \in WrittenFields, NEW x \in kvm_reg_read, L1Writes(f, x)
    PROVE  /\ IInv' /\ L1Step /\ SameLoaded /\ L1Region \in Region
           /\ \A r \in Region : m'.data[r] = IF r = L1Region THEN [m.data[r] EXCEPT ![f] = x]
                                             ELSE m.data[r]
<1> DEFINE p == [m EXCEPT !.data[link][f] = x]
<1>1. /\ pc = "guest" /\ pc' = pc /\ ~ vcpu.guest_mode /\ UNCHANGED <<vcpu, link, regs, insn>>
      /\ link # "none" /\ m' = vmcs_write(p, "rip", Next1(m.data["vmcs01"]["rip"]))
  BY DEF L1Writes, L1Data
<1>2. /\ m \in Proc /\ TypeOK /\ RegsOK /\ InsnInv /\ RegionInv /\ XcrInv /\ LoopInv
      /\ m.cur = "vmcs01" /\ f \in Field /\ x \in Val
      /\ {"rip", "rsp", "host_rip"} \subseteq Field /\ "vmcs01" \in Vmcs /\ "vmcs01" # "none"
      /\ \A r \in Region : r \in Vmcs /\ r # "vmcs01"
  BY <1>1, ProcType, Groups, Names, Values DEF IInv, LoopInv, Running
<1>3. link = L1Region /\ link \in Region
  BY <1>1, <1>2 DEF RegionInv, L1Region, TypeOK
<1>4. Next1(m.data["vmcs01"]["rip"]) \in Val
  <2>1. m.data["vmcs01"]["rip"] \in Val
    BY <1>2 DEF Proc
  <2> QED
    BY <2>1, Values
<1>5. /\ p \in Proc /\ p.cur = m.cur /\ p.launched = m.launched
      /\ p.data[link] = [m.data[link] EXCEPT ![f] = x]
      /\ \A y \in Vmcs : y # link => p.data[y] = m.data[y]
  BY <1>2, <1>3 DEF Proc
<1> HIDE DEF p
<1>6. /\ m' \in Proc /\ m'.cur = m.cur /\ m'.launched = m.launched
      /\ m'.data["vmcs01"]["rip"] \in Val
      /\ \A g \in Field : g # "rip" => m'.data["vmcs01"][g] = p.data["vmcs01"][g]
      /\ \A y \in Vmcs : y # "vmcs01" => m'.data[y] = p.data[y]
  BY <1>1, <1>2, <1>4, <1>5, WriteFacts
<1>7. /\ \A g \in Field : g # "rip" => m'.data["vmcs01"][g] = m.data["vmcs01"][g]
      /\ \A r \in Region : m'.data[r] = IF r = L1Region THEN [m.data[r] EXCEPT ![f] = x]
                                        ELSE m.data[r]
  BY <1>2, <1>3, <1>5, <1>6
<1>8. TypeOK'
  BY <1>1, <1>2, <1>6 DEF TypeOK, Proc, Loadable
<1>9. RegsOK' /\ XcrInv' /\ InsnInv' /\ LoopInv' /\ RegionInv' /\ CopyInv'
  BY <1>1, <1>2, <1>6, <1>7 DEF RegsOK, XcrInv, InsnInv, LoopInv, RegionInv, CopyInv, Running,
                                Shadowing
<1>10. L1Step /\ SameLoaded
  BY <1>1, <1>2, <1>6, <1>7 DEF L1Step, SameLoaded, L1Region
<1> QED
  BY <1>3, <1>7, <1>8, <1>9, <1>10 DEF IInv

(* The processor writes a field of vmcs02 while L2 runs.  Controls and host  *)
(* fields are not among them.                                                *)
LEMMA L2WriteFacts ==
    ASSUME IInv, pc = "guest", vcpu.guest_mode, NEW p \in Proc, p.cur = "vmcs02",
           NEW f \in Saved \cup Ro, NEW x \in Val
    PROVE  /\ vmcs_write(p, f, x) \in Proc /\ vmcs_write(p, f, x).cur = "vmcs02"
           /\ vmcs_write(p, f, x).launched = p.launched
           /\ \A y \in Vmcs : y # "vmcs02" => vmcs_write(p, f, x).data[y] = p.data[y]
           /\ vmcs_write(p, f, x).data["vmcs02"][f] = x
           /\ \A g \in Field : g # f => vmcs_write(p, f, x).data["vmcs02"][g] = p.data["vmcs02"][g]
<1>1. f \in Field /\ "vmcs02" # "none"
  BY Groups
<1> QED
  BY <1>1, WriteFacts

(* The invariant after such writes. *)
LEMMA L2Data ==
    ASSUME IInv, vcpu.guest_mode, m.cur = "vmcs02",
           m' \in Proc, m'.cur = "vmcs02", m'.launched = m.launched,
           \A y \in Vmcs : y # "vmcs02" => m'.data[y] = m.data[y],
           \A g \in Host \cup Ctrl : m'.data["vmcs02"][g] = m.data["vmcs02"][g],
           vcpu' \in Vcpu, vcpu'.guest_mode = vcpu.guest_mode,
           vcpu'.shadow_enabled = vcpu.shadow_enabled,
           vcpu'.shadow_vmcs = vcpu.shadow_vmcs, vcpu'.vmcs12 = vcpu.vmcs12,
           link' = link, regs' = regs, insn' = insn \/ insn' \notin {"vmwrite", "rep_out"},
           pc = "guest", pc' = "guest" \/ (pc' = "exit" /\ vcpu'.state = 1)
    PROVE  IInv' /\ SameRegions /\ SameLoaded
<1>1. /\ TypeOK /\ RegsOK /\ InsnInv /\ RegionInv /\ CopyInv /\ XcrInv /\ LoopInv
      /\ vcpu.vmcs12 # "null"
      /\ {"host_rip"} \subseteq Host /\ Ctrl = {"ctls", "bitmap"} /\ {"vmcs01", "vmcs02"} \subseteq Vmcs
      /\ \A r \in Region : r \in Vmcs /\ r # "vmcs02"
  BY Groups, Names DEF IInv, RegionInv
<1>2. /\ L1Region \in Vmcs /\ L1Region # "vmcs02"
      /\ vcpu.vmcs12 \in Vmcs /\ vcpu.vmcs12 # "vmcs02"
  BY <1>1, L1RegionFacts, Names
<1>3. L1Region' = L1Region
  BY DEF L1Region
<1>4. m'.data[L1Region] = m.data[L1Region] /\ m'.data[vcpu.vmcs12] = m.data[vcpu.vmcs12]
  BY <1>2
<1>5. TypeOK'
  BY <1>1 DEF TypeOK, Proc, Loadable, Vcpu
<1>6. RegsOK' /\ InsnInv' /\ XcrInv' /\ RegionInv'
  BY <1>1 DEF RegsOK, InsnInv, XcrInv, RegionInv, Shadowing
<1>7. LoopInv'
  BY <1>1 DEF LoopInv, Running
<1>8. CopyInv'
  BY <1>1, <1>3, <1>4 DEF CopyInv, IsMapped, Hpa
<1> QED
  BY <1>1, <1>3, <1>5, <1>6, <1>7, <1>8 DEF IInv, SameRegions, SameLoaded

(* L2 changes its state. *)
LEMMA L2RunsStep ==
    ASSUME IInv, NEW f \in Saved \ {"rsp"}, L2Runs(f)
    PROVE  /\ IInv' /\ SameRegions /\ SameLoaded /\ vcpu.guest_mode /\ vcpu'.guest_mode
           /\ f \in Guest /\ m'.data["vmcs02"][f] \in Val
           /\ \A g \in Guest : g # f => m'.data["vmcs02"][g] = m.data["vmcs02"][g]
<1>1. /\ pc = "guest" /\ pc' = pc /\ vcpu.guest_mode /\ UNCHANGED <<vcpu, link, regs, insn>>
      /\ m' = vmcs_write(m, f, Next1(m.data[m.cur][f]))
  BY DEF L2Runs
<1>2. /\ m \in Proc /\ m.cur = "vmcs02" /\ vcpu \in Vcpu /\ "vmcs02" \in Vmcs
      /\ f \in Field /\ f \in Guest /\ Guest \subseteq Field /\ f \notin Host \cup Ctrl
      /\ Host \cup Ctrl \subseteq Field
  BY <1>1, ProcType, Names, Groups DEF IInv, LoopInv, Running, Vcpu
<1>3. Next1(m.data[m.cur][f]) \in Val
  <2>1. m.data[m.cur][f] \in Val
    BY <1>2 DEF Proc
  <2> QED
    BY <2>1, Values
<1>4. /\ m' \in Proc /\ m'.cur = "vmcs02" /\ m'.launched = m.launched
      /\ \A y \in Vmcs : y # "vmcs02" => m'.data[y] = m.data[y]
      /\ m'.data["vmcs02"][f] \in Val
      /\ \A g \in Field : g # f => m'.data["vmcs02"][g] = m.data["vmcs02"][g]
  BY <1>1, <1>2, <1>3, L2WriteFacts
<1> QED
  BY <1>1, <1>2, <1>4, L2Data

(* An instruction of L1 that exits. *)
LEMMA L1ExitsStep ==
    ASSUME IInv, NEW i \in Insn, L1Exits(i)
    PROVE  IInv' /\ Unseen
<1>1. /\ pc = "guest" /\ pc' = "exit" /\ ~ vcpu.guest_mode /\ insn' = i /\ m' = m /\ link' = link
      /\ vcpu' = [vcpu EXCEPT !.state = 1, !.rip = m.data[m.cur].rip, !.rsp = m.data[m.cur].rsp]
      /\ \/ insn = i /\ regs' = regs
         \/ /\ CanExecute(i)
            /\ regs' = IF i = "rep_out" THEN [regs EXCEPT !.rcx = 2] ELSE regs
  BY DEF L1Exits, Exits
<1>2. /\ m \in Proc /\ vcpu \in Vcpu /\ TypeOK /\ RegsOK /\ InsnInv /\ RegionInv /\ XcrInv /\ LoopInv
      /\ m.cur \in Vmcs /\ {"rip", "rsp"} \subseteq Field
  BY <1>1, ProcType, Names, Groups DEF IInv, LoopInv, Running, Vcpu
<1>3. m.data[m.cur].rip \in Val /\ m.data[m.cur].rsp \in Val
  BY <1>2 DEF Proc
<1>4. /\ vcpu' \in Vcpu /\ vcpu'.state = 1 /\ vcpu'.guest_mode = vcpu.guest_mode
      /\ vcpu'.shadow_enabled = vcpu.shadow_enabled
      /\ vcpu'.shadow_vmcs = vcpu.shadow_vmcs /\ vcpu'.vmcs12 = vcpu.vmcs12
  BY <1>1, <1>2, <1>3 DEF Vcpu
<1>5. i # "l2"
  BY DEF Insn, Skipped, SkippedVmxon, SkippedVmread, SkippedXsaves, Unserved, UnservedRdtsc
<1>6. RegsOK' /\ XcrInv'
  BY <1>1, <1>2 DEF RegsOK, XcrInv
<1>7. InsnInv'
  <2>1. CASE insn = i /\ regs' = regs
    BY <2>1, <1>1, <1>2, <1>4, <1>5 DEF InsnInv
  <2>2. CASE CanExecute(i) /\ regs' = IF i = "rep_out" THEN [regs EXCEPT !.rcx = 2] ELSE regs
    BY <2>2, <1>1, <1>2, <1>4, <1>5 DEF InsnInv, CanExecute, RegsOK
  <2> QED
    BY <2>1, <2>2, <1>1
<1>8. TypeOK'
  BY <1>1, <1>2, <1>4, <1>6 DEF TypeOK, Vcpu, RegsOK
<1>9. LoopInv' /\ RegionInv' /\ CopyInv'
  BY <1>1, <1>2, <1>4 DEF LoopInv, RegionInv, CopyInv, Running, Shadowing
<1>10. Unseen
  BY <1>1, <1>4 DEF Unseen, SameRegions, SameLoaded, L1Region
<1> QED
  BY <1>6, <1>7, <1>8, <1>9, <1>10 DEF IInv

(* An exit of L2 that L1 is to handle: its reason goes to vmcs02. *)
LEMMA L2ExitsStep ==
    ASSUME IInv, NEW reason \in {1, 2}, L2Exits(reason, reason + 1)
    PROVE  IInv' /\ Unseen
<1> DEFINE p1 == vmcs_write(m, "reason", reason)
           p  == vmcs_write(p1, "qual", reason + 1)
<1>1. /\ pc = "guest" /\ pc' = "exit" /\ vcpu.guest_mode /\ insn' = "l2" /\ m' = p
      /\ regs' = regs /\ link' = link
      /\ vcpu' = [vcpu EXCEPT !.state = 1, !.rip = p.data[p.cur].rip, !.rsp = p.data[p.cur].rsp]
  BY DEF L2Exits, Exits
<1>2. /\ m \in Proc /\ m.cur = "vmcs02" /\ vcpu \in Vcpu /\ "vmcs02" \in Vmcs
      /\ {"rip", "rsp"} \subseteq Field /\ Guest \subseteq Field /\ Host \cup Ctrl \subseteq Field
      /\ {"reason", "qual"} \cap (Guest \cup Host \cup Ctrl) = {} /\ {"reason", "qual"} \subseteq Ro
      /\ reason \in Val /\ reason + 1 \in Val
  BY <1>1, ProcType, Names, Groups, Values DEF IInv, LoopInv, Running, Vcpu
<1>3. /\ p1 \in Proc /\ p1.cur = "vmcs02" /\ p1.launched = m.launched
      /\ \A y \in Vmcs : y # "vmcs02" => p1.data[y] = m.data[y]
      /\ \A g \in Field : g # "reason" => p1.data["vmcs02"][g] = m.data["vmcs02"][g]
  BY <1>1, <1>2, L2WriteFacts
<1> HIDE DEF p1
<1>4. /\ p \in Proc /\ p.cur = "vmcs02" /\ p.launched = m.launched
      /\ \A y \in Vmcs : y # "vmcs02" => p.data[y] = m.data[y]
      /\ \A g \in Field : g # "qual" => p.data["vmcs02"][g] = p1.data["vmcs02"][g]
  BY <1>1, <1>2, <1>3, L2WriteFacts, SMTT(30)
<1> HIDE DEF p
<1>5. \A g \in Guest \cup Host \cup Ctrl : p.data["vmcs02"][g] = m.data["vmcs02"][g]
  BY <1>2, <1>3, <1>4
<1>6. p.data[p.cur].rip \in Val /\ p.data[p.cur].rsp \in Val
  BY <1>2, <1>4 DEF Proc
<1>7. /\ vcpu' \in Vcpu /\ vcpu'.state = 1 /\ vcpu'.guest_mode = vcpu.guest_mode
      /\ vcpu'.shadow_enabled = vcpu.shadow_enabled
      /\ vcpu'.shadow_vmcs = vcpu.shadow_vmcs /\ vcpu'.vmcs12 = vcpu.vmcs12
  BY <1>1, <1>2, <1>6 DEF Vcpu
<1>8. IInv' /\ SameRegions /\ SameLoaded
  BY <1>1, <1>2, <1>4, <1>5, <1>7, L2Data
<1> QED
  BY <1>1, <1>5, <1>7, <1>8 DEF Unseen

(* An exit that is no instruction's. *)
LEMMA AsyncExitStep ==
    ASSUME IInv, NEW a \in Async, AsyncExit(a)
    PROVE  IInv' /\ Unseen
<1>1. /\ pc = "guest" /\ pc' = "exit" /\ insn' = a /\ m' = m /\ regs' = regs /\ link' = link
      /\ vcpu' = [vcpu EXCEPT !.state = 1, !.rip = m.data[m.cur].rip, !.rsp = m.data[m.cur].rsp]
  BY DEF AsyncExit, Exits
<1>2. /\ m \in Proc /\ vcpu \in Vcpu /\ TypeOK /\ RegsOK /\ RegionInv /\ CopyInv /\ XcrInv /\ LoopInv
      /\ m.cur \in Vmcs /\ {"rip", "rsp"} \subseteq Field
  BY <1>1, ProcType, Names, Groups DEF IInv, LoopInv, Running, Vcpu
<1>3. m.data[m.cur].rip \in Val /\ m.data[m.cur].rsp \in Val
  BY <1>2 DEF Proc
<1>4. /\ vcpu' \in Vcpu /\ vcpu'.state = 1 /\ vcpu'.guest_mode = vcpu.guest_mode
      /\ vcpu'.shadow_enabled = vcpu.shadow_enabled
      /\ vcpu'.shadow_vmcs = vcpu.shadow_vmcs /\ vcpu'.vmcs12 = vcpu.vmcs12
  BY <1>1, <1>2, <1>3 DEF Vcpu
<1>5. TypeOK' /\ RegsOK' /\ XcrInv' /\ InsnInv'
  BY <1>1, <1>2, <1>4 DEF TypeOK, RegsOK, XcrInv, InsnInv, Vcpu, Async
<1>6. L1Region' = L1Region
  BY <1>4 DEF L1Region
<1>7. LoopInv' /\ RegionInv'
  BY <1>1, <1>2, <1>4 DEF LoopInv, RegionInv, Running, Shadowing
<1>8. CopyInv'
  BY <1>1, <1>2, <1>4, <1>6 DEF CopyInv, IsMapped, Hpa
<1>9. Unseen
  BY <1>1, <1>4, <1>6 DEF Unseen, SameRegions, SameLoaded
<1> QED
  BY <1>5, <1>7, <1>8, <1>9 DEF IInv

-------------------------------------------------------------------------------
(* The switch to L2 preserves the invariant. *)
LEMMA EnterStep == ASSUME IInv, nested_vmx_run PROVE IInv'
<1>1. /\ m' \in Proc /\ m'.cur = "vmcs02" /\ m'.launched = {}
      /\ \A x \in Vmcs : x \notin {"vmcs02", "kmalloc"} => m'.data[x] = m.data[x]
      /\ m'.data["vmcs02"]["host_rip"] = VmExitCode
      /\ IsMapped(m.data[L1Region]["bitmap"]) =>
            /\ m'.data["vmcs02"]["ctls"] = m.data[L1Region]["ctls"]
            /\ m'.data["vmcs02"]["bitmap"] = Hpa(m.data[L1Region]["bitmap"])
      /\ \A g \in Kept \cup Ctrl : m'.data[vcpu.vmcs12][g] = m.data[L1Region][g]
      /\ vcpu.vmcs12 # "null" /\ ~ vcpu.guest_mode /\ pc = "exit" /\ pc' = "entry"
      /\ insn' = "none" /\ UNCHANGED <<link, regs, mapped>>
  BY EnterFacts
<1>2. PICK rip \in Val, rsp \in Val :
         vcpu' = [vcpu EXCEPT !.state = 0, !.guest_mode = TRUE, !.rip = rip, !.rsp = rsp]
  BY EnterFacts
<1>3. /\ TypeOK /\ vcpu \in Vcpu /\ RegsOK /\ RegionInv /\ XcrInv /\ LoopInv /\ "vmcs01" \in Vmcs
      /\ m.data["vmcs01"]["host_rip"] = VmExitCode
  BY <1>1, Names DEF IInv, TypeOK, Vcpu, LoopInv
<1>4. /\ L1Region \in Vmcs /\ L1Region \notin {"vmcs02", "kmalloc"}
  BY <1>1, <1>3, L1RegionFacts
<1>5. /\ vcpu' \in Vcpu /\ vcpu'.state = 0 /\ vcpu'.guest_mode
      /\ vcpu'.shadow_enabled = vcpu.shadow_enabled
      /\ vcpu'.shadow_vmcs = vcpu.shadow_vmcs /\ vcpu'.vmcs12 = vcpu.vmcs12
  BY <1>2, <1>3 DEF Vcpu
<1>6. L1Region' = L1Region
  BY <1>5 DEF L1Region
<1>7. TypeOK' /\ RegsOK' /\ XcrInv' /\ InsnInv'
  BY <1>1, <1>3, <1>5 DEF TypeOK, Proc, Loadable, RegsOK, XcrInv, InsnInv, Vcpu
<1>8. LoopInv' /\ RegionInv'
  BY <1>1, <1>3, <1>5 DEF LoopInv, RegionInv, Running, Shadowing
<1>9. CopyInv'
  BY <1>1, <1>4, <1>5, <1>6 DEF CopyInv, IsMapped, Hpa
<1> QED
  BY <1>7, <1>8, <1>9 DEF IInv

(* So does the switch back to L1. *)
LEMMA LeaveStep == ASSUME IInv, nested_vmx_vmexit PROVE IInv' /\ SameLoaded
<1>1. /\ m' \in Proc /\ m'.cur = "vmcs01" /\ m'.launched = {}
      /\ m'.data["vmcs01"]["host_rip"] = VmExitCode
      /\ vcpu.vmcs12 # "null" /\ vcpu.guest_mode /\ pc = "exit" /\ pc' = "entry"
      /\ insn' = "none" /\ UNCHANGED <<link, regs, mapped>>
  BY LeaveFacts
<1>2. PICK rip \in Val, rsp \in Val :
         vcpu' = [vcpu EXCEPT !.state = 0, !.guest_mode = FALSE, !.rip = rip, !.rsp = rsp]
  BY LeaveFacts
<1>3. TypeOK /\ vcpu \in Vcpu /\ RegsOK /\ RegionInv /\ XcrInv
  BY DEF IInv, TypeOK, Vcpu
<1>4. /\ vcpu' \in Vcpu /\ vcpu'.state = 0 /\ ~ vcpu'.guest_mode
      /\ vcpu'.shadow_enabled = vcpu.shadow_enabled
      /\ vcpu'.shadow_vmcs = vcpu.shadow_vmcs /\ vcpu'.vmcs12 = vcpu.vmcs12
  BY <1>2, <1>3 DEF Vcpu
<1>5. TypeOK' /\ RegsOK' /\ XcrInv' /\ InsnInv'
  BY <1>1, <1>3, <1>4 DEF TypeOK, Proc, Loadable, RegsOK, XcrInv, InsnInv, Vcpu
<1>6. LoopInv' /\ RegionInv' /\ CopyInv'
  BY <1>1, <1>3, <1>4 DEF LoopInv, RegionInv, CopyInv, Running, Shadowing
<1>7. SameLoaded
  BY <1>4 DEF SameLoaded, L1Region
<1> QED
  BY <1>5, <1>6, <1>7 DEF IInv
-------------------------------------------------------------------------------
(* The state after loading the module satisfies the invariant. *)
LEMMA InitIInv == Init => IInv
<1> SUFFICES ASSUME Init PROVE IInv
  OBVIOUS
<1>1. /\ {"vmcs01", "vmcs02"} \subseteq Vmcs /\ {"rsp", "host_rip"} \subseteq Field
      /\ \A x \in Vmcs, f \in Field : m.data[x][f] = 0
      /\ m = [cur |-> "none", launched |-> {}, data |-> [v \in Vmcs |-> Zero]]
  BY Names, Groups DEF Init, Zero
<1>2. Zero \in [Field -> Val] /\ 0 \in Val
  BY Values DEF Zero
<1>3. m \in Proc
  BY <1>1, <1>2 DEF Proc
<1>4. /\ vcpu = [state |-> 0, guest_mode |-> FALSE, shadow_enabled |-> FALSE,
                 shadow_vmcs |-> "null", vmcs12 |-> "null", rip |-> 0, rsp |-> 0]
      /\ link = "none" /\ pc = "init" /\ insn = "none"
      /\ regs = [rcx |-> 0, xcr0 |-> {"x87"}, lme |-> FALSE, ia32e |-> FALSE,
                 cr0_shadow |-> 0, cr4_shadow |-> 0, vmcs_cr4_shadow |-> 0]
  BY DEF Init
<1>5. TypeOK
  BY <1>2, <1>3, <1>4, ProcType
<1>6. RegsOK /\ XcrInv /\ InsnInv
  BY <1>4 DEF RegsOK, XcrInv, InsnInv
<1>7. LoopInv /\ RegionInv /\ CopyInv
  BY <1>1, <1>4 DEF LoopInv, Fresh, RegionInv, CopyInv, Shadowing
<1> QED
  BY <1>5, <1>6, <1>7 DEF IInv

(* Every step preserves it. *)
LEMMA NextIInv == IInv /\ [Next]_vars => IInv'
<1> SUFFICES ASSUME IInv, [Next]_vars PROVE IInv'
  OBVIOUS
<1>1. CASE L1Handler
  <2>1. CASE vmx_handle_exception
    BY <2>1, StopStep
  <2>2. ASSUME NEW r \in Region, vmx_handle_vmptrld(r) PROVE IInv'
    BY <2>2, LoadStep
  <2>3. ASSUME NEW f \in WrittenFields, NEW v \in kvm_reg_read, vmx_handle_vmwrite(f, v)
        PROVE  IInv'
    BY <2>3, VmwriteStep
  <2>4. CASE nested_vmx_run
    BY <2>4, EnterStep
  <2> QED
    BY <2>1, <2>2, <2>3, <2>4, <1>1, HandlerStep DEF L1Handler
<1>2. CASE nested_vmx_vmexit
  BY <1>2, LeaveStep
<1>3. CASE vmx_handle_external_interrupt \/ nested_vmx_handle_ept_volation(TRUE)
  BY <1>3, AsyncStep
<1>4. CASE VmxInitFails \/ VmStops \/ UNCHANGED vars
  BY <1>4, StopStep
<1>5. CASE \E cpu \in left.cpus : VmxInit(cpu)
  BY <1>5, InitStep
<1>6. CASE VmInitTest
  BY <1>6, TestStep
<1>7. CASE vm_launch \/ vm_resume
  BY <1>7, EntryStep
<1>8. CASE GuestStep
  <2>1. ASSUME NEW f \in WrittenFields, NEW v \in kvm_reg_read, L1Writes(f, v) PROVE IInv'
    BY <2>1, L1WritesStep
  <2>2. ASSUME NEW f \in Saved \ {"rsp"}, L2Runs(f) PROVE IInv'
    BY <2>2, L2RunsStep
  <2>3. ASSUME NEW reason \in {1, 2}, L2Exits(reason, reason + 1) PROVE IInv'
    BY <2>3, L2ExitsStep
  <2> QED
    BY <2>1, <2>2, <2>3, <1>8, L1RunsStep, L1ExitsStep, AsyncExitStep DEF GuestStep
<1> QED
  BY <1>1, <1>2, <1>3, <1>4, <1>5, <1>6, <1>7, <1>8 DEF Next, HostStep, Handler

(* The types of the hypervisor's state, for any regions. *)
THEOREM TypeCorrect == Spec => []TypeOK
<1>1. IInv => TypeOK
  BY DEF IInv
<1> QED
  BY <1>1, InitIInv, NextIInv, PTL DEF Spec

(* Every entry of vmx_run is one the processor accepts: the current VMCS is  *)
(* the running guest's, its launch state is what vcpu.state says, its exits  *)
(* come back to the host, and XCR0 never has AVX without SSE.                *)
THEOREM EntryTheorem == Spec => []EntryLegal
<1>1. IInv => EntryLegal
  <2> SUFFICES ASSUME IInv PROVE EntryLegal
    OBVIOUS
  <2>1. XcrInv /\ LoopInv
    BY DEF IInv
  <2>2. ASSUME pc = "entry"
        PROVE  /\ m.cur = IF vcpu.guest_mode THEN "vmcs02" ELSE "vmcs01"
               /\ vcpu.state = 0 <=> m.cur \notin m.launched
               /\ m.data[m.cur].host_rip = VmExitCode
    BY <2>1, <2>2 DEF LoopInv, Running
  <2> QED
    BY <2>1, <2>2 DEF EntryLegal, XcrInv
<1> QED
  BY <1>1, InitIInv, NextIInv, PTL DEF Spec

(* L2 runs under the controls L1 asked for in the region it loaded, unless   *)
(* nested_vmx_set_ctrl_state stops at an address that is not mapped.         *)
THEOREM ControlsTheorem == Spec => []L2Controls
<1>1. IInv => L2Controls
  BY DEF IInv, CopyInv, L2Controls
<1> QED
  BY <1>1, InitIInv, NextIInv, PTL DEF Spec
-------------------------------------------------------------------------------
(* What NestedVmx's variables are here: L1's place, L2's state, the regions. *)
AbsL1 == IF vcpu.guest_mode THEN [rip |-> 0, rsp |-> 0]
         ELSE [rip |-> L1Data(m).rip, rsp |-> L1Data(m).rsp]
AbsL2 == [f \in Guest |-> IF vcpu.guest_mode THEN m.data["vmcs02"][f] ELSE 0]
AbsView == [r \in Region |-> m.data[r]]

(* What L1 and L2 do not see, NestedVmx does not see. *)
LEMMA UnseenRefines == ASSUME IInv, IInv', Unseen PROVE UNCHANGED Arch!vars
<1>1. vcpu'.guest_mode = vcpu.guest_mode /\ L1Region' = L1Region
  BY DEF Unseen, SameLoaded
<1>2. AbsView' = AbsView
  BY DEF AbsView, Unseen, SameRegions
<1>3. AbsL2' = AbsL2
  BY DEF AbsL2, Unseen
<1>4. AbsL1' = AbsL1
  BY <1>1 DEF AbsL1, L1Data, Unseen
<1> QED
  BY <1>1, <1>2, <1>3, <1>4 DEF Arch!vars, AbsView, AbsL1, AbsL2

(* L1 retires an instruction. *)
LEMMA RetireRefines == ASSUME IInv, IInv', L1Step PROVE Arch!Retire
<1>1. ~ vcpu.guest_mode /\ ~ vcpu'.guest_mode
  BY DEF L1Step
<1>2. AbsL2' = AbsL2
  BY <1>1 DEF AbsL2
<1>3. AbsL1' \in [rip : Val, rsp : {AbsL1.rsp}]
  BY <1>1 DEF AbsL1, L1Data, L1Step
<1> QED
  BY <1>1, <1>2, <1>3 DEF Arch!Retire, AbsL1, AbsL2

(* One that leaves its regions alone. *)
LEMMA RunRefines == ASSUME IInv, IInv', L1Step, SameRegions, SameLoaded PROVE Arch!Next
<1>1. AbsView' = AbsView
  BY DEF AbsView, SameRegions
<1>2. L1Region' = L1Region
  BY DEF SameLoaded
<1>3. Arch!Run1
  BY <1>1, <1>2, RetireRefines DEF Arch!Run1, AbsView
<1> QED
  BY <1>3 DEF Arch!Next

(* A region is written, by VMWRITE or in the shadow VMCS. *)
LEMMA WriteRefines ==
    ASSUME IInv, IInv', L1Step, SameLoaded, L1Region \in Region,
           NEW f \in WrittenFields, NEW x \in kvm_reg_read,
           \A r \in Region : m'.data[r] = IF r = L1Region THEN [m.data[r] EXCEPT ![f] = x]
                                          ELSE m.data[r]
    PROVE  Arch!Next
<1>1. f \in Arch!Field /\ x \in Val
  BY Groups, Values DEF Field, Guest, Arch!Field, Arch!Guest
<1>2. AbsView' = [AbsView EXCEPT ![L1Region][f] = x]
  BY DEF AbsView
<1>3. L1Region' = L1Region /\ L1Region # "null"
  BY Names DEF SameLoaded
<1>4. Arch!Write(f)
  BY <1>1, <1>2, <1>3, RetireRefines DEF Arch!Write, AbsView
<1> QED
  BY <1>1, <1>4 DEF Arch!Next

(* L2 changes a field of its state. *)
LEMMA Run2Refines ==
    ASSUME IInv, IInv', vcpu.guest_mode, vcpu'.guest_mode, SameRegions, SameLoaded,
           NEW f \in Guest, m'.data["vmcs02"][f] \in Val,
           \A g \in Guest : g # f => m'.data["vmcs02"][g] = m.data["vmcs02"][g]
    PROVE  Arch!Next
<1>1. AbsView' = AbsView /\ AbsL1' = AbsL1 /\ L1Region' = L1Region
  BY DEF AbsView, AbsL1, SameRegions, SameLoaded
<1>2. AbsL2' = [AbsL2 EXCEPT ![f] = m'.data["vmcs02"][f]]
  BY DEF AbsL2
<1>3. Arch!Run2(f)
  BY <1>1, <1>2 DEF Arch!Run2, AbsView, AbsL1, AbsL2
<1> QED
  BY <1>3 DEF Arch!Next, Arch!Guest, Guest

(* nested_vmx_run is an Enter: L2 starts with the region's guest state. *)
LEMMA EnterRefines == ASSUME IInv, IInv', nested_vmx_run PROVE Arch!Next
<1>1. /\ \A x \in Vmcs : x \notin {"vmcs02", "kmalloc"} => m'.data[x] = m.data[x]
      /\ \A g \in Guest : m'.data["vmcs02"][g] = m.data[L1Region][g]
      /\ vcpu.vmcs12 # "null" /\ ~ vcpu.guest_mode
  BY EnterFacts
<1>2. PICK rip \in Val, rsp \in Val :
         vcpu' = [vcpu EXCEPT !.state = 0, !.guest_mode = TRUE, !.rip = rip, !.rsp = rsp]
  BY EnterFacts
<1>3. /\ vcpu'.guest_mode /\ L1Region' = L1Region
  BY <1>2 DEF IInv, TypeOK, L1Region
<1>4. L1Region \in Region /\ L1Region # "null" /\ \A r \in Region : r \in Vmcs /\ r \notin {"vmcs02", "kmalloc"}
  BY <1>1, L1RegionFacts, Names DEF IInv
<1>5. AbsView' = AbsView
  BY <1>1, <1>4 DEF AbsView
<1>6. AbsL1' = Arch!Idle1 /\ AbsL2' = [f \in Guest |-> AbsView[L1Region][f]]
  BY <1>1, <1>3, <1>4 DEF AbsL1, AbsL2, AbsView, Arch!Idle1
<1>7. Arch!Enter
  BY <1>1, <1>3, <1>4, <1>5, <1>6 DEF Arch!Enter, Arch!Guest, Guest, AbsView, AbsL1, AbsL2
<1> QED
  BY <1>7 DEF Arch!Next

(* nested_vmx_vmexit is an Exit: L2's saved state, the reason and the low    *)
(* half of the qualification go to the region, and nothing else does.        *)
LEMMA LeaveRefines == ASSUME IInv, IInv', nested_vmx_vmexit PROVE Arch!Next
<1> DEFINE reason == m.data["vmcs02"]["reason"]
           qual   == LowHalf(m.data["vmcs02"]["qual"])
           s == L1Region
           row == [f \in Field |-> CASE f \in Saved -> AbsL2[f] [] f = "reason" -> reason
                                     [] f = "qual" -> qual [] OTHER -> AbsView[s][f]]
<1>1. /\ \A r \in Region : r # s => m'.data[r] = m.data[r]
      /\ \A f \in Field : m'.data[s][f] =
            IF f \in Saved \cup {"reason"} THEN m.data["vmcs02"][f]
            ELSE IF f = "qual" THEN LowHalf(m.data["vmcs02"][f])
            ELSE m.data[s][f]
      /\ m'.data["vmcs01"]["rip"] = m.data[s]["host_rip"]
      /\ m'.data["vmcs01"]["rsp"] = m.data[s]["host_rsp"]
      /\ vcpu.vmcs12 # "null" /\ vcpu.guest_mode
  BY LeaveFacts
<1>2. ~ vcpu'.guest_mode /\ s' = s
  <2>1. PICK rip \in Val, rsp \in Val :
         vcpu' = [vcpu EXCEPT !.state = 0, !.guest_mode = FALSE, !.rip = rip, !.rsp = rsp]
    BY LeaveFacts
  <2>2. ~ vcpu'.guest_mode
    BY <2>1 DEF IInv, TypeOK
  <2> QED
    BY <2>2, LeaveStep DEF SameLoaded
<1>3. /\ s \in Region /\ m \in Proc /\ m' \in Proc /\ "vmcs02" \in Vmcs
      /\ \A r \in Region : r \in Vmcs
  BY <1>1, L1RegionFacts, ProcType, Names, LeaveFacts DEF IInv
<1>4. reason \in Val /\ qual \in Val
  <2>1. "reason" \in Field /\ "qual" \in Field
    BY Groups
  <2>2. reason \in Val /\ m.data["vmcs02"]["qual"] \in Val
    BY <2>1, <1>3 DEF Proc
  <2> QED
    BY <2>2, Values
<1>5. Saved \subseteq Guest /\ "reason" \notin Saved /\ "qual" \notin Saved
      /\ Arch!Field = Field /\ Arch!Guest = Guest
  BY Groups DEF Guest, Arch!Field, Arch!Guest, Field
<1>6. m'.data[s] = row
  <2>1. m'.data[s] \in [Field -> Val]
    BY <1>3 DEF Proc
  <2>2. \A f \in Field : m'.data[s][f] = row[f]
    <3> SUFFICES ASSUME NEW f \in Field PROVE m'.data[s][f] = row[f]
      OBVIOUS
    <3>1. f \in Saved => AbsL2[f] = m.data["vmcs02"][f]
      BY <1>1, <1>5 DEF AbsL2
    <3>2. AbsView[s][f] = m.data[s][f]
      BY <1>3 DEF AbsView
    <3>3. CASE f \in Saved
      BY <3>1, <3>3, <1>1, <1>5
    <3>4. CASE f \notin Saved
      BY <3>2, <3>4, <1>1, <1>5
    <3> QED
      BY <3>3, <3>4
  <2> QED
    BY <2>1, <2>2
<1>7. AbsView' = [AbsView EXCEPT ![s] = row]
  BY <1>1, <1>3, <1>6 DEF AbsView
<1>8. /\ AbsL1' = [rip |-> AbsView[s]["host_rip"], rsp |-> AbsView[s]["host_rsp"]]
      /\ AbsL2' = Arch!Idle2
  BY <1>1, <1>2, <1>3, <1>5 DEF AbsL1, AbsL2, AbsView, L1Data, Arch!Idle2
<1>9. PICK a \in Val, b \in Val : a = reason /\ b = qual
  BY <1>4
<1> HIDE DEF s, reason, qual
<1>10. Arch!Exit(a, b)
  BY <1>1, <1>2, <1>5, <1>7, <1>8, <1>9 DEF Arch!Exit, AbsView, AbsL1, AbsL2, s
<1> QED
  BY <1>10 DEF Arch!Next

(* Whatever L1, L2 and the devices do, the code gives L1 the VMX of          *)
(* NestedVmx: every step is one of its steps or changes nothing there.       *)
THEOREM NestedTheorem == Spec => NestedArchitecture
<1>1. Init => Arch!Init
  <2> SUFFICES ASSUME Init PROVE Arch!Init
    OBVIOUS
  <2>1. /\ ~ vcpu.guest_mode /\ L1Region = "null"
        /\ \A x \in Vmcs : m.data[x] = Zero
    BY DEF Init, L1Region
  <2>2. /\ "vmcs01" \in Vmcs /\ \A r \in Region : r \in Vmcs
        /\ {"rip", "rsp"} \subseteq Field /\ Field = Arch!Field /\ Guest = Arch!Guest
    BY Names, Groups DEF Field, Guest, Arch!Field, Arch!Guest
  <2>3. AbsView = [r \in Region |-> [f \in Field |-> 0]]
    BY <2>1, <2>2 DEF AbsView, Zero
  <2>4. AbsL1 = Arch!Idle1 /\ AbsL2 = Arch!Idle2
    BY <2>1, <2>2 DEF AbsL1, AbsL2, L1Data, Zero, Arch!Idle1, Arch!Idle2
  <2> QED
    BY <2>1, <2>2, <2>3, <2>4 DEF Arch!Init, AbsView, AbsL1, AbsL2
<1>2. IInv /\ IInv' /\ [Next]_vars => [Arch!Next]_Arch!vars
  <2> SUFFICES ASSUME IInv, IInv', [Next]_vars PROVE Arch!Next \/ UNCHANGED Arch!vars
    OBVIOUS
  <2>1. CASE L1Handler
    <3>1. CASE vmx_handle_exception
      BY <3>1, StopStep, UnseenRefines
    <3>2. ASSUME NEW r \in Region, vmx_handle_vmptrld(r) PROVE Arch!Next
      <4>1. L1Step /\ SameRegions /\ L1Region' = r
        BY <3>2, LoadStep
      <4>2. AbsView' = AbsView
        BY <4>1 DEF AbsView, SameRegions
      <4>3. Arch!Load(r)
        BY <4>1, <4>2, RetireRefines DEF Arch!Load, AbsView
      <4> QED
        BY <4>3 DEF Arch!Next
    <3>3. ASSUME NEW f \in WrittenFields, NEW v \in kvm_reg_read, vmx_handle_vmwrite(f, v)
          PROVE  Arch!Next
      BY <3>3, VmwriteStep, WriteRefines
    <3>4. CASE nested_vmx_run
      BY <3>4, EnterRefines
    <3> QED
      BY <3>1, <3>2, <3>3, <3>4, <2>1, HandlerStep, RunRefines DEF L1Handler
  <2>2. CASE nested_vmx_vmexit
    BY <2>2, LeaveRefines
  <2>3. CASE vmx_handle_external_interrupt \/ nested_vmx_handle_ept_volation(TRUE)
    <3>1. /\ SameRegions /\ SameLoaded /\ vcpu' = vcpu
          /\ m.cur = Running /\ m'.data[m.cur]["rip"] \in Val
          /\ \A f \in Field : f # "rip" => m'.data[m.cur][f] = m.data[m.cur][f]
      BY <2>3, AsyncStep
    <3>2. Guest \subseteq Field /\ "rip" \in Guest /\ "rsp" \in Field
      BY Groups
    <3>3. CASE vcpu.guest_mode
      <4>1. /\ vcpu'.guest_mode /\ m'.data["vmcs02"]["rip"] \in Val
            /\ \A g \in Guest : g # "rip" => m'.data["vmcs02"][g] = m.data["vmcs02"][g]
        BY <3>1, <3>2, <3>3 DEF Running
      <4> QED
        BY <4>1, <3>1, <3>2, <3>3, Run2Refines
    <3>4. CASE ~ vcpu.guest_mode
      <4>1. L1Step
        BY <3>1, <3>2, <3>4 DEF L1Step, Running
      <4> QED
        BY <4>1, <3>1, RunRefines
    <3> QED
      BY <3>3, <3>4
  <2>4. CASE VmxInitFails \/ VmStops \/ UNCHANGED vars
    BY <2>4, StopStep, UnseenRefines
  <2>5. CASE \E cpu \in left.cpus : VmxInit(cpu)
    BY <2>5, InitStep, UnseenRefines
  <2>6. CASE VmInitTest
    BY <2>6, TestStep, RunRefines
  <2>7. CASE vm_launch \/ vm_resume
    BY <2>7, EntryStep, UnseenRefines
  <2>8. CASE GuestStep
    <3>1. ASSUME NEW f \in WrittenFields, NEW v \in kvm_reg_read, L1Writes(f, v)
          PROVE  Arch!Next
      BY <3>1, L1WritesStep, WriteRefines
    <3>2. ASSUME NEW f \in Saved \ {"rsp"}, L2Runs(f) PROVE Arch!Next
      <4>1. /\ SameRegions /\ SameLoaded /\ vcpu.guest_mode /\ vcpu'.guest_mode
            /\ f \in Guest /\ m'.data["vmcs02"][f] \in Val
            /\ \A g \in Guest : g # f => m'.data["vmcs02"][g] = m.data["vmcs02"][g]
        BY <3>2, L2RunsStep
      <4> QED
        BY <4>1, Run2Refines
    <3>3. ASSUME NEW reason \in {1, 2}, L2Exits(reason, reason + 1)
          PROVE  UNCHANGED Arch!vars
      BY <3>3, L2ExitsStep, UnseenRefines
    <3>4. ASSUME NEW i \in Insn, L1Exits(i) PROVE UNCHANGED Arch!vars
      BY <3>4, L1ExitsStep, UnseenRefines
    <3>5. ASSUME NEW a \in Async, AsyncExit(a) PROVE UNCHANGED Arch!vars
      BY <3>5, AsyncExitStep, UnseenRefines
    <3>6. CASE L1Runs
      BY <3>6, L1RunsStep, RunRefines
    <3> QED
      BY <3>1, <3>2, <3>3, <3>4, <3>5, <3>6, <2>8 DEF GuestStep
  <2> QED
    BY <2>1, <2>2, <2>3, <2>4, <2>5, <2>6, <2>7, <2>8 DEF Next, HostStep, Handler
<1> QED
  BY <1>1, <1>2, InitIInv, NextIInv, PTL DEF Spec, NestedArchitecture, Arch!Spec
===============================================================================
