------------------------------- MODULE NestedVmx -------------------------------
(***************************************************************************)
(* What nested virtualisation promises (arch/x86_64/kvm/vmx/nested.c): a   *)
(* guest hypervisor, L1, keeps a VMCS per nested guest, reads and writes   *)
(* its fields, enters the nested guest, L2, with the guest fields it wrote *)
(* and finds in them, when L2 exits, the state L2 had and why it exited.   *)
(***************************************************************************)
EXTENDS Naturals

CONSTANTS Region,    \* L1's VMCS regions
          Saved,     \* guest-state fields that an exit from L2 writes back
          Kept,      \* guest-state fields that it does not
          Other,     \* host, control and exit information fields
          Val, NoRegion

Guest == Saved \cup Kept
Field == Guest \cup Other

VARIABLES mode,      \* who runs: "L1" or "L2"
          l1,        \* where L1 runs; 0 while L2 runs
          l2,        \* L2's live state; 0 while L1 runs
          view,      \* what L1 reads in the fields of its VMCS regions
          cur        \* the region L1 loaded

vars == <<mode, l1, l2, view, cur>>
Idle1 == [rip |-> 0, rsp |-> 0]
Idle2 == [f \in Guest |-> 0]

Init == /\ mode = "L1" /\ l1 = Idle1 /\ l2 = Idle2 /\ cur = NoRegion
        /\ view = [r \in Region |-> [f \in Field |-> 0]]

(* L1 retires an instruction; VMPTRLD and VMWRITE are such instructions. *)
Retire == /\ mode = "L1" /\ l1' \in [rip : Val, rsp : {l1.rsp}]
          /\ UNCHANGED <<mode, l2>>

Run1 == Retire /\ UNCHANGED <<view, cur>>
Load(r) == Retire /\ cur' = r /\ UNCHANGED view
Write(f) == /\ Retire /\ UNCHANGED cur /\ cur # NoRegion
            /\ \E v \in Val : view' = [view EXCEPT ![cur][f] = v]

Enter == /\ mode = "L1" /\ cur # NoRegion
         /\ mode' = "L2" /\ l1' = Idle1
         /\ l2' = [f \in Guest |-> view[cur][f]]
         /\ UNCHANGED <<view, cur>>

Run2(f) == /\ mode = "L2" /\ UNCHANGED <<mode, l1, view, cur>>
           /\ \E v \in Val : l2' = [l2 EXCEPT ![f] = v]

(* The exit restores L1 where the host fields of its VMCS say.               *)
Exit(reason, qual) ==
  /\ mode = "L2" /\ mode' = "L1" /\ l2' = Idle2
  /\ l1' = [rip |-> view[cur]["host_rip"], rsp |-> view[cur]["host_rsp"]]
  /\ view' = [view EXCEPT ![cur] = [f \in Field |->
                CASE f \in Saved -> l2[f]
                  [] f = "reason" -> reason
                  [] f = "qual" -> qual
                  [] OTHER -> @[f]]]
  /\ UNCHANGED cur

Next == \/ Run1
        \/ \E r \in Region : Load(r)
        \/ \E f \in Field : Write(f)
        \/ \E f \in Guest : Run2(f)
        \/ Enter
        \/ \E reason, qual \in Val : Exit(reason, qual)

Spec == Init /\ [][Next]_vars
================================================================================
