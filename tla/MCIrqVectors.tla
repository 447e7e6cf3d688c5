----------------------------- MODULE MCIrqVectors -----------------------------
(* Instances of IrqVectors for TLC: devices as the drivers know them, with   *)
(* MSI-X tables, MSI blocks of several sizes, or neither.                    *)
EXTENDS IrqVectors

CONSTANTS xhci, gpu, nic, nic2, old

MsiOf == [d \in Dev |-> CASE d = gpu -> 4 [] d = nic2 -> 2 [] d = xhci -> 2 [] OTHER -> 0]
MsixOf == [d \in Dev |-> CASE d = xhci -> 3 [] d = nic -> 2 [] OTHER -> 0]
===============================================================================
