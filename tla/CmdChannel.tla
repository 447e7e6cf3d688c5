------------------------------ MODULE CmdChannel ------------------------------
(***************************************************************************)
(* What the xHCI command ring promises its callers (xhci_cmd_enable_slot   *)
(* and the other commands): one command at a time, executed exactly once   *)
(* and in order, and the answer the caller gets is the answer to its own   *)
(* command.  Commands are numbered; a number stands for the latest one.    *)
(***************************************************************************)
EXTENDS Naturals

VARIABLES sent,      \* the last command submitted
          executed,  \* the last command the controller executed
          returned   \* the command whose completion the last wait returned

chanVars == <<sent, executed, returned>>

Init == sent = 0 /\ executed = 0 /\ returned = 0

Submit == /\ returned = sent
          /\ sent' = sent + 1
          /\ UNCHANGED <<executed, returned>>

Execute == /\ executed < sent
           /\ executed' = executed + 1
           /\ UNCHANGED <<sent, returned>>

Return == /\ executed = sent
          /\ returned < sent
          /\ returned' = sent
          /\ UNCHANGED <<sent, executed>>

Spec == Init /\ [][Submit \/ Execute \/ Return]_chanVars
===============================================================================
