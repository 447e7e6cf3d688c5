----------------------------- MODULE MCAddrSpaces ------------------------------
(***************************************************************************)
(* Bounds for TLC: two tasks that fault at the same time, or a virtual     *)
(* machine whose tables map an address to a page, to one beyond its memory *)
(* or to its own tables, with pages of 1GB, 2MB and 4KB, and with other    *)
(* roots for its guest; and one of them beside a task that faults.         *)
(***************************************************************************)
EXTENDS AddrSpaces

Rwx(a) == Entry(a, Bits, FALSE)
Page(a, b) == [i \in 0 .. 1 |-> IF i = 0 THEN a ELSE b]
MCTables == {<<Page(Rwx(1), None), Page(Rwx(2), Entry(4, Bits, TRUE)), Page(Rwx(3), None), Page(Rwx(4), Rwx(9))>>,
             <<Page(Rwx(1), Rwx(2)), Page(Rwx(2), None), Page(Rwx(3), Entry(2, Bits, TRUE)), Page(Rwx(4), Entry(5, {"x"}, FALSE))>>}
Tab == {[x \in 0 .. 3 |-> g[x + 1]] : g \in MCTables}
MCWords == {None, Rwx(3), Entry(8, Bits, TRUE), Entry(5, {"x"}, FALSE)}
MCBudgets == {[vm |-> FALSE, touch |-> 4, l1 |-> 0, write |-> 0, l2 |-> 0],
              [vm |-> TRUE, touch |-> 1, l1 |-> 0, write |-> 0, l2 |-> 0],
              [vm |-> TRUE, touch |-> 0, l1 |-> 0, write |-> 1, l2 |-> 2],
              [vm |-> TRUE, touch |-> 0, l1 |-> 2, write |-> 0, l2 |-> 0],
              [vm |-> TRUE, touch |-> 0, l1 |-> 1, write |-> 0, l2 |-> 1]}
================================================================================
