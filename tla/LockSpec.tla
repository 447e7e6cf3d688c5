------------------------------- MODULE LockSpec -------------------------------
(***************************************************************************)
(* What a spin lock promises its callers: a lock has at most one owner, it *)
(* is taken only while it is free and released only by the CPU that owns   *)
(* it.  SpinLock implements this specification.                            *)
(***************************************************************************)
CONSTANTS CPU,    \* the processors
          Lock,   \* the spin locks
          NoOwner \* the owner of a free lock, not a CPU

VARIABLE owner    \* owner[l]: the CPU that holds lock l, or NoOwner

Init == owner = [l \in Lock |-> NoOwner]

Acquire(c, l) == /\ owner[l] = NoOwner
                 /\ owner' = [owner EXCEPT ![l] = c]

Release(c, l) == /\ owner[l] = c
                 /\ owner' = [owner EXCEPT ![l] = NoOwner]

Next == \E c \in CPU, l \in Lock : Acquire(c, l) \/ Release(c, l)

Spec == Init /\ [][Next]_owner
===============================================================================
