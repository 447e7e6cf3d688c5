------------------------------ MODULE MCSpinLock ------------------------------
(* An instance of SpinLock for TLC: the locks migrate_task takes when it     *)
(* moves a task between the queues of two CPUs, in either direction.         *)
EXTENDS SpinLock

CONSTANTS rqA, task, rqB

Migration(from, to) == {<<from, task>>, <<from, to>>, <<task, to>>}
MigrateOrder == Migration(rqA, rqB) \cup Migration(rqB, rqA)
===============================================================================
