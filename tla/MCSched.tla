-------------------------------- MODULE MCSched --------------------------------
(* Instances of Sched for TLC. *)
EXTENDS Sched

CONSTANTS t1, t2, t3, t4

Prio1 == [t \in Task |-> 1]
PrioHigh == [t \in Task |-> IF t = t1 THEN 2 ELSE 1]
Prio2 == [t \in Task |-> IF t \in {t1, t3} THEN 2 ELSE 1]

(* Which CPU creates which tasks. *)
BootOneCpu == [c \in CPU |-> <<t1, t2, t3>>]
BootTwoEach == [c \in CPU |-> IF c = 0 THEN <<t4, t2>> ELSE <<t3, t1>>]
BootAps == [c \in CPU |-> CASE c = 1 -> <<t1, t2>> [] c = 2 -> <<t3>> [] OTHER -> <<>>]
BootFour == [c \in CPU |-> CASE c = 1 -> <<t1, t2, t3>> [] c = 2 -> <<t4>> [] OTHER -> <<>>]

(* What the tasks do: use memory, call schedule() as test_task does, one of *)
(* them at a bad address; one that is killed and one that yields, beside one *)
(* that uses memory and one that computes.                                   *)
OnlyTouch == [t \in Task |-> <<"touch">>]
Yielders == [t \in Task |-> <<"yield">>]
OneBad == [t \in Task |-> IF t = t2 THEN <<"bad">> ELSE <<"touch">>]
Beside == [t \in Task |-> CASE t = t1 -> <<"bad">> [] t = t2 -> <<"yield">>
                             [] t = t3 -> <<"touch">> [] OTHER -> <<>>]
===============================================================================
