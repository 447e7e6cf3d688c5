----------------------------- MODULE BringupProofs -----------------------------
(***************************************************************************)
(* Proofs about the rest of Boot, for any machine: the init calls, which   *)
(* probe every function once, by a driver that knows it, after the scan    *)
(* has put it on the list; the lists of CPUs and memory that               *)
(* arch_numa_init makes of the firmware's tables; each processor's way to  *)
(* kernel code with interrupts on; the ranges that the scan reads out of   *)
(* the functions' registers; and the messages that a probed function may   *)
(* send.                                                                   *)
(***************************************************************************)
EXTENDS BootProofs, FiniteSetTheorems

--------------------------------------------------------------------------------
(* The steps that the proof follows: the init calls, in the order of their   *)
(* levels, and those that register and probe a function.  The other steps    *)
(* only stand before them.                                                   *)
Marks == {"numa", "hostbridge", "pci_scan", "driver", "device_init", "register", "probe"}
Rank(x) == CASE x[1] = "numa" -> 1 [] x[1] = "hostbridge" -> 2 [] x[1] = "pci_scan" -> 3
             [] x[1] = "driver" -> 4 [] OTHER -> 0
Scans(f) == {<<"device_init", f>>, <<"register", f>>}
Probes(f) == {"probe"} \X {f} \X Driver
Todo == Range(todo)
Once(s, S) == \A i, j \in DOMAIN s : s[i] \in S /\ s[j] \in S => i = j
Sorted == \A i, j \in DOMAIN todo : i < j => Rank(todo[i]) <= Rank(todo[j])

(* No init call is made twice; while the scan is still to come nothing has   *)
(* happened, while it goes on nothing is probed.                             *)
StageInv ==
    /\ Sorted
    /\ Once(todo, {<<"numa">>}) /\ Once(todo, {<<"hostbridge">>}) /\ Once(todo, {<<"pci_scan">>})
    /\ \A d \in Driver : Once(todo, {<<"driver", d>>})
    /\ <<"hostbridge">> \in Todo => <<"pci_scan">> \in Todo
    /\ <<"pci_scan">> \in Todo =>
          /\ pci_device_list = <<>> /\ \A f \in Fn : probed[f] = <<>>
          /\ \A d \in Driver : <<"driver", d>> \in Todo
          /\ \A f \in Fn : Todo \cap Scans(f) = {} /\ Todo \cap Probes(f) = {}

(* The functions of the buses that the bridge covers are on the list, or     *)
(* still to be set up for it, each once.                                     *)
Listing(f) ==
    /\ Once(todo, Scans(f))
    /\ Todo \cap Scans(f) # {} =>
          f \notin Range(pci_device_list) /\ \A d \in Driver : <<"driver", d>> \in Todo
    /\ (<<"pci_scan">> \notin Todo /\ Hw(f).bus <= end_bus_number) =>
          f \in Range(pci_device_list) \/ Todo \cap Scans(f) # {}
ListInv ==
    /\ \A j, k \in DOMAIN pci_device_list : pci_device_list[j] = pci_device_list[k] => j = k
    /\ \A f \in Fn : Listing(f)

(* A driver that has registered has probed or is about to probe every        *)
(* function it knows on the list.                                            *)
Probing(f) ==
    /\ Once(todo, Probes(f))
    /\ Todo \cap Probes(f) # {} => probed[f] = <<>>
    /\ \A d \in Driver : <<"probe", f, d>> \in Todo =>
          Knows(d, f) /\ f \in Range(pci_device_list) /\ <<"driver", d>> \notin Todo
    /\ probed[f] # <<>> =>
          \E d \in Driver : /\ probed[f] = <<d>> /\ Knows(d, f) /\ <<"driver", d>> \notin Todo
                            /\ f \in Range(pci_device_list)
    /\ \A d \in Driver : (/\ <<"driver", d>> \notin Todo
                          /\ Knows(d, f) /\ f \in Range(pci_device_list)) =>
          probed[f] # <<>> \/ <<"probe", f, d>> \in Todo
ProbeInv == DOMAIN probed = Fn /\ \A f \in Fn : Probing(f)
OnceInv == StageInv /\ ListInv /\ ProbeInv
-------------------------------------------------------------------------------
(* A sequence is its head and its tail.                                      *)
LEMMA HeadTail ==
    ASSUME NEW E, NEW s \in Seq(E), s # <<>>
    PROVE  /\ Tail(s) \in Seq(E) /\ DOMAIN s = 1 .. Len(s) /\ Len(s) \in Nat \ {0}
           /\ DOMAIN Tail(s) = 1 .. Len(s) - 1
           /\ \A k \in 1 .. Len(s) - 1 : Tail(s)[k] = s[k + 1]
           /\ Head(s) = s[1] /\ Head(s) \in E
           /\ Range(s) = {Head(s)} \cup Range(Tail(s))
<1>1. /\ Tail(s) \in Seq(E) /\ DOMAIN s = 1 .. Len(s) /\ Len(s) \in Nat \ {0}
      /\ DOMAIN Tail(s) = 1 .. Len(s) - 1
      /\ \A k \in 1 .. Len(s) - 1 : Tail(s)[k] = s[k + 1]
      /\ Head(s) = s[1] /\ Head(s) \in E
  OBVIOUS
<1> DEFINE t == Tail(s)
           n == Len(s)
<1>2. DOMAIN t = 1 .. n - 1 /\ \A k \in 1 .. n - 1 : t[k] = s[k + 1]
  BY <1>1
<1> HIDE DEF t, n
<1>3. n \in Nat \ {0} /\ DOMAIN s = 1 .. n
  BY <1>1 DEF n
<1>4. \A k \in 1 .. n : k = 1 \/ (k - 1 \in 1 .. n - 1 /\ (k - 1) + 1 = k)
  BY <1>3
<1>5. \A k \in 1 .. n - 1 : k + 1 \in 1 .. n
  BY <1>3
<1>6. 1 \in 1 .. n
  BY <1>3
<1>7. Range(s) \subseteq {s[1]} \cup Range(t)
  <2> SUFFICES ASSUME NEW k \in 1 .. n PROVE s[k] \in {s[1]} \cup Range(t)
    BY <1>3 DEF Range
  <2>1. CASE k = 1
    BY <2>1
  <2>2. CASE k # 1
    <3>1. k - 1 \in 1 .. n - 1 /\ (k - 1) + 1 = k
      BY <2>2, <1>4
    <3>2. t[k - 1] = s[k]
      BY <3>1, <1>2
    <3> QED BY <3>1, <3>2, <1>2 DEF Range
  <2> QED BY <2>1, <2>2
<1>8. {s[1]} \cup Range(t) \subseteq Range(s)
  BY <1>2, <1>3, <1>5, <1>6 DEF Range
<1> QED BY <1>1, <1>7, <1>8 DEF t

(* What happens once happens once in the rest.                               *)
LEMMA OnceTail ==
    ASSUME NEW E, NEW s \in Seq(E), s # <<>>, NEW S, Once(s, S)
    PROVE  Once(Tail(s), S) /\ (Head(s) \in S => Range(Tail(s)) \cap S = {})
<1> DEFINE t == Tail(s)
           n == Len(s)
<1>1. /\ DOMAIN s = 1 .. n /\ n \in Nat \ {0} /\ DOMAIN t = 1 .. n - 1
      /\ \A k \in 1 .. n - 1 : t[k] = s[k + 1]
      /\ Head(s) = s[1]
  BY HeadTail
<1> HIDE DEF t, n
<1>2. \A k \in 1 .. n - 1 : k + 1 \in 1 .. n /\ k + 1 # 1
  BY <1>1
<1>3. \A j, k \in 1 .. n - 1 : j + 1 = k + 1 => j = k
  BY <1>1
<1>4. Once(t, S)
  BY <1>1, <1>2, <1>3 DEF Once
<1>5. 1 \in 1 .. n
  BY <1>1
<1>6. ASSUME s[1] \in S, NEW k \in 1 .. n - 1, t[k] \in S PROVE FALSE
  BY <1>1, <1>2, <1>5, <1>6 DEF Once
<1>7. Head(s) \in S => Range(t) \cap S = {}
  BY <1>1, <1>6 DEF Range
<1> QED BY <1>4, <1>7 DEF t

(* Two sequences of which only one has it.                                   *)
LEMMA OnceConcat ==
    ASSUME NEW E, NEW s \in Seq(E), NEW t \in Seq(E), NEW S, Once(s, S), Once(t, S),
           Range(s) \cap S = {} \/ Range(t) \cap S = {}
    PROVE  Once(s \o t, S)
<1> DEFINE u == s \o t
           m == Len(s)
           n == Len(t)
<1>1. /\ m \in Nat /\ n \in Nat /\ DOMAIN s = 1 .. m /\ DOMAIN t = 1 .. n /\ DOMAIN u = 1 .. m + n
      /\ \A k \in 1 .. m : u[k] = s[k]
      /\ \A k \in 1 .. m + n : k > m => u[k] = t[k - m]
  <2>1. DOMAIN s = 1 .. m /\ DOMAIN t = 1 .. n /\ DOMAIN u = 1 .. m + n
    OBVIOUS
  <2> QED BY <2>1, ConcatFacts
<1> HIDE DEF u, m, n
<1>2. ASSUME NEW i \in 1 .. m + n, NEW j \in 1 .. m + n, u[i] \in S, u[j] \in S
      PROVE  i = j
  <2>1. ASSUME NEW k \in 1 .. m + n, u[k] \in S
        PROVE  \/ k <= m /\ k \in 1 .. m /\ s[k] \in S /\ Range(s) \cap S # {}
               \/ k > m /\ k - m \in 1 .. n /\ t[k - m] \in S /\ Range(t) \cap S # {}
    <3>1. CASE k <= m
      BY <3>1, <2>1, <1>1 DEF Range
    <3>2. CASE k > m
      <4>1. k - m \in 1 .. n /\ u[k] = t[k - m]
        BY <3>2, <1>1
      <4> QED BY <4>1, <3>2, <2>1, <1>1 DEF Range
    <3> QED BY <3>1, <3>2, <1>1
  <2>2. CASE i <= m /\ j <= m
    <3>1. i \in 1 .. m /\ j \in 1 .. m /\ s[i] \in S /\ s[j] \in S
      BY <2>2, <1>1, <1>2
    <3> QED BY <3>1, <1>1 DEF Once
  <2>3. CASE i > m /\ j > m
    <3>1. i - m \in 1 .. n /\ j - m \in 1 .. n /\ t[i - m] \in S /\ t[j - m] \in S
      BY <2>3, <1>1, <1>2
    <3>2. i - m = j - m
      BY <3>1, <1>1 DEF Once
    <3> QED BY <3>2, <1>1
  <2> QED BY <1>2, <2>1, <2>2, <2>3, <1>1
<1> QED BY <1>1, <1>2 DEF Once, u

(* A concatenation, if at most one of its sequences has it.                  *)
LEMMA OnceFlatten ==
    ASSUME NEW E, NEW ss \in Seq(Seq(E)), NEW S, \A j \in 1 .. Len(ss) : Once(ss[j], S),
           \A j, k \in 1 .. Len(ss) : Range(ss[j]) \cap S # {} /\ Range(ss[k]) \cap S # {} => j = k
    PROVE  Once(FlattenSeq(ss), S)
<1>1. PICK F \in [0 .. Len(ss) -> Seq(E)] : Partial(F, ss)
  BY FlattenPartial
<1>2. Len(ss) \in Nat /\ \A i \in 1 .. Len(ss) : ss[i] \in Seq(E)
  OBVIOUS
<1> DEFINE P(n) == /\ Once(F[n], S)
                   /\ Range(F[n]) \cap S # {} => \E j \in 1 .. n : Range(ss[j]) \cap S # {}
           T == {n \in 0 .. Len(ss) : P(n)}
<1>3. 0 \in T
  BY <1>1, <1>2 DEF Partial, Range, Once
<1>4. ASSUME NEW n \in 0 .. Len(ss) - 1, n \in T
      PROVE  n + 1 \in T
  <2>1. /\ n \in 0 .. Len(ss) /\ n + 1 \in 0 .. Len(ss) /\ n + 1 \in 1 .. Len(ss)
        /\ n + 1 # 0 /\ (n + 1) - 1 = n
    BY <1>2
  <2>2. F[n] \in Seq(E) /\ ss[n + 1] \in Seq(E)
    BY <2>1, <1>2, Zenon
  <2>3. F[n + 1] = F[n] \o ss[n + 1]
    <3>1. F[n + 1] = F[(n + 1) - 1] \o ss[n + 1]
      BY <1>1, <2>1, Zenon DEF Partial
    <3> QED BY <3>1, <2>1
  <2>4. Range(F[n + 1]) = Range(F[n]) \cup Range(ss[n + 1])
    BY <2>2, <2>3, RangeConcat
  <2>5. P(n)
    BY <1>4
  <2>6. \A j \in 1 .. n : j \in 1 .. n + 1 /\ j \in 1 .. Len(ss) /\ j # n + 1
    BY <1>2
  <2>7. n + 1 \in 1 .. n + 1
    BY <1>2
  <2>8. Range(F[n]) \cap S = {} \/ Range(ss[n + 1]) \cap S = {}
    BY <2>1, <2>5, <2>6, Zenon
  <2>9. Once(F[n], S) /\ Once(ss[n + 1], S)
    BY <2>5, <2>1
  <2>10. Once(F[n + 1], S)
    BY <2>2, <2>3, <2>8, <2>9, OnceConcat
  <2>11. P(n + 1)
    BY <2>4, <2>5, <2>6, <2>7, <2>10, Zenon
  <2> HIDE DEF P
  <2> QED BY <2>11, <2>1
<1>5. Len(ss) \in T
  <2> HIDE DEF T
  <2>1. \A n \in 0 .. Len(ss) : n \in T
    BY <1>2, <1>3, <1>4, UpTo
  <2> QED BY <2>1, <1>2
<1> QED BY <1>1, <1>5, Zenon DEF Partial
-------------------------------------------------------------------------------
(* A step replaces the head of todo by ops.                                  *)
LEMMA OpMarks ==
    ASSUME NEW x \in Op
    PROVE  /\ x[1] = "numa" => x = <<"numa">>
           /\ x[1] = "hostbridge" => x = <<"hostbridge">>
           /\ x[1] = "pci_scan" => x = <<"pci_scan">>
           /\ x[1] = "driver" => x[2] \in Driver /\ x = <<"driver", x[2]>>
           /\ x[1] = "device_init" => x[2] \in Fn /\ x = <<"device_init", x[2]>>
           /\ x[1] = "register" => x[2] \in Fn /\ x = <<"register", x[2]>>
           /\ x[1] = "probe" => x[2] \in Fn /\ x[3] \in Driver /\ x = <<"probe", x[2], x[3]>>
<1>1. CASE x \in {<<"numa">>, <<"hostbridge">>, <<"pci_scan">>}
  BY <1>1
<1>2. CASE x \in {"driver"} \X Driver
  BY <1>2
<1>3. CASE x \in One \X Fn
  BY <1>3 DEF One
<1>4. CASE x \in Two \X Fn \X Arg
  BY <1>4 DEF Two
<1>5. CASE x \in Reg \X Fn \X Int
  BY <1>5 DEF Reg
<1>6. CASE x \in {"probe"} \X Fn \X Driver
  BY <1>6
<1> QED BY <1>1, <1>2, <1>3, <1>4, <1>5, <1>6 DEF Op

(* The init calls that the proof follows have levels, other steps none.      *)
LEMMA RankFacts ==
    /\ \A x : Rank(x) \in 0 .. 4 /\ (x[1] \notin {"numa", "hostbridge", "pci_scan", "driver"} <=> Rank(x) = 0)
    /\ Rank(<<"numa">>) = 1 /\ Rank(<<"hostbridge">>) = 2 /\ Rank(<<"pci_scan">>) = 3
    /\ \A d : Rank(<<"driver", d>>) = 4
BY DEF Rank

(* The steps that remain: those of ops and those that came after the head.   *)
LEMMA Replace ==
    ASSUME TypeInv, todo # <<>>, NEW ops \in Seq(Op), Then(ops)
    PROVE  /\ Todo = {Head(todo)} \cup Range(Tail(todo))
           /\ Todo' = Range(ops) \cup Range(Tail(todo))
           /\ Head(todo) \in Op /\ Tail(todo) \in Seq(Op)
           /\ \A x \in Todo : x \in Op
<1>1. todo \in Seq(Op)
  BY DEF TypeInv, TodoInv
<1>2. /\ Tail(todo) \in Seq(Op) /\ Head(todo) \in Op
      /\ Range(todo) = {Head(todo)} \cup Range(Tail(todo))
  <2> HIDE DEF Op
  <2> QED BY <1>1, HeadTail
<1>3. Range(ops \o Tail(todo)) = Range(ops) \cup Range(Tail(todo))
  <2>1. PICK t \in Seq(Op) : t = Tail(todo)
    BY <1>2
  <2>2. Range(ops \o t) = Range(ops) \cup Range(t)
    BY RangeConcat
  <2> QED BY <2>1, <2>2
<1>4. \A x \in Todo : x \in Op
  <2> HIDE DEF Op
  <2> QED BY <1>1 DEF Todo, Range
<1> QED BY <1>2, <1>3, <1>4 DEF Todo, Then

(* The init calls stay in the order of their levels.                         *)
LEMMA SortedStep ==
    ASSUME TypeInv, Sorted, todo # <<>>, NEW ops \in Seq(Op), Then(ops), \A x \in Range(ops) : Rank(x) = 0
    PROVE  /\ Sorted'
           /\ \A x \in Range(Tail(todo)) : Rank(Head(todo)) <= Rank(x)
<1> DEFINE n == Len(todo)
           t == Tail(todo)
<1>1. /\ t \in Seq(Op) /\ DOMAIN todo = 1 .. n /\ n \in Nat \ {0} /\ DOMAIN t = 1 .. n - 1
      /\ \A k \in 1 .. n - 1 : t[k] = todo[k + 1]
      /\ Head(todo) = todo[1] /\ Len(t) = n - 1
  <2>1. todo \in Seq(Op)
    BY DEF TypeInv, TodoInv
  <2> HIDE DEF Op
  <2>2. Len(t) = n - 1
    BY <2>1
  <2> QED BY <2>1, <2>2, HeadTail
<1> HIDE DEF t, n
<1>2. \A i, j \in 1 .. n - 1 : i < j => Rank(t[i]) <= Rank(t[j])
  <2> TAKE i, j \in 1 .. n - 1
  <2>1. t[i] = todo[i + 1] /\ t[j] = todo[j + 1] /\ i + 1 \in 1 .. n /\ j + 1 \in 1 .. n
        /\ (i < j => i + 1 < j + 1)
    BY <1>1
  <2> QED BY <2>1, <1>1 DEF Sorted
<1>3. \A x \in Range(t) : Rank(Head(todo)) <= Rank(x)
  <2> SUFFICES ASSUME NEW k \in 1 .. n - 1 PROVE Rank(todo[1]) <= Rank(t[k])
    BY <1>1 DEF Range
  <2>1. t[k] = todo[k + 1] /\ 1 < k + 1 /\ 1 \in 1 .. n /\ k + 1 \in 1 .. n
    BY <1>1
  <2> QED BY <2>1, <1>1 DEF Sorted
<1> DEFINE u == ops \o t
           m == Len(ops)
<1>4. /\ m \in Nat /\ DOMAIN u = 1 .. m + (n - 1) /\ DOMAIN ops = 1 .. m
      /\ \A k \in 1 .. m : u[k] = ops[k]
      /\ \A k \in 1 .. m + (n - 1) : k > m => u[k] = t[k - m]
  <2> HIDE DEF Op
  <2>1. DOMAIN ops = 1 .. m /\ DOMAIN u = 1 .. m + Len(t)
    BY <1>1
  <2> QED BY <2>1, <1>1, ConcatFacts
<1> HIDE DEF u, m
<1>5. \A k \in 1 .. m : Rank(u[k]) = 0
  BY <1>4 DEF Range
<1>6. ASSUME NEW i \in 1 .. m + (n - 1), NEW j \in 1 .. m + (n - 1), i < j
      PROVE  Rank(u[i]) <= Rank(u[j])
  <2>1. CASE i <= m
    <3>1. i \in 1 .. m /\ Rank(u[i]) = 0
      BY <2>1, <1>4, <1>5
    <3> QED BY <3>1, RankFacts
  <2>2. CASE i > m
    <3>1. u[i] = t[i - m] /\ u[j] = t[j - m] /\ i - m \in 1 .. n - 1 /\ j - m \in 1 .. n - 1 /\ i - m < j - m
      BY <2>2, <1>6, <1>4, <1>1
    <3> QED BY <3>1, <1>2
  <2> QED BY <2>1, <2>2, <1>4
<1>7. Sorted'
  <2>1. todo' = u
    BY DEF Then, u, t
  <2>2. \A x : Rank(x)' = Rank(x)
    BY DEF Rank
  <2> QED BY <2>1, <2>2, <1>4, <1>6 DEF Sorted
<1> QED BY <1>3, <1>7 DEF t

(* What was on todo at most once still is.                                   *)
LEMMA OnceStep ==
    ASSUME TypeInv, todo # <<>>, NEW ops \in Seq(Op), Then(ops), NEW S, Once(todo, S), Once(ops, S),
           Range(ops) \cap S = {} \/ Range(Tail(todo)) \cap S = {}
    PROVE  Once(todo', S)
<1>1. todo \in Seq(Op)
  BY DEF TypeInv, TodoInv
<1>2. Once(Tail(todo), S) /\ Tail(todo) \in Seq(Op)
  <2> HIDE DEF Op
  <2> QED BY <1>1, OnceTail, HeadTail
<1>3. Once(ops \o Tail(todo), S)
  <2> HIDE DEF Op
  <2> QED BY <1>2, OnceConcat
<1> QED BY <1>3 DEF Then

(* The step taken was the only one of its kind.                              *)
LEMMA OnceHead ==
    ASSUME TypeInv, todo # <<>>, NEW S, Once(todo, S), Head(todo) \in S
    PROVE  Range(Tail(todo)) \cap S = {}
<1>1. todo \in Seq(Op)
  BY DEF TypeInv, TodoInv
<1> HIDE DEF Op
<1> QED BY <1>1, OnceTail

(* What does not occur does not occur twice.                                 *)
LEMMA OnceNone ==
    ASSUME NEW s, NEW S, Range(s) \cap S = {}
    PROVE  Once(s, S)
BY DEF Once, Range
-------------------------------------------------------------------------------
(* Sequences of steps that the proof does not follow.                        *)
Quiet(ops) == ops \in Seq(Op) /\ \A x \in Range(ops) : x[1] \notin Marks

(* One after the other.                                                      *)
LEMMA QuietJoin ==
    ASSUME NEW s, NEW t, Quiet(s), Quiet(t)
    PROVE  Quiet(s \o t)
<1>1. s \in Seq(Op) /\ t \in Seq(Op)
  BY DEF Quiet
<1> HIDE DEF Op
<1>2. s \o t \in Seq(Op)
  BY <1>1
<1>3. Range(s \o t) = Range(s) \cup Range(t)
  BY <1>1, RangeConcat
<1> QED BY <1>2, <1>3 DEF Quiet

(* Nor has a calm one steps of the scan's.                                   *)
BarOps == {"bar", "bar_end"}
Calm(ops) == ops \in Seq(Op) /\ \A x \in Range(ops) : x[1] \notin Marks \cup BarOps

(* It is quiet.                                                              *)
LEMMA CalmQuiet ==
    ASSUME NEW ops, Calm(ops)
    PROVE  Quiet(ops)
BY DEF Calm, Quiet

(* One after the other.                                                      *)
LEMMA CalmJoin ==
    ASSUME NEW s, NEW t, Calm(s), Calm(t)
    PROVE  Calm(s \o t)
<1>1. Quiet(s \o t)
  BY QuietJoin, CalmQuiet
<1>2. Range(s \o t) = Range(s) \cup Range(t)
  <2>1. s \in Seq(Op) /\ t \in Seq(Op)
    BY DEF Calm
  <2> HIDE DEF Op
  <2> QED BY <2>1, RangeConcat
<1> QED BY <1>1, <1>2 DEF Calm, Quiet

(* Sizing a register.                                                        *)
LEMMA CalmSize ==
    ASSUME NEW f \in Fn, NEW i \in Int
    PROVE  Calm(pci_get_bar_size(f, i)) /\ Quiet(pci_get_bar_size(f, i) \o <<<<"bar_end", f, i>>>>)
<1> DEFINE s == <<<<"command_off", f>>, <<"ones", f, i>>, <<"back_lo", f, i>>, <<"command_back", f>>>>
           t == <<<<"command_off", f>>, <<"ones", f, i>>, <<"back_lo", f, i>>,
                  <<"ones", f, i + 1>>, <<"back_hi", f, i + 1>>, <<"command_back", f>>>>
           u == <<<<"bar_end", f, i>>>>
<1>1. pci_get_bar_size(f, i) \in {s, t}
  <2>1. CASE bit(read_config(f, i), 2) = 1
    BY <2>1, Tuples6 DEF pci_get_bar_size
  <2>2. CASE bit(read_config(f, i), 2) # 1
    BY <2>2, Tuples4 DEF pci_get_bar_size
  <2> QED BY <2>1, <2>2
<1>2. \A x \in Range(s) : x[1] \in {"command_off", "ones", "back_lo", "command_back"}
  BY DEF Range
<1>3. \A x \in Range(t) : x[1] \in {"command_off", "ones", "back_lo", "back_hi", "command_back"}
  BY DEF Range
<1>4. \A x \in Range(u) : x[1] = "bar_end"
  BY DEF Range
<1>5. u \in Seq(Op)
  <2>1. <<"bar_end", f, i>> \in Op
    BY OpFacts DEF Reg
  <2> QED BY <2>1
<1> HIDE DEF s, t, u
<1>6. Quiet(u)
  BY <1>4, <1>5 DEF Quiet, Marks
<1>7. \A x \in Range(pci_get_bar_size(f, i)) : x[1] \notin Marks \cup BarOps
  BY <1>1, <1>2, <1>3 DEF Marks, BarOps
<1>8. Calm(pci_get_bar_size(f, i))
  BY <1>7, SizeWhole DEF Calm, Whole
<1> QED BY <1>6, <1>8, QuietJoin, CalmQuiet DEF u

(* Setting up messages.                                                      *)
LEMMA CalmMessages ==
    ASSUME NEW f \in Fn, NEW n \in Int, NEW a \in Arg
    PROVE  /\ Calm(IF n < 0 THEN <<<<"msi", f>>>>
                    ELSE <<<<"msix_ctrl", f, FALSE>>>> \o [k \in 1 .. n |-> <<"msix_entry", f, k - 1>>]
                         \o <<<<"msix_ctrl", f, TRUE>>>>)
           /\ Calm(<<<<"msi_ctrl", f, FALSE>>, <<"msi_entry", f, a>>,
                      <<"msi_multiple", f, a>>, <<"msi_ctrl", f, TRUE>>>>)
           /\ Calm(<<>>)
<1> DEFINE p == <<<<"msi", f>>>>
           q == <<<<"msix_ctrl", f, FALSE>>>>
           r == [k \in 1 .. n |-> <<"msix_entry", f, k - 1>>]
           s == <<<<"msix_ctrl", f, TRUE>>>>
           t == <<<<"msi_ctrl", f, FALSE>>, <<"msi_entry", f, a>>,
                  <<"msi_multiple", f, a>>, <<"msi_ctrl", f, TRUE>>>>
<1>1. /\ \A x \in Range(p) : x[1] = "msi"
      /\ \A x \in Range(q) : x[1] = "msix_ctrl"
      /\ \A x \in Range(r) : x[1] = "msix_entry"
      /\ \A x \in Range(s) : x[1] = "msix_ctrl"
      /\ \A x \in Range(t) : x[1] \in {"msi_ctrl", "msi_entry", "msi_multiple"}
  BY DEF Range
<1>2. t \in Seq(Op)
  BY MsiWhole DEF Whole
<1>3. <<"msi", f>> \in Op /\ <<"msix_ctrl", f, FALSE>> \in Op /\ <<"msix_ctrl", f, TRUE>> \in Op
  BY OpFacts, ArgFacts DEF One, Two
<1>4. p \in Seq(Op) /\ q \in Seq(Op) /\ s \in Seq(Op)
  BY <1>3
<1>5. n >= 0 => r \in Seq(Op)
  <2>1. \A k \in 1 .. n : <<"msix_entry", f, k - 1>> \in Op
    BY OpFacts, ArgFacts DEF Two
  <2> HIDE DEF Op
  <2> QED BY <2>1
<1> HIDE DEF p, q, r, s, t
<1>6. Calm(p) /\ Calm(q) /\ Calm(s) /\ Calm(t) /\ (n >= 0 => Calm(r))
  BY <1>1, <1>2, <1>4, <1>5 DEF Calm, Marks, BarOps
<1>7. n >= 0 => Calm(q \o r \o s)
  BY <1>6, CalmJoin
<1>8. Calm(<<>>)
  BY EmptyWhole DEF Calm, Whole, Range
<1>9. Calm(IF n < 0 THEN p ELSE q \o r \o s)
  BY <1>6, <1>7
<1> QED BY <1>6, <1>8, <1>9 DEF p, q, r, s, t

(* A probe.                                                                  *)
LEMMA CalmProbe ==
    ASSUME NEW f \in Fn, NEW d \in Driver
    PROVE  Calm(Probe(d, f))
<1> DEFINE a == <<<<"enable", f>>, <<"master", f>>>>
           b == <<<<"msix", f>>>>
           c == <<<<"msi", f>>>>
           e == <<<<"enable", f>>, <<"reset", f>>, <<"master", f>>, <<"msix", f>>,
                  <<"rx_init", f>>, <<"tx_init", f>>, <<"unmask", f>>, <<"fill", f>>>>
<1>1. d \in {"xhci", "nvidia", "x550"}
  BY DEF Driver, ids
<1>2. /\ <<"enable", f>> \in Op /\ <<"master", f>> \in Op /\ <<"msix", f>> \in Op /\ <<"msi", f>> \in Op
      /\ <<"reset", f>> \in Op /\ <<"rx_init", f>> \in Op /\ <<"tx_init", f>> \in Op
      /\ <<"unmask", f>> \in Op /\ <<"fill", f>> \in Op
  BY OpFacts DEF One
<1>3. a \in Seq(Op) /\ b \in Seq(Op) /\ c \in Seq(Op) /\ e \in Seq(Op)
  BY <1>2
<1>4. /\ \A x \in Range(a) : x[1] \in {"enable", "master"}
      /\ \A x \in Range(b) : x[1] = "msix"
      /\ \A x \in Range(c) : x[1] = "msi"
      /\ \A x \in Range(e) : x[1] \in {"enable", "reset", "master", "msix", "rx_init", "tx_init",
                                       "unmask", "fill"}
  BY DEF Range
<1>5. Calm(pci_get_bar_size(f, 0)) /\ Calm(pci_get_bar_size(f, 1)) /\ Calm(pci_get_bar_size(f, 3))
  <2>1. 0 \in Int /\ 1 \in Int /\ 3 \in Int
    OBVIOUS
  <2> QED BY <2>1, CalmSize, Zenon
<1>6. CASE d = "xhci"
  <2>1. Probe(d, f) = a \o pci_get_bar_size(f, 0) \o pci_get_bar_size(f, 0) \o b
    BY <1>6 DEF Probe
  <2> HIDE DEF a, b, c, e
  <2>2. Calm(a) /\ Calm(b)
    BY <1>3, <1>4 DEF Calm, Marks, BarOps
  <2> QED BY <2>1, <2>2, <1>5, CalmJoin, Zenon
<1>7. CASE d = "nvidia"
  <2>1. Probe(d, f) = a \o pci_get_bar_size(f, 0) \o c \o pci_get_bar_size(f, 1) \o pci_get_bar_size(f, 3)
    BY <1>7 DEF Probe
  <2> HIDE DEF a, b, c, e
  <2>2. Calm(a) /\ Calm(c)
    BY <1>3, <1>4 DEF Calm, Marks, BarOps
  <2>4. Calm(a \o pci_get_bar_size(f, 0) \o c)
    BY <2>2, <1>5, CalmJoin, Zenon
  <2> QED BY <2>1, <1>5, <2>4, CalmJoin, Zenon
<1>8. CASE d = "x550"
  <2>1. Probe(d, f) = pci_get_bar_size(f, 0) \o e
    BY <1>8 DEF Probe
  <2> HIDE DEF a, b, c, e
  <2>2. Calm(e)
    BY <1>3, <1>4 DEF Calm, Marks, BarOps
  <2> QED BY <2>1, <2>2, <1>5, CalmJoin, Zenon
<1> QED BY <1>1, <1>6, <1>7, <1>8

(* Resetting the card, and transmitting.                                     *)
LEMMA CalmCard ==
    ASSUME NEW f \in Fn
    PROVE  /\ Calm(<<<<"reset_wait", f>>, <<"eec_wait", f>>, <<"dma_wait", f>>>>)
           /\ Calm(<<<<"advance", f>>, <<"ring", f>>, <<"fill", f>>>>)
<1> DEFINE s == <<<<"reset_wait", f>>, <<"eec_wait", f>>, <<"dma_wait", f>>>>
           t == <<<<"advance", f>>, <<"ring", f>>, <<"fill", f>>>>
<1>1. <<"advance", f>> \in Op /\ <<"ring", f>> \in Op /\ <<"fill", f>> \in Op
  BY OpFacts DEF One
<1>2. t \in Seq(Op)
  BY <1>1
<1>3. s \in Seq(Op)
  BY ResetWhole DEF Whole
<1>4. /\ \A x \in Range(s) : x[1] \in {"reset_wait", "eec_wait", "dma_wait"}
      /\ \A x \in Range(t) : x[1] \in {"advance", "ring", "fill"}
  BY DEF Range
<1> HIDE DEF s, t
<1>5. Calm(s) /\ Calm(t)
  BY <1>2, <1>3, <1>4 DEF Calm, Marks, BarOps
<1> QED BY <1>5 DEF s, t
-------------------------------------------------------------------------------
(* The steps that are followed, by what the invariant says of them.          *)
LEMMA MarkFacts ==
    /\ <<"numa">>[1] \in Marks /\ <<"hostbridge">>[1] \in Marks /\ <<"pci_scan">>[1] \in Marks
    /\ \A d : <<"driver", d>>[1] \in Marks
    /\ \A f, d : <<"probe", f, d>>[1] \in Marks
    /\ \A f : <<"device_init", f>> \in Scans(f) /\ <<"register", f>> \in Scans(f)
    /\ \A f : \A x \in Scans(f) : x[1] \in {"device_init", "register"} /\ x[1] \in Marks
    /\ \A f : \A x \in Probes(f) : x[1] = "probe" /\ x[1] \in Marks
    /\ \A f : \A d \in Driver : <<"probe", f, d>> \in Probes(f)
BY DEF Marks, Scans, Probes

(* A step that puts only steps without a level before the rest: what happens *)
(* to the steps of a set S, on todo at most once.                            *)
LEMMA OnceKept ==
    ASSUME TypeInv, todo # <<>>, NEW ops \in Seq(Op), Then(ops), NEW S, Once(todo, S),
           Range(ops) \cap S = {}
    PROVE  Once(todo', S)
<1>1. Once(ops, S)
  BY OnceNone
<1> QED BY <1>1, OnceStep

(* The constants of the invariant.                                           *)
LEMMA SameMachine ==
    ASSUME machine' = machine
    PROVE  /\ Fn' = Fn
           /\ \A f : Hw(f)' = Hw(f)
           /\ \A d, f : Knows(d, f)' = Knows(d, f)
BY DEF Fn, Hw, Knows

(* A step that is not followed, and does nothing but step.                   *)
LEMMA QuietOnce ==
    ASSUME TypeInv, OnceInv, todo # <<>>, NEW ops, Quiet(ops), Then(ops), Head(todo)[1] \notin Marks,
           machine' = machine, pci_device_list' = pci_device_list, probed' = probed,
           end_bus_number' = end_bus_number
    PROVE  OnceInv'
<1>1. ops \in Seq(Op) /\ \A x \in Range(ops) : x[1] \notin Marks
  BY DEF Quiet
<1> HIDE DEF Op
<1>2. \A x : x[1] \in Marks => (x \in Todo' <=> x \in Todo)
  BY <1>1, Replace, Zenon
<1>3. \A S : (\A x \in S : x[1] \in Marks) /\ Once(todo, S) => Once(todo', S)
  <2> SUFFICES ASSUME NEW S, \A x \in S : x[1] \in Marks, Once(todo, S)
               PROVE  Once(todo', S)
    OBVIOUS
  <2>1. Range(ops) \cap S = {}
    BY <1>1
  <2> QED BY <1>1, <2>1, OnceKept
<1>4. Sorted'
  <2>1. \A x \in Range(ops) : Rank(x) = 0
    BY <1>1, RankFacts DEF Marks
  <2> QED BY <1>1, <2>1, SortedStep DEF OnceInv, StageInv
<1>5. /\ Once(todo', {<<"numa">>}) /\ Once(todo', {<<"hostbridge">>}) /\ Once(todo', {<<"pci_scan">>})
      /\ \A d \in Driver : Once(todo', {<<"driver", d>>})
      /\ \A f \in Fn : Once(todo', Scans(f)) /\ Once(todo', Probes(f))
  BY <1>3, MarkFacts DEF OnceInv, StageInv, ListInv, ProbeInv, Listing, Probing
<1>6. /\ <<"hostbridge">> \in Todo' <=> <<"hostbridge">> \in Todo
      /\ <<"pci_scan">> \in Todo' <=> <<"pci_scan">> \in Todo
      /\ \A d : <<"driver", d>> \in Todo' <=> <<"driver", d>> \in Todo
      /\ \A f, d : <<"probe", f, d>> \in Todo' <=> <<"probe", f, d>> \in Todo
      /\ \A f : Todo' \cap Scans(f) = Todo \cap Scans(f)
      /\ \A f : Todo' \cap Probes(f) = Todo \cap Probes(f)
  BY <1>2, MarkFacts
<1>7. StageInv'
  BY <1>4, <1>5, <1>6, SameMachine DEF OnceInv, StageInv
<1>8. ListInv'
  <2>1. ASSUME NEW f \in Fn PROVE Listing(f)'
    <3>1. Listing(f)
      BY DEF OnceInv, ListInv
    <3> QED BY <3>1, <1>5, <1>6, SameMachine DEF Listing
  <2> QED BY <2>1, SameMachine DEF OnceInv, ListInv
<1>9. ProbeInv'
  <2>1. ASSUME NEW f \in Fn PROVE Probing(f)'
    <3>1. Probing(f)
      BY DEF OnceInv, ProbeInv
    <3> QED BY <3>1, <1>5, <1>6, SameMachine DEF Probing
  <2> QED BY <2>1, SameMachine DEF OnceInv, ProbeInv
<1> QED BY <1>7, <1>8, <1>9 DEF OnceInv

(* The first two init calls.  The scan is still to come.                     *)
LEMMA EarlyOnce ==
    ASSUME TypeInv, OnceInv, todo # <<>>, Then(<<>>), machine' = machine,
           pci_device_list' = pci_device_list, probed' = probed,
           \/ Head(todo) = <<"numa">> /\ end_bus_number' = end_bus_number
           \/ Head(todo) = <<"hostbridge">>
    PROVE  OnceInv'
<1>1. <<>> \in Seq(Op) /\ Range(<<>>) = {}
  BY DEF Range
<1> HIDE DEF Op
<1>2. Todo = {Head(todo)} \cup Range(Tail(todo)) /\ Todo' = Range(Tail(todo))
  BY <1>1, Replace
<1>3. \A S : Once(todo, S) => Once(todo', S)
  BY <1>1, OnceKept
<1>4. Sorted'
  BY <1>1, SortedStep DEF OnceInv, StageInv
<1>5. /\ Once(todo', {<<"numa">>}) /\ Once(todo', {<<"hostbridge">>}) /\ Once(todo', {<<"pci_scan">>})
      /\ \A d \in Driver : Once(todo', {<<"driver", d>>})
      /\ \A f \in Fn : Once(todo', Scans(f)) /\ Once(todo', Probes(f))
  BY <1>3 DEF OnceInv, StageInv, ListInv, ProbeInv, Listing, Probing
<1>6. Head(todo)[1] \in {"numa", "hostbridge"}
  OBVIOUS
<1>7. /\ <<"pci_scan">> \in Todo' <=> <<"pci_scan">> \in Todo
      /\ \A d : <<"driver", d>> \in Todo' <=> <<"driver", d>> \in Todo
      /\ \A f, d : <<"probe", f, d>> \in Todo' <=> <<"probe", f, d>> \in Todo
      /\ \A f : Todo' \cap Scans(f) = Todo \cap Scans(f)
      /\ \A f : Todo' \cap Probes(f) = Todo \cap Probes(f)
      /\ <<"hostbridge">> \in Todo' => <<"hostbridge">> \in Todo
  BY <1>2, <1>6, MarkFacts
<1>8. StageInv'
  BY <1>4, <1>5, <1>7, SameMachine DEF OnceInv, StageInv
<1>9. end_bus_number' = end_bus_number \/ <<"pci_scan">> \in Todo
  BY <1>2 DEF OnceInv, StageInv
<1>10. ListInv'
  <2>1. ASSUME NEW f \in Fn PROVE Listing(f)'
    <3>1. Listing(f)
      BY DEF OnceInv, ListInv
    <3> QED BY <3>1, <1>5, <1>7, <1>9, SameMachine DEF Listing
  <2> QED BY <2>1, SameMachine DEF OnceInv, ListInv
<1>11. ProbeInv'
  <2>1. ASSUME NEW f \in Fn PROVE Probing(f)'
    <3>1. Probing(f)
      BY DEF OnceInv, ProbeInv
    <3> QED BY <3>1, <1>5, <1>7, SameMachine DEF Probing
  <2> QED BY <2>1, SameMachine DEF OnceInv, ProbeInv
<1> QED BY <1>8, <1>10, <1>11 DEF OnceInv

(* pci_scan puts a device_init for each function of the bridge's buses.      *)
LEMMA ScanOnce ==
    ASSUME TypeInv, OnceInv, pci_scan
    PROVE  OnceInv'
<1>1. PICK n \in Nat : Fn = 1 .. n
  BY FnFacts DEF TypeInv
<1> DEFINE ss == [f \in 1 .. n |-> IF Hw(f).bus <= end_bus_number THEN <<<<"device_init", f>>>> ELSE <<>>]
           s == FlattenSeq(ss)
<1>2. /\ todo # <<>> /\ Head(todo)[1] = "pci_scan" /\ Then(s) /\ machine' = machine
      /\ pci_device_list' = <<>> /\ probed' = probed /\ end_bus_number' = end_bus_number
  BY <1>1 DEF pci_scan, At
<1>3. /\ s \in Seq(Op)
      /\ \A x : x \in Range(s) <=> \E f \in 1 .. n : Hw(f).bus <= end_bus_number /\ x = <<"device_init", f>>
  BY <1>1, ScanWhole DEF Whole
<1>4. ss \in Seq(Seq(Op)) /\ Len(ss) = n
  <2>1. \A f \in 1 .. n : <<"device_init", f>> \in Op
    BY <1>1, OpFacts DEF One
  <2> HIDE DEF Op
  <2>2. \A f \in 1 .. n : ss[f] \in Seq(Op)
    <3> TAKE f \in 1 .. n
    <3>1. <<<<"device_init", f>>>> \in Seq(Op) /\ <<>> \in Seq(Op)
      BY <2>1
    <3> QED BY <3>1
  <2> QED BY <2>2
<1>5. \A f \in Fn : Once(s, Scans(f))
  <2> TAKE f \in Fn
  <2>1. \A j \in 1 .. n : Once(ss[j], Scans(f))
    BY DEF Once
  <2>2. \A j \in 1 .. n : Range(ss[j]) \cap Scans(f) # {} => j = f
    BY DEF Range, Scans
  <2> HIDE DEF ss, Op
  <2> QED BY <1>4, <2>1, <2>2, OnceFlatten
<1>6. PICK ops \in Seq(Op) : ops = s
  BY <1>3
<1>7. /\ Then(ops)
      /\ \A x : x \in Range(ops) <=> \E f \in Fn : Hw(f).bus <= end_bus_number /\ x = <<"device_init", f>>
      /\ \A f \in Fn : Once(ops, Scans(f))
  BY <1>1, <1>2, <1>3, <1>5, <1>6
<1> HIDE DEF Op, s, ss
<1>8. /\ Todo = {Head(todo)} \cup Range(Tail(todo)) /\ Todo' = Range(ops) \cup Range(Tail(todo))
      /\ Head(todo) \in Op
  BY <1>2, <1>7, Replace
<1>9. Head(todo) = <<"pci_scan">>
  BY <1>2, <1>8, OpMarks
<1>10. \A x \in Range(ops) : x[1] = "device_init"
  BY <1>7
<1>11. /\ Sorted' /\ \A x \in Range(Tail(todo)) : 3 <= Rank(x)
  <2>1. \A x \in Range(ops) : Rank(x) = 0
    BY <1>10, RankFacts
  <2> QED BY <1>2, <1>7, <1>9, <2>1, SortedStep, RankFacts DEF OnceInv, StageInv
<1>12. <<"pci_scan">> \in Todo /\ <<"pci_scan">> \notin Range(Tail(todo))
  BY <1>2, <1>8, <1>9, OnceHead DEF OnceInv, StageInv
<1>13. /\ <<"pci_scan">> \notin Todo' /\ <<"hostbridge">> \notin Todo'
       /\ \A d \in Driver : <<"driver", d>> \in Todo'
       /\ \A f \in Fn : Range(Tail(todo)) \cap Scans(f) = {} /\ Todo' \cap Probes(f) = {}
       /\ \A f \in Fn : \A d : <<"probe", f, d>> \notin Todo'
       /\ \A f \in Fn : probed[f] = <<>>
  <2>1. <<"hostbridge">> \notin Range(Tail(todo))
    BY <1>11, RankFacts
  <2>2. ASSUME NEW f \in Fn, NEW x \in Range(Tail(todo)) PROVE x \notin Scans(f) /\ x[1] # "probe"
    BY <2>2, <1>11, RankFacts, MarkFacts
  <2>3. \A f \in Fn : Todo' \cap Probes(f) = {} /\ \A d : <<"probe", f, d>> \notin Todo'
    BY <1>8, <1>10, <2>2, MarkFacts
  <2>4. <<"pci_scan">> \notin Range(ops) /\ <<"hostbridge">> \notin Range(ops)
    BY <1>10
  <2>5. \A d \in Driver : <<"driver", d>> \in Todo'
    <3> TAKE d \in Driver
    <3>1. <<"driver", d>> \in Todo
      BY <1>12 DEF OnceInv, StageInv
    <3>2. <<"driver", d>> # <<"pci_scan">>
      OBVIOUS
    <3> QED BY <3>1, <3>2, <1>8, <1>9
  <2> QED BY <1>8, <1>12, <2>1, <2>2, <2>3, <2>4, <2>5 DEF OnceInv, StageInv
<1>14. /\ Once(todo', {<<"numa">>}) /\ Once(todo', {<<"hostbridge">>}) /\ Once(todo', {<<"pci_scan">>})
       /\ \A d \in Driver : Once(todo', {<<"driver", d>>})
       /\ \A f \in Fn : Once(todo', Probes(f))
  <2>1. \A x \in {<<"numa">>, <<"hostbridge">>, <<"pci_scan">>} : Range(ops) \cap {x} = {}
    BY <1>10
  <2>2. \A d \in Driver : Range(ops) \cap {<<"driver", d>>} = {}
    BY <1>10
  <2>3. \A f \in Fn : Range(ops) \cap Probes(f) = {}
    BY <1>10, MarkFacts
  <2> QED BY <1>2, <1>7, <2>1, <2>2, <2>3, OnceKept DEF OnceInv, StageInv, ProbeInv, Probing
<1>15. \A f \in Fn : Once(todo', Scans(f))
  BY <1>2, <1>7, <1>13, OnceStep DEF OnceInv, ListInv, Listing
<1>16. StageInv'
  BY <1>2, <1>11, <1>13, <1>14, SameMachine DEF StageInv
<1>17. ListInv'
  <2>1. ASSUME NEW f \in Fn PROVE Listing(f)'
    <3>1. Hw(f).bus <= end_bus_number => Todo' \cap Scans(f) # {}
      BY <1>7, <1>8, MarkFacts
    <3>2. f \notin Range(<<>>)
      BY DEF Range
    <3> QED BY <3>1, <3>2, <1>2, <1>13, <1>15, SameMachine DEF Listing
  <2> QED BY <2>1, <1>2, SameMachine DEF ListInv
<1>18. ProbeInv'
  <2>1. ASSUME NEW f \in Fn PROVE Probing(f)'
    BY <1>2, <1>13, <1>14, SameMachine DEF Probing
  <2> QED BY <2>1, <1>2, SameMachine DEF ProbeInv, OnceInv
<1> QED BY <1>16, <1>17, <1>18 DEF OnceInv

(* What pci_device_init puts on todo: the registration, once.                *)
LEMMA DeviceOps ==
    ASSUME NEW f \in Fn, NEW n \in Nat
    PROVE  LET ops == FlattenSeq([i \in 1 .. n |-> <<<<"bar", f, i - 1>>>>])
                      \o <<<<"command_off", f>>, <<"ones", f, Rom>>, <<"back_lo", f, Rom>>,
                           <<"command_back", f>>, <<"register", f>>>>
           IN  /\ ops \in Seq(Op)
               /\ \A x \in Range(ops) : x = <<"register", f>> \/ x[1] \notin Marks
               /\ <<"register", f>> \in Range(ops)
               /\ Once(ops, Scans(f))
<1> DEFINE ss == [i \in 1 .. n |-> <<<<"bar", f, i - 1>>>>]
           t == <<<<"command_off", f>>, <<"ones", f, Rom>>, <<"back_lo", f, Rom>>,
                  <<"command_back", f>>, <<"register", f>>>>
           b == FlattenSeq(ss)
<1>1. \A i \in 1 .. n : <<"bar", f, i - 1>> \in Op
  BY OpFacts DEF Reg
<1>2. ss \in Seq(Seq(Op)) /\ Len(ss) = n
  <2> HIDE DEF Op
  <2>1. \A i \in 1 .. n : <<<<"bar", f, i - 1>>>> \in Seq(Op)
    BY <1>1
  <2> QED BY <2>1
<1>3. \A j \in 1 .. n : \A x \in Range(ss[j]) : x[1] = "bar"
  BY DEF Range
<1>4. b \in Seq(Op) /\ \A x \in Range(b) : x[1] = "bar"
  <2> HIDE DEF ss, Op
  <2> QED BY <1>2, <1>3, FlattenElements
<1>5. /\ <<"command_off", f>> \in Op /\ <<"command_back", f>> \in Op /\ <<"register", f>> \in Op
      /\ <<"ones", f, Rom>> \in Op /\ <<"back_lo", f, Rom>> \in Op
  BY OpFacts DEF One, Reg, Rom
<1>6. t \in Seq(Op)
  BY <1>5
<1>7. /\ \A x \in Range(t) : x = <<"register", f>> \/ x[1] \in {"command_off", "ones", "back_lo", "command_back"}
      /\ <<"register", f>> \in Range(t)
  BY DEF Range
<1>8. DOMAIN t = 1 .. 5 /\ \A k \in 1 .. 5 : k # 5 => t[k][1] \in {"command_off", "ones", "back_lo", "command_back"}
  OBVIOUS
<1> HIDE DEF t, b, Op
<1>9. Once(t, Scans(f))
  BY <1>8, MarkFacts DEF Once
<1>10. Range(b) \cap Scans(f) = {}
  BY <1>4, MarkFacts
<1>11. Once(b \o t, Scans(f))
  BY <1>4, <1>6, <1>9, <1>10, OnceNone, OnceConcat
<1>12. Range(b \o t) = Range(b) \cup Range(t) /\ b \o t \in Seq(Op)
  BY <1>4, <1>6, RangeConcat
<1>13. \A x \in Range(b \o t) : x = <<"register", f>> \/ x[1] \notin Marks
  BY <1>4, <1>7, <1>12 DEF Marks
<1> QED BY <1>7, <1>11, <1>12, <1>13 DEF b, t, ss

(* pci_device_init.  The function is still not on the list.                  *)
LEMMA DeviceOnce ==
    ASSUME TypeInv, OnceInv, pci_device_init
    PROVE  OnceInv'
<1> DEFINE s == FlattenSeq([i \in 1 .. NBar(fn) |-> <<<<"bar", fn, i - 1>>>>])
                \o <<<<"command_off", fn>>, <<"ones", fn, Rom>>, <<"back_lo", fn, Rom>>,
                     <<"command_back", fn>>, <<"register", fn>>>>
<1>1. /\ todo # <<>> /\ Head(todo)[1] = "device_init" /\ Then(s) /\ machine' = machine
      /\ pci_device_list' = pci_device_list /\ probed' = probed /\ end_bus_number' = end_bus_number
  BY DEF pci_device_init, At
<1>2. fn \in Fn /\ NBar(fn) \in Nat
  BY <1>1, HeadFacts, FnFacts DEF One, TypeInv
<1>3. PICK g \in Fn : \E n \in Nat : g = fn /\ n = NBar(fn)
  BY <1>2
<1>4. /\ s \in Seq(Op)
      /\ \A x \in Range(s) : x = <<"register", g>> \/ x[1] \notin Marks
      /\ <<"register", g>> \in Range(s)
      /\ Once(s, Scans(g))
  BY <1>3, DeviceOps
<1>5. PICK ops \in Seq(Op) : ops = s
  BY <1>4
<1>6. /\ Then(ops) /\ <<"register", g>> \in Range(ops) /\ Once(ops, Scans(g))
      /\ \A x \in Range(ops) : x = <<"register", g>> \/ x[1] \notin Marks
  BY <1>1, <1>4, <1>5
<1> HIDE DEF s, Op
<1>7. /\ Todo = {Head(todo)} \cup Range(Tail(todo)) /\ Todo' = Range(ops) \cup Range(Tail(todo))
      /\ Head(todo) = <<"device_init", g>>
  BY <1>1, <1>3, <1>6, Replace, OpMarks DEF fn
<1>8. g \in Fn /\ Head(todo) \in Scans(g) /\ Todo \cap Scans(g) # {}
  BY <1>7, MarkFacts
<1>9. Range(Tail(todo)) \cap Scans(g) = {} /\ <<"pci_scan">> \notin Todo
  BY <1>1, <1>8, OnceHead DEF OnceInv, StageInv, ListInv, Listing
<1>10. /\ \A x \in {<<"numa">>, <<"hostbridge">>, <<"pci_scan">>} : Range(ops) \cap {x} = {}
       /\ \A d \in Driver : Range(ops) \cap {<<"driver", d>>} = {}
       /\ \A f \in Fn : Range(ops) \cap Probes(f) = {}
       /\ \A f \in Fn : f # g => Range(ops) \cap Scans(f) = {}
  <2>1. \A x \in Range(ops) : x[1] = "register" \/ x[1] \notin Marks
    BY <1>6
  <2>2. \A f \in Fn : f # g => <<"register", g>> \notin Scans(f)
    BY DEF Scans
  <2> QED BY <1>6, <2>1, <2>2, MarkFacts DEF Marks
<1>11. /\ Once(todo', {<<"numa">>}) /\ Once(todo', {<<"hostbridge">>}) /\ Once(todo', {<<"pci_scan">>})
       /\ \A d \in Driver : Once(todo', {<<"driver", d>>})
       /\ \A f \in Fn : Once(todo', Probes(f))
  BY <1>1, <1>6, <1>10, OnceKept DEF OnceInv, StageInv, ProbeInv, Probing
<1>12. \A f \in Fn : Once(todo', Scans(f))
  <2> TAKE f \in Fn
  <2>1. CASE f = g
    BY <2>1, <1>1, <1>6, <1>9, OnceStep DEF OnceInv, ListInv, Listing
  <2>2. CASE f # g
    BY <2>2, <1>1, <1>6, <1>10, OnceKept DEF OnceInv, ListInv, Listing
  <2> QED BY <2>1, <2>2
<1>13. Sorted'
  <2>1. \A x \in Range(ops) : Rank(x) = 0
    BY <1>6, RankFacts DEF Marks
  <2> QED BY <1>1, <1>6, <2>1, SortedStep DEF OnceInv, StageInv
<1>14. /\ <<"hostbridge">> \in Todo' <=> <<"hostbridge">> \in Todo
       /\ <<"pci_scan">> \in Todo' <=> <<"pci_scan">> \in Todo
       /\ \A d \in Driver : <<"driver", d>> \in Todo' <=> <<"driver", d>> \in Todo
       /\ \A f \in Fn : Todo' \cap Probes(f) = Todo \cap Probes(f)
       /\ \A f \in Fn : \A d \in Driver : <<"probe", f, d>> \in Todo' <=> <<"probe", f, d>> \in Todo
       /\ \A f \in Fn : (Todo' \cap Scans(f) # {}) <=> (Todo \cap Scans(f) # {})
  <2>1. \A f \in Fn : Todo' \cap Probes(f) = Todo \cap Probes(f)
    BY <1>7, <1>10, MarkFacts
  <2>2. \A f \in Fn : (Todo' \cap Scans(f) # {}) <=> (Todo \cap Scans(f) # {})
    <3> TAKE f \in Fn
    <3>1. CASE f = g
      BY <3>1, <1>6, <1>7, <1>8, MarkFacts
    <3>2. CASE f # g
      <4>1. <<"device_init", g>> \notin Scans(f)
        BY <3>2 DEF Scans
      <4> QED BY <3>2, <4>1, <1>7, <1>10
    <3> QED BY <3>1, <3>2
  <2>3. /\ <<"hostbridge">> \in Todo' <=> <<"hostbridge">> \in Todo
        /\ <<"pci_scan">> \in Todo' <=> <<"pci_scan">> \in Todo
        /\ \A d \in Driver : <<"driver", d>> \in Todo' <=> <<"driver", d>> \in Todo
    BY <1>7, <1>10
  <2> QED BY <2>1, <2>2, <2>3, MarkFacts
<1>15. StageInv'
  BY <1>9, <1>11, <1>13, <1>14, SameMachine, <1>1 DEF OnceInv, StageInv
<1>16. ListInv'
  <2>1. ASSUME NEW f \in Fn PROVE Listing(f)'
    <3>1. Listing(f)
      BY DEF OnceInv, ListInv
    <3> QED BY <3>1, <1>1, <1>12, <1>14, SameMachine DEF Listing
  <2> QED BY <2>1, <1>1, SameMachine DEF OnceInv, ListInv
<1>17. ProbeInv'
  <2>1. ASSUME NEW f \in Fn PROVE Probing(f)'
    <3>1. Probing(f)
      BY DEF OnceInv, ProbeInv
    <3> QED BY <3>1, <1>1, <1>11, <1>14, SameMachine DEF Probing
  <2> QED BY <2>1, <1>1, SameMachine DEF OnceInv, ProbeInv
<1> QED BY <1>15, <1>16, <1>17 DEF OnceInv

(* The list of functions after one is added to it.                           *)
LEMMA AppendFacts ==
    ASSUME NEW E, NEW s \in Seq(E), NEW g \in E, g \notin Range(s),
           \A j, k \in DOMAIN s : s[j] = s[k] => j = k
    PROVE  /\ Range(Append(s, g)) = Range(s) \cup {g}
           /\ \A j, k \in DOMAIN Append(s, g) : Append(s, g)[j] = Append(s, g)[k] => j = k
<1> DEFINE n == Len(s)
           t == Append(s, g)
<1>1. /\ n \in Nat /\ DOMAIN s = 1 .. n /\ DOMAIN t = 1 .. n + 1 /\ t[n + 1] = g
      /\ \A k \in 1 .. n : t[k] = s[k]
  OBVIOUS
<1> HIDE DEF n, t
<1>2. \A k \in 1 .. n + 1 : k \in 1 .. n \/ k = n + 1
  BY <1>1
<1>3. \A k \in 1 .. n : k \in 1 .. n + 1 /\ t[k] # g
  BY <1>1 DEF Range
<1>4. n + 1 \in 1 .. n + 1
  BY <1>1
<1>5. Range(t) = Range(s) \cup {g}
  BY <1>1, <1>2, <1>3, <1>4 DEF Range
<1>6. \A j, k \in 1 .. n + 1 : t[j] = t[k] => j = k
  BY <1>1, <1>2, <1>3
<1> QED BY <1>1, <1>5, <1>6 DEF t

(* register_pci_device, while every driver is still to come.                 *)
LEMMA RegisterOnce ==
    ASSUME TypeInv, OnceInv, register_pci_device
    PROVE  OnceInv'
<1>1. /\ todo # <<>> /\ Head(todo)[1] = "register" /\ Then(<<>>) /\ machine' = machine
      /\ pci_device_list' = Append(pci_device_list, fn)
      /\ probed' = probed /\ end_bus_number' = end_bus_number
  BY DEF register_pci_device, At
<1>2. PICK g \in Fn : g = fn
  BY <1>1, HeadFacts DEF One
<1>3. <<>> \in Seq(Op) /\ Range(<<>>) = {}
  BY DEF Range
<1> HIDE DEF Op
<1>4. /\ Todo = {Head(todo)} \cup Range(Tail(todo)) /\ Todo' = Range(Tail(todo))
      /\ Head(todo) = <<"register", g>>
  BY <1>1, <1>2, <1>3, Replace, OpMarks DEF fn
<1>5. Head(todo) \in Scans(g) /\ Todo \cap Scans(g) # {}
  BY <1>4, MarkFacts
<1>6. /\ Range(Tail(todo)) \cap Scans(g) = {} /\ <<"pci_scan">> \notin Todo
      /\ g \notin Range(pci_device_list) /\ \A d \in Driver : <<"driver", d>> \in Todo
  BY <1>1, <1>5, OnceHead DEF OnceInv, StageInv, ListInv, Listing
<1>7. \A S : Once(todo, S) => Once(todo', S)
  BY <1>1, <1>3, OnceKept
<1>8. /\ Once(todo', {<<"numa">>}) /\ Once(todo', {<<"hostbridge">>}) /\ Once(todo', {<<"pci_scan">>})
      /\ \A d \in Driver : Once(todo', {<<"driver", d>>})
      /\ \A f \in Fn : Once(todo', Scans(f)) /\ Once(todo', Probes(f))
  BY <1>7 DEF OnceInv, StageInv, ListInv, ProbeInv, Listing, Probing
<1>9. Sorted'
  BY <1>1, <1>3, SortedStep DEF OnceInv, StageInv
<1>10. /\ <<"hostbridge">> \in Todo' <=> <<"hostbridge">> \in Todo
       /\ <<"pci_scan">> \in Todo' <=> <<"pci_scan">> \in Todo
       /\ \A d \in Driver : <<"driver", d>> \in Todo'
       /\ \A f \in Fn : \A d \in Driver : <<"probe", f, d>> \in Todo' <=> <<"probe", f, d>> \in Todo
       /\ \A f \in Fn : Todo' \cap Probes(f) = Todo \cap Probes(f)
       /\ \A f \in Fn : f # g => Todo' \cap Scans(f) = Todo \cap Scans(f)
  <2>1. \A f \in Fn : f # g => <<"register", g>> \notin Scans(f)
    BY DEF Scans
  <2>2. \A f \in Fn : <<"register", g>> \notin Probes(f)
    BY MarkFacts
  <2>3. ASSUME NEW d \in Driver PROVE <<"driver", d>> \in Todo'
    <3>1. <<"driver", d>> # <<"register", g>>
      OBVIOUS
    <3> QED BY <3>1, <1>4, <1>6
  <2>4. ASSUME NEW f \in Fn, NEW d \in Driver
        PROVE  <<"probe", f, d>> \in Todo' <=> <<"probe", f, d>> \in Todo
    <3>1. <<"probe", f, d>> # <<"register", g>>
      OBVIOUS
    <3> QED BY <3>1, <1>4
  <2> QED BY <2>1, <2>2, <2>3, <2>4, <1>4
<1>11. /\ Range(pci_device_list') = Range(pci_device_list) \cup {g}
       /\ \A j, k \in DOMAIN pci_device_list' : pci_device_list'[j] = pci_device_list'[k] => j = k
  <2>1. pci_device_list \in Seq(Fn) /\ pci_device_list' = Append(pci_device_list, g)
    BY <1>1, <1>2 DEF TypeInv
  <2>2. \A j, k \in DOMAIN pci_device_list : pci_device_list[j] = pci_device_list[k] => j = k
    BY DEF OnceInv, ListInv
  <2> QED BY <2>1, <2>2, <1>6, AppendFacts
<1>12. StageInv'
  BY <1>1, <1>6, <1>8, <1>9, <1>10, SameMachine DEF OnceInv, StageInv
<1>13. ListInv'
  <2>1. ASSUME NEW f \in Fn PROVE Listing(f)'
    <3>1. Listing(f)
      BY DEF OnceInv, ListInv
    <3>2. CASE f = g
      BY <3>2, <1>4, <1>6, <1>8, <1>11, SameMachine DEF Listing
    <3>3. CASE f # g
      BY <3>1, <3>3, <1>1, <1>6, <1>8, <1>10, <1>11, SameMachine DEF Listing
    <3> QED BY <3>2, <3>3
  <2> QED BY <2>1, <1>1, <1>11, SameMachine DEF ListInv
<1>14. ProbeInv'
  <2>1. ASSUME NEW f \in Fn PROVE Probing(f)'
    <3>1. Probing(f)
      BY DEF OnceInv, ProbeInv
    <3>2. probed[f] = <<>> /\ \A d \in Driver : <<"probe", f, d>> \notin Todo
      BY <3>1, <1>6 DEF Probing
    <3> QED BY <3>1, <3>2, <1>1, <1>8, <1>10, SameMachine DEF Probing
  <2> QED BY <2>1, <1>1, SameMachine DEF OnceInv, ProbeInv
<1> QED BY <1>12, <1>13, <1>14 DEF OnceInv

(* pci_probe: the driver is noted with the function, which has none yet.     *)
LEMMA ProbeOnce ==
    ASSUME TypeInv, OnceInv, pci_probe
    PROVE  OnceInv'
<1>1. /\ todo # <<>> /\ Head(todo)[1] = "probe" /\ Then(Probe(arg, fn)) /\ machine' = machine
      /\ pci_device_list' = pci_device_list /\ end_bus_number' = end_bus_number
      /\ probed' = [probed EXCEPT ![fn] = Append(@, arg)]
  BY DEF pci_probe, At
<1>2. PICK g \in Fn, e \in Driver : g = fn /\ e = arg
  BY <1>1, HeadFacts
<1>3. Quiet(Probe(e, g))
  BY CalmProbe, CalmQuiet
<1>4. PICK ops : ops = Probe(e, g)
  OBVIOUS
<1>5. Then(ops) /\ ops \in Seq(Op) /\ \A x \in Range(ops) : x[1] \notin Marks
  BY <1>1, <1>2, <1>3, <1>4 DEF Quiet
<1> HIDE DEF Op
<1>6. /\ Todo = {Head(todo)} \cup Range(Tail(todo)) /\ Todo' = Range(ops) \cup Range(Tail(todo))
      /\ Head(todo) = <<"probe", g, e>>
  BY <1>1, <1>2, <1>5, Replace, OpMarks DEF fn, arg
<1>7. <<"probe", g, e>> \in Todo /\ Head(todo) \in Probes(g) /\ Todo \cap Probes(g) # {}
  BY <1>6, MarkFacts
<1>8. /\ Range(Tail(todo)) \cap Probes(g) = {} /\ <<"pci_scan">> \notin Todo
      /\ probed[g] = <<>> /\ Knows(e, g) /\ g \in Range(pci_device_list) /\ <<"driver", e>> \notin Todo
  BY <1>1, <1>7, OnceHead DEF OnceInv, StageInv, ProbeInv, Probing
<1>9. /\ DOMAIN probed' = Fn /\ probed'[g] = <<e>> /\ \A f \in Fn : f # g => probed'[f] = probed[f]
  <2>1. probed' = [probed EXCEPT ![g] = Append(@, e)] /\ DOMAIN probed = Fn
    BY <1>1, <1>2 DEF OnceInv, ProbeInv
  <2>2. probed'[g] = Append(<<>>, e)
    BY <2>1, <1>8
  <2> QED BY <2>1, <2>2
<1>10. /\ \A x \in {<<"numa">>, <<"hostbridge">>, <<"pci_scan">>} : Range(ops) \cap {x} = {}
       /\ \A d \in Driver : Range(ops) \cap {<<"driver", d>>} = {}
       /\ \A f \in Fn : Range(ops) \cap Probes(f) = {} /\ Range(ops) \cap Scans(f) = {}
  BY <1>5, MarkFacts
<1>11. /\ Once(todo', {<<"numa">>}) /\ Once(todo', {<<"hostbridge">>}) /\ Once(todo', {<<"pci_scan">>})
       /\ \A d \in Driver : Once(todo', {<<"driver", d>>})
       /\ \A f \in Fn : Once(todo', Probes(f)) /\ Once(todo', Scans(f))
  BY <1>1, <1>5, <1>10, OnceKept DEF OnceInv, StageInv, ListInv, Listing, ProbeInv, Probing
<1>12. Sorted'
  <2>1. \A x \in Range(ops) : Rank(x) = 0
    BY <1>5, RankFacts DEF Marks
  <2> QED BY <1>1, <1>5, <2>1, SortedStep DEF OnceInv, StageInv
<1>13. /\ <<"hostbridge">> \in Todo' <=> <<"hostbridge">> \in Todo
       /\ <<"pci_scan">> \in Todo' <=> <<"pci_scan">> \in Todo
       /\ \A d \in Driver : <<"driver", d>> \in Todo' <=> <<"driver", d>> \in Todo
       /\ \A f \in Fn : Todo' \cap Scans(f) = Todo \cap Scans(f)
       /\ \A f \in Fn : f # g => Todo' \cap Probes(f) = Todo \cap Probes(f)
       /\ Todo' \cap Probes(g) = {}
       /\ \A f \in Fn : \A d \in Driver : f # g =>
             (<<"probe", f, d>> \in Todo' <=> <<"probe", f, d>> \in Todo)
       /\ \A d \in Driver : <<"probe", g, d>> \notin Todo'
  <2>1. \A f \in Fn : f # g => <<"probe", g, e>> \notin Probes(f)
    BY DEF Probes
  <2>2. \A f \in Fn : <<"probe", g, e>> \notin Scans(f)
    BY MarkFacts
  <2>3. \A f \in Fn : f # g => Todo' \cap Probes(f) = Todo \cap Probes(f)
    BY <2>1, <1>6, <1>10
  <2>4. Todo' \cap Probes(g) = {}
    BY <1>6, <1>8, <1>10
  <2>5. /\ \A f \in Fn : \A d \in Driver : f # g =>
             (<<"probe", f, d>> \in Todo' <=> <<"probe", f, d>> \in Todo)
        /\ \A d \in Driver : <<"probe", g, d>> \notin Todo'
    BY <2>3, <2>4, MarkFacts
  <2>6. ASSUME NEW d \in Driver PROVE <<"driver", d>> \in Todo' <=> <<"driver", d>> \in Todo
    <3>1. <<"driver", d>> # <<"probe", g, e>>
      OBVIOUS
    <3> QED BY <3>1, <1>6, <1>10
  <2>7. /\ <<"hostbridge">> \in Todo' <=> <<"hostbridge">> \in Todo
        /\ <<"pci_scan">> \in Todo' <=> <<"pci_scan">> \in Todo
    BY <1>6, <1>10
  <2> QED BY <2>2, <2>3, <2>4, <2>5, <2>6, <2>7, <1>6, <1>10
<1>14. StageInv'
  BY <1>1, <1>8, <1>11, <1>12, <1>13, SameMachine DEF OnceInv, StageInv
<1>15. ListInv'
  <2>1. ASSUME NEW f \in Fn PROVE Listing(f)'
    <3>1. Listing(f)
      BY DEF OnceInv, ListInv
    <3> QED BY <3>1, <1>1, <1>11, <1>13, SameMachine DEF Listing
  <2> QED BY <2>1, <1>1, SameMachine DEF OnceInv, ListInv
<1>16. ProbeInv'
  <2>1. ASSUME NEW f \in Fn PROVE Probing(f)'
    <3>1. Probing(f)
      BY DEF OnceInv, ProbeInv
    <3>2. CASE f = g
      <4>1. probed'[g] # <<>>
        BY <1>9
      <4> QED BY <3>2, <4>1, <1>1, <1>8, <1>9, <1>11, <1>13, SameMachine DEF Probing
    <3>3. CASE f # g
      BY <3>1, <3>3, <1>1, <1>9, <1>11, <1>13, SameMachine, ZenonT(60) DEF Probing
    <3> QED BY <3>2, <3>3
  <2> QED BY <2>1, <1>1, <1>9, SameMachine DEF ProbeInv
<1> QED BY <1>14, <1>15, <1>16 DEF OnceInv

(* The id tables: no driver lists an id twice, no two drivers the same id    *)
(* but that of the slots they do not use, which no function has.             *)
LEMMA IdsFacts ==
    /\ \A d \in Driver : \E m \in Nat : DOMAIN ids[d] = 1 .. m
    /\ \A d \in Driver : \A i, j \in DOMAIN ids[d] : ids[d][i] = ids[d][j] => i = j
    /\ \A d, e \in Driver : \A x \in Range(ids[d]) \cap Range(ids[e]) : d = e \/ x = "zero"
<1>1. Driver = {"xhci", "nvidia", "x550"}
  BY DEF Driver, ids
<1>2. /\ ids["xhci"] = <<"xhci1", "xhci2", "xhci3", "zero">>
      /\ ids["nvidia"] = <<"gpu1", "gpu2", "zero">>
      /\ ids["x550"] = <<"x550", "zero">>
  BY DEF ids
<1>3. /\ DOMAIN ids["xhci"] = 1 .. 4 /\ DOMAIN ids["nvidia"] = 1 .. 3 /\ DOMAIN ids["x550"] = 1 .. 2
  BY <1>2
<1>4. /\ Range(ids["xhci"]) = {"xhci1", "xhci2", "xhci3", "zero"}
      /\ Range(ids["nvidia"]) = {"gpu1", "gpu2", "zero"}
      /\ Range(ids["x550"]) = {"x550", "zero"}
  BY <1>2 DEF Range
<1>5. \A d \in Driver : \E m \in Nat : DOMAIN ids[d] = 1 .. m
  BY <1>1, <1>3
<1>6. /\ \A i, j \in 1 .. 4 : ids["xhci"][i] = ids["xhci"][j] => i = j
      /\ \A i, j \in 1 .. 3 : ids["nvidia"][i] = ids["nvidia"][j] => i = j
      /\ \A i, j \in 1 .. 2 : ids["x550"][i] = ids["x550"][j] => i = j
  BY <1>2
<1>7. \A d \in Driver : \A i, j \in DOMAIN ids[d] : ids[d][i] = ids[d][j] => i = j
  BY <1>1, <1>3, <1>6
<1>8. \A d, e \in Driver : \A x \in Range(ids[d]) \cap Range(ids[e]) : d = e \/ x = "zero"
  BY <1>1, <1>4
<1> QED BY <1>5, <1>7, <1>8

(* One driver knows a function.                                              *)
LEMMA OneKnows ==
    ASSUME machine \in Machines, NEW f \in Fn, NEW d \in Driver, NEW e \in Driver,
           Knows(d, f), Knows(e, f)
    PROVE  d = e
<1>1. Hw(f).id # "zero"
  BY MachinesAssumption DEF Fn, Hw
<1>2. Hw(f).id \in Range(ids[d]) \cap Range(ids[e])
  BY DEF Knows
<1> QED BY <1>1, <1>2, IdsFacts

(* pci_register_driver probes each function of the list at most once.        *)
LEMMA DriverOps ==
    ASSUME NEW d \in Driver, pci_device_list \in Seq(Fn), NEW f \in Fn,
           \A j, k \in DOMAIN pci_device_list : pci_device_list[j] = pci_device_list[k] => j = k
    PROVE  LET inner(k) == [i \in DOMAIN ids[d] |->
                              IF ids[d][i] = Hw(pci_device_list[k]).id
                              THEN <<<<"probe", pci_device_list[k], d>>>> ELSE <<>>]
               ss == [k \in DOMAIN pci_device_list |-> FlattenSeq(inner(k))]
           IN  Once(FlattenSeq(ss), Probes(f))
<1> DEFINE inner(k) == [i \in DOMAIN ids[d] |->
                              IF ids[d][i] = Hw(pci_device_list[k]).id
                              THEN <<<<"probe", pci_device_list[k], d>>>> ELSE <<>>]
           ss == [k \in DOMAIN pci_device_list |-> FlattenSeq(inner(k))]
           list == pci_device_list
<1>1. PICK m \in Nat : DOMAIN ids[d] = 1 .. m
  BY IdsFacts
<1>2. Len(list) \in Nat /\ DOMAIN list = 1 .. Len(list) /\ \A k \in 1 .. Len(list) : list[k] \in Fn
  OBVIOUS
<1>3. \A k \in 1 .. Len(list) : <<"probe", list[k], d>> \in Op
  <2> QED BY <1>2, OpFacts, Zenon
<1>4. ASSUME NEW k \in 1 .. Len(list)
      PROVE  /\ FlattenSeq(inner(k)) \in Seq(Op)
             /\ Range(FlattenSeq(inner(k))) \cap Probes(f) # {} => list[k] = f
             /\ Once(FlattenSeq(inner(k)), Probes(f))
  <2>1. inner(k) \in Seq(Seq(Op)) /\ Len(inner(k)) = m
    <3>1. \A i \in 1 .. m : inner(k)[i] \in Seq(Op)
      <4> TAKE i \in 1 .. m
      <4>1. <<<<"probe", list[k], d>>>> \in Seq(Op) /\ <<>> \in Seq(Op)
        BY <1>3
      <4> QED BY <4>1, <1>1
    <3> QED BY <3>1, <1>1
  <2>2. \A j \in 1 .. m : \A x : x \in Range(inner(k)[j])
                                 => ids[d][j] = Hw(list[k]).id /\ x = <<"probe", list[k], d>>
    BY <1>1 DEF Range
  <2>3. \A j \in 1 .. m : Once(inner(k)[j], Probes(f))
    BY <1>1 DEF Once
  <2>4. \A i, j \in 1 .. m : ids[d][i] = ids[d][j] => i = j
    BY <1>1, IdsFacts
  <2> HIDE DEF inner, Op
  <2>5. \A i, j \in 1 .. m : (/\ Range(inner(k)[i]) \cap Probes(f) # {}
                              /\ Range(inner(k)[j]) \cap Probes(f) # {}) => i = j
    <3>1. \A j \in 1 .. m : Range(inner(k)[j]) \cap Probes(f) # {} => ids[d][j] = Hw(list[k]).id
      BY <2>2
    <3> TAKE i, j \in 1 .. m
    <3> QED BY <3>1, <2>4
  <2>6. Once(FlattenSeq(inner(k)), Probes(f))
    BY <2>1, <2>3, <2>5, OnceFlatten
  <2>7. /\ FlattenSeq(inner(k)) \in Seq(Op)
        /\ \A x : x \in Range(FlattenSeq(inner(k))) <=> \E j \in 1 .. m : x \in Range(inner(k)[j])
    BY <2>1, FlattenElements
  <2>8. <<"probe", list[k], d>> \in Probes(f) => list[k] = f
    BY DEF Probes
  <2>9. ASSUME NEW x \in Range(FlattenSeq(inner(k))) PROVE x = <<"probe", list[k], d>>
    <3>1. PICK j \in 1 .. m : x \in Range(inner(k)[j])
      BY <2>7, Zenon
    <3> QED BY <3>1, <2>2
  <2> QED BY <2>6, <2>7, <2>8, <2>9
<1>5. /\ ss \in Seq(Seq(Op)) /\ Len(ss) = Len(list)
      /\ \A k \in 1 .. Len(list) : ss[k] = FlattenSeq(inner(k))
  <2> HIDE DEF inner
  <2> QED BY <1>2, <1>4
<1> HIDE DEF ss, inner, Op
<1>6. \A j, k \in 1 .. Len(list) : (/\ Range(ss[j]) \cap Probes(f) # {}
                                    /\ Range(ss[k]) \cap Probes(f) # {}) => j = k
  <2>1. \A k \in 1 .. Len(list) : Range(ss[k]) \cap Probes(f) # {} => list[k] = f
    <3> TAKE k \in 1 .. Len(list)
    <3>1. ss[k] = FlattenSeq(inner(k))
      BY <1>5
    <3> QED BY <3>1, <1>4
  <2> TAKE j, k \in 1 .. Len(list)
  <2> QED BY <2>1, <1>2
<1>7. \A j \in 1 .. Len(list) : Once(ss[j], Probes(f))
  BY <1>4, <1>5
<1>8. Once(FlattenSeq(ss), Probes(f))
  BY <1>5, <1>6, <1>7, OnceFlatten
<1> QED BY <1>8 DEF ss, inner

(* pci_register_driver: nothing is left of the scan, and the functions that  *)
(* this driver knows have not been probed by another.                        *)
LEMMA DriverOnce ==
    ASSUME TypeInv, OnceInv, pci_register_driver(ids)
    PROVE  OnceInv'
<1> DEFINE s == FlattenSeq([k \in DOMAIN pci_device_list |->
                  FlattenSeq([i \in DOMAIN ids[fn] |->
                     IF ids[fn][i] = Hw(pci_device_list[k]).id
                     THEN <<<<"probe", pci_device_list[k], fn>>>> ELSE <<>>])])
<1>1. /\ todo # <<>> /\ Head(todo)[1] = "driver" /\ Then(s) /\ machine' = machine
      /\ pci_device_list' = pci_device_list /\ probed' = probed /\ end_bus_number' = end_bus_number
  BY DEF pci_register_driver, At
<1>2. PICK e \in Driver : e = fn
  BY <1>1, HeadFacts
<1>3. pci_device_list \in Seq(Fn) /\ \A j, k \in DOMAIN pci_device_list : pci_device_list[j] = pci_device_list[k] => j = k
  BY DEF TypeInv, OnceInv, ListInv
<1>4. /\ s \in Seq(Op)
      /\ \A x : x \in Range(s) <=> \E k \in 1 .. Len(pci_device_list) :
                   /\ Hw(pci_device_list[k]).id \in Range(ids[e])
                   /\ x = <<"probe", pci_device_list[k], e>>
  BY <1>2, <1>3, DriverWhole DEF Whole
<1>5. \A f \in Fn : Once(s, Probes(f))
  BY <1>2, <1>3, DriverOps
<1>6. PICK ops \in Seq(Op) : ops = s
  BY <1>4
<1> HIDE DEF s, Op
<1>7. /\ Then(ops) /\ \A f \in Fn : Once(ops, Probes(f))
      /\ \A x \in Range(ops) : x[1] = "probe"
      /\ \A f \in Fn : \A d \in Driver : <<"probe", f, d>> \in Range(ops)
                          <=> d = e /\ Knows(e, f) /\ f \in Range(pci_device_list)
  <2>1. \A x \in Range(ops) : x[1] = "probe"
    BY <1>4, <1>6
  <2>2. ASSUME NEW f \in Fn, NEW d \in Driver
        PROVE  <<"probe", f, d>> \in Range(ops) <=> d = e /\ Knows(e, f) /\ f \in Range(pci_device_list)
    <3>1. DOMAIN pci_device_list = 1 .. Len(pci_device_list)
      BY <1>3
    <3>2. <<"probe", f, d>> \in Range(s) <=> \E k \in 1 .. Len(pci_device_list) :
             /\ Hw(pci_device_list[k]).id \in Range(ids[e])
             /\ <<"probe", f, d>> = <<"probe", pci_device_list[k], e>>
      BY <1>4, Zenon
    <3>3. f \in Range(pci_device_list) <=> \E k \in 1 .. Len(pci_device_list) : f = pci_device_list[k]
      BY <3>1 DEF Range
    <3> HIDE <1>3
    <3> QED BY <3>2, <3>3, <1>6 DEF Knows
  <2> QED BY <2>1, <2>2, <1>1, <1>5, <1>6
<1>8. /\ Todo = {Head(todo)} \cup Range(Tail(todo)) /\ Todo' = Range(ops) \cup Range(Tail(todo))
      /\ Head(todo) = <<"driver", e>>
  BY <1>1, <1>2, <1>7, Replace, OpMarks DEF fn
<1>9. Sorted' /\ \A x \in Range(Tail(todo)) : Rank(x) = 4
  <2>1. \A x \in Range(ops) : Rank(x) = 0
    BY <1>7, RankFacts
  <2>2. Rank(Head(todo)) = 4
    BY <1>8, RankFacts
  <2>3. Sorted' /\ \A x \in Range(Tail(todo)) : Rank(Head(todo)) <= Rank(x)
    BY <1>1, <1>7, <2>1, SortedStep DEF OnceInv, StageInv
  <2> QED BY <2>2, <2>3, RankFacts
<1>10. /\ \A x \in Range(Tail(todo)) : x[1] \in {"numa", "hostbridge", "pci_scan", "driver"}
       /\ <<"hostbridge">> \notin Range(Tail(todo)) /\ <<"pci_scan">> \notin Range(Tail(todo))
       /\ <<"driver", e>> \notin Range(Tail(todo))
  <2>1. <<"driver", e>> \notin Range(Tail(todo))
    <3>1. Once(todo, {<<"driver", e>>}) /\ Head(todo) \in {<<"driver", e>>}
      BY <1>8 DEF OnceInv, StageInv
    <3>2. Range(Tail(todo)) \cap {<<"driver", e>>} = {}
      BY <3>1, <1>1, OnceHead
    <3> QED BY <3>2
  <2>2. <<"hostbridge">> \notin Range(Tail(todo)) /\ <<"pci_scan">> \notin Range(Tail(todo))
    BY <1>9, RankFacts
  <2>3. \A x \in Range(Tail(todo)) : x[1] \in {"numa", "hostbridge", "pci_scan", "driver"}
    <3> TAKE x \in Range(Tail(todo))
    <3>1. Rank(x) # 0
      BY <1>9
    <3> QED BY <3>1, RankFacts
  <2> QED BY <2>1, <2>2, <2>3
<1>11. /\ <<"hostbridge">> \notin Todo /\ <<"pci_scan">> \notin Todo /\ <<"driver", e>> \in Todo
       /\ <<"hostbridge">> \notin Todo' /\ <<"pci_scan">> \notin Todo' /\ <<"driver", e>> \notin Todo'
       /\ \A d \in Driver : d # e => (<<"driver", d>> \in Todo' <=> <<"driver", d>> \in Todo)
       /\ \A f \in Fn : Todo \cap Scans(f) = {} /\ Todo' \cap Scans(f) = {}
       /\ \A f \in Fn : \A d \in Driver : <<"probe", f, d>> \notin Todo
       /\ \A f \in Fn : \A d \in Driver : <<"probe", f, d>> \in Todo'
                           <=> d = e /\ Knows(e, f) /\ f \in Range(pci_device_list)
       /\ \A f \in Fn : Todo' \cap Probes(f) # {} => Knows(e, f) /\ f \in Range(pci_device_list)
  <2>1. \A x \in Todo : x[1] \in {"numa", "hostbridge", "pci_scan", "driver"}
    BY <1>8, <1>10
  <2>2. \A x \in Todo' : x[1] \in {"numa", "hostbridge", "pci_scan", "driver", "probe"}
    BY <1>7, <1>8, <1>10
  <2>3. /\ <<"hostbridge">> \notin Todo /\ <<"pci_scan">> \notin Todo /\ <<"driver", e>> \in Todo
        /\ <<"hostbridge">> \notin Todo' /\ <<"pci_scan">> \notin Todo' /\ <<"driver", e>> \notin Todo'
    BY <1>7, <1>8, <1>10
  <2>4. ASSUME NEW d \in Driver, d # e PROVE <<"driver", d>> \in Todo' <=> <<"driver", d>> \in Todo
    <3>1. <<"driver", d>> # <<"driver", e>> /\ <<"driver", d>>[1] # "probe"
      BY <2>4
    <3> QED BY <3>1, <1>7, <1>8
  <2>5. \A f \in Fn : Todo \cap Scans(f) = {} /\ Todo' \cap Scans(f) = {}
    BY <2>1, <2>2, MarkFacts
  <2>6. \A f \in Fn : \A d \in Driver : <<"probe", f, d>> \notin Todo
    BY <2>1
  <2>7. ASSUME NEW f \in Fn, NEW d \in Driver
        PROVE  <<"probe", f, d>> \in Todo' <=> d = e /\ Knows(e, f) /\ f \in Range(pci_device_list)
    <3>1. <<"probe", f, d>> \notin Range(Tail(todo))
      BY <1>10
    <3> QED BY <3>1, <1>7, <1>8
  <2>8. ASSUME NEW f \in Fn, Todo' \cap Probes(f) # {}
        PROVE  Knows(e, f) /\ f \in Range(pci_device_list)
    <3>1. PICK x \in Todo' : x \in Probes(f)
      BY <2>8
    <3>2. PICK d \in Driver : x = <<"probe", f, d>>
      BY <3>1 DEF Probes
    <3> QED BY <3>1, <3>2, <2>7
  <2> QED BY <2>3, <2>4, <2>5, <2>6, <2>7, <2>8
<1>12. /\ Once(todo', {<<"numa">>}) /\ Once(todo', {<<"hostbridge">>}) /\ Once(todo', {<<"pci_scan">>})
       /\ \A d \in Driver : Once(todo', {<<"driver", d>>})
       /\ \A f \in Fn : Once(todo', Scans(f))
  <2>1. /\ \A x \in {<<"numa">>, <<"hostbridge">>, <<"pci_scan">>} : Range(ops) \cap {x} = {}
        /\ \A d \in Driver : Range(ops) \cap {<<"driver", d>>} = {}
        /\ \A f \in Fn : Range(ops) \cap Scans(f) = {}
    BY <1>7, MarkFacts
  <2> QED BY <1>1, <1>7, <2>1, OnceKept DEF OnceInv, StageInv, ListInv, Listing
<1>13. \A f \in Fn : Once(todo', Probes(f))
  <2> TAKE f \in Fn
  <2>1. Range(Tail(todo)) \cap Probes(f) = {}
    BY <1>10, MarkFacts
  <2>2. Once(todo, Probes(f))
    BY DEF OnceInv, ProbeInv, Probing
  <2> QED BY <1>1, <1>7, <2>1, <2>2, OnceStep
<1>14. StageInv'
  BY <1>1, <1>9, <1>11, <1>12, SameMachine DEF StageInv
<1>15. ListInv'
  <2>1. ASSUME NEW f \in Fn PROVE Listing(f)'
    <3>1. Listing(f)
      BY DEF OnceInv, ListInv
    <3> QED BY <3>1, <1>1, <1>11, <1>12, SameMachine DEF Listing
  <2> QED BY <2>1, <1>1, SameMachine DEF OnceInv, ListInv
<1>16. ProbeInv'
  <2>1. ASSUME NEW f \in Fn PROVE Probing(f)'
    <3>1. Probing(f)
      BY DEF OnceInv, ProbeInv
    <3>2. Knows(e, f) => probed[f] = <<>>
      <4> SUFFICES ASSUME Knows(e, f), probed[f] # <<>> PROVE FALSE
        OBVIOUS
      <4>1. PICK d \in Driver : Knows(d, f) /\ <<"driver", d>> \notin Todo
        BY <3>1 DEF Probing
      <4>2. d = e
        BY <4>1, OneKnows DEF TypeInv
      <4> QED BY <4>1, <4>2, <1>11
    <3>3. Todo' \cap Probes(f) # {} => probed'[f] = <<>>
      BY <3>2, <1>1, <1>11
    <3>4. \A d \in Driver : <<"probe", f, d>> \in Todo' =>
             Knows(d, f) /\ f \in Range(pci_device_list) /\ <<"driver", d>> \notin Todo'
      BY <1>11
    <3>5. probed[f] # <<>> =>
             \E d \in Driver : /\ probed[f] = <<d>> /\ Knows(d, f) /\ <<"driver", d>> \notin Todo'
                               /\ f \in Range(pci_device_list)
      BY <3>1, <1>11 DEF Probing
    <3>6. ASSUME NEW d \in Driver, <<"driver", d>> \notin Todo', Knows(d, f), f \in Range(pci_device_list)
          PROVE  probed[f] # <<>> \/ <<"probe", f, d>> \in Todo'
      <4>1. CASE d = e
        BY <4>1, <3>6, <1>11
      <4>2. CASE d # e
        BY <4>2, <3>1, <3>6, <1>11 DEF Probing
      <4> QED BY <4>1, <4>2
    <3> QED BY <3>3, <3>4, <3>5, <3>6, <1>1, <1>13, SameMachine DEF Probing
  <2> QED BY <2>1, <1>1, SameMachine DEF OnceInv, ProbeInv
<1> QED BY <1>14, <1>15, <1>16 DEF OnceInv
-------------------------------------------------------------------------------
(* The other steps that only take the head of todo away.                     *)
LEMMA PopsQuiet ==
    ASSUME Pops, ~x86_pci_hostbridge_init, ~NumaInit
    PROVE  Head(todo)[1] \notin Marks /\ probed' = probed /\ end_bus_number' = end_bus_number
<1>1. CASE CommandOff \/ Ones \/ Back \/ CommandBack \/ BarEnd
  BY <1>1 DEF CommandOff, Ones, Back, CommandBack, BarEnd, At, Marks
<1>2. CASE \/ pci_enable_device \/ pci_set_master \/ pci_msix_clear_and_set_ctrl
           \/ pci_msi_set_enable \/ msix_entry_setup \/ msi_entry_setup \/ pci_msi_multiple_enable
  BY <1>2 DEF pci_enable_device, pci_set_master, pci_msix_clear_and_set_ctrl, pci_msi_set_enable,
              msix_entry_setup, msi_entry_setup, pci_msi_multiple_enable, At, Marks
<1>3. CASE ResetWait \/ EecWait \/ DmaWait \/ rx_init \/ tx_init \/ Unmask \/ Advance \/ RingTail
  BY <1>3 DEF ResetWait, EecWait, DmaWait, rx_init, tx_init, Unmask, Advance, RingTail, Does, At, Marks
<1> QED BY <1>1, <1>2, <1>3, Zenon DEF Pops

(* They keep the invariant.                                                  *)
LEMMA PopOnce ==
    ASSUME TypeInv, OnceInv, Pops
    PROVE  OnceInv'
<1>1. todo # <<>> /\ Then(<<>>) /\ machine' = machine /\ pci_device_list' = pci_device_list
  BY PopsFacts
<1>2. CASE x86_pci_hostbridge_init \/ NumaInit
  <2>1. probed' = probed /\ Head(todo) \in Op
    BY <1>1, <1>2, HeadFacts DEF x86_pci_hostbridge_init, NumaInit
  <2>2. \/ Head(todo)[1] = "numa" /\ end_bus_number' = end_bus_number
        \/ Head(todo)[1] = "hostbridge"
    BY <1>2 DEF x86_pci_hostbridge_init, NumaInit, At
  <2>3. \/ Head(todo) = <<"numa">> /\ end_bus_number' = end_bus_number
        \/ Head(todo) = <<"hostbridge">>
    BY <2>1, <2>2, OpMarks
  <2> QED BY <1>1, <2>1, <2>3, EarlyOnce
<1>3. CASE ~x86_pci_hostbridge_init /\ ~NumaInit
  <2>1. Quiet(<<>>)
    BY EmptyWhole DEF Quiet, Whole, Range
  <2> QED BY <1>1, <1>3, <2>1, PopsQuiet, QuietOnce
<1> QED BY <1>2, <1>3

(* The calls that are replaced by accesses the scan does not make.           *)
LEMMA CalmCalls ==
    ASSUME TypeInv, pci_enable_msix \/ pci_enable_msi \/ ixgbe_reset \/ Fill
    PROVE  \E ops : /\ Calm(ops) /\ Then(ops) /\ todo # <<>>
                    /\ Head(todo)[1] \in {"msix", "msi", "reset", "fill"}
                    /\ machine' = machine /\ pci_device_list' = pci_device_list
                    /\ probed' = probed /\ end_bus_number' = end_bus_number /\ resource' = resource
<1> DEFINE nvec == IF pci_msi_vec_count(fn) > 32 THEN 32 ELSE pci_msi_vec_count(fn)
<1>1. CASE pci_enable_msix
  <2> DEFINE S(f, n) == IF n < 0 THEN <<<<"msi", f>>>>
                        ELSE <<<<"msix_ctrl", f, FALSE>>>>
                             \o [k \in 1 .. n |-> <<"msix_entry", f, k - 1>>]
                             \o <<<<"msix_ctrl", f, TRUE>>>>
  <2>1. /\ todo # <<>> /\ Head(todo)[1] = "msix" /\ Then(S(fn, pci_msix_vec_count(fn)))
        /\ machine' = machine /\ pci_device_list' = pci_device_list
        /\ probed' = probed /\ end_bus_number' = end_bus_number /\ resource' = resource
    BY <1>1 DEF pci_enable_msix, At
  <2>2. fn \in Fn /\ pci_msix_vec_count(fn) \in Int
    BY <2>1, HeadFacts, FnFacts DEF One, TypeInv, pci_msix_vec_count
  <2>3. PICK f \in Fn, n \in Int : f = fn /\ n = pci_msix_vec_count(fn)
    BY <2>2
  <2>4. Calm(S(f, n))
    BY CalmMessages, ArgFacts
  <2> HIDE DEF S
  <2> QED BY <2>1, <2>3, <2>4
<1>2. CASE pci_enable_msi
  <2> DEFINE S(f, n) == <<<<"msi_ctrl", f, FALSE>>, <<"msi_entry", f, n>>,
                          <<"msi_multiple", f, n>>, <<"msi_ctrl", f, TRUE>>>>
  <2>1. /\ todo # <<>> /\ Head(todo)[1] = "msi" /\ Then(IF nvec < 1 THEN <<>> ELSE S(fn, nvec))
        /\ machine' = machine /\ pci_device_list' = pci_device_list
        /\ probed' = probed /\ end_bus_number' = end_bus_number /\ resource' = resource
    BY <1>2 DEF pci_enable_msi, At
  <2>2. fn \in Fn
    BY <2>1, HeadFacts DEF One
  <2>3. nvec \in Arg
    <3>1. pci_msi_vec_count(fn) \in Arg /\ 32 \in Arg
      BY <2>2, FnFacts, ArgFacts DEF pci_msi_vec_count, TypeInv
    <3> HIDE DEF Arg
    <3> QED BY <3>1
  <2> HIDE DEF nvec
  <2>4. PICK f \in Fn, n \in Arg : f = fn /\ n = nvec
    BY <2>2, <2>3
  <2>5. Calm(S(f, n)) /\ Calm(<<>>)
    <3>1. 0 \in Int
      OBVIOUS
    <3> QED BY <3>1, CalmMessages
  <2> HIDE DEF S
  <2> QED BY <2>1, <2>4, <2>5
<1>3. CASE ixgbe_reset
  <2>1. /\ todo # <<>> /\ Head(todo)[1] = "reset"
        /\ Then(<<<<"reset_wait", fn>>, <<"eec_wait", fn>>, <<"dma_wait", fn>>>>)
        /\ machine' = machine /\ pci_device_list' = pci_device_list
        /\ probed' = probed /\ end_bus_number' = end_bus_number /\ resource' = resource
    BY <1>3 DEF ixgbe_reset, Does, At
  <2>2. PICK f \in Fn : f = fn
    BY <2>1, HeadFacts DEF One
  <2>3. Calm(<<<<"reset_wait", f>>, <<"eec_wait", f>>, <<"dma_wait", f>>>>)
    BY CalmCard
  <2> QED BY <2>1, <2>2, <2>3
<1>4. CASE Fill
  <2>1. /\ todo # <<>> /\ Head(todo)[1] = "fill"
        /\ Then(<<<<"advance", fn>>, <<"ring", fn>>, <<"fill", fn>>>>)
        /\ machine' = machine /\ pci_device_list' = pci_device_list
        /\ probed' = probed /\ end_bus_number' = end_bus_number /\ resource' = resource
    BY <1>4 DEF Fill, Does, At
  <2>2. PICK f \in Fn : f = fn
    BY <2>1, HeadFacts DEF One
  <2>3. Calm(<<<<"advance", f>>, <<"ring", f>>, <<"fill", f>>>>)
    BY CalmCard
  <2> QED BY <2>1, <2>2, <2>3
<1> QED BY <1>1, <1>2, <1>3, <1>4

(* They keep the invariant, and so does the sizing of a register.            *)
LEMMA CallsOnce ==
    ASSUME TypeInv, OnceInv, Bar \/ pci_enable_msix \/ pci_enable_msi \/ ixgbe_reset \/ Fill
    PROVE  OnceInv'
<1>1. CASE Bar
  <2>1. /\ todo # <<>> /\ Head(todo)[1] = "bar" /\ Then(pci_get_bar_size(fn, arg) \o <<<<"bar_end", fn, arg>>>>)
        /\ machine' = machine /\ pci_device_list' = pci_device_list
        /\ probed' = probed /\ end_bus_number' = end_bus_number
    BY <1>1 DEF Bar, At
  <2>2. PICK f \in Fn, i \in Int : f = fn /\ i = arg
    BY <2>1, HeadFacts DEF Reg
  <2>3. Quiet(pci_get_bar_size(f, i) \o <<<<"bar_end", f, i>>>>)
    BY CalmSize
  <2>4. PICK ops : ops = pci_get_bar_size(f, i) \o <<<<"bar_end", f, i>>>>
    OBVIOUS
  <2>5. Head(todo)[1] \notin Marks
    BY <2>1 DEF Marks
  <2> QED BY <2>1, <2>2, <2>3, <2>4, <2>5, QuietOnce
<1>2. CASE pci_enable_msix \/ pci_enable_msi \/ ixgbe_reset \/ Fill
  <2>1. \E ops : /\ Calm(ops) /\ Then(ops) /\ todo # <<>>
                 /\ Head(todo)[1] \in {"msix", "msi", "reset", "fill"}
                 /\ machine' = machine /\ pci_device_list' = pci_device_list
                 /\ probed' = probed /\ end_bus_number' = end_bus_number /\ resource' = resource
    BY <1>2, CalmCalls
  <2>2. \A l \in {"msix", "msi", "reset", "fill"} : l \notin Marks
    BY DEF Marks
  <2> QED BY <2>1, <2>2, QuietOnce, CalmQuiet
<1> QED BY <1>1, <1>2

(* Every step keeps the invariant.                                           *)
LEMMA NextOnce == TypeInv /\ OnceInv /\ [Next]_vars => OnceInv'
<1> SUFFICES ASSUME TypeInv, OnceInv, [Next]_vars PROVE OnceInv'
  OBVIOUS
<1>1. ASSUME UNCHANGED pci_vars PROVE OnceInv'
  BY <1>1 DEF pci_vars, OnceInv, StageInv, Sorted, ListInv, Listing, ProbeInv, Probing, Todo, Fn, Hw, Knows
<1>2. CASE Pops
  BY <1>2, PopOnce
<1>3. CASE Beside
  BY <1>1, <1>3, BesideFacts
<1>4. CASE Bar \/ pci_enable_msix \/ pci_enable_msi \/ ixgbe_reset \/ Fill
  BY <1>4, CallsOnce
<1>5. CASE pci_scan \/ pci_device_init \/ register_pci_device \/ pci_register_driver(ids) \/ pci_probe
  BY <1>5, ScanOnce, DeviceOnce, RegisterOnce, DriverOnce, ProbeOnce
<1>6. CASE UNCHANGED <<pci_vars, nic_vars>>
  BY <1>1, <1>6
<1>7. CASE UNCHANGED vars
  BY <1>1, <1>7 DEF vars
<1> QED BY <1>2, <1>3, <1>4, <1>5, <1>6, <1>7, Steps, Zenon

(* The boot begins with the invariant: everything is still to come.          *)
LEMMA InitOnce == Init => OnceInv
<1> SUFFICES ASSUME Init PROVE OnceInv
  OBVIOUS
<1>1. PICK o \in DriverOrders :
         todo = <<<<"numa">>, <<"hostbridge">>, <<"pci_scan">>, <<"driver", o[1]>>,
                  <<"driver", o[2]>>, <<"driver", o[3]>>>>
  BY InitTodo
<1>2. /\ o[1] \in Driver /\ o[2] \in Driver /\ o[3] \in Driver
      /\ o[1] # o[2] /\ o[1] # o[3] /\ o[2] # o[3]
  <2>1. o \in [1 .. 3 -> Driver] /\ \A j, k \in 1 .. 3 : o[j] = o[k] => j = k
    BY OrdersAssumption DEF Driver
  <2>2. 1 \in 1 .. 3 /\ 2 \in 1 .. 3 /\ 3 \in 1 .. 3
    OBVIOUS
  <2> QED BY <2>1, <2>2
<1>3. \A d \in Driver : d \in {o[1], o[2], o[3]}
  <2>1. Driver = {"xhci", "nvidia", "x550"}
    BY DEF Driver, ids
  <2> QED BY <2>1, <1>2
<1> HIDE DEF Driver
<1>4. DOMAIN todo = 1 .. 6 /\ \A k \in 1 .. 6 : k \in {1, 2, 3, 4, 5, 6}
  BY <1>1
<1>5. /\ todo[1] = <<"numa">> /\ todo[2] = <<"hostbridge">> /\ todo[3] = <<"pci_scan">>
      /\ todo[4] = <<"driver", o[1]>> /\ todo[5] = <<"driver", o[2]>> /\ todo[6] = <<"driver", o[3]>>
  BY <1>1
<1>6. Todo = {<<"numa">>, <<"hostbridge">>, <<"pci_scan">>, <<"driver", o[1]>>,
              <<"driver", o[2]>>, <<"driver", o[3]>>}
  BY <1>1 DEF Todo, Range
<1>7. \A i, j \in 1 .. 6 : todo[i] = todo[j] => i = j
  BY <1>2, <1>4, <1>5
<1>8. \A x : Once(todo, {x})
  BY <1>4, <1>7 DEF Once
<1>9. /\ Rank(todo[1]) = 1 /\ Rank(todo[2]) = 2 /\ Rank(todo[3]) = 3
      /\ Rank(todo[4]) = 4 /\ Rank(todo[5]) = 4 /\ Rank(todo[6]) = 4
  BY <1>5, RankFacts
<1>10. Sorted
  <2> SUFFICES ASSUME NEW i \in 1 .. 6, NEW j \in 1 .. 6, i < j PROVE Rank(todo[i]) <= Rank(todo[j])
    BY <1>4 DEF Sorted
  <2> QED BY <1>4, <1>9
<1>11. /\ <<"pci_scan">> \in Todo /\ \A d \in Driver : <<"driver", d>> \in Todo
       /\ \A x \in Todo : x[1] \in {"numa", "hostbridge", "pci_scan", "driver"}
  BY <1>3, <1>6
<1>12. \A f \in Fn : Todo \cap Scans(f) = {} /\ Todo \cap Probes(f) = {}
  BY <1>11, MarkFacts
<1>13. /\ pci_device_list = <<>> /\ DOMAIN probed = Fn /\ \A f \in Fn : probed[f] = <<>>
  BY DEF Init, PciInit, Fn
<1>14. StageInv
  BY <1>8, <1>10, <1>11, <1>12, <1>13 DEF StageInv
<1>15. \A f \in Fn : Once(todo, Scans(f)) /\ Once(todo, Probes(f))
  BY <1>12, OnceNone DEF Todo
<1>16. ListInv
  <2>1. \A j, k \in DOMAIN pci_device_list : pci_device_list[j] = pci_device_list[k] => j = k
    BY <1>13
  <2> QED BY <2>1, <1>11, <1>12, <1>15 DEF ListInv, Listing
<1>17. ProbeInv
  <2>1. \A f \in Fn : \A d \in Driver : <<"probe", f, d>> \notin Todo
    BY <1>11
  <2> QED BY <2>1, <1>11, <1>12, <1>13, <1>15 DEF ProbeInv, Probing
<1> QED BY <1>14, <1>16, <1>17 DEF OnceInv

(* ProbedOnce: on any machine, for any order in which the linker puts the    *)
(* drivers, pci_probe is called for a function only when it is on            *)
(* pci_device_list, by a driver whose table has its id, and at most once;    *)
(* when do_init_call has returned, it has been called for every function     *)
(* that the scan covers and a driver knows.                                  *)
THEOREM ProbedTheorem == Spec => []ProbedOnce
<1>1. Init => TypeInv /\ OnceInv
  BY InitType, InitOnce
<1>2. TypeInv /\ OnceInv /\ [Next]_vars => (TypeInv /\ OnceInv)'
  BY TypeStep, NextOnce
<1>3. TypeInv /\ OnceInv => ProbedOnce
  <2> SUFFICES ASSUME TypeInv, OnceInv, NEW f \in Fn
               PROVE  /\ probed[f] # <<>> => f \in Range(pci_device_list)
                      /\ \A k \in DOMAIN probed[f] : Knows(probed[f][k], f)
                      /\ Len(probed[f]) <= 1
                      /\ (todo = <<>> /\ Hw(f).bus <= end_bus_number /\ \E d \in DOMAIN ids : Knows(d, f))
                            => Len(probed[f]) = 1
    BY DEF ProbedOnce
  <2>1. Probing(f) /\ Listing(f)
    BY DEF OnceInv, ProbeInv, ListInv
  <2>2. CASE probed[f] = <<>>
    <3>1. ASSUME todo = <<>>, Hw(f).bus <= end_bus_number, NEW d \in Driver, Knows(d, f)
          PROVE  FALSE
      <4>1. Todo = {}
        BY <3>1 DEF Todo, Range
      <4>2. f \in Range(pci_device_list)
        BY <4>1, <3>1, <2>1 DEF Listing
      <4> QED BY <4>1, <4>2, <3>1, <2>1, <2>2 DEF Probing
    <3>2. DOMAIN probed[f] = {} /\ Len(probed[f]) = 0
      BY <2>2
    <3> QED BY <3>1, <3>2, <2>2 DEF Driver
  <2>3. CASE probed[f] # <<>>
    <3>1. PICK d \in Driver : probed[f] = <<d>> /\ Knows(d, f) /\ f \in Range(pci_device_list)
      BY <2>1, <2>3 DEF Probing
    <3>2. DOMAIN probed[f] = {1} /\ probed[f][1] = d /\ Len(probed[f]) = 1
      BY <3>1
    <3> QED BY <3>1, <3>2
  <2> QED BY <2>2, <2>3
<1> QED BY <1>1, <1>2, <1>3, PTL DEF Spec

-------------------------------------------------------------------------------
(* The topology with one reachable node r.                                   *)
Shape(t, r) ==
    /\ {"node", "node_list", "nr_cpus"} \subseteq DOMAIN t
    /\ t.node_list = <<r>> /\ r \in DOMAIN t.node
    /\ {"cpus", "zones", "socket_id"} \subseteq DOMAIN t.node[r]

(* The list of its CPUs, which have the given cs, and their indices.        *)
Listed(t, r, cs) ==
    LET cpus == t.node[r].cpus IN
    /\ t.nr_cpus \in Nat /\ DOMAIN cpus = 1 .. t.nr_cpus
    /\ cpus \in Seq([index : Nat, id : cs])
    /\ \A k \in 1 .. t.nr_cpus : cpus[k].index = k - 1
    /\ \A id \in cs : \E k \in 1 .. t.nr_cpus : cpus[k].id = id

(* Its zones, which are disjoint and together are the given memory.          *)
Zone == [start : Nat, cnt : Nat]
Disjoint(zones) ==
    \A j, k \in DOMAIN zones : j # k => Span(zones[j]) \cap Span(zones[k]) = {}
Covering(zones, mem) ==
    /\ zones \in Seq(Zone) /\ Disjoint(zones)
    /\ UNION {Span(z) : z \in Range(zones)} = mem
Mapped(t, r, mem) == Covering(t.node[r].zones, mem)

(* A sequence over a set is one over a larger set.                           *)
LEMMA LargerSeq ==
    ASSUME NEW S, NEW T, S \subseteq T, NEW s \in Seq(S)
    PROVE  s \in Seq(T)
<1>1. s \in [1 .. Len(s) -> S] /\ Len(s) \in Nat
  OBVIOUS
<1>2. s \in [1 .. Len(s) -> T]
  BY <1>1
<1> QED BY <1>1, <1>2

(* register_cpu_remote puts the CPU at the end of the node's list, under the *)
(* next index.                                                               *)
LEMMA RegisterCpu ==
    ASSUME NEW t, NEW r, NEW cs, Shape(t, r), Listed(t, r, cs), NEW id
    PROVE  LET u == register_cpu_remote(t, id, r) IN
           /\ Shape(u, r) /\ Listed(u, r, cs \cup {id})
           /\ u.node[r].zones = t.node[r].zones /\ u.node[r].socket_id = t.node[r].socket_id
           /\ DOMAIN u.node = DOMAIN t.node
<1> DEFINE u == register_cpu_remote(t, id, r)
           new == [index |-> t.nr_cpus, id |-> id]
           cpus == t.node[r].cpus
<1>1. /\ DOMAIN u = DOMAIN t /\ DOMAIN u.node = DOMAIN t.node /\ DOMAIN u.node[r] = DOMAIN t.node[r]
      /\ u.nr_cpus = t.nr_cpus + 1 /\ u.node_list = t.node_list
      /\ u.node[r].cpus = Append(cpus, new)
      /\ u.node[r].zones = t.node[r].zones /\ u.node[r].socket_id = t.node[r].socket_id
  BY DEF register_cpu_remote, Shape
<1>2. Shape(u, r)
  <2> HIDE DEF u
  <2> QED BY <1>1 DEF Shape
<1>3. cpus \in Seq([index : Nat, id : cs]) /\ t.nr_cpus \in Nat /\ DOMAIN cpus = 1 .. t.nr_cpus
  BY DEF Listed
<1>4. Len(cpus) = t.nr_cpus
  BY <1>3
<1> DEFINE R(S) == [index : Nat, id : S]
<1>5. cpus \in Seq(R(cs \cup {id})) /\ new \in R(cs \cup {id})
  <2>1. new \in R(cs \cup {id})
    BY <1>3
  <2>2. R(cs) \subseteq R(cs \cup {id})
    OBVIOUS
  <2>3. cpus \in Seq(R(cs))
    BY <1>3
  <2> HIDE DEF cpus, R
  <2> QED BY <2>1, <2>2, <2>3, LargerSeq
<1> DEFINE all == Append(cpus, new)
<1>6. /\ all \in Seq([index : Nat, id : cs \cup {id}])
      /\ DOMAIN all = 1 .. t.nr_cpus + 1
      /\ \A k \in 1 .. t.nr_cpus : all[k] = cpus[k]
      /\ all[t.nr_cpus + 1] = new
  <2> HIDE DEF cpus, new
  <2> QED BY <1>3, <1>4, <1>5
<1>7. new.index = t.nr_cpus /\ new.id = id
  OBVIOUS
<1>8. /\ \A k \in 1 .. t.nr_cpus : cpus[k].index = k - 1
      /\ \A i \in cs : \E k \in 1 .. t.nr_cpus : cpus[k].id = i
  BY DEF Listed
<1> HIDE DEF all, cpus, new, u
<1>9. \A k \in 1 .. t.nr_cpus + 1 : k \in 1 .. t.nr_cpus \/ k = t.nr_cpus + 1
  BY <1>3
<1>10. \A k \in 1 .. t.nr_cpus : k \in 1 .. t.nr_cpus + 1
  BY <1>3
<1>11. t.nr_cpus + 1 \in 1 .. t.nr_cpus + 1 /\ t.nr_cpus + 1 \in Nat /\ (t.nr_cpus + 1) - 1 = t.nr_cpus
  BY <1>3
<1>12. \A k \in 1 .. t.nr_cpus + 1 : all[k].index = k - 1
  BY <1>6, <1>7, <1>8, <1>9, <1>11
<1>13. \A i \in cs \cup {id} : \E k \in 1 .. t.nr_cpus + 1 : all[k].id = i
  BY <1>6, <1>7, <1>8, <1>10, <1>11
<1>14. Listed(u, r, cs \cup {id})
  BY <1>1, <1>6, <1>11, <1>12, <1>13, ZenonT(60) DEF Listed, all
<1> QED BY <1>1, <1>2, <1>14 DEF u

(* Some position of a set of positions is the first.                         *)
LEMMA FirstOf ==
    ASSUME NEW K, K \subseteq Nat, K # {}
    PROVE  \E k \in K : \A j \in K : k <= j
<1>1. PICK k \in K : \A j \in K : ~(<<j, k>> \in Less)
  BY LessWellFounded, WFMin
<1>2. \A j \in K : j \in Nat /\ k \in Nat /\ ~(j < k)
  BY <1>1, LessIs
<1> QED BY <1>2

(* What a zone that grows covers.                                            *)
LEMMA GrownSpan ==
    ASSUME NEW old \in Zone, NEW z \in Zone,
           old.start + old.cnt = z.start \/ z.start + z.cnt = old.start
    PROVE  Grown(old, z) \in Zone /\ Span(Grown(old, z)) = Span(old) \cup Span(z)
<1>1. {old.start, old.cnt, z.start, z.cnt} \subseteq Nat
  BY DEF Zone
<1>2. CASE old.start + old.cnt = z.start
  <2>1. Grown(old, z) = [old EXCEPT !.cnt = old.cnt + z.cnt]
    BY <1>2 DEF Grown
  <2>2. Grown(old, z) \in Zone /\ Grown(old, z).start = old.start /\ Grown(old, z).cnt = old.cnt + z.cnt
    BY <2>1, <1>1 DEF Zone
  <2> QED BY <2>2, <1>1, <1>2 DEF Span
<1>3. CASE old.start + old.cnt # z.start
  <2>1. Grown(old, z) = [start |-> z.start, cnt |-> old.cnt + z.cnt]
    BY <1>3 DEF Grown
  <2>2. Grown(old, z) \in Zone /\ Grown(old, z).start = z.start /\ Grown(old, z).cnt = old.cnt + z.cnt
    BY <2>1, <1>1 DEF Zone
  <2> QED BY <2>2, <1>1, <1>3 DEF Span
<1> QED BY <1>2, <1>3

(* mm_zone_register adds the zone's memory, and keeps the zones disjoint.    *)
LEMMA RegisterZone ==
    ASSUME NEW t, NEW r, NEW mem, Shape(t, r), Mapped(t, r, mem),
           NEW z \in Zone, Span(z) \cap mem = {}
    PROVE  LET u == mm_zone_register(t, r, z) IN
           /\ Shape(u, r) /\ Mapped(u, r, mem \cup Span(z))
           /\ u.nr_cpus = t.nr_cpus /\ u.node[r].cpus = t.node[r].cpus
           /\ u.node[r].socket_id = t.node[r].socket_id /\ DOMAIN u.node = DOMAIN t.node
<1> DEFINE u == mm_zone_register(t, r, z)
           zones == t.node[r].zones
           K == Touching(zones, z)
           k == CHOOSE k \in K : \A j \in K : k <= j
           new == WithZone(zones, z)
<1>1. /\ DOMAIN u = DOMAIN t /\ DOMAIN u.node = DOMAIN t.node /\ DOMAIN u.node[r] = DOMAIN t.node[r]
      /\ u.nr_cpus = t.nr_cpus /\ u.node_list = t.node_list
      /\ u.node[r].zones = new
      /\ u.node[r].cpus = t.node[r].cpus /\ u.node[r].socket_id = t.node[r].socket_id
  <2> HIDE DEF new
  <2> QED BY DEF mm_zone_register, Shape, new
<1>8. /\ K = {} => new = Append(zones, z)
      /\ K # {} => new = [zones EXCEPT ![k] = Grown(zones[k], z)]
  BY DEF WithZone
<1> HIDE DEF u, new
<1>2. Shape(u, r)
  BY <1>1 DEF Shape
<1>3. /\ zones \in Seq(Zone) /\ Len(zones) \in Nat /\ DOMAIN zones = 1 .. Len(zones)
      /\ \A j \in DOMAIN zones : zones[j] \in Zone
      /\ Disjoint(zones)
      /\ UNION {Span(x) : x \in Range(zones)} = mem
  BY DEF Mapped, Covering
<1> HIDE DEF zones
<1>4. \A j \in DOMAIN zones : Span(zones[j]) \subseteq mem
  BY <1>3 DEF Range
<1>5. ASSUME K = {} PROVE Covering(new, mem \cup Span(z))
  <2>1. /\ new \in Seq(Zone) /\ DOMAIN new = 1 .. Len(zones) + 1
        /\ \A j \in DOMAIN zones : new[j] = zones[j]
        /\ new[Len(zones) + 1] = z
    BY <1>3, <1>5, <1>8
  <2>2. \A j \in DOMAIN new : j \in DOMAIN zones \/ j = Len(zones) + 1
    BY <1>3, <2>1
  <2>3. Disjoint(new)
    BY <2>1, <2>2, <1>3, <1>4 DEF Disjoint
  <2>4. Range(new) = Range(zones) \cup {z}
    <3>1. \A j \in DOMAIN zones : j \in DOMAIN new
      BY <1>3, <2>1
    <3>2. Len(zones) + 1 \in DOMAIN new
      BY <1>3, <2>1
    <3> QED BY <2>1, <2>2, <3>1, <3>2 DEF Range
  <2>5. UNION {Span(x) : x \in Range(new)} = mem \cup Span(z)
    BY <2>4, <1>3
  <2> QED BY <2>1, <2>3, <2>5 DEF Covering
<1>6. ASSUME K # {} PROVE Covering(new, mem \cup Span(z))
  <2>1. K \subseteq DOMAIN zones /\ K \subseteq Nat
    BY <1>3 DEF Touching
  <2>2. k \in K
    <3> HIDE DEF K
    <3> QED BY <2>1, <1>6, FirstOf
  <2>3. k \in DOMAIN zones /\ (zones[k].start + zones[k].cnt = z.start \/ z.start + z.cnt = zones[k].start)
    BY <2>2 DEF Touching
  <2> HIDE DEF k
  <2>4. Grown(zones[k], z) \in Zone /\ Span(Grown(zones[k], z)) = Span(zones[k]) \cup Span(z)
    BY <2>3, <1>3, GrownSpan
  <2>5. /\ new \in Seq(Zone) /\ DOMAIN new = DOMAIN zones
        /\ \A j \in DOMAIN zones : j # k => new[j] = zones[j]
        /\ Span(new[k]) = Span(zones[k]) \cup Span(z)
    <3>1. new = [zones EXCEPT ![k] = Grown(zones[k], z)]
      BY <1>6, <1>8
    <3>2. new \in Seq(Zone) /\ DOMAIN new = DOMAIN zones
      BY <3>1, <2>4, <1>3, <2>3
    <3>3. new[k] = Grown(zones[k], z) /\ \A j \in DOMAIN zones : j # k => new[j] = zones[j]
      BY <3>1, <2>3
    <3> QED BY <3>2, <3>3, <2>4
  <2> HIDE DEF K
  <2>6. Disjoint(new)
    <3> SUFFICES ASSUME NEW i \in DOMAIN zones, NEW j \in DOMAIN zones, i # j
                 PROVE  Span(new[i]) \cap Span(new[j]) = {}
      BY <2>5 DEF Disjoint
    <3>1. Span(zones[i]) \cap Span(zones[j]) = {}
      BY <1>3 DEF Disjoint
    <3> QED BY <3>1, <2>5, <1>4
  <2>7. UNION {Span(x) : x \in Range(new)} = mem \cup Span(z)
    <3>1. ASSUME NEW p PROVE p \in UNION {Span(x) : x \in Range(new)} <=> \E j \in DOMAIN zones : p \in Span(new[j])
      BY <2>5 DEF Range
    <3>2. ASSUME NEW p PROVE p \in mem <=> \E j \in DOMAIN zones : p \in Span(zones[j])
      BY <1>3 DEF Range
    <3>3. ASSUME NEW p
          PROVE  (\E j \in DOMAIN zones : p \in Span(new[j])) <=> (p \in mem \/ p \in Span(z))
      <4>1. (\E j \in DOMAIN zones : p \in Span(new[j])) => (p \in mem \/ p \in Span(z))
        BY <3>2, <2>5, <2>3
      <4>2. p \in Span(z) => \E j \in DOMAIN zones : p \in Span(new[j])
        BY <2>5, <2>3
      <4>3. p \in mem => \E j \in DOMAIN zones : p \in Span(new[j])
        BY <3>2, <2>5, <2>3
      <4> QED BY <4>1, <4>2, <4>3
    <3> QED BY <3>1, <3>3
  <2> QED BY <2>5, <2>6, <2>7 DEF Covering
<1> HIDE DEF K
<1>7. Mapped(u, r, mem \cup Span(z))
  BY <1>1, <1>5, <1>6, Zenon DEF Mapped
<1> QED BY <1>1, <1>2, <1>7 DEF u

(* What a table makes of the topology, entry by entry.                       *)
MadtRun(u, t, s) ==
    /\ u[0] = t /\ MadtCpus(t, s) = u[Len(s)]
    /\ \A k \in 1 .. Len(s) : u[k] = MadtEntry(u[k - 1], s, k)
ArdcRun(u, t, s) ==
    /\ u[0] = t /\ ArdcZones(t, s) = u[Len(s)]
    /\ \A k \in 1 .. Len(s) : u[k] = ArdcEntry(u[k - 1], s[k])
SratRun(u, s) ==
    /\ u[0] = NoDomain /\ SratNodes(s) = u[Len(s)].t
    /\ \A k \in 1 .. Len(s) : u[k] = SratEntry(u[k - 1], s[k])

(* The recursion of MadtCpus.                                                *)
LEMMA MadtCpusSteps ==
    ASSUME NEW t, NEW s, Len(s) \in Nat
    PROVE  \E u : MadtRun(u, t, s)
<1> DEFINE E(n) == \E f : f = [k \in 0 .. n |-> IF k = 0 THEN t ELSE MadtEntry(f[k - 1], s, k)]
           T == {n \in Nat : E(n)}
<1>1. 0 \in T
  <2> DEFINE g == [k \in 0 .. 0 |-> t]
  <2>1. g = [k \in 0 .. 0 |-> IF k = 0 THEN t ELSE MadtEntry(g[k - 1], s, k)]
    OBVIOUS
  <2> QED BY <2>1
<1>2. ASSUME NEW n \in 0 .. Len(s) - 1, n \in T
      PROVE  n + 1 \in T
  <2>1. PICK f : f = [k \in 0 .. n |-> IF k = 0 THEN t ELSE MadtEntry(f[k - 1], s, k)]
    BY <1>2
  <2> DEFINE g == [k \in 0 .. n + 1 |-> IF k = 0 THEN t ELSE MadtEntry(f[k - 1], s, k)]
  <2>2. \A k \in 0 .. n : g[k] = f[k]
    <3> TAKE k \in 0 .. n
    <3>1. f[k] = IF k = 0 THEN t ELSE MadtEntry(f[k - 1], s, k)
      BY <2>1
    <3> QED BY <3>1
  <2>3. \A k \in 0 .. n + 1 : k # 0 => g[k - 1] = f[k - 1]
    <3> HIDE DEF g
    <3> QED BY <2>2
  <2>4. g = [k \in 0 .. n + 1 |-> IF k = 0 THEN t ELSE MadtEntry(g[k - 1], s, k)]
    BY <2>3
  <2>5. E(n + 1)
    <3> HIDE DEF g
    <3> QED BY <2>4
  <2>6. n + 1 \in Nat
    OBVIOUS
  <2> HIDE DEF E
  <2> QED BY <2>5, <2>6
<1>3. Len(s) \in T
  <2> HIDE DEF T
  <2>1. PICK N \in Nat : N = Len(s)
    OBVIOUS
  <2>2. \A n \in 0 .. N - 1 : n \in T => n + 1 \in T
    BY <1>2, <2>1
  <2>3. \A n \in 0 .. N : n \in T
    BY <1>1, <2>2, UpTo
  <2> QED BY <2>1, <2>3
<1> DEFINE u == CHOOSE f : f = [k \in 0 .. Len(s) |-> IF k = 0 THEN t ELSE MadtEntry(f[k - 1], s, k)]
<1>4. u = [k \in 0 .. Len(s) |-> IF k = 0 THEN t ELSE MadtEntry(u[k - 1], s, k)]
  BY <1>3, Zenon
<1>5. MadtCpus(t, s) = u[Len(s)]
  BY Zenon DEF MadtCpus
<1> HIDE DEF u
<1> QED BY <1>4, <1>5 DEF MadtRun

(* The recursion of ArdcZones.                                               *)
LEMMA ArdcZonesSteps ==
    ASSUME NEW t, NEW s, Len(s) \in Nat
    PROVE  \E u : ArdcRun(u, t, s)
<1> DEFINE E(n) == \E f : f = [k \in 0 .. n |-> IF k = 0 THEN t ELSE ArdcEntry(f[k - 1], s[k])]
           T == {n \in Nat : E(n)}
<1>1. 0 \in T
  <2> DEFINE g == [k \in 0 .. 0 |-> t]
  <2>1. g = [k \in 0 .. 0 |-> IF k = 0 THEN t ELSE ArdcEntry(g[k - 1], s[k])]
    OBVIOUS
  <2> QED BY <2>1
<1>2. ASSUME NEW n \in 0 .. Len(s) - 1, n \in T
      PROVE  n + 1 \in T
  <2>1. PICK f : f = [k \in 0 .. n |-> IF k = 0 THEN t ELSE ArdcEntry(f[k - 1], s[k])]
    BY <1>2
  <2> DEFINE g == [k \in 0 .. n + 1 |-> IF k = 0 THEN t ELSE ArdcEntry(f[k - 1], s[k])]
  <2>2. \A k \in 0 .. n : g[k] = f[k]
    <3> TAKE k \in 0 .. n
    <3>1. f[k] = IF k = 0 THEN t ELSE ArdcEntry(f[k - 1], s[k])
      BY <2>1
    <3> QED BY <3>1
  <2>3. \A k \in 0 .. n + 1 : k # 0 => g[k - 1] = f[k - 1]
    <3> HIDE DEF g
    <3> QED BY <2>2
  <2>4. g = [k \in 0 .. n + 1 |-> IF k = 0 THEN t ELSE ArdcEntry(g[k - 1], s[k])]
    BY <2>3
  <2>5. E(n + 1)
    <3> HIDE DEF g
    <3> QED BY <2>4
  <2>6. n + 1 \in Nat
    OBVIOUS
  <2> HIDE DEF E
  <2> QED BY <2>5, <2>6
<1>3. Len(s) \in T
  <2> HIDE DEF T
  <2>1. PICK N \in Nat : N = Len(s)
    OBVIOUS
  <2>2. \A n \in 0 .. N - 1 : n \in T => n + 1 \in T
    BY <1>2, <2>1
  <2>3. \A n \in 0 .. N : n \in T
    BY <1>1, <2>2, UpTo
  <2> QED BY <2>1, <2>3
<1> DEFINE u == CHOOSE f : f = [k \in 0 .. Len(s) |-> IF k = 0 THEN t ELSE ArdcEntry(f[k - 1], s[k])]
<1>4. u = [k \in 0 .. Len(s) |-> IF k = 0 THEN t ELSE ArdcEntry(u[k - 1], s[k])]
  BY <1>3, Zenon
<1>5. ArdcZones(t, s) = u[Len(s)]
  BY Zenon DEF ArdcZones
<1> HIDE DEF u
<1> QED BY <1>4, <1>5 DEF ArdcRun

(* The recursion of SratNodes.                                               *)
LEMMA SratNodesSteps ==
    ASSUME NEW s, Len(s) \in Nat
    PROVE  \E u : SratRun(u, s)
<1> DEFINE E(n) == \E f : f = [k \in 0 .. n |-> IF k = 0 THEN NoDomain ELSE SratEntry(f[k - 1], s[k])]
           T == {n \in Nat : E(n)}
<1>1. 0 \in T
  <2> DEFINE g == [k \in 0 .. 0 |-> NoDomain]
  <2>1. g = [k \in 0 .. 0 |-> IF k = 0 THEN NoDomain ELSE SratEntry(g[k - 1], s[k])]
    OBVIOUS
  <2> QED BY <2>1
<1>2. ASSUME NEW n \in 0 .. Len(s) - 1, n \in T
      PROVE  n + 1 \in T
  <2>1. PICK f : f = [k \in 0 .. n |-> IF k = 0 THEN NoDomain ELSE SratEntry(f[k - 1], s[k])]
    BY <1>2
  <2> DEFINE g == [k \in 0 .. n + 1 |-> IF k = 0 THEN NoDomain ELSE SratEntry(f[k - 1], s[k])]
  <2>2. \A k \in 0 .. n : g[k] = f[k]
    <3> TAKE k \in 0 .. n
    <3>1. f[k] = IF k = 0 THEN NoDomain ELSE SratEntry(f[k - 1], s[k])
      BY <2>1
    <3> QED BY <3>1
  <2>3. \A k \in 0 .. n + 1 : k # 0 => g[k - 1] = f[k - 1]
    <3> HIDE DEF g
    <3> QED BY <2>2
  <2>4. g = [k \in 0 .. n + 1 |-> IF k = 0 THEN NoDomain ELSE SratEntry(g[k - 1], s[k])]
    BY <2>3
  <2>5. E(n + 1)
    <3> HIDE DEF g
    <3> QED BY <2>4
  <2>6. n + 1 \in Nat
    OBVIOUS
  <2> HIDE DEF E
  <2> QED BY <2>5, <2>6
<1>3. Len(s) \in T
  <2> HIDE DEF T
  <2>1. PICK N \in Nat : N = Len(s)
    OBVIOUS
  <2>2. \A n \in 0 .. N - 1 : n \in T => n + 1 \in T
    BY <1>2, <2>1
  <2>3. \A n \in 0 .. N : n \in T
    BY <1>1, <2>2, UpTo
  <2> QED BY <2>1, <2>3
<1> DEFINE u == CHOOSE f : f = [k \in 0 .. Len(s) |-> IF k = 0 THEN NoDomain ELSE SratEntry(f[k - 1], s[k])]
<1>4. u = [k \in 0 .. Len(s) |-> IF k = 0 THEN NoDomain ELSE SratEntry(u[k - 1], s[k])]
  BY <1>3, Zenon
<1>5. SratNodes(s) = u[Len(s)].t
  BY Zenon DEF SratNodes
<1> HIDE DEF u
<1> QED BY <1>4, <1>5 DEF SratRun

(* The ids of the entries of a MADT up to one, and of those of an SRAT; the  *)
(* memory of the entries of a memory map or an SRAT.                         *)
Enabled(s, k) == Visited(s, k) /\ s[k].type = "lapic" /\ s[k].enabled
MadtIds(s, n) == {s[k].id : k \in {k \in 1 .. n : Enabled(s, k)}}
SratIds(s, n) == {s[k].id : k \in {k \in 1 .. n : s[k].type = "cpu" /\ s[k].enabled}}
Memory(s, n, kinds) == UNION {Covers(s[k]) : k \in {k \in 1 .. n : s[k].type \in kinds}}

(* One more index.                                                           *)
LEMMA NextIndex ==
    ASSUME NEW n \in Nat
    PROVE  /\ \A k : k \in 1 .. n + 1 <=> (k \in 1 .. n \/ k = n + 1)
           /\ n + 1 \in 1 .. n + 1 /\ n + 1 \notin 1 .. n /\ (n + 1) - 1 = n /\ n + 1 # 0
OBVIOUS

(* The CPUs of the MADT.                                                     *)
LEMMA MadtListed ==
    ASSUME NEW t, Shape(t, 2), Listed(t, 2, {}), NEW s, Len(s) \in Nat
    PROVE  LET u == MadtCpus(t, s) IN
           /\ Shape(u, 2) /\ Listed(u, 2, MadtIds(s, Len(s)))
           /\ u.node[2].zones = t.node[2].zones
<1>0. PICK u : MadtRun(u, t, s)
  BY MadtCpusSteps, Zenon
<1>1. /\ u[0] = t /\ MadtCpus(t, s) = u[Len(s)]
      /\ \A k \in 1 .. Len(s) : u[k] = MadtEntry(u[k - 1], s, k)
  BY <1>0, Zenon DEF MadtRun
<1>2. PICK N \in Nat : N = Len(s)
  OBVIOUS
<1> DEFINE P(n) == /\ Shape(u[n], 2) /\ Listed(u[n], 2, MadtIds(s, n))
                   /\ u[n].node[2].zones = t.node[2].zones
           T == {n \in Nat : P(n)}
<1>3. 0 \in T
  <2>1. MadtIds(s, 0) = {}
    BY DEF MadtIds
  <2>2. P(0)
    BY <2>1, <1>1
  <2> HIDE DEF P
  <2> QED BY <2>2
<1>4. ASSUME NEW n \in 0 .. N - 1, n \in T
      PROVE  n + 1 \in T
  <2>1. n \in Nat /\ n + 1 \in Nat /\ n + 1 \in 1 .. N
    OBVIOUS
  <2>2. P(n)
    BY <1>4
  <2>3. u[n + 1] = MadtEntry(u[n], s, n + 1)
    <3>1. u[n + 1] = MadtEntry(u[(n + 1) - 1], s, n + 1)
      BY <1>1, <1>2, <2>1
    <3> QED BY <3>1, <2>1, NextIndex
  <2>4. CASE Enabled(s, n + 1)
    <3>1. u[n + 1] = register_cpu_remote(u[n], s[n + 1].id, 2)
      BY <2>3, <2>4 DEF MadtEntry, Enabled
    <3>2. MadtIds(s, n + 1) = MadtIds(s, n) \cup {s[n + 1].id}
      BY <2>1, <2>4, NextIndex DEF MadtIds
    <3>3. /\ Shape(u[n + 1], 2) /\ Listed(u[n + 1], 2, MadtIds(s, n) \cup {s[n + 1].id})
          /\ u[n + 1].node[2].zones = u[n].node[2].zones
      <4>1. PICK v, id, S : v = u[n] /\ id = s[n + 1].id /\ S = MadtIds(s, n)
        OBVIOUS
      <4>2. Shape(v, 2) /\ Listed(v, 2, S) /\ u[n + 1] = register_cpu_remote(v, id, 2)
        BY <4>1, <3>1, <2>2
      <4>3. /\ Shape(register_cpu_remote(v, id, 2), 2)
            /\ Listed(register_cpu_remote(v, id, 2), 2, S \cup {id})
            /\ register_cpu_remote(v, id, 2).node[2].zones = v.node[2].zones
        BY <4>2, RegisterCpu
      <4> QED BY <4>1, <4>2, <4>3
    <3>4. P(n + 1)
      BY <3>2, <3>3, <2>2
    <3> HIDE DEF P
    <3> QED BY <3>4, <2>1
  <2>5. CASE ~Enabled(s, n + 1)
    <3>1. u[n + 1] = u[n]
      BY <2>3, <2>5 DEF MadtEntry, Enabled
    <3>2. MadtIds(s, n + 1) = MadtIds(s, n)
      BY <2>1, <2>5, NextIndex DEF MadtIds
    <3>3. P(n + 1)
      BY <3>1, <3>2, <2>2
    <3> HIDE DEF P
    <3> QED BY <3>3, <2>1
  <2> QED BY <2>4, <2>5
<1> HIDE DEF T
<1>5. \A n \in 0 .. N : n \in T
  BY <1>3, <1>4, UpTo
<1>6. N \in T
  BY <1>5
<1> QED BY <1>1, <1>2, <1>6 DEF T

(* One more memory area, apart from those before it.                         *)
LEMMA NextArea ==
    ASSUME NEW s, DOMAIN s = 1 .. Len(s), Len(s) \in Nat, NEW kinds, Apart(s, kinds),
           NEW n \in Nat, n + 1 \in 1 .. Len(s)
    PROVE  /\ s[n + 1].type \in kinds =>
                 /\ Memory(s, n + 1, kinds) = Memory(s, n, kinds) \cup Covers(s[n + 1])
                 /\ Covers(s[n + 1]) \cap Memory(s, n, kinds) = {}
           /\ s[n + 1].type \notin kinds => Memory(s, n + 1, kinds) = Memory(s, n, kinds)
<1>1. \A k : k \in 1 .. n + 1 <=> (k \in 1 .. n \/ k = n + 1)
  BY NextIndex
<1>2. \A k \in 1 .. n : k \in 1 .. Len(s) /\ k # n + 1
  OBVIOUS
<1>3. ASSUME s[n + 1].type \in kinds PROVE Memory(s, n + 1, kinds) = Memory(s, n, kinds) \cup Covers(s[n + 1])
  BY <1>1, <1>3, Zenon DEF Memory
<1>4. ASSUME s[n + 1].type \in kinds PROVE Covers(s[n + 1]) \cap Memory(s, n, kinds) = {}
  <2>1. ASSUME NEW k \in 1 .. n, s[k].type \in kinds
        PROVE  Covers(s[n + 1]) \cap Covers(s[k]) = {}
    BY <2>1, <1>2, <1>4 DEF Apart
  <2> QED BY <2>1 DEF Memory
<1>5. ASSUME s[n + 1].type \notin kinds PROVE Memory(s, n + 1, kinds) = Memory(s, n, kinds)
  BY <1>1, <1>5 DEF Memory
<1> QED BY <1>3, <1>4, <1>5

(* The zone made of an entry covers its area.                                *)
LEMMA AreaSpan ==
    ASSUME NEW e, {e.base, e.len} \subseteq Nat
    PROVE  /\ [start |-> e.base, cnt |-> e.len] \in Zone
           /\ Span([start |-> e.base, cnt |-> e.len]) = Covers(e)
BY DEF Zone, Span, Covers

(* The zones of the memory map.                                              *)
LEMMA ArdcMapped ==
    ASSUME NEW t, Shape(t, 2), Mapped(t, 2, {}), NEW s, DOMAIN s = 1 .. Len(s), Len(s) \in Nat,
           Apart(s, {1, 2}), \A k \in DOMAIN s : {s[k].base, s[k].len} \subseteq Nat
    PROVE  LET u == ArdcZones(t, s) IN
           /\ Shape(u, 2) /\ Mapped(u, 2, Memory(s, Len(s), {1, 2}))
           /\ u.node[2].cpus = t.node[2].cpus /\ u.nr_cpus = t.nr_cpus
<1>0. PICK u : ArdcRun(u, t, s)
  BY ArdcZonesSteps, Zenon
<1>1. /\ u[0] = t /\ ArdcZones(t, s) = u[Len(s)]
      /\ \A k \in 1 .. Len(s) : u[k] = ArdcEntry(u[k - 1], s[k])
  BY <1>0, Zenon DEF ArdcRun
<1>2. PICK N \in Nat : N = Len(s)
  OBVIOUS
<1> DEFINE P(n) == /\ Shape(u[n], 2) /\ Mapped(u[n], 2, Memory(s, n, {1, 2}))
                   /\ u[n].node[2].cpus = t.node[2].cpus /\ u[n].nr_cpus = t.nr_cpus
           T == {n \in Nat : P(n)}
<1>3. 0 \in T
  <2>1. Memory(s, 0, {1, 2}) = {}
    BY DEF Memory
  <2>2. P(0)
    BY <2>1, <1>1
  <2> HIDE DEF P
  <2> QED BY <2>2
<1>4. ASSUME NEW n \in 0 .. N - 1, n \in T
      PROVE  n + 1 \in T
  <2>1. n \in Nat /\ n + 1 \in Nat /\ n + 1 \in 1 .. N
    OBVIOUS
  <2>2. P(n)
    BY <1>4
  <2>3. u[n + 1] = ArdcEntry(u[n], s[n + 1])
    <3>1. u[n + 1] = ArdcEntry(u[(n + 1) - 1], s[n + 1])
      BY <1>1, <1>2, <2>1
    <3> QED BY <3>1, <2>1, NextIndex
  <2>4. n + 1 \in 1 .. Len(s) /\ {s[n + 1].base, s[n + 1].len} \subseteq Nat
    BY <2>1, <1>2
  <2> DEFINE z == [start |-> s[n + 1].base, cnt |-> s[n + 1].len]
  <2>5. z \in Zone /\ Span(z) = Covers(s[n + 1])
    BY <2>4, AreaSpan
  <2> HIDE DEF z
  <2>6. CASE s[n + 1].type \in {1, 2}
    <3>1. u[n + 1] = mm_zone_register(u[n], 2, z)
      BY <2>3, <2>6 DEF ArdcEntry, z
    <3>2. /\ Memory(s, n + 1, {1, 2}) = Memory(s, n, {1, 2}) \cup Span(z)
          /\ Span(z) \cap Memory(s, n, {1, 2}) = {}
      <4>1. /\ Memory(s, n + 1, {1, 2}) = Memory(s, n, {1, 2}) \cup Covers(s[n + 1])
            /\ Covers(s[n + 1]) \cap Memory(s, n, {1, 2}) = {}
        BY <2>1, <2>4, <2>6, NextArea, Zenon
      <4> QED BY <4>1, <2>5
    <3>3. /\ Shape(u[n + 1], 2) /\ Mapped(u[n + 1], 2, Memory(s, n, {1, 2}) \cup Span(z))
          /\ u[n + 1].node[2].cpus = u[n].node[2].cpus /\ u[n + 1].nr_cpus = u[n].nr_cpus
      <4>1. PICK v, S : v = u[n] /\ S = Memory(s, n, {1, 2})
        OBVIOUS
      <4>2. /\ Shape(v, 2) /\ Mapped(v, 2, S) /\ Span(z) \cap S = {}
            /\ u[n + 1] = mm_zone_register(v, 2, z)
        BY <4>1, <3>1, <3>2, <2>2
      <4>3. /\ Shape(mm_zone_register(v, 2, z), 2)
            /\ Mapped(mm_zone_register(v, 2, z), 2, S \cup Span(z))
            /\ mm_zone_register(v, 2, z).node[2].cpus = v.node[2].cpus
            /\ mm_zone_register(v, 2, z).nr_cpus = v.nr_cpus
        BY <4>2, <2>5, RegisterZone, SMTT(30)
      <4> QED BY <4>1, <4>2, <4>3
    <3>4. P(n + 1)
      BY <3>2, <3>3, <2>2
    <3> HIDE DEF P
    <3> QED BY <3>4, <2>1
  <2>7. CASE s[n + 1].type \notin {1, 2}
    <3>1. u[n + 1] = u[n]
      BY <2>3, <2>7 DEF ArdcEntry
    <3>2. Memory(s, n + 1, {1, 2}) = Memory(s, n, {1, 2})
      BY <2>1, <2>4, <2>7, NextArea
    <3>3. P(n + 1)
      BY <3>1, <3>2, <2>2
    <3> HIDE DEF P
    <3> QED BY <3>3, <2>1
  <2> QED BY <2>6, <2>7
<1> HIDE DEF T
<1>5. \A n \in 0 .. N : n \in T
  BY <1>3, <1>4, UpTo
<1>6. N \in T
  BY <1>5
<1> QED BY <1>1, <1>2, <1>6 DEF T

(* What the SRAT's entries have built when their domain d has its node.      *)
Domain(v, d, cs, mem) ==
    /\ {"t", "n", "seen"} \subseteq DOMAIN v /\ v.seen = {d}
    /\ Shape(v.t, 1) /\ Listed(v.t, 1, cs) /\ Mapped(v.t, 1, mem)
    /\ v.t.node[1].socket_id = d

(* The first entry makes the node.                                           *)
LEMMA DomainFirst ==
    ASSUME NEW d
    PROVE  Domain(DomainNode(NoDomain, d), d, {}, {}) /\ DomainNode(NoDomain, d).n = 1
<1> DEFINE new == [socket_id |-> 0, cpus |-> <<>>, zones |-> <<>>]
           t0 == [node |-> <<new>>, node_list |-> <<>>, nr_cpus |-> 0]
           t1 == [node |-> <<[new EXCEPT !.socket_id = d]>>, node_list |-> <<1>>, nr_cpus |-> 0]
<1>1. mm_node_init(NoNode) = t0
  <2>1. NewNode(NoNode) = [node |-> <<new>>, node_list |-> <<>>, nr_cpus |-> 0]
    BY DEF NewNode, NoNode
  <2> QED BY <2>1 DEF mm_node_init
<1>2. Len(t0.node) = 1 /\ t0.node = <<new>> /\ t0.node_list = <<>>
  OBVIOUS
<1>3. mm_node_register(t0, 1, d) = t1
  <2>1. [t0.node EXCEPT ![1].socket_id = d] = <<[new EXCEPT !.socket_id = d]>>
    BY <1>2
  <2>2. Append(t0.node_list, 1) = <<1>>
    BY <1>2
  <2>3. mm_node_register(t0, 1, d) = [t0 EXCEPT !.node_list = Append(t0.node_list, 1),
                                               !.node = [t0.node EXCEPT ![1].socket_id = d]]
    BY DEF mm_node_register
  <2> QED BY <2>1, <2>2, <2>3
<1>4. DomainNode(NoDomain, d) = [t |-> t1, n |-> 1, seen |-> {d}]
  <2>1. NoDomain.t = NoNode /\ NoDomain.seen = {}
    BY DEF NoDomain
  <2>2. DomainNode(NoDomain, d) = [t |-> mm_node_register(t0, Len(t0.node), d), n |-> Len(t0.node),
                                  seen |-> NoDomain.seen \cup {d}]
    BY <1>1, <2>1 DEF DomainNode
  <2> HIDE DEF t0, t1
  <2> QED BY <2>1, <2>2, <1>2, <1>3
<1>5. /\ t1.node_list = <<1>> /\ t1.nr_cpus = 0 /\ 1 \in DOMAIN t1.node
      /\ t1.node[1] = [new EXCEPT !.socket_id = d] /\ DOMAIN t1 = {"node", "node_list", "nr_cpus"}
  OBVIOUS
<1>6. /\ DOMAIN t1.node[1] = {"socket_id", "cpus", "zones"}
      /\ t1.node[1].cpus = <<>> /\ t1.node[1].zones = <<>> /\ t1.node[1].socket_id = d
  BY <1>5
<1> HIDE DEF t1
<1>7. Shape(t1, 1)
  BY <1>5, <1>6 DEF Shape
<1>8. Listed(t1, 1, {})
  BY <1>5, <1>6 DEF Listed
<1>9. Mapped(t1, 1, {})
  BY <1>6 DEF Mapped, Covering, Disjoint, Range
<1> QED BY <1>4, <1>6, <1>7, <1>8, <1>9 DEF Domain

(* Every later one finds it.                                                 *)
LEMMA DomainAgain ==
    ASSUME NEW d, NEW cs, NEW mem, NEW v, Domain(v, d, cs, mem)
    PROVE  Domain(DomainNode(v, d), d, cs, mem) /\ DomainNode(v, d).n = 1
<1> DEFINE t == v.t
           is == {k \in DOMAIN t.node_list : t.node[t.node_list[k]].socket_id = d}
<1>1. DomainNode(v, d) = [v EXCEPT !.n = mm_get_node_by_id(v.t, d)]
  BY DEF DomainNode, Domain
<1>2. t.node_list = <<1>> /\ t.node[1].socket_id = d
  BY DEF Domain, Shape
<1>3. is = {1} /\ t.node_list[1] = 1
  BY <1>2
<1>4. (CHOOSE k \in is : \A j \in is : k <= j) = 1
  <2> HIDE DEF is
  <2> QED BY <1>3
<1>5. mm_get_node_by_id(v.t, d) = 1
  <2>1. mm_get_node_by_id(v.t, d) =
          IF is = {} THEN 0 ELSE t.node_list[CHOOSE k \in is : \A j \in is : k <= j]
    BY DEF mm_get_node_by_id
  <2> HIDE DEF is, t
  <2> QED BY <1>3, <1>4, <2>1
<1>6. DomainNode(v, d) = [v EXCEPT !.n = 1]
  BY <1>1, <1>5
<1>7. /\ DomainNode(v, d).t = v.t /\ DomainNode(v, d).seen = v.seen /\ DomainNode(v, d).n = 1
      /\ DOMAIN DomainNode(v, d) = DOMAIN v
  BY <1>6 DEF Domain
<1> QED BY <1>7 DEF Domain

(* An entry for a CPU or for memory adds it to the node.                     *)
LEMMA SratAdds ==
    ASSUME NEW d, NEW cs, NEW mem, NEW v, NEW e, e.domain = d,
           Domain(v, d, cs, mem) \/ (v = NoDomain /\ cs = {} /\ mem = {})
    PROVE  /\ e.type = "cpu" /\ e.enabled => Domain(SratEntry(v, e), d, cs \cup {e.id}, mem)
           /\ (e.type = "mem" /\ e.len # 0 /\ {e.base, e.len} \subseteq Nat /\ Covers(e) \cap mem = {}) =>
                 Domain(SratEntry(v, e), d, cs, mem \cup Covers(e))
<1> DEFINE u == DomainNode(v, d)
<1>1. Domain(u, d, cs, mem) /\ u.n = 1
  BY DomainFirst, DomainAgain
<1>2. ASSUME e.type = "cpu", e.enabled PROVE Domain(SratEntry(v, e), d, cs \cup {e.id}, mem)
  <2>1. SratEntry(v, e) = [u EXCEPT !.t = register_cpu_remote(u.t, e.id, 1)]
    BY <1>1, <1>2 DEF SratEntry
  <2> HIDE DEF u
  <2>2. PICK t, id : t = u.t /\ id = e.id
    OBVIOUS
  <2>3. Shape(t, 1) /\ Listed(t, 1, cs) /\ Mapped(t, 1, mem) /\ t.node[1].socket_id = d
    BY <1>1, <2>2 DEF Domain
  <2> DEFINE w == register_cpu_remote(t, id, 1)
  <2>4. /\ Shape(w, 1) /\ Listed(w, 1, cs \cup {id}) /\ w.node[1].zones = t.node[1].zones
        /\ w.node[1].socket_id = t.node[1].socket_id
    BY <2>3, RegisterCpu
  <2> HIDE DEF w
  <2>5. /\ SratEntry(v, e).t = w /\ SratEntry(v, e).seen = u.seen
        /\ DOMAIN SratEntry(v, e) = DOMAIN u
    BY <2>1, <2>2, <1>1 DEF w, Domain
  <2>6. Mapped(w, 1, mem)
    BY <2>3, <2>4 DEF Mapped
  <2> QED BY <2>2, <2>3, <2>4, <2>5, <2>6, <1>1 DEF Domain
<1>3. ASSUME e.type = "mem", e.len # 0, {e.base, e.len} \subseteq Nat, Covers(e) \cap mem = {}
      PROVE  Domain(SratEntry(v, e), d, cs, mem \cup Covers(e))
  <2> DEFINE new == [start |-> e.base, cnt |-> e.len]
  <2>1. SratEntry(v, e) = [u EXCEPT !.t = mm_zone_register(u.t, 1, new)]
    BY <1>1, <1>3 DEF SratEntry
  <2>2. new \in Zone /\ Span(new) = Covers(e)
    BY <1>3, AreaSpan
  <2> HIDE DEF u, new
  <2>3. PICK t, z : t = u.t /\ z = new /\ z \in Zone
    BY <2>2
  <2>4. /\ Shape(t, 1) /\ Listed(t, 1, cs) /\ Mapped(t, 1, mem) /\ t.node[1].socket_id = d
        /\ Span(z) \cap mem = {}
    BY <1>1, <1>3, <2>2, <2>3 DEF Domain
  <2> DEFINE w == mm_zone_register(t, 1, z)
  <2>5. /\ Shape(w, 1) /\ Mapped(w, 1, mem \cup Span(z)) /\ w.node[1].cpus = t.node[1].cpus
        /\ w.nr_cpus = t.nr_cpus /\ w.node[1].socket_id = t.node[1].socket_id
    BY <2>3, <2>4, RegisterZone
  <2> HIDE DEF w
  <2>6. /\ SratEntry(v, e).t = w /\ SratEntry(v, e).seen = u.seen
        /\ DOMAIN SratEntry(v, e) = DOMAIN u
    BY <2>1, <2>3, <1>1 DEF w, Domain
  <2>7. Listed(w, 1, cs)
    BY <2>4, <2>5 DEF Listed
  <2>8. mem \cup Span(z) = mem \cup Covers(e)
    BY <2>2, <2>3
  <2> QED BY <2>4, <2>5, <2>6, <2>7, <2>8, <1>1 DEF Domain
<1> QED BY <1>2, <1>3

(* Another entry adds nothing.                                               *)
LEMMA SratSkips ==
    ASSUME NEW v, NEW e, ~(e.type = "cpu" /\ e.enabled), ~(e.type = "mem" /\ e.len # 0)
    PROVE  SratEntry(v, e) = v
BY DEF SratEntry
(* The CPUs and zones of an SRAT with one proximity domain.                  *)
LEMMA SratBuilt ==
    ASSUME NEW s, DOMAIN s = 1 .. Len(s), Len(s) \in Nat, NEW d,
           \A k \in DOMAIN s : s[k].domain = d, Apart(s, {"mem"}),
           \A k \in DOMAIN s : s[k].type = "mem" => {s[k].base, s[k].len} \subseteq Nat
    PROVE  LET cs == SratIds(s, Len(s))  mem == Memory(s, Len(s), {"mem"}) IN
           \/ SratNodes(s) = NoNode /\ cs = {} /\ mem = {}
           \/ Shape(SratNodes(s), 1) /\ Listed(SratNodes(s), 1, cs) /\ Mapped(SratNodes(s), 1, mem)
<1>0. PICK u : SratRun(u, s)
  BY SratNodesSteps, Zenon
<1>1. /\ u[0] = NoDomain /\ SratNodes(s) = u[Len(s)].t
      /\ \A k \in 1 .. Len(s) : u[k] = SratEntry(u[k - 1], s[k])
  BY <1>0, Zenon DEF SratRun
<1>2. PICK N \in Nat : N = Len(s)
  OBVIOUS
<1> DEFINE C(n) == SratIds(s, n)
           M(n) == Memory(s, n, {"mem"})
           P(n) == Domain(u[n], d, C(n), M(n)) \/ (u[n] = NoDomain /\ C(n) = {} /\ M(n) = {})
           T == {n \in Nat : P(n)}
<1>3. 0 \in T
  <2>1. C(0) = {} /\ M(0) = {}
    BY DEF SratIds, Memory
  <2>2. P(0)
    BY <2>1, <1>1
  <2> HIDE DEF P
  <2> QED BY <2>2
<1>4. ASSUME NEW n \in 0 .. N - 1, n \in T
      PROVE  n + 1 \in T
  <2>1. n \in Nat /\ n + 1 \in Nat /\ n + 1 \in 1 .. N
    OBVIOUS
  <2>2. P(n)
    BY <1>4
  <2>3. u[n + 1] = SratEntry(u[n], s[n + 1])
    <3>1. u[n + 1] = SratEntry(u[(n + 1) - 1], s[n + 1])
      BY <1>1, <1>2, <2>1
    <3> QED BY <3>1, <2>1, NextIndex
  <2>4. PICK v, e, cs, mem : v = u[n] /\ e = s[n + 1] /\ cs = C(n) /\ mem = M(n)
    OBVIOUS
  <2>5. n + 1 \in 1 .. Len(s) /\ n + 1 \in DOMAIN s
    BY <2>1, <1>2
  <2>6. e.domain = d /\ (e.type = "mem" => {e.base, e.len} \subseteq Nat)
    BY <2>4, <2>5
  <2>7. /\ e.type \in {"mem"} => M(n + 1) = mem \cup Covers(e) /\ Covers(e) \cap mem = {}
        /\ e.type \notin {"mem"} => M(n + 1) = mem
    BY <2>1, <2>4, <2>5, NextArea, ZenonT(40)
  <2>8. C(n + 1) = IF e.type = "cpu" /\ e.enabled THEN cs \cup {e.id} ELSE cs
    <3>1. CASE e.type = "cpu" /\ e.enabled
      BY <3>1, <2>1, <2>4, NextIndex DEF SratIds
    <3>2. CASE ~(e.type = "cpu" /\ e.enabled)
      <4>1. ~(s[n + 1].type = "cpu" /\ s[n + 1].enabled)
        BY <3>2, <2>4
      <4>2. {k \in 1 .. n + 1 : s[k].type = "cpu" /\ s[k].enabled} =
              {k \in 1 .. n : s[k].type = "cpu" /\ s[k].enabled}
        BY <4>1, <2>1, NextIndex, Zenon
      <4>3. SratIds(s, n + 1) = SratIds(s, n)
        BY <4>2 DEF SratIds
      <4> QED BY <4>3, <3>2, <2>4
    <3> QED BY <3>1, <3>2
  <2>9. Domain(v, d, cs, mem) \/ (v = NoDomain /\ cs = {} /\ mem = {})
    BY <2>2, <2>4
  <2> HIDE DEF C, M
  <2>10. P(n + 1)
    <3>1. CASE e.type = "cpu" /\ e.enabled
      <4>1. Domain(SratEntry(v, e), d, cs \cup {e.id}, mem)
        BY <2>6, <2>9, <3>1, SratAdds
      <4> QED BY <4>1, <3>1, <2>3, <2>4, <2>7, <2>8
    <3>2. CASE e.type = "mem" /\ e.len # 0
      <4>1. Domain(SratEntry(v, e), d, cs, mem \cup Covers(e))
        BY <2>6, <2>7, <2>9, <3>2, SratAdds
      <4> QED BY <4>1, <3>2, <2>3, <2>4, <2>7, <2>8
    <3>3. CASE ~(e.type = "cpu" /\ e.enabled) /\ ~(e.type = "mem" /\ e.len # 0)
      <4>1. SratEntry(v, e) = v
        BY <3>3, SratSkips
      <4>2. e.type = "mem" => Covers(e) = {}
        BY <3>3, <2>6 DEF Covers
      <4>3. M(n + 1) = mem
        BY <2>7, <4>2
      <4> QED BY <4>1, <4>3, <3>3, <2>3, <2>4, <2>8, <2>9
    <3> QED BY <3>1, <3>2, <3>3
  <2> HIDE DEF P
  <2> QED BY <2>10, <2>1
<1> HIDE DEF T
<1>5. \A n \in 0 .. N : n \in T
  BY <1>3, <1>4, UpTo
<1>6. N \in T
  BY <1>5
<1>7. P(N)
  BY <1>6 DEF T
<1>8. CASE Domain(u[N], d, C(N), M(N))
  BY <1>1, <1>2, <1>8 DEF Domain
<1>9. CASE u[N] = NoDomain /\ C(N) = {} /\ M(N) = {}
  BY <1>1, <1>2, <1>9 DEF NoDomain
<1> QED BY <1>7, <1>8, <1>9

(* A concatenation of one sequence is that sequence.                         *)
LEMMA FlattenOne ==
    ASSUME NEW S, NEW s \in Seq(S)
    PROVE  FlattenSeq(<<s>>) = s
<1> DEFINE ss == <<s>>
<1>1. ss \in Seq(Seq(S)) /\ Len(ss) = 1 /\ ss[1] = s
  OBVIOUS
<1> HIDE DEF ss
<1>2. PICK F \in [0 .. Len(ss) -> Seq(S)] : Partial(F, ss)
  BY <1>1, FlattenPartial
<1>3. F[0] = <<>> /\ FlattenSeq(ss) = F[1] /\ F[1] = F[1 - 1] \o ss[1]
  BY <1>1, <1>2 DEF Partial
<1>4. F[1] = <<>> \o s
  BY <1>1, <1>3, SMTT(30)
<1> QED BY <1>3, <1>4 DEF ss

(* What the boot's topology promises, for a list with one node or none.      *)
Exact(t, cs, mem) ==
    /\ {c.id : c \in Range(Cpus(t))} = cs
    /\ \A id \in cs :
          \E i \in 0 .. t.nr_cpus - 1 :
             get_cpu(t, id) = get_cpu_by_index(t, i) /\ get_cpu(t, id) # {}
    /\ t.nr_cpus = Len(Cpus(t))
    /\ \A j, k \in DOMAIN Zones(t) : j # k => Span(Zones(t)[j]) \cap Span(Zones(t)[k]) = {}
    /\ UNION {Span(z) : z \in Range(Zones(t))} = mem

(* A node whose CPUs and zones are as above keeps the promise.               *)
LEMMA ShapeExact ==
    ASSUME NEW t, NEW r, NEW cs, NEW mem, Shape(t, r), Listed(t, r, cs), Mapped(t, r, mem)
    PROVE  Exact(t, cs, mem) /\ Cpus(t) \in Seq([index : Nat, id : cs])
<1> DEFINE cpus == t.node[r].cpus
           zones == t.node[r].zones
           n == t.nr_cpus
           R == [index : Nat, id : cs]
<1>1. t.node_list = <<r>>
  BY DEF Shape
<1>2. /\ n \in Nat /\ DOMAIN cpus = 1 .. n /\ cpus \in Seq(R)
      /\ \A k \in 1 .. n : cpus[k].index = k - 1
      /\ \A id \in cs : \E k \in 1 .. n : cpus[k].id = id
  BY DEF Listed
<1>3. Covering(zones, mem)
  BY DEF Mapped
<1>4. [k \in DOMAIN t.node_list |-> t.node[t.node_list[k]].cpus] = <<cpus>>
  BY <1>1
<1>5. [k \in DOMAIN t.node_list |-> t.node[t.node_list[k]].zones] = <<zones>>
  BY <1>1
<1> HIDE DEF cpus, zones, n, R
<1>6. Cpus(t) = cpus
  <2>1. FlattenSeq(<<cpus>>) = cpus
    BY <1>2, FlattenOne
  <2> QED BY <2>1, <1>4, Zenon DEF Cpus
<1>7. Zones(t) = zones
  <2>1. zones \in Seq(Zone)
    BY <1>3 DEF Covering
  <2>2. FlattenSeq(<<zones>>) = zones
    BY <2>1, FlattenOne
  <2> QED BY <2>2, <1>5, Zenon DEF Zones
<1>8. n = Len(cpus)
  BY <1>2
<1>9. \A k \in 1 .. n : cpus[k].id \in cs
  <2> TAKE k \in 1 .. n
  <2>1. cpus[k] \in R
    BY <1>2, <1>8
  <2> QED BY <2>1 DEF R
<1>10. {c.id : c \in Range(cpus)} = cs
  BY <1>2, <1>9 DEF Range
<1>11. ASSUME NEW id \in cs
       PROVE  \E i \in 0 .. n - 1 : get_cpu(t, id) = get_cpu_by_index(t, i) /\ get_cpu(t, id) # {}
  <2> DEFINE K == {k \in 1 .. n : cpus[k].id = id}
  <2>1. K # {} /\ K \subseteq Nat
    BY <1>2
  <2>2. PICK k \in K : \A j \in K : k <= j
    <3> HIDE DEF K
    <3> QED BY <2>1, FirstOf
  <2>3. k \in 1 .. n /\ k - 1 \in 0 .. n - 1
    BY <1>2, <2>2
  <2>4. get_cpu(t, id) = {cpus[k]}
    <3>1. get_cpu(t, id) = First(cpus, K)
      BY <1>2, <1>6 DEF get_cpu
    <3>2. {j \in K : \A i \in K : j <= i} = {k}
      BY <2>2, <1>2
    <3> HIDE DEF K
    <3> QED BY <3>1, <3>2 DEF First
  <2>5. get_cpu_by_index(t, k - 1) = {cpus[k]}
    <3> DEFINE I == {j \in 1 .. n : cpus[j].index = k - 1}
    <3>1. get_cpu_by_index(t, k - 1) = First(cpus, I)
      BY <1>2, <1>6 DEF get_cpu_by_index
    <3>2. I = {k}
      <4>1. \A j \in 1 .. n : j - 1 = k - 1 => j = k
        BY <1>2, <2>3
      <4> QED BY <4>1, <1>2, <2>3
    <3>3. {j \in I : \A i \in I : j <= i} = {k}
      <4> HIDE DEF I
      <4> QED BY <3>2, <2>3, <1>2
    <3> HIDE DEF I
    <3> QED BY <3>1, <3>3 DEF First
  <2> QED BY <2>3, <2>4, <2>5
<1>12. /\ \A j, k \in DOMAIN zones : j # k => Span(zones[j]) \cap Span(zones[k]) = {}
       /\ UNION {Span(z) : z \in Range(zones)} = mem
  BY <1>3 DEF Covering, Disjoint
<1>13. Exact(t, cs, mem)
  BY <1>6, <1>7, <1>8, <1>10, <1>11, <1>12, Zenon DEF Exact, n
<1> QED BY <1>2, <1>6, <1>13 DEF R

(* No node, no CPU and no zone.                                              *)
LEMMA NoNodeExact == Exact(NoNode, {}, {}) /\ Cpus(NoNode) \in Seq([index : Nat, id : {}])
<1>1. /\ [k \in DOMAIN NoNode.node_list |-> NoNode.node[NoNode.node_list[k]].cpus] = <<>>
      /\ [k \in DOMAIN NoNode.node_list |-> NoNode.node[NoNode.node_list[k]].zones] = <<>>
      /\ NoNode.nr_cpus = 0
  BY DEF NoNode
<1>2. FlattenSeq(<<>>) = <<>>
  BY DEF FlattenSeq
<1>3. Cpus(NoNode) = <<>> /\ Zones(NoNode) = <<>>
  BY <1>1, <1>2, Zenon DEF Cpus, Zones
<1>4. Range(<<>>) = {} /\ Len(<<>>) = 0 /\ DOMAIN <<>> = {}
  BY DEF Range
<1>5. <<>> \in Seq([index : Nat, id : {}])
  OBVIOUS
<1> QED BY <1>1, <1>3, <1>4, <1>5 DEF Exact

(* Without an SRAT, before its CPUs and zones: node 2.                       *)
LEMMA OneNodeShape == Shape(OneNode, 2) /\ Listed(OneNode, 2, {}) /\ Mapped(OneNode, 2, {})
<1> DEFINE new == [socket_id |-> 0, cpus |-> <<>>, zones |-> <<>>]
           t0 == [node |-> <<new>>, node_list |-> <<>>, nr_cpus |-> 0]
           t1 == [node |-> <<new, new>>, node_list |-> <<>>, nr_cpus |-> 0]
           t2 == [node |-> <<new, new>>, node_list |-> <<2>>, nr_cpus |-> 0]
<1>1. mm_node_init(NoNode) = t0
  <2>1. NewNode(NoNode) = t0
    BY DEF NewNode, NoNode
  <2> QED BY <2>1 DEF mm_node_init
<1>2. NewNode(t0) = t1
  BY DEF NewNode
<1>3. mm_node_register(t1, 2, 0) = t2
  <2>1. [t1.node EXCEPT ![2].socket_id = 0] = <<new, new>>
    OBVIOUS
  <2>2. Append(t1.node_list, 2) = <<2>>
    OBVIOUS
  <2>3. mm_node_register(t1, 2, 0) = [t1 EXCEPT !.node_list = Append(t1.node_list, 2),
                                               !.node = [t1.node EXCEPT ![2].socket_id = 0]]
    BY DEF mm_node_register
  <2> QED BY <2>1, <2>2, <2>3
<1>4. OneNode = t2
  <2> HIDE DEF t0, t1, t2
  <2> QED BY <1>1, <1>2, <1>3 DEF OneNode
<1>5. /\ t2.node_list = <<2>> /\ t2.nr_cpus = 0 /\ 2 \in DOMAIN t2.node
      /\ t2.node[2] = new /\ DOMAIN t2 = {"node", "node_list", "nr_cpus"}
  OBVIOUS
<1>6. /\ DOMAIN t2.node[2] = {"socket_id", "cpus", "zones"}
      /\ t2.node[2].cpus = <<>> /\ t2.node[2].zones = <<>>
  BY <1>5
<1> HIDE DEF t2
<1>7. Shape(t2, 2)
  BY <1>5, <1>6 DEF Shape
<1>8. Listed(t2, 2, {})
  BY <1>5, <1>6 DEF Listed
<1>9. Mapped(t2, 2, {})
  BY <1>6 DEF Mapped, Covering, Disjoint, Range
<1> QED BY <1>4, <1>7, <1>8, <1>9

(* What the firmware reports, on the machines for which the claim is made.    *)
LEMMA RegularReports ==
    ASSUME NEW m, Regular(m),
           \A k \in DOMAIN m.table["SRAT"] :
              m.table["SRAT"][k].type = "mem" =>
                 {m.table["SRAT"][k].base, m.table["SRAT"][k].len} \subseteq Nat
    PROVE  /\ FirmwareCpus(m) =
                 IF acpi_get_desc(m, "SRAT")
                 THEN {e.id : e \in {e \in Range(m.table["SRAT"]) : e.type = "cpu" /\ e.enabled}}
                 ELSE IF acpi_get_desc(m, "APIC")
                 THEN {e.id : e \in {e \in Range(m.table["APIC"]) : e.type = "lapic" /\ e.enabled}}
                 ELSE {0}
           /\ acpi_get_desc(m, "SRAT") =>
                 FirmwareMemory(m) = UNION {Covers(e) : e \in {e \in Range(m.table["SRAT"]) : e.type = "mem"}}
<1> DEFINE srat == Range(m.table["SRAT"])
           madt == Range(m.table["APIC"])
<1>1. /\ Reported(m, "SRAT", {"cpu", "x2cpu"}) = Reported(m, "SRAT", {"cpu"}) \cup Reported(m, "SRAT", {"x2cpu"})
      /\ Reported(m, "APIC", {"lapic", "x2apic"}) = Reported(m, "APIC", {"lapic"}) \cup Reported(m, "APIC", {"x2apic"})
  BY DEF Reported
<1>2. /\ Reported(m, "SRAT", {"x2cpu"}) = {} /\ Reported(m, "APIC", {"x2apic"}) = {}
      /\ acpi_get_desc(m, "SRAT") =>
            /\ Reported(m, "APIC", {"lapic"}) \subseteq Reported(m, "SRAT", {"cpu"})
            /\ \A e \in srat : (e.type = "mem" /\ e.len # 0) => e.enabled
  BY DEF Regular
<1>3. /\ Reported(m, "SRAT", {"cpu"}) =
            IF acpi_get_desc(m, "SRAT")
            THEN {e.id : e \in {e \in srat : e.type = "cpu" /\ e.enabled}} ELSE {}
      /\ Reported(m, "APIC", {"lapic"}) =
            IF acpi_get_desc(m, "APIC")
            THEN {e.id : e \in {e \in madt : e.type = "lapic" /\ e.enabled}} ELSE {}
  BY DEF Reported
<1>4. ASSUME acpi_get_desc(m, "SRAT")
      PROVE  FirmwareMemory(m) = UNION {Covers(e) : e \in {e \in srat : e.type = "mem"}}
  <2>1. FirmwareMemory(m) = UNION {Covers(e) : e \in {e \in srat : e.type = "mem" /\ e.enabled}}
    BY <1>4 DEF FirmwareMemory
  <2>2. ASSUME NEW e \in srat, e.type = "mem", ~e.enabled PROVE Covers(e) = {}
    <3>1. e.len = 0
      BY <1>2, <1>4, <2>2
    <3>2. e.base \in Nat
      BY <2>2 DEF Range
    <3> QED BY <3>1, <3>2 DEF Covers
  <2> HIDE DEF srat
  <2> QED BY <2>1, <2>2
<1>5. CASE acpi_get_desc(m, "SRAT")
  <2>1. FirmwareCpus(m) = Reported(m, "SRAT", {"cpu"})
    BY <1>1, <1>2, <1>5 DEF FirmwareCpus
  <2> QED BY <1>3, <1>4, <1>5, <2>1
<1>6. CASE ~acpi_get_desc(m, "SRAT") /\ acpi_get_desc(m, "APIC")
  <2>1. FirmwareCpus(m) = Reported(m, "APIC", {"lapic"})
    BY <1>1, <1>2, <1>3, <1>6 DEF FirmwareCpus
  <2> QED BY <1>3, <1>6, <2>1
<1>7. CASE ~acpi_get_desc(m, "SRAT") /\ ~acpi_get_desc(m, "APIC")
  BY <1>7 DEF FirmwareCpus
<1> QED BY <1>5, <1>6, <1>7

(* arch_numa_init, on the same machines.                                     *)
LEMMA NumaExact ==
    ASSUME NEW m \in Machines, Regular(m)
    PROVE  /\ Exact(arch_numa_init(m), FirmwareCpus(m), FirmwareMemory(m))
           /\ Cpus(arch_numa_init(m)) \in Seq([index : Nat, id : FirmwareCpus(m)])
<1> DEFINE madt == m.table["APIC"]
           srat == m.table["SRAT"]
           ardc == m.ardc
<1>1. /\ Len(madt) \in Nat /\ DOMAIN madt = 1 .. Len(madt)
      /\ Len(srat) \in Nat /\ DOMAIN srat = 1 .. Len(srat)
      /\ Len(ardc) \in Nat /\ DOMAIN ardc = 1 .. Len(ardc)
      /\ \A k \in DOMAIN srat : srat[k].type = "mem" => {srat[k].base, srat[k].len} \subseteq Nat
      /\ \A k \in DOMAIN ardc : {ardc[k].base, ardc[k].len} \subseteq Nat
  BY MachinesAssumption
<1>2. CASE acpi_get_desc(m, "SRAT")
  <2>1. Apart(srat, {"mem"}) /\ \E d \in 0 .. 63 : \A e \in Range(srat) : e.domain = d
    BY <1>2 DEF Regular
  <2>2. FirmwareCpus(m) = SratIds(srat, Len(srat))
    <3>1. FirmwareCpus(m) = {e.id : e \in {e \in Range(srat) : e.type = "cpu" /\ e.enabled}}
      BY <1>1, <1>2, RegularReports
    <3> HIDE DEF srat
    <3> QED BY <3>1, <1>1 DEF SratIds, Range
  <2>3. FirmwareMemory(m) = Memory(srat, Len(srat), {"mem"})
    <3>1. FirmwareMemory(m) = UNION {Covers(e) : e \in {e \in Range(srat) : e.type = "mem"}}
      BY <1>1, <1>2, RegularReports
    <3> HIDE DEF srat
    <3> QED BY <3>1, <1>1 DEF Memory, Range
  <2>4. arch_numa_init(m) = SratNodes(srat)
    BY <1>2 DEF arch_numa_init
  <2> HIDE DEF srat
  <2>5. PICK d : \A k \in DOMAIN srat : srat[k].domain = d
    BY <2>1 DEF Range
  <2>6. \/ SratNodes(srat) = NoNode /\ FirmwareCpus(m) = {} /\ FirmwareMemory(m) = {}
        \/ /\ Shape(SratNodes(srat), 1) /\ Listed(SratNodes(srat), 1, FirmwareCpus(m))
           /\ Mapped(SratNodes(srat), 1, FirmwareMemory(m))
    BY <1>1, <2>1, <2>2, <2>3, <2>5, SratBuilt
  <2> QED BY <2>4, <2>6, NoNodeExact, ShapeExact
<1>3. CASE ~acpi_get_desc(m, "SRAT")
  <2> DEFINE t == IF acpi_get_desc(m, "APIC") THEN MadtCpus(OneNode, madt)
                  ELSE register_cpu_remote(OneNode, 0, 2)
  <2>1. Apart(ardc, {1, 2})
    BY <1>3 DEF Regular
  <2>2. Shape(t, 2) /\ Listed(t, 2, FirmwareCpus(m)) /\ t.node[2].zones = OneNode.node[2].zones
    <3>1. CASE acpi_get_desc(m, "APIC")
      <4>1. \A k \in DOMAIN madt : madt[k].type = "lapic" => Visited(madt, k)
        BY <1>3, <3>1 DEF Regular
      <4>2. FirmwareCpus(m) = {e.id : e \in {e \in Range(madt) : e.type = "lapic" /\ e.enabled}}
        BY <1>1, <1>3, <3>1, RegularReports
      <4>3. t = MadtCpus(OneNode, madt)
        BY <3>1
      <4> HIDE DEF madt, t
      <4>4. FirmwareCpus(m) = MadtIds(madt, Len(madt))
        BY <4>1, <4>2, <1>1 DEF MadtIds, Enabled, Range
      <4> QED BY <4>3, <4>4, <1>1, OneNodeShape, MadtListed
    <3>2. CASE ~acpi_get_desc(m, "APIC")
      <4>1. FirmwareCpus(m) = {0} /\ t = register_cpu_remote(OneNode, 0, 2)
        BY <1>1, <1>3, <3>2, RegularReports
      <4>2. {} \cup {0} = {0}
        OBVIOUS
      <4> HIDE DEF t
      <4> QED BY <4>1, <4>2, OneNodeShape, RegisterCpu
    <3> QED BY <3>1, <3>2
  <2>3. arch_numa_init(m) = ArdcZones(t, ardc)
    BY <1>3 DEF arch_numa_init
  <2>4. FirmwareMemory(m) = Memory(ardc, Len(ardc), {1, 2})
    <3>1. FirmwareMemory(m) = UNION {Covers(a) : a \in {a \in Range(ardc) : a.type \in {1, 2}}}
      BY <1>3 DEF FirmwareMemory
    <3> HIDE DEF ardc
    <3> QED BY <3>1, <1>1 DEF Memory, Range
  <2> HIDE DEF t, ardc
  <2>5. PICK v, w : v = t /\ w = ArdcZones(t, ardc)
    OBVIOUS
  <2>6. Mapped(v, 2, {})
    BY <2>2, <2>5, OneNodeShape DEF Mapped
  <2>7. /\ Shape(w, 2) /\ Mapped(w, 2, FirmwareMemory(m))
        /\ w.node[2].cpus = v.node[2].cpus /\ w.nr_cpus = v.nr_cpus
    BY <1>1, <2>1, <2>2, <2>4, <2>5, <2>6, ArdcMapped
  <2>8. Listed(w, 2, FirmwareCpus(m))
    BY <2>2, <2>5, <2>7 DEF Listed
  <2> QED BY <2>3, <2>5, <2>7, <2>8, ShapeExact
<1> QED BY <1>2, <1>3
-------------------------------------------------------------------------------
(* The types that the proofs about the processors use: a register file, a    *)
(* struct cpu and a queue of messages for each, and one page table of each   *)
(* kind.                                                                     *)
BringType ==
    /\ DOMAIN at = CpuId /\ DOMAIN reg = CpuId /\ DOMAIN cpu = CpuId
    /\ \A c \in CpuId : DOMAIN reg[c] = DOMAIN Reset /\ DOMAIN cpu[c] = {"has", "lapic", "status", "faults"}
    /\ pending \in [CpuId -> Seq({"INIT", "STARTUP"})]
    /\ DOMAIN tables = {"loader", "init", "kernel", "none"}
    /\ ap \in Nat \ {0}

(* The boot processor gets no message, and arch_numa_init makes the lists    *)
(* while it is the only one that runs.                                       *)
BeforeLists == {"bsp_entry_64", "setup_init_mapping", "jump", "kernel_space_entry", "arch_init", "fault"}
NumaInv ==
    /\ pending[BSP] = <<>>
    /\ \/ topo = arch_numa_init(machine)
       \/ at[BSP] \in BeforeLists /\ \E k \in DOMAIN todo : todo[k][1] = "numa"

(* The places of a processor, from those where it has all of its own tables  *)
(* back to those where it only runs with paging.                             *)
Woken == {"wake", "spin", "check", "mp_init_all", "online"}
Real == {"ap_entry_16", "pae", "cr3", "lme", "paging"}
Finished == {"up", "start_kernel"} \cup Woken
OnLapic == {"idle", "sti"} \cup Finished
OnIrq == {"lapic_enable"} \cup OnLapic
OnIdt == {"setup_irq"} \cup OnIrq
OnTss == {"set_intr_desc"} \cup OnIdt
OnGdt == {"set_tss_desc"} \cup OnTss
OnKernel == {"set_kernel_segment"} \cup OnGdt
OnData == {"enable_cpu_features", "map_kernel_memory"} \cup OnKernel
OnHigh == {"arch_init", "x86_cpu_init"} \cup OnData
OnPaging == {"jump", "kernel_space_entry"} \cup OnHigh
OnLoader == {"bsp_entry_64", "setup_init_mapping"}
BspOnly == {"arch_init", "start_kernel"} \cup Woken \cup OnLoader
ApOnly == {"off", "wait", "up"} \cup Real

(* What each place says of the processor's registers and lists: no place is  *)
(* a fault, every step is allowed where it is taken, and each table is there *)
(* before the interrupts are.                                                *)
Place(c) ==
    /\ at[c] \in OnLoader \cup {"off", "wait"} \cup Real \cup OnPaging
    /\ at[c] \notin IF c = BSP THEN ApOnly ELSE BspOnly
    /\ reg[c].IF_ => at[c] \in Finished \cup {"bsp_entry_64"}
Modes(c) ==
    /\ at[c] \in {"off", "wait"} \cup Real => ~reg[c].pg /\ reg[c].rip = "low" /\ reg[c].sp = "none"
    /\ at[c] = "pae" => reg[c].gdt = ApTable
    /\ at[c] \in {"cr3", "lme", "paging"} => reg[c].pae
    /\ at[c] \in {"lme", "paging"} => reg[c].cr3 = "init"
    /\ at[c] = "paging" => reg[c].lme
    /\ at[c] \in OnLoader => reg[c].pg /\ reg[c].cr3 = "loader" /\ reg[c].rip = "low" /\ reg[c].sp = "low"
Maps(c) ==
    /\ at[c] \in OnPaging => reg[c].pg /\ reg[c].rip \in {"low", "high"} /\ reg[c].sp \in {"none", "high"}
    /\ at[c] \in OnPaging \ OnKernel => reg[c].cr3 = "init"
    /\ at[c] \in OnKernel => reg[c].cr3 = "kernel"
    /\ at[c] \in OnPaging \ {"jump"} => reg[c].rip = "high"
    /\ at[c] \in OnHigh => reg[c].sp = "high"
Own(c) ==
    /\ at[c] \in OnData => {"arch_data", "irq_stack", "lapic_ops"} \subseteq cpu[c].has
    /\ at[c] \in OnGdt => reg[c].gdt = c
    /\ at[c] \in OnTss => reg[c].tr = c /\ "tss" \in cpu[c].has
    /\ at[c] \in OnIdt => reg[c].idt = c
    /\ at[c] \in OnIrq => "irq_desc" \in cpu[c].has
    /\ at[c] \in OnLapic => reg[c].apic = Mode /\ cpu[c].lapic = Mode
    /\ reg[c].apic \in {1, Mode}
CpuInv(c) == Place(c) /\ Modes(c) /\ Maps(c) /\ Own(c)

(* The page tables follow the boot processor, and the others run only after  *)
(* it has finished them, and only those of the firmware's tables.            *)
TableInv ==
    /\ tables.loader = {"low"}
    /\ at[BSP] \notin OnLoader => tables.init = {"low", "high"}
    /\ at[BSP] \in OnKernel => tables.kernel = {"high"}
    /\ at[BSP] \in Woken => trampoline
    /\ \A c \in CpuId \ {BSP} :
          at[c] # "off" \/ pending[c] # <<>> =>
             at[BSP] \in Woken /\ c \in FirmwareCpus(machine)
BringInv == Expected(machine) => TableInv /\ \A c \in CpuId : CpuInv(c)
(* The machine never changes.                                                *)
LEMMA MachineKept ==
    ASSUME [Next]_vars
    PROVE  machine' = machine
<1>1. CASE UNCHANGED pci_vars
  BY <1>1 DEF pci_vars
<1>2. CASE pci_scan \/ pci_device_init \/ Bar \/ register_pci_device \/ pci_enable_msix
           \/ pci_enable_msi \/ pci_register_driver(ids) \/ pci_probe
  BY <1>2 DEF pci_scan, pci_device_init, Bar, register_pci_device, pci_enable_msix, pci_enable_msi,
              pci_register_driver, pci_probe
<1>3. CASE ixgbe_reset \/ Fill
  BY <1>3 DEF ixgbe_reset, Fill, Does
<1>4. UNCHANGED vars => UNCHANGED pci_vars
  BY DEF vars
<1> QED BY <1>1, <1>2, <1>3, <1>4, Steps, PopsFacts, BesideFacts, Zenon

(* The steps, as far as the processors are concerned.                        *)
LEMMA BringSteps ==
    ASSUME [Next]_vars
    PROVE  \/ NumaInit
           \/ at[BSP] = "start_kernel" /\ UNCHANGED bring_vars
           \/ UNCHANGED <<todo, bring_vars>>
           \/ BspStep /\ UNCHANGED todo
           \/ \E c \in CpuId : (CpuStep(c) \/ TaskStep(c) \/ Deliver(c) \/ Miss(c)) /\ UNCHANGED todo
<1>1. UNCHANGED pci_vars => UNCHANGED todo
  BY DEF pci_vars
<1>2. UNCHANGED vars => UNCHANGED pci_vars /\ UNCHANGED bring_vars
  BY DEF vars
<1>3. UNCHANGED <<pci_vars, nic_vars>> => UNCHANGED todo
  BY <1>1
<1>4. CASE Execute
  BY <1>3, <1>4, Zenon DEF Execute
<1>5. CASE (\E c \in CpuId : Miss(c)) /\ UNCHANGED <<pci_vars, nic_vars>>
  BY <1>3, <1>5, Zenon
<1>6. UNCHANGED vars => UNCHANGED <<todo, bring_vars>>
  BY <1>1, <1>2
<1> QED BY <1>4, <1>5, <1>6, Zenon DEF Next

(* CPU c goes from one place to another, or faults there.                    *)
Goes(c, from, to) ==
    /\ at[c] = from /\ at' = [at EXCEPT ![c] = at'[c]] /\ at'[c] \in {to, "fault"}
    /\ reg' = [reg EXCEPT ![c] = reg'[c]]
    /\ UNCHANGED wake_vars

(* What every step of a processor has in common.                             *)
LEMMA GoFacts ==
    ASSUME BringType, NEW c \in CpuId, NEW from, NEW to, NEW ok, NEW r, Go(c, from, to, ok, r)
    PROVE  /\ Goes(c, from, to) /\ reg'[c] = r
           /\ at'[c] = IF ok /\ Runs(r) THEN to ELSE "fault"
           /\ \A d \in CpuId : d # c => at'[d] = at[d] /\ reg'[d] = reg[d]
           /\ DOMAIN at' = CpuId /\ DOMAIN reg' = CpuId
BY DEF Go, Goes, BringType
(* Each step of a processor takes it from one place to another; while the    *)
(* lists are not made the boot processor stays before them.                  *)
Onward(c) ==
    /\ \E from, to : /\ Goes(c, from, to) /\ from \notin Finished
                     /\ (c = BSP /\ from \in BeforeLists) => to \in BeforeLists
    /\ DOMAIN reg'[c] = DOMAIN Reset
Within(c) ==
    /\ DOMAIN tables' = DOMAIN tables /\ DOMAIN cpu' = CpuId
    /\ \A d \in CpuId : DOMAIN cpu'[d] = DOMAIN cpu[d]
    /\ \A d \in CpuId \ {c} : cpu'[d] = cpu[d]
(* A step that is taken with Go is such a step.                              *)
LEMMA GoOnward ==
    ASSUME BringType, NEW c \in CpuId, NEW from, NEW to, NEW ok, NEW r, Go(c, from, to, ok, r),
           DOMAIN r = DOMAIN reg[c], from \notin Finished,
           (c = BSP /\ from \in BeforeLists) => to \in BeforeLists
    PROVE  Onward(c)
<1>1. Goes(c, from, to) /\ reg'[c] = r
  BY GoFacts
<1>2. DOMAIN reg[c] = DOMAIN Reset
  BY DEF BringType
<1> QED BY <1>1, <1>2, Zenon DEF Onward

(* The steps of any processor, and the first ones of the boot processor.     *)
LEMMA CpuOnward ==
    ASSUME BringType, NEW c \in CpuId, CpuStep(c)
    PROVE  Onward(c) /\ Within(c)
<1>1. CASE ap_entry_16(c)
  <2>1. Go(c, "ap_entry_16", "pae",
           trampoline,
           [reg[c] EXCEPT !.gdt = ApTable, !.IF_ = FALSE])
    BY <1>1 DEF ap_entry_16
  <2>2. "ap_entry_16" \notin Finished /\ ((c = BSP /\ "ap_entry_16" \in BeforeLists) => ("pae") \in BeforeLists)
    BY DEF Finished, Woken, BeforeLists
  <2>3. DOMAIN [reg[c] EXCEPT !.gdt = ApTable, !.IF_ = FALSE] = DOMAIN reg[c]
    OBVIOUS
  <2>4. Onward(c)
    BY <2>1, <2>2, <2>3, GoOnward
  <2>5. Within(c)
    BY <1>1 DEF ap_entry_16, own_vars, Within, BringType
  <2> QED BY <2>4, <2>5
<1>2. CASE EnablePae(c)
  <2>1. Go(c, "pae", "cr3",
           reg[c].gdt = ApTable,
           [reg[c] EXCEPT !.pae = TRUE])
    BY <1>2 DEF EnablePae
  <2>2. "pae" \notin Finished /\ ((c = BSP /\ "pae" \in BeforeLists) => ("cr3") \in BeforeLists)
    BY DEF Finished, Woken, BeforeLists
  <2>3. DOMAIN [reg[c] EXCEPT !.pae = TRUE] = DOMAIN reg[c]
    OBVIOUS
  <2>4. Onward(c)
    BY <2>1, <2>2, <2>3, GoOnward
  <2>5. Within(c)
    BY <1>2 DEF EnablePae, own_vars, Within, BringType
  <2> QED BY <2>4, <2>5
<1>3. CASE LoadCr3(c)
  <2>1. Go(c, "cr3", "lme",
           TRUE,
           [reg[c] EXCEPT !.cr3 = "init"])
    BY <1>3 DEF LoadCr3
  <2>2. "cr3" \notin Finished /\ ((c = BSP /\ "cr3" \in BeforeLists) => ("lme") \in BeforeLists)
    BY DEF Finished, Woken, BeforeLists
  <2>3. DOMAIN [reg[c] EXCEPT !.cr3 = "init"] = DOMAIN reg[c]
    OBVIOUS
  <2>4. Onward(c)
    BY <2>1, <2>2, <2>3, GoOnward
  <2>5. Within(c)
    BY <1>3 DEF LoadCr3, own_vars, Within, BringType
  <2> QED BY <2>4, <2>5
<1>4. CASE EnableLongMode(c)
  <2>1. Go(c, "lme", "paging",
           ~reg[c].pg,
           [reg[c] EXCEPT !.lme = TRUE])
    BY <1>4 DEF EnableLongMode
  <2>2. "lme" \notin Finished /\ ((c = BSP /\ "lme" \in BeforeLists) => ("paging") \in BeforeLists)
    BY DEF Finished, Woken, BeforeLists
  <2>3. DOMAIN [reg[c] EXCEPT !.lme = TRUE] = DOMAIN reg[c]
    OBVIOUS
  <2>4. Onward(c)
    BY <2>1, <2>2, <2>3, GoOnward
  <2>5. Within(c)
    BY <1>4 DEF EnableLongMode, own_vars, Within, BringType
  <2> QED BY <2>4, <2>5
<1>5. CASE EnablePaging(c)
  <2>1. Go(c, "paging", "jump",
           reg[c].lme /\ reg[c].pae,
           [reg[c] EXCEPT !.pg = TRUE])
    BY <1>5 DEF EnablePaging
  <2>2. "paging" \notin Finished /\ ((c = BSP /\ "paging" \in BeforeLists) => ("jump") \in BeforeLists)
    BY DEF Finished, Woken, BeforeLists
  <2>3. DOMAIN [reg[c] EXCEPT !.pg = TRUE] = DOMAIN reg[c]
    OBVIOUS
  <2>4. Onward(c)
    BY <2>1, <2>2, <2>3, GoOnward
  <2>5. Within(c)
    BY <1>5 DEF EnablePaging, own_vars, Within, BringType
  <2> QED BY <2>4, <2>5
<1>6. CASE Jump(c)
  <2>1. Go(c, "jump", "kernel_space_entry",
           TRUE,
           [reg[c] EXCEPT !.rip = "high"])
    BY <1>6 DEF Jump
  <2>2. "jump" \notin Finished /\ ((c = BSP /\ "jump" \in BeforeLists) => ("kernel_space_entry") \in BeforeLists)
    BY DEF Finished, Woken, BeforeLists
  <2>3. DOMAIN [reg[c] EXCEPT !.rip = "high"] = DOMAIN reg[c]
    OBVIOUS
  <2>4. Onward(c)
    BY <2>1, <2>2, <2>3, GoOnward
  <2>5. Within(c)
    BY <1>6 DEF Jump, own_vars, Within, BringType
  <2> QED BY <2>4, <2>5
<1>7. CASE kernel_space_entry(c)
  <2>1. Go(c, "kernel_space_entry", IF c = BSP THEN "arch_init" ELSE "x86_cpu_init",
           TRUE,
           [reg[c] EXCEPT !.sp = "high"])
    BY <1>7 DEF kernel_space_entry
  <2>2. "kernel_space_entry" \notin Finished /\ ((c = BSP /\ "kernel_space_entry" \in BeforeLists) => (IF c = BSP THEN "arch_init" ELSE "x86_cpu_init") \in BeforeLists)
    BY DEF Finished, Woken, BeforeLists
  <2>3. DOMAIN [reg[c] EXCEPT !.sp = "high"] = DOMAIN reg[c]
    OBVIOUS
  <2>4. Onward(c)
    BY <2>1, <2>2, <2>3, GoOnward
  <2>5. Within(c)
    BY <1>7 DEF kernel_space_entry, own_vars, Within, BringType
  <2> QED BY <2>4, <2>5
<1>8. CASE x86_cpu_init(c)
  <2>1. Go(c, "x86_cpu_init", "enable_cpu_features",
           TRUE,
           reg[c])
    BY <1>8 DEF x86_cpu_init
  <2>2. "x86_cpu_init" \notin Finished /\ ((c = BSP /\ "x86_cpu_init" \in BeforeLists) => ("enable_cpu_features") \in BeforeLists)
    BY DEF Finished, Woken, BeforeLists
  <2>4. Onward(c)
    BY <2>1, <2>2, GoOnward
  <2>5. Within(c)
    BY <1>8 DEF x86_cpu_init, own_vars, Within, BringType
  <2> QED BY <2>4, <2>5
<1>9. CASE enable_cpu_features(c)
  <2>1. Go(c, "enable_cpu_features", "map_kernel_memory",
           "x87" \in Xcr0 => LegalXcr0(Xcr0) /\ "xsave" \in Cr4,
           [reg[c] EXCEPT !.cr4 = Cr4, !.xcr0 = IF "x87" \in Xcr0 THEN Xcr0 ELSE @])
    BY <1>9 DEF enable_cpu_features
  <2>2. "enable_cpu_features" \notin Finished /\ ((c = BSP /\ "enable_cpu_features" \in BeforeLists) => ("map_kernel_memory") \in BeforeLists)
    BY DEF Finished, Woken, BeforeLists
  <2>3. DOMAIN [reg[c] EXCEPT !.cr4 = Cr4, !.xcr0 = IF "x87" \in Xcr0 THEN Xcr0 ELSE @] = DOMAIN reg[c]
    OBVIOUS
  <2>4. Onward(c)
    BY <2>1, <2>2, <2>3, GoOnward
  <2>5. Within(c)
    BY <1>9 DEF enable_cpu_features, own_vars, Within, BringType
  <2> QED BY <2>4, <2>5
<1>10. CASE map_kernel_memory(c)
  <2>1. Go(c, "map_kernel_memory", "set_kernel_segment",
           TRUE,
           [reg[c] EXCEPT !.cr3 = IF tables'["kernel"] # {} THEN "kernel" ELSE @])
    BY <1>10 DEF map_kernel_memory
  <2>2. "map_kernel_memory" \notin Finished /\ ((c = BSP /\ "map_kernel_memory" \in BeforeLists) => ("set_kernel_segment") \in BeforeLists)
    BY DEF Finished, Woken, BeforeLists
  <2>3. DOMAIN [reg[c] EXCEPT !.cr3 = IF tables'["kernel"] # {} THEN "kernel" ELSE @] = DOMAIN reg[c]
    OBVIOUS
  <2>4. Onward(c)
    BY <2>1, <2>2, <2>3, GoOnward
  <2>5. Within(c)
    BY <1>10 DEF map_kernel_memory, own_vars, Within, BringType
  <2> QED BY <2>4, <2>5
<1>11. CASE set_kernel_segment(c)
  <2>1. Go(c, "set_kernel_segment", "set_tss_desc",
           "arch_data" \in cpu[c].has,
           [reg[c] EXCEPT !.gdt = c])
    BY <1>11 DEF set_kernel_segment
  <2>2. "set_kernel_segment" \notin Finished /\ ((c = BSP /\ "set_kernel_segment" \in BeforeLists) => ("set_tss_desc") \in BeforeLists)
    BY DEF Finished, Woken, BeforeLists
  <2>3. DOMAIN [reg[c] EXCEPT !.gdt = c] = DOMAIN reg[c]
    OBVIOUS
  <2>4. Onward(c)
    BY <2>1, <2>2, <2>3, GoOnward
  <2>5. Within(c)
    BY <1>11 DEF set_kernel_segment, own_vars, Within, BringType
  <2> QED BY <2>4, <2>5
<1>12. CASE set_tss_desc(c)
  <2>1. Go(c, "set_tss_desc", "set_intr_desc",
           reg[c].gdt = c,
           [reg[c] EXCEPT !.tr = c])
    BY <1>12 DEF set_tss_desc
  <2>2. "set_tss_desc" \notin Finished /\ ((c = BSP /\ "set_tss_desc" \in BeforeLists) => ("set_intr_desc") \in BeforeLists)
    BY DEF Finished, Woken, BeforeLists
  <2>3. DOMAIN [reg[c] EXCEPT !.tr = c] = DOMAIN reg[c]
    OBVIOUS
  <2>4. Onward(c)
    BY <2>1, <2>2, <2>3, GoOnward
  <2>5. Within(c)
    BY <1>12 DEF set_tss_desc, own_vars, Within, BringType
  <2> QED BY <2>4, <2>5
<1>13. CASE set_intr_desc(c)
  <2>1. Go(c, "set_intr_desc", "setup_irq",
           TRUE,
           [reg[c] EXCEPT !.idt = c])
    BY <1>13 DEF set_intr_desc
  <2>2. "set_intr_desc" \notin Finished /\ ((c = BSP /\ "set_intr_desc" \in BeforeLists) => ("setup_irq") \in BeforeLists)
    BY DEF Finished, Woken, BeforeLists
  <2>3. DOMAIN [reg[c] EXCEPT !.idt = c] = DOMAIN reg[c]
    OBVIOUS
  <2>4. Onward(c)
    BY <2>1, <2>2, <2>3, GoOnward
  <2>5. Within(c)
    BY <1>13 DEF set_intr_desc, own_vars, Within, BringType
  <2> QED BY <2>4, <2>5
<1>14. CASE setup_irq(c)
  <2>1. Go(c, "setup_irq", "lapic_enable",
           TRUE,
           reg[c])
    BY <1>14 DEF setup_irq
  <2>2. "setup_irq" \notin Finished /\ ((c = BSP /\ "setup_irq" \in BeforeLists) => ("lapic_enable") \in BeforeLists)
    BY DEF Finished, Woken, BeforeLists
  <2>4. Onward(c)
    BY <2>1, <2>2, GoOnward
  <2>5. Within(c)
    BY <1>14 DEF setup_irq, own_vars, Within, BringType
  <2> QED BY <2>4, <2>5
<1>15. CASE lapic_enable(c)
  <2>1. Go(c, "lapic_enable", "idle",
           (Mode = 2 => Has("x2apic")) /\ (Mode = 1 => reg[c].apic = 1),
           [reg[c] EXCEPT !.apic = Mode])
    BY <1>15 DEF lapic_enable
  <2>2. "lapic_enable" \notin Finished /\ ((c = BSP /\ "lapic_enable" \in BeforeLists) => ("idle") \in BeforeLists)
    BY DEF Finished, Woken, BeforeLists
  <2>3. DOMAIN [reg[c] EXCEPT !.apic = Mode] = DOMAIN reg[c]
    OBVIOUS
  <2>4. Onward(c)
    BY <2>1, <2>2, <2>3, GoOnward
  <2>5. Within(c)
    BY <1>15 DEF lapic_enable, own_vars, Within, BringType
  <2> QED BY <2>4, <2>5
<1>16. CASE SetIdle(c)
  <2>1. Go(c, "idle", "sti",
           TRUE,
           reg[c])
    BY <1>16 DEF SetIdle
  <2>2. "idle" \notin Finished /\ ((c = BSP /\ "idle" \in BeforeLists) => ("sti") \in BeforeLists)
    BY DEF Finished, Woken, BeforeLists
  <2>4. Onward(c)
    BY <2>1, <2>2, GoOnward
  <2>5. Within(c)
    BY <1>16 DEF SetIdle, own_vars, Within, BringType
  <2> QED BY <2>4, <2>5
<1>17. CASE Sti(c)
  <2>1. Go(c, "sti", IF c = BSP THEN "start_kernel" ELSE "up",
           TRUE,
           [reg[c] EXCEPT !.IF_ = TRUE])
    BY <1>17 DEF Sti
  <2>2. "sti" \notin Finished /\ ((c = BSP /\ "sti" \in BeforeLists) => (IF c = BSP THEN "start_kernel" ELSE "up") \in BeforeLists)
    BY DEF Finished, Woken, BeforeLists
  <2>3. DOMAIN [reg[c] EXCEPT !.IF_ = TRUE] = DOMAIN reg[c]
    OBVIOUS
  <2>4. Onward(c)
    BY <2>1, <2>2, <2>3, GoOnward
  <2>5. Within(c)
    BY <1>17 DEF Sti, own_vars, Within, BringType
  <2> QED BY <2>4, <2>5
<1> QED BY <1>1, <1>2, <1>3, <1>4, <1>5, <1>6, <1>7, <1>8, <1>9, <1>10, <1>11, <1>12, <1>13, <1>14, <1>15, <1>16, <1>17, Zenon DEF CpuStep

(* The same for the two that only the boot processor takes.                  *)
LEMMA BspOnward ==
    ASSUME BringType, bsp_entry_64 \/ setup_init_mapping
    PROVE  Onward(BSP) /\ Within(BSP)
<1>0. BSP \in CpuId
  BY CpuAssumption
<1>1. CASE bsp_entry_64
  <2>1. Go(BSP, "bsp_entry_64", "setup_init_mapping",
           TRUE,
           [reg[BSP] EXCEPT !.IF_ = FALSE, !.sp = "low"])
    BY <1>1 DEF bsp_entry_64
  <2>2. "bsp_entry_64" \notin Finished /\ ((BSP = BSP /\ "bsp_entry_64" \in BeforeLists) => ("setup_init_mapping") \in BeforeLists)
    BY DEF Finished, Woken, BeforeLists
  <2>3. DOMAIN [reg[BSP] EXCEPT !.IF_ = FALSE, !.sp = "low"] = DOMAIN reg[BSP]
    OBVIOUS
  <2>4. Onward(BSP)
    BY <2>1, <2>2, <2>3, <1>0, GoOnward
  <2>5. Within(BSP)
    BY <1>1, <1>0 DEF bsp_entry_64, own_vars, Within, BringType
  <2> QED BY <2>4, <2>5
<1>2. CASE setup_init_mapping
  <2>1. Go(BSP, "setup_init_mapping", "jump",
           TRUE,
           [reg[BSP] EXCEPT !.cr3 = "init", !.sp = "high"])
    BY <1>2 DEF setup_init_mapping
  <2>2. "setup_init_mapping" \notin Finished /\ ((BSP = BSP /\ "setup_init_mapping" \in BeforeLists) => ("jump") \in BeforeLists)
    BY DEF Finished, Woken, BeforeLists
  <2>3. DOMAIN [reg[BSP] EXCEPT !.cr3 = "init", !.sp = "high"] = DOMAIN reg[BSP]
    OBVIOUS
  <2>4. Onward(BSP)
    BY <2>1, <2>2, <2>3, <1>0, GoOnward
  <2>5. Within(BSP)
    BY <1>2, <1>0 DEF setup_init_mapping, own_vars, Within, BringType
  <2> QED BY <2>4, <2>5
<1> QED BY <1>1, <1>2

(* The boot processor, when it wakes the others: it sends itself nothing.    *)
Waking == wakeup_all_processors \/ mp_init_all \/ mp_init_single \/ NextCpu \/ LoopEnd
LEMMA WakingFacts ==
    ASSUME BringType, Waking
    PROVE  /\ at[BSP] \in {"start_kernel"} \cup Woken /\ at'[BSP] \in Woken
           /\ at' = [at EXCEPT ![BSP] = at'[BSP]]
           /\ UNCHANGED <<topo, reg, tables, cpu>>
           /\ pending' \in [CpuId -> Seq({"INIT", "STARTUP"})] /\ pending'[BSP] = pending[BSP]
           /\ ap' \in Nat \ {0}
<1>1. /\ BSP \in CpuId /\ DOMAIN at = CpuId /\ ap \in Nat \ {0}
      /\ pending \in [CpuId -> Seq({"INIT", "STARTUP"})]
  BY CpuAssumption DEF BringType
<1>2. \A c \in CpuId : lapic_send_ipi(pending[c]) \in Seq({"INIT", "STARTUP"})
  <2> SUFFICES ASSUME NEW c \in CpuId PROVE lapic_send_ipi(pending[c]) \in Seq({"INIT", "STARTUP"})
    OBVIOUS
  <2>1. pending[c] \in Seq({"INIT", "STARTUP"})
    BY <1>1
  <2> QED BY <2>1 DEF lapic_send_ipi
<1>3. CASE wakeup_all_processors
  BY <1>1, <1>3 DEF wakeup_all_processors, BspAt, Woken
<1>4. CASE mp_init_all
  <2>1. at[BSP] = "mp_init_all" /\ at' = [at EXCEPT ![BSP] = "online"]
    BY <1>4 DEF mp_init_all, BspAt
  <2>2. pending' \in [CpuId -> Seq({"INIT", "STARTUP"})] /\ pending'[BSP] = pending[BSP]
    BY <1>1, <1>2, <1>4, Zenon DEF mp_init_all
  <2> QED BY <1>1, <1>4, <2>1, <2>2 DEF mp_init_all, Woken
<1>5. CASE mp_init_single
  <2>1. at[BSP] = "wake" /\ at' = [at EXCEPT ![BSP] = "spin"]
    BY <1>5 DEF mp_init_single, BspAt
  <2>2. PICK c : c = Target
    OBVIOUS
  <2>3. c # BSP /\ pending' = [pending EXCEPT ![c] = lapic_send_ipi(pending[c])]
    BY <2>2, <1>5 DEF mp_init_single
  <2>4. pending' \in [CpuId -> Seq({"INIT", "STARTUP"})] /\ pending'[BSP] = pending[BSP]
    <3>1. CASE c \in CpuId
      <4>1. PICK s \in Seq({"INIT", "STARTUP"}) : s = lapic_send_ipi(pending[c])
        BY <1>2, <3>1
      <4> QED BY <1>1, <2>3, <4>1
    <3>2. CASE c \notin CpuId
      BY <1>1, <2>3, <3>2
    <3> QED BY <3>1, <3>2
  <2> QED BY <1>1, <1>5, <2>1, <2>4 DEF mp_init_single, Woken
<1>6. CASE NextCpu
  BY <1>1, <1>6 DEF NextCpu, BspAt, Woken
<1>7. CASE LoopEnd
  BY <1>1, <1>7 DEF LoopEnd, BspAt, Woken
<1> QED BY <1>3, <1>4, <1>5, <1>6, <1>7 DEF Waking

(* A message that reaches a processor, or does not.                          *)
LEMMA MessageFacts ==
    ASSUME BringType, NEW c \in CpuId, Deliver(c) \/ Miss(c)
    PROVE  /\ pending[c] # <<>>
           /\ \/ at'[c] = at[c] /\ reg'[c] = reg[c]
              \/ at'[c] = "wait" /\ reg'[c] = [Reset EXCEPT !.apic = reg[c].apic]
              \/ at[c] = "wait" /\ at'[c] = "ap_entry_16" /\ reg'[c] = reg[c]
           /\ DOMAIN at' = CpuId /\ DOMAIN reg' = CpuId
           /\ \A d \in CpuId : d # c => at'[d] = at[d] /\ reg'[d] = reg[d]
           /\ UNCHANGED <<topo, tables, cpu, trampoline, ap>>
           /\ pending' = [pending EXCEPT ![c] = Tail(@)]
           /\ pending' \in [CpuId -> Seq({"INIT", "STARTUP"})]
<1>1. /\ DOMAIN at = CpuId /\ DOMAIN reg = CpuId
      /\ pending \in [CpuId -> Seq({"INIT", "STARTUP"})]
  BY DEF BringType
<1>2. pending[c] # <<>> /\ pending' = [pending EXCEPT ![c] = Tail(@)]
  BY DEF Deliver, Miss
<1>3. pending' \in [CpuId -> Seq({"INIT", "STARTUP"})]
  <2>1. PICK s \in Seq({"INIT", "STARTUP"}) : s = pending[c]
    BY <1>1
  <2>2. Tail(s) \in Seq({"INIT", "STARTUP"})
    BY <1>2, <2>1
  <2>3. PICK t \in Seq({"INIT", "STARTUP"}) : t = Tail(s)
    BY <2>2
  <2> QED BY <1>1, <1>2, <2>1, <2>3
<1>4. CASE Miss(c)
  BY <1>1, <1>2, <1>3, <1>4 DEF Miss
<1>5. CASE Deliver(c)
  <2>1. Head(pending[c]) \in {"INIT", "STARTUP"}
    <3>1. PICK s \in Seq({"INIT", "STARTUP"}) : s = pending[c]
      BY <1>1
    <3> QED BY <3>1, <1>2
  <2>2. CASE Head(pending[c]) = "INIT"
    BY <1>1, <1>2, <1>3, <1>5, <2>2 DEF Deliver
  <2>3. CASE Head(pending[c]) = "STARTUP"
    <3>1. at' = [at EXCEPT ![c] = IF @ = "wait" THEN "ap_entry_16" ELSE @] /\ UNCHANGED reg
      BY <1>5, <2>3 DEF Deliver
    <3> QED BY <1>1, <1>2, <1>3, <1>5, <3>1 DEF Deliver
  <2> QED BY <2>1, <2>2, <2>3
<1> QED BY <1>4, <1>5

(* The tasks of a processor change only its status and what their handlers   *)
(* have saved of it.                                                         *)
LEMMA TaskFacts ==
    ASSUME BringType, NEW c \in CpuId, TaskStep(c)
    PROVE  /\ UNCHANGED <<at, reg, tables, topo, trampoline, pending, lost, ap>>
           /\ DOMAIN cpu' = CpuId
           /\ \A d \in CpuId : /\ DOMAIN cpu'[d] = DOMAIN cpu[d]
                                /\ cpu'[d].has = cpu[d].has /\ cpu'[d].lapic = cpu[d].lapic
<1>1. UNCHANGED <<at, reg, tables, topo, trampoline, pending, lost, ap>>
  BY DEF TaskStep, PageFault, FaultReturn, wake_vars
<1>2. \E a, b : cpu' = [cpu EXCEPT ![c].faults = a, ![c].status = b]
  <2>1. CASE PageFault(c)
    BY <2>1 DEF PageFault
  <2>2. CASE FaultReturn(c)
    <3>1. PICK k : cpu' = [cpu EXCEPT ![c].status = cpu[c].faults[k], ![c].faults[k] = "returned"]
      BY <2>2 DEF FaultReturn
    <3> DEFINE b == cpu[c].faults[k]
               a == [cpu[c].faults EXCEPT ![k] = "returned"]
    <3>2. cpu' = [cpu EXCEPT ![c].faults = a, ![c].status = b]
      BY <3>1 DEF BringType
    <3> QED BY <3>2
  <2> QED BY <2>1, <2>2 DEF TaskStep
<1>3. PICK a, b : cpu' = [cpu EXCEPT ![c].faults = a, ![c].status = b]
  BY <1>2
<1>4. DOMAIN cpu = CpuId /\ \A d \in CpuId : DOMAIN cpu[d] = {"has", "lapic", "status", "faults"}
  BY DEF BringType
<1> QED BY <1>1, <1>3, <1>4

(* Every step keeps the types.                                               *)
LEMMA BringTypeStep ==
    ASSUME BringType, [Next]_vars
    PROVE  BringType'
<1>1. BSP \in CpuId
  BY CpuAssumption
<1>2. CASE NumaInit
  BY <1>1, <1>2 DEF NumaInit, BspAt, BringType
<1>3. CASE UNCHANGED bring_vars
  BY <1>3 DEF bring_vars, BringType
<1>4. ASSUME NEW c \in CpuId, Onward(c), Within(c)
      PROVE  BringType'
  BY <1>4 DEF Onward, Within, Goes, BringType, wake_vars
<1>5. CASE BspStep
  <2>1. CASE Waking
    <3>1. /\ DOMAIN at' = CpuId /\ UNCHANGED <<reg, cpu, tables>>
          /\ pending' \in [CpuId -> Seq({"INIT", "STARTUP"})] /\ ap' \in Nat \ {0}
      BY <2>1, WakingFacts DEF BringType
    <3> QED BY <3>1 DEF BringType
  <2> QED BY <1>1, <1>4, <1>5, <2>1, BspOnward, Zenon DEF BspStep, Waking
<1>6. ASSUME NEW c \in CpuId, CpuStep(c)
      PROVE  BringType'
  BY <1>4, <1>6, CpuOnward
<1>7. ASSUME NEW c \in CpuId, Deliver(c) \/ Miss(c)
      PROVE  BringType'
  <2>1. /\ DOMAIN at' = CpuId /\ DOMAIN reg' = CpuId
        /\ \A d \in CpuId : d # c => reg'[d] = reg[d]
        /\ reg'[c] = reg[c] \/ reg'[c] = [Reset EXCEPT !.apic = reg[c].apic]
        /\ UNCHANGED <<cpu, tables, ap>>
        /\ pending' \in [CpuId -> Seq({"INIT", "STARTUP"})]
    BY <1>7, MessageFacts, Zenon
  <2>2. DOMAIN reg'[c] = DOMAIN Reset
    BY <2>1 DEF BringType
  <2> QED BY <2>1, <2>2 DEF BringType
<1>8. ASSUME NEW c \in CpuId, TaskStep(c)
      PROVE  BringType'
  BY <1>8, TaskFacts DEF BringType
<1> QED BY <1>2, <1>3, <1>5, <1>6, <1>7, <1>8, BringSteps, Zenon

(* Every step keeps NumaInv: only NumaInit makes a topology, the boot        *)
(* processor gets past it by NumaInit alone, and until then it runs alone.   *)
LEMMA NumaStep ==
    ASSUME BringType, NumaInv, [Next]_vars
    PROVE  NumaInv'
<1>1. BSP \in CpuId /\ DOMAIN at = CpuId
  BY CpuAssumption DEF BringType
<1>2. machine' = machine /\ arch_numa_init(machine)' = arch_numa_init(machine)
  BY MachineKept
<1> HIDE DEF arch_numa_init
<1>3. CASE NumaInit
  <2>1. topo' = arch_numa_init(machine) /\ UNCHANGED pending
    BY <1>3 DEF NumaInit
  <2> QED BY <1>2, <2>1 DEF NumaInv
<1>4. CASE at[BSP] = "start_kernel" /\ UNCHANGED bring_vars
  BY <1>2, <1>4 DEF NumaInv, bring_vars, BeforeLists
<1>5. CASE UNCHANGED <<todo, bring_vars>>
  BY <1>2, <1>5 DEF NumaInv, bring_vars
<1>6. ASSUME NEW c \in CpuId, Onward(c), UNCHANGED todo
      PROVE  NumaInv'
  <2>1. PICK from, to : Goes(c, from, to) /\ ((c = BSP /\ from \in BeforeLists) => to \in BeforeLists)
    BY <1>6 DEF Onward
  <2>2. UNCHANGED <<topo, pending>>
    BY <2>1 DEF Goes, wake_vars
  <2>3. at[BSP] \in BeforeLists => at'[BSP] \in BeforeLists
    <3>1. "fault" \in BeforeLists
      BY DEF BeforeLists
    <3>2. CASE c = BSP
      BY <1>1, <2>1, <3>1, <3>2 DEF Goes
    <3>3. CASE c # BSP
      BY <1>1, <2>1, <3>3 DEF Goes
    <3> QED BY <3>2, <3>3
  <2> QED BY <1>2, <1>6, <2>2, <2>3 DEF NumaInv
<1>7. CASE BspStep /\ UNCHANGED todo
  <2>1. CASE Waking
    <3>1. UNCHANGED topo /\ pending'[BSP] = pending[BSP] /\ at[BSP] \in {"start_kernel"} \cup Woken
      BY <2>1, WakingFacts, Zenon
    <3> QED BY <1>2, <3>1 DEF NumaInv, BeforeLists, Woken
  <2> QED BY <1>1, <1>6, <1>7, <2>1, BspOnward, Zenon DEF BspStep, Waking
<1>8. ASSUME NEW c \in CpuId, CpuStep(c), UNCHANGED todo
      PROVE  NumaInv'
  BY <1>6, <1>8, CpuOnward
<1>9. ASSUME NEW c \in CpuId, Deliver(c) \/ Miss(c), UNCHANGED todo
      PROVE  NumaInv'
  <2>1. /\ pending[c] # <<>> /\ UNCHANGED topo
        /\ \A d \in CpuId : d # c => at'[d] = at[d]
        /\ pending' = [pending EXCEPT ![c] = Tail(@)]
    BY <1>9, MessageFacts, Zenon
  <2>2. c # BSP
    BY <2>1 DEF NumaInv
  <2>3. pending'[BSP] = pending[BSP]
    BY <1>1, <2>1, <2>2 DEF BringType
  <2> QED BY <1>1, <1>2, <1>9, <2>1, <2>2, <2>3 DEF NumaInv
<1>10. ASSUME NEW c \in CpuId, TaskStep(c), UNCHANGED todo
       PROVE  NumaInv'
  BY <1>2, <1>10, TaskFacts DEF NumaInv
<1> QED BY <1>3, <1>4, <1>5, <1>7, <1>8, <1>9, <1>10, BringSteps, Zenon

(* The boot begins with both.                                                *)
LEMMA BringStart == Init => BringType /\ NumaInv
<1> SUFFICES ASSUME Init PROVE BringType /\ NumaInv
  OBVIOUS
<1>1. BringupInit /\ BSP \in CpuId
  BY CpuAssumption DEF Init
<1>2. BringType
  <2>1. \A c \in CpuId : DOMAIN reg[c] = DOMAIN Reset /\ DOMAIN cpu[c] = {"has", "lapic", "status", "faults"}
    BY <1>1 DEF BringupInit, Loaded, Reset
  <2>2. /\ pending \in [CpuId -> Seq({"INIT", "STARTUP"})]
        /\ DOMAIN tables = {"loader", "init", "kernel", "none"}
    BY <1>1 DEF BringupInit
  <2> QED BY <1>1, <2>1, <2>2 DEF BringupInit, BringType
<1>3. PICK o \in DriverOrders :
         todo = <<<<"numa">>, <<"hostbridge">>, <<"pci_scan">>, <<"driver", o[1]>>,
                  <<"driver", o[2]>>, <<"driver", o[3]>>>>
  BY InitTodo
<1>4. 1 \in DOMAIN todo /\ todo[1][1] = "numa"
  BY <1>3
<1> QED BY <1>1, <1>2, <1>4 DEF NumaInv, BringupInit, BeforeLists

(* TopologyExact: on every machine, and whatever else the boot does then,    *)
(* get_cpu and get_cpu_by_index find each of the firmware's CPUs, once and   *)
(* under the indices 0 .. nr_cpus - 1, and the zones are disjoint and are    *)
(* the firmware's memory, from arch_numa_init on.                            *)
THEOREM TopologyTheorem == Spec => []TopologyExact
<1>1. Init => TypeInv /\ BringType /\ NumaInv
  BY InitType, BringStart
<1>2. TypeInv /\ BringType /\ NumaInv /\ [Next]_vars => (TypeInv /\ BringType /\ NumaInv)'
  BY TypeStep, BringTypeStep, NumaStep
<1>3. TypeInv /\ BringType /\ NumaInv => TopologyExact
  <2> SUFFICES ASSUME TypeInv, NumaInv, Regular(machine), ~(\E k \in DOMAIN todo : todo[k][1] = "numa")
               PROVE  Exact(topo, FirmwareCpus(machine), FirmwareMemory(machine))
    BY DEF TopologyExact, Exact
  <2>1. topo = arch_numa_init(machine) /\ machine \in Machines
    BY DEF NumaInv, TypeInv
  <2> QED BY <2>1, NumaExact
<1> QED BY <1>1, <1>2, <1>3, PTL DEF Spec

-------------------------------------------------------------------------------

(* What the processor is asked for is what it has: XCR0 is one it accepts,   *)
(* and x2APIC mode is one it has.                                            *)
LEMMA Legal ==
    ASSUME machine \in Machines, Expected(machine)
    PROVE  /\ "x87" \in Xcr0 => LegalXcr0(Xcr0) /\ "xsave" \in Cr4
           /\ Mode \in {1, 2} /\ (Mode = 2 => Has("x2apic"))
<1>1. /\ "sse" \in machine.has
      /\ "xsave" \in machine.has => {"x87", "sse"} \subseteq machine.xcr0
  BY MachinesAssumption
<1>2. "avx" \in machine.xcr0 => "avx" \in machine.has
  BY DEF Expected
<1>3. "sse3" \in machine.has <=> "x2apic" \in machine.has
  BY DEF Expected
<1>4. "x87" \in Xcr0 => "xsave" \in machine.has
  BY DEF Xcr0, Has, Avx512
<1>5. ASSUME "xsave" \in machine.has PROVE LegalXcr0(Xcr0)
  <2>1. Xcr0 \subseteq machine.xcr0 /\ "x87" \in Xcr0 /\ "sse" \in Xcr0
    BY <1>1, <1>5 DEF Xcr0, Has, Avx512
  <2>2. "avx" \in machine.xcr0 => "avx" \in Xcr0
    BY <1>2 DEF Xcr0, Has
  <2>3. Avx512 \cap Xcr0 # {} => Avx512 \cup {"avx"} \subseteq machine.xcr0
    BY DEF Xcr0, Avx512
  <2>4. Avx512 \cup {"avx"} \subseteq machine.xcr0 => Avx512 \subseteq Xcr0
    BY DEF Xcr0
  <2> QED BY <2>1, <2>2, <2>3, <2>4 DEF LegalXcr0
<1>6. "xsave" \in machine.has => "xsave" \in Cr4
  BY DEF Cr4
<1> QED BY <1>3, <1>4, <1>5, <1>6 DEF Mode, x2_apic_supported, Has

(* The registers of a processor, and what the kernel keeps of it.            *)
LEMMA Registers ==
    ASSUME BringType, NEW c \in CpuId
    PROVE  /\ DOMAIN reg[c] = {"rip", "sp", "pg", "pae", "lme", "cr3", "gdt", "idt", "tr", "IF_",
                               "cr4", "xcr0", "apic"}
           /\ c \in DOMAIN cpu /\ DOMAIN cpu[c] = {"has", "lapic", "status", "faults"}
BY DEF BringType, Reset

(* The page tables that a processor finds where it is, and its own CPU on    *)
(* the lists.                                                                *)
LEMMA TablesReady ==
    ASSUME machine \in Machines, Expected(machine), NumaInv, TableInv, NEW c \in CpuId, CpuInv(c)
    PROVE  /\ tables.loader = {"low"}
           /\ at[c] \notin OnLoader \cup {"off"} => tables.init = {"low", "high"}
           /\ (at[c] # "off" /\ c # BSP) \/ at[c] \in OnKernel => tables.kernel = {"high"}
           /\ at[c] = "x86_cpu_init" => get_cpu(topo, c) # {}
<1>1. CASE c # BSP
  <2>1. at[c] # "off" => at[BSP] \in Woken /\ c \in FirmwareCpus(machine)
    BY <1>1 DEF TableInv
  <2>2. at[BSP] \in Woken => at[BSP] \notin OnLoader /\ at[BSP] \in OnKernel /\ at[BSP] \notin BeforeLists
    BY DEF Woken, OnLoader, OnKernel, OnGdt, OnTss, OnIdt, OnIrq, OnLapic, Finished, BeforeLists
  <2>3. at[c] \in OnKernel => at[c] # "off"
    BY DEF OnKernel, OnGdt, OnTss, OnIdt, OnIrq, OnLapic, Finished, Woken
  <2>4. at[c] # "off" => topo = arch_numa_init(machine)
    BY <2>1, <2>2 DEF NumaInv
  <2>5. at[c] # "off" => get_cpu(topo, c) # {}
    BY <2>1, <2>4, NumaExact DEF Exact, Expected
  <2> QED BY <1>1, <2>1, <2>2, <2>3, <2>5 DEF TableInv
<1>2. CASE c = BSP
  <2>1. at[c] = "x86_cpu_init" => at[BSP] \notin BeforeLists
    BY <1>2 DEF BeforeLists
  <2>2. BSP \in FirmwareCpus(machine) /\ Regular(machine)
    BY DEF Expected
  <2>3. at[c] = "x86_cpu_init" => get_cpu(topo, c) # {}
    BY <1>2, <2>1, <2>2, NumaExact DEF NumaInv, Exact
  <2> QED BY <1>2, <2>3 DEF TableInv
<1> QED BY <1>1, <1>2

(* Each step of a processor is allowed, finds its code and stack mapped, and *)
(* leaves the processor and the tables as its next place says.               *)
LEMMA CpuReady ==
    ASSUME machine \in Machines, machine' = machine, Expected(machine), BringType, NumaInv, TableInv,
           NEW c \in CpuId, CpuInv(c), CpuStep(c)
    PROVE  CpuInv(c)' /\ TableInv'
<1>0. Mode' = Mode /\ BSP \in CpuId /\ FirmwareCpus(machine)' = FirmwareCpus(machine)
  BY CpuAssumption DEF Mode, x2_apic_supported, Has
<1> USE DEF CpuInv, Place, Modes, Maps, Own, own_vars, Woken, Real, Finished, OnLapic, OnIrq, OnIdt, OnTss,
            OnGdt, OnKernel, OnData, OnHigh, OnPaging, OnLoader, BspOnly, ApOnly
<1>1. CASE ap_entry_16(c)
  <2>1. /\ at[c] = "ap_entry_16"
        /\ trampoline
    BY <1>1, Legal DEF ap_entry_16, Go, TableInv
  <2>2. Runs([reg[c] EXCEPT !.gdt = ApTable, !.IF_ = FALSE])
    BY <1>1, <1>0, <2>1, Registers, TablesReady DEF ap_entry_16, Runs
  <2>3. at'[c] = "pae" /\ reg'[c] = [reg[c] EXCEPT !.gdt = ApTable, !.IF_ = FALSE]
    BY <1>1, <1>0, <2>1, <2>2 DEF ap_entry_16, Go, BringType
  <2>4. CpuInv(c)'
    BY <1>1, <1>0, <2>1, <2>3, Registers, TablesReady, Legal DEF ap_entry_16
  <2>5. TableInv'
    BY <1>1, <1>0, <2>1, <2>3 DEF ap_entry_16, Go, TableInv, BringType, wake_vars
  <2> QED BY <2>4, <2>5
<1>2. CASE EnablePae(c)
  <2>1. /\ at[c] = "pae"
        /\ reg[c].gdt = ApTable
    BY <1>2, Legal DEF EnablePae, Go, TableInv
  <2>2. Runs([reg[c] EXCEPT !.pae = TRUE])
    BY <1>2, <1>0, <2>1, Registers, TablesReady DEF EnablePae, Runs
  <2>3. at'[c] = "cr3" /\ reg'[c] = [reg[c] EXCEPT !.pae = TRUE]
    BY <1>2, <1>0, <2>1, <2>2 DEF EnablePae, Go, BringType
  <2>4. CpuInv(c)'
    BY <1>2, <1>0, <2>1, <2>3, Registers, TablesReady, Legal DEF EnablePae
  <2>5. TableInv'
    BY <1>2, <1>0, <2>1, <2>3 DEF EnablePae, Go, TableInv, BringType, wake_vars
  <2> QED BY <2>4, <2>5
<1>3. CASE LoadCr3(c)
  <2>1. at[c] = "cr3"
    BY <1>3, Legal DEF LoadCr3, Go, TableInv
  <2>2. Runs([reg[c] EXCEPT !.cr3 = "init"])
    BY <1>3, <1>0, <2>1, Registers, TablesReady DEF LoadCr3, Runs
  <2>3. at'[c] = "lme" /\ reg'[c] = [reg[c] EXCEPT !.cr3 = "init"]
    BY <1>3, <1>0, <2>1, <2>2 DEF LoadCr3, Go, BringType
  <2>4. CpuInv(c)'
    BY <1>3, <1>0, <2>1, <2>3, Registers, TablesReady, Legal DEF LoadCr3
  <2>5. TableInv'
    BY <1>3, <1>0, <2>1, <2>3 DEF LoadCr3, Go, TableInv, BringType, wake_vars
  <2> QED BY <2>4, <2>5
<1>4. CASE EnableLongMode(c)
  <2>1. /\ at[c] = "lme"
        /\ ~reg[c].pg
    BY <1>4, Legal DEF EnableLongMode, Go, TableInv
  <2>2. Runs([reg[c] EXCEPT !.lme = TRUE])
    BY <1>4, <1>0, <2>1, Registers, TablesReady DEF EnableLongMode, Runs
  <2>3. at'[c] = "paging" /\ reg'[c] = [reg[c] EXCEPT !.lme = TRUE]
    BY <1>4, <1>0, <2>1, <2>2 DEF EnableLongMode, Go, BringType
  <2>4. CpuInv(c)'
    BY <1>4, <1>0, <2>1, <2>3, Registers, TablesReady, Legal DEF EnableLongMode
  <2>5. TableInv'
    BY <1>4, <1>0, <2>1, <2>3 DEF EnableLongMode, Go, TableInv, BringType, wake_vars
  <2> QED BY <2>4, <2>5
<1>5. CASE EnablePaging(c)
  <2>1. /\ at[c] = "paging"
        /\ reg[c].lme /\ reg[c].pae
    BY <1>5, Legal DEF EnablePaging, Go, TableInv
  <2>2. Runs([reg[c] EXCEPT !.pg = TRUE])
    BY <1>5, <1>0, <2>1, Registers, TablesReady DEF EnablePaging, Runs
  <2>3. at'[c] = "jump" /\ reg'[c] = [reg[c] EXCEPT !.pg = TRUE]
    BY <1>5, <1>0, <2>1, <2>2 DEF EnablePaging, Go, BringType
  <2>4. CpuInv(c)'
    BY <1>5, <1>0, <2>1, <2>3, Registers, TablesReady, Legal DEF EnablePaging
  <2>5. TableInv'
    BY <1>5, <1>0, <2>1, <2>3 DEF EnablePaging, Go, TableInv, BringType, wake_vars
  <2> QED BY <2>4, <2>5
<1>6. CASE Jump(c)
  <2>1. at[c] = "jump"
    BY <1>6, Legal DEF Jump, Go, TableInv
  <2>2. Runs([reg[c] EXCEPT !.rip = "high"])
    BY <1>6, <1>0, <2>1, Registers, TablesReady DEF Jump, Runs
  <2>3. at'[c] = "kernel_space_entry" /\ reg'[c] = [reg[c] EXCEPT !.rip = "high"]
    BY <1>6, <1>0, <2>1, <2>2 DEF Jump, Go, BringType
  <2>4. CpuInv(c)'
    BY <1>6, <1>0, <2>1, <2>3, Registers, TablesReady, Legal DEF Jump
  <2>5. TableInv'
    BY <1>6, <1>0, <2>1, <2>3 DEF Jump, Go, TableInv, BringType, wake_vars
  <2> QED BY <2>4, <2>5
<1>7. CASE kernel_space_entry(c)
  <2>1. at[c] = "kernel_space_entry"
    BY <1>7, Legal DEF kernel_space_entry, Go, TableInv
  <2>2. Runs([reg[c] EXCEPT !.sp = "high"])
    BY <1>7, <1>0, <2>1, Registers, TablesReady DEF kernel_space_entry, Runs
  <2>3. /\ at'[c] = (IF c = BSP THEN "arch_init" ELSE "x86_cpu_init")
        /\ reg'[c] = [reg[c] EXCEPT !.sp = "high"]
    BY <1>7, <1>0, <2>1, <2>2 DEF kernel_space_entry, Go, BringType
  <2>4. CpuInv(c)'
    BY <1>7, <1>0, <2>1, <2>3, Registers, TablesReady, Legal DEF kernel_space_entry
  <2>5. TableInv'
    BY <1>7, <1>0, <2>1, <2>3 DEF kernel_space_entry, Go, TableInv, BringType, wake_vars
  <2> QED BY <2>4, <2>5
<1>8. CASE x86_cpu_init(c)
  <2>1. at[c] = "x86_cpu_init"
    BY <1>8, Legal DEF x86_cpu_init, Go, TableInv
  <2>2. Runs(reg[c])
    BY <1>8, <1>0, <2>1, Registers, TablesReady DEF x86_cpu_init, Runs
  <2>3. at'[c] = "enable_cpu_features" /\ reg'[c] = reg[c]
    BY <1>8, <1>0, <2>1, <2>2 DEF x86_cpu_init, Go, BringType
  <2>4. CpuInv(c)'
    BY <1>8, <1>0, <2>1, <2>3, Registers, TablesReady, Legal DEF x86_cpu_init
  <2>5. TableInv'
    BY <1>8, <1>0, <2>1, <2>3 DEF x86_cpu_init, Go, TableInv, BringType, wake_vars
  <2> QED BY <2>4, <2>5
<1>9. CASE enable_cpu_features(c)
  <2>1. /\ at[c] = "enable_cpu_features"
        /\ "x87" \in Xcr0 => LegalXcr0(Xcr0) /\ "xsave" \in Cr4
    BY <1>9, Legal DEF enable_cpu_features, Go, TableInv
  <2>2. Runs([reg[c] EXCEPT !.cr4 = Cr4, !.xcr0 = IF "x87" \in Xcr0 THEN Xcr0 ELSE @])
    BY <1>9, <1>0, <2>1, Registers, TablesReady DEF enable_cpu_features, Runs
  <2>3. /\ at'[c] = "map_kernel_memory"
        /\ reg'[c] = [reg[c] EXCEPT !.cr4 = Cr4, !.xcr0 = IF "x87" \in Xcr0 THEN Xcr0 ELSE @]
    BY <1>9, <1>0, <2>1, <2>2 DEF enable_cpu_features, Go, BringType
  <2>4. CpuInv(c)'
    BY <1>9, <1>0, <2>1, <2>3, Registers, TablesReady, Legal DEF enable_cpu_features
  <2>5. TableInv'
    BY <1>9, <1>0, <2>1, <2>3 DEF enable_cpu_features, Go, TableInv, BringType, wake_vars
  <2> QED BY <2>4, <2>5
<1>10. CASE map_kernel_memory(c)
  <2>1. at[c] = "map_kernel_memory"
    BY <1>10, Legal DEF map_kernel_memory, Go, TableInv
  <2>2. tables'.kernel = {"high"} /\ tables'.kernel # {}
    BY <1>10, <2>1, TablesReady DEF map_kernel_memory, BringType
  <2>3. Runs([reg[c] EXCEPT !.cr3 = "kernel"])
    BY <1>10, <1>0, <2>1, <2>2, Registers, TablesReady DEF map_kernel_memory, Runs
  <2>4. at'[c] = "set_kernel_segment" /\ reg'[c] = [reg[c] EXCEPT !.cr3 = "kernel"]
    BY <1>10, <1>0, <2>1, <2>2, <2>3 DEF map_kernel_memory, Go, BringType
  <2>5. CpuInv(c)'
    BY <1>10, <1>0, <2>1, <2>4, Registers, TablesReady, Legal DEF map_kernel_memory
  <2>6. TableInv'
    BY <1>10, <1>0, <2>1, <2>4 DEF map_kernel_memory, Go, TableInv, BringType, wake_vars
  <2> QED BY <2>5, <2>6
<1>11. CASE set_kernel_segment(c)
  <2>1. /\ at[c] = "set_kernel_segment"
        /\ "arch_data" \in cpu[c].has
    BY <1>11, Legal DEF set_kernel_segment, Go, TableInv
  <2>2. Runs([reg[c] EXCEPT !.gdt = c])
    BY <1>11, <1>0, <2>1, Registers, TablesReady DEF set_kernel_segment, Runs
  <2>3. at'[c] = "set_tss_desc" /\ reg'[c] = [reg[c] EXCEPT !.gdt = c]
    BY <1>11, <1>0, <2>1, <2>2 DEF set_kernel_segment, Go, BringType
  <2>4. CpuInv(c)'
    BY <1>11, <1>0, <2>1, <2>3, Registers, TablesReady, Legal DEF set_kernel_segment
  <2>5. TableInv'
    BY <1>11, <1>0, <2>1, <2>3 DEF set_kernel_segment, Go, TableInv, BringType, wake_vars
  <2> QED BY <2>4, <2>5
<1>12. CASE set_tss_desc(c)
  <2>1. /\ at[c] = "set_tss_desc"
        /\ reg[c].gdt = c
    BY <1>12, Legal DEF set_tss_desc, Go, TableInv
  <2>2. Runs([reg[c] EXCEPT !.tr = c])
    BY <1>12, <1>0, <2>1, Registers, TablesReady DEF set_tss_desc, Runs
  <2>3. at'[c] = "set_intr_desc" /\ reg'[c] = [reg[c] EXCEPT !.tr = c]
    BY <1>12, <1>0, <2>1, <2>2 DEF set_tss_desc, Go, BringType
  <2>4. CpuInv(c)'
    BY <1>12, <1>0, <2>1, <2>3, Registers, TablesReady, Legal DEF set_tss_desc
  <2>5. TableInv'
    BY <1>12, <1>0, <2>1, <2>3 DEF set_tss_desc, Go, TableInv, BringType, wake_vars
  <2> QED BY <2>4, <2>5
<1>13. CASE set_intr_desc(c)
  <2>1. at[c] = "set_intr_desc"
    BY <1>13, Legal DEF set_intr_desc, Go, TableInv
  <2>2. Runs([reg[c] EXCEPT !.idt = c])
    BY <1>13, <1>0, <2>1, Registers, TablesReady DEF set_intr_desc, Runs
  <2>3. at'[c] = "setup_irq" /\ reg'[c] = [reg[c] EXCEPT !.idt = c]
    BY <1>13, <1>0, <2>1, <2>2 DEF set_intr_desc, Go, BringType
  <2>4. CpuInv(c)'
    BY <1>13, <1>0, <2>1, <2>3, Registers, TablesReady, Legal DEF set_intr_desc
  <2>5. TableInv'
    BY <1>13, <1>0, <2>1, <2>3 DEF set_intr_desc, Go, TableInv, BringType, wake_vars
  <2> QED BY <2>4, <2>5
<1>14. CASE setup_irq(c)
  <2>1. at[c] = "setup_irq"
    BY <1>14, Legal DEF setup_irq, Go, TableInv
  <2>2. Runs(reg[c])
    BY <1>14, <1>0, <2>1, Registers, TablesReady DEF setup_irq, Runs
  <2>3. at'[c] = "lapic_enable" /\ reg'[c] = reg[c]
    BY <1>14, <1>0, <2>1, <2>2 DEF setup_irq, Go, BringType
  <2>4. CpuInv(c)'
    BY <1>14, <1>0, <2>1, <2>3, Registers, TablesReady, Legal DEF setup_irq
  <2>5. TableInv'
    BY <1>14, <1>0, <2>1, <2>3 DEF setup_irq, Go, TableInv, BringType, wake_vars
  <2> QED BY <2>4, <2>5
<1>15. CASE lapic_enable(c)
  <2>1. /\ at[c] = "lapic_enable"
        /\ (Mode = 2 => Has("x2apic")) /\ (Mode = 1 => reg[c].apic = 1)
    BY <1>15, Legal DEF lapic_enable, Go, TableInv
  <2>2. Runs([reg[c] EXCEPT !.apic = Mode])
    BY <1>15, <1>0, <2>1, Registers, TablesReady DEF lapic_enable, Runs
  <2>3. at'[c] = "idle" /\ reg'[c] = [reg[c] EXCEPT !.apic = Mode]
    BY <1>15, <1>0, <2>1, <2>2 DEF lapic_enable, Go, BringType
  <2>4. CpuInv(c)'
    BY <1>15, <1>0, <2>1, <2>3, Registers, TablesReady, Legal DEF lapic_enable
  <2>5. TableInv'
    BY <1>15, <1>0, <2>1, <2>3 DEF lapic_enable, Go, TableInv, BringType, wake_vars
  <2> QED BY <2>4, <2>5
<1>16. CASE SetIdle(c)
  <2>1. at[c] = "idle"
    BY <1>16, Legal DEF SetIdle, Go, TableInv
  <2>2. Runs(reg[c])
    BY <1>16, <1>0, <2>1, Registers, TablesReady DEF SetIdle, Runs
  <2>3. at'[c] = "sti" /\ reg'[c] = reg[c]
    BY <1>16, <1>0, <2>1, <2>2 DEF SetIdle, Go, BringType
  <2>4. CpuInv(c)'
    BY <1>16, <1>0, <2>1, <2>3, Registers, TablesReady, Legal DEF SetIdle
  <2>5. TableInv'
    BY <1>16, <1>0, <2>1, <2>3 DEF SetIdle, Go, TableInv, BringType, wake_vars
  <2> QED BY <2>4, <2>5
<1>17. CASE Sti(c)
  <2>1. at[c] = "sti"
    BY <1>17, Legal DEF Sti, Go, TableInv
  <2>2. Runs([reg[c] EXCEPT !.IF_ = TRUE])
    BY <1>17, <1>0, <2>1, Registers, TablesReady DEF Sti, Runs
  <2>3. /\ at'[c] = (IF c = BSP THEN "start_kernel" ELSE "up")
        /\ reg'[c] = [reg[c] EXCEPT !.IF_ = TRUE]
    BY <1>17, <1>0, <2>1, <2>2 DEF Sti, Go, BringType
  <2>4. CpuInv(c)'
    BY <1>17, <1>0, <2>1, <2>3, Registers, TablesReady, Legal DEF Sti
  <2>5. TableInv'
    BY <1>17, <1>0, <2>1, <2>3 DEF Sti, Go, TableInv, BringType, wake_vars
  <2> QED BY <2>4, <2>5
<1> QED BY <1>1, <1>2, <1>3, <1>4, <1>5, <1>6, <1>7, <1>8, <1>9, <1>10, <1>11, <1>12, <1>13, <1>14, <1>15, <1>16, <1>17, Zenon DEF CpuStep

(* The same for the first steps of the boot processor, and for               *)
(* arch_numa_init, which it calls.                                           *)
LEMMA BspReady ==
    ASSUME machine \in Machines, machine' = machine, Expected(machine), BringType, NumaInv, TableInv,
           CpuInv(BSP), bsp_entry_64 \/ setup_init_mapping \/ NumaInit
    PROVE  CpuInv(BSP)' /\ TableInv'
<1>0. Mode' = Mode /\ BSP \in CpuId /\ FirmwareCpus(machine)' = FirmwareCpus(machine)
  BY CpuAssumption DEF Mode, x2_apic_supported, Has
<1> USE DEF CpuInv, Place, Modes, Maps, Own, own_vars, Woken, Real, Finished, OnLapic, OnIrq, OnIdt, OnTss,
            OnGdt, OnKernel, OnData, OnHigh, OnPaging, OnLoader, BspOnly, ApOnly
<1>1. CASE bsp_entry_64
  <2>1. at[BSP] = "bsp_entry_64"
    BY <1>1, Legal DEF bsp_entry_64, Go, TableInv
  <2>2. Runs([reg[BSP] EXCEPT !.IF_ = FALSE, !.sp = "low"])
    BY <1>1, <1>0, <2>1, Registers, TablesReady DEF bsp_entry_64, Runs
  <2>3. /\ at'[BSP] = "setup_init_mapping"
        /\ reg'[BSP] = [reg[BSP] EXCEPT !.IF_ = FALSE, !.sp = "low"]
    BY <1>1, <1>0, <2>1, <2>2 DEF bsp_entry_64, Go, BringType
  <2>4. CpuInv(BSP)'
    BY <1>1, <1>0, <2>1, <2>3, Registers, TablesReady, Legal DEF bsp_entry_64
  <2>5. TableInv'
    BY <1>1, <1>0, <2>1, <2>3 DEF bsp_entry_64, Go, TableInv, BringType, wake_vars
  <2> QED BY <2>4, <2>5
<1>2. CASE setup_init_mapping
  <2>1. at[BSP] = "setup_init_mapping"
    BY <1>2, Legal DEF setup_init_mapping, Go, TableInv
  <2>2. Runs([reg[BSP] EXCEPT !.cr3 = "init", !.sp = "high"])
    BY <1>2, <1>0, <2>1, Registers, TablesReady DEF setup_init_mapping, Runs, BringType
  <2>3. at'[BSP] = "jump" /\ reg'[BSP] = [reg[BSP] EXCEPT !.cr3 = "init", !.sp = "high"]
    BY <1>2, <1>0, <2>1, <2>2 DEF setup_init_mapping, Go, BringType
  <2>4. CpuInv(BSP)'
    BY <1>2, <1>0, <2>1, <2>3, Registers, TablesReady, Legal DEF setup_init_mapping
  <2>5. TableInv'
    BY <1>2, <1>0, <2>1, <2>3 DEF setup_init_mapping, Go, TableInv, BringType, wake_vars
  <2> QED BY <2>4, <2>5
<1>3. CASE NumaInit
  <2>1. /\ at[BSP] = "arch_init" /\ at' = [at EXCEPT ![BSP] = "x86_cpu_init"]
        /\ UNCHANGED <<reg, tables, cpu, trampoline, pending>>
    BY <1>3 DEF NumaInit, BspAt
  <2>2. at'[BSP] = "x86_cpu_init" /\ \A c \in CpuId : c # BSP => at'[c] = at[c]
    BY <1>0, <2>1 DEF BringType
  <2>3. CpuInv(BSP)'
    BY <1>0, <2>1, <2>2
  <2>4. TableInv'
    BY <1>0, <2>1, <2>2 DEF TableInv
  <2> QED BY <2>3, <2>4
<1> QED BY <1>1, <1>2, <1>3

(* An element of a sequence over a set is one of the set.                    *)
LEMMA SeqElement ==
    ASSUME NEW T, NEW s \in Seq(T), NEW n \in 1 .. Len(s)
    PROVE  s[n] \in T
OBVIOUS

(* The boot processor, when it wakes the others: those of the lists, which   *)
(* are the firmware's.                                                       *)
LEMMA WakingReady ==
    ASSUME machine \in Machines, machine' = machine, Expected(machine), BringType, NumaInv, TableInv,
           CpuInv(BSP), Waking
    PROVE  CpuInv(BSP)' /\ TableInv'
<1>0. Mode' = Mode /\ BSP \in CpuId /\ FirmwareCpus(machine)' = FirmwareCpus(machine)
  BY CpuAssumption DEF Mode, x2_apic_supported, Has
<1>1. /\ at[BSP] \in {"start_kernel"} \cup Woken /\ at'[BSP] \in Woken
      /\ \A c \in CpuId : c # BSP => at'[c] = at[c]
      /\ UNCHANGED <<reg, tables, cpu>>
  BY WakingFacts DEF BringType
<1>2. CpuInv(BSP)'
  BY <1>0, <1>1 DEF CpuInv, Place, Modes, Maps, Own, Woken, Real, Finished, OnLapic, OnIrq, OnIdt, OnTss,
        OnGdt, OnKernel, OnData, OnHigh, OnPaging, OnLoader, BspOnly, ApOnly
<1>3. at[BSP] \in Woken => trampoline' = trampoline
  BY <1>0 DEF Waking, wakeup_all_processors, mp_init_all, mp_init_single, NextCpu, LoopEnd, BspAt, Woken
<1>4. trampoline'
  <2>1. CASE wakeup_all_processors
    BY <2>1 DEF wakeup_all_processors
  <2>2. CASE mp_init_all \/ mp_init_single \/ NextCpu \/ LoopEnd
    <3>1. at[BSP] \in Woken
      BY <2>2 DEF mp_init_all, mp_init_single, NextCpu, LoopEnd, BspAt, Woken
    <3> QED BY <1>3, <3>1 DEF TableInv
  <2> QED BY <2>1, <2>2 DEF Waking
<1>5. ASSUME NEW c \in CpuId \ {BSP}, pending'[c] # <<>>
      PROVE  pending[c] # <<>> \/ c \in FirmwareCpus(machine)
  <2>1. CASE wakeup_all_processors \/ NextCpu \/ LoopEnd
    BY <1>5, <2>1 DEF wakeup_all_processors, NextCpu, LoopEnd
  <2>2. CASE mp_init_all
    <3>1. c \in machine.cpus \/ pending'[c] = pending[c]
      BY <2>2 DEF mp_init_all
    <3> QED BY <1>5, <3>1 DEF Expected
  <2>3. CASE mp_init_single
    <3>1. PICK d : d = Target
      OBVIOUS
    <3>2. /\ pending' = [pending EXCEPT ![d] = lapic_send_ipi(@)]
          /\ ap <= Len(Cpus(topo)) /\ at[BSP] = "wake"
      BY <2>3, <3>1 DEF mp_init_single, BspAt
    <3>3. topo = arch_numa_init(machine)
      BY <3>2 DEF NumaInv, BeforeLists
    <3>4. Cpus(topo) \in Seq([index : Nat, id : FirmwareCpus(machine)])
      BY <3>3, NumaExact DEF Expected
    <3>5. ap \in Nat \ {0}
      BY DEF BringType
    <3>6. Cpus(topo)[ap] \in [index : Nat, id : FirmwareCpus(machine)]
      <4>1. PICK s \in Seq([index : Nat, id : FirmwareCpus(machine)]) : s = Cpus(topo)
        BY <3>4
      <4>2. PICK n \in Nat \ {0} : n = ap
        BY <3>5
      <4>3. n \in 1 .. Len(s)
        BY <3>2, <4>1, <4>2
      <4>4. s[n] \in [index : Nat, id : FirmwareCpus(machine)]
        BY <4>3, SeqElement, Zenon
      <4> QED BY <4>1, <4>2, <4>4
    <3>7. d \in FirmwareCpus(machine)
      BY <3>1, <3>6 DEF Target
    <3>8. c # d => pending'[c] = pending[c]
      BY <3>2 DEF BringType
    <3> QED BY <1>5, <3>7, <3>8
  <2> QED BY <2>1, <2>2, <2>3 DEF Waking
<1>6. TableInv'
  <2>1. /\ at[BSP] \notin OnLoader /\ at[BSP] \in OnKernel
        /\ at'[BSP] \notin OnLoader /\ at'[BSP] \in OnKernel
    BY <1>1 DEF Woken, OnLoader, OnKernel, OnGdt, OnTss, OnIdt, OnIrq, OnLapic, Finished
  <2>2. /\ tables'.loader = {"low"} /\ tables'.init = {"low", "high"} /\ tables'.kernel = {"high"}
    BY <1>1, <2>1 DEF TableInv
  <2>3. ASSUME NEW c \in CpuId \ {BSP}, at'[c] # "off" \/ pending'[c] # <<>>
        PROVE  c \in FirmwareCpus(machine)
    BY <1>1, <1>5, <2>3 DEF TableInv
  <2> QED BY <1>0, <1>1, <1>4, <2>2, <2>3 DEF TableInv
<1> QED BY <1>2, <1>6

(* A message restarts its processor, or lets it run.                         *)
LEMMA MessageReady ==
    ASSUME machine' = machine, BringType, NumaInv, TableInv,
           NEW c \in CpuId, CpuInv(c), Deliver(c) \/ Miss(c)
    PROVE  CpuInv(c)' /\ TableInv'
<1>0. Mode' = Mode /\ BSP \in CpuId /\ FirmwareCpus(machine)' = FirmwareCpus(machine)
  BY CpuAssumption DEF Mode, x2_apic_supported, Has
<1>1. /\ pending[c] # <<>>
      /\ \/ at'[c] = at[c] /\ reg'[c] = reg[c]
         \/ at'[c] = "wait" /\ reg'[c] = [Reset EXCEPT !.apic = reg[c].apic]
         \/ at[c] = "wait" /\ at'[c] = "ap_entry_16" /\ reg'[c] = reg[c]
      /\ \A d \in CpuId : d # c => at'[d] = at[d] /\ reg'[d] = reg[d]
      /\ UNCHANGED <<topo, tables, cpu, trampoline, ap>>
      /\ pending' = [pending EXCEPT ![c] = Tail(@)]
  BY MessageFacts, Zenon
<1>2. c # BSP
  BY <1>1 DEF NumaInv
<1>3. CpuInv(c)'
  <2> USE DEF CpuInv, Place, Modes, Maps, Own, Woken, Real, Finished, OnLapic, OnIrq, OnIdt, OnTss,
        OnGdt, OnKernel, OnData, OnHigh, OnPaging, OnLoader, BspOnly, ApOnly
  <2>1. CASE at'[c] = at[c] /\ reg'[c] = reg[c]
    BY <1>0, <1>1, <2>1
  <2>2. CASE at'[c] = "wait" /\ reg'[c] = [Reset EXCEPT !.apic = reg[c].apic]
    BY <1>0, <1>1, <1>2, <2>2 DEF Reset
  <2>3. CASE at[c] = "wait" /\ at'[c] = "ap_entry_16" /\ reg'[c] = reg[c]
    BY <1>0, <1>1, <1>2, <2>3
  <2> QED BY <1>1, <2>1, <2>2, <2>3
<1>4. TableInv'
  <2>1. at[BSP] \in Woken /\ c \in FirmwareCpus(machine) /\ at'[BSP] = at[BSP]
    BY <1>0, <1>1, <1>2 DEF TableInv
  <2>2. \A d \in CpuId \ {BSP} : d # c => at'[d] = at[d] /\ pending'[d] = pending[d]
    BY <1>1 DEF BringType
  <2> QED BY <1>0, <1>1, <2>1, <2>2 DEF TableInv
<1> QED BY <1>3, <1>4

(* Every step keeps BringInv.                                                *)
LEMMA BringStep ==
    ASSUME TypeInv, BringType, NumaInv, BringInv, [Next]_vars
    PROVE  BringInv'
<1>1. machine' = machine /\ machine \in Machines /\ BSP \in CpuId
  BY MachineKept, CpuAssumption DEF TypeInv
<1>2. Expected(machine)' <=> Expected(machine)
  BY <1>1
<1> SUFFICES ASSUME Expected(machine) PROVE TableInv' /\ \A d \in CpuId : CpuInv(d)'
  BY <1>2 DEF BringInv
<1>3. TableInv /\ \A d \in CpuId : CpuInv(d)
  BY DEF BringInv
<1>4. ASSUME NEW d \in CpuId, at'[d] = at[d], reg'[d] = reg[d],
             cpu'[d].has = cpu[d].has /\ cpu'[d].lapic = cpu[d].lapic
      PROVE  CpuInv(d)'
  <2>1. Mode' = Mode
    BY <1>1 DEF Mode, x2_apic_supported, Has
  <2>2. CpuInv(d)
    BY <1>3
  <2> QED BY <1>4, <2>1, <2>2 DEF CpuInv, Place, Modes, Maps, Own
<1>5. ASSUME NEW c \in CpuId, CpuInv(c)', TableInv',
             \A d \in CpuId : d # c => at'[d] = at[d] /\ reg'[d] = reg[d] /\ cpu'[d] = cpu[d]
      PROVE  TableInv' /\ \A d \in CpuId : CpuInv(d)'
  <2>1. ASSUME NEW d \in CpuId PROVE CpuInv(d)'
    <3>1. CASE d = c
      BY <1>5, <3>1
    <3>2. CASE d # c
      BY <1>4, <1>5, <3>2
    <3> QED BY <3>1, <3>2
  <2> QED BY <1>5, <2>1
<1>6. CASE UNCHANGED bring_vars
  <2>1. UNCHANGED <<at, reg, tables, cpu, trampoline, pending>>
    BY <1>6 DEF bring_vars
  <2>2. TableInv'
    <3>1. FirmwareCpus(machine)' = FirmwareCpus(machine)
      BY <1>1
    <3> QED BY <1>3, <2>1, <3>1 DEF TableInv
  <2> QED BY <1>4, <2>1, <2>2
<1>7. CASE NumaInit
  <2>1. \A d \in CpuId : d # BSP => at'[d] = at[d] /\ reg'[d] = reg[d] /\ cpu'[d] = cpu[d]
    BY <1>7 DEF NumaInit, BspAt, BringType
  <2> QED BY <1>1, <1>3, <1>5, <1>7, <2>1, BspReady
<1>8. ASSUME NEW c \in CpuId, Onward(c), Within(c)
      PROVE  \A d \in CpuId : d # c => at'[d] = at[d] /\ reg'[d] = reg[d] /\ cpu'[d] = cpu[d]
  <2>1. PICK from, to : Goes(c, from, to)
    BY <1>8 DEF Onward
  <2> QED BY <1>8, <2>1 DEF Goes, Within, BringType
<1>9. CASE bsp_entry_64 \/ setup_init_mapping
  <2>1. Onward(BSP) /\ Within(BSP)
    BY <1>9, BspOnward
  <2> QED BY <1>1, <1>3, <1>5, <1>8, <1>9, <2>1, BspReady
<1>10. CASE Waking
  <2>1. \A d \in CpuId : d # BSP => at'[d] = at[d] /\ reg'[d] = reg[d] /\ cpu'[d] = cpu[d]
    BY <1>10, WakingFacts DEF BringType
  <2> QED BY <1>1, <1>3, <1>5, <1>10, <2>1, WakingReady
<1>11. ASSUME NEW c \in CpuId, CpuStep(c)
       PROVE  TableInv' /\ \A d \in CpuId : CpuInv(d)'
  <2>1. Onward(c) /\ Within(c)
    BY <1>11, CpuOnward
  <2>2. CpuInv(c)' /\ TableInv'
    BY <1>1, <1>3, <1>11, CpuReady
  <2> QED BY <1>5, <1>8, <2>1, <2>2
<1>12. ASSUME NEW c \in CpuId, Deliver(c) \/ Miss(c)
       PROVE  TableInv' /\ \A d \in CpuId : CpuInv(d)'
  <2>1. \A d \in CpuId : d # c => at'[d] = at[d] /\ reg'[d] = reg[d] /\ cpu'[d] = cpu[d]
    BY <1>12, MessageFacts
  <2>2. CpuInv(c)' /\ TableInv'
    BY <1>1, <1>3, <1>12, MessageReady
  <2> QED BY <1>5, <2>1, <2>2
<1>13. BspStep <=> bsp_entry_64 \/ setup_init_mapping \/ Waking
  BY Zenon DEF BspStep, Waking
<1>14. ASSUME NEW c \in CpuId, TaskStep(c)
       PROVE  TableInv' /\ \A d \in CpuId : CpuInv(d)'
  <2>1. FirmwareCpus(machine)' = FirmwareCpus(machine)
    BY <1>1
  <2>2. TableInv'
    BY <1>3, <1>14, <2>1, TaskFacts DEF TableInv
  <2> QED BY <1>4, <1>14, <2>2, TaskFacts
<1> QED BY <1>6, <1>7, <1>9, <1>10, <1>11, <1>12, <1>13, <1>14, BringSteps, Zenon

(* The boot begins with it: only the boot processor runs, from the loader.   *)
LEMMA BringReady == Init => BringInv
<1> SUFFICES ASSUME Init PROVE BringInv
  OBVIOUS
<1>1. BringupInit /\ BSP \in CpuId
  BY CpuAssumption DEF Init
<1>2. TableInv
  BY <1>1 DEF BringupInit, TableInv, OnLoader, OnKernel, OnGdt, OnTss, OnIdt, OnIrq, OnLapic, Finished, Woken
<1>3. ASSUME NEW c \in CpuId PROVE CpuInv(c)
  <2> USE DEF CpuInv, Place, Modes, Maps, Own, Woken, Real, Finished, OnLapic, OnIrq, OnIdt, OnTss,
        OnGdt, OnKernel, OnData, OnHigh, OnPaging, OnLoader, BspOnly, ApOnly
  <2>1. CASE c = BSP
    BY <1>1, <2>1 DEF BringupInit, Loaded, Reset
  <2>2. CASE c # BSP
    BY <1>1, <2>2 DEF BringupInit, Reset
  <2> QED BY <2>1, <2>2
<1> QED BY <1>2, <1>3 DEF BringInv

(* BootSound: on every machine of the kind it is claimed of, no processor    *)
(* takes a step that it refuses or runs where nothing is mapped, and it has  *)
(* its own gates, segments, stack and lists before its interrupts are on;    *)
(* the network card's interrupts wait for its rings.                         *)
THEOREM BootTheorem == Spec => []BootSound
<1>1. Init => TypeInv /\ NicInv /\ BringType /\ NumaInv /\ BringInv
  BY InitType, NicStart, BringStart, BringReady
<1>2. TypeInv /\ NicInv /\ BringType /\ NumaInv /\ BringInv /\ [Next]_vars
         => (TypeInv /\ NicInv /\ BringType /\ NumaInv /\ BringInv)'
  BY TypeStep, NicStep, BringTypeStep, NumaStep, BringStep
<1>3. NicInv /\ BringInv => BootSound
  <2> SUFFICES ASSUME NicInv, BringInv PROVE BootSound
    OBVIOUS
  <2>1. HandlerReady
    BY DEF NicInv, CardInv, HandlerReady
  <2>2. ASSUME Expected(machine), NEW c \in CpuId
        PROVE  at[c] # "fault" /\ ((reg[c].IF_ /\ reg[c].cr3 # "loader") => OwnTables(c))
    <3> USE DEF CpuInv, Place, Modes, Maps, Own, Woken, Real, Finished, OnLapic, OnIrq, OnIdt, OnTss,
          OnGdt, OnKernel, OnData, OnHigh, OnPaging, OnLoader, BspOnly, ApOnly
    <3>1. CpuInv(c)
      BY <2>2 DEF BringInv
    <3>2. at[c] # "fault"
      BY <3>1
    <3>3. ASSUME reg[c].IF_, reg[c].cr3 # "loader" PROVE OwnTables(c)
      BY <3>1, <3>3 DEF OwnTables
    <3> QED BY <3>2, <3>3
  <2> QED BY <2>1, <2>2 DEF BootSound
<1> QED BY <1>1, <1>2, <1>3, PTL DEF Spec

--------------------------------------------------------------------------------
(* Powers of two, which the provers know only as numbers of subsets.         *)
LEMMA PowSubsets ==
    ASSUME NEW n \in Nat
    PROVE  IsFiniteSet(SUBSET (1 .. n)) /\ Cardinality(SUBSET (1 .. n)) = 2^n
<1>1. IsFiniteSet(1 .. n) /\ Cardinality(1 .. n) = n
  BY FS_Interval
<1>2. IsFiniteSet(SUBSET (1 .. n)) /\ Cardinality(SUBSET (1 .. n)) = 2^Cardinality(1 .. n)
  BY <1>1, FS_SUBSET
<1> QED BY <1>1, <1>2

(* They are positive.                                                        *)
LEMMA PowNat ==
    ASSUME NEW n \in Nat
    PROVE  2^n \in Nat \ {0}
<1> DEFINE S == SUBSET (1 .. n)
<1>1. S # {}
  OBVIOUS
<1> HIDE DEF S
<1>2. IsFiniteSet(S) => Cardinality(S) \in Nat \ {0}
  BY <1>1, FS_CardinalityType, FS_EmptySet
<1> QED BY <1>2, PowSubsets DEF S

(* Each is twice the one before.                                             *)
LEMMA PowStep ==
    ASSUME NEW n \in Nat
    PROVE  2^(n + 1) = 2 * 2^n
<1> DEFINE A == SUBSET (1 .. n)
           B == {x \cup {n + 1} : x \in A}
           U == SUBSET (1 .. n + 1)
           f == [x \in A |-> x \cup {n + 1}]
<1>0. n + 1 \in Nat /\ n + 1 \notin 1 .. n
  OBVIOUS
<1>1. /\ IsFiniteSet(A) /\ Cardinality(A) = 2^n
      /\ Cardinality(U) = 2^(n + 1)
  BY <1>0, PowSubsets
<1>2. f \in Bijection(A, B)
  <2>1. f \in Injection(A, B)
    <3>1. \A x, y \in A : x \cup {n + 1} = y \cup {n + 1} => x = y
      BY <1>0
    <3>2. f \in [A -> B] /\ DOMAIN f = A /\ \A x \in A : f[x] = x \cup {n + 1}
      OBVIOUS
    <3> HIDE DEF A, B, f
    <3>3. IsInjective(f)
      BY <3>1, <3>2, Zenon DEF IsInjective
    <3> QED BY <3>2, <3>3 DEF Injection
  <2>2. f \in Surjection(A, B)
    BY DEF Surjection
  <2> QED BY <2>1, <2>2 DEF Bijection
<1>3. ExistsBijection(A, B)
  BY <1>2 DEF ExistsBijection
<1>4. IsFiniteSet(B) /\ Cardinality(B) = Cardinality(A)
  BY <1>1, <1>3, FS_Bijection
<1>5. A \cap B = {}
  BY <1>0
<1>6. A \cup B = U
  <2>1. A \cup B \subseteq U
    <3>1. 1 .. n \subseteq 1 .. n + 1 /\ n + 1 \in 1 .. n + 1
      OBVIOUS
    <3> QED BY <3>1
  <2>2. ASSUME NEW x \in U PROVE x \in A \cup B
    <3>0. \A k \in 1 .. n + 1 : k \in 1 .. n \/ k = n + 1
      OBVIOUS
    <3>1. CASE n + 1 \in x
      <4>1. x = (x \ {n + 1}) \cup {n + 1} /\ x \ {n + 1} \in A
        BY <3>0, <3>1
      <4> QED BY <4>1
    <3>2. CASE n + 1 \notin x
      BY <3>0, <3>2
    <3> QED BY <3>1, <3>2
  <2> QED BY <2>1, <2>2
<1> HIDE DEF A, B, U
<1>7. Cardinality(A \cup B) = Cardinality(A) + Cardinality(B) - Cardinality({})
  BY <1>1, <1>4, <1>5, FS_Union
<1>8. Cardinality({}) = 0
  BY FS_EmptySet
<1>9. 2^n \in Nat
  BY PowNat
<1> QED BY <1>1, <1>4, <1>6, <1>7, <1>8, <1>9

(* The powers that the registers' low bits and MSI's vectors need.           *)
LEMMA PowValues == 2^0 = 1 /\ 2^1 = 2 /\ 2^2 = 4 /\ 2^3 = 8 /\ 2^4 = 16 /\ 2^5 = 32
<1>1. 2^0 = 1
  OBVIOUS
<1>2. \A n, m \in Nat : m = n + 1 => 2^m = 2 * 2^n
  BY PowStep
<1>3. 2^1 = 2
  BY <1>1, <1>2
<1>4. 2^2 = 4
  BY <1>2, <1>3
<1>5. 2^3 = 8
  BY <1>2, <1>4
<1>6. 2^4 = 16
  BY <1>2, <1>5
<1>7. 2^5 = 32
  BY <1>2, <1>6
<1> QED BY <1>1, <1>3, <1>4, <1>5, <1>6, <1>7

(* Powers of a sum.                                                          *)
LEMMA PowPlus ==
    ASSUME NEW a \in Nat, NEW b \in Nat
    PROVE  2^(a + b) = 2^a * 2^b
<1> DEFINE T == {n \in Nat : 2^(a + n) = 2^a * 2^n}
<1>1. 0 \in T
  <2>1. a + 0 = a /\ 2^0 = 1 /\ 2^a \in Nat
    BY PowNat
  <2> QED BY <2>1
<1>2. ASSUME NEW n \in 0 .. b - 1, n \in T
      PROVE  n + 1 \in T
  <2>1. n \in Nat /\ a + n \in Nat /\ a + (n + 1) = (a + n) + 1 /\ n + 1 \in Nat
    OBVIOUS
  <2>2. 2^((a + n) + 1) = 2 * 2^(a + n) /\ 2^(n + 1) = 2 * 2^n
    BY <2>1, PowStep
  <2>3. 2^(a + n) = 2^a * 2^n
    BY <1>2
  <2>4. 2^a \in Nat /\ 2^n \in Nat
    BY <2>1, PowNat
  <2>5. \A x, y \in Nat : 2 * (x * y) = x * (2 * y)
    OBVIOUS
  <2>6. 2^(a + (n + 1)) = 2^a * 2^(n + 1)
    BY <2>1, <2>2, <2>3, <2>4, <2>5
  <2> QED BY <2>1, <2>6
<1> HIDE DEF T
<1>3. b \in T
  BY <1>1, <1>2, UpTo
<1> QED BY <1>3 DEF T

(* A smaller power divides a larger one.                                     *)
LEMMA PowMonotone ==
    ASSUME NEW a \in Nat, NEW b \in Nat, a <= b
    PROVE  \E q \in Nat \ {0} : 2^b = q * 2^a /\ 2^a <= 2^b
<1>1. b - a \in Nat /\ b = (b - a) + a
  OBVIOUS
<1>2. 2^b = 2^(b - a) * 2^a /\ 2^(b - a) \in Nat \ {0} /\ 2^a \in Nat
  BY <1>1, PowPlus, PowNat
<1>3. \A q \in Nat \ {0}, x \in Nat : x <= q * x
  OBVIOUS
<1> QED BY <1>2, <1>3
--------------------------------------------------------------------------------
(* Division with rest.                                                       *)
LEMMA Rest ==
    ASSUME NEW a \in Nat, NEW c \in Nat \ {0}
    PROVE  a = c * (a \div c) + (a % c) /\ a % c \in 0 .. c - 1 /\ a \div c \in Nat
<1>1. a \div c \in Nat /\ a % c \in 0 .. c - 1
  OBVIOUS
<1>2. a = c * (a \div c) + (a % c)
  OBVIOUS
<1> QED BY <1>1, <1>2

(* The rest is the only number that it can be.                               *)
LEMMA RestIs ==
    ASSUME NEW c \in Nat \ {0}, NEW q \in Int, NEW r \in 0 .. c - 1
    PROVE  (c * q + r) % c = r
<1>1. \A a \in Int : a = c * q + r => a % c = r
  OBVIOUS
<1> QED BY <1>1

(* The low bits of the values that a memory register can hold: the type, of  *)
(* which only the bit for 64 bits may be set.                                *)
LEMMA TypeBits ==
    ASSUME NEW t \in Int, NEW e \in {0, 4}
    PROVE  /\ low(16 * t + e, 4) = e
           /\ bit(16 * t + e, 0) = 0 /\ bit(16 * t + e, 1) = 0
           /\ bit(16 * t + e, 2) = IF e = 4 THEN 1 ELSE 0
           /\ bit(e, 0) = 0
<1> DEFINE v == 16 * t + e
<1>1. v \in Int /\ v \div 1 = v /\ v % 16 = e /\ v \div 2 = 8 * t + e \div 2 /\ v \div 4 = 4 * t + e \div 4
  OBVIOUS
<1>2. v % 2 = 0 /\ (8 * t + e \div 2) % 2 = 0 /\ (4 * t + e \div 4) % 2 = IF e = 4 THEN 1 ELSE 0
  OBVIOUS
<1>3. e \div 1 = e /\ e % 2 = 0
  OBVIOUS
<1> HIDE DEF v
<1>4. low(v, 4) = e
  BY <1>1, PowValues DEF low
<1>5. bit(v, 0) = 0 /\ bit(v, 1) = 0 /\ bit(v, 2) = IF e = 4 THEN 1 ELSE 0
  BY <1>1, <1>2, PowValues DEF bit
<1>6. bit(e, 0) = 0
  BY <1>3, PowValues DEF bit
<1> QED BY <1>4, <1>5, <1>6 DEF v

(* A register whose last z bits are zero, once the firmware has written it   *)
(* and once it has been written with all ones.                               *)
LEMMA Bits ==
    ASSUME NEW z \in 0 .. W
    PROVE  /\ 2^z \in Nat \ {0} /\ 2^W \in Nat \ {0} /\ 2^z <= 2^W
           /\ AllOnes - low(AllOnes, z) = 2^W - 2^z
           /\ \A v \in 0 .. AllOnes : v % 2^z = 0 => v + 2^z <= 2^W
           /\ \A v \in Nat : z >= 4 /\ v % 2^z \in {0, 4} => \E t \in Int : v = 16 * t + (v % 2^z)
           /\ z >= 4 => \E t \in Int : 2^W - 2^z = 16 * t
<1>0. W \in Nat /\ W >= 6 /\ z \in Nat /\ z <= W
  BY WAssumption
<1>1. PICK q \in Nat \ {0} : 2^W = q * 2^z /\ 2^z <= 2^W
  BY <1>0, PowMonotone
<1>2. 2^z \in Nat \ {0} /\ 2^W \in Nat \ {0}
  BY <1>0, PowNat
<1> DEFINE p == 2^z
           w == 2^W
<1> HIDE DEF p, w
<1>3. w = q * p /\ p \in Nat \ {0} /\ w \in Nat \ {0} /\ p <= w
  BY <1>1, <1>2 DEF p, w
<1>4. w - 1 = p * (q - 1) + (p - 1) /\ q - 1 \in Int /\ p - 1 \in 0 .. p - 1
  BY <1>3
<1>5. (w - 1) % p = p - 1
  BY <1>3, <1>4, RestIs
<1>6. AllOnes - low(AllOnes, z) = w - p
  BY <1>5, <1>3 DEF AllOnes, low, p, w
<1>7. ASSUME NEW v \in 0 .. w - 1, v % p = 0 PROVE v + p <= w
  <2>1. PICK k \in Int : v = p * k
    <3>1. v = p * (v \div p) + (v % p) /\ v \div p \in Int
      BY <1>3, Rest
    <3>2. p * (v \div p) + (v % p) = p * (v \div p)
      BY <3>1, <1>3, <1>7
    <3> QED BY <3>1, <3>2
  <2>2. k < q
    <3>1. ASSUME k >= q PROVE FALSE
      <4>1. \A x \in Nat \ {0}, a, b \in Int : a >= b => x * a >= x * b
        OBVIOUS
      <4>2. p * k >= p * q
        BY <4>1, <3>1, <1>3
      <4>3. p * q = w
        BY <1>3
      <4>4. v < w /\ v \in Int
        BY <1>3
      <4> HIDE DEF w
      <4> QED BY <4>2, <4>3, <4>4, <2>1, <1>3
    <3> QED BY <3>1
  <2>3. \A x \in Nat \ {0}, a, b \in Int : a < b => x * a + x <= x * b
    <3> TAKE x \in Nat \ {0}, a \in Int, b \in Int
    <3> HAVE a < b
    <3>1. b - a - 1 \in Nat
      OBVIOUS
    <3>2. x * (b - a - 1) \in Nat /\ x * (b - a - 1) = x * b - x * a - x
      BY <3>1
    <3>3. x * b \in Int /\ x * a \in Int
      OBVIOUS
    <3> QED BY <3>2, <3>3
  <2>4. p * k + p <= p * q /\ p * q = w
    BY <2>2, <2>3, <1>3
  <2> QED BY <2>1, <2>4
<1>8. ASSUME z >= 4
      PROVE  /\ \E t \in Int : w - p = 16 * t
             /\ \A v \in Nat : v % p \in {0, 4} => \E t \in Int : v = 16 * t + (v % p)
  <2>0. 4 \in Nat /\ 4 <= z
    BY <1>8, <1>0
  <2>1. PICK k \in Nat \ {0} : p = k * 16
    <3>1. \E k \in Nat \ {0} : 2^z = k * 2^4 /\ 2^4 <= 2^z
      BY <1>0, <2>0, PowMonotone, Zenon
    <3>2. \E k \in Nat \ {0} : p = k * 16
      BY <3>1, PowValues DEF p
    <3> QED BY <3>2
  <2>2. w - p = 16 * (k * (q - 1)) /\ k * (q - 1) \in Int
    BY <2>1, <1>3
  <2>3. ASSUME NEW v \in Nat, v % p \in {0, 4} PROVE \E t \in Int : v = 16 * t + (v % p)
    <3>1. v = p * (v \div p) + (v % p) /\ v \div p \in Int
      BY <1>3, Rest
    <3>2. \A d \in Int : (k * 16) * d = 16 * (k * d) /\ k * d \in Int
      OBVIOUS
    <3>3. p * (v \div p) = 16 * (k * (v \div p)) /\ k * (v \div p) \in Int
      BY <3>1, <3>2, <2>1
    <3> QED BY <3>1, <3>3
  <2> QED BY <2>2, <2>3
<1>9. AllOnes = w - 1
  BY DEF AllOnes, w
<1> QED BY <1>3, <1>6, <1>7, <1>8, <1>9 DEF p, w

(* What the assumption on machines says of a memory register and the one     *)
(* after it.                                                                 *)
LEMMA BarFacts ==
    ASSUME machine \in Machines, NEW f \in Fn, NEW i \in 0 .. NBar(f) - 1, MemoryBar(f, i)
    PROVE  LET b == Hw(f).bar[i]  c == Hw(f).bar[i + 1]  e == IF b.kind = "mem64" THEN 4 ELSE 0 IN
           /\ i \in 0 .. 5 /\ b.size \in 4 .. W /\ b.at \in 0 .. AllOnes
           /\ b.at % 2^b.size = e
           /\ Held(f, i, AllOnes) = 2^W - 2^b.size + e
           /\ b.kind = "mem64" =>
                /\ c.size \in IF b.size < W THEN {0} ELSE 0 .. W - 1
                /\ c.at \in 0 .. AllOnes /\ c.at % 2^c.size = 0
                /\ Held(f, i + 1, AllOnes) = 2^W - 2^c.size
<1> DEFINE b == Hw(f).bar[i]
           c == Hw(f).bar[i + 1]
           e == IF b.kind = "mem64" THEN 4 ELSE 0
<1>1. i \in 0 .. 5 /\ i \in 0 .. Rom /\ i + 1 \in 0 .. Rom
      /\ i \in 0 .. (IF Hw(f).bridge THEN 1 ELSE 5)
  BY DEF NBar, Rom
<1>2. /\ HeldBy(b, b.at) = b.at /\ b.at \in 0 .. AllOnes
      /\ HeldBy(c, c.at) = c.at /\ c.at \in 0 .. AllOnes
      /\ SizedBar(Hw(f).bar, i)
  BY <1>1, MachinesAssumption DEF Fn, Hw
<1>3. b.kind \in {"mem", "mem64"} /\ b.size \in 4 .. W
      /\ (b.kind = "mem64" => c.kind = "high" /\ c.size \in IF b.size < W THEN {0} ELSE 0 .. W - 1)
  BY <1>2 DEF SizedBar, MemoryBar
<1>4. b.size \in 0 .. W /\ (b.kind = "mem64" => c.size \in 0 .. W) /\ e \in {0, 4}
  <2>1. W \in Nat /\ W >= 6
    BY WAssumption
  <2> QED BY <1>3, <2>1
<1> HIDE DEF b, c
<1>5. AllOnes \in Nat /\ b.at \in Nat /\ AllOnes \in 0 .. AllOnes
  <2>1. 2^W \in Nat \ {0}
    BY WAssumption, PowNat
  <2> QED BY <1>2, <2>1 DEF AllOnes
<1>6. \A v \in Nat : low(v, b.size) \in Nat /\ HeldBy(b, v) = (v - low(v, b.size)) + e
  <2> TAKE v \in Nat
  <2>1. 2^b.size \in Nat \ {0}
    BY <1>4, Bits
  <2>2. low(v, b.size) \in Nat
    BY <2>1, Rest DEF low
  <2>3. CASE b.kind = "mem"
    <3>1. HeldBy(b, v) = v - low(v, b.size)
      BY <2>3 DEF HeldBy
    <3> QED BY <3>1, <2>2, <2>3
  <2>4. CASE b.kind = "mem64"
    BY <2>4, <2>2 DEF HeldBy
  <2> QED BY <1>3, <2>2, <2>3, <2>4
<1>7. b.at % 2^b.size = e
  BY <1>2, <1>5, <1>6 DEF low
<1>8. Held(f, i, AllOnes) = 2^W - 2^b.size + e
  <2>1. AllOnes - low(AllOnes, b.size) = 2^W - 2^b.size
    BY <1>4, Bits
  <2> QED BY <2>1, <1>5, <1>6 DEF Held, b
<1>9. ASSUME b.kind = "mem64"
      PROVE  /\ c.size \in IF b.size < W THEN {0} ELSE 0 .. W - 1
             /\ c.at \in 0 .. AllOnes /\ c.at % 2^c.size = 0
             /\ Held(f, i + 1, AllOnes) = 2^W - 2^c.size
  <2>1. c.kind = "high" /\ c.size \in 0 .. W
    BY <1>3, <1>4, <1>9
  <2>2. \A v : HeldBy(c, v) = v - low(v, c.size)
    BY <2>1 DEF HeldBy
  <2>3. AllOnes - low(AllOnes, c.size) = 2^W - 2^c.size /\ 2^c.size \in Nat \ {0}
    BY <2>1, Bits
  <2>4. c.at - low(c.at, c.size) = c.at /\ c.at \in Nat /\ low(c.at, c.size) \in Nat
    <3>1. c.at \in Nat
      BY <1>2, <1>5
    <3>2. c.at % 2^c.size \in Nat
      <4> DEFINE g == 2^c.size
      <4>1. g \in Nat \ {0}
        BY <2>3
      <4> HIDE DEF g
      <4>2. c.at % g \in Nat
        BY <3>1, <4>1, Rest
      <4> QED BY <4>2 DEF g
    <3> QED BY <3>1, <3>2, <2>2, <1>2 DEF low
  <2>5. low(c.at, c.size) = 0
    BY <2>4
  <2> QED BY <2>2, <2>3, <2>5, <1>2, <1>3, <1>9 DEF Held, low, c
<1> QED BY <1>1, <1>2, <1>3, <1>7, <1>8, <1>9 DEF b, c

(* A range that ends below n does not wrap at n.                             *)
LEMMA NoWrap ==
    ASSUME NEW n \in Nat, NEW s \in Nat, NEW x \in Nat \ {0}, s + x <= n
    PROVE  (0 + s + x - 1) % n = s + x - 1 /\ s + x - 1 \in Nat
<1>1. s + x - 1 \in 0 .. n - 1 /\ n \in Nat \ {0} /\ s + x - 1 = n * 0 + (s + x - 1)
  OBVIOUS
<1>2. (n * 0 + (s + x - 1)) % n = s + x - 1
  BY <1>1, RestIs
<1> QED BY <1>1, <1>2

(* Where the range of a memory register starts.                              *)
Start(f, i) == Hw(f).bar[i].at - low(Hw(f).bar[i].at, 4)
               + (IF Hw(f).bar[i].kind = "mem64" THEN Hw(f).bar[i + 1].at * 2^W ELSE 0)

(* The range lies in the address space, and pci_get_bar_size finds how long  *)
(* it is.                                                                    *)
LEMMA BarSizes ==
    ASSUME machine \in Machines, NEW f \in Fn, NEW i \in 0 .. NBar(f) - 1, MemoryBar(f, i)
    PROVE  LET b == Hw(f).bar[i] IN
           /\ i \in 0 .. 5 /\ Start(f, i) \in Nat /\ b.at \in Nat
           /\ bit(b.at, 0) = 0 /\ bit(b.at, 1) = 0 /\ bit(b.at, 2) = (IF b.kind = "mem64" THEN 1 ELSE 0)
           /\ bit(low(b.at, 4), 0) = 0
           /\ (0 + Start(f, i) + Extent(f, i) - 1) % 2^(2*W) = Start(f, i) + Extent(f, i) - 1
           /\ \A l : (/\ l.lo = [size |-> Held(f, i, AllOnes), ori |-> b.at]
                      /\ l.hi = IF b.kind = "mem64" THEN Held(f, i + 1, AllOnes) ELSE AllOnes)
                     => Size(l) = Extent(f, i)
<1> DEFINE b == Hw(f).bar[i]
           c == Hw(f).bar[i + 1]
           wide == b.kind = "mem64"
           e == IF wide THEN 4 ELSE 0
           w == 2^W
           p == 2^b.size
           h == IF wide THEN Held(f, i + 1, AllOnes) ELSE AllOnes
<1>1. /\ i \in 0 .. 5 /\ b.size \in 4 .. W /\ b.at \in 0 .. AllOnes
      /\ b.at % p = e
      /\ Held(f, i, AllOnes) = w - p + e
      /\ wide => /\ c.size \in IF b.size < W THEN {0} ELSE 0 .. W - 1
                 /\ c.at \in 0 .. AllOnes /\ c.at % 2^c.size = 0
                 /\ Held(f, i + 1, AllOnes) = w - 2^c.size
  BY BarFacts
<1>2. W \in Nat /\ W >= 6 /\ 2 * W = W + W
  BY WAssumption
<1>3. w \in Nat \ {0} /\ p \in Nat \ {0} /\ p <= w /\ AllOnes = w - 1 /\ 2^(2*W) = w * w /\ w * w \in Nat
  <2>1. b.size \in 0 .. W
    BY <1>1, <1>2
  <2>2. 2^(2*W) = 2^W * 2^W
    BY <1>2, PowPlus
  <2>3. \A x \in Nat : x * x \in Nat
    OBVIOUS
  <2>4. 2^b.size \in Nat \ {0} /\ 2^W \in Nat \ {0} /\ 2^b.size <= 2^W
    BY <2>1, Bits
  <2> QED BY <2>2, <2>3, <2>4 DEF AllOnes
<1>4. b.at \in Nat /\ \E t \in Int : b.at = 16 * t + e
  <2>1. b.size \in 0 .. W /\ b.size >= 4 /\ b.at \in Nat /\ e \in {0, 4}
    <3>1. b.at \in Nat
      BY <1>1, <1>3
    <3>2. b.size \in 0 .. W /\ b.size >= 4
      BY <1>1, <1>2
    <3> QED BY <3>1, <3>2
  <2>2. \A v \in Nat : b.size >= 4 /\ v % 2^b.size \in {0, 4} => \E t \in Int : v = 16 * t + (v % 2^b.size)
    BY <2>1, Bits
  <2> QED BY <2>1, <2>2, <1>1
<1>5. /\ low(b.at, 4) = e /\ bit(b.at, 0) = 0 /\ bit(b.at, 1) = 0
      /\ bit(b.at, 2) = (IF e = 4 THEN 1 ELSE 0) /\ bit(low(b.at, 4), 0) = 0
  <2>1. e \in {0, 4}
    OBVIOUS
  <2> HIDE DEF e
  <2> QED BY <1>4, <2>1, TypeBits
<1>6. low(Held(f, i, AllOnes), 4) = e
  <2>1. e \in {0, 4}
    OBVIOUS
  <2>2. b.size \in 0 .. W /\ b.size >= 4
    BY <1>1, <1>2
  <2>3. \E t \in Int : w - p = 16 * t
    BY <2>2, Bits
  <2>4. \E t \in Int : Held(f, i, AllOnes) = 16 * t + e
    BY <2>3, <1>1
  <2> HIDE DEF e
  <2> QED BY <2>1, <2>4, TypeBits
(* The address without the type, and the upper half.                         *)
<1> DEFINE x == Extent(f, i)
           a == b.at - e
           u == IF wide THEN c.at ELSE 0
<1>7. e \in {0, 4} /\ e < p /\ p >= 16 /\ (wide <=> e = 4) /\ (~wide <=> e = 0)
  <2>1. p >= 16
    <3>1. 4 \in Nat /\ b.size \in Nat /\ 4 <= b.size
      BY <1>1, <1>2
    <3>2. 2^4 <= 2^b.size
      BY <3>1, PowMonotone, Zenon
    <3> QED BY <3>2, PowValues, <1>3
  <2> QED BY <2>1, <1>3
<1> HIDE DEF e
<1>8. a \in Nat /\ a + p <= w /\ a % p = 0
  <2>1. b.at = p * (b.at \div p) + (b.at % p) /\ b.at \div p \in Nat
    BY <1>3, <1>4, Rest
  <2>2. p * (b.at \div p) \in Nat /\ a = p * (b.at \div p) + 0 /\ 0 \in 0 .. p - 1
    <3>1. \A y, z \in Nat : y * z \in Nat
      OBVIOUS
    <3>2. p * (b.at \div p) \in Nat
      BY <3>1, <2>1, <1>3
    <3>3. b.at = p * (b.at \div p) + e
      BY <2>1, <1>1
    <3> HIDE DEF p
    <3> QED BY <3>2, <3>3, <1>3, <1>4, <1>7
  <2>3. a % p = 0
    <3>1. b.at \div p \in Int /\ p \in Nat \ {0}
      BY <2>1, <1>3
    <3>2. (p * (b.at \div p) + 0) % p = 0
      BY <2>2, <3>1, RestIs
    <3> HIDE DEF p, a
    <3> QED BY <2>2, <3>2
  <2>4. a \in 0 .. AllOnes
    <3> HIDE DEF p, w
    <3> QED BY <2>2, <1>1, <1>3, <1>7, SMTT(30)
  <2>5. b.size \in 0 .. W
    BY <1>1, <1>2
  <2>6. a + p <= w
    BY <2>3, <2>4, <2>5, Bits
  <2> HIDE DEF p, w
  <2> QED BY <2>2, <2>3, <2>6
<1>9. /\ u \in Nat /\ h \in Nat /\ x \in Nat \ {0}
      /\ a + u * w + x <= w * w /\ (w - p) + h * w = w * w - x /\ x < w * w
  <2>1. ASSUME h = w - 1, x = p, u \in 0 .. w - 1
        PROVE  /\ u \in Nat /\ h \in Nat /\ x \in Nat \ {0}
               /\ a + u * w + x <= w * w /\ (w - p) + h * w = w * w - x /\ x < w * w
    <3>1. \A y \in Nat \ {0}, v \in Nat : v <= y - 1 => v * y <= y * y - y /\ v * y \in Nat
      <4> TAKE y \in Nat \ {0}, v \in Nat
      <4> HAVE v <= y - 1
      <4>1. v * y <= (y - 1) * y /\ (y - 1) * y = y * y - y
        OBVIOUS
      <4>2. v * y \in Nat /\ y * y \in Nat
        OBVIOUS
      <4> QED BY <4>1, <4>2
    <3>2. u * w <= w * w - w /\ u * w \in Nat
      BY <3>1, <2>1, <1>3
    <3>3. (w - 1) * w = w * w - w
      <4>1. \A y \in Nat : (y - 1) * y = y * y - y
        OBVIOUS
      <4> QED BY <4>1, <1>3
    <3>4. w < w * w
      <4>1. \A y \in Nat : y >= 2 => y < y * y
        OBVIOUS
      <4>2. w >= 2
        BY <1>3, <1>7
      <4> QED BY <4>1, <4>2, <1>3
    <3> HIDE DEF w, p, a, u, x, h
    <3> QED BY <2>1, <3>2, <3>3, <3>4, <1>3, <1>8
  <2>2. CASE ~wide
    <3>1. b.kind # "mem64" /\ h = w - 1 /\ u = 0 /\ 0 \in 0 .. w - 1
      BY <2>2, <1>3
    <3>2. x = p
      BY <3>1 DEF Extent
    <3> QED BY <2>1, <3>1, <3>2
  <2>3. CASE wide /\ b.size < W
    <3>1. c.size = 0 /\ 2^0 = 1
      BY <2>3, <1>1, PowValues
    <3>2. h = w - 1 /\ u = c.at /\ c.at \in 0 .. w - 1
      BY <2>3, <3>1, <1>1, <1>3
    <3>3. b.size # W
      BY <2>3, <1>1, <1>2
    <3>4. x = p
      BY <3>3 DEF Extent
    <3> QED BY <2>1, <3>2, <3>4
  <2>4. CASE wide /\ ~(b.size < W)
    <3> DEFINE g == 2^c.size
    <3>1. b.size = W /\ p = w
      BY <2>4, <1>1, <1>2
    <3>2. c.size \in 0 .. W - 1 /\ c.size \in 0 .. W /\ c.size \in Nat /\ c.size + 1 \in Nat /\ c.size + 1 <= W
      BY <2>4, <1>1, <1>2
    <3>3. x = w * g
      <4>1. x = 2^(W + c.size)
        BY <3>1, <2>4 DEF Extent
      <4>2. 2^(W + c.size) = 2^W * 2^c.size
        BY <1>2, <3>2, PowPlus
      <4> QED BY <4>1, <4>2
    <3>4. h = w - g /\ u = c.at /\ c.at \in 0 .. AllOnes /\ c.at % g = 0
      BY <2>4, <1>1
    <3>5. g \in Nat \ {0} /\ c.at + g <= w
      BY <3>2, <3>4, Bits
    <3>6. g < w
      <4>1. 2^(c.size + 1) = 2 * g /\ 2^(c.size + 1) <= w
        BY <3>2, <1>2, PowStep, PowMonotone
      <4> HIDE DEF g, w
      <4> QED BY <4>1, <3>5, <1>3
    <3> HIDE DEF g, w, p, a, u, x, h
    <3>7. a = 0 /\ c.at \in Nat
      BY <3>1, <3>4, <1>3, <1>8
    <3>8. \A y, v, z \in Nat : v + z <= y => v * y + y * z <= y * y /\ v * y \in Nat
      <4> TAKE y \in Nat, v \in Nat, z \in Nat
      <4> HAVE v + z <= y
      <4>1. v * y + y * z = (v + z) * y /\ (v + z) * y <= y * y
        OBVIOUS
      <4> QED BY <4>1
    <3>9. c.at * w + w * g <= w * w /\ c.at * w \in Nat
      BY <3>5, <3>7, <3>8, <1>3
    <3>10. \A y, z \in Nat \ {0} : /\ (y - z) * y = y * y - y * z /\ y * z \in Nat \ {0}
                                   /\ z < y => y * z < y * y
      OBVIOUS
    <3>11. (w - g) * w = w * w - w * g /\ w * g \in Nat \ {0} /\ w * g < w * w
      BY <3>5, <3>6, <3>10, <1>3
    <3> QED BY <3>1, <3>3, <3>4, <3>5, <3>6, <3>7, <3>9, <3>11, <1>3
  <2> QED BY <2>2, <2>3, <2>4
<1>10. Start(f, i) = a + u * w /\ Start(f, i) \in Nat
  <2>1. Start(f, i) = b.at - e + (IF wide THEN c.at * w ELSE 0)
    BY <1>5 DEF Start
  <2>2. u * w \in Nat /\ 0 * w = 0
    <3>1. \A y, z \in Nat : y * z \in Nat /\ 0 * z = 0
      OBVIOUS
    <3> HIDE DEF u, w
    <3> QED BY <3>1, <1>9, <1>3
  <2>3. (IF wide THEN c.at * w ELSE 0) = u * w
    BY <2>2
  <2> HIDE DEF u, w
  <2> QED BY <2>1, <2>2, <2>3, <1>8
<1>11. (0 + Start(f, i) + x - 1) % (w * w) = Start(f, i) + x - 1
  <2> HIDE DEF u, w, a, x
  <2>1. Start(f, i) + x <= w * w
    BY <1>9, <1>10
  <2> QED BY <2>1, <1>3, <1>9, <1>10, NoWrap
<1>12. ASSUME NEW l, l.lo = [size |-> Held(f, i, AllOnes), ori |-> b.at], l.hi = h
       PROVE  Size(l) = x
  <2>1. l.lo.size = Held(f, i, AllOnes) /\ l.lo.ori = b.at
    BY <1>12
  <2>2. Size(l) = (w * w - (Held(f, i, AllOnes) - e + h * w)) % (w * w)
    BY <2>1, <1>3, <1>5, <1>6, <1>12 DEF Size
  <2> HIDE DEF h, w, p, x
  <2>3. h * w \in Nat
    <3>1. \A y, z \in Nat : y * z \in Nat
      OBVIOUS
    <3> QED BY <3>1, <1>3, <1>9
  <2>4. w * w - (Held(f, i, AllOnes) - e + h * w) = x
    <3>1. Held(f, i, AllOnes) - e = w - p
      BY <1>1, <1>3, <1>7
    <3> QED BY <3>1, <2>3, <1>3, <1>9
  <2>5. x % (w * w) = x
    <3>1. x \in 0 .. w * w - 1 /\ w * w \in Nat \ {0} /\ (w * w) * 0 + x = x
      BY <1>3, <1>9
    <3>2. ((w * w) * 0 + x) % (w * w) = x
      BY <3>1, RestIs
    <3> QED BY <3>1, <3>2
  <2> QED BY <2>2, <2>4, <2>5
<1>13. bit(b.at, 2) = IF wide THEN 1 ELSE 0
  BY <1>5, <1>7
<1> HIDE DEF x, a, u
<1>14. \A l : (l.lo = [size |-> Held(f, i, AllOnes), ori |-> b.at] /\ l.hi = h) => Size(l) = x
  BY <1>12
<1>15. (0 + Start(f, i) + x - 1) % 2^(2*W) = Start(f, i) + x - 1
  BY <1>3, <1>11
<1> HIDE DEF w, p
<1> QED BY <1>1, <1>4, <1>5, <1>10, <1>13, <1>14, <1>15 DEF x

--------------------------------------------------------------------------------
(* The scan.  While a function is being set up, its registration is on todo  *)
(* and before it are the steps of the scan: what is left of the sizing of    *)
(* register Len(resource[f]) - 1 (s steps of Sizing), then the registers     *)
(* still to come, then the ROM.  Known is what has been read of the register *)
(* by then.                                                                  *)
ScanOps == {"command_off", "ones", "back_lo", "back_hi", "command_back"} \cup BarOps
Wide(f, i) == bit(Hw(f).bar[i].at, 2) = 1
Sizing(f, i) ==
    IF Wide(f, i)
    THEN <<<<"bar_end", f, i>>, <<"command_back", f>>, <<"back_hi", f, i + 1>>,
           <<"ones", f, i + 1>>, <<"back_lo", f, i>>, <<"ones", f, i>>, <<"command_off", f>>>>
    ELSE <<<<"bar_end", f, i>>, <<"command_back", f>>, <<"back_lo", f, i>>, <<"ones", f, i>>,
           <<"command_off", f>>>>
Low(f, i) == [size |-> Held(f, i, AllOnes), ori |-> Hw(f).bar[i].at]
Known(f, i, s) ==
    IF Wide(f, i)
    THEN /\ s = 5 => cfg[f].bar[i] = Held(f, i, AllOnes)
         /\ s <= 4 => local.lo = Low(f, i)
         /\ s = 3 => cfg[f].bar[i + 1] = Held(f, i + 1, AllOnes)
         /\ s <= 2 => local.hi = Held(f, i + 1, AllOnes)
    ELSE /\ s <= 4 => local.hi = AllOnes
         /\ s = 3 => cfg[f].bar[i] = Held(f, i, AllOnes)
         /\ s <= 2 => local.lo = Low(f, i)
Right(f, i) ==
    MemoryBar(f, i) =>
       /\ resource[f][i + 1].start = Start(f, i)
       /\ resource[f][i + 1].end = Start(f, i) + Extent(f, i) - 1
       /\ bit(resource[f][i + 1].flags, 0) = 0
Begun(f, i, s) ==
    MemoryBar(f, i) =>
       /\ resource[f][i + 1] = [start |-> Start(f, i), end |-> 0, flags |-> 0]
       /\ Known(f, i, s)
Plan(f, m, s, r) ==
    /\ m \in 0 .. NBar(f)
    /\ r \in DOMAIN todo /\ r > s + (NBar(f) - m) /\ todo[r] = <<"register", f>>
    /\ \A k \in 1 .. r - 1 : todo[k][1] \in ScanOps
    /\ \A k \in DOMAIN todo : k > s + (NBar(f) - m) => todo[k][1] \notin BarOps
    /\ \A j \in m .. NBar(f) - 1 : todo[s + 1 + (j - m)] = <<"bar", f, j>>
    /\ s > 0 => m > 0 /\ s <= Len(Sizing(f, m - 1))
    /\ \A k \in 1 .. s : todo[k] = Sizing(f, m - 1)[s + 1 - k]
Phase(f, m, s, r) ==
    /\ Plan(f, m, s, r)
    /\ Len(resource[f]) = m
    /\ s > 0 => Begun(f, m - 1, s)
    /\ \A i \in 0 .. m - 1 : (i < m - 1 \/ s = 0) => Right(f, i)
Scanning(f) == \E m \in 0 .. 6, s \in 0 .. 7, r \in DOMAIN todo : Phase(f, m, s, r)
ResInv ==
    /\ DOMAIN resource = Fn
    /\ \A f \in Fn :
          /\ resource[f] \in Seq(Range(resource[f]))
          /\ <<"pci_scan">> \in Todo \/ <<"device_init", f>> \in Todo => resource[f] = <<>>
          /\ f \in Range(pci_device_list) => \A i \in 0 .. NBar(f) - 1 : Right(f, i)
          /\ <<"register", f>> \in Todo => Scanning(f)
    /\ \A x \in Todo : x[1] \in BarOps => <<"register", x[2]>> \in Todo

(* Where the steps are after one: those of ops first, then those that were   *)
(* behind the head.                                                          *)
LEMMA Positions ==
    ASSUME TypeInv, todo # <<>>, NEW ops \in Seq(Op), Then(ops)
    PROVE  /\ Len(todo) \in Nat \ {0} /\ DOMAIN todo = 1 .. Len(todo) /\ Head(todo) = todo[1]
           /\ Len(ops) \in Nat
           /\ DOMAIN todo' = 1 .. Len(ops) + Len(todo) - 1
           /\ \A k \in 1 .. Len(ops) : todo'[k] = ops[k]
           /\ \A k \in 2 .. Len(todo) : todo'[Len(ops) + k - 1] = todo[k]
           /\ \A k \in DOMAIN todo' : k \in 1 .. Len(ops) \/ k - Len(ops) + 1 \in 2 .. Len(todo)
<1>1. todo \in Seq(Op)
  BY DEF TypeInv, TodoInv
<1> HIDE DEF Op
<1>2. /\ Len(todo) \in Nat \ {0} /\ DOMAIN todo = 1 .. Len(todo) /\ Head(todo) = todo[1]
      /\ Tail(todo) \in Seq(Op) /\ Len(Tail(todo)) = Len(todo) - 1
      /\ \A k \in 1 .. Len(todo) - 1 : Tail(todo)[k] = todo[k + 1]
  BY <1>1
<1>3. PICK t \in Seq(Op) : t = Tail(todo)
  BY <1>2
<1>4. todo' = ops \o t
  BY <1>3 DEF Then
<1>5. /\ ops \o t \in Seq(Op) /\ Len(ops \o t) = Len(ops) + Len(t) /\ Len(ops) \in Nat /\ Len(t) \in Nat
      /\ \A k \in 1 .. Len(ops) : (ops \o t)[k] = ops[k]
      /\ \A k \in 1 .. Len(t) : (ops \o t)[Len(ops) + k] = t[k]
  BY ConcatFacts
<1>6. DOMAIN (ops \o t) = 1 .. Len(ops) + Len(t)
  BY <1>5
<1>7. \A k \in 2 .. Len(todo) : todo'[Len(ops) + k - 1] = todo[k]
  <2> TAKE k \in 2 .. Len(todo)
  <2>1. k - 1 \in 1 .. Len(t) /\ (k - 1) + 1 = k /\ Len(ops) + k - 1 = Len(ops) + (k - 1)
    BY <1>2, <1>3, <1>5
  <2>2. todo'[Len(ops) + (k - 1)] = t[k - 1] /\ t[k - 1] = todo[(k - 1) + 1]
    BY <2>1, <1>2, <1>3, <1>4, <1>5
  <2> QED BY <2>1, <2>2
<1> QED BY <1>2, <1>3, <1>4, <1>5, <1>6, <1>7

(* The steps of the sizing of a register, by name and number.                *)
LEMMA SizingFacts ==
    ASSUME NEW f, NEW i
    PROVE  /\ Len(Sizing(f, i)) = IF Wide(f, i) THEN 7 ELSE 5
           /\ Sizing(f, i)[1] = <<"bar_end", f, i>>
           /\ \A k \in 2 .. Len(Sizing(f, i)) : Sizing(f, i)[k][1] \in ScanOps \ BarOps
           /\ \A k \in 1 .. Len(Sizing(f, i)) : Sizing(f, i)[k][2] = f
           /\ Wide(f, i) => /\ Sizing(f, i)[3] = <<"back_hi", f, i + 1>> /\ Sizing(f, i)[4] = <<"ones", f, i + 1>>
                            /\ Sizing(f, i)[5] = <<"back_lo", f, i>> /\ Sizing(f, i)[6] = <<"ones", f, i>>
                            /\ Sizing(f, i)[2] = <<"command_back", f>> /\ Sizing(f, i)[7] = <<"command_off", f>>
           /\ ~Wide(f, i) => /\ Sizing(f, i)[3] = <<"back_lo", f, i>> /\ Sizing(f, i)[4] = <<"ones", f, i>>
                             /\ Sizing(f, i)[2] = <<"command_back", f>> /\ Sizing(f, i)[5] = <<"command_off", f>>
<1>1. CASE Wide(f, i)
  <2>1. Sizing(f, i) = <<<<"bar_end", f, i>>, <<"command_back", f>>, <<"back_hi", f, i + 1>>,
           <<"ones", f, i + 1>>, <<"back_lo", f, i>>, <<"ones", f, i>>, <<"command_off", f>>>>
    BY <1>1 DEF Sizing
  <2>2. Len(Sizing(f, i)) = 7 /\ \A k \in 2 .. 7 : k \in {2, 3, 4, 5, 6, 7}
    BY <2>1
  <2> QED BY <1>1, <2>1, <2>2 DEF ScanOps, BarOps
<1>2. CASE ~Wide(f, i)
  <2>1. Sizing(f, i) = <<<<"bar_end", f, i>>, <<"command_back", f>>, <<"back_lo", f, i>>, <<"ones", f, i>>,
           <<"command_off", f>>>>
    BY <1>2 DEF Sizing
  <2>2. Len(Sizing(f, i)) = 5 /\ \A k \in 2 .. 5 : k \in {2, 3, 4, 5}
    BY <2>1
  <2> QED BY <1>2, <2>1, <2>2 DEF ScanOps, BarOps
<1> QED BY <1>1, <1>2

(* Only at the steps of the scan is a function being set up.                 *)
LEMMA NoScan ==
    ASSUME TypeInv, ResInv, todo # <<>>, Head(todo)[1] \notin ScanOps \cup {"register"}
    PROVE  \A x \in Todo : x[1] # "register" /\ x[1] \notin BarOps
<1>1. todo[1] = Head(todo) /\ 1 \in DOMAIN todo /\ DOMAIN todo \subseteq Nat
  <2>1. todo \in Seq(Op)
    BY DEF TypeInv, TodoInv
  <2> HIDE DEF Op
  <2> QED BY <2>1
<1>2. ASSUME NEW f \in Fn, <<"register", f>> \in Todo PROVE FALSE
  <2>1. PICK m \in 0 .. 6, s \in 0 .. 7, r \in DOMAIN todo : Phase(f, m, s, r)
    BY <1>2 DEF ResInv, Scanning
  <2>2. CASE r = 1
    <3>1. Head(todo) = <<"register", f>>
      BY <1>1, <2>1, <2>2 DEF Phase, Plan
    <3> QED BY <3>1
  <2>3. CASE r # 1
    <3>1. 1 \in 1 .. r - 1
      <4>1. r \in Nat /\ r > s + (NBar(f) - m) /\ m \in 0 .. NBar(f) /\ NBar(f) \in Nat
        BY <1>1, <2>1 DEF Phase, Plan, NBar
      <4> QED BY <4>1, <2>3
    <3>2. todo[1][1] \in ScanOps
      BY <2>1, <3>1 DEF Phase, Plan
    <3> QED BY <1>1, <3>2
  <2> QED BY <2>2, <2>3
<1>3. \A x \in Todo : x \in Op
  <2>1. todo \in Seq(Op)
    BY DEF TypeInv, TodoInv
  <2> HIDE DEF Op
  <2> QED BY <2>1 DEF Todo, Range
<1>4. \A x \in Todo : x[1] # "register"
  <2> HIDE DEF Op
  <2> QED BY <1>2, <1>3, OpMarks
<1>5. \A x \in Todo : x[1] \notin BarOps
  <2> SUFFICES ASSUME NEW x \in Todo, x[1] \in BarOps PROVE FALSE
    OBVIOUS
  <2>1. <<"register", x[2]>> \in Todo
    BY DEF ResInv
  <2> QED BY <2>1, <1>4
<1> QED BY <1>4, <1>5

(* What depends on the machine alone.                                        *)
LEMMA SameScan ==
    ASSUME machine' = machine
    PROVE  /\ Fn' = Fn /\ \A f : Hw(f)' = Hw(f) /\ NBar(f)' = NBar(f)
           /\ \A f, i : /\ MemoryBar(f, i)' = MemoryBar(f, i) /\ Start(f, i)' = Start(f, i)
                        /\ Extent(f, i)' = Extent(f, i) /\ Wide(f, i)' = Wide(f, i)
                        /\ Sizing(f, i)' = Sizing(f, i) /\ Low(f, i)' = Low(f, i)
                        /\ Held(f, i, AllOnes)' = Held(f, i, AllOnes)
<1>1. Fn' = Fn /\ \A f : Hw(f)' = Hw(f) /\ NBar(f)' = NBar(f)
  BY DEF Fn, Hw, NBar
<1>2. \A f, i : /\ MemoryBar(f, i)' = MemoryBar(f, i) /\ Start(f, i)' = Start(f, i)
                /\ Extent(f, i)' = Extent(f, i) /\ Wide(f, i)' = Wide(f, i)
                /\ Held(f, i, AllOnes)' = Held(f, i, AllOnes)
  BY <1>1 DEF MemoryBar, Start, Extent, Wide, Held
<1>3. \A f, i : Sizing(f, i)' = Sizing(f, i) /\ Low(f, i)' = Low(f, i)
  BY <1>1, <1>2 DEF Sizing, Low
<1> QED BY <1>1, <1>2, <1>3

(* What a function's resources say depends on them alone.                    *)
LEMMA SameRight ==
    ASSUME machine' = machine, NEW f, resource'[f] = resource[f]
    PROVE  /\ \A i : Right(f, i)' = Right(f, i)
           /\ NBar(f)' = NBar(f)
BY SameScan DEF Right

(* The steps outside the scan.                                               *)
LEMMA OtherRes ==
    ASSUME TypeInv, ResInv, todo # <<>>, NEW ops \in Seq(Op), Then(ops),
           Head(todo)[1] \notin ScanOps \cup {"register"},
           \A x \in Range(ops) : x[1] \notin {"pci_scan", "register"} \cup BarOps,
           \A f \in Fn : <<"device_init", f>> \in Range(ops) => resource[f] = <<>>,
           machine' = machine, resource' = resource, Range(pci_device_list') \subseteq Range(pci_device_list)
    PROVE  ResInv'
<1>1. /\ Todo' = Range(ops) \cup Range(Tail(todo))
      /\ Range(Tail(todo)) \subseteq Todo
  <2> HIDE DEF Op
  <2> QED BY Replace
<1>2. \A x \in Todo : x[1] # "register" /\ x[1] \notin BarOps
  BY NoScan
<1>3. \A x \in Todo' : x[1] # "register" /\ x[1] \notin BarOps
  BY <1>1, <1>2
<1>4. \A f \in Fn : <<"register", f>> \notin Todo'
  BY <1>3
<1>5. ASSUME NEW f \in Fn
      PROVE  /\ (resource[f] \in Seq(Range(resource[f])))'
             /\ (<<"pci_scan">> \in Todo \/ <<"device_init", f>> \in Todo => resource[f] = <<>>)'
             /\ (f \in Range(pci_device_list) => \A i \in 0 .. NBar(f) - 1 : Right(f, i))'
  <2>1. /\ resource[f] \in Seq(Range(resource[f]))
        /\ <<"pci_scan">> \in Todo \/ <<"device_init", f>> \in Todo => resource[f] = <<>>
        /\ f \in Range(pci_device_list) => \A i \in 0 .. NBar(f) - 1 : Right(f, i)
    BY DEF ResInv
  <2>2. /\ <<"pci_scan">> \in Todo' => <<"pci_scan">> \in Todo
        /\ <<"device_init", f>> \in Todo' => <<"device_init", f>> \in Todo \/ resource[f] = <<>>
    BY <1>1
  <2> QED BY <2>1, <2>2, SameRight
<1>6. DOMAIN resource' = Fn'
  BY SameScan DEF ResInv
<1> QED BY <1>3, <1>4, <1>5, <1>6, SameScan DEF ResInv

(* The plan after a step of the sizing, or of the ROM's.                     *)
LEMMA PlanPop ==
    ASSUME TypeInv, todo # <<>>, Then(<<>>), machine' = machine, Head(todo)[1] \notin {"bar", "register"},
           NEW f \in Fn, NEW m \in 0 .. 6, NEW s \in 0 .. 7, NEW r \in DOMAIN todo, Plan(f, m, s, r)
    PROVE  /\ s > 0 => Head(todo) = Sizing(f, m - 1)[s] /\ Plan(f, m, s - 1, r - 1)'
           /\ s = 0 => m = NBar(f) /\ Plan(f, m, 0, r - 1)'
           /\ r - 1 \in DOMAIN todo'
<1>1. /\ Len(todo) \in Nat \ {0} /\ DOMAIN todo = 1 .. Len(todo) /\ Head(todo) = todo[1]
      /\ DOMAIN todo' = 1 .. Len(todo) - 1
      /\ \A k \in 2 .. Len(todo) : todo'[k - 1] = todo[k]
  <2>1. <<>> \in Seq(Op) /\ Len(<<>>) = 0
    OBVIOUS
  <2>2. /\ Len(todo) \in Nat \ {0} /\ DOMAIN todo = 1 .. Len(todo) /\ Head(todo) = todo[1]
        /\ DOMAIN todo' = 1 .. Len(<<>>) + Len(todo) - 1
        /\ \A k \in 2 .. Len(todo) : todo'[Len(<<>>) + k - 1] = todo[k]
    <3> HIDE DEF Op
    <3> QED BY <2>1, Positions
  <2>3. \A k \in 2 .. Len(todo) : Len(<<>>) + k - 1 = k - 1
    BY <2>1
  <2> QED BY <2>1, <2>2, <2>3
<1> DEFINE n == NBar(f)
           d == s + (n - m)
<1>2. /\ n \in Nat /\ m \in 0 .. n /\ r > d /\ todo[r] = <<"register", f>>
      /\ \A k \in 1 .. r - 1 : todo[k][1] \in ScanOps
      /\ \A k \in DOMAIN todo : k > d => todo[k][1] \notin BarOps
      /\ \A j \in m .. n - 1 : todo[s + 1 + (j - m)] = <<"bar", f, j>>
      /\ s > 0 => m > 0 /\ s <= Len(Sizing(f, m - 1))
      /\ \A k \in 1 .. s : todo[k] = Sizing(f, m - 1)[s + 1 - k]
  BY DEF Plan, NBar
<1>3. n' = n /\ Sizing(f, m - 1)' = Sizing(f, m - 1)
  BY SameScan
<1> HIDE DEF n
<1>4. r # 1
  <2>1. r = 1 => Head(todo)[1] = "register"
    BY <1>1, <1>2
  <2> QED BY <2>1
<1>5. r - 1 \in 1 .. Len(todo) - 1 /\ r - 1 \in DOMAIN todo' /\ todo'[r - 1] = <<"register", f>>
  BY <1>1, <1>2, <1>4
<1>6. \A k \in 1 .. (r - 1) - 1 : todo'[k][1] \in ScanOps
  <2> TAKE k \in 1 .. (r - 1) - 1
  <2>1. k + 1 \in 2 .. Len(todo) /\ k + 1 \in 1 .. r - 1 /\ (k + 1) - 1 = k
    BY <1>1
  <2> QED BY <2>1, <1>1, <1>2
<1>7. s = 0 => m = n
  <2> SUFFICES ASSUME s = 0, m # n PROVE FALSE
    OBVIOUS
  <2>1. m \in m .. n - 1 /\ s + 1 + (m - m) = 1
    BY <1>2
  <2>2. todo[1] = <<"bar", f, m>>
    BY <2>1, <1>2
  <2> QED BY <2>2, <1>1
<1>8. \A c \in {0, s - 1} : c >= 0 /\ (s > 0 => c = s - 1) =>
         \A k \in DOMAIN todo' : k > c + (n - m) => todo'[k][1] \notin BarOps
  <2> TAKE c \in {0, s - 1}
  <2> HAVE c >= 0 /\ (s > 0 => c = s - 1)
  <2> TAKE k \in DOMAIN todo'
  <2> HAVE k > c + (n - m)
  <2>1. k + 1 \in 2 .. Len(todo) /\ k + 1 \in DOMAIN todo /\ (k + 1) - 1 = k /\ k + 1 > d
    BY <1>1, <1>2
  <2> QED BY <2>1, <1>1, <1>2
<1>9. ASSUME s = 0 PROVE Plan(f, m, 0, r - 1)'
  <2>1. m = n /\ r - 1 > 0 + (n - m) /\ m .. n - 1 = {} /\ 1 .. 0 = {}
    BY <1>1, <1>4, <1>7, <1>9
  <2>2. \A k \in DOMAIN todo' : k > 0 + (n - m) => todo'[k][1] \notin BarOps
    BY <1>8, <1>9
  <2> QED BY <2>1, <2>2, <1>2, <1>3, <1>5, <1>6 DEF Plan, n
<1>10. ASSUME s > 0 PROVE Head(todo) = Sizing(f, m - 1)[s] /\ Plan(f, m, s - 1, r - 1)'
  <2>1. Head(todo) = Sizing(f, m - 1)[s]
    <3>1. 1 \in 1 .. s /\ s + 1 - 1 = s
      BY <1>10
    <3> QED BY <3>1, <1>1, <1>2
  <2>2. \A k \in DOMAIN todo' : k > (s - 1) + (n - m) => todo'[k][1] \notin BarOps
    <3>1. s - 1 \in {0, s - 1} /\ s - 1 >= 0
      BY <1>10
    <3> QED BY <3>1, <1>8
  <2>3. \A j \in m .. n - 1 : todo'[(s - 1) + 1 + (j - m)] = <<"bar", f, j>>
    <3> TAKE j \in m .. n - 1
    <3>1. /\ s + 1 + (j - m) \in 2 .. Len(todo)
          /\ (s + 1 + (j - m)) - 1 = (s - 1) + 1 + (j - m)
      BY <1>1, <1>2, <1>10
    <3>2. todo'[(s + 1 + (j - m)) - 1] = todo[s + 1 + (j - m)]
      BY <3>1, <1>1
    <3> QED BY <3>1, <3>2, <1>2
  <2>4. \A k \in 1 .. s - 1 : todo'[k] = Sizing(f, m - 1)[(s - 1) + 1 - k]
    <3> TAKE k \in 1 .. s - 1
    <3>1. k + 1 \in 2 .. Len(todo) /\ k + 1 \in 1 .. s /\ (k + 1) - 1 = k /\ s + 1 - (k + 1) = (s - 1) + 1 - k
      BY <1>1, <1>2
    <3> QED BY <3>1, <1>1, <1>2
  <2>5. r - 1 > (s - 1) + (n - m) /\ (s - 1 > 0 => m > 0 /\ s - 1 <= Len(Sizing(f, m - 1)))
    <3>1. Len(Sizing(f, m - 1)) \in {5, 7}
      BY SizingFacts
    <3> QED BY <3>1, <1>1, <1>2, <1>10
  <2> QED BY <2>1, <2>2, <2>3, <2>4, <2>5, <1>2, <1>3, <1>5, <1>6 DEF Plan, n
<1> QED BY <1>5, <1>7, <1>9, <1>10 DEF n

(* What is known of a register after a step of its sizing.                   *)
LEMMA KnownStep ==
    ASSUME TypeInv, DecodeInv, NEW f \in Fn, NEW i \in 0 .. 5, NEW s \in 2 .. Len(Sizing(f, i)),
           Head(todo) = Sizing(f, i)[s], Known(f, i, s), CommandOff \/ Ones \/ Back \/ CommandBack
    PROVE  Known(f, i, s - 1)'
<1> DEFINE a == Held(f, i, AllOnes)
           b == Held(f, i + 1, AllOnes)
           w == Wide(f, i)
           low_ == Low(f, i)
<1>1. a' = a /\ b' = b /\ w' = w /\ low_' = low_
  <2>1. machine' = machine
    BY DEF CommandOff, Ones, Back, CommandBack
  <2> QED BY <2>1, SameScan
<1>2. i \in 0 .. Rom /\ i + 1 \in 0 .. Rom /\ i + 1 # i
  BY DEF Rom
<1>3. DOMAIN cfg = Fn /\ DOMAIN cfg[f].bar = 0 .. Rom /\ "bar" \in DOMAIN cfg[f]
      /\ {"cmd", "ori", "lo", "hi"} \subseteq DOMAIN local
  BY DEF DecodeInv, CfgInv
<1>4. Head1 = Head(todo)[1] /\ todo # <<>>
  BY DEF CommandOff, Ones, Back, CommandBack, At, Head1
<1>5. s \in 2 .. (IF w THEN 7 ELSE 5) /\ fn = f
  <2>1. Len(Sizing(f, i)) = (IF w THEN 7 ELSE 5) /\ Sizing(f, i)[s][2] = f
    <3>1. s \in 1 .. Len(Sizing(f, i))
      <4>1. Len(Sizing(f, i)) \in {5, 7}
        BY SizingFacts
      <4> QED BY <4>1
    <3> QED BY <3>1, SizingFacts
  <2> QED BY <2>1 DEF fn
<1>6. /\ s = 2 => Head(todo)[1] = "command_back"
      /\ w => /\ s = 3 => Head(todo) = <<"back_hi", f, i + 1>>
              /\ s = 4 => Head(todo) = <<"ones", f, i + 1>>
              /\ s = 5 => Head(todo) = <<"back_lo", f, i>>
              /\ s = 6 => Head(todo) = <<"ones", f, i>>
              /\ s = 7 => Head(todo)[1] = "command_off"
      /\ ~w => /\ s = 3 => Head(todo) = <<"back_lo", f, i>>
               /\ s = 4 => Head(todo) = <<"ones", f, i>>
               /\ s = 5 => Head(todo)[1] = "command_off"
  BY SizingFacts, SMTT(30)
<1>7. Head(todo)[1] = "command_back" => local' = local
  BY DEF CommandOff, Ones, Back, CommandBack, At
<1>8. Head(todo)[1] = "command_off" => local'.hi = AllOnes
  <2>1. Head(todo)[1] = "command_off" => local' = [local EXCEPT !.cmd = cfg[fn].decode, !.hi = AllOnes]
    BY DEF CommandOff, Ones, Back, CommandBack, At
  <2> QED BY <2>1, <1>3
<1>9. Head(todo)[1] = "ones" => /\ local'.lo = local.lo /\ local'.hi = local.hi
                                /\ arg \in 0 .. Rom => cfg'[f].bar[arg] = Held(f, arg, AllOnes)
  <2>1. Head(todo)[1] = "ones" =>
           /\ local' = [local EXCEPT !.ori = read_config(fn, arg)]
           /\ cfg' = [cfg EXCEPT ![f].bar[arg] = Held(f, arg, AllOnes)]
    BY <1>5 DEF CommandOff, Ones, Back, CommandBack, At, write_config
  <2> QED BY <2>1, <1>3
<1>10. Head(todo)[1] = "back_lo" /\ arg \in 0 .. Rom =>
          local'.lo = [size |-> cfg[f].bar[arg], ori |-> Hw(f).bar[arg].at] /\ local'.hi = local.hi
  <2>1. Head(todo)[1] = "back_lo" =>
           local' = [local EXCEPT !.lo = [size |-> cfg[f].bar[arg], ori |-> local.ori]]
    BY <1>5 DEF CommandOff, Ones, Back, CommandBack, At, read_config
  <2>2. Head(todo)[1] = "back_lo" /\ arg \in 0 .. Rom => local.ori = Hw(f).bar[arg].at
    BY <1>4, <1>5 DEF DecodeInv, OriInv, Backs
  <2> QED BY <2>1, <2>2, <1>3
<1>11. Head(todo)[1] = "back_hi" => local'.hi = cfg[f].bar[arg] /\ local'.lo = local.lo
  <2>1. Head(todo)[1] = "back_hi" => local' = [local EXCEPT !.hi = cfg[f].bar[arg]]
    BY <1>5 DEF CommandOff, Ones, Back, CommandBack, At, read_config
  <2> QED BY <2>1, <1>3
<1>12. \A l, j : Head(todo) = <<l, f, j>> => Head(todo)[1] = l /\ arg = j
  BY DEF arg
<1>13. low_ = [size |-> a, ori |-> Hw(f).bar[i].at]
  BY DEF Low
<1> HIDE DEF a, b, w, low_
<1>14. CASE w
  <2>1. /\ s = 5 => cfg[f].bar[i] = a
        /\ s <= 4 => local.lo = low_
        /\ s = 3 => cfg[f].bar[i + 1] = b
        /\ s <= 2 => local.hi = b
    BY <1>14 DEF Known, a, b, w, low_
  <2> SUFFICES /\ s - 1 = 5 => cfg'[f].bar[i] = a
               /\ s - 1 <= 4 => local'.lo = low_
               /\ s - 1 = 3 => cfg'[f].bar[i + 1] = b
               /\ s - 1 <= 2 => local'.hi = b
    BY <1>1, <1>14 DEF Known, a, b, w, low_
  <2>2. CASE s = 7
    BY <2>2
  <2>3. CASE s = 6
    BY <2>3, <1>2, <1>6, <1>9, <1>12, <1>14 DEF a
  <2>4. CASE s = 5
    BY <2>1, <2>4, <1>2, <1>6, <1>10, <1>12, <1>13, <1>14
  <2>5. CASE s = 4
    BY <2>1, <2>5, <1>2, <1>6, <1>9, <1>12, <1>14 DEF b
  <2>6. CASE s = 3
    BY <2>1, <2>6, <1>2, <1>6, <1>11, <1>12, <1>14
  <2>7. CASE s = 2
    BY <2>1, <2>7, <1>6, <1>7, <1>14
  <2> QED BY <2>2, <2>3, <2>4, <2>5, <2>6, <2>7, <1>5, <1>14
<1>15. CASE ~w
  <2>1. /\ s <= 4 => local.hi = AllOnes
        /\ s = 3 => cfg[f].bar[i] = a
        /\ s <= 2 => local.lo = low_
    BY <1>15 DEF Known, a, b, w, low_
  <2> SUFFICES /\ s - 1 <= 4 => local'.hi = AllOnes
               /\ s - 1 = 3 => cfg'[f].bar[i] = a
               /\ s - 1 <= 2 => local'.lo = low_
    BY <1>1, <1>15 DEF Known, a, b, w, low_
  <2>2. CASE s = 5
    BY <2>2, <1>6, <1>8, <1>15
  <2>3. CASE s = 4
    BY <2>1, <2>3, <1>2, <1>6, <1>9, <1>12, <1>15 DEF a
  <2>4. CASE s = 3
    BY <2>1, <2>4, <1>2, <1>6, <1>10, <1>12, <1>13, <1>15
  <2>5. CASE s = 2
    BY <2>1, <2>5, <1>6, <1>7, <1>15
  <2> QED BY <2>2, <2>3, <2>4, <2>5, <1>5, <1>15
<1> QED BY <1>14, <1>15

(* The steps that size a register, or the ROM.                               *)
LEMMA SizeRes ==
    ASSUME TypeInv, DecodeInv, ResInv, CommandOff \/ Ones \/ Back \/ CommandBack
    PROVE  ResInv'
<1>1. /\ todo # <<>> /\ Then(<<>>) /\ machine' = machine /\ resource' = resource
      /\ pci_device_list' = pci_device_list
      /\ Head(todo)[1] \in {"command_off", "ones", "back_lo", "back_hi", "command_back"}
  BY DEF CommandOff, Ones, Back, CommandBack, At
<1>2. Todo = {Head(todo)} \cup Todo' /\ Head(todo) \in Op
  <2>1. <<>> \in Seq(Op) /\ Range(<<>>) = {}
    BY DEF Range
  <2> HIDE DEF Op
  <2> QED BY <1>1, <2>1, Replace
<1>3. ASSUME NEW f \in Fn, <<"register", f>> \in Todo'
      PROVE  Scanning(f)'
  <2>1. PICK m \in 0 .. 6, s \in 0 .. 7, r \in DOMAIN todo : Phase(f, m, s, r)
    BY <1>2, <1>3 DEF ResInv, Scanning
  <2>2. Plan(f, m, s, r) /\ Len(resource[f]) = m
    BY <2>1 DEF Phase
  <2>3. /\ s > 0 => Head(todo) = Sizing(f, m - 1)[s] /\ Plan(f, m, s - 1, r - 1)'
        /\ s = 0 => m = NBar(f) /\ Plan(f, m, 0, r - 1)'
        /\ r - 1 \in DOMAIN todo'
    BY <1>1, <2>2, PlanPop
  <2>4. \A i : Right(f, i)' = Right(f, i)
    BY <1>1, SameRight
  <2>5. CASE s = 0
    <3>1. Phase(f, m, 0, r - 1)'
      BY <1>1, <2>1, <2>2, <2>3, <2>4, <2>5 DEF Phase
    <3> QED BY <3>1, <2>3 DEF Scanning
  <2>6. CASE s > 0
    <3>1. m > 0 /\ s <= Len(Sizing(f, m - 1)) /\ m \in 0 .. NBar(f)
      BY <2>2, <2>6 DEF Plan
    <3>2. s # 1
      <4>1. s = 1 => Head(todo)[1] = "bar_end"
        BY <2>3, <2>6, SizingFacts
      <4> QED BY <4>1, <1>1
    <3>3. s \in 2 .. Len(Sizing(f, m - 1)) /\ m - 1 \in 0 .. 5
      <4>1. Len(Sizing(f, m - 1)) \in {5, 7}
        BY SizingFacts
      <4> QED BY <4>1, <3>1, <3>2, <2>6
    <3>4. Begun(f, m - 1, s - 1)'
      <4>1. MemoryBar(f, m - 1) => Known(f, m - 1, s - 1)'
        <5> SUFFICES ASSUME MemoryBar(f, m - 1) PROVE Known(f, m - 1, s - 1)'
          OBVIOUS
        <5>1. Known(f, m - 1, s)
          BY <2>1, <2>6 DEF Phase, Begun
        <5> DEFINE i == m - 1
        <5>2. Known(f, i, s) /\ i \in 0 .. 5 /\ s \in 2 .. Len(Sizing(f, i)) /\ Head(todo) = Sizing(f, i)[s]
          BY <5>1, <3>3, <2>3, <2>6
        <5> HIDE DEF i
        <5>3. Known(f, i, s - 1)'
          BY <5>2, KnownStep
        <5> QED BY <5>3 DEF i
      <4>2. MemoryBar(f, m - 1) => resource[f][(m - 1) + 1] = [start |-> Start(f, m - 1), end |-> 0, flags |-> 0]
        BY <2>1, <2>6 DEF Phase, Begun
      <4> QED BY <4>1, <4>2, <1>1, SameScan DEF Begun
    <3>5. \A i \in 0 .. m - 1 : (i < m - 1 \/ s = 0) => Right(f, i)
      BY <2>1 DEF Phase
    <3>6. Phase(f, m, s - 1, r - 1)'
      <4>1. s - 1 # 0
        BY <3>2
      <4> QED BY <1>1, <2>2, <2>3, <2>4, <2>6, <3>4, <3>5, <4>1 DEF Phase
    <3>7. s - 1 \in 0 .. 7
      BY <2>6
    <3> QED BY <3>6, <3>7, <2>3 DEF Scanning
  <2> QED BY <2>5, <2>6
<1>4. ASSUME NEW f \in Fn
      PROVE  /\ (resource[f] \in Seq(Range(resource[f])))'
             /\ (<<"pci_scan">> \in Todo \/ <<"device_init", f>> \in Todo => resource[f] = <<>>)'
             /\ (f \in Range(pci_device_list) => \A i \in 0 .. NBar(f) - 1 : Right(f, i))'
  <2>1. /\ resource[f] \in Seq(Range(resource[f]))
        /\ <<"pci_scan">> \in Todo \/ <<"device_init", f>> \in Todo => resource[f] = <<>>
        /\ f \in Range(pci_device_list) => \A i \in 0 .. NBar(f) - 1 : Right(f, i)
    BY DEF ResInv
  <2> QED BY <2>1, <1>1, <1>2, SameRight
<1>5. \A x \in Todo' : x[1] \in BarOps => <<"register", x[2]>> \in Todo'
  <2>1. \A x : <<"register", x>> # Head(todo)
    BY <1>1
  <2> QED BY <2>1, <1>2 DEF ResInv
<1>6. DOMAIN resource' = Fn'
  BY <1>1, SameScan DEF ResInv
<1> QED BY <1>1, <1>3, <1>4, <1>5, <1>6, SameScan DEF ResInv

(* A function that is being set up is not on the list, and only one is.      *)
LEMMA OneScan ==
    ASSUME TypeInv, OnceInv, ResInv, NEW f \in Fn, <<"register", f>> \in Todo
    PROVE  /\ f \notin Range(pci_device_list) /\ <<"pci_scan">> \notin Todo
           /\ <<"device_init", f>> \notin Todo
           /\ \A g \in Fn : <<"register", g>> \in Todo => g = f
<1>1. Listing(f) /\ StageInv
  BY DEF OnceInv, ListInv
<1>2. <<"register", f>> \in Scans(f) /\ <<"device_init", f>> \in Scans(f) /\ <<"register", f>> # <<"device_init", f>>
  BY MarkFacts
<1>3. f \notin Range(pci_device_list) /\ <<"pci_scan">> \notin Todo
  BY <1>1, <1>2 DEF Listing, StageInv
<1>4. <<"device_init", f>> \notin Todo
  <2> SUFFICES ASSUME <<"device_init", f>> \in Todo PROVE FALSE
    OBVIOUS
  <2>1. PICK j \in DOMAIN todo, k \in DOMAIN todo : todo[j] = <<"register", f>> /\ todo[k] = <<"device_init", f>>
    BY DEF Todo, Range
  <2>2. j = k
    BY <2>1, <1>1, <1>2 DEF Listing, Once
  <2> QED BY <2>1, <2>2, <1>2
<1>5. ASSUME NEW g \in Fn, <<"register", g>> \in Todo PROVE g = f
  <2>0. DOMAIN todo \subseteq Nat \ {0}
    <3>1. todo \in Seq(Op)
      BY DEF TypeInv, TodoInv
    <3> HIDE DEF Op
    <3> QED BY <3>1
  <2>1. PICK p \in DOMAIN todo : todo[p] = <<"register", f>> /\ \A k \in 1 .. p - 1 : todo[k][1] \in ScanOps
    BY DEF ResInv, Scanning, Phase, Plan
  <2>2. PICK q \in DOMAIN todo : todo[q] = <<"register", g>> /\ \A k \in 1 .. q - 1 : todo[k][1] \in ScanOps
    BY <1>5 DEF ResInv, Scanning, Phase, Plan
  <2>3. "register" \notin ScanOps
    BY DEF ScanOps, BarOps
  <2>4. ~(p < q) /\ ~(q < p)
    <3>1. p < q => p \in 1 .. q - 1
      BY <2>0
    <3>2. q < p => q \in 1 .. p - 1
      BY <2>0
    <3> QED BY <3>1, <3>2, <2>1, <2>2, <2>3
  <2>5. p = q
    BY <2>0, <2>4
  <2> QED BY <2>1, <2>2, <2>5
<1> QED BY <1>3, <1>4, <1>5

(* A sequence of anything, with one element more and with one replaced.      *)
LEMMA GrowSeq ==
    ASSUME NEW s, s \in Seq(Range(s)), NEW e
    PROVE  /\ Append(s, e) \in Seq(Range(Append(s, e)))
           /\ Len(s) \in Nat /\ Len(Append(s, e)) = Len(s) + 1 /\ Append(s, e)[Len(s) + 1] = e
           /\ \A j \in 1 .. Len(s) : Append(s, e)[j] = s[j]
<1> DEFINE S == Range(s) \cup {e}
           t == Append(s, e)
<1>1. s \in Seq(S)
  <2>1. Seq(Range(s)) \subseteq Seq(S)
    <3> DEFINE R == Range(s)
    <3>1. R \subseteq S
      OBVIOUS
    <3> HIDE DEF R, S
    <3>2. Seq(R) \subseteq Seq(S)
      BY <3>1
    <3> QED BY <3>2 DEF R
  <2> QED BY <2>1
<1>2. e \in S
  OBVIOUS
<1> HIDE DEF S
<1>3. /\ t \in Seq(S) /\ Len(s) \in Nat /\ Len(t) = Len(s) + 1 /\ t[Len(s) + 1] = e
      /\ \A j \in 1 .. Len(s) : t[j] = s[j]
  BY <1>1, <1>2
<1> HIDE DEF t
<1>4. DOMAIN t = 1 .. Len(t) /\ Len(t) \in Nat /\ t = [j \in 1 .. Len(t) |-> t[j]]
  BY <1>3
<1>5. t \in Seq(Range(t))
  <2> DEFINE R == Range(t)
  <2>1. \A j \in 1 .. Len(t) : t[j] \in R
    BY <1>4 DEF Range
  <2> HIDE DEF R
  <2>2. t \in Seq(R)
    BY <1>4, <2>1
  <2> QED BY <2>2 DEF R
<1> QED BY <1>3, <1>5 DEF t

(* Any sequence, and it with one element replaced.                           *)
IsSeq(s) == s \in Seq(Range(s))
Replaced(s, k, e) == [s EXCEPT ![k] = e]

(* It has the other elements that it had.                                    *)
LEMMA UpdateSeq ==
    ASSUME NEW s, IsSeq(s), NEW k \in 1 .. Len(s), NEW e
    PROVE  /\ IsSeq(Replaced(s, k, e)) /\ Len(Replaced(s, k, e)) = Len(s) /\ Replaced(s, k, e)[k] = e
           /\ \A j \in 1 .. Len(s) : j # k => Replaced(s, k, e)[j] = s[j]
<1> DEFINE S == Range(s) \cup {e}
           t == [s EXCEPT ![k] = e]
<1>1. s \in Seq(S)
  <2>1. Seq(Range(s)) \subseteq Seq(S)
    <3> DEFINE R == Range(s)
    <3>1. R \subseteq S
      OBVIOUS
    <3> HIDE DEF R, S
    <3>2. Seq(R) \subseteq Seq(S)
      BY <3>1
    <3> QED BY <3>2 DEF R
  <2> QED BY <2>1 DEF IsSeq
<1>2. e \in S
  OBVIOUS
<1> HIDE DEF S
<1>3. /\ t \in Seq(S) /\ Len(s) \in Nat /\ Len(t) = Len(s) /\ t[k] = e
      /\ \A j \in 1 .. Len(s) : j # k => t[j] = s[j]
  BY <1>1, <1>2
<1> HIDE DEF t
<1>4. DOMAIN t = 1 .. Len(t) /\ Len(t) \in Nat /\ t = [j \in 1 .. Len(t) |-> t[j]]
  BY <1>3
<1>5. t \in Seq(Range(t))
  <2> DEFINE R == Range(t)
  <2>1. \A j \in 1 .. Len(t) : t[j] \in R
    BY <1>4 DEF Range
  <2> HIDE DEF R
  <2>2. t \in Seq(R)
    BY <1>4, <2>1
  <2> QED BY <2>2 DEF R
<1>6. Replaced(s, k, e) = t /\ IsSeq(t)
  BY <1>5 DEF Replaced, t, IsSeq
<1> QED BY <1>3, <1>6

(* The end of the sizing of a register.                                      *)
LEMMA EndRes ==
    ASSUME TypeInv, OnceInv, DecodeInv, ResInv, BarEnd
    PROVE  ResInv'
<1> DEFINE u == resource[fn][arg + 1]
           e == [u EXCEPT !.end = (u.end + u.start + Size(local) - 1) % 2^(2*W),
                          !.flags = pci_get_bar_type(fn, arg)]
<1>1. /\ todo # <<>> /\ Then(<<>>) /\ machine' = machine /\ pci_device_list' = pci_device_list
      /\ Head(todo)[1] = "bar_end"
      /\ resource' = [resource EXCEPT ![fn][arg + 1] = e]
  BY DEF BarEnd, At
<1>2. Todo = {Head(todo)} \cup Todo' /\ Head(todo) \in Op
  <2>1. <<>> \in Seq(Op) /\ Range(<<>>) = {}
    BY DEF Range
  <2> HIDE DEF Op
  <2> QED BY <1>1, <2>1, Replace
<1>3. PICK f \in Fn, i \in Int : f = fn /\ i = arg /\ Head(todo) = <<"bar_end", f, i>>
  <2>1. Head(todo)[1] \in Reg
    BY <1>1 DEF Reg
  <2> HIDE DEF Op
  <2> QED BY <1>1, <1>2, <2>1, OpParts DEF fn, arg
<1>4. <<"register", f>> \in Todo
  <2>1. Head(todo)[1] \in BarOps /\ Head(todo)[2] = f
    BY <1>1, <1>3 DEF BarOps
  <2> QED BY <1>2, <2>1 DEF ResInv
<1>5. PICK m \in 0 .. 6, s \in 0 .. 7, r \in DOMAIN todo : Phase(f, m, s, r)
  BY <1>4 DEF ResInv, Scanning
<1>6. Plan(f, m, s, r) /\ Len(resource[f]) = m
  BY <1>5 DEF Phase
<1>7. /\ s > 0 => Head(todo) = Sizing(f, m - 1)[s] /\ Plan(f, m, s - 1, r - 1)'
      /\ s = 0 => m = NBar(f)
      /\ r - 1 \in DOMAIN todo'
  BY <1>1, <1>6, PlanPop
<1>8. s # 0
  <2> SUFFICES ASSUME s = 0 PROVE FALSE
    OBVIOUS
  <2>1. todo[1] = Head(todo) /\ 1 \in DOMAIN todo
    <3>1. todo \in Seq(Op)
      BY DEF TypeInv, TodoInv
    <3> HIDE DEF Op
    <3> QED BY <1>1, <3>1
  <2>2. m = NBar(f) /\ NBar(f) \in Nat /\ 1 > s + (NBar(f) - m)
    BY <1>7 DEF NBar
  <2>3. todo[1][1] \notin BarOps
    BY <1>6, <2>1, <2>2 DEF Plan
  <2> QED BY <1>1, <2>1, <2>3 DEF BarOps
<1>9. s = 1 /\ i = m - 1 /\ m > 0
  <2>1. s > 0 /\ m > 0 /\ s <= Len(Sizing(f, m - 1)) /\ Len(Sizing(f, m - 1)) \in {5, 7}
    BY <1>6, <1>8, SizingFacts DEF Plan
  <2>2. s = 1
    <3>1. s # 1 => s \in 2 .. Len(Sizing(f, m - 1))
      BY <2>1
    <3>2. s # 1 => Head(todo)[1] \notin BarOps
      BY <3>1, <2>1, <1>7, SizingFacts
    <3> QED BY <3>2, <1>1 DEF BarOps
  <2>3. Head(todo) = <<"bar_end", f, m - 1>>
    BY <2>1, <2>2, <1>7, SizingFacts
  <2> QED BY <2>1, <2>2, <2>3, <1>3
<1>10. /\ resource[f] \in Seq(Range(resource[f])) /\ DOMAIN resource = Fn
       /\ i + 1 \in 1 .. Len(resource[f]) /\ m \in 0 .. NBar(f) /\ i \in 0 .. NBar(f) - 1
  <2>1. m \in 0 .. NBar(f) /\ NBar(f) \in Nat
    BY <1>6 DEF Plan, NBar
  <2>2. i + 1 \in 1 .. Len(resource[f]) /\ i \in 0 .. NBar(f) - 1
    BY <2>1, <1>6, <1>9
  <2>3. resource[f] \in Seq(Range(resource[f])) /\ DOMAIN resource = Fn
    BY DEF ResInv
  <2> QED BY <2>1, <2>2, <2>3
<1>11. /\ resource'[f] \in Seq(Range(resource'[f])) /\ Len(resource'[f]) = m
       /\ resource'[f][i + 1] = e
       /\ \A j \in 1 .. m : j # i + 1 => resource'[f][j] = resource[f][j]
  <2>1. resource'[f] = [resource[f] EXCEPT ![i + 1] = e]
    BY <1>1, <1>3, <1>10
  <2> HIDE DEF e
  <2>2. resource'[f] = Replaced(resource[f], i + 1, e) /\ IsSeq(resource[f])
    BY <2>1, <1>10 DEF Replaced, IsSeq
  <2>3. /\ IsSeq(resource'[f]) /\ Len(resource'[f]) = Len(resource[f]) /\ resource'[f][i + 1] = e
        /\ \A j \in 1 .. Len(resource[f]) : j # i + 1 => resource'[f][j] = resource[f][j]
    BY <2>2, <1>10, UpdateSeq
  <2> QED BY <2>3, <1>6 DEF IsSeq
<1>12. \A g \in Fn : g # f => resource'[g] = resource[g]
  BY <1>1, <1>3, <1>10
<1>13. Right(f, i)'
  <2> SUFFICES ASSUME MemoryBar(f, i) PROVE /\ e.start = Start(f, i)
                                            /\ e.end = Start(f, i) + Extent(f, i) - 1
                                            /\ bit(e.flags, 0) = 0
    BY <1>1, <1>11, SameScan DEF Right
  <2>1. /\ resource[f][i + 1] = [start |-> Start(f, i), end |-> 0, flags |-> 0] /\ Known(f, i, 1)
    BY <1>5, <1>8, <1>9 DEF Phase, Begun
  <2> DEFINE b == Hw(f).bar[i]
             hi == IF b.kind = "mem64" THEN Held(f, i + 1, AllOnes) ELSE AllOnes
  <2>2. /\ i \in 0 .. 5 /\ bit(b.at, 1) = 0
        /\ bit(b.at, 2) = (IF b.kind = "mem64" THEN 1 ELSE 0)
        /\ bit(low(b.at, 4), 0) = 0
        /\ (0 + Start(f, i) + Extent(f, i) - 1) % 2^(2*W) = Start(f, i) + Extent(f, i) - 1
        /\ local.lo = [size |-> Held(f, i, AllOnes), ori |-> b.at] /\ local.hi = hi => Size(local) = Extent(f, i)
    BY <1>10, BarSizes DEF TypeInv
  <2>3. Wide(f, i) <=> b.kind = "mem64"
    BY <2>2 DEF Wide
  <2>4. local.lo = [size |-> Held(f, i, AllOnes), ori |-> b.at] /\ local.hi = hi
    BY <2>1, <2>3 DEF Known, Low
  <2>5. cfg[f].bar[i] = b.at
    <3>1. i \in 0 .. Rom /\ ~Busy(f, i)
      BY <1>1, <2>2 DEF Rom, Busy, Head1, Backs
    <3> QED BY <3>1 DEF DecodeInv, BarsInv
  <2>6. pci_get_bar_type(f, i) = low(b.at, 4)
    BY <2>2, <2>5 DEF pci_get_bar_type, read_config
  <2>7. e = [start |-> Start(f, i), end |-> (0 + Start(f, i) + Size(local) - 1) % 2^(2*W),
             flags |-> pci_get_bar_type(f, i)]
    <3>1. PICK st, ty, sz, mo : st = Start(f, i) /\ ty = pci_get_bar_type(f, i) /\ sz = Size(local) /\ mo = 2^(2*W)
      OBVIOUS
    <3>2. u = [start |-> st, end |-> 0, flags |-> 0]
      BY <2>1, <1>3, <3>1
    <3>3. e = [u EXCEPT !.end = (u.end + u.start + sz - 1) % mo, !.flags = ty]
      BY <3>1, <1>3
    <3> HIDE DEF u, e
    <3>4. e = [start |-> st, end |-> (0 + st + sz - 1) % mo, flags |-> ty]
      <4>1. u.end = 0 /\ u.start = st
        BY <3>2
      <4>2. e = [u EXCEPT !.end = (0 + st + sz - 1) % mo, !.flags = ty]
        BY <3>3, <4>1
      <4>3. PICK z : z = (0 + st + sz - 1) % mo
        OBVIOUS
      <4>4. e = [u EXCEPT !.end = z, !.flags = ty]
        BY <4>2, <4>3
      <4>5. e = [start |-> st, end |-> z, flags |-> ty]
        BY <4>4, <3>2
      <4> QED BY <4>3, <4>5
    <3> QED BY <3>1, <3>4
  <2> QED BY <2>2, <2>4, <2>6, <2>7
<1>14. Scanning(f)'
  <2>1. Plan(f, m, 0, r - 1)' /\ r - 1 \in DOMAIN todo'
    BY <1>7, <1>9
  <2>2. \A j \in 0 .. m - 1 : Right(f, j)'
    <3> TAKE j \in 0 .. m - 1
    <3>1. CASE j = i
      BY <3>1, <1>13
    <3>2. CASE j # i
      <4>1. Right(f, j) /\ j + 1 \in 1 .. m /\ j + 1 # i + 1
        BY <3>2, <1>5, <1>9 DEF Phase
      <4>2. resource'[f][j + 1] = resource[f][j + 1]
        BY <4>1, <1>11
      <4> QED BY <4>1, <4>2, <1>1, SameScan DEF Right
    <3> QED BY <3>1, <3>2
  <2>3. Phase(f, m, 0, r - 1)'
    BY <2>1, <2>2, <1>11 DEF Phase
  <2> QED BY <2>1, <2>3 DEF Scanning
<1>15. \A g \in Fn : <<"register", g>> \in Todo' => g = f
  BY <1>2, <1>4, OneScan
<1>16. ASSUME NEW g \in Fn
       PROVE  /\ (resource[g] \in Seq(Range(resource[g])))'
              /\ (<<"pci_scan">> \in Todo \/ <<"device_init", g>> \in Todo => resource[g] = <<>>)'
              /\ (g \in Range(pci_device_list) => \A j \in 0 .. NBar(g) - 1 : Right(g, j))'
  <2>1. /\ resource[g] \in Seq(Range(resource[g]))
        /\ <<"pci_scan">> \in Todo \/ <<"device_init", g>> \in Todo => resource[g] = <<>>
        /\ g \in Range(pci_device_list) => \A j \in 0 .. NBar(g) - 1 : Right(g, j)
    BY DEF ResInv
  <2>2. CASE g = f
    <3>1. g \notin Range(pci_device_list) /\ <<"pci_scan">> \notin Todo' /\ <<"device_init", g>> \notin Todo'
      BY <2>2, <1>2, <1>4, OneScan
    <3> QED BY <3>1, <2>2, <1>1, <1>11
  <2>3. CASE g # f
    <3>1. resource'[g] = resource[g]
      BY <2>3, <1>12
    <3> QED BY <2>1, <3>1, <1>1, <1>2, SameRight
  <2> QED BY <2>2, <2>3
<1>17. \A x \in Todo' : x[1] \in BarOps => <<"register", x[2]>> \in Todo'
  <2>1. \A x : <<"register", x>> # Head(todo)
    BY <1>1
  <2> QED BY <2>1, <1>2 DEF ResInv
<1>18. DOMAIN resource' = Fn'
  BY <1>1, SameScan DEF ResInv
<1> QED BY <1>1, <1>14, <1>15, <1>16, <1>17, <1>18, SameScan DEF ResInv

(* What Bar puts on todo: the steps of the sizing.                           *)
LEMMA SizingOps ==
    ASSUME NEW f \in Fn, NEW i \in Int, cfg[f].bar[i] = Hw(f).bar[i].at
    PROVE  LET ops == pci_get_bar_size(f, i) \o <<<<"bar_end", f, i>>>>
           IN  /\ ops \in Seq(Op) /\ Len(ops) = Len(Sizing(f, i))
               /\ \A k \in 1 .. Len(ops) : ops[k] = Sizing(f, i)[Len(ops) + 1 - k]
<1> DEFINE s == pci_get_bar_size(f, i)
           u == <<<<"bar_end", f, i>>>>
<1>1. s \in Seq(Op)
  BY SizeWhole DEF Whole
<1>2. u \in Seq(Op) /\ Len(u) = 1 /\ u[1] = <<"bar_end", f, i>>
  <2>1. <<"bar_end", f, i>> \in Op
    BY OpFacts DEF Reg
  <2> HIDE DEF Op
  <2> QED BY <2>1
<1>3. CASE Wide(f, i)
  <2>1. s = <<<<"command_off", f>>, <<"ones", f, i>>, <<"back_lo", f, i>>,
              <<"ones", f, i + 1>>, <<"back_hi", f, i + 1>>, <<"command_back", f>>>>
    BY <1>3, Tuples6 DEF pci_get_bar_size, read_config, Wide
  <2>2. /\ Len(s) = 6 /\ s[1] = Sizing(f, i)[7] /\ s[2] = Sizing(f, i)[6] /\ s[3] = Sizing(f, i)[5]
        /\ s[4] = Sizing(f, i)[4] /\ s[5] = Sizing(f, i)[3] /\ s[6] = Sizing(f, i)[2]
        /\ u[1] = Sizing(f, i)[1] /\ Len(Sizing(f, i)) = 7
    BY <1>2, <1>3, <2>1, SizingFacts
  <2> HIDE DEF s, u, Op
  <2>3. PICK a \in Seq(Op), b \in Seq(Op) : a = s /\ b = u
    BY <1>1, <1>2
  <2>4. /\ Len(a \o b) = 7 /\ a \o b \in Seq(Op) /\ (a \o b)[7] = b[1]
        /\ \A k \in 1 .. 6 : (a \o b)[k] = a[k]
    <3>1. Len(a) = 6 /\ Len(b) = 1 /\ 1 \in 1 .. 1 /\ 6 + 1 = 7
      BY <1>2, <2>2, <2>3
    <3>2. /\ a \o b \in Seq(Op) /\ Len(a \o b) = Len(a) + Len(b)
          /\ \A k \in 1 .. Len(a) : (a \o b)[k] = a[k]
          /\ \A k \in 1 .. Len(b) : (a \o b)[Len(a) + k] = b[k]
      BY ConcatFacts
    <3>3. (a \o b)[6 + 1] = b[1]
      BY <3>1, <3>2
    <3> QED BY <3>1, <3>2, <3>3
  <2>5. \A k \in 1 .. 7 : (a \o b)[k] = Sizing(f, i)[7 + 1 - k]
    <3>1. /\ (a \o b)[1] = Sizing(f, i)[7] /\ (a \o b)[2] = Sizing(f, i)[6] /\ (a \o b)[3] = Sizing(f, i)[5]
          /\ (a \o b)[4] = Sizing(f, i)[4] /\ (a \o b)[5] = Sizing(f, i)[3] /\ (a \o b)[6] = Sizing(f, i)[2]
          /\ (a \o b)[7] = Sizing(f, i)[1]
      BY <2>2, <2>3, <2>4
    <3> TAKE k \in 1 .. 7
    <3>2. \/ k = 1 /\ 7 + 1 - k = 7
          \/ k = 2 /\ 7 + 1 - k = 6
          \/ k = 3 /\ 7 + 1 - k = 5
          \/ k = 4 /\ 7 + 1 - k = 4
          \/ k = 5 /\ 7 + 1 - k = 3
          \/ k = 6 /\ 7 + 1 - k = 2
          \/ k = 7 /\ 7 + 1 - k = 1
      OBVIOUS
    <3> QED BY <3>1, <3>2
  <2> QED BY <2>2, <2>3, <2>4, <2>5 DEF s, u
<1>4. CASE ~Wide(f, i)
  <2>1. s = <<<<"command_off", f>>, <<"ones", f, i>>, <<"back_lo", f, i>>, <<"command_back", f>>>>
    BY <1>4, Tuples4 DEF pci_get_bar_size, read_config, Wide
  <2>2. /\ Len(s) = 4 /\ s[1] = Sizing(f, i)[5] /\ s[2] = Sizing(f, i)[4] /\ s[3] = Sizing(f, i)[3]
        /\ s[4] = Sizing(f, i)[2] /\ u[1] = Sizing(f, i)[1] /\ Len(Sizing(f, i)) = 5
    BY <1>2, <1>4, <2>1, SizingFacts
  <2> HIDE DEF s, u, Op
  <2>3. PICK a \in Seq(Op), b \in Seq(Op) : a = s /\ b = u
    BY <1>1, <1>2
  <2>4. /\ Len(a \o b) = 5 /\ a \o b \in Seq(Op) /\ (a \o b)[5] = b[1]
        /\ \A k \in 1 .. 4 : (a \o b)[k] = a[k]
    <3>1. Len(a) = 4 /\ Len(b) = 1 /\ 1 \in 1 .. 1 /\ 4 + 1 = 5
      BY <1>2, <2>2, <2>3
    <3>2. /\ a \o b \in Seq(Op) /\ Len(a \o b) = Len(a) + Len(b)
          /\ \A k \in 1 .. Len(a) : (a \o b)[k] = a[k]
          /\ \A k \in 1 .. Len(b) : (a \o b)[Len(a) + k] = b[k]
      BY ConcatFacts
    <3>3. (a \o b)[4 + 1] = b[1]
      BY <3>1, <3>2
    <3> QED BY <3>1, <3>2, <3>3
  <2>5. \A k \in 1 .. 5 : (a \o b)[k] = Sizing(f, i)[5 + 1 - k]
    <3>1. /\ (a \o b)[1] = Sizing(f, i)[5] /\ (a \o b)[2] = Sizing(f, i)[4] /\ (a \o b)[3] = Sizing(f, i)[3]
          /\ (a \o b)[4] = Sizing(f, i)[2] /\ (a \o b)[5] = Sizing(f, i)[1]
      BY <2>2, <2>3, <2>4
    <3> TAKE k \in 1 .. 5
    <3>2. \/ k = 1 /\ 5 + 1 - k = 5
          \/ k = 2 /\ 5 + 1 - k = 4
          \/ k = 3 /\ 5 + 1 - k = 3
          \/ k = 4 /\ 5 + 1 - k = 2
          \/ k = 5 /\ 5 + 1 - k = 1
      OBVIOUS
    <3> QED BY <3>1, <3>2
  <2> QED BY <2>2, <2>3, <2>4, <2>5 DEF s, u
<1> QED BY <1>3, <1>4

(* The address pci_get_bar_base finds in a memory register.                  *)
LEMMA BaseIs ==
    ASSUME TypeInv, DecodeInv, Head1 \notin Backs,
           NEW f \in Fn, NEW i \in 0 .. NBar(f) - 1, MemoryBar(f, i)
    PROVE  pci_get_bar_base(f, i) = Start(f, i)
<1> DEFINE b == Hw(f).bar[i]
<1>1. /\ i \in 0 .. 5 /\ bit(b.at, 0) = 0 /\ bit(b.at, 1) = 0
      /\ bit(b.at, 2) = (IF b.kind = "mem64" THEN 1 ELSE 0)
  BY BarSizes DEF TypeInv
<1>2. /\ \A j \in 0 .. Rom : cfg[f].bar[j] = Hw(f).bar[j].at
      /\ i \in 0 .. Rom /\ i + 1 \in 0 .. Rom
  BY <1>1 DEF DecodeInv, BarsInv, Busy, Rom
<1>3. 0 * 2^W = 0
  BY PowNat, WAssumption
<1>4. pci_get_bar_base(f, i) = b.at - low(b.at, 4) + (IF bit(b.at, 2) = 1 THEN Hw(f).bar[i + 1].at ELSE 0) * 2^W
  BY <1>1, <1>2 DEF pci_get_bar_base, read_config
<1>5. (IF bit(b.at, 2) = 1 THEN Hw(f).bar[i + 1].at ELSE 0) * 2^W
      = IF b.kind = "mem64" THEN Hw(f).bar[i + 1].at * 2^W ELSE 0
  BY <1>1, <1>3
<1> QED BY <1>4, <1>5 DEF Start

(* The sizing of a register begins.                                          *)
LEMMA BarRes ==
    ASSUME TypeInv, OnceInv, DecodeInv, ResInv, Bar
    PROVE  ResInv'
<1> DEFINE e == [start |-> pci_get_bar_base(fn, arg), end |-> 0, flags |-> 0]
           size == pci_get_bar_size(fn, arg) \o <<<<"bar_end", fn, arg>>>>
<1>1. /\ todo # <<>> /\ Then(size) /\ machine' = machine /\ pci_device_list' = pci_device_list
      /\ Head(todo)[1] = "bar"
      /\ resource' = [resource EXCEPT ![fn] = Append(resource[fn], e)]
  BY DEF Bar, At
<1> HIDE DEF e
<1>2. Head(todo) \in Op /\ Head(todo) \in Todo /\ Head(todo) = todo[1] /\ 1 \in DOMAIN todo
  <2>1. todo \in Seq(Op)
    BY DEF TypeInv, TodoInv
  <2> HIDE DEF Op
  <2> QED BY <1>1, <2>1 DEF Todo, Range
<1>3. PICK f \in Fn, i \in Int : f = fn /\ i = arg /\ Head(todo) = <<"bar", f, i>>
  <2>1. Head(todo)[1] \in Reg
    BY <1>1 DEF Reg
  <2> HIDE DEF Op
  <2> QED BY <1>1, <1>2, <2>1, OpParts DEF fn, arg
<1>4. <<"register", f>> \in Todo
  <2>1. Head(todo)[1] \in BarOps /\ Head(todo)[2] = f
    BY <1>1, <1>3 DEF BarOps
  <2> QED BY <1>2, <2>1 DEF ResInv
<1>5. PICK m \in 0 .. 6, s \in 0 .. 7, r \in DOMAIN todo : Phase(f, m, s, r)
  BY <1>4 DEF ResInv, Scanning
<1> DEFINE n == NBar(f)
<1>6. /\ n \in Nat /\ n <= 6 /\ m \in 0 .. n /\ Len(resource[f]) = m
      /\ r > s + (n - m) /\ todo[r] = <<"register", f>>
      /\ \A k \in 1 .. r - 1 : todo[k][1] \in ScanOps
      /\ \A k \in DOMAIN todo : k > s + (n - m) => todo[k][1] \notin BarOps
      /\ \A j \in m .. n - 1 : todo[s + 1 + (j - m)] = <<"bar", f, j>>
      /\ s > 0 => m > 0 /\ s <= Len(Sizing(f, m - 1))
      /\ \A k \in 1 .. s : todo[k] = Sizing(f, m - 1)[s + 1 - k]
      /\ \A j \in 0 .. m - 1 : (j < m - 1 \/ s = 0) => Right(f, j)
  <2>1. n \in Nat /\ n <= 6
    BY DEF NBar
  <2>2. Plan(f, m, s, r) /\ Len(resource[f]) = m /\ \A j \in 0 .. m - 1 : (j < m - 1 \/ s = 0) => Right(f, j)
    BY <1>5, Zenon DEF Phase
  <2> QED BY <2>1, <2>2, Zenon DEF Plan
<1> HIDE DEF n
<1>7. s = 0
  <2> SUFFICES ASSUME s # 0 PROVE FALSE
    OBVIOUS
  <2>1. 1 \in 1 .. s /\ s + 1 - 1 = s /\ s > 0
    OBVIOUS
  <2>2. todo[1] = Sizing(f, m - 1)[s] /\ s \in 1 .. Len(Sizing(f, m - 1))
    <3>1. Len(Sizing(f, m - 1)) \in {5, 7}
      BY SizingFacts
    <3> QED BY <3>1, <2>1, <1>6
  <2>3. Sizing(f, m - 1)[s][1] = "bar_end" \/ Sizing(f, m - 1)[s][1] \notin BarOps
    <3>1. s = 1 \/ s \in 2 .. Len(Sizing(f, m - 1))
      <4>1. Len(Sizing(f, m - 1)) \in {5, 7}
        BY SizingFacts
      <4> QED BY <4>1, <2>2
    <3> QED BY <3>1, SizingFacts
  <2> QED BY <2>2, <2>3, <1>1, <1>2 DEF BarOps
<1>8. m < n
  <2> SUFFICES ASSUME ~(m < n) PROVE FALSE
    OBVIOUS
  <2>1. 1 > s + (n - m)
    BY <1>6, <1>7
  <2> QED BY <2>1, <1>1, <1>2, <1>6 DEF BarOps
<1>9. i = m
  <2>1. m \in m .. n - 1 /\ s + 1 + (m - m) = 1
    BY <1>6, <1>7, <1>8
  <2>2. todo[1] = <<"bar", f, m>>
    BY <2>1, <1>6
  <2> QED BY <2>2, <1>2, <1>3
<1>10. i \in 0 .. NBar(f) - 1 /\ i \in 0 .. Rom /\ Head1 \notin Backs /\ cfg[f].bar[i] = Hw(f).bar[i].at
  <2>1. i \in 0 .. NBar(f) - 1 /\ i \in 0 .. Rom
    BY <1>6, <1>8, <1>9 DEF n, Rom
  <2>2. Head1 \notin Backs
    BY <1>1 DEF Head1, Backs
  <2> QED BY <2>1, <2>2 DEF DecodeInv, BarsInv, Busy
<1>12. PICK L \in {5, 7} : L = Len(Sizing(f, m)) /\ L = IF Wide(f, m) THEN 7 ELSE 5
  BY SizingFacts
<1>11. PICK ops \in Seq(Op) : /\ Then(ops) /\ Len(ops) = L
                              /\ \A k \in 1 .. L : ops[k] = Sizing(f, m)[L + 1 - k]
  <2>1. /\ pci_get_bar_size(f, i) \o <<<<"bar_end", f, i>>>> \in Seq(Op)
        /\ Len(pci_get_bar_size(f, i) \o <<<<"bar_end", f, i>>>>) = L
        /\ \A k \in 1 .. L : (pci_get_bar_size(f, i) \o <<<<"bar_end", f, i>>>>)[k] = Sizing(f, m)[L + 1 - k]
    <3> DEFINE x == pci_get_bar_size(f, i) \o <<<<"bar_end", f, i>>>>
    <3>1. /\ x \in Seq(Op) /\ Len(x) = Len(Sizing(f, i))
          /\ \A k \in 1 .. Len(x) : x[k] = Sizing(f, i)[Len(x) + 1 - k]
      BY <1>10, SizingOps
    <3> HIDE DEF x, Op
    <3>2. Len(x) = L /\ Sizing(f, i) = Sizing(f, m)
      BY <3>1, <1>9, <1>12
    <3>3. /\ x \in Seq(Op) /\ Len(x) = L /\ \A k \in 1 .. L : x[k] = Sizing(f, m)[L + 1 - k]
      BY <3>1, <3>2
    <3> QED BY <3>3 DEF x
  <2>2. Then(pci_get_bar_size(f, i) \o <<<<"bar_end", f, i>>>>)
    BY <1>1, <1>3
  <2> HIDE DEF Op
  <2>3. PICK t : t = pci_get_bar_size(f, i) \o <<<<"bar_end", f, i>>>>
    OBVIOUS
  <2> QED BY <2>1, <2>2, <2>3
<1>13. \A k \in 1 .. L : /\ Sizing(f, m)[L + 1 - k][1] \in ScanOps
                         /\ Sizing(f, m)[L + 1 - k][1] # "register"
  <2> TAKE k \in 1 .. L
  <2>1. L + 1 - k = 1 \/ L + 1 - k \in 2 .. L
    BY <1>12
  <2>2. "bar_end" \in ScanOps /\ "register" \notin ScanOps
    BY DEF ScanOps, BarOps
  <2>3. Sizing(f, m)[L + 1 - k][1] \in ScanOps
    BY <2>1, <2>2, <1>12, SizingFacts, SMTT(30)
  <2> QED BY <2>2, <2>3
<1> HIDE DEF size, Op
<1>14. /\ Len(todo) \in Nat \ {0} /\ DOMAIN todo = 1 .. Len(todo)
       /\ DOMAIN todo' = 1 .. L + Len(todo) - 1
       /\ \A k \in 1 .. L : todo'[k] = ops[k]
       /\ \A k \in 2 .. Len(todo) : todo'[L + k - 1] = todo[k]
       /\ \A k \in DOMAIN todo' : k \in 1 .. L \/ k - L + 1 \in 2 .. Len(todo)
  BY <1>1, <1>11, Positions
<1>15. Plan(f, m + 1, L, r + L - 1)'
  <2>1. n' = n /\ Sizing(f, m)' = Sizing(f, m) /\ (m + 1) - 1 = m
    BY <1>1, <1>6, SameScan DEF n
  <2>2. r \in 2 .. Len(todo) /\ L + r - 1 = r + L - 1
    BY <1>6, <1>7, <1>8, <1>12, <1>14
  <2>3. m + 1 \in 0 .. n /\ r + L - 1 \in DOMAIN todo' /\ r + L - 1 > L + (n - (m + 1))
    <3>1. m + 1 \in 0 .. n
      BY <1>6, <1>8
    <3>2. r + L - 1 \in DOMAIN todo'
      BY <1>14, <2>2
    <3>3. r > n - m
      BY <1>6, <1>7
    <3> QED BY <3>1, <3>2, <3>3, <1>6, <2>2
  <2>4. todo'[r + L - 1] = <<"register", f>>
    BY <1>6, <1>14, <2>2
  <2>5. \A k \in 1 .. (r + L - 1) - 1 : todo'[k][1] \in ScanOps
    <3> TAKE k \in 1 .. (r + L - 1) - 1
    <3>1. CASE k \in 1 .. L
      BY <3>1, <1>11, <1>13, <1>14
    <3>2. CASE k \notin 1 .. L
      <4>1. k - L + 1 \in 2 .. Len(todo) /\ k - L + 1 \in 1 .. r - 1 /\ L + (k - L + 1) - 1 = k
        BY <3>2, <2>2, <1>12
      <4>2. todo'[L + (k - L + 1) - 1] = todo[k - L + 1]
        BY <4>1, <1>14
      <4> QED BY <4>1, <4>2, <1>6
    <3> QED BY <3>1, <3>2
  <2>6. \A k \in DOMAIN todo' : k > L + (n - (m + 1)) => todo'[k][1] \notin BarOps
    <3> TAKE k \in DOMAIN todo'
    <3> HAVE k > L + (n - (m + 1))
    <3>1. k \in Nat /\ k > L
      BY <1>6, <1>8, <1>12, <1>14
    <3>2. /\ k - L + 1 \in 2 .. Len(todo) /\ L + (k - L + 1) - 1 = k
          /\ k - L + 1 > s + (n - m) /\ k - L + 1 \in DOMAIN todo
      BY <3>1, <1>6, <1>7, <1>12, <1>14, SMTT(60)
    <3>3. todo'[L + (k - L + 1) - 1] = todo[k - L + 1]
      BY <3>2, <1>14
    <3> QED BY <3>2, <3>3, <1>6
  <2>7. \A j \in m + 1 .. n - 1 : todo'[L + 1 + (j - (m + 1))] = <<"bar", f, j>>
    <3> TAKE j \in m + 1 .. n - 1
    <3>1. /\ j \in m .. n - 1 /\ s + 1 + (j - m) \in 2 .. Len(todo)
          /\ L + (s + 1 + (j - m)) - 1 = L + 1 + (j - (m + 1))
      <4>1. m \in Nat /\ n \in Nat /\ j \in m + 1 .. n - 1 /\ j \in m .. n - 1
        BY <1>6
      <4>2. r > n - m /\ r \in 2 .. Len(todo) /\ Len(todo) \in Nat
        BY <1>6, <1>7, <1>14, <2>2
      <4> QED BY <4>1, <4>2, <1>7, <1>12
    <3>2. todo'[L + (s + 1 + (j - m)) - 1] = todo[s + 1 + (j - m)]
      BY <3>1, <1>14
    <3> QED BY <3>1, <3>2, <1>6
  <2>8. m + 1 > 0 /\ L <= Len(Sizing(f, m))
    BY <1>6, <1>12
  <2>9. \A k \in 1 .. L : todo'[k] = Sizing(f, m)[L + 1 - k]
    BY <1>11, <1>14
  <2> QED BY <2>1, <2>3, <2>4, <2>5, <2>6, <2>7, <2>8, <2>9 DEF Plan, n
<1>16. /\ resource[f] \in Seq(Range(resource[f])) /\ DOMAIN resource = Fn
       /\ resource'[f] = Append(resource[f], e) /\ \A g \in Fn : g # f => resource'[g] = resource[g]
  <2>1. resource[f] \in Seq(Range(resource[f])) /\ DOMAIN resource = Fn
    BY DEF ResInv
  <2> QED BY <2>1, <1>1, <1>3
<1>17. /\ resource'[f] \in Seq(Range(resource'[f])) /\ Len(resource'[f]) = m + 1 /\ resource'[f][m + 1] = e
       /\ \A j \in 1 .. m : resource'[f][j] = resource[f][j]
  BY <1>6, <1>16, GrowSeq
<1>18. Scanning(f)'
  <2>1. \A j \in 0 .. m - 1 : Right(f, j)'
    <3> TAKE j \in 0 .. m - 1
    <3>1. Right(f, j) /\ j + 1 \in 1 .. m
      BY <1>6, <1>7
    <3>2. resource'[f][j + 1] = resource[f][j + 1]
      BY <3>1, <1>17
    <3> QED BY <3>1, <3>2, <1>1, SameScan DEF Right
  <2>2. Begun(f, m, L)'
    <3>1. MemoryBar(f, m) => e = [start |-> Start(f, m), end |-> 0, flags |-> 0]
      BY <1>3, <1>9, <1>10, BaseIs DEF e
    <3>2. Known(f, m, L)'
      BY <1>1, <1>12, SameScan DEF Known
    <3> QED BY <3>1, <3>2, <1>1, <1>17, SameScan DEF Begun
  <2>3. (m + 1) - 1 = m /\ m + 1 \in 0 .. 6 /\ L \in 0 .. 7 /\ L # 0 /\ r + L - 1 \in DOMAIN todo'
    <3>1. r + L - 1 \in DOMAIN todo'
      BY <1>15 DEF Plan
    <3> QED BY <3>1, <1>6, <1>8, <1>12
  <2>4. Phase(f, m + 1, L, r + L - 1)'
    <3>1. \A j \in 0 .. (m + 1) - 1 : (j < (m + 1) - 1 \/ L = 0) => Right(f, j)'
      BY <2>1, <2>3
    <3> QED BY <2>2, <2>3, <3>1, <1>15, <1>17 DEF Phase
  <2> QED BY <2>3, <2>4 DEF Scanning
<1>19. /\ Todo' = Range(ops) \cup Range(Tail(todo)) /\ Todo = {Head(todo)} \cup Range(Tail(todo))
       /\ \A x \in Range(ops) : x[1] \in ScanOps /\ x[2] = f /\ x[1] # "register"
  <2>1. \A k \in 1 .. L : ops[k][1] \in ScanOps /\ ops[k][2] = f /\ ops[k][1] # "register"
    <3> TAKE k \in 1 .. L
    <3>1. L + 1 - k \in 1 .. L
      BY <1>12
    <3>2. Sizing(f, m)[L + 1 - k][2] = f
      BY <3>1, <1>12, SizingFacts
    <3> QED BY <3>2, <1>11, <1>13
  <2>2. DOMAIN ops = 1 .. L
    BY <1>11
  <2> QED BY <1>1, <1>11, <2>1, <2>2, Replace DEF Range
<1>20. \A g \in Fn : <<"register", g>> \in Todo' => g = f
  <2>1. \A g \in Fn : <<"register", g>> \in Todo' => <<"register", g>> \in Todo
    BY <1>19
  <2> QED BY <2>1, <1>4, OneScan
<1>21. <<"register", f>> \in Todo'
  <2>1. <<"register", f>> # Head(todo)
    BY <1>1
  <2> QED BY <2>1, <1>4, <1>19
<1>22. ASSUME NEW g \in Fn
       PROVE  /\ (resource[g] \in Seq(Range(resource[g])))'
              /\ (<<"pci_scan">> \in Todo \/ <<"device_init", g>> \in Todo => resource[g] = <<>>)'
              /\ (g \in Range(pci_device_list) => \A j \in 0 .. NBar(g) - 1 : Right(g, j))'
  <2>1. /\ resource[g] \in Seq(Range(resource[g]))
        /\ <<"pci_scan">> \in Todo \/ <<"device_init", g>> \in Todo => resource[g] = <<>>
        /\ g \in Range(pci_device_list) => \A j \in 0 .. NBar(g) - 1 : Right(g, j)
    BY DEF ResInv
  <2>2. /\ <<"pci_scan">> \in Todo' => <<"pci_scan">> \in Todo
        /\ <<"device_init", g>> \in Todo' => <<"device_init", g>> \in Todo
    <3>1. "pci_scan" \notin ScanOps /\ "device_init" \notin ScanOps
      BY DEF ScanOps, BarOps
    <3> QED BY <3>1, <1>19
  <2>3. CASE g = f
    <3>1. g \notin Range(pci_device_list) /\ <<"pci_scan">> \notin Todo' /\ <<"device_init", g>> \notin Todo'
      BY <2>2, <2>3, <1>4, OneScan
    <3> QED BY <3>1, <2>3, <1>1, <1>17
  <2>4. CASE g # f
    <3>1. resource'[g] = resource[g]
      BY <2>4, <1>16
    <3> QED BY <2>1, <2>2, <3>1, <1>1, SameRight
  <2> QED BY <2>3, <2>4
<1>23. \A x \in Todo' : x[1] \in BarOps => <<"register", x[2]>> \in Todo'
  <2>1. \A x : <<"register", x>> # Head(todo)
    BY <1>1
  <2> QED BY <2>1, <1>19, <1>21 DEF ResInv
<1>24. DOMAIN resource' = Fn'
  BY <1>1, SameScan DEF ResInv
<1> QED BY <1>1, <1>18, <1>20, <1>22, <1>23, <1>24, SameScan DEF ResInv

(* Sequences of one element each, in one.                                    *)
LEMMA FlattenSingles ==
    ASSUME NEW E, NEW ss \in Seq(Seq(E)), \A j \in 1 .. Len(ss) : Len(ss[j]) = 1
    PROVE  /\ FlattenSeq(ss) \in Seq(E) /\ Len(FlattenSeq(ss)) = Len(ss)
           /\ \A j \in 1 .. Len(ss) : FlattenSeq(ss)[j] = ss[j][1]
<1>1. PICK F \in [0 .. Len(ss) -> Seq(E)] : Partial(F, ss)
  BY FlattenPartial
<1>2. Len(ss) \in Nat /\ \A i \in 1 .. Len(ss) : ss[i] \in Seq(E)
  OBVIOUS
<1> DEFINE P(n) == Len(F[n]) = n /\ \A j \in 1 .. n : F[n][j] = ss[j][1]
           T == {n \in 0 .. Len(ss) : P(n)}
<1>3. 0 \in T
  BY <1>1, <1>2 DEF Partial
<1>4. ASSUME NEW n \in 0 .. Len(ss) - 1, n \in T
      PROVE  n + 1 \in T
  <2>1. /\ n \in Nat /\ n \in 0 .. Len(ss) /\ n + 1 \in 0 .. Len(ss) /\ n + 1 \in 1 .. Len(ss)
        /\ n + 1 # 0 /\ (n + 1) - 1 = n
    BY <1>2
  <2>2. PICK a \in Seq(E), b \in Seq(E) : a = F[n] /\ b = ss[n + 1]
    BY <2>1, <1>2, Zenon
  <2>3. F[n + 1] = a \o b
    <3>1. F[n + 1] = F[(n + 1) - 1] \o ss[n + 1]
      BY <1>1, <2>1, Zenon DEF Partial
    <3> QED BY <3>1, <2>1, <2>2
  <2>4. Len(a) = n /\ Len(b) = 1 /\ \A j \in 1 .. n : a[j] = ss[j][1]
    BY <1>4, <2>1, <2>2
  <2>5. Len(a \o b) = n + 1 /\ (a \o b)[n + 1] = b[1] /\ \A j \in 1 .. n : (a \o b)[j] = a[j]
    <3>1. 1 \in 1 .. 1
      OBVIOUS
    <3>2. /\ Len(a \o b) = Len(a) + Len(b) /\ \A k \in 1 .. Len(a) : (a \o b)[k] = a[k]
          /\ \A k \in 1 .. Len(b) : (a \o b)[Len(a) + k] = b[k]
      BY ConcatFacts
    <3>3. (a \o b)[n + 1] = b[1]
      BY <3>1, <3>2, <2>4
    <3> QED BY <3>2, <3>3, <2>4
  <2>6. \A j \in 1 .. n + 1 : j \in 1 .. n \/ j = n + 1
    BY <2>1
  <2>7. P(n + 1)
    BY <2>2, <2>3, <2>4, <2>5, <2>6
  <2> HIDE DEF P
  <2> QED BY <2>7, <2>1
<1>5. Len(ss) \in T
  <2> HIDE DEF T
  <2>1. \A n \in 0 .. Len(ss) : n \in T
    BY <1>2, <1>3, <1>4, UpTo
  <2> QED BY <2>1, <1>2
<1>6. FlattenSeq(ss) = F[Len(ss)] /\ F[Len(ss)] \in Seq(E)
  BY <1>1, <1>2 DEF Partial
<1> QED BY <1>5, <1>6

(* What pci_device_init puts on todo, in order.                              *)
LEMMA SetupOps ==
    ASSUME NEW f \in Fn, NEW n \in Nat
    PROVE  LET ops == FlattenSeq([i \in 1 .. n |-> <<<<"bar", f, i - 1>>>>])
                      \o <<<<"command_off", f>>, <<"ones", f, Rom>>, <<"back_lo", f, Rom>>,
                           <<"command_back", f>>, <<"register", f>>>>
           IN  /\ ops \in Seq(Op) /\ Len(ops) = n + 5 /\ ops[n + 5] = <<"register", f>>
               /\ \A k \in 1 .. n : ops[k] = <<"bar", f, k - 1>>
               /\ \A k \in n + 1 .. n + 4 : ops[k][1] \in ScanOps
               /\ \A k \in n + 1 .. n + 5 : ops[k][1] \notin BarOps
<1> DEFINE ss == [i \in 1 .. n |-> <<<<"bar", f, i - 1>>>>]
           t == <<<<"command_off", f>>, <<"ones", f, Rom>>, <<"back_lo", f, Rom>>,
                  <<"command_back", f>>, <<"register", f>>>>
           b == FlattenSeq(ss)
<1>1. \A i \in 1 .. n : <<"bar", f, i - 1>> \in Op
  BY OpFacts DEF Reg
<1>2. ss \in Seq(Seq(Op)) /\ Len(ss) = n /\ \A j \in 1 .. n : Len(ss[j]) = 1 /\ ss[j][1] = <<"bar", f, j - 1>>
  <2> HIDE DEF Op
  <2>1. \A i \in 1 .. n : <<<<"bar", f, i - 1>>>> \in Seq(Op)
    BY <1>1
  <2> QED BY <2>1
<1>3. b \in Seq(Op) /\ Len(b) = n /\ \A j \in 1 .. n : b[j] = <<"bar", f, j - 1>>
  <2> HIDE DEF ss, Op
  <2> QED BY <1>2, FlattenSingles
<1>4. /\ <<"command_off", f>> \in Op /\ <<"command_back", f>> \in Op /\ <<"register", f>> \in Op
      /\ <<"ones", f, Rom>> \in Op /\ <<"back_lo", f, Rom>> \in Op
  BY OpFacts DEF One, Reg, Rom
<1>5. t \in Seq(Op)
  BY <1>4
<1>6. Len(t) = 5 /\ t[5] = <<"register", f>> /\ \A k \in 1 .. 4 : t[k][1] \in ScanOps \ BarOps
  <2>1. t[1][1] = "command_off" /\ t[2][1] = "ones" /\ t[3][1] = "back_lo" /\ t[4][1] = "command_back"
    OBVIOUS
  <2>2. \A k \in 1 .. 4 : k \in {1, 2, 3, 4}
    OBVIOUS
  <2>3. Len(t) = 5 /\ t[5] = <<"register", f>>
    OBVIOUS
  <2> HIDE DEF t
  <2> QED BY <2>1, <2>2, <2>3 DEF ScanOps, BarOps
<1> HIDE DEF t, b, Op
<1>7. PICK x \in Seq(Op), y \in Seq(Op) : x = b /\ y = t
  BY <1>3, <1>5
<1>8. /\ x \o y \in Seq(Op) /\ Len(x \o y) = n + 5
      /\ \A k \in 1 .. n : (x \o y)[k] = x[k]
      /\ \A k \in 1 .. 5 : (x \o y)[n + k] = y[k]
  <2>1. Len(x) = n /\ Len(y) = 5
    BY <1>3, <1>6, <1>7
  <2>2. /\ x \o y \in Seq(Op) /\ Len(x \o y) = Len(x) + Len(y)
        /\ \A k \in 1 .. Len(x) : (x \o y)[k] = x[k]
        /\ \A k \in 1 .. Len(y) : (x \o y)[Len(x) + k] = y[k]
    BY ConcatFacts
  <2> QED BY <2>1, <2>2
<1>9. \A k \in n + 1 .. n + 5 : k - n \in 1 .. 5 /\ n + (k - n) = k /\ (k = n + 5 => k - n = 5)
  OBVIOUS
<1>10. \A k \in n + 1 .. n + 5 : (x \o y)[k] = y[k - n]
  BY <1>8, <1>9
<1>11. "register" \notin BarOps
  BY DEF BarOps
<1>12. \A k \in n + 1 .. n + 4 : (x \o y)[k][1] \in ScanOps \ BarOps
  <2> TAKE k \in n + 1 .. n + 4
  <2>1. k \in n + 1 .. n + 5 /\ k - n \in 1 .. 4
    OBVIOUS
  <2> QED BY <2>1, <1>6, <1>7, <1>10
<1>13. (x \o y)[n + 5] = <<"register", f>>
  <2>1. 5 \in 1 .. 5
    OBVIOUS
  <2>2. (x \o y)[n + 5] = y[5]
    BY <2>1, <1>8
  <2> QED BY <2>2, <1>6, <1>7
<1>14. \A k \in n + 1 .. n + 5 : (x \o y)[k][1] \notin BarOps
  <2> TAKE k \in n + 1 .. n + 5
  <2>1. k \in n + 1 .. n + 4 \/ k = n + 5
    OBVIOUS
  <2>2. <<"register", f>>[1] = "register"
    OBVIOUS
  <2>3. k = n + 5 => (x \o y)[k][1] = "register"
    BY <2>2, <1>13
  <2> QED BY <2>1, <2>3, <1>11, <1>12
<1>15. \A k \in 1 .. n : (x \o y)[k] = <<"bar", f, k - 1>>
  BY <1>3, <1>7, <1>8
<1> QED BY <1>7, <1>8, <1>12, <1>13, <1>14, <1>15 DEF b, t, ss

(* A function's set-up begins, when none is being set up.                    *)
LEMMA DeviceRes ==
    ASSUME TypeInv, OnceInv, ResInv, pci_device_init
    PROVE  ResInv'
<1> DEFINE setup == FlattenSeq([i \in 1 .. NBar(fn) |-> <<<<"bar", fn, i - 1>>>>])
                    \o <<<<"command_off", fn>>, <<"ones", fn, Rom>>, <<"back_lo", fn, Rom>>,
                         <<"command_back", fn>>, <<"register", fn>>>>
<1>1. /\ todo # <<>> /\ Then(setup) /\ machine' = machine /\ pci_device_list' = pci_device_list
      /\ Head(todo)[1] = "device_init" /\ resource' = resource
  BY DEF pci_device_init, At
<1>2. \A x \in Todo : x[1] # "register" /\ x[1] \notin BarOps
  <2>1. Head(todo)[1] \notin ScanOps \cup {"register"}
    BY <1>1 DEF ScanOps, BarOps
  <2> QED BY <1>1, <2>1, NoScan
<1>3. PICK f \in Fn, n \in Nat : f = fn /\ n = NBar(fn)
  <2>1. fn \in Fn
    BY <1>1, HeadFacts DEF One
  <2> QED BY <2>1 DEF NBar
<1>4. PICK ops \in Seq(Op) :
         /\ Then(ops) /\ Len(ops) = n + 5 /\ ops[n + 5] = <<"register", f>>
         /\ \A k \in 1 .. n : ops[k] = <<"bar", f, k - 1>>
         /\ \A k \in n + 1 .. n + 4 : ops[k][1] \in ScanOps
         /\ \A k \in n + 1 .. n + 5 : ops[k][1] \notin BarOps
  <2> DEFINE x == FlattenSeq([i \in 1 .. n |-> <<<<"bar", f, i - 1>>>>])
                  \o <<<<"command_off", f>>, <<"ones", f, Rom>>, <<"back_lo", f, Rom>>,
                       <<"command_back", f>>, <<"register", f>>>>
  <2>1. /\ x \in Seq(Op) /\ Len(x) = n + 5 /\ x[n + 5] = <<"register", f>>
        /\ \A k \in 1 .. n : x[k] = <<"bar", f, k - 1>>
        /\ \A k \in n + 1 .. n + 4 : x[k][1] \in ScanOps
        /\ \A k \in n + 1 .. n + 5 : x[k][1] \notin BarOps
    BY SetupOps
  <2>2. x = setup
    BY <1>3
  <2> HIDE DEF x, setup, Op
  <2>3. Then(x)
    BY <1>1, <2>2
  <2> QED BY <2>1, <2>3
<1> HIDE DEF setup, Op
<1>5. /\ Len(todo) \in Nat \ {0} /\ DOMAIN todo = 1 .. Len(todo) /\ Head(todo) = todo[1]
      /\ DOMAIN todo' = 1 .. (n + 5) + Len(todo) - 1
      /\ \A k \in 1 .. n + 5 : todo'[k] = ops[k]
      /\ \A k \in 2 .. Len(todo) : todo'[(n + 5) + k - 1] = todo[k]
      /\ \A k \in DOMAIN todo' : k \in 1 .. n + 5 \/ k - (n + 5) + 1 \in 2 .. Len(todo)
  BY <1>1, <1>4, Positions, ZenonT(60)
<1>6. /\ Todo' = Range(ops) \cup Range(Tail(todo)) /\ Todo = {Head(todo)} \cup Range(Tail(todo))
      /\ Head(todo) = <<"device_init", f>>
  BY <1>1, <1>3, <1>4, Replace, OpMarks DEF fn
<1>7. \A k \in 1 .. n + 5 : \/ k \in 1 .. n
                            \/ k \in n + 1 .. n + 4
                            \/ k = n + 5
  OBVIOUS
<1>8. /\ \A k \in 1 .. n + 5 : ops[k][1] \in ScanOps \/ ops[k] = <<"register", f>>
      /\ \A k \in 1 .. n + 5 : k # n + 5 => ops[k][1] \in ScanOps
      /\ \A k \in 1 .. n + 5 : ops[k][1] \in BarOps => k \in 1 .. n
  <2>1. \A k \in 1 .. n : ops[k][1] \in ScanOps
    <3>1. "bar" \in ScanOps
      BY DEF ScanOps, BarOps
    <3> QED BY <3>1, <1>4
  <2>2. \A k \in 1 .. n + 5 : k \in 1 .. n \/ k \in n + 1 .. n + 5
    OBVIOUS
  <2> QED BY <1>4, <1>7, <2>1, <2>2
<1>9. \A x \in Range(ops) : /\ x[1] \in ScanOps \/ x = <<"register", f>>
                            /\ x[1] \in BarOps => x[2] = f
  <2>1. DOMAIN ops = 1 .. n + 5
    BY <1>4
  <2>2. \A k \in 1 .. n : ops[k][2] = f
    BY <1>4
  <2>3. \A k \in 1 .. n + 5 : /\ ops[k][1] \in ScanOps \/ ops[k] = <<"register", f>>
                              /\ ops[k][1] \in BarOps => ops[k][2] = f
    BY <1>8, <2>2
  <2> TAKE x \in Range(ops)
  <2>4. PICK k \in 1 .. n + 5 : x = ops[k]
    BY <2>1 DEF Range
  <2> QED BY <2>3, <2>4
<1>10. NBar(f)' = n /\ resource[f] = <<>> /\ n <= 6
  <2>1. <<"device_init", f>> \in Todo
    BY <1>6
  <2>2. resource[f] = <<>>
    BY <2>1 DEF ResInv
  <2>3. n = NBar(f) /\ n <= 6
    BY <1>3 DEF NBar
  <2> QED BY <2>2, <2>3, <1>1, SameScan
<1>11. Plan(f, 0, 0, n + 5)'
  <2>1. 0 \in 0 .. n /\ n + 5 \in DOMAIN todo' /\ n + 5 > 0 + (n - 0) /\ todo'[n + 5] = <<"register", f>>
    BY <1>4, <1>5
  <2>2. \A k \in 1 .. (n + 5) - 1 : todo'[k][1] \in ScanOps
    <3> TAKE k \in 1 .. (n + 5) - 1
    <3>1. k \in 1 .. n + 5 /\ k # n + 5
      OBVIOUS
    <3> QED BY <3>1, <1>5, <1>8
  <2>3. \A k \in DOMAIN todo' : k > 0 + (n - 0) => todo'[k][1] \notin BarOps
    <3> TAKE k \in DOMAIN todo'
    <3> HAVE k > 0 + (n - 0)
    <3>1. CASE k \in 1 .. n + 5
      <4>1. k \notin 1 .. n
        OBVIOUS
      <4> QED BY <3>1, <4>1, <1>5, <1>8
    <3>2. CASE k \notin 1 .. n + 5
      <4>1. k - (n + 5) + 1 \in 2 .. Len(todo) /\ k \in Int
        BY <3>2, <1>5
      <4>2. (n + 5) + (k - (n + 5) + 1) - 1 = k /\ k - (n + 5) + 1 \in DOMAIN todo
        <5>1. \A l \in 2 .. Len(todo) : l \in DOMAIN todo
          BY <1>5
        <5> QED BY <4>1, <5>1
      <4>3. todo'[k] = todo[k - (n + 5) + 1]
        BY <4>1, <4>2, <1>5
      <4> QED BY <4>2, <4>3, <1>2 DEF Todo, Range
    <3> QED BY <3>1, <3>2
  <2>4. \A j \in 0 .. n - 1 : todo'[0 + 1 + (j - 0)] = <<"bar", f, j>>
    <3> TAKE j \in 0 .. n - 1
    <3>1. 0 + 1 + (j - 0) = j + 1 /\ j + 1 \in 1 .. n /\ j + 1 \in 1 .. n + 5 /\ (j + 1) - 1 = j
      OBVIOUS
    <3>2. todo'[j + 1] = <<"bar", f, (j + 1) - 1>>
      BY <3>1, <1>4, <1>5
    <3> QED BY <3>1, <3>2
  <2>5. ~(0 > 0) /\ 1 .. 0 = {}
    OBVIOUS
  <2> QED BY <1>10, <2>1, <2>2, <2>3, <2>4, <2>5, Zenon DEF Plan
<1>12. Scanning(f)'
  <2>1. Phase(f, 0, 0, n + 5)'
    <3>1. Len(resource'[f]) = 0 /\ 0 .. 0 - 1 = {}
      BY <1>1, <1>10
    <3> QED BY <3>1, <1>11 DEF Phase
  <2>2. n + 5 \in DOMAIN todo'
    BY <1>11 DEF Plan
  <2> QED BY <2>1, <2>2 DEF Scanning
<1>13. \A g \in Fn : <<"register", g>> \in Todo' => g = f
  <2>1. "register" \notin ScanOps
    BY DEF ScanOps, BarOps
  <2> QED BY <2>1, <1>2, <1>6, <1>9
<1>14. ASSUME NEW g \in Fn
       PROVE  /\ (resource[g] \in Seq(Range(resource[g])))'
              /\ (<<"pci_scan">> \in Todo \/ <<"device_init", g>> \in Todo => resource[g] = <<>>)'
              /\ (g \in Range(pci_device_list) => \A j \in 0 .. NBar(g) - 1 : Right(g, j))'
  <2>1. /\ resource[g] \in Seq(Range(resource[g]))
        /\ <<"pci_scan">> \in Todo \/ <<"device_init", g>> \in Todo => resource[g] = <<>>
        /\ g \in Range(pci_device_list) => \A j \in 0 .. NBar(g) - 1 : Right(g, j)
    BY DEF ResInv
  <2>2. /\ <<"pci_scan">> \in Todo' => <<"pci_scan">> \in Todo
        /\ <<"device_init", g>> \in Todo' => <<"device_init", g>> \in Todo
    <3>1. "pci_scan" \notin ScanOps /\ "device_init" \notin ScanOps
      BY DEF ScanOps, BarOps
    <3> QED BY <3>1, <1>6, <1>9
  <2> QED BY <2>1, <2>2, <1>1, SameRight
<1>15. \A x \in Todo' : x[1] \in BarOps => <<"register", x[2]>> \in Todo'
  <2>1. <<"register", f>> \in Range(ops)
    <3>1. n + 5 \in DOMAIN ops
      BY <1>4
    <3> QED BY <3>1, <1>4 DEF Range
  <2> QED BY <2>1, <1>2, <1>6, <1>9
<1>16. DOMAIN resource' = Fn'
  BY <1>1, SameScan DEF ResInv
<1> QED BY <1>1, <1>12, <1>13, <1>14, <1>15, <1>16, SameScan DEF ResInv

(* A function that has been set up goes on the list.                         *)
LEMMA RegisterRes ==
    ASSUME TypeInv, OnceInv, ResInv, register_pci_device
    PROVE  ResInv'
<1>1. /\ todo # <<>> /\ Then(<<>>) /\ machine' = machine /\ resource' = resource
      /\ pci_device_list' = Append(pci_device_list, fn) /\ Head(todo)[1] = "register"
  BY DEF register_pci_device, At
<1>2. Todo = {Head(todo)} \cup Todo' /\ Head(todo) \in Op
  <2>1. <<>> \in Seq(Op) /\ Range(<<>>) = {}
    BY DEF Range
  <2> HIDE DEF Op
  <2> QED BY <1>1, <2>1, Replace
<1>3. PICK f \in Fn : f = fn /\ Head(todo) = <<"register", f>>
  <2> HIDE DEF Op
  <2> QED BY <1>1, <1>2, OpMarks DEF fn
<1>4. /\ f \notin Range(pci_device_list) /\ <<"pci_scan">> \notin Todo /\ <<"device_init", f>> \notin Todo
      /\ \A g \in Fn : <<"register", g>> \in Todo => g = f
  BY <1>2, <1>3, OneScan
<1>5. <<"register", f>> \notin Todo'
  <2>1. Range(Tail(todo)) \cap Scans(f) = {}
    <3>1. Once(todo, Scans(f)) /\ Head(todo) \in Scans(f)
      BY <1>3, MarkFacts DEF OnceInv, ListInv, Listing
    <3> QED BY <3>1, <1>1, OnceHead
  <2>2. Todo' = Range(Tail(todo))
    <3>1. <<>> \in Seq(Op) /\ Range(<<>>) = {}
      BY DEF Range
    <3> HIDE DEF Op
    <3> QED BY <1>1, <3>1, Replace
  <2> QED BY <2>1, <2>2, MarkFacts
<1>6. PICK m \in 0 .. 6, s \in 0 .. 7, r \in DOMAIN todo : Phase(f, m, s, r)
  BY <1>2, <1>3 DEF ResInv, Scanning
<1>7. 1 \in DOMAIN todo /\ todo[1] = <<"register", f>> /\ DOMAIN todo \subseteq Nat \ {0}
  <2>1. todo \in Seq(Op)
    BY DEF TypeInv, TodoInv
  <2> HIDE DEF Op
  <2> QED BY <1>1, <1>3, <2>1
<1>8. r = 1
  <2>1. r # 1 => 1 \in 1 .. r - 1
    BY <1>7
  <2>2. "register" \notin ScanOps
    BY DEF ScanOps, BarOps
  <2> QED BY <2>1, <2>2, <1>6, <1>7 DEF Phase, Plan
<1>9. s = 0 /\ m = NBar(f)
  BY <1>6, <1>8 DEF Phase, Plan, NBar
<1>10. \A i \in 0 .. NBar(f) - 1 : Right(f, i)
  BY <1>6, <1>9 DEF Phase
<1>11. Range(pci_device_list') = Range(pci_device_list) \cup {f}
  <2>1. pci_device_list \in Seq(Fn) /\ \A j, k \in DOMAIN pci_device_list : pci_device_list[j] = pci_device_list[k] => j = k
    BY DEF TypeInv, OnceInv, ListInv
  <2> QED BY <2>1, <1>1, <1>3, <1>4, AppendFacts
<1>12. ASSUME NEW g \in Fn
       PROVE  /\ (resource[g] \in Seq(Range(resource[g])))'
              /\ (<<"pci_scan">> \in Todo \/ <<"device_init", g>> \in Todo => resource[g] = <<>>)'
              /\ (g \in Range(pci_device_list) => \A j \in 0 .. NBar(g) - 1 : Right(g, j))'
  <2>1. /\ resource[g] \in Seq(Range(resource[g]))
        /\ <<"pci_scan">> \in Todo \/ <<"device_init", g>> \in Todo => resource[g] = <<>>
        /\ g \in Range(pci_device_list) => \A j \in 0 .. NBar(g) - 1 : Right(g, j)
    BY DEF ResInv
  <2>2. g \in Range(pci_device_list') => \A j \in 0 .. NBar(g) - 1 : Right(g, j)
    BY <1>10, <1>11, <2>1
  <2> QED BY <2>1, <2>2, <1>1, <1>2, SameRight
<1>13. \A x \in Todo' : x[1] \notin BarOps
  <2> SUFFICES ASSUME NEW x \in Todo', x[1] \in BarOps PROVE FALSE
    OBVIOUS
  <2>1. x \in Range(todo')
    BY DEF Todo
  <2>2. PICK k \in DOMAIN todo : k # 1 /\ x = todo[k]
    <3>1. /\ Len(todo) \in Nat \ {0} /\ DOMAIN todo = 1 .. Len(todo)
          /\ DOMAIN todo' = 1 .. Len(<<>>) + Len(todo) - 1
          /\ \A k \in 2 .. Len(todo) : todo'[Len(<<>>) + k - 1] = todo[k]
      <4>1. <<>> \in Seq(Op)
        OBVIOUS
      <4> HIDE DEF Op
      <4> QED BY <1>1, <4>1, Positions
    <3>2. PICK j \in DOMAIN todo' : x = todo'[j]
      BY <2>1 DEF Range
    <3>3. j + 1 \in 2 .. Len(todo) /\ Len(<<>>) + (j + 1) - 1 = j
      BY <3>1
    <3> QED BY <3>1, <3>2, <3>3
  <2>3. k > s + (NBar(f) - m)
    <3>1. NBar(f) \in Nat
      BY DEF NBar
    <3> QED BY <3>1, <2>2, <1>7, <1>9
  <2> QED BY <2>2, <2>3, <1>6 DEF Phase, Plan
<1>14. DOMAIN resource' = Fn'
  BY <1>1, SameScan DEF ResInv
<1>15. \A g \in Fn : <<"register", g>> \notin Todo'
  BY <1>2, <1>4, <1>5
<1> QED BY <1>1, <1>12, <1>13, <1>14, <1>15, SameScan DEF ResInv

(* pci_scan asks for the set-up of functions that have no resources yet.     *)
LEMMA ScanRes ==
    ASSUME TypeInv, ResInv, pci_scan
    PROVE  ResInv'
<1>1. PICK n \in Nat : Fn = 1 .. n
  BY FnFacts DEF TypeInv
<1> DEFINE s == FlattenSeq([f \in 1 .. n |-> IF Hw(f).bus <= end_bus_number THEN <<<<"device_init", f>>>> ELSE <<>>])
<1>2. /\ todo # <<>> /\ Head(todo)[1] = "pci_scan" /\ Then(s) /\ machine' = machine
      /\ pci_device_list' = <<>> /\ resource' = resource
  BY <1>1 DEF pci_scan, At
<1>3. /\ s \in Seq(Op)
      /\ \A x : x \in Range(s) <=> \E f \in 1 .. n : Hw(f).bus <= end_bus_number /\ x = <<"device_init", f>>
  BY <1>1, ScanWhole DEF Whole
<1>4. PICK ops \in Seq(Op) : ops = s
  BY <1>3
<1>5. Then(ops) /\ \A x \in Range(ops) : x[1] = "device_init"
  BY <1>2, <1>3, <1>4
<1> HIDE DEF s, Op
<1>6. Head(todo) = <<"pci_scan">> /\ Head(todo) \in Todo
  BY <1>2, <1>5, Replace, OpMarks
<1>7. \A f \in Fn : resource[f] = <<>>
  BY <1>6 DEF ResInv
<1>8. Range(pci_device_list') = {}
  BY <1>2 DEF Range
<1>9. Head(todo)[1] \notin ScanOps \cup {"register"}
  BY <1>2 DEF ScanOps, BarOps
<1>10. \A x \in Range(ops) : x[1] \notin {"pci_scan", "register"} \cup BarOps
  BY <1>5 DEF BarOps
<1> QED BY <1>2, <1>5, <1>7, <1>8, <1>9, <1>10, OtherRes

(* pci_register_driver and pci_probe, and the calls of a probe.              *)
LEMMA DriverRes ==
    ASSUME TypeInv, OnceInv, ResInv,
           pci_register_driver(ids) \/ pci_probe \/ pci_enable_msix \/ pci_enable_msi \/ ixgbe_reset \/ Fill
    PROVE  ResInv'
<1>1. PICK ops \in Seq(Op) :
         /\ Then(ops) /\ todo # <<>> /\ machine' = machine /\ pci_device_list' = pci_device_list
         /\ resource' = resource
         /\ Head(todo)[1] \in {"driver", "probe", "msix", "msi", "reset", "fill"}
         /\ \A x \in Range(ops) : x[1] \notin {"pci_scan", "register", "device_init"} \cup BarOps
  <2>1. CASE pci_register_driver(ids)
    <3> DEFINE s == FlattenSeq([k \in DOMAIN pci_device_list |->
                       FlattenSeq([i \in DOMAIN ids[fn] |->
                         IF ids[fn][i] = Hw(pci_device_list[k]).id
                         THEN <<<<"probe", pci_device_list[k], fn>>>> ELSE <<>>])])
    <3>1. /\ todo # <<>> /\ Head(todo)[1] = "driver" /\ Then(s) /\ machine' = machine
          /\ pci_device_list' = pci_device_list /\ resource' = resource
      BY <2>1 DEF pci_register_driver, At
    <3>2. fn \in Driver /\ pci_device_list \in Seq(Fn)
      BY <3>1, HeadFacts DEF TypeInv
    <3>3. /\ s \in Seq(Op)
          /\ \A x : x \in Range(s) <=> \E k \in 1 .. Len(pci_device_list) :
                       /\ Hw(pci_device_list[k]).id \in Range(ids[fn])
                       /\ x = <<"probe", pci_device_list[k], fn>>
      BY <3>2, DriverWhole DEF Whole
    <3> HIDE DEF s, Op
    <3>4. PICK t \in Seq(Op) : t = s
      BY <3>3
    <3>5. \A x \in Range(t) : x[1] = "probe"
      BY <3>3, <3>4
    <3> QED BY <3>1, <3>4, <3>5 DEF BarOps
  <2>2. CASE pci_probe
    <3>1. /\ todo # <<>> /\ Head(todo)[1] = "probe" /\ Then(Probe(arg, fn)) /\ machine' = machine
          /\ pci_device_list' = pci_device_list /\ resource' = resource
      BY <2>2 DEF pci_probe, At
    <3>2. PICK g \in Fn, e \in Driver : g = fn /\ e = arg
      BY <3>1, HeadFacts
    <3>3. PICK t : t = Probe(e, g)
      OBVIOUS
    <3>4. t \in Seq(Op) /\ \A x \in Range(t) : x[1] \notin Marks \cup BarOps
      BY <3>3, CalmProbe DEF Calm
    <3>5. Then(t)
      BY <3>1, <3>2, <3>3
    <3> QED BY <3>1, <3>4, <3>5 DEF Marks
  <2>3. CASE pci_enable_msix \/ pci_enable_msi \/ ixgbe_reset \/ Fill
    <3>1. PICK t : /\ Calm(t) /\ Then(t) /\ todo # <<>>
                   /\ Head(todo)[1] \in {"msix", "msi", "reset", "fill"}
                   /\ machine' = machine /\ pci_device_list' = pci_device_list
                   /\ probed' = probed /\ end_bus_number' = end_bus_number /\ resource' = resource
      BY <2>3, CalmCalls
    <3> QED BY <3>1 DEF Calm, Marks
  <2> QED BY <2>1, <2>2, <2>3
<1>2. Head(todo)[1] \notin ScanOps \cup {"register"}
  BY <1>1 DEF ScanOps, BarOps
<1> HIDE DEF Op
<1>3. \A f \in Fn : <<"device_init", f>> \in Range(ops) => resource[f] = <<>>
  BY <1>1
<1> QED BY <1>1, <1>2, <1>3, OtherRes

(* The other steps that only take the head of todo away.                     *)
LEMMA PopRes ==
    ASSUME TypeInv, ResInv, Pops, ~CommandOff, ~Ones, ~Back, ~CommandBack, ~BarEnd
    PROVE  ResInv'
<1>1. /\ todo # <<>> /\ Then(<<>>) /\ machine' = machine /\ pci_device_list' = pci_device_list
  BY PopsFacts
<1>2. resource' = resource /\ Head(todo)[1] \notin ScanOps \cup {"register"}
  <2>1. CASE x86_pci_hostbridge_init \/ NumaInit
    BY <2>1 DEF x86_pci_hostbridge_init, NumaInit, At, ScanOps, BarOps
  <2>2. CASE \/ pci_enable_device \/ pci_set_master \/ pci_msix_clear_and_set_ctrl
             \/ pci_msi_set_enable \/ msix_entry_setup \/ msi_entry_setup \/ pci_msi_multiple_enable
    BY <2>2 DEF pci_enable_device, pci_set_master, pci_msix_clear_and_set_ctrl, pci_msi_set_enable,
                msix_entry_setup, msi_entry_setup, pci_msi_multiple_enable, At, ScanOps, BarOps
  <2>3. CASE ResetWait \/ EecWait \/ DmaWait \/ rx_init \/ tx_init \/ Unmask \/ Advance \/ RingTail
    BY <2>3 DEF ResetWait, EecWait, DmaWait, rx_init, tx_init, Unmask, Advance, RingTail, Does, At,
                ScanOps, BarOps
  <2> QED BY <2>1, <2>2, <2>3, Zenon DEF Pops
<1>3. <<>> \in Seq(Op) /\ Range(<<>>) = {}
  BY DEF Range
<1> HIDE DEF Op
<1> QED BY <1>1, <1>2, <1>3, OtherRes

(* Every step keeps what is known of the resources.                          *)
LEMMA NextRes == TypeInv /\ OnceInv /\ DecodeInv /\ ResInv /\ [Next]_vars => ResInv'
<1> SUFFICES ASSUME TypeInv, OnceInv, DecodeInv, ResInv, [Next]_vars PROVE ResInv'
  OBVIOUS
<1>1. ASSUME UNCHANGED pci_vars PROVE ResInv'
  <2>1. machine' = machine /\ todo' = todo /\ resource' = resource /\ pci_device_list' = pci_device_list
        /\ local' = local /\ cfg' = cfg
    BY <1>1 DEF pci_vars
  <2>2. Todo' = Todo
    BY <2>1 DEF Todo
  <2>3. \A f, m, s, r : Phase(f, m, s, r)' = Phase(f, m, s, r)
    BY <2>1, SameScan DEF Phase, Plan, Begun, Known, Right
  <2>4. \A f : Scanning(f)' = Scanning(f)
    BY <2>1, <2>3 DEF Scanning
  <2> QED BY <2>1, <2>2, <2>4, SameScan, SameRight DEF ResInv
<1>2. CASE Pops
  BY <1>2, SizeRes, EndRes, PopRes
<1>3. CASE Beside
  BY <1>1, <1>3, BesideFacts
<1>4. CASE \/ pci_enable_msix \/ pci_enable_msi \/ ixgbe_reset \/ Fill \/ pci_register_driver(ids)
           \/ pci_probe
  BY <1>4, DriverRes
<1>5. CASE pci_scan \/ pci_device_init \/ Bar \/ register_pci_device
  BY <1>5, ScanRes, DeviceRes, BarRes, RegisterRes
<1>6. CASE UNCHANGED <<pci_vars, nic_vars>>
  BY <1>1, <1>6
<1>7. CASE UNCHANGED vars
  BY <1>1, <1>7 DEF vars
<1> QED BY <1>2, <1>3, <1>4, <1>5, <1>6, <1>7, Steps, Zenon

(* Nothing is known before the scan.                                         *)
LEMMA InitRes == Init => ResInv
<1> SUFFICES ASSUME Init PROVE ResInv
  OBVIOUS
<1>1. PICK o \in DriverOrders :
         todo = <<<<"numa">>, <<"hostbridge">>, <<"pci_scan">>, <<"driver", o[1]>>,
                  <<"driver", o[2]>>, <<"driver", o[3]>>>>
  BY InitTodo
<1>2. Todo = {<<"numa">>, <<"hostbridge">>, <<"pci_scan">>, <<"driver", o[1]>>,
              <<"driver", o[2]>>, <<"driver", o[3]>>}
  BY <1>1 DEF Todo, Range
<1>3. /\ resource = [f \in Fn |-> <<>>] /\ pci_device_list = <<>>
  BY DEF Init, PciInit, Fn
<1>4. \A x \in Todo : x[1] \in {"numa", "hostbridge", "pci_scan", "driver"}
  BY <1>2
<1>5. Range(pci_device_list) = {} /\ \A S : <<>> \in Seq(S)
  BY <1>3 DEF Range
<1>6. \A f \in Fn : resource[f] \in Seq(Range(resource[f]))
  BY <1>3, <1>5
<1> QED BY <1>3, <1>4, <1>5, <1>6 DEF ResInv, BarOps

(* ResourcesExact: on any machine that MachinesAssumption describes, the     *)
(* resource of a registered function's memory register is the range that the *)
(* firmware gave the register, and is marked as memory.                      *)
THEOREM ResourcesTheorem == Spec => []ResourcesExact
<1>1. Init => TypeInv /\ OnceInv /\ DecodeInv /\ ResInv
  BY InitType, InitOnce, InitDecode, InitRes
<1>2. TypeInv /\ OnceInv /\ DecodeInv /\ ResInv /\ [Next]_vars => (TypeInv /\ OnceInv /\ DecodeInv /\ ResInv)'
  BY TypeStep, NextOnce, NextDecode, NextRes
<1>3. TypeInv /\ ResInv => ResourcesExact
  <2> SUFFICES ASSUME TypeInv, ResInv, NEW f \in Range(pci_device_list), NEW i \in 0 .. NBar(f) - 1,
                      MemoryBar(f, i)
               PROVE  /\ resource[f][i + 1].start = Start(f, i)
                      /\ resource[f][i + 1].end = resource[f][i + 1].start + Extent(f, i) - 1
                      /\ bit(resource[f][i + 1].flags, 0) = 0
    BY DEF ResourcesExact, Start
  <2>1. f \in Fn
    <3>1. pci_device_list \in Seq(Fn)
      BY DEF TypeInv
    <3> QED BY <3>1 DEF Range
  <2>2. Right(f, i)
    BY <2>1 DEF ResInv
  <2> QED BY <2>2 DEF Right
<1> QED BY <1>1, <1>2, <1>3, PTL DEF Spec
-------------------------------------------------------------------------------
(* The message capabilities.  What may be on todo of one function: the call  *)
(* of a probe, or, at the head, the rest of what the call has become.  Mute  *)
(* steps are about something else.                                           *)
Talk == Two \cup {"msix", "msi"}
Calls(f) == {<<"msix", f>>, <<"msi", f>>}
Silent(x, f) == x[1] \in Talk => x[2] # f
Mute(ops) == ops \in Seq(Op) /\ \A x \in Range(ops) : x[1] \notin Talk
HasMsix(f) == \E k \in DOMAIN Hw(f).caps : Hw(f).caps[k] = "MSIX"

(* Nothing of f's from position e of todo on.                                *)
Still(f, e) == \A k \in DOMAIN todo : k > e => Silent(todo[k], f)
NotOn(f) == cfg[f].msix.on = FALSE /\ cfg[f].msi.on = FALSE

(* No call was made yet; a probe makes one.                                  *)
Fresh(f) ==
    /\ irq_list[f] = <<>> /\ NotOn(f) /\ Once(todo, Calls(f))
    /\ \A k \in DOMAIN todo : todo[k][1] \in Two => todo[k][2] # f

(* MSI-X: m entries of the table are set; o is 1 before the first step.      *)
MsixRun(f, o, m) ==
    LET n == Hw(f).msix_size  e == o + 1 + (n - m) IN
    /\ HasMsix(f) /\ NotOn(f) /\ m <= n /\ e \in DOMAIN todo /\ Still(f, e)
    /\ o = 1 => todo[1] = <<"msix_ctrl", f, FALSE>>
    /\ \A j \in m .. n - 1 : todo[o + 1 + (j - m)] = <<"msix_entry", f, j>>
    /\ todo[e] = <<"msix_ctrl", f, TRUE>>
    /\ Len(irq_list[f]) = m /\ \A j \in 0 .. m - 1 : table[f][j] = irq_list[f][j + 1]

(* MSI, 2^q vectors: r steps are left.                                       *)
Block(f, q) == {cfg[f].msi.data + k : k \in 0 .. 2^q - 1}
MsiRun(f, r, q) ==
    /\ NotOn(f) /\ r \in DOMAIN todo /\ Still(f, r)
    /\ todo[r] = <<"msi_ctrl", f, TRUE>>
    /\ r > 1 => todo[r - 1] = <<"msi_multiple", f, 2^q>>
    /\ r > 2 => todo[r - 2] = <<"msi_entry", f, 2^q>>
    /\ r > 3 => todo[r - 3] = <<"msi_ctrl", f, FALSE>>
    /\ IF r > 2 THEN irq_list[f] = <<>> ELSE Range(irq_list[f]) = Block(f, q)
    /\ r = 1 => cfg[f].msi.order = q
Settled(f) ==
    /\ Still(f, 0)
    /\ cfg[f].msix.on => Range(table[f]) = Range(irq_list[f])
    /\ cfg[f].msi.on => Block(f, cfg[f].msi.order) = Range(irq_list[f])
Stage(f) ==
    \/ Fresh(f) \/ Settled(f)
    \/ \E o \in {0, 1}, m \in Nat : MsixRun(f, o, m)
    \/ \E r \in 1 .. 4, q \in 0 .. 5 : MsiRun(f, r, q)
Msg(f) ==
    /\ irq_list[f] \in Seq(Nat) /\ DOMAIN table[f] = 0 .. Hw(f).msix_size - 1
    /\ "on" \in DOMAIN cfg[f].msix /\ {"on", "data", "order"} \subseteq DOMAIN cfg[f].msi
    /\ probed[f] = <<>> => Fresh(f) /\ Still(f, 0)
    /\ Stage(f)
MsgInv ==
    /\ free_irq \in Nat /\ DOMAIN irq_list = Fn /\ DOMAIN table = Fn
    /\ \A f \in Fn : Msg(f)

(* The table is written only while the function decodes, or will again when  *)
(* the sizing of a register that goes on is over: a probe enables it first.  *)
Mid == {"ones", "command_back"} \cup Backs
On(f) == IF Head1 \in Mid /\ fn = f THEN local.cmd ELSE cfg[f].decode
Enabling(s, p) == \E k \in 1 .. p - 1 : s[k] = <<"enable", s[p][2]>>
OnInv == \A p \in DOMAIN todo : todo[p][1] \in {"msix", "msix_entry"} =>
            On(todo[p][2]) = TRUE \/ Enabling(todo, p)

(* Mute sequences.                                                           *)
LEMMA MuteJoin ==
    ASSUME NEW s, NEW t, Mute(s), Mute(t)
    PROVE  Mute(s \o t)
<1>1. s \in Seq(Op) /\ t \in Seq(Op)
  BY DEF Mute
<1> HIDE DEF Op
<1>2. s \o t \in Seq(Op)
  BY <1>1
<1>3. Range(s \o t) = Range(s) \cup Range(t)
  BY <1>1, RangeConcat
<1> QED BY <1>2, <1>3 DEF Mute

(* The sizing of a register is one, and enables nothing.                     *)
LEMMA MuteSize ==
    ASSUME NEW f \in Fn, NEW i \in Int
    PROVE  /\ Mute(pci_get_bar_size(f, i)) /\ Mute(pci_get_bar_size(f, i) \o <<<<"bar_end", f, i>>>>)
<1> DEFINE s == <<<<"command_off", f>>, <<"ones", f, i>>, <<"back_lo", f, i>>, <<"command_back", f>>>>
           t == <<<<"command_off", f>>, <<"ones", f, i>>, <<"back_lo", f, i>>,
                  <<"ones", f, i + 1>>, <<"back_hi", f, i + 1>>, <<"command_back", f>>>>
           u == <<<<"bar_end", f, i>>>>
<1>1. pci_get_bar_size(f, i) \in {s, t}
  <2>1. CASE bit(read_config(f, i), 2) = 1
    BY <2>1, Tuples6 DEF pci_get_bar_size
  <2>2. CASE bit(read_config(f, i), 2) # 1
    BY <2>2, Tuples4 DEF pci_get_bar_size
  <2> QED BY <2>1, <2>2
<1>2. \A x \in Range(s) : x[1] \in {"command_off", "ones", "back_lo", "command_back"}
  BY DEF Range
<1>3. \A x \in Range(t) : x[1] \in {"command_off", "ones", "back_lo", "back_hi", "command_back"}
  BY DEF Range
<1>4. \A x \in Range(u) : x[1] = "bar_end"
  BY DEF Range
<1>5. u \in Seq(Op)
  <2>1. <<"bar_end", f, i>> \in Op
    BY OpFacts DEF Reg
  <2> QED BY <2>1
<1> HIDE DEF s, t, u
<1>6. Mute(u)
  BY <1>4, <1>5 DEF Mute, Talk, Two
<1>7. \A x \in Range(pci_get_bar_size(f, i)) : x[1] \notin Talk
  BY <1>1, <1>2, <1>3 DEF Talk, Two
<1>8. Mute(pci_get_bar_size(f, i))
  BY <1>7, SizeWhole DEF Mute, Whole
<1> QED BY <1>6, <1>8, MuteJoin DEF u

(* The calls that put only mute steps on todo.                               *)
LEMMA MuteCalls ==
    ASSUME TypeInv, pci_scan \/ pci_device_init \/ Bar \/ register_pci_device
                    \/ pci_register_driver(ids) \/ ixgbe_reset \/ Fill
    PROVE  \E ops : /\ Mute(ops) /\ Then(ops) /\ todo # <<>>
                    /\ Head(todo)[1] \in {"pci_scan", "device_init", "bar", "register", "driver",
                                          "reset", "fill"}
                    /\ UNCHANGED <<machine, local, cfg, table, irq_list, free_irq, probed>>
<1>0. Mute(<<>>)
  BY DEF Mute, Range
<1>1. CASE pci_scan
  <2>1. PICK n \in Nat : Fn = 1 .. n
    BY FnFacts DEF TypeInv
  <2> DEFINE s == FlattenSeq([f \in 1 .. n |-> IF Hw(f).bus <= end_bus_number THEN <<<<"device_init", f>>>> ELSE <<>>])
  <2>2. /\ todo # <<>> /\ Head(todo)[1] = "pci_scan" /\ Then(s)
        /\ UNCHANGED <<machine, local, cfg, table, irq_list, free_irq, probed>>
    BY <1>1, <2>1 DEF pci_scan, At
  <2>3. /\ s \in Seq(Op)
        /\ \A x : x \in Range(s) <=> \E f \in 1 .. n : Hw(f).bus <= end_bus_number /\ x = <<"device_init", f>>
    BY <2>1, ScanWhole DEF Whole
  <2> HIDE DEF s, Op
  <2>4. Mute(s)
    BY <2>3 DEF Mute, Talk, Two
  <2> QED BY <2>2, <2>4
<1>2. CASE pci_device_init
  <2> DEFINE s(f, n) == FlattenSeq([i \in 1 .. n |-> <<<<"bar", f, i - 1>>>>])
                  \o <<<<"command_off", f>>, <<"ones", f, Rom>>, <<"back_lo", f, Rom>>,
                       <<"command_back", f>>, <<"register", f>>>>
  <2>1. /\ todo # <<>> /\ Head(todo)[1] = "device_init" /\ Then(s(fn, NBar(fn)))
        /\ UNCHANGED <<machine, local, cfg, table, irq_list, free_irq, probed>>
    BY <1>2 DEF pci_device_init, At
  <2>2. PICK f \in Fn, n \in Nat : f = fn /\ n = NBar(fn)
    <3>1. fn \in Fn
      BY <2>1, HeadFacts DEF One
    <3> QED BY <3>1 DEF NBar
  <2> DEFINE t == s(f, n)
  <2>3. /\ t \in Seq(Op) /\ Len(t) = n + 5 /\ t[n + 5] = <<"register", f>>
        /\ \A k \in 1 .. n : t[k] = <<"bar", f, k - 1>>
        /\ \A k \in n + 1 .. n + 4 : t[k][1] \in ScanOps
    BY SetupOps
  <2>4. Then(t)
    BY <2>1, <2>2
  <2> HIDE DEF s, t, Op
  <2>5. \A x \in Range(t) : x[1] \in ScanOps \cup {"register"}
    <3>1. ASSUME NEW k \in 1 .. Len(t) PROVE t[k][1] \in ScanOps \cup {"register"}
      <4>1. k \in 1 .. n \/ k \in n + 1 .. n + 4 \/ k = n + 5
        BY <2>3
      <4> QED BY <4>1, <2>3 DEF ScanOps, BarOps
    <3>2. DOMAIN t = 1 .. Len(t)
      BY <2>3
    <3> QED BY <3>1, <3>2 DEF Range
  <2>6. Mute(t)
    BY <2>3, <2>5 DEF Mute, Talk, Two, ScanOps, BarOps
  <2> QED BY <2>1, <2>4, <2>6
<1>3. CASE Bar
  <2>1. /\ todo # <<>> /\ Head(todo)[1] = "bar"
        /\ Then(pci_get_bar_size(fn, arg) \o <<<<"bar_end", fn, arg>>>>)
        /\ UNCHANGED <<machine, local, cfg, table, irq_list, free_irq, probed>>
    BY <1>3 DEF Bar, At
  <2>2. fn \in Fn /\ arg \in Int
    BY <2>1, HeadFacts DEF Reg
  <2>3. Mute(pci_get_bar_size(fn, arg) \o <<<<"bar_end", fn, arg>>>>)
    BY <2>2, MuteSize
  <2> QED BY <2>1, <2>3
<1>4. CASE register_pci_device
  BY <1>0, <1>4 DEF register_pci_device, At
<1>5. CASE pci_register_driver(ids)
  <2> DEFINE s == FlattenSeq([k \in DOMAIN pci_device_list |->
                     FlattenSeq([i \in DOMAIN ids[fn] |->
                       IF ids[fn][i] = Hw(pci_device_list[k]).id
                       THEN <<<<"probe", pci_device_list[k], fn>>>> ELSE <<>>])])
  <2>1. /\ todo # <<>> /\ Head(todo)[1] = "driver" /\ Then(s)
        /\ UNCHANGED <<machine, local, cfg, table, irq_list, free_irq, probed>>
    BY <1>5 DEF pci_register_driver, At
  <2>2. fn \in Driver /\ pci_device_list \in Seq(Fn)
    BY <2>1, HeadFacts DEF TypeInv
  <2>3. /\ s \in Seq(Op)
        /\ \A x : x \in Range(s) <=> \E k \in 1 .. Len(pci_device_list) :
                     /\ Hw(pci_device_list[k]).id \in Range(ids[fn])
                     /\ x = <<"probe", pci_device_list[k], fn>>
    BY <2>2, DriverWhole DEF Whole
  <2> HIDE DEF s, Op
  <2>4. Mute(s)
    BY <2>3 DEF Mute, Talk, Two
  <2> QED BY <2>1, <2>4
<1>6. CASE ixgbe_reset
  <2>1. /\ todo # <<>> /\ Head(todo)[1] = "reset"
        /\ Then(<<<<"reset_wait", fn>>, <<"eec_wait", fn>>, <<"dma_wait", fn>>>>)
        /\ UNCHANGED <<machine, local, cfg, table, irq_list, free_irq, probed>>
    BY <1>6 DEF ixgbe_reset, Does, At
  <2>2. PICK f \in Fn : f = fn
    BY <2>1, HeadFacts DEF One
  <2> DEFINE s == <<<<"reset_wait", f>>, <<"eec_wait", f>>, <<"dma_wait", f>>>>
  <2>3. \A x \in Range(s) : x[1] \in {"reset_wait", "eec_wait", "dma_wait"}
    BY DEF Range
  <2>4. Mute(s)
    BY <2>3, CalmCard DEF Mute, Calm, Talk, Two
  <2> QED BY <2>1, <2>2, <2>4
<1>7. CASE Fill
  <2>1. /\ todo # <<>> /\ Head(todo)[1] = "fill"
        /\ Then(<<<<"advance", fn>>, <<"ring", fn>>, <<"fill", fn>>>>)
        /\ UNCHANGED <<machine, local, cfg, table, irq_list, free_irq, probed>>
    BY <1>7 DEF Fill, Does, At
  <2>2. PICK f \in Fn : f = fn
    BY <2>1, HeadFacts DEF One
  <2> DEFINE s == <<<<"advance", f>>, <<"ring", f>>, <<"fill", f>>>>
  <2>3. \A x \in Range(s) : x[1] \in {"advance", "ring", "fill"}
    BY DEF Range
  <2>4. Mute(s)
    BY <2>3, CalmCard DEF Mute, Calm, Talk, Two
  <2> QED BY <2>1, <2>2, <2>4
<1> QED BY <1>1, <1>2, <1>3, <1>4, <1>5, <1>6, <1>7
(* Which functions decode, when a step goes.                                 *)
LEMMA PopDecodes ==
    ASSUME TypeInv, DecodeInv, Pops, ~CommandOff, ~Ones, ~Back, ~CommandBack, NEW f \in Fn
    PROVE  /\ Head1 \notin {"command_off"} \cup Mid
           /\ cfg'[f].decode = cfg[f].decode \/ cfg'[f].decode = TRUE
           /\ Head(todo) = <<"enable", f>> => cfg'[f].decode = TRUE
<1>0. DOMAIN cfg = Fn /\ \A g \in Fn : {"decode", "master", "bar", "msi", "msix"} \subseteq DOMAIN cfg[g]
  BY DEF DecodeInv, CfgInv
<1>1. CASE pci_enable_device
  <2>1. Head(todo)[1] = "enable" /\ Head1 = "enable" /\ cfg' = [cfg EXCEPT ![fn].decode = TRUE]
    BY <1>1 DEF pci_enable_device, At, Head1
  <2>2. Head(todo) = <<"enable", f>> => fn = f
    BY DEF fn
  <2> QED BY <1>0, <2>1, <2>2 DEF Mid, Backs
<1>2. CASE pci_set_master
  <2>1. Head(todo)[1] = "master" /\ Head1 = "master" /\ cfg' = [cfg EXCEPT ![fn].master = TRUE]
    BY <1>2 DEF pci_set_master, At, Head1
  <2> QED BY <1>0, <2>1 DEF Mid, Backs
<1>3. CASE pci_msix_clear_and_set_ctrl
  <2>1. Head(todo)[1] = "msix_ctrl" /\ Head1 = "msix_ctrl" /\ cfg' = [cfg EXCEPT ![fn].msix.on = arg]
    BY <1>3 DEF pci_msix_clear_and_set_ctrl, At, Head1
  <2> QED BY <1>0, <2>1 DEF Mid, Backs
<1>4. CASE pci_msi_set_enable
  <2>1. Head(todo)[1] = "msi_ctrl" /\ Head1 = "msi_ctrl" /\ cfg' = [cfg EXCEPT ![fn].msi.on = arg]
    BY <1>4 DEF pci_msi_set_enable, At, Head1
  <2> QED BY <1>0, <2>1 DEF Mid, Backs
<1>5. CASE msi_entry_setup
  <2>1. Head(todo)[1] = "msi_entry" /\ Head1 = "msi_entry" /\ cfg' = [cfg EXCEPT ![fn].msi.data = Aligned(arg)]
    BY <1>5 DEF msi_entry_setup, At, Head1
  <2> QED BY <1>0, <2>1 DEF Mid, Backs
<1>6. CASE pci_msi_multiple_enable
  <2>1. /\ Head(todo)[1] = "msi_multiple" /\ Head1 = "msi_multiple"
        /\ cfg' = [cfg EXCEPT ![fn].msi.order = Order(arg)]
    BY <1>6 DEF pci_msi_multiple_enable, At, Head1
  <2> QED BY <1>0, <2>1 DEF Mid, Backs
<1>7. CASE \/ x86_pci_hostbridge_init \/ BarEnd \/ msix_entry_setup \/ NumaInit
           \/ ResetWait \/ EecWait \/ DmaWait \/ rx_init \/ tx_init \/ Unmask \/ Advance \/ RingTail
  BY <1>7 DEF x86_pci_hostbridge_init, BarEnd, msix_entry_setup, NumaInit, ResetWait, EecWait,
              DmaWait, rx_init, tx_init, Unmask, Advance, RingTail, Does, At, Head1, Mid, Backs
<1> QED BY <1>1, <1>2, <1>3, <1>4, <1>5, <1>6, <1>7, Zenon DEF Pops

(* A function that decodes, but for the sizing of a register that goes on,   *)
(* still does after a step, and does after it was enabled.                   *)
LEMMA OnPop ==
    ASSUME TypeInv, DecodeInv, Pops, NEW f \in Fn, On(f) = TRUE \/ Head(todo) = <<"enable", f>>
    PROVE  (On(f) = TRUE)'
<1>0. /\ todo # <<>> /\ Then(<<>>) /\ machine' = machine
      /\ DOMAIN cfg = Fn /\ \A g \in Fn : {"decode", "master", "bar", "msi", "msix"} \subseteq DOMAIN cfg[g]
      /\ {"cmd", "ori", "lo", "hi"} \subseteq DOMAIN local
  BY PopsFacts DEF DecodeInv, CfgInv
<1>9. /\ todo' # <<>> => Link(Head(todo), Head(todo'))
      /\ Head(todo)[1] \in Opening => todo' # <<>>
  BY <1>0, NextHead
<1>1. CASE CommandOff
  <2>1. /\ Head(todo)[1] = "command_off" /\ local' = [local EXCEPT !.cmd = cfg[fn].decode, !.hi = AllOnes]
        /\ cfg' = [cfg EXCEPT ![fn].decode = FALSE]
    BY <1>1 DEF CommandOff, At
  <2>2. Head1' = "ones" /\ fn' = fn
    BY <1>0, <1>9, <2>1 DEF Link, Head1, fn, Opening
  <2>3. On(f) = cfg[f].decode /\ cfg[f].decode = TRUE
    BY <1>0, <2>1 DEF On, Head1, Mid, Backs
  <2>4. fn = f => local'.cmd = TRUE
    BY <1>0, <2>1, <2>3
  <2>5. fn # f => cfg'[f].decode = TRUE
    BY <1>0, <2>1, <2>3
  <2> QED BY <2>2, <2>4, <2>5 DEF On, Mid
<1>2. CASE Ones
  <2>1. /\ Head(todo)[1] = "ones" /\ local' = [local EXCEPT !.ori = read_config(fn, arg)]
        /\ cfg' = [cfg EXCEPT ![fn].bar[arg] = Held(fn, arg, AllOnes)]
    BY <1>2 DEF Ones, At, write_config
  <2>2. Head1' \in Backs /\ fn' = fn
    BY <1>0, <1>9, <2>1 DEF Link, Head1, fn, Opening
  <2>3. local'.cmd = local.cmd /\ cfg'[f].decode = cfg[f].decode
    BY <1>0, <2>1
  <2>4. Head1 \in Mid /\ Head1' \in Mid
    BY <1>0, <2>1, <2>2 DEF Head1, Mid
  <2>5. On(f) = TRUE
    BY <2>1
  <2> QED BY <2>2, <2>3, <2>4, <2>5 DEF On
<1>3. CASE Back
  <2>1. /\ Head(todo)[1] \in Backs /\ cfg' = [cfg EXCEPT ![fn].bar[arg] = Held(fn, arg, local.ori)]
    BY <1>3 DEF Back, At, write_config, Backs
  <2>2. \/ local' = [local EXCEPT !.lo = [size |-> read_config(fn, arg), ori |-> local.ori]]
        \/ local' = [local EXCEPT !.hi = read_config(fn, arg)]
    BY <1>3 DEF Back
  <2>3. Head1' \in {"ones", "command_back"} /\ fn' = fn
    BY <1>0, <1>9, <2>1 DEF Link, Head1, fn, Opening, Backs
  <2>4. local'.cmd = local.cmd /\ cfg'[f].decode = cfg[f].decode
    BY <1>0, <2>1, <2>2
  <2>5. Head1 \in Mid /\ Head1' \in Mid
    BY <1>0, <2>1, <2>3 DEF Head1, Mid
  <2>6. On(f) = TRUE
    BY <2>1 DEF Backs
  <2> QED BY <2>3, <2>4, <2>5, <2>6 DEF On
<1>4. CASE CommandBack
  <2>1. Head(todo)[1] = "command_back" /\ cfg' = [cfg EXCEPT ![fn].decode = local.cmd]
    BY <1>4 DEF CommandBack, At
  <2>2. Head1' \notin Mid
    BY <1>0, <1>9, <2>1 DEF Link, Head1, Mid, Backs
  <2>3. Head1 \in Mid
    BY <1>0, <2>1 DEF Head1, Mid
  <2>4. On(f) = TRUE
    BY <2>1
  <2>5. fn = f => cfg'[f].decode = TRUE
    BY <1>0, <2>1, <2>3, <2>4 DEF On
  <2>6. fn # f => cfg'[f].decode = TRUE
    BY <1>0, <2>1, <2>4 DEF On
  <2> QED BY <2>2, <2>5, <2>6 DEF On
<1>5. CASE ~CommandOff /\ ~Ones /\ ~Back /\ ~CommandBack
  <2>1. /\ Head1 \notin {"command_off"} \cup Mid
        /\ cfg'[f].decode = cfg[f].decode \/ cfg'[f].decode = TRUE
        /\ Head(todo) = <<"enable", f>> => cfg'[f].decode = TRUE
    BY <1>5, PopDecodes
  <2>2. Head1' \notin Mid
    BY <1>0, <1>9, <2>1 DEF Link, Head1, Mid, Backs
  <2>3. cfg'[f].decode = TRUE
    BY <2>1 DEF On
  <2> QED BY <2>2, <2>3 DEF On
<1> QED BY <1>1, <1>2, <1>3, <1>4, <1>5

(* A call does not begin in the middle of a sizing.                          *)
LEMMA CallOn ==
    ASSUME TypeInv, NEW f \in Fn, UNCHANGED <<cfg, local>>, Head1 \notin Mid,
           \/ pci_scan \/ pci_device_init \/ Bar \/ register_pci_device \/ pci_enable_msix
           \/ pci_enable_msi \/ pci_register_driver(ids) \/ pci_probe \/ ixgbe_reset \/ Fill
    PROVE  On(f)' = On(f)
<1>1. Head1' \notin Mid
  <2>1. CASE Fill
    BY <2>1, FillType DEF Head1, Mid, Backs
  <2>2. CASE ~Fill
    <3>1. TypeInv' /\ Starts(todo')
      BY <2>2, PushesType
    <3>2. CASE todo' = <<>>
      BY <3>2 DEF Head1, Mid, Backs
    <3>3. CASE todo' # <<>>
      <4>1. todo' \in Seq(Op')
        BY <3>1 DEF TypeInv, TodoInv
      <4>2. Head(todo') = todo'[1]
        <5> HIDE DEF Op
        <5> QED BY <4>1, <3>3
      <4> QED BY <3>1, <3>3, <4>2 DEF Starts, Head1, Mid, Backs, Closing
    <3> QED BY <3>2, <3>3
  <2> QED BY <2>1, <2>2
<1> QED BY <1>1 DEF On
(* What a step puts on todo is enabled there or before, and what stays was.  *)
LEMMA OnStep ==
    ASSUME TypeInv, OnInv, todo # <<>>, NEW ops \in Seq(Op), Then(ops),
           \A f \in Fn : On(f) = TRUE \/ Head(todo) = <<"enable", f>> => On(f)' = TRUE,
           \A p \in 1 .. Len(ops) : ops[p][1] \in {"msix", "msix_entry"} =>
              Enabling(ops, p) \/ \E f \in Fn : ops[p][2] = f /\ On(f)' = TRUE
    PROVE  OnInv'
<1>1. /\ Len(todo) \in Nat \ {0} /\ DOMAIN todo = 1 .. Len(todo) /\ Head(todo) = todo[1]
      /\ Len(ops) \in Nat
      /\ DOMAIN todo' = 1 .. Len(ops) + Len(todo) - 1
      /\ \A k \in 1 .. Len(ops) : todo'[k] = ops[k]
      /\ \A k \in 2 .. Len(todo) : todo'[Len(ops) + k - 1] = todo[k]
      /\ \A k \in DOMAIN todo' : k \in 1 .. Len(ops) \/ k - Len(ops) + 1 \in 2 .. Len(todo)
  <2> HIDE DEF Op
  <2> QED BY Positions
<1>2. \A k \in 1 .. Len(todo) : todo[k][1] \in One \cup Two => todo[k][2] \in Fn
  <2>1. todo \in Seq(Op)
    BY DEF TypeInv, TodoInv
  <2> HIDE DEF Op
  <2>2. \A k \in 1 .. Len(todo) : todo[k] \in Op
    BY <2>1
  <2> QED BY <2>2, OpParts
<1> HIDE DEF Op
<1>3. SUFFICES ASSUME NEW p \in DOMAIN todo', todo'[p][1] \in {"msix", "msix_entry"}
               PROVE  \/ \E f \in Fn : todo'[p][2] = f /\ On(f)' = TRUE
                      \/ \E k \in 1 .. p - 1 : todo'[k] = <<"enable", todo'[p][2]>>
  BY DEF OnInv, Enabling
<1>4. CASE p \in 1 .. Len(ops)
  <2>1. todo'[p] = ops[p]
    BY <1>1, <1>4
  <2>2. \A k \in 1 .. p - 1 : todo'[k] = ops[k]
    BY <1>1, <1>4
  <2> QED BY <1>3, <1>4, <2>1, <2>2 DEF Enabling
<1>5. CASE p - Len(ops) + 1 \in 2 .. Len(todo)
  <2>1. PICK q \in 2 .. Len(todo) : q = p - Len(ops) + 1 /\ p = Len(ops) + q - 1
    BY <1>1, <1>5
  <2>2. todo'[p] = todo[q] /\ todo[q][1] \in {"msix", "msix_entry"} /\ q \in 1 .. Len(todo)
    BY <1>1, <1>3, <2>1
  <2>3. PICK f \in Fn : f = todo[q][2]
    BY <1>2, <2>2 DEF One, Two
  <2>4. CASE On(f) = TRUE
    BY <2>2, <2>3, <2>4
  <2>5. CASE On(f) # TRUE
    <3>1. PICK k \in 1 .. q - 1 : todo[k] = <<"enable", f>>
      BY <1>1, <2>2, <2>3, <2>5 DEF OnInv, Enabling
    <3>2. CASE k = 1
      <4>2. Head(todo) = <<"enable", f>>
        BY <1>1, <3>1, <3>2
      <4>1. On(f)' = TRUE
        BY <4>2
      <4> QED BY <2>2, <2>3, <4>1
    <3>3. CASE k # 1
      <4>1. /\ k \in 2 .. Len(todo) /\ todo'[Len(ops) + k - 1] = todo[k]
            /\ Len(ops) + k - 1 \in 1 .. p - 1
        BY <1>1, <2>1, <3>1, <3>3, SMTT(30)
      <4> QED BY <2>2, <2>3, <3>1, <4>1
    <3> QED BY <3>2, <3>3
  <2> QED BY <2>4, <2>5
<1> QED BY <1>1, <1>4, <1>5

(* A sequence in which each function is enabled before it is set up.         *)
Ready(s) == \A p \in 1 .. Len(s) : s[p][1] \in {"msix", "msix_entry"} => Enabling(s, p)

(* One that sets up none is; so are two such ones, and one that only sets up *)
(* functions that the one before it has enabled.                             *)
LEMMA ReadyJoin ==
    ASSUME NEW s, NEW t, s \in Seq(Op), Ready(s), t \in Seq(Op),
           \/ Ready(t)
           \/ \A x \in Range(t) : x[1] \in {"msix", "msix_entry"} => <<"enable", x[2]>> \in Range(s)
    PROVE  Ready(s \o t)
<1> HIDE DEF Op
<1>1. /\ s \o t \in Seq(Op) /\ Len(s \o t) = Len(s) + Len(t) /\ Len(s) \in Nat /\ Len(t) \in Nat
      /\ \A k \in 1 .. Len(s) : (s \o t)[k] = s[k]
      /\ \A k \in 1 .. Len(t) : (s \o t)[Len(s) + k] = t[k]
      /\ \A k \in 1 .. Len(s) + Len(t) : k \in 1 .. Len(s) \/ k - Len(s) \in 1 .. Len(t)
  BY ConcatFacts
<1>2. DOMAIN s = 1 .. Len(s) /\ DOMAIN t = 1 .. Len(t)
  OBVIOUS
<1>3. PICK u : u = s \o t
  OBVIOUS
<1>4. ASSUME NEW p \in 1 .. Len(s) + Len(t), u[p][1] \in {"msix", "msix_entry"}
      PROVE  \E k \in 1 .. p - 1 : u[k] = <<"enable", u[p][2]>>
  <2>1. CASE p \in 1 .. Len(s)
    <3>1. PICK k \in 1 .. p - 1 : s[k] = <<"enable", s[p][2]>>
      BY <1>1, <1>3, <1>4, <2>1 DEF Ready, Enabling
    <3>2. u[k] = s[k] /\ u[p] = s[p]
      BY <1>1, <1>3, <2>1
    <3> QED BY <3>1, <3>2
  <2>2. CASE p - Len(s) \in 1 .. Len(t)
    <3>1. PICK q \in 1 .. Len(t) : q = p - Len(s) /\ p = Len(s) + q
      BY <1>1, <2>2
    <3>2. u[p] = t[q] /\ t[q] \in Range(t)
      BY <1>1, <1>2, <1>3, <3>1 DEF Range
    <3>3. CASE Ready(t)
      <4>1. PICK k \in 1 .. q - 1 : t[k] = <<"enable", t[q][2]>>
        BY <1>4, <3>2, <3>3 DEF Ready, Enabling
      <4>3. k \in 1 .. Len(t)
        BY <1>1, <3>1, <4>1
      <4>4. Len(s) + k \in 1 .. p - 1
        BY <1>1, <3>1, <4>1
      <4>2. u[Len(s) + k] = t[k] /\ Len(s) + k \in 1 .. p - 1
        BY <1>1, <1>3, <4>3, <4>4
      <4> QED BY <3>2, <4>1, <4>2
    <3>4. CASE \A x \in Range(t) : x[1] \in {"msix", "msix_entry"} => <<"enable", x[2]>> \in Range(s)
      <4>1. <<"enable", t[q][2]>> \in Range(s)
        BY <1>4, <3>2, <3>4
      <4>2. PICK k \in 1 .. Len(s) : s[k] = <<"enable", t[q][2]>>
        BY <1>2, <4>1 DEF Range
      <4>3. u[k] = s[k] /\ k \in 1 .. p - 1
        BY <1>1, <1>3, <3>1, <4>2
      <4> QED BY <3>2, <4>2, <4>3
    <3> QED BY <3>3, <3>4
  <2> QED BY <1>1, <2>1, <2>2
<1> QED BY <1>1, <1>3, <1>4 DEF Ready, Enabling

(* A mute sequence sets up none.                                             *)
LEMMA MuteReady ==
    ASSUME NEW s, Mute(s)
    PROVE  Ready(s)
<1>1. s \in Seq(Op) /\ \A x \in Range(s) : x[1] \notin Talk
  BY DEF Mute
<1> HIDE DEF Op
<1>2. \A p \in 1 .. Len(s) : s[p] \in Range(s)
  BY <1>1 DEF Range
<1> QED BY <1>1, <1>2 DEF Ready, Talk, Two
(* A probe enables the function before it sets up its messages, for which it *)
(* makes one call, about its own function.                                   *)
LEMMA ProbeReady ==
    ASSUME NEW f \in Fn, NEW d \in Driver
    PROVE  /\ Ready(Probe(d, f)) /\ Once(Probe(d, f), Calls(f))
           /\ \A x \in Range(Probe(d, f)) : x[1] \in Talk => x \in Calls(f)
<1> DEFINE Good(s) == /\ s \in Seq(Op) /\ Ready(s) /\ Once(s, Calls(f))
                      /\ \A x \in Range(s) : x[1] \in Talk => x \in Calls(f)
           a == <<<<"enable", f>>, <<"master", f>>>>
           b == <<<<"msix", f>>>>
           c == <<<<"msi", f>>>>
           e == <<<<"enable", f>>, <<"reset", f>>, <<"master", f>>, <<"msix", f>>,
                  <<"rx_init", f>>, <<"tx_init", f>>, <<"unmask", f>>, <<"fill", f>>>>
<1>1. d \in {"xhci", "nvidia", "x550"}
  BY DEF Driver, ids
<1>2. /\ <<"enable", f>> \in Op /\ <<"master", f>> \in Op /\ <<"msix", f>> \in Op /\ <<"msi", f>> \in Op
      /\ <<"reset", f>> \in Op /\ <<"rx_init", f>> \in Op /\ <<"tx_init", f>> \in Op
      /\ <<"unmask", f>> \in Op /\ <<"fill", f>> \in Op
  BY OpFacts DEF One
<1>3. a \in Seq(Op) /\ b \in Seq(Op) /\ c \in Seq(Op) /\ e \in Seq(Op)
  BY <1>2
<1>4. /\ \A x \in Range(a) : x[1] \in {"enable", "master"}
      /\ \A x \in Range(b) : x = <<"msix", f>>
      /\ \A x \in Range(c) : x = <<"msi", f>>
      /\ \A x \in Range(e) : x[1] \in {"enable", "reset", "master", "rx_init", "tx_init", "unmask", "fill"}
                             \/ x = <<"msix", f>>
      /\ <<"enable", f>> \in Range(a)
  BY DEF Range
<1>5. Mute(a)
  BY <1>3, <1>4 DEF Mute, Talk, Two
<1>6. ASSUME NEW s, Mute(s)
      PROVE  Good(s) /\ Range(s) \cap Calls(f) = {}
  <2>1. s \in Seq(Op) /\ Ready(s) /\ \A x \in Range(s) : x[1] \notin Talk
    BY <1>6, MuteReady DEF Mute
  <2>2. Range(s) \cap Calls(f) = {}
    BY <2>1 DEF Calls, Talk
  <2> QED BY <2>1, <2>2, OnceNone
<1>7. /\ <<"msix", f>> \in Calls(f) /\ <<"msi", f>> \in Calls(f) /\ \A x \in Calls(f) : x[1] \in {"msix", "msi"}
      /\ \A x \in Calls(f) : x[1] \in Talk
  BY DEF Calls, Talk
<1>8. \A i \in {0, 1, 3} : Mute(pci_get_bar_size(f, i))
  <2>1. \A i \in {0, 1, 3} : i \in Int
    OBVIOUS
  <2> QED BY <2>1, MuteSize
<1>9. ASSUME NEW s, NEW t, Good(s), t \in Seq(Op), Range(s) \cap Calls(f) = {}, Once(t, Calls(f)),
             \A x \in Range(t) : x[1] \in Talk => x \in Calls(f),
             Ready(t) \/ <<"enable", f>> \in Range(s)
      PROVE  Good(s \o t)
  <2>1. Range(s \o t) = Range(s) \cup Range(t)
    BY <1>9, RangeConcat
  <2>2. \A x \in Range(t) : x[1] \in {"msix", "msix_entry"} => x[2] = f
    BY <1>9 DEF Talk, Two, Calls
  <2>3. Ready(s \o t)
    <3> HIDE DEF Op
    <3> QED BY <1>9, <2>2, ReadyJoin
  <2>4. Once(s \o t, Calls(f))
    <3> HIDE DEF Op
    <3> QED BY <1>9, OnceConcat
  <2>5. s \o t \in Seq(Op)
    <3> HIDE DEF Op
    <3> QED BY <1>9
  <2> QED BY <1>9, <2>1, <2>3, <2>4, <2>5
<1>10. Once(b, Calls(f)) /\ Once(c, Calls(f)) /\ Ready(c)
  <2>1. DOMAIN b = {1} /\ DOMAIN c = {1} /\ Len(c) = 1 /\ c[1] = <<"msi", f>>
    OBVIOUS
  <2> HIDE DEF b, c
  <2> QED BY <2>1 DEF Once, Ready
<1>11. Once(e, Calls(f)) /\ Ready(e)
  <2>1. /\ DOMAIN e = 1 .. 8 /\ Len(e) = 8 /\ e[1] = <<"enable", f>> /\ e[4] = <<"msix", f>>
        /\ \A k \in 1 .. 8 : k # 4 => e[k][1] \in {"enable", "reset", "master", "rx_init", "tx_init", "unmask", "fill"}
    OBVIOUS
  <2> HIDE DEF e
  <2> QED BY <2>1, <1>7 DEF Once, Ready, Enabling
<1>12. CASE d = "xhci"
  <2>1. PICK s : s = pci_get_bar_size(f, 0)
    OBVIOUS
  <2>2. Probe(d, f) = a \o s \o s \o b /\ Mute(s)
    BY <1>8, <1>12, <2>1 DEF Probe
  <2> HIDE DEF Good, a, b, c, e
  <2>3. Mute(a \o s) /\ Mute((a \o s) \o s)
    BY <1>5, <2>2, MuteJoin
  <2>4. <<"enable", f>> \in Range((a \o s) \o s)
    <3>1. s \in Seq(Op) /\ a \o s \in Seq(Op)
      BY <2>2, <2>3 DEF Mute
    <3> HIDE DEF Op
    <3>2. Range(a \o s) = Range(a) \cup Range(s) /\ Range((a \o s) \o s) = Range(a \o s) \cup Range(s)
      BY <1>3, <3>1, RangeConcat, ZenonT(40)
    <3> QED BY <1>4, <3>2
  <2>5. Good((a \o s) \o s \o b)
    BY <1>3, <1>4, <1>6, <1>7, <1>9, <1>10, <2>3, <2>4
  <2> QED BY <2>2, <2>5 DEF Good
<1>13. CASE d = "nvidia"
  <2>1. PICK s, t, u : s = pci_get_bar_size(f, 0) /\ t = pci_get_bar_size(f, 1) /\ u = pci_get_bar_size(f, 3)
    OBVIOUS
  <2>2. Probe(d, f) = a \o s \o c \o t \o u /\ Mute(s) /\ Mute(t) /\ Mute(u)
    BY <1>8, <1>13, <2>1 DEF Probe
  <2> HIDE DEF Good, a, b, c, e
  <2>3. Mute(a \o s)
    BY <1>5, <2>2, MuteJoin
  <2>4. Good((a \o s) \o c)
    BY <1>3, <1>4, <1>6, <1>7, <1>9, <1>10, <2>3
  <2>5. ASSUME NEW v, NEW w, Good(v), Mute(w) PROVE Good(v \o w)
    <3>1. v \in Seq(Op) /\ w \in Seq(Op) /\ Ready(v) /\ Ready(w) /\ Range(w) \cap Calls(f) = {}
          /\ Once(v, Calls(f)) /\ Once(w, Calls(f))
      BY <1>6, <2>5 DEF Good
    <3>2. Range(v \o w) = Range(v) \cup Range(w)
      BY <3>1, RangeConcat
    <3>3. v \o w \in Seq(Op) /\ Ready(v \o w) /\ Once(v \o w, Calls(f))
      <4> HIDE DEF Op
      <4> QED BY <3>1, ReadyJoin, OnceConcat
    <3> QED BY <1>6, <2>5, <3>2, <3>3 DEF Good
  <2>6. Good((((a \o s) \o c) \o t) \o u)
    BY <2>2, <2>4, <2>5
  <2> QED BY <2>2, <2>6 DEF Good
<1>14. CASE d = "x550"
  <2>1. PICK s : s = pci_get_bar_size(f, 0)
    OBVIOUS
  <2>2. Probe(d, f) = s \o e /\ Mute(s)
    BY <1>8, <1>14, <2>1 DEF Probe
  <2>3. \A x \in Range(e) : x[1] \in Talk => x \in Calls(f)
    BY <1>4, <1>7 DEF Talk, Two
  <2> HIDE DEF Good, a, b, c, e
  <2>4. Good(s \o e)
    BY <1>3, <1>6, <1>9, <1>11, <2>2, <2>3
  <2> QED BY <2>2, <2>4 DEF Good
<1> QED BY <1>1, <1>12, <1>13, <1>14
(* What the call for MSI-X becomes.                                          *)
LEMMA MsixCall ==
    ASSUME TypeInv, pci_enable_msix
    PROVE  \E f \in Fn, ops \in Seq(Op) :
              /\ todo # <<>> /\ Head(todo) = <<"msix", f>> /\ Then(ops)
              /\ UNCHANGED <<machine, local, cfg, table, irq_list, free_irq, probed>>
              /\ \/ ops = <<<<"msi", f>>>>
                 \/ LET n == Hw(f).msix_size IN
                    /\ HasMsix(f) /\ n \in Nat /\ Len(ops) = n + 2
                    /\ ops[1] = <<"msix_ctrl", f, FALSE>> /\ ops[n + 2] = <<"msix_ctrl", f, TRUE>>
                    /\ \A k \in 1 .. n : ops[k + 1] = <<"msix_entry", f, k - 1>>
<1> DEFINE S(f, n) == IF n < 0 THEN <<<<"msi", f>>>>
                      ELSE <<<<"msix_ctrl", f, FALSE>>>>
                           \o [k \in 1 .. n |-> <<"msix_entry", f, k - 1>>]
                           \o <<<<"msix_ctrl", f, TRUE>>>>
<1>1. /\ todo # <<>> /\ Head(todo)[1] = "msix" /\ Then(S(fn, pci_msix_vec_count(fn)))
      /\ UNCHANGED <<machine, local, cfg, table, irq_list, free_irq, probed>>
  BY DEF pci_enable_msix, At
<1>2. PICK f \in Fn : f = fn /\ Head(todo) = <<"msix", f>>
  <2>1. Head(todo) \in Op
    BY <1>1, HeadFacts
  <2> HIDE DEF Op
  <2> QED BY <1>1, <2>1, OpParts DEF One, fn
<1>3. Hw(f).msix_size \in Nat
  BY FnFacts DEF TypeInv
<1>4. PICK n \in Int : /\ n = pci_msix_vec_count(f)
                       /\ n < 0 \/ (n = Hw(f).msix_size /\ HasMsix(f))
  <2>1. pci_find_capability(f, "MSIX") # 0 => HasMsix(f)
    BY DEF pci_find_capability, HasMsix
  <2> QED BY <1>3, <2>1 DEF pci_msix_vec_count
<1>5. Whole(S(f, n))
  BY MsixWhole
<1>6. PICK ops \in Seq(Op) : ops = S(f, n)
  BY <1>5 DEF Whole
<1>7. CASE n < 0
  BY <1>1, <1>2, <1>4, <1>6, <1>7
<1>8. CASE ~(n < 0)
  <2>0. n \in Nat /\ n = Hw(f).msix_size /\ HasMsix(f)
    BY <1>4, <1>8
  <2> DEFINE q == <<<<"msix_ctrl", f, FALSE>>>>
             r == [k \in 1 .. n |-> <<"msix_entry", f, k - 1>>]
             s == <<<<"msix_ctrl", f, TRUE>>>>
  <2>1. ops = q \o r \o s
    BY <1>6, <1>8
  <2>2. q \in Seq(Op) /\ r \in Seq(Op) /\ s \in Seq(Op)
    <3>1. <<"msix_ctrl", f, FALSE>> \in Op /\ <<"msix_ctrl", f, TRUE>> \in Op
      BY OpFacts, ArgFacts DEF Two
    <3>2. \A k \in 1 .. n : <<"msix_entry", f, k - 1>> \in Op
      BY OpFacts, ArgFacts DEF Two
    <3> HIDE DEF Op
    <3>3. q \in Seq(Op) /\ s \in Seq(Op)
      BY <3>1
    <3>4. PICK m \in Nat : m = n
      BY <2>0
    <3>5. [k \in 1 .. m |-> <<"msix_entry", f, k - 1>>] \in Seq(Op)
      BY <3>2, <3>4
    <3> QED BY <3>3, <3>4, <3>5
  <2>3. /\ Len(q) = 1 /\ Len(r) = n /\ Len(s) = 1 /\ q[1] = <<"msix_ctrl", f, FALSE>>
        /\ s[1] = <<"msix_ctrl", f, TRUE>> /\ \A k \in 1 .. n : r[k] = <<"msix_entry", f, k - 1>>
    <3>1. PICK m \in Nat : m = n
      BY <2>0
    <3>2. Len([k \in 1 .. m |-> <<"msix_entry", f, k - 1>>]) = m
      OBVIOUS
    <3>3. Len(r) = n
      BY <3>1, <3>2
    <3>4. \A k \in 1 .. n : r[k] = <<"msix_entry", f, k - 1>>
      OBVIOUS
    <3> QED BY <3>3, <3>4
  <2> HIDE DEF q, r, s, Op
  <2>4. /\ q \o r \in Seq(Op) /\ Len(q \o r) = n + 1 /\ (q \o r)[1] = q[1]
        /\ \A k \in 1 .. n : (q \o r)[k + 1] = r[k]
    <3>1. /\ q \o r \in Seq(Op) /\ Len(q \o r) = Len(q) + Len(r)
          /\ \A k \in 1 .. Len(q) : (q \o r)[k] = q[k]
          /\ \A k \in 1 .. Len(r) : (q \o r)[Len(q) + k] = r[k]
      BY <2>2, ConcatFacts
    <3>2. \A k \in 1 .. n : 1 + k = k + 1
      BY <2>0
    <3>3. \A k \in 1 .. n : (q \o r)[k + 1] = r[k]
      BY <2>3, <3>1, <3>2
    <3>4. 1 \in 1 .. Len(q) /\ Len(q) + Len(r) = n + 1
      BY <2>0, <2>3
    <3> QED BY <3>1, <3>3, <3>4
  <2>5. PICK qr \in Seq(Op) : qr = q \o r
    BY <2>4
  <2>6. /\ Len(qr \o s) = Len(qr) + Len(s)
        /\ \A k \in 1 .. Len(qr) : (qr \o s)[k] = qr[k]
        /\ \A k \in 1 .. Len(s) : (qr \o s)[Len(qr) + k] = s[k]
    BY <2>2, ConcatFacts
  <2>7. /\ Len(ops) = n + 2 /\ ops[1] = q[1] /\ ops[n + 2] = s[1]
        /\ \A k \in 1 .. n : ops[k + 1] = r[k]
    <3>1. ops = qr \o s
      BY <2>1, <2>5
    <3>2. Len(qr) = n + 1 /\ n + 1 + 1 = n + 2 /\ 1 \in 1 .. Len(qr) /\ \A k \in 1 .. n : k + 1 \in 1 .. Len(qr)
      BY <2>0, <2>4, <2>5
    <3>3. Len(ops) = n + 2 /\ ops[1] = q[1]
      BY <2>3, <2>4, <2>5, <2>6, <3>1, <3>2
    <3>4. ops[n + 2] = s[1]
      <4>1. 1 \in 1 .. Len(s) /\ Len(qr) + 1 = n + 2
        BY <2>0, <2>3, <3>2
      <4> QED BY <2>6, <3>1, <4>1
    <3>5. \A k \in 1 .. n : ops[k + 1] = r[k]
      BY <2>4, <2>5, <2>6, <3>1, <3>2
    <3> QED BY <3>3, <3>4, <3>5
  <2>8. Then(ops)
    BY <1>1, <1>2, <1>4, <1>6
  <2> QED BY <1>1, <1>2, <2>0, <2>3, <2>7, <2>8, ZenonT(40)
<1> QED BY <1>7, <1>8

(* The number of vectors that MSI gets: a power of two up to 32.             *)
LEMMA Vectors ==
    ASSUME TypeInv, NEW f \in Fn,
           NEW n, n = IF pci_msi_vec_count(f) > 32 THEN 32 ELSE pci_msi_vec_count(f)
    PROVE  n < 1 \/ \E q \in 0 .. 5 : n = 2^q
<1>1. CASE pci_find_capability(f, "MSI") = 0
  BY <1>1 DEF pci_msi_vec_count
<1>2. CASE pci_find_capability(f, "MSI") # 0
  <2>1. PICK o \in Nat : o = Hw(f).msi_order /\ pci_msi_vec_count(f) = 2^o
    BY <1>2, FnFacts DEF TypeInv, pci_msi_vec_count
  <2>2. CASE o <= 5
    <3>1. 2^o \in Nat /\ 2^o <= 2^5 /\ 2^5 = 32
      <4>1. 5 \in Nat
        OBVIOUS
      <4> QED BY <2>2, <4>1, PowMonotone, PowNat, PowValues
    <3>2. n = 2^o /\ o \in 0 .. 5
      BY <2>1, <2>2, <3>1
    <3> QED BY <3>2
  <2>3. CASE o > 5
    <3>1. 2^o \in Nat /\ 2^5 <= 2^o /\ 2^5 = 32
      <4>1. 5 \in Nat /\ 5 <= o
        BY <2>3
      <4> QED BY <2>3, <4>1, PowMonotone, PowNat, PowValues
    <3>2. n = 2^5 /\ 5 \in 0 .. 5
      BY <2>1, <3>1
    <3> QED BY <3>2
  <2> QED BY <2>2, <2>3
<1> QED BY <1>1, <1>2

(* What the call for MSI becomes.                                            *)
LEMMA MsiCall ==
    ASSUME TypeInv, pci_enable_msi
    PROVE  \E f \in Fn, ops \in Seq(Op) :
              /\ todo # <<>> /\ Head(todo) = <<"msi", f>> /\ Then(ops)
              /\ UNCHANGED <<machine, local, cfg, table, irq_list, free_irq, probed>>
              /\ \/ ops = <<>>
                 \/ \E q \in 0 .. 5 :
                       /\ Len(ops) = 4 /\ ops[1] = <<"msi_ctrl", f, FALSE>>
                       /\ ops[2] = <<"msi_entry", f, 2^q>> /\ ops[3] = <<"msi_multiple", f, 2^q>>
                       /\ ops[4] = <<"msi_ctrl", f, TRUE>>
<1> DEFINE S(f, n) == <<<<"msi_ctrl", f, FALSE>>, <<"msi_entry", f, n>>,
                        <<"msi_multiple", f, n>>, <<"msi_ctrl", f, TRUE>>>>
           nvec(f) == IF pci_msi_vec_count(f) > 32 THEN 32 ELSE pci_msi_vec_count(f)
<1>1. /\ todo # <<>> /\ Head(todo)[1] = "msi" /\ Then(IF nvec(fn) < 1 THEN <<>> ELSE S(fn, nvec(fn)))
      /\ UNCHANGED <<machine, local, cfg, table, irq_list, free_irq, probed>>
  BY DEF pci_enable_msi, At
<1>2. PICK f \in Fn : f = fn /\ Head(todo) = <<"msi", f>>
  <2>1. Head(todo) \in Op
    BY <1>1, HeadFacts
  <2> HIDE DEF Op
  <2> QED BY <1>1, <2>1, OpParts DEF One, fn
<1>3. PICK n : n = nvec(f)
  OBVIOUS
<1>4. n < 1 \/ \E q \in 0 .. 5 : n = 2^q
  BY <1>3, Vectors
<1> HIDE DEF nvec
<1>5. CASE n < 1
  <2>1. Then(<<>>) /\ <<>> \in Seq(Op)
    BY <1>1, <1>2, <1>3, <1>5
  <2> QED BY <1>1, <1>2, <2>1
<1>6. CASE ~(n < 1)
  <2>1. PICK q \in 0 .. 5 : n = 2^q
    BY <1>4, <1>6
  <2>2. n \in Arg
    BY <2>1, ArgFacts
  <2>3. Then(S(f, n))
    BY <1>1, <1>2, <1>3, <1>6
  <2>4. S(f, n) \in Seq(Op)
    BY <2>2, MsiWhole DEF Whole
  <2>5. /\ Len(S(f, n)) = 4 /\ S(f, n)[1] = <<"msi_ctrl", f, FALSE>> /\ S(f, n)[2] = <<"msi_entry", f, n>>
        /\ S(f, n)[3] = <<"msi_multiple", f, n>> /\ S(f, n)[4] = <<"msi_ctrl", f, TRUE>>
    OBVIOUS
  <2>6. PICK ops \in Seq(Op) : ops = S(f, n)
    BY <2>4
  <2> HIDE DEF S, Op
  <2>7. Then(ops) /\ Len(ops) = 4 /\ ops[1] = <<"msi_ctrl", f, FALSE>> /\ ops[2] = <<"msi_entry", f, 2^q>>
        /\ ops[3] = <<"msi_multiple", f, 2^q>> /\ ops[4] = <<"msi_ctrl", f, TRUE>>
    BY <2>1, <2>3, <2>5, <2>6
  <2> QED BY <1>1, <1>2, <2>7
<1> QED BY <1>5, <1>6
(* Steps and stuttering keep it.                                             *)
LEMMA NextOn == TypeInv /\ DecodeInv /\ OnInv /\ [Next]_vars => OnInv'
<1> SUFFICES ASSUME TypeInv, DecodeInv, OnInv, [Next]_vars PROVE OnInv'
  OBVIOUS
<1>1. ASSUME UNCHANGED pci_vars PROVE OnInv'
  <2>1. todo' = todo /\ cfg' = cfg /\ local' = local
    BY <1>1 DEF pci_vars
  <2>2. \A f : On(f)' = On(f)
    BY <2>1 DEF On, Head1, fn
  <2> QED BY <2>1, <2>2 DEF OnInv, Enabling
<1>2. CASE Pops
  <2>1. todo # <<>> /\ Then(<<>>) /\ <<>> \in Seq(Op) /\ Len(<<>>) = 0
    BY <1>2, PopsFacts
  <2>2. \A f \in Fn : On(f) = TRUE \/ Head(todo) = <<"enable", f>> => On(f)' = TRUE
    BY <1>2, OnPop
  <2>3. PICK ops \in Seq(Op) : ops = <<>>
    BY <2>1
  <2>4. \A p \in 1 .. Len(ops) : FALSE
    BY <2>1, <2>3
  <2>5. Then(ops)
    BY <2>1, <2>3
  <2> HIDE DEF Op
  <2> QED BY <2>1, <2>2, <2>4, <2>5, OnStep
<1>3. ASSUME NEW ops \in Seq(Op), Then(ops), todo # <<>>, UNCHANGED <<cfg, local>>,
             Head(todo)[1] \notin {"enable"} \cup Mid,
             \/ pci_scan \/ pci_device_init \/ Bar \/ register_pci_device \/ pci_enable_msix
             \/ pci_enable_msi \/ pci_register_driver(ids) \/ pci_probe \/ ixgbe_reset \/ Fill,
             \A p \in 1 .. Len(ops) : ops[p][1] \in {"msix", "msix_entry"} =>
                Enabling(ops, p) \/ \E f \in Fn : ops[p][2] = f /\ On(f) = TRUE
      PROVE  OnInv'
  <2>1. Head1 \notin Mid
    BY <1>3 DEF Head1
  <2>2. \A f \in Fn : On(f)' = On(f)
    BY <1>3, <2>1, CallOn, Zenon
  <2>3. \A f \in Fn : Head(todo) # <<"enable", f>>
    BY <1>3
  <2> HIDE DEF Op
  <2> QED BY <1>3, <2>2, <2>3, OnStep
<1>4. CASE pci_scan \/ pci_device_init \/ Bar \/ register_pci_device
           \/ pci_register_driver(ids) \/ ixgbe_reset \/ Fill
  <2>1. PICK ops : /\ Mute(ops) /\ Then(ops) /\ todo # <<>>
                   /\ Head(todo)[1] \in {"pci_scan", "device_init", "bar", "register", "driver",
                                         "reset", "fill"}
                   /\ UNCHANGED <<machine, local, cfg, table, irq_list, free_irq, probed>>
    BY <1>4, MuteCalls
  <2>2. ops \in Seq(Op) /\ Ready(ops) /\ Head(todo)[1] \notin {"enable"} \cup Mid
    BY <2>1, MuteReady DEF Mute, Mid, Backs
  <2> HIDE DEF Op
  <2> QED BY <1>3, <1>4, <2>1, <2>2 DEF Ready
<1>5. CASE pci_probe
  <2>1. /\ todo # <<>> /\ Head(todo)[1] = "probe" /\ Then(Probe(arg, fn)) /\ UNCHANGED <<cfg, local>>
    BY <1>5 DEF pci_probe, At
  <2>2. PICK g \in Fn, e \in Driver : g = fn /\ e = arg
    BY <2>1, HeadFacts
  <2>3. PICK ops : ops = Probe(e, g)
    OBVIOUS
  <2>4. ops \in Seq(Op) /\ Ready(ops) /\ Then(ops) /\ Head(todo)[1] \notin {"enable"} \cup Mid
    BY <2>1, <2>2, <2>3, ProbeReady, CalmProbe DEF Calm, Mid, Backs
  <2> HIDE DEF Op
  <2> QED BY <1>3, <1>5, <2>1, <2>4 DEF Ready
<1>6. CASE pci_enable_msix
  <2>1. PICK f \in Fn, ops \in Seq(Op) :
              /\ todo # <<>> /\ Head(todo) = <<"msix", f>> /\ Then(ops)
              /\ UNCHANGED <<machine, local, cfg, table, irq_list, free_irq, probed>>
              /\ \/ ops = <<<<"msi", f>>>>
                 \/ LET n == Hw(f).msix_size IN
                    /\ HasMsix(f) /\ n \in Nat /\ Len(ops) = n + 2
                    /\ ops[1] = <<"msix_ctrl", f, FALSE>> /\ ops[n + 2] = <<"msix_ctrl", f, TRUE>>
                    /\ \A k \in 1 .. n : ops[k + 1] = <<"msix_entry", f, k - 1>>
    BY <1>6, MsixCall
  <2>2. On(f) = TRUE
    <3>1. 1 \in DOMAIN todo /\ todo[1] = Head(todo)
      <4>1. todo \in Seq(Op)
        BY DEF TypeInv, TodoInv
      <4> HIDE DEF Op
      <4> QED BY <2>1, <4>1
    <3>2. ~Enabling(todo, 1)
      BY DEF Enabling
    <3> QED BY <2>1, <3>1, <3>2 DEF OnInv
  <2>3. \A p \in 1 .. Len(ops) : ops[p][2] = f
    <3>1. CASE ops = <<<<"msi", f>>>>
      BY <3>1
    <3>2. CASE ops # <<<<"msi", f>>>>
      <4>1. PICK n \in Nat : /\ Len(ops) = n + 2
                             /\ ops[1] = <<"msix_ctrl", f, FALSE>> /\ ops[n + 2] = <<"msix_ctrl", f, TRUE>>
                             /\ \A k \in 1 .. n : ops[k + 1] = <<"msix_entry", f, k - 1>>
        BY <2>1, <3>2
      <4> HIDE DEF Op
      <4> TAKE p \in 1 .. Len(ops)
      <4>2. p = 1 \/ p = n + 2 \/ (p - 1 \in 1 .. n /\ p = (p - 1) + 1)
        BY <4>1
      <4> QED BY <4>1, <4>2, SMTT(30)
    <3> QED BY <3>1, <3>2
  <2>4. Head(todo)[1] \notin {"enable"} \cup Mid
    BY <2>1 DEF Mid, Backs
  <2>5. UNCHANGED <<cfg, local>>
    BY <2>1
  <2> HIDE DEF Op
  <2> QED BY <1>3, <1>6, <2>1, <2>2, <2>3, <2>4, <2>5
<1>7. CASE pci_enable_msi
  <2>1. PICK f \in Fn, ops \in Seq(Op) :
              /\ todo # <<>> /\ Head(todo) = <<"msi", f>> /\ Then(ops)
              /\ UNCHANGED <<machine, local, cfg, table, irq_list, free_irq, probed>>
              /\ \/ ops = <<>>
                 \/ \E q \in 0 .. 5 :
                       /\ Len(ops) = 4 /\ ops[1] = <<"msi_ctrl", f, FALSE>>
                       /\ ops[2] = <<"msi_entry", f, 2^q>> /\ ops[3] = <<"msi_multiple", f, 2^q>>
                       /\ ops[4] = <<"msi_ctrl", f, TRUE>>
    BY <1>7, MsiCall
  <2>2. \A p \in 1 .. Len(ops) : ops[p][1] \notin {"msix", "msix_entry"}
    <3>1. CASE ops = <<>>
      BY <3>1
    <3>2. CASE ops # <<>>
      <4> HIDE DEF Op
      <4>3. PICK n : /\ Len(ops) = 4 /\ ops[1] = <<"msi_ctrl", f, FALSE>>
                     /\ ops[2] = <<"msi_entry", f, n>> /\ ops[3] = <<"msi_multiple", f, n>>
                     /\ ops[4] = <<"msi_ctrl", f, TRUE>>
        <5>1. PICK q \in 0 .. 5 :
                       /\ Len(ops) = 4 /\ ops[1] = <<"msi_ctrl", f, FALSE>>
                       /\ ops[2] = <<"msi_entry", f, 2^q>> /\ ops[3] = <<"msi_multiple", f, 2^q>>
                       /\ ops[4] = <<"msi_ctrl", f, TRUE>>
          BY <2>1, <3>2, Zenon
        <5> QED BY <5>1, Zenon
      <4>1. Len(ops) = 4 /\ \A p \in 1 .. 4 : p \in {1, 2, 3, 4}
        BY <4>3
      <4>2. \A p \in {1, 2, 3, 4} : ops[p][1] \in {"msi_ctrl", "msi_entry", "msi_multiple"}
        BY <4>3
      <4> QED BY <4>1, <4>2
    <3> QED BY <3>1, <3>2
  <2>3. Head(todo)[1] \notin {"enable"} \cup Mid
    BY <2>1 DEF Mid, Backs
  <2>4. UNCHANGED <<cfg, local>>
    BY <2>1
  <2> HIDE DEF Op
  <2> QED BY <1>3, <1>7, <2>1, <2>2, <2>3, <2>4
<1>8. CASE Beside
  BY <1>1, <1>8, BesideFacts
<1>9. CASE UNCHANGED <<pci_vars, nic_vars>>
  BY <1>1, <1>9
<1>10. CASE UNCHANGED vars
  BY <1>1, <1>10 DEF vars
<1> QED BY <1>2, <1>4, <1>5, <1>6, <1>7, <1>8, <1>9, <1>10, Steps, Zenon

--------------------------------------------------------------------------------
(* A run begins at the head of todo.                                         *)
LEMMA MsixHead ==
    ASSUME TypeInv, NEW f \in Fn, NEW o \in {0, 1}, NEW m \in Nat, MsixRun(f, o, m)
    PROVE  /\ o = 1 => todo[1] = <<"msix_ctrl", f, FALSE>>
           /\ o = 0 /\ m = Hw(f).msix_size => todo[1] = <<"msix_ctrl", f, TRUE>>
           /\ o = 0 /\ m # Hw(f).msix_size => todo[1] = <<"msix_entry", f, m>>
           /\ Hw(f).msix_size \in Nat /\ m \in 0 .. Hw(f).msix_size
<1>1. PICK n \in Nat : n = Hw(f).msix_size
  BY FnFacts DEF TypeInv
<1>2. /\ m <= n
      /\ o = 1 => todo[1] = <<"msix_ctrl", f, FALSE>>
      /\ \A j \in m .. n - 1 : todo[o + 1 + (j - m)] = <<"msix_entry", f, j>>
      /\ todo[o + 1 + (n - m)] = <<"msix_ctrl", f, TRUE>>
  BY <1>1 DEF MsixRun
<1>3. o = 0 /\ m = n => o + 1 + (n - m) = 1
  BY <1>1
<1>4. o = 0 /\ m # n => m \in m .. n - 1 /\ o + 1 + (m - m) = 1
  BY <1>1, <1>2
<1>5. o = 1 => todo[1] = <<"msix_ctrl", f, FALSE>>
  BY <1>2
<1>6. o = 0 /\ m = n => todo[1] = <<"msix_ctrl", f, TRUE>>
  BY <1>2, <1>3
<1>7. o = 0 /\ m # n => todo[1] = <<"msix_entry", f, m>>
  BY <1>2, <1>4
<1>8. m \in 0 .. n
  BY <1>1, <1>2
<1> QED BY <1>1, <1>5, <1>6, <1>7, <1>8

(* So does one of MSI.                                                      *)
LEMMA MsiHead ==
    ASSUME NEW f \in Fn, NEW r \in 1 .. 4, NEW q \in 0 .. 5, MsiRun(f, r, q)
    PROVE  /\ r = 1 => todo[1] = <<"msi_ctrl", f, TRUE>>
           /\ r = 2 => todo[1] = <<"msi_multiple", f, 2^q>>
           /\ r = 3 => todo[1] = <<"msi_entry", f, 2^q>>
           /\ r = 4 => todo[1] = <<"msi_ctrl", f, FALSE>>
           /\ r = 1 \/ r = 2 \/ r = 3 \/ r = 4
<1>1. PICK n : n = 2^q
  OBVIOUS
<1>2. /\ todo[r] = <<"msi_ctrl", f, TRUE>>
      /\ r > 1 => todo[r - 1] = <<"msi_multiple", f, n>>
      /\ r > 2 => todo[r - 2] = <<"msi_entry", f, n>>
      /\ r > 3 => todo[r - 3] = <<"msi_ctrl", f, FALSE>>
  BY <1>1 DEF MsiRun
<1>3. r = 1 \/ r = 2 \/ r = 3 \/ r = 4
  OBVIOUS
<1>4. 2 - 1 = 1 /\ 3 - 2 = 1 /\ 4 - 3 = 1 /\ 2 > 1 /\ 3 > 2 /\ 4 > 3
  OBVIOUS
<1> QED BY <1>1, <1>2, <1>3, <1>4

(* While a function's set-up runs, its next step is the next of all.         *)
LEMMA RunHead ==
    ASSUME TypeInv, NEW f \in Fn, Stage(f), ~Fresh(f), ~Settled(f)
    PROVE  todo[1][1] \in Two /\ todo[1][2] = f
<1>1. ASSUME NEW o \in {0, 1}, NEW m \in Nat, MsixRun(f, o, m)
      PROVE  \/ todo[1] = <<"msix_ctrl", f, FALSE>> \/ todo[1] = <<"msix_ctrl", f, TRUE>>
             \/ todo[1] = <<"msix_entry", f, m>>
  BY <1>1, MsixHead
<1>2. ASSUME NEW r \in 1 .. 4, NEW q \in 0 .. 5, MsiRun(f, r, q)
      PROVE  \/ todo[1] = <<"msi_ctrl", f, FALSE>> \/ todo[1] = <<"msi_ctrl", f, TRUE>>
             \/ todo[1] = <<"msi_entry", f, 2^q>> \/ todo[1] = <<"msi_multiple", f, 2^q>>
  BY <1>2, MsiHead
<1>3. \A l, x : <<l, f, x>>[1] = l /\ <<l, f, x>>[2] = f
  OBVIOUS
<1>4. /\ "msix_ctrl" \in Two /\ "msix_entry" \in Two /\ "msi_ctrl" \in Two /\ "msi_entry" \in Two
      /\ "msi_multiple" \in Two
  BY DEF Two
<1>5. PICK x, l : todo[1] = <<l, f, x>> /\ l \in Two
  BY <1>1, <1>2, <1>4, Zenon DEF Stage
<1> QED BY <1>5

(* A step that says nothing of a function leaves its messages alone: it has  *)
(* no run of its own at the head.                                            *)
LEMMA MsgOther ==
    ASSUME TypeInv, NEW f \in Fn, Msg(f), todo # <<>>, NEW ops \in Seq(Op), Then(ops),
           Silent(Head(todo), f), \A x \in Range(ops) : Silent(x, f),
           machine' = machine, irq_list'[f] = irq_list[f], table'[f] = table[f],
           probed'[f] = probed[f], cfg'[f].msi = cfg[f].msi, cfg'[f].msix = cfg[f].msix
    PROVE  Msg(f)'
<1>1. /\ Len(todo) \in Nat \ {0} /\ DOMAIN todo = 1 .. Len(todo) /\ Head(todo) = todo[1]
      /\ Len(ops) \in Nat
      /\ DOMAIN todo' = 1 .. Len(ops) + Len(todo) - 1
      /\ \A k \in 1 .. Len(ops) : todo'[k] = ops[k]
      /\ \A k \in 2 .. Len(todo) : todo'[Len(ops) + k - 1] = todo[k]
      /\ \A k \in DOMAIN todo' : k \in 1 .. Len(ops) \/ k - Len(ops) + 1 \in 2 .. Len(todo)
  <2> HIDE DEF Op
  <2> QED BY Positions
<1> HIDE DEF Op
<1>2. DOMAIN ops = 1 .. Len(ops)
  OBVIOUS
<1>3. \A k \in 1 .. Len(ops) : Silent(ops[k], f)
  BY <1>2 DEF Range
<1>4. Hw(f)' = Hw(f) /\ HasMsix(f)' = HasMsix(f) /\ NotOn(f)' = NotOn(f)
      /\ \A q : Block(f, q)' = Block(f, q)
  BY DEF Hw, HasMsix, NotOn, Block
<1>5. Fresh(f) \/ Settled(f)
  <2>1. ~(todo[1][1] \in Two /\ todo[1][2] = f)
    BY <1>1 DEF Silent, Talk
  <2> QED BY <2>1, RunHead DEF Msg
<1>6. Still(f, 0) => Still(f, 0)'
  <2> SUFFICES ASSUME Still(f, 0), NEW k \in DOMAIN todo' PROVE Silent(todo'[k], f)
    BY DEF Still
  <2>1. CASE k \in 1 .. Len(ops)
    BY <1>1, <1>3, <2>1
  <2>2. CASE k - Len(ops) + 1 \in 2 .. Len(todo)
    <3>1. PICK j \in 2 .. Len(todo) : j = k - Len(ops) + 1 /\ k = Len(ops) + j - 1
      BY <1>1, <2>2
    <3>2. todo'[k] = todo[j] /\ j \in DOMAIN todo /\ j > 0
      BY <1>1, <3>1, SMTT(30)
    <3> QED BY <3>2 DEF Still
  <2> QED BY <1>1, <2>1, <2>2
<1>7. Fresh(f) => Fresh(f)'
  <2> SUFFICES ASSUME Fresh(f) PROVE Fresh(f)'
    OBVIOUS
  <2>1. Once(todo', Calls(f))
    <3>1. Range(ops) \cap Calls(f) = {}
      BY DEF Silent, Calls, Talk
    <3>2. Once(todo, Calls(f))
      BY DEF Fresh
    <3> QED BY <3>1, <3>2, OnceKept
  <2>2. ASSUME NEW k \in DOMAIN todo', todo'[k][1] \in Two PROVE todo'[k][2] # f
    <3>1. CASE k \in 1 .. Len(ops)
      BY <1>1, <1>3, <2>2, <3>1 DEF Silent, Talk
    <3>2. CASE k - Len(ops) + 1 \in 2 .. Len(todo)
      <4>1. PICK j \in 2 .. Len(todo) : j = k - Len(ops) + 1 /\ k = Len(ops) + j - 1
        BY <1>1, <3>2
      <4>2. todo'[k] = todo[j] /\ j \in DOMAIN todo
        BY <1>1, <4>1
      <4> QED BY <2>2, <4>2 DEF Fresh
    <3> QED BY <1>1, <3>1, <3>2
  <2>3. Calls(f)' = Calls(f)
    BY DEF Calls
  <2> QED BY <1>4, <2>1, <2>2, <2>3 DEF Fresh
<1>8. Settled(f) => Settled(f)'
  BY <1>4, <1>6 DEF Settled
<1> QED BY <1>4, <1>5, <1>6, <1>7, <1>8 DEF Msg, Stage
(* A step about the messages of one function.                                *)
LEMMA MsgFrame ==
    ASSUME TypeInv, MsgInv, todo # <<>>, NEW ops \in Seq(Op), Then(ops), NEW f \in Fn,
           Head(todo)[1] \in Talk => Head(todo)[2] = f,
           \A x \in Range(ops) : x[1] \in Talk => x[2] = f,
           machine' = machine, free_irq' \in Nat, DOMAIN irq_list' = Fn, DOMAIN table' = Fn,
           \A g \in Fn : g # f =>
              /\ irq_list'[g] = irq_list[g] /\ table'[g] = table[g] /\ probed'[g] = probed[g]
              /\ cfg'[g].msi = cfg[g].msi /\ cfg'[g].msix = cfg[g].msix,
           Msg(f)'
    PROVE  MsgInv'
<1>1. Fn' = Fn
  BY DEF Fn
<1>2. ASSUME NEW g \in Fn, g # f PROVE Msg(g)'
  <2>1. Msg(g)
    BY DEF MsgInv
  <2>2. Silent(Head(todo), g) /\ \A x \in Range(ops) : Silent(x, g)
    BY <1>2 DEF Silent
  <2>3. /\ irq_list'[g] = irq_list[g] /\ table'[g] = table[g] /\ probed'[g] = probed[g]
        /\ cfg'[g].msi = cfg[g].msi /\ cfg'[g].msix = cfg[g].msix
    BY <1>2
  <2> HIDE DEF Op
  <2> QED BY <2>1, <2>2, <2>3, MsgOther
<1>3. \A g \in Fn : Msg(g)'
  BY <1>2
<1> QED BY <1>1, <1>3 DEF MsgInv

(* A call at the head is the only step of its function.                      *)
LEMMA CallHead ==
    ASSUME TypeInv, NEW f \in Fn, Msg(f), todo # <<>>, Head(todo) \in Calls(f)
    PROVE  /\ Fresh(f) /\ probed[f] # <<>>
           /\ Range(Tail(todo)) \cap Calls(f) = {}
           /\ \A j \in 2 .. Len(todo) : Silent(todo[j], f)
<1>1. todo \in Seq(Op) /\ Len(todo) \in Nat \ {0}
  BY DEF TypeInv, TodoInv
<1> HIDE DEF Op
<1>2. todo[1] = Head(todo) /\ DOMAIN todo = 1 .. Len(todo) /\ \A j \in 1 .. Len(todo) : todo[j] \in Op
  BY <1>1
<1>3. todo[1][1] \in {"msix", "msi"} /\ todo[1][2] = f /\ todo[1][1] \in Talk /\ todo[1][1] \notin Two
  <2>1. todo[1] = <<"msix", f>> \/ todo[1] = <<"msi", f>>
    BY <1>2 DEF Calls
  <2> QED BY <2>1 DEF Talk, Two
<1>4. ~Still(f, 0)
  BY <1>1, <1>2, <1>3 DEF Still, Silent
<1>5. Fresh(f) /\ probed[f] # <<>>
  BY <1>3, <1>4, RunHead DEF Msg, Settled
<1>6. Range(Tail(todo)) \cap Calls(f) = {}
  BY <1>5, OnceHead DEF Fresh
<1>7. ASSUME NEW j \in 2 .. Len(todo) PROVE Silent(todo[j], f)
  <2>1. \A i, k \in DOMAIN todo : todo[i] \in Calls(f) /\ todo[k] \in Calls(f) => i = k
    BY <1>5 DEF Fresh, Once
  <2>2. 1 \in DOMAIN todo /\ j \in DOMAIN todo /\ j # 1
    BY <1>1, <1>2
  <2>3. todo[j] \notin Calls(f)
    BY <1>2, <2>1, <2>2
  <2>4. todo[j][1] \in {"msix", "msi"} => todo[j] = <<todo[j][1], todo[j][2]>>
    BY <1>2, <2>2, OpParts DEF One
  <2>5. todo[j][1] \in {"msix", "msi"} => todo[j][2] # f
    BY <2>3, <2>4 DEF Calls
  <2>6. todo[j][1] \in Two => todo[j][2] # f
    BY <1>5, <2>2 DEF Fresh
  <2> QED BY <2>5, <2>6 DEF Silent, Talk
<1> QED BY <1>5, <1>6, <1>7

(* Where the steps behind the head come to stand.                            *)
LEMMA StillBehind ==
    ASSUME TypeInv, todo # <<>>, NEW ops \in Seq(Op), Then(ops), NEW f, NEW e \in Nat, e >= 1, Still(f, e)
    PROVE  Still(f, Len(ops) + e - 1)'
<1>1. /\ Len(todo) \in Nat \ {0} /\ DOMAIN todo = 1 .. Len(todo)
      /\ Len(ops) \in Nat
      /\ DOMAIN todo' = 1 .. Len(ops) + Len(todo) - 1
      /\ \A k \in 2 .. Len(todo) : todo'[Len(ops) + k - 1] = todo[k]
  <2> HIDE DEF Op
  <2> QED BY Positions
<1> HIDE DEF Op
<1>2. ASSUME NEW k \in DOMAIN todo', k > Len(ops) + e - 1 PROVE Silent(todo'[k], f)
  <2>1. PICK j \in 2 .. Len(todo) : j = k - Len(ops) + 1 /\ k = Len(ops) + j - 1
    BY <1>1, <1>2, SMTT(30)
  <2>2. todo'[k] = todo[j] /\ j \in DOMAIN todo /\ j > e
    BY <1>1, <1>2, <2>1, SMTT(30)
  <2> QED BY <2>2 DEF Still
<1>3. (Len(ops))' = Len(ops)
  OBVIOUS
<1> QED BY <1>2 DEF Still

(* A probe: its function has no messages yet.                                *)
LEMMA ProbeMsg ==
    ASSUME TypeInv, OnceInv, MsgInv, pci_probe
    PROVE  MsgInv'
<1>1. /\ todo # <<>> /\ Head(todo)[1] = "probe" /\ Then(Probe(arg, fn)) /\ machine' = machine
      /\ cfg' = cfg /\ irq_list' = irq_list /\ table' = table /\ free_irq' = free_irq
      /\ probed' = [probed EXCEPT ![fn] = Append(@, arg)]
  BY DEF pci_probe, At
<1>2. PICK f \in Fn, d \in Driver : f = fn /\ d = arg /\ Head(todo) = <<"probe", f, d>>
  <2>1. Head(todo) \in Op
    BY <1>1, HeadFacts
  <2> HIDE DEF Op
  <2> QED BY <1>1, <2>1, OpMarks DEF fn, arg
<1>3. PICK ops : ops = Probe(d, f)
  OBVIOUS
<1>4. /\ ops \in Seq(Op) /\ Then(ops) /\ Once(ops, Calls(f))
      /\ \A x \in Range(ops) : x[1] \in Talk => x \in Calls(f)
  BY <1>1, <1>2, <1>3, ProbeReady, CalmProbe DEF Calm
<1>5. \A x \in Calls(f) : x[1] \in {"msix", "msi"} /\ x[2] = f /\ x[1] \in Talk /\ x[1] \notin Two
  <2>1. \A x \in Calls(f) : x = <<"msix", f>> \/ x = <<"msi", f>>
    BY DEF Calls
  <2> QED BY <2>1 DEF Talk, Two
<1>6. DOMAIN probed = Fn /\ probed[f] = <<>>
  <2>1. Head(todo) \in Todo
    <3> HIDE DEF Op
    <3> QED BY <1>1, <1>4, Replace
  <2>2. Head(todo) \in Probes(f)
    BY <1>2, MarkFacts
  <2> QED BY <2>1, <2>2 DEF OnceInv, ProbeInv, Probing
<1>7. Msg(f) /\ Fresh(f) /\ Still(f, 0)
  BY <1>6 DEF MsgInv, Msg
<1>8. probed'[f] # <<>> /\ \A g \in Fn : g # f => probed'[g] = probed[g]
  <2>1. probed'[f] = Append(<<>>, d)
    BY <1>1, <1>2, <1>6
  <2>2. Append(<<>>, d) # <<>>
    OBVIOUS
  <2> QED BY <1>1, <1>2, <1>6, <2>1, <2>2
<1>9. todo \in Seq(Op)
  BY DEF TypeInv, TodoInv
<1> HIDE DEF Op
<1>10. \A x \in Range(Tail(todo)) : x \notin Calls(f) /\ (x[1] \in Two => x[2] # f)
  <2>1. \A k \in DOMAIN todo : todo[k] \notin Calls(f) /\ (todo[k][1] \in Two => todo[k][2] # f)
    BY <1>5, <1>7, <1>9 DEF Still, Silent, Fresh
  <2>2. \A x \in Range(todo) : x \notin Calls(f) /\ (x[1] \in Two => x[2] # f)
    BY <2>1 DEF Range
  <2> QED BY <1>1, <1>4, <2>2, Replace DEF Todo
<1>11. Once(todo', Calls(f))
  <2>1. Once(todo, Calls(f)) /\ Range(Tail(todo)) \cap Calls(f) = {}
    BY <1>7, <1>10 DEF Fresh
  <2> QED BY <1>1, <1>4, <2>1, OnceStep
<1>12. \A k \in DOMAIN todo' : todo'[k][1] \in Two => todo'[k][2] # f
  <2>1. \A x \in Range(ops) : x[1] \in Two => x[2] # f
    BY <1>4, <1>5 DEF Talk
  <2>2. \A x \in Range(todo') : x[1] \in Two => x[2] # f
    BY <1>1, <1>4, <1>10, <2>1, Replace DEF Todo
  <2> QED BY <2>2 DEF Range
<1>13. Fresh(f)'
  <2>1. Calls(f)' = Calls(f) /\ NotOn(f)' = NotOn(f)
    BY <1>1 DEF Calls, NotOn
  <2> QED BY <1>1, <1>7, <1>11, <1>12, <2>1 DEF Fresh
<1>14. Msg(f)'
  <2>1. Hw(f)' = Hw(f)
    BY <1>1 DEF Hw
  <2> QED BY <1>1, <1>7, <1>8, <1>13, <2>1 DEF Msg, Stage
<1>15. \A x \in Range(ops) : x[1] \in Talk => x[2] = f
  BY <1>4, <1>5
<1>16. Head(todo)[1] \notin Talk
  BY <1>1 DEF Talk, Two
<1>17. free_irq' \in Nat /\ DOMAIN irq_list' = Fn /\ DOMAIN table' = Fn
  BY <1>1 DEF MsgInv
<1> QED BY <1>1, <1>4, <1>8, <1>14, <1>15, <1>16, <1>17, MsgFrame

(* The call for MSI-X becomes its steps, or the call for MSI.                *)
LEMMA MsixMsg ==
    ASSUME TypeInv, MsgInv, pci_enable_msix
    PROVE  MsgInv'
<1>1. PICK f \in Fn, ops \in Seq(Op) :
         /\ todo # <<>> /\ Head(todo) = <<"msix", f>> /\ Then(ops)
         /\ UNCHANGED <<machine, local, cfg, table, irq_list, free_irq, probed>>
         /\ \/ ops = <<<<"msi", f>>>>
            \/ LET n == Hw(f).msix_size IN
               /\ HasMsix(f) /\ n \in Nat /\ Len(ops) = n + 2
               /\ ops[1] = <<"msix_ctrl", f, FALSE>> /\ ops[n + 2] = <<"msix_ctrl", f, TRUE>>
               /\ \A k \in 1 .. n : ops[k + 1] = <<"msix_entry", f, k - 1>>
  BY MsixCall
<1>2. Msg(f)
  BY DEF MsgInv
<1>3. /\ Fresh(f) /\ probed[f] # <<>> /\ Range(Tail(todo)) \cap Calls(f) = {}
      /\ \A j \in 2 .. Len(todo) : Silent(todo[j], f)
  BY <1>1, <1>2, CallHead DEF Calls
<1>4. /\ Len(todo) \in Nat \ {0} /\ DOMAIN todo = 1 .. Len(todo) /\ Head(todo) = todo[1]
      /\ Len(ops) \in Nat
      /\ DOMAIN todo' = 1 .. Len(ops) + Len(todo) - 1
      /\ \A k \in 1 .. Len(ops) : todo'[k] = ops[k]
      /\ \A k \in 2 .. Len(todo) : todo'[Len(ops) + k - 1] = todo[k]
      /\ \A k \in DOMAIN todo' : k \in 1 .. Len(ops) \/ k - Len(ops) + 1 \in 2 .. Len(todo)
  <2> HIDE DEF Op
  <2> QED BY <1>1, Positions
<1> HIDE DEF Op
<1>5. /\ Hw(f)' = Hw(f) /\ HasMsix(f)' = HasMsix(f) /\ NotOn(f)' = NotOn(f) /\ Calls(f)' = Calls(f)
      /\ irq_list' = irq_list /\ table' = table /\ probed' = probed /\ free_irq' = free_irq
      /\ machine' = machine /\ cfg' = cfg
  BY <1>1 DEF Hw, HasMsix, NotOn, Calls
<1>6. CASE ops = <<<<"msi", f>>>>
  <2>1. Len(ops) = 1 /\ ops[1] = <<"msi", f>> /\ DOMAIN ops = {1}
    BY <1>6
  <2>2. Once(ops, Calls(f))
    BY <2>1 DEF Once
  <2>3. Once(todo', Calls(f))
    BY <1>1, <1>3, <2>2, OnceStep DEF Fresh
  <2>4. ASSUME NEW k \in DOMAIN todo', todo'[k][1] \in Two PROVE todo'[k][2] # f
    <3>1. k \notin 1 .. Len(ops)
      <4>1. "msi" \notin Two
        BY DEF Two
      <4>2. k \in 1 .. Len(ops) => todo'[k] = <<"msi", f>>
        BY <1>4, <2>1
      <4> QED BY <2>4, <4>1, <4>2
    <3>2. PICK j \in 2 .. Len(todo) : j = k - Len(ops) + 1 /\ k = Len(ops) + j - 1
      BY <1>4, <3>1
    <3>3. todo'[k] = todo[j] /\ j \in DOMAIN todo
      BY <1>4, <3>2
    <3> QED BY <1>3, <2>4, <3>3 DEF Fresh
  <2>5. Fresh(f)'
    BY <1>3, <1>5, <2>3, <2>4 DEF Fresh
  <2>6. Msg(f)'
    BY <1>2, <1>3, <1>5, <2>5 DEF Msg, Stage
  <2>7. \A x \in Range(ops) : x[1] \in Talk => x[2] = f
    BY <2>1 DEF Range
  <2> QED BY <1>1, <1>5, <2>6, <2>7, MsgFrame DEF MsgInv
<1>7. CASE ops # <<<<"msi", f>>>>
  <2>1. PICK n \in Nat :
           /\ n = Hw(f).msix_size /\ HasMsix(f) /\ Len(ops) = n + 2
           /\ ops[1] = <<"msix_ctrl", f, FALSE>> /\ ops[n + 2] = <<"msix_ctrl", f, TRUE>>
           /\ \A k \in 1 .. n : ops[k + 1] = <<"msix_entry", f, k - 1>>
    BY <1>1, <1>7
  <2>2. Still(f, n + 2)'
    <3>1. Still(f, 1)
      BY <1>3, <1>4 DEF Still
    <3>2. Len(ops) + 1 - 1 = n + 2 /\ 1 \in Nat /\ 1 >= 1
      BY <2>1
    <3>3. Still(f, Len(ops) + 1 - 1)'
      BY <1>1, <3>1, <3>2, StillBehind
    <3>4. \A k \in DOMAIN todo' : k > Len(ops) + 1 - 1 => Silent(todo'[k], f)
      BY <3>3 DEF Still
    <3> QED BY <3>2, <3>4 DEF Still
  <2>3. \A j \in 0 .. n - 1 : todo'[1 + 1 + (j - 0)] = <<"msix_entry", f, j>>
    <3> TAKE j \in 0 .. n - 1
    <3>1. j + 1 \in 1 .. n /\ (j + 1) + 1 \in 1 .. Len(ops) /\ 1 + 1 + (j - 0) = (j + 1) + 1 /\ (j + 1) - 1 = j
      BY <2>1, SMTT(30)
    <3>2. ops[(j + 1) + 1] = <<"msix_entry", f, (j + 1) - 1>>
      BY <2>1, <3>1
    <3> QED BY <1>4, <3>1, <3>2
  <2>4. todo'[1] = <<"msix_ctrl", f, FALSE>> /\ todo'[n + 2] = <<"msix_ctrl", f, TRUE>>
        /\ n + 2 \in DOMAIN todo' /\ 1 + 1 + (n - 0) = n + 2
    <3>1. /\ 1 \in 1 .. Len(ops) /\ n + 2 \in 1 .. Len(ops) /\ 1 + 1 + (n - 0) = n + 2
          /\ n + 2 \in 1 .. Len(ops) + Len(todo) - 1
      BY <1>4, <2>1
    <3>2. todo'[1] = ops[1] /\ todo'[n + 2] = ops[n + 2]
      BY <1>4, <3>1
    <3> QED BY <1>4, <2>1, <3>1, <3>2
  <2>5. irq_list'[f] = <<>> /\ Len(<<>>) = 0 /\ NotOn(f)
    BY <1>3, <1>5 DEF Fresh
  <2>6. MsixRun(f, 1, 0)'
    <3>1. HasMsix(f)' /\ NotOn(f)' /\ 0 <= n /\ Hw(f)'.msix_size = n
      BY <1>5, <2>1, <2>5
    <3>2. Len(irq_list'[f]) = 0 /\ \A j \in 0 .. 0 - 1 : table'[f][j] = irq_list'[f][j + 1]
      BY <2>5
    <3>3. /\ todo'[1 + 1 + (n - 0)] = <<"msix_ctrl", f, TRUE>> /\ 1 + 1 + (n - 0) \in DOMAIN todo'
          /\ \A k \in DOMAIN todo' : k > 1 + 1 + (n - 0) => Silent(todo'[k], f)
      BY <2>2, <2>4 DEF Still
    <3> QED BY <2>3, <2>4, <3>1, <3>2, <3>3 DEF MsixRun, Still
  <2>7. Stage(f)'
    <3>1. 1 \in {0, 1} /\ 0 \in Nat
      OBVIOUS
    <3> QED BY <2>6, <3>1 DEF Stage
  <2>8. Msg(f)'
    BY <1>2, <1>3, <1>5, <2>7 DEF Msg
  <2>9. \A x \in Range(ops) : x[1] \in Talk => x[2] = f
    <3>1. \A k \in 1 .. n + 2 : ops[k][2] = f
      <4> TAKE k \in 1 .. n + 2
      <4>1. k = 1 \/ k = n + 2 \/ (k - 1 \in 1 .. n /\ k = (k - 1) + 1)
        OBVIOUS
      <4> QED BY <2>1, <4>1, SMTT(30)
    <3> QED BY <2>1, <3>1 DEF Range
  <2> QED BY <1>1, <1>5, <2>8, <2>9, MsgFrame DEF MsgInv
<1> QED BY <1>6, <1>7

(* The call for MSI becomes its steps, or nothing.                           *)
LEMMA MsiMsg ==
    ASSUME TypeInv, MsgInv, pci_enable_msi
    PROVE  MsgInv'
<1>1. PICK f \in Fn, ops \in Seq(Op) :
         /\ todo # <<>> /\ Head(todo) = <<"msi", f>> /\ Then(ops)
         /\ UNCHANGED <<machine, local, cfg, table, irq_list, free_irq, probed>>
         /\ \/ ops = <<>>
            \/ \E q \in 0 .. 5 :
                  /\ Len(ops) = 4 /\ ops[1] = <<"msi_ctrl", f, FALSE>>
                  /\ ops[2] = <<"msi_entry", f, 2^q>> /\ ops[3] = <<"msi_multiple", f, 2^q>>
                  /\ ops[4] = <<"msi_ctrl", f, TRUE>>
  BY MsiCall
<1>2. Msg(f)
  BY DEF MsgInv
<1>3. /\ Fresh(f) /\ probed[f] # <<>>
      /\ \A j \in 2 .. Len(todo) : Silent(todo[j], f)
  BY <1>1, <1>2, CallHead DEF Calls
<1>4. /\ Len(todo) \in Nat \ {0} /\ DOMAIN todo = 1 .. Len(todo)
      /\ Len(ops) \in Nat
      /\ DOMAIN todo' = 1 .. Len(ops) + Len(todo) - 1
      /\ \A k \in 1 .. Len(ops) : todo'[k] = ops[k]
  <2> HIDE DEF Op
  <2> QED BY <1>1, Positions
<1> HIDE DEF Op
<1>5. /\ Hw(f)' = Hw(f) /\ NotOn(f)' = NotOn(f)
      /\ irq_list' = irq_list /\ table' = table /\ probed' = probed /\ free_irq' = free_irq
      /\ machine' = machine /\ cfg' = cfg
  BY <1>1 DEF Hw, NotOn
<1>6. Still(f, Len(ops))'
  <2>1. Still(f, 1)
    BY <1>3, <1>4 DEF Still
  <2>2. Len(ops) + 1 - 1 = Len(ops) /\ 1 \in Nat /\ 1 >= 1
    BY <1>4
  <2>3. Still(f, Len(ops) + 1 - 1)'
    BY <1>1, <2>1, <2>2, StillBehind
  <2> QED BY <2>2, <2>3 DEF Still
<1>7. Stage(f)' /\ \A x \in Range(ops) : x[1] \in Talk => x[2] = f
  <2>1. CASE ops = <<>>
    <3>1. Len(ops) = 0 /\ Range(ops) = {}
      BY <2>1 DEF Range
    <3>2. Still(f, 0)'
      BY <1>6, <3>1 DEF Still
    <3>3. Settled(f)'
      BY <1>3, <1>5, <3>2 DEF Settled, Fresh, NotOn
    <3> QED BY <3>1, <3>3 DEF Stage
  <2>2. CASE ops # <<>>
    <3>1. PICK q \in 0 .. 5 :
                  /\ Len(ops) = 4 /\ ops[1] = <<"msi_ctrl", f, FALSE>>
                  /\ ops[2] = <<"msi_entry", f, 2^q>> /\ ops[3] = <<"msi_multiple", f, 2^q>>
                  /\ ops[4] = <<"msi_ctrl", f, TRUE>>
      BY <1>1, <2>2, Zenon
    <3>2. PICK n : n = 2^q
      OBVIOUS
    <3>3. Still(f, 4)'
      BY <1>6, <3>1 DEF Still
    <3>4. /\ 4 \in DOMAIN todo' /\ todo'[4] = ops[4] /\ todo'[3] = ops[3] /\ todo'[2] = ops[2]
          /\ todo'[1] = ops[1]
      <4>1. /\ 4 \in 1 .. Len(ops) + Len(todo) - 1 /\ 1 \in 1 .. Len(ops) /\ 2 \in 1 .. Len(ops)
            /\ 3 \in 1 .. Len(ops) /\ 4 \in 1 .. Len(ops)
        BY <1>4, <3>1
      <4> QED BY <1>4, <4>1
    <3>5. 4 - 1 = 3 /\ 4 - 2 = 2 /\ 4 - 3 = 1 /\ 4 > 2 /\ 4 # 1 /\ 4 \in 1 .. 4
      OBVIOUS
    <3>6. /\ todo'[4] = <<"msi_ctrl", f, TRUE>> /\ todo'[4 - 1] = <<"msi_multiple", f, 2^q>>
          /\ todo'[4 - 2] = <<"msi_entry", f, 2^q>> /\ todo'[4 - 3] = <<"msi_ctrl", f, FALSE>>
      BY <3>1, <3>4, <3>5, Zenon
    <3>7. irq_list'[f] = <<>> /\ NotOn(f)'
      BY <1>3, <1>5 DEF Fresh
    <3>8. MsiRun(f, 4, q)'
      BY <3>3, <3>4, <3>5, <3>6, <3>7 DEF MsiRun
    <3>9. \A x \in Range(ops) : x[2] = f
      <4>1. DOMAIN ops = {1, 2, 3, 4}
        BY <3>1
      <4>2. ops[1][2] = f /\ ops[2][2] = f /\ ops[3][2] = f /\ ops[4][2] = f
        <5>1. \A l, x : <<l, f, x>>[2] = f
          OBVIOUS
        <5> QED BY <3>1, <5>1, Zenon
      <4> QED BY <4>1, <4>2 DEF Range
    <3> QED BY <3>5, <3>8, <3>9 DEF Stage
  <2> QED BY <2>1, <2>2
<1>8. Msg(f)'
  BY <1>2, <1>3, <1>5, <1>7 DEF Msg
<1> QED BY <1>1, <1>5, <1>7, <1>8, MsgFrame DEF MsgInv

(* A step of a set-up at the head: whose it is, and of which run.            *)
LEMMA TwoHead ==
    ASSUME TypeInv, MsgInv, todo # <<>>, Head(todo)[1] \in Two
    PROVE  \E f \in Fn :
              /\ f = fn /\ todo[1] = Head(todo) /\ Head(todo) = <<Head(todo)[1], f, arg>>
              /\ Msg(f) /\ probed[f] # <<>>
              /\ Head(todo)[1] \in {"msix_ctrl", "msix_entry"} =>
                    \E o \in {0, 1}, m \in Nat : MsixRun(f, o, m)
              /\ Head(todo)[1] \in {"msi_ctrl", "msi_entry", "msi_multiple"} =>
                    \E r \in 1 .. 4, q \in 0 .. 5 : MsiRun(f, r, q)
<1>1. Head(todo) \in Op
  BY HeadFacts
<1>2. todo \in Seq(Op) /\ Len(todo) \in Nat \ {0}
  BY DEF TypeInv, TodoInv
<1> HIDE DEF Op
<1>3. todo[1] = Head(todo) /\ 1 \in DOMAIN todo
  BY <1>2
<1>4. PICK f \in Fn : f = fn /\ Head(todo) = <<Head(todo)[1], f, arg>>
  BY <1>1, OpParts DEF fn, arg
<1>5. Msg(f)
  BY DEF MsgInv
<1>6. todo[1][1] \in Two /\ todo[1][2] = f /\ 1 > 0
  BY <1>3, <1>4 DEF fn
<1>7. ~Fresh(f) /\ ~Still(f, 0)
  BY <1>3, <1>6 DEF Fresh, Still, Silent, Talk
<1>8. probed[f] # <<>> /\ Stage(f) /\ ~Settled(f)
  BY <1>5, <1>7 DEF Msg, Settled
<1>9. ASSUME NEW o \in {0, 1}, NEW m \in Nat, MsixRun(f, o, m)
      PROVE  todo[1][1] \notin {"msi_ctrl", "msi_entry", "msi_multiple"}
  <2>1. \/ todo[1] = <<"msix_ctrl", f, FALSE>> \/ todo[1] = <<"msix_ctrl", f, TRUE>>
        \/ todo[1] = <<"msix_entry", f, m>>
    BY <1>9, MsixHead
  <2>2. \A l, x : <<l, f, x>>[1] = l
    OBVIOUS
  <2>3. todo[1][1] = "msix_ctrl" \/ todo[1][1] = "msix_entry"
    BY <2>1, <2>2, Zenon
  <2> QED BY <2>3
<1>10. ASSUME NEW r \in 1 .. 4, NEW q \in 0 .. 5, MsiRun(f, r, q)
       PROVE  todo[1][1] \notin {"msix_ctrl", "msix_entry"}
  <2>1. PICK n : n = 2^q
    OBVIOUS
  <2>2. \/ todo[1] = <<"msi_ctrl", f, FALSE>> \/ todo[1] = <<"msi_ctrl", f, TRUE>>
        \/ todo[1] = <<"msi_entry", f, n>> \/ todo[1] = <<"msi_multiple", f, n>>
    BY <1>10, <2>1, MsiHead
  <2>3. \A l, x : <<l, f, x>>[1] = l
    OBVIOUS
  <2>4. todo[1][1] = "msi_ctrl" \/ todo[1][1] = "msi_entry" \/ todo[1][1] = "msi_multiple"
    BY <2>2, <2>3, Zenon
  <2> QED BY <2>4
<1>11. (\E o \in {0, 1}, m \in Nat : MsixRun(f, o, m)) \/ (\E r \in 1 .. 4, q \in 0 .. 5 : MsiRun(f, r, q))
  BY <1>7, <1>8, Zenon DEF Stage
<1>12. Head(todo)[1] \in {"msix_ctrl", "msix_entry"} => \E o \in {0, 1}, m \in Nat : MsixRun(f, o, m)
  BY <1>3, <1>10, <1>11, Zenon
<1>13. Head(todo)[1] \in {"msi_ctrl", "msi_entry", "msi_multiple"} =>
          \E r \in 1 .. 4, q \in 0 .. 5 : MsiRun(f, r, q)
  BY <1>3, <1>9, <1>11, Zenon
<1> QED BY <1>3, <1>4, <1>5, <1>8, <1>12, <1>13, Zenon

(* The step at the head goes, and what is behind it moves up.                *)
LEMMA Popped ==
    ASSUME TypeInv, todo # <<>>, Then(<<>>)
    PROVE  /\ Len(todo) \in Nat \ {0} /\ DOMAIN todo = 1 .. Len(todo)
           /\ DOMAIN todo' = 1 .. Len(todo) - 1
           /\ \A k \in 1 .. Len(todo) - 1 : todo'[k] = todo[k + 1]
           /\ \A f : \A e \in Nat \ {0} : Still(f, e) => Still(f, e - 1)'
<1>1. <<>> \in Seq(Op) /\ Len(<<>>) = 0
  OBVIOUS
<1>2. PICK ops \in Seq(Op) : ops = <<>> /\ Len(ops) = 0
  BY <1>1
<1>3. Then(ops)
  BY <1>2
<1> HIDE DEF Op
<1>4. /\ Len(todo) \in Nat \ {0} /\ DOMAIN todo = 1 .. Len(todo)
      /\ DOMAIN todo' = 1 .. Len(ops) + Len(todo) - 1
      /\ \A k \in 2 .. Len(todo) : todo'[Len(ops) + k - 1] = todo[k]
  BY <1>3, Positions
<1>5. DOMAIN todo' = 1 .. Len(todo) - 1
  BY <1>2, <1>4
<1>6. \A k \in 1 .. Len(todo) - 1 : todo'[k] = todo[k + 1]
  <2> TAKE k \in 1 .. Len(todo) - 1
  <2>1. k + 1 \in 2 .. Len(todo) /\ Len(ops) + (k + 1) - 1 = k
    BY <1>2, <1>4
  <2> QED BY <1>4, <2>1
<1>7. ASSUME NEW f, NEW e \in Nat \ {0}, Still(f, e), NEW k \in DOMAIN todo', k > e - 1
      PROVE  Silent(todo'[k], f)
  <2>1. k + 1 \in DOMAIN todo /\ k + 1 > e /\ todo'[k] = todo[k + 1]
    BY <1>4, <1>5, <1>6, <1>7
  <2> QED BY <1>7, <2>1 DEF Still
<1> QED BY <1>4, <1>5, <1>6, <1>7, ZenonT(40) DEF Still

(* A pop leaves the other functions alone.                                   *)
LEMMA PopFrame ==
    ASSUME TypeInv, MsgInv, todo # <<>>, Then(<<>>), NEW f \in Fn,
           Head(todo)[1] \in Talk => Head(todo)[2] = f,
           machine' = machine, free_irq' \in Nat, DOMAIN irq_list' = Fn, DOMAIN table' = Fn,
           \A g \in Fn : g # f =>
              /\ irq_list'[g] = irq_list[g] /\ table'[g] = table[g] /\ probed'[g] = probed[g]
              /\ cfg'[g].msi = cfg[g].msi /\ cfg'[g].msix = cfg[g].msix,
           Msg(f)'
    PROVE  MsgInv'
<1>1. <<>> \in Seq(Op) /\ Range(<<>>) = {}
  BY DEF Range
<1>2. PICK ops \in Seq(Op) : ops = <<>> /\ Range(ops) = {}
  BY <1>1
<1>3. Then(ops)
  BY <1>2
<1> HIDE DEF Op
<1> QED BY <1>2, <1>3, MsgFrame

(* What is left of an MSI-X run with p entries written.                      *)
Ahead(f, n, p) ==
    /\ 0 + 1 + (n - p) \in DOMAIN todo
    /\ \A k \in DOMAIN todo : k > 0 + 1 + (n - p) => Silent(todo[k], f)
    /\ todo[0 + 1 + (n - p)] = <<"msix_ctrl", f, TRUE>>
    /\ \A j \in p .. n - 1 : todo[0 + 1 + (j - p)] = <<"msix_entry", f, j>>

(* A step of an MSI-X run before the last: the rest of it moves up.          *)
LEMMA MsixShift ==
    ASSUME TypeInv, todo # <<>>, Then(<<>>), NEW f \in Fn, NEW o \in {0, 1}, NEW m \in Nat,
           MsixRun(f, o, m), NEW n \in Nat, n = Hw(f).msix_size,
           NEW p \in Nat, p + o = m + 1, p <= n
    PROVE  Ahead(f, n, p)'
<1>1. /\ m <= n /\ o + 1 + (n - m) \in DOMAIN todo /\ Still(f, o + 1 + (n - m))
      /\ \A j \in m .. n - 1 : todo[o + 1 + (j - m)] = <<"msix_entry", f, j>>
      /\ todo[o + 1 + (n - m)] = <<"msix_ctrl", f, TRUE>>
  BY DEF MsixRun
<1>2. /\ Len(todo) \in Nat \ {0} /\ DOMAIN todo = 1 .. Len(todo)
      /\ DOMAIN todo' = 1 .. Len(todo) - 1
      /\ \A k \in 1 .. Len(todo) - 1 : todo'[k] = todo[k + 1]
      /\ \A g : \A e \in Nat \ {0} : Still(g, e) => Still(g, e - 1)'
  BY Popped
<1>3. PICK e \in Nat \ {0} : e = o + 1 + (n - m) /\ e - 1 = 0 + 1 + (n - p) /\ e - 1 \in 1 .. Len(todo) - 1
  BY <1>1, <1>2
<1>4. /\ e - 1 \in DOMAIN todo' /\ todo'[e - 1] = todo[(e - 1) + 1] /\ (e - 1) + 1 = e
  <2>1. PICK d \in 1 .. Len(todo) - 1 : d = e - 1
    BY <1>3
  <2>2. d \in DOMAIN todo' /\ todo'[d] = todo[d + 1]
    BY <1>2
  <2>3. (e - 1) + 1 = e
    OBVIOUS
  <2> QED BY <2>1, <2>2, <2>3
<1>5. Still(f, e - 1)'
  BY <1>1, <1>2, <1>3
<1>6. \A k \in DOMAIN todo' : k > e - 1 => Silent(todo'[k], f)
  BY <1>5 DEF Still
<1>7. ASSUME NEW j \in p .. n - 1 PROVE todo'[0 + 1 + (j - p)] = <<"msix_entry", f, j>>
  <2>1. PICK k \in 1 .. Len(todo) - 1 : k = 0 + 1 + (j - p) /\ k + 1 = o + 1 + (j - m) /\ j \in m .. n - 1
    <3>1. 0 + 1 + (j - p) + 1 = o + 1 + (j - m) /\ j \in m .. n - 1
      OBVIOUS
    <3>2. e - 1 <= Len(todo) - 1 /\ 0 + 1 + (j - p) <= e - 1 /\ 0 + 1 + (j - p) \in Nat \ {0}
      <4>1. PICK t \in Nat : t = Len(todo)
        BY <1>2, ZenonT(40)
      <4>2. e - 1 <= t - 1
        BY <1>3, <4>1
      <4>3. 0 + 1 + (j - p) <= e - 1 /\ 0 + 1 + (j - p) \in Nat \ {0}
        BY <1>3, SMTT(30)
      <4> QED BY <4>1, <4>2, <4>3
    <3>3. 0 + 1 + (j - p) \in 1 .. Len(todo) - 1
      BY <1>2, <1>3, <3>2
    <3> QED BY <3>1, <3>3
  <2>2. todo'[k] = todo[k + 1]
    BY <1>2
  <2> QED BY <1>1, <2>1, <2>2
<1>8. \A k \in DOMAIN todo' : k > 0 + 1 + (n - p) => Silent(todo'[k], f)
  BY <1>3, <1>6
<1> QED BY <1>1, <1>3, <1>4, <1>7, <1>8 DEF Ahead

(* The control word of MSI-X: off before the entries, on after them.         *)
LEMMA CtrlMsg ==
    ASSUME TypeInv, DecodeInv, MsgInv, pci_msix_clear_and_set_ctrl
    PROVE  MsgInv'
<1>1. /\ todo # <<>> /\ Head(todo)[1] = "msix_ctrl" /\ Then(<<>>) /\ machine' = machine
      /\ cfg' = [cfg EXCEPT ![fn].msix.on = arg]
      /\ UNCHANGED <<table, irq_list, free_irq, probed>>
  BY DEF pci_msix_clear_and_set_ctrl, At
<1>2. PICK f \in Fn :
         /\ f = fn /\ todo[1] = Head(todo) /\ Head(todo) = <<"msix_ctrl", f, arg>>
         /\ Msg(f) /\ probed[f] # <<>> /\ \E o \in {0, 1}, m \in Nat : MsixRun(f, o, m)
  <2>1. Head(todo)[1] \in Two
    BY <1>1 DEF Two
  <2> QED BY <1>1, <2>1, TwoHead
<1>3. PICK o \in {0, 1}, m \in Nat : MsixRun(f, o, m)
  BY <1>2
<1>4. PICK n \in Nat : n = Hw(f).msix_size
  BY FnFacts DEF TypeInv
<1>5. /\ cfg'[f].msix.on = arg /\ cfg'[f].msi = cfg[f].msi /\ DOMAIN cfg'[f].msix = DOMAIN cfg[f].msix
      /\ \A g \in Fn : g # f => cfg'[g].msi = cfg[g].msi /\ cfg'[g].msix = cfg[g].msix
  <2>1. DOMAIN cfg = Fn /\ {"msi", "msix"} \subseteq DOMAIN cfg[f] /\ "on" \in DOMAIN cfg[f].msix
    BY <1>2 DEF DecodeInv, CfgInv, Msg
  <2> QED BY <1>1, <1>2, <2>1
<1>6. Hw(f)' = Hw(f) /\ HasMsix(f)' = HasMsix(f)
  BY <1>1 DEF Hw, HasMsix
<1>7. /\ HasMsix(f) /\ NotOn(f) /\ m <= n
      /\ Len(irq_list[f]) = m /\ \A j \in 0 .. m - 1 : table[f][j] = irq_list[f][j + 1]
      /\ o + 1 + (n - m) \in DOMAIN todo /\ Still(f, o + 1 + (n - m))
  BY <1>3, <1>4 DEF MsixRun
<1>8. CASE o = 1
  <2>1. arg = FALSE
    <3>1. todo[1] = <<"msix_ctrl", f, FALSE>>
      BY <1>3, <1>8, MsixHead
    <3>2. <<"msix_ctrl", f, arg>> = <<"msix_ctrl", f, FALSE>>
      BY <1>2, <3>1
    <3> QED BY <3>2
  <2>2. NotOn(f)'
    BY <1>5, <1>7, <2>1 DEF NotOn
  <2>3. m + o = m + 1 /\ m <= n /\ todo # <<>> /\ Then(<<>>)
    BY <1>1, <1>7, <1>8
  <2>4. Ahead(f, n, m)'
    BY <1>3, <1>4, <2>3, MsixShift
  <2>5. MsixRun(f, 0, m)'
    BY <1>1, <1>4, <1>6, <1>7, <2>2, <2>4 DEF MsixRun, Still, Ahead
  <2>6. Msg(f)'
    <3>1. 0 \in {0, 1}
      OBVIOUS
    <3>2. Stage(f)'
      BY <2>5, <3>1 DEF Stage
    <3> QED BY <1>1, <1>2, <1>5, <1>6, <3>2 DEF Msg
  <2> QED BY <1>1, <1>2, <1>5, <2>6, PopFrame DEF MsgInv, fn
<1>9. CASE o = 0
  <2>1. m = n
    <3>1. m # n => todo[1] = <<"msix_entry", f, m>>
      BY <1>3, <1>4, <1>9, MsixHead
    <3>2. todo[1] # <<"msix_entry", f, m>>
      BY <1>2
    <3> QED BY <3>1, <3>2
  <2>2. Still(f, 0)'
    <3>1. o + 1 + (n - m) = 1 /\ 1 \in Nat \ {0} /\ 1 - 1 = 0
      BY <1>9, <2>1
    <3>2. Still(f, 1)
      BY <1>7, <3>1
    <3>3. Still(f, 1 - 1)'
      BY <1>1, <3>1, <3>2, Popped
    <3> QED BY <3>1, <3>3 DEF Still
  <2>3. Range(table[f]) = Range(irq_list[f])
    <3>1. DOMAIN table[f] = 0 .. n - 1 /\ irq_list[f] \in Seq(Nat)
      BY <1>2, <1>4 DEF Msg
    <3>2. DOMAIN irq_list[f] = 1 .. n
      BY <1>7, <2>1, <3>1
    <3>3. \A j \in 0 .. n - 1 : table[f][j] = irq_list[f][j + 1] /\ j + 1 \in 1 .. n
      BY <1>7, <2>1
    <3>4. \A k \in 1 .. n : k - 1 \in 0 .. n - 1 /\ table[f][k - 1] = irq_list[f][k]
      <4> TAKE k \in 1 .. n
      <4>1. k - 1 \in 0 .. n - 1 /\ (k - 1) + 1 = k
        OBVIOUS
      <4> QED BY <3>3, <4>1
    <3>5. \A x \in Range(table[f]) : x \in Range(irq_list[f])
      BY <3>1, <3>2, <3>3 DEF Range
    <3>6. \A x \in Range(irq_list[f]) : x \in Range(table[f])
      BY <3>1, <3>2, <3>4 DEF Range
    <3> QED BY <3>5, <3>6
  <2>4. Settled(f)'
    BY <1>1, <1>5, <1>7, <2>2, <2>3 DEF Settled, NotOn
  <2>5. Msg(f)'
    <3>1. Stage(f)'
      BY <2>4 DEF Stage
    <3> QED BY <1>1, <1>2, <1>5, <1>6, <3>1 DEF Msg
  <2> QED BY <1>1, <1>2, <1>5, <2>5, PopFrame DEF MsgInv, fn
<1> QED BY <1>8, <1>9

(* The MSI-X table of a function that is probed is where pci_dev says it is. *)
LEMMA TableThere ==
    ASSUME TypeInv, OnceInv, DecodeInv, ResInv, Head1 \notin Backs,
           NEW f \in Fn, probed[f] # <<>>, HasMsix(f)
    PROVE  resource[f][Hw(f).bir + 1].start = Address(f, Hw(f).bir)
<1>1. PICK i : i = Hw(f).bir
  OBVIOUS
<1>2. i \in 0 .. NBar(f) - 1 /\ Hw(f).bar[i].kind \in {"mem", "mem64"}
  <2>1. /\ i \in 0 .. (IF Hw(f).bridge THEN 1 ELSE 5)
        /\ Hw(f).bar[i].kind \in {"mem", "mem64"}
    BY <1>1, MachinesAssumption DEF HasMsix, TypeInv, Hw, Fn
  <2> QED BY <2>1 DEF NBar
<1>3. MemoryBar(f, i)
  BY <1>2 DEF MemoryBar
<1>4. f \in Range(pci_device_list)
  BY DEF OnceInv, ProbeInv, Probing
<1>5. resource[f][i + 1].start = Start(f, i)
  BY <1>2, <1>3, <1>4 DEF ResInv, Right
<1>6. /\ \A j \in 0 .. Rom : cfg[f].bar[j] = Hw(f).bar[j].at
      /\ i \in 0 .. Rom /\ i + 1 \in 0 .. Rom
  <2>1. i \in 0 .. 5
    BY <1>2, <1>3, BarSizes DEF TypeInv
  <2> QED BY <2>1 DEF DecodeInv, BarsInv, Busy, Rom
<1>7. Address(f, i) = Start(f, i)
  BY <1>6 DEF Address, Start, read_config
<1> QED BY <1>1, <1>5, <1>7

(* The interrupts that Allocate takes are a block, aligned and unused.       *)
LEMMA AlignedFacts ==
    ASSUME free_irq \in Nat, NEW n \in Nat \ {0}
    PROVE  Aligned(n) \in Nat /\ Aligned(n) + n \in Nat
<1>1. free_irq + n - 1 \in Nat
  OBVIOUS
<1>2. PICK a \in Nat : a = free_irq + n - 1
  BY <1>1
<1>3. a \div n \in Nat
  BY Rest
<1>4. PICK q \in Nat : q = a \div n
  BY <1>3
<1>5. \A x, y \in Nat : x * y \in Nat /\ x * y + y \in Nat
  OBVIOUS
<1>6. Aligned(n) = q * n
  BY <1>2, <1>4 DEF Aligned
<1> QED BY <1>4, <1>5, <1>6

(* One more interrupt on a list.                                             *)
LEMMA OneMore ==
    ASSUME NEW s \in Seq(Nat), NEW a \in Nat
    PROVE  LET t == s \o [k \in 1 .. 1 |-> a + k - 1] IN
           /\ t \in Seq(Nat) /\ Len(t) = Len(s) + 1 /\ Len(s) \in Nat
           /\ \A j \in 0 .. Len(s) - 1 : t[j + 1] = s[j + 1]
           /\ t[Len(s) + 1] = a
<1> DEFINE u == [k \in 1 .. 1 |-> a + k - 1]
<1>0. PICK S : S = Nat
  OBVIOUS
<1>1. u \in Seq(S) /\ s \in Seq(S) /\ Len(u) = 1 /\ u[1] = a
  <2>1. \A k \in 1 .. 1 : a + k - 1 \in Nat /\ k = 1 /\ a + 1 - 1 = a
    OBVIOUS
  <2> QED BY <1>0, <2>1
<1> HIDE DEF u
<1>2. /\ s \o u \in Seq(S) /\ Len(s \o u) = Len(s) + Len(u) /\ Len(s) \in Nat
      /\ \A k \in 1 .. Len(s) : (s \o u)[k] = s[k]
      /\ \A k \in 1 .. Len(u) : (s \o u)[Len(s) + k] = u[k]
  BY <1>1, ConcatFacts, SMTT(30)
<1>3. (s \o u)[Len(s) + 1] = u[1] /\ Len(s \o u) = Len(s) + 1
  <2>1. 1 \in 1 .. Len(u)
    BY <1>1
  <2> QED BY <1>1, <1>2, <2>1
<1>4. \A j \in 0 .. Len(s) - 1 : (s \o u)[j + 1] = s[j + 1]
  <2>1. \A j \in 0 .. Len(s) - 1 : j + 1 \in 1 .. Len(s)
    BY <1>2
  <2> QED BY <1>2, <2>1
<1> QED BY <1>0, <1>1, <1>2, <1>3, <1>4 DEF u

(* One entry of the table.                                                   *)
LEMMA EntryMsg ==
    ASSUME TypeInv, OnceInv, DecodeInv, ResInv, OnInv, MsgInv, msix_entry_setup
    PROVE  MsgInv'
<1>1. /\ todo # <<>> /\ Head(todo)[1] = "msix_entry" /\ Then(<<>>) /\ machine' = machine
      /\ free_irq' = Aligned(1) + 1
      /\ irq_list' = [irq_list EXCEPT ![fn] = irq_list[fn] \o [k \in 1 .. 1 |-> Aligned(1) + k - 1]]
      /\ Decodes(fn, Hw(fn).bir) => table' = [table EXCEPT ![fn][arg] = Aligned(1)]
      /\ cfg' = cfg /\ probed' = probed
  BY DEF msix_entry_setup, At, Allocate
<1>2. PICK f \in Fn :
         /\ f = fn /\ todo[1] = Head(todo) /\ Head(todo) = <<"msix_entry", f, arg>>
         /\ Msg(f) /\ probed[f] # <<>> /\ \E o \in {0, 1}, m \in Nat : MsixRun(f, o, m)
  <2>1. Head(todo)[1] \in Two
    BY <1>1 DEF Two
  <2> QED BY <1>1, <2>1, TwoHead
<1>3. PICK o \in {0, 1}, m \in Nat : MsixRun(f, o, m)
  BY <1>2
<1>4. PICK n \in Nat : n = Hw(f).msix_size
  BY FnFacts DEF TypeInv
<1>5. o = 0 /\ m # n /\ arg = m
  <2>1. \A x, y : <<"msix_entry", f, x>> # <<"msix_ctrl", f, y>>
    OBVIOUS
  <2>2. /\ o = 1 => todo[1] = <<"msix_ctrl", f, FALSE>>
        /\ o = 0 /\ m = n => todo[1] = <<"msix_ctrl", f, TRUE>>
        /\ o = 0 /\ m # n => todo[1] = <<"msix_entry", f, m>>
    BY <1>3, <1>4, MsixHead
  <2>3. todo[1] = <<"msix_entry", f, arg>>
    BY <1>2
  <2>4. o = 0 /\ m # n
    BY <2>1, <2>2, <2>3, Zenon
  <2>5. <<"msix_entry", f, arg>> = <<"msix_entry", f, m>>
    BY <2>2, <2>3, <2>4
  <2> QED BY <2>4, <2>5
<1>6. /\ HasMsix(f) /\ NotOn(f) /\ m <= n
      /\ Len(irq_list[f]) = m /\ \A j \in 0 .. m - 1 : table[f][j] = irq_list[f][j + 1]
  BY <1>3, <1>4 DEF MsixRun
<1>7. Head1 = "msix_entry"
  BY <1>1 DEF Head1
<1>8. cfg[f].decode = TRUE
  <2>1. 1 \in DOMAIN todo /\ ~Enabling(todo, 1)
    BY <1>1, Popped DEF Enabling
  <2>2. On(f) = TRUE
    BY <1>2, <2>1 DEF OnInv
  <2> QED BY <1>7, <2>2 DEF On, Mid, Backs
<1>9. Decodes(f, Hw(f).bir)
  <2>1. Head1 \notin Backs
    BY <1>7 DEF Backs
  <2> QED BY <1>2, <1>6, <1>8, <2>1, TableThere DEF Decodes
<1>10. PICK a \in Nat : a = Aligned(1)
  BY AlignedFacts DEF MsgInv
<1>11. DOMAIN irq_list = Fn /\ DOMAIN table = Fn /\ irq_list[f] \in Seq(Nat) /\ DOMAIN table[f] = 0 .. n - 1
  BY <1>2, <1>4 DEF MsgInv, Msg
<1>12. /\ irq_list'[f] = irq_list[f] \o [k \in 1 .. 1 |-> a + k - 1]
       /\ DOMAIN irq_list' = Fn /\ \A g \in Fn : g # f => irq_list'[g] = irq_list[g]
  BY <1>1, <1>2, <1>10, <1>11
<1>13. /\ irq_list'[f] \in Seq(Nat) /\ Len(irq_list'[f]) = m + 1
       /\ \A j \in 0 .. m - 1 : irq_list'[f][j + 1] = irq_list[f][j + 1]
       /\ irq_list'[f][m + 1] = a
  <2>1. PICK s \in Seq(Nat) : s = irq_list[f] /\ Len(s) = m
    BY <1>6, <1>11
  <2>2. PICK t : t = s \o [k \in 1 .. 1 |-> a + k - 1]
    OBVIOUS
  <2>3. /\ t \in Seq(Nat) /\ Len(t) = Len(s) + 1
        /\ \A j \in 0 .. Len(s) - 1 : t[j + 1] = s[j + 1]
        /\ t[Len(s) + 1] = a
    BY <2>2, OneMore, Zenon
  <2>4. irq_list'[f] = t
    BY <1>12, <2>1, <2>2
  <2> QED BY <2>1, <2>3, <2>4
<1>14. table' = [table EXCEPT ![f][m] = a]
  BY <1>1, <1>2, <1>5, <1>9, <1>10
<1>15. m \in 0 .. n - 1
  BY <1>5, <1>6
<1>16. /\ DOMAIN table' = Fn /\ \A g \in Fn : g # f => table'[g] = table[g]
       /\ DOMAIN table'[f] = 0 .. n - 1 /\ table'[f][m] = a
       /\ \A j \in 0 .. m - 1 : table'[f][j] = table[f][j]
  <2>1. table'[f] = [table[f] EXCEPT ![m] = a]
    BY <1>11, <1>14
  <2>2. \A j \in 0 .. m - 1 : j # m /\ j \in 0 .. n - 1
    BY <1>15
  <2>3. DOMAIN table' = Fn /\ \A g \in Fn : g # f => table'[g] = table[g]
    BY <1>11, <1>14
  <2> QED BY <1>11, <1>15, <2>1, <2>2, <2>3
<1>17. \A j \in 0 .. (m + 1) - 1 : table'[f][j] = irq_list'[f][j + 1]
  <2> TAKE j \in 0 .. (m + 1) - 1
  <2>1. j = m \/ j \in 0 .. m - 1
    OBVIOUS
  <2> QED BY <1>6, <1>13, <1>16, <2>1
<1>18. Hw(f)' = Hw(f) /\ HasMsix(f)' = HasMsix(f) /\ NotOn(f)' = NotOn(f)
  BY <1>1 DEF Hw, HasMsix, NotOn
<1>19. PICK p \in Nat : p = m + 1 /\ p + o = m + 1 /\ p <= n
  BY <1>5, <1>15
<1>20. Ahead(f, n, p)'
  BY <1>1, <1>3, <1>4, <1>19, MsixShift
<1>21. /\ \A j \in 0 .. p - 1 : table'[f][j] = irq_list'[f][j + 1]
       /\ Len(irq_list'[f]) = p /\ 0 # 1
  BY <1>13, <1>17, <1>19
<1>22. MsixRun(f, 0, p)'
  BY <1>4, <1>6, <1>18, <1>19, <1>20, <1>21 DEF MsixRun, Still, Ahead
<1>23. Msg(f)'
  <2>1. 0 \in {0, 1}
    OBVIOUS
  <2>2. Stage(f)'
    BY <1>22, <2>1 DEF Stage
  <2> QED BY <1>1, <1>2, <1>4, <1>13, <1>16, <1>18, <2>2 DEF Msg
<1>24. free_irq' \in Nat
  BY <1>1, <1>10
<1> QED BY <1>1, <1>2, <1>12, <1>16, <1>23, <1>24, PopFrame DEF fn

(* The order of a power of two.                                              *)
LEMMA OrderPow ==
    ASSUME NEW q \in 0 .. 5
    PROVE  Order(2^q) = q /\ 2^q \in Nat \ {0}
<1>1. q \in Nat /\ q + 1 \in Nat
  OBVIOUS
<1>2. PICK n \in Nat \ {0} : n = 2^q
  BY <1>1, PowNat
<1>3. PICK x \in Nat : x = 2^(q + 1) /\ x = 2 * n
  BY <1>1, <1>2, PowStep, PowNat
<1>4. q \in 0 .. n
  <2>1. q = 0 \/ q = 1 \/ q = 2 \/ q = 3 \/ q = 4 \/ q = 5
    OBVIOUS
  <2>2. /\ q = 0 => n = 1
        /\ q = 1 => n = 2
        /\ q = 2 => n = 4
        /\ q = 3 => n = 8
        /\ q = 4 => n = 16
        /\ q = 5 => n = 32
    BY <1>2, PowValues, Zenon
  <2> QED BY <2>1, <2>2
<1>5. 2^q <= n /\ n < 2^(q + 1)
  BY <1>2, <1>3
<1>6. ASSUME NEW k \in 0 .. n, 2^k <= n, n < 2^(k + 1) PROVE k = q
  <2>1. k \in Nat /\ k + 1 \in Nat
    OBVIOUS
  <2>2. CASE k < q
    <3>1. k + 1 <= q
      BY <2>1, <2>2
    <3>2. 2^(k + 1) <= 2^q
      BY <1>1, <2>1, <3>1, PowMonotone
    <3>3. PICK y \in Nat : y = 2^(k + 1)
      BY <2>1, PowNat
    <3> QED BY <1>2, <1>6, <3>2, <3>3
  <2>3. CASE q < k
    <3>1. q + 1 <= k
      BY <2>1, <2>3
    <3>2. 2^(q + 1) <= 2^k
      BY <1>1, <2>1, <3>1, PowMonotone
    <3>3. PICK y \in Nat : y = 2^k
      BY <2>1, PowNat
    <3> QED BY <1>2, <1>3, <1>6, <3>2, <3>3
  <2> QED BY <2>1, <2>2, <2>3
<1>7. (CHOOSE k \in 0 .. n : 2^k <= n /\ n < 2^(k + 1)) = q
  BY <1>4, <1>5, <1>6
<1> QED BY <1>2, <1>7 DEF Order

(* What is left of an MSI run of 2^q vectors, r steps before its end.        *)
Behind(f, r, q) ==
    /\ r \in DOMAIN todo /\ \A k \in DOMAIN todo : k > r => Silent(todo[k], f)
    /\ todo[r] = <<"msi_ctrl", f, TRUE>>
    /\ r > 1 => todo[r - 1] = <<"msi_multiple", f, 2^q>>
    /\ r > 2 => todo[r - 2] = <<"msi_entry", f, 2^q>>
    /\ r > 3 => todo[r - 3] = <<"msi_ctrl", f, FALSE>>

(* A step of an MSI run before the last: the rest of it moves up.            *)
LEMMA MsiShift ==
    ASSUME TypeInv, todo # <<>>, Then(<<>>), NEW f \in Fn, NEW r \in 2 .. 4, NEW q \in 0 .. 5,
           MsiRun(f, r, q)
    PROVE  Behind(f, r - 1, q)'
<1>1. PICK n : n = 2^q
  OBVIOUS
<1>2. /\ r \in DOMAIN todo /\ Still(f, r)
      /\ todo[r] = <<"msi_ctrl", f, TRUE>>
      /\ r > 1 => todo[r - 1] = <<"msi_multiple", f, n>>
      /\ r > 2 => todo[r - 2] = <<"msi_entry", f, n>>
      /\ r > 3 => todo[r - 3] = <<"msi_ctrl", f, FALSE>>
  BY <1>1 DEF MsiRun
<1>3. /\ Len(todo) \in Nat \ {0} /\ DOMAIN todo = 1 .. Len(todo)
      /\ DOMAIN todo' = 1 .. Len(todo) - 1
      /\ \A k \in 1 .. Len(todo) - 1 : todo'[k] = todo[k + 1]
      /\ \A g : \A e \in Nat \ {0} : Still(g, e) => Still(g, e - 1)'
  BY Popped
<1>4. PICK t \in Nat : t = r - 1 /\ t + 1 = r /\ t \in 1 .. 3
  OBVIOUS
<1>5. t \in 1 .. Len(todo) - 1 /\ r \in Nat \ {0}
  BY <1>2, <1>3, <1>4
<1>6. t \in DOMAIN todo' /\ todo'[t] = <<"msi_ctrl", f, TRUE>>
  BY <1>2, <1>3, <1>4, <1>5
<1>7. \A k \in DOMAIN todo' : k > t => Silent(todo'[k], f)
  <2>1. Still(f, r - 1)'
    BY <1>2, <1>3, <1>5
  <2> QED BY <1>4, <2>1 DEF Still
<1>8. t > 1 => todo'[t - 1] = <<"msi_multiple", f, n>>
  <2> SUFFICES ASSUME t > 1 PROVE todo'[t - 1] = <<"msi_multiple", f, n>>
    OBVIOUS
  <2>1. PICK k \in Nat : k = t - 1 /\ k + 1 = r - 1 /\ k \in 1 .. Len(todo) - 1
    BY <1>3, <1>4, <1>5
  <2> QED BY <1>2, <1>3, <2>1
<1>9. t > 2 => todo'[t - 2] = <<"msi_entry", f, n>>
  <2> SUFFICES ASSUME t > 2 PROVE todo'[t - 2] = <<"msi_entry", f, n>>
    OBVIOUS
  <2>1. PICK k \in Nat : k = t - 2 /\ k + 1 = r - 2 /\ k \in 1 .. Len(todo) - 1 /\ r > 2
    BY <1>3, <1>4, <1>5
  <2> QED BY <1>2, <1>3, <2>1
<1>10. ~(t > 3)
  BY <1>4
<1>11. Behind(f, t, q)'
  BY <1>1, <1>6, <1>7, <1>8, <1>9, <1>10 DEF Behind
<1> QED BY <1>4, <1>11

(* The control word of MSI: off before the data is written, on at the end.   *)
LEMMA MsiCtrlMsg ==
    ASSUME TypeInv, DecodeInv, MsgInv, pci_msi_set_enable
    PROVE  MsgInv'
<1>1. /\ todo # <<>> /\ Head(todo)[1] = "msi_ctrl" /\ Then(<<>>) /\ machine' = machine
      /\ cfg' = [cfg EXCEPT ![fn].msi.on = arg]
      /\ UNCHANGED <<table, irq_list, free_irq, probed>>
  BY DEF pci_msi_set_enable, At
<1>2. PICK f \in Fn :
         /\ f = fn /\ todo[1] = Head(todo) /\ Head(todo) = <<"msi_ctrl", f, arg>>
         /\ Msg(f) /\ probed[f] # <<>> /\ \E r \in 1 .. 4, q \in 0 .. 5 : MsiRun(f, r, q)
  <2>1. Head(todo)[1] \in Two
    BY <1>1 DEF Two
  <2> QED BY <1>1, <2>1, TwoHead
<1>3. PICK r \in 1 .. 4, q \in 0 .. 5 : MsiRun(f, r, q)
  BY <1>2
<1>4. (r = 1 /\ arg = TRUE) \/ (r = 4 /\ arg = FALSE)
  <2>1. PICK n : n = 2^q
    OBVIOUS
  <2>2. /\ r = 1 => todo[1] = <<"msi_ctrl", f, TRUE>>
        /\ r = 2 => todo[1] = <<"msi_multiple", f, n>>
        /\ r = 3 => todo[1] = <<"msi_entry", f, n>>
        /\ r = 4 => todo[1] = <<"msi_ctrl", f, FALSE>>
        /\ r = 1 \/ r = 2 \/ r = 3 \/ r = 4
    BY <1>3, <2>1, MsiHead
  <2>3. todo[1] = <<"msi_ctrl", f, arg>>
    BY <1>2
  <2>4. \A x, y : <<"msi_ctrl", f, x>> # <<"msi_multiple", f, y>> /\ <<"msi_ctrl", f, x>> # <<"msi_entry", f, y>>
    OBVIOUS
  <2>5. \A x, y : <<"msi_ctrl", f, x>> = <<"msi_ctrl", f, y>> => x = y
    OBVIOUS
  <2>6. r # 2 /\ r # 3
    BY <2>2, <2>3, <2>4, Zenon
  <2> QED BY <2>2, <2>3, <2>5, <2>6, Zenon
<1>5. /\ cfg'[f].msi.on = arg /\ cfg'[f].msix = cfg[f].msix /\ DOMAIN cfg'[f].msi = DOMAIN cfg[f].msi
      /\ cfg'[f].msi.data = cfg[f].msi.data /\ cfg'[f].msi.order = cfg[f].msi.order
      /\ \A g \in Fn : g # f => cfg'[g].msi = cfg[g].msi /\ cfg'[g].msix = cfg[g].msix
  <2>1. DOMAIN cfg = Fn /\ {"msi", "msix"} \subseteq DOMAIN cfg[f]
        /\ {"on", "data", "order"} \subseteq DOMAIN cfg[f].msi
    BY <1>2 DEF DecodeInv, CfgInv, Msg
  <2>2. cfg'[f].msi = [cfg[f].msi EXCEPT !.on = arg] /\ cfg'[f].msix = cfg[f].msix
        /\ \A g \in Fn : g # f => cfg'[g] = cfg[g]
    BY <1>1, <1>2, <2>1
  <2> QED BY <2>1, <2>2
<1>6. Hw(f)' = Hw(f) /\ \A n : Block(f, n)' = Block(f, n)
  BY <1>1, <1>5 DEF Hw, Block
<1>7. /\ NotOn(f) /\ r \in DOMAIN todo /\ Still(f, r)
      /\ IF r > 2 THEN irq_list[f] = <<>> ELSE Range(irq_list[f]) = Block(f, q)
      /\ r = 1 => cfg[f].msi.order = q
  BY <1>3 DEF MsiRun
<1>8. ASSUME r = 4, arg = FALSE PROVE Msg(f)'
  <2>1. Behind(f, 3, q)'
    <3>1. r \in 2 .. 4 /\ r - 1 = 3
      BY <1>8
    <3>2. Behind(f, r - 1, q)'
      BY <1>1, <1>3, <3>1, MsiShift
    <3> QED BY <3>1, <3>2
  <2>2. NotOn(f)' /\ irq_list'[f] = <<>> /\ 3 \in 1 .. 4 /\ 3 > 2 /\ 3 # 1
    BY <1>1, <1>5, <1>7, <1>8 DEF NotOn
  <2>3. MsiRun(f, 3, q)'
    BY <2>1, <2>2 DEF MsiRun, Behind, Still
  <2>4. Stage(f)'
    BY <2>2, <2>3 DEF Stage
  <2> QED BY <1>1, <1>2, <1>5, <1>6, <2>4 DEF Msg
<1>9. ASSUME r = 1, arg = TRUE PROVE Msg(f)'
  <2>1. Still(f, 0)'
    <3>1. 1 \in Nat \ {0} /\ 1 - 1 = 0
      OBVIOUS
    <3>2. Still(f, 1)
      BY <1>7, <1>9
    <3>3. Still(f, 1 - 1)'
      BY <1>1, <3>1, <3>2, Popped
    <3> QED BY <3>1, <3>3 DEF Still
  <2>2. Block(f, q)' = Range(irq_list'[f]) /\ cfg'[f].msi.order = q
    BY <1>1, <1>5, <1>6, <1>7, <1>9
  <2>3. Settled(f)'
    BY <1>5, <1>7, <2>1, <2>2 DEF Settled, NotOn, Block
  <2>4. Stage(f)'
    BY <2>3 DEF Stage
  <2> QED BY <1>1, <1>2, <1>5, <1>6, <2>4 DEF Msg
<1>10. Msg(f)'
  BY <1>4, <1>8, <1>9
<1> QED BY <1>1, <1>2, <1>5, <1>10, PopFrame DEF MsgInv, fn

(* The data of MSI: a block of interrupts.                                   *)
LEMMA MsiEntryMsg ==
    ASSUME TypeInv, DecodeInv, MsgInv, msi_entry_setup
    PROVE  MsgInv'
<1>1. /\ todo # <<>> /\ Head(todo)[1] = "msi_entry" /\ Then(<<>>) /\ machine' = machine
      /\ free_irq' = Aligned(arg) + arg
      /\ irq_list' = [irq_list EXCEPT ![fn] = irq_list[fn] \o [k \in 1 .. arg |-> Aligned(arg) + k - 1]]
      /\ cfg' = [cfg EXCEPT ![fn].msi.data = Aligned(arg)]
      /\ table' = table /\ probed' = probed
  BY DEF msi_entry_setup, At, Allocate
<1>2. PICK f \in Fn :
         /\ f = fn /\ todo[1] = Head(todo) /\ Head(todo) = <<"msi_entry", f, arg>>
         /\ Msg(f) /\ probed[f] # <<>> /\ \E r \in 1 .. 4, q \in 0 .. 5 : MsiRun(f, r, q)
  <2>1. Head(todo)[1] \in Two
    BY <1>1 DEF Two
  <2> QED BY <1>1, <2>1, TwoHead
<1>3. PICK r \in 1 .. 4, q \in 0 .. 5 : MsiRun(f, r, q)
  BY <1>2
<1>4. PICK n \in Nat \ {0} : n = 2^q
  BY OrderPow
<1>5. r = 3 /\ arg = n
  <2>1. /\ r = 1 => todo[1] = <<"msi_ctrl", f, TRUE>>
        /\ r = 2 => todo[1] = <<"msi_multiple", f, n>>
        /\ r = 3 => todo[1] = <<"msi_entry", f, n>>
        /\ r = 4 => todo[1] = <<"msi_ctrl", f, FALSE>>
        /\ r = 1 \/ r = 2 \/ r = 3 \/ r = 4
    BY <1>3, <1>4, MsiHead
  <2>2. todo[1] = <<"msi_entry", f, arg>>
    BY <1>2
  <2>3. \A x, y : <<"msi_entry", f, x>> # <<"msi_multiple", f, y>> /\ <<"msi_entry", f, x>> # <<"msi_ctrl", f, y>>
    OBVIOUS
  <2>4. \A x, y : <<"msi_entry", f, x>> = <<"msi_entry", f, y>> => x = y
    OBVIOUS
  <2>5. r = 3
    BY <2>1, <2>2, <2>3, Zenon
  <2> QED BY <2>1, <2>2, <2>4, <2>5, Zenon
<1>6. PICK a \in Nat : a = Aligned(n) /\ a + n \in Nat
  BY AlignedFacts DEF MsgInv
<1>7. /\ cfg'[f].msi.on = cfg[f].msi.on /\ cfg'[f].msix = cfg[f].msix
      /\ DOMAIN cfg'[f].msi = DOMAIN cfg[f].msi /\ cfg'[f].msi.data = a
      /\ \A g \in Fn : g # f => cfg'[g].msi = cfg[g].msi /\ cfg'[g].msix = cfg[g].msix
  <2>1. DOMAIN cfg = Fn /\ {"msi", "msix"} \subseteq DOMAIN cfg[f]
        /\ {"on", "data", "order"} \subseteq DOMAIN cfg[f].msi
    BY <1>2 DEF DecodeInv, CfgInv, Msg
  <2>2. cfg'[f].msi = [cfg[f].msi EXCEPT !.data = a] /\ cfg'[f].msix = cfg[f].msix
        /\ \A g \in Fn : g # f => cfg'[g] = cfg[g]
    BY <1>1, <1>2, <1>5, <1>6, <2>1
  <2> QED BY <2>1, <2>2
<1>8. NotOn(f) /\ irq_list[f] = <<>>
  <2>1. 3 > 2
    OBVIOUS
  <2> QED BY <1>3, <1>5, <2>1 DEF MsiRun
<1>9. PICK s : s = [k \in 1 .. n |-> a + k - 1]
  OBVIOUS
<1>10. s \in Seq(Nat) /\ DOMAIN s = 1 .. n /\ \A k \in 1 .. n : s[k] = a + k - 1
  <2>1. \A k \in 1 .. n : a + k - 1 \in Nat
    OBVIOUS
  <2>2. n \in Nat
    OBVIOUS
  <2> QED BY <1>9, <2>1, <2>2
<1>11. /\ irq_list'[f] = s /\ DOMAIN irq_list' = Fn
       /\ \A g \in Fn : g # f => irq_list'[g] = irq_list[g]
  <2>1. DOMAIN irq_list = Fn
    BY DEF MsgInv
  <2>2. <<>> \o s = s
    BY <1>10
  <2>3. irq_list' = [irq_list EXCEPT ![f] = <<>> \o s]
    BY <1>1, <1>2, <1>5, <1>6, <1>8, <1>9
  <2> QED BY <2>1, <2>2, <2>3
<1>12. Range(s) = {a + k : k \in 0 .. n - 1}
  <2>1. ASSUME NEW x \in Range(s) PROVE x \in {a + k : k \in 0 .. n - 1}
    <3>1. PICK k \in 1 .. n : x = s[k]
      BY <1>10 DEF Range
    <3>2. PICK j \in 0 .. n - 1 : j = k - 1 /\ x = a + j
      BY <1>10, <3>1
    <3> QED BY <3>2
  <2>2. ASSUME NEW k \in 0 .. n - 1 PROVE a + k \in Range(s)
    <3>1. PICK j \in 1 .. n : j = k + 1 /\ a + k = a + j - 1
      OBVIOUS
    <3> QED BY <1>10, <3>1 DEF Range
  <2> QED BY <2>1, <2>2
<1>13. Range(irq_list'[f]) = Block(f, q)'
  BY <1>4, <1>7, <1>11, <1>12 DEF Block
<1>14. Behind(f, 2, q)'
  <2>1. r \in 2 .. 4 /\ r - 1 = 2
    BY <1>5
  <2>2. Behind(f, r - 1, q)'
    BY <1>1, <1>3, <2>1, MsiShift
  <2> QED BY <2>1, <2>2
<1>15. NotOn(f)' /\ 2 \in 1 .. 4 /\ ~(2 > 2) /\ 2 # 1
  BY <1>7, <1>8 DEF NotOn
<1>16. MsiRun(f, 2, q)'
  BY <1>13, <1>14, <1>15 DEF MsiRun, Behind, Still
<1>17. Msg(f)'
  <2>1. Stage(f)'
    BY <1>15, <1>16 DEF Stage
  <2>2. Hw(f)' = Hw(f)
    BY <1>1 DEF Hw
  <2> QED BY <1>1, <1>2, <1>7, <1>10, <1>11, <2>1, <2>2 DEF Msg
<1>18. free_irq' \in Nat
  BY <1>1, <1>5, <1>6
<1>19. DOMAIN table' = Fn
  BY <1>1 DEF MsgInv
<1> QED BY <1>1, <1>2, <1>7, <1>11, <1>17, <1>18, <1>19, PopFrame DEF fn

(* The order of MSI's block.                                                 *)
LEMMA MsiMultipleMsg ==
    ASSUME TypeInv, DecodeInv, MsgInv, pci_msi_multiple_enable
    PROVE  MsgInv'
<1>1. /\ todo # <<>> /\ Head(todo)[1] = "msi_multiple" /\ Then(<<>>) /\ machine' = machine
      /\ cfg' = [cfg EXCEPT ![fn].msi.order = Order(arg)]
      /\ UNCHANGED <<table, irq_list, free_irq, probed>>
  BY DEF pci_msi_multiple_enable, At
<1>2. PICK f \in Fn :
         /\ f = fn /\ todo[1] = Head(todo) /\ Head(todo) = <<"msi_multiple", f, arg>>
         /\ Msg(f) /\ probed[f] # <<>> /\ \E r \in 1 .. 4, q \in 0 .. 5 : MsiRun(f, r, q)
  <2>1. Head(todo)[1] \in Two
    BY <1>1 DEF Two
  <2> QED BY <1>1, <2>1, TwoHead
<1>3. PICK r \in 1 .. 4, q \in 0 .. 5 : MsiRun(f, r, q)
  BY <1>2
<1>4. PICK n \in Nat \ {0} : n = 2^q /\ Order(n) = q
  BY OrderPow
<1>5. r = 2 /\ arg = n
  <2>1. /\ r = 1 => todo[1] = <<"msi_ctrl", f, TRUE>>
        /\ r = 2 => todo[1] = <<"msi_multiple", f, n>>
        /\ r = 3 => todo[1] = <<"msi_entry", f, n>>
        /\ r = 4 => todo[1] = <<"msi_ctrl", f, FALSE>>
        /\ r = 1 \/ r = 2 \/ r = 3 \/ r = 4
    BY <1>3, <1>4, MsiHead
  <2>2. todo[1] = <<"msi_multiple", f, arg>>
    BY <1>2
  <2>3. \A x, y : <<"msi_multiple", f, x>> # <<"msi_entry", f, y>> /\ <<"msi_multiple", f, x>> # <<"msi_ctrl", f, y>>
    OBVIOUS
  <2>4. \A x, y : <<"msi_multiple", f, x>> = <<"msi_multiple", f, y>> => x = y
    OBVIOUS
  <2>5. r = 2
    BY <2>1, <2>2, <2>3, Zenon
  <2> QED BY <2>1, <2>2, <2>4, <2>5, Zenon
<1>6. /\ cfg'[f].msi.on = cfg[f].msi.on /\ cfg'[f].msix = cfg[f].msix
      /\ DOMAIN cfg'[f].msi = DOMAIN cfg[f].msi
      /\ cfg'[f].msi.data = cfg[f].msi.data /\ cfg'[f].msi.order = q
      /\ \A g \in Fn : g # f => cfg'[g].msi = cfg[g].msi /\ cfg'[g].msix = cfg[g].msix
  <2>1. DOMAIN cfg = Fn /\ {"msi", "msix"} \subseteq DOMAIN cfg[f]
        /\ {"on", "data", "order"} \subseteq DOMAIN cfg[f].msi
    BY <1>2 DEF DecodeInv, CfgInv, Msg
  <2>2. cfg'[f].msi = [cfg[f].msi EXCEPT !.order = q] /\ cfg'[f].msix = cfg[f].msix
        /\ \A g \in Fn : g # f => cfg'[g] = cfg[g]
    BY <1>1, <1>2, <1>4, <1>5, <2>1
  <2> QED BY <2>1, <2>2
<1>7. Hw(f)' = Hw(f) /\ Block(f, q)' = Block(f, q)
  BY <1>1, <1>6 DEF Hw, Block
<1>8. NotOn(f) /\ Range(irq_list[f]) = Block(f, q)
  <2>1. ~(2 > 2)
    OBVIOUS
  <2> QED BY <1>3, <1>5, <2>1 DEF MsiRun
<1>9. Behind(f, 1, q)'
  <2>1. r \in 2 .. 4 /\ r - 1 = 1
    BY <1>5
  <2>2. Behind(f, r - 1, q)'
    BY <1>1, <1>3, <2>1, MsiShift
  <2> QED BY <2>1, <2>2
<1>10. NotOn(f)' /\ 1 \in 1 .. 4 /\ ~(1 > 2)
  BY <1>6, <1>8 DEF NotOn
<1>11. Range(irq_list'[f]) = Block(f, q)'
  BY <1>1, <1>7, <1>8
<1>12. MsiRun(f, 1, q)'
  BY <1>6, <1>9, <1>10, <1>11 DEF MsiRun, Behind, Still
<1>13. Msg(f)'
  <2>1. Stage(f)'
    BY <1>10, <1>12 DEF Stage
  <2> QED BY <1>1, <1>2, <1>6, <1>7, <2>1 DEF Msg
<1> QED BY <1>1, <1>2, <1>6, <1>13, PopFrame DEF MsgInv, fn

(* A step about something else.                                              *)
LEMMA QuietMsg ==
    ASSUME TypeInv, MsgInv, todo # <<>>, NEW ops, Mute(ops), Then(ops), Head(todo)[1] \notin Talk,
           UNCHANGED <<machine, table, irq_list, free_irq, probed>>,
           \A f \in Fn : cfg'[f].msi = cfg[f].msi /\ cfg'[f].msix = cfg[f].msix
    PROVE  MsgInv'
<1>1. Fn' = Fn /\ machine' = machine /\ irq_list' = irq_list /\ table' = table /\ probed' = probed
      /\ free_irq' = free_irq
  BY DEF Fn
<1>2. ops \in Seq(Op) /\ \A x \in Range(ops) : x[1] \notin Talk
  BY DEF Mute
<1> HIDE DEF Op
<1>3. ASSUME NEW f \in Fn PROVE Msg(f)'
  <2>1. Msg(f)
    BY DEF MsgInv
  <2>2. Silent(Head(todo), f) /\ \A x \in Range(ops) : Silent(x, f)
    BY <1>2 DEF Silent
  <2> QED BY <1>1, <1>2, <2>1, <2>2, MsgOther
<1> QED BY <1>1, <1>3 DEF MsgInv

(* The pops that are not about messages.                                     *)
LEMMA PopMsg ==
    ASSUME TypeInv, DecodeInv, MsgInv, Pops, ~pci_msix_clear_and_set_ctrl, ~pci_msi_set_enable,
           ~msix_entry_setup, ~msi_entry_setup, ~pci_msi_multiple_enable
    PROVE  MsgInv'
<1>0. DOMAIN cfg = Fn /\ \A f \in Fn : {"decode", "master", "bar", "msi", "msix"} \subseteq DOMAIN cfg[f]
  BY DEF DecodeInv, CfgInv
<1>1. Mute(<<>>) /\ todo # <<>> /\ Then(<<>>) /\ machine' = machine
  BY PopsFacts DEF Mute, Range
<1>2. ASSUME NEW d, \/ cfg' = [cfg EXCEPT ![fn].decode = d]
                    \/ cfg' = [cfg EXCEPT ![fn].master = d]
      PROVE  \A f \in Fn : cfg'[f].msi = cfg[f].msi /\ cfg'[f].msix = cfg[f].msix
  BY <1>0, <1>2
<1>3. ASSUME NEW i, NEW d, cfg' = [cfg EXCEPT ![fn].bar[i] = d]
      PROVE  \A f \in Fn : cfg'[f].msi = cfg[f].msi /\ cfg'[f].msix = cfg[f].msix
  BY <1>0, <1>3
<1>4. /\ \A f \in Fn : cfg'[f].msi = cfg[f].msi /\ cfg'[f].msix = cfg[f].msix
      /\ UNCHANGED <<table, irq_list, free_irq, probed>> /\ Head(todo)[1] \notin Talk
  <2>1. CASE CommandOff \/ CommandBack
    BY <1>2, <2>1 DEF CommandOff, CommandBack, At, Talk, Two
  <2>2. CASE Ones \/ Back
    BY <1>3, <2>2 DEF Ones, Back, write_config, At, Talk, Two
  <2>3. CASE pci_enable_device \/ pci_set_master
    BY <1>2, <2>3 DEF pci_enable_device, pci_set_master, At, Talk, Two
  <2>4. CASE x86_pci_hostbridge_init \/ BarEnd \/ NumaInit
    BY <2>4 DEF x86_pci_hostbridge_init, BarEnd, NumaInit, At, Talk, Two
  <2>5. CASE ResetWait \/ EecWait \/ DmaWait \/ rx_init \/ tx_init \/ Unmask \/ Advance \/ RingTail
    BY <2>5 DEF ResetWait, EecWait, DmaWait, rx_init, tx_init, Unmask, Advance, RingTail, Does, At,
                Talk, Two
  <2> QED BY <2>1, <2>2, <2>3, <2>4, <2>5, Zenon DEF Pops
<1> QED BY <1>1, <1>4, QuietMsg

(* Every step keeps what is known of the messages.                           *)
LEMMA NextMsg ==
    TypeInv /\ OnceInv /\ DecodeInv /\ ResInv /\ OnInv /\ MsgInv /\ [Next]_vars => MsgInv'
<1> SUFFICES ASSUME TypeInv, OnceInv, DecodeInv, ResInv, OnInv, MsgInv, [Next]_vars PROVE MsgInv'
  OBVIOUS
<1>1. ASSUME UNCHANGED pci_vars PROVE MsgInv'
  <2>1. machine' = machine /\ todo' = todo /\ cfg' = cfg /\ table' = table /\ irq_list' = irq_list
        /\ free_irq' = free_irq /\ probed' = probed
    BY <1>1 DEF pci_vars
  <2>2. \A f : Fresh(f)' = Fresh(f) /\ Hw(f)' = Hw(f)
    BY <2>1 DEF Fresh, NotOn, Calls, Once, Hw
  <2>3. \A f : Settled(f)' = Settled(f) /\ Still(f, 0)' = Still(f, 0)
    BY <2>1 DEF Settled, Still, Silent, Block
  <2>4. /\ \A f, o, m : MsixRun(f, o, m)' = MsixRun(f, o, m)
        /\ \A f, r, q : MsiRun(f, r, q)' = MsiRun(f, r, q)
    BY <2>1 DEF MsixRun, MsiRun, HasMsix, NotOn, Still, Silent, Hw, Block
  <2>5. \A f : Stage(f)' = Stage(f)
    BY <2>2, <2>3, <2>4 DEF Stage
  <2>6. \A f : Msg(f)' = Msg(f)
    BY <2>1, <2>2, <2>3, <2>5 DEF Msg
  <2> QED BY <2>1, <2>6 DEF MsgInv, Fn
<1>2. CASE Pops
  BY <1>2, CtrlMsg, MsiCtrlMsg, EntryMsg, MsiEntryMsg, MsiMultipleMsg, PopMsg, Zenon
<1>3. CASE pci_scan \/ pci_device_init \/ Bar \/ register_pci_device
           \/ pci_register_driver(ids) \/ ixgbe_reset \/ Fill
  <2>1. PICK ops : /\ Mute(ops) /\ Then(ops) /\ todo # <<>>
                   /\ Head(todo)[1] \in {"pci_scan", "device_init", "bar", "register", "driver",
                                         "reset", "fill"}
                   /\ UNCHANGED <<machine, local, cfg, table, irq_list, free_irq, probed>>
    BY <1>3, MuteCalls
  <2>2. Head(todo)[1] \notin Talk
    BY <2>1 DEF Talk, Two
  <2> QED BY <2>1, <2>2, QuietMsg
<1>4. CASE pci_probe
  BY <1>4, ProbeMsg
<1>5. CASE pci_enable_msix \/ pci_enable_msi
  BY <1>5, MsixMsg, MsiMsg
<1>6. CASE Beside
  BY <1>1, <1>6, BesideFacts
<1>7. CASE UNCHANGED <<pci_vars, nic_vars>>
  BY <1>1, <1>7
<1>8. CASE UNCHANGED vars
  BY <1>1, <1>8 DEF vars
<1> QED BY <1>2, <1>3, <1>4, <1>5, <1>6, <1>7, <1>8, Steps, Zenon

(* At the start no function may send a message, and none is set up.          *)
LEMMA InitMsg == Init => OnInv /\ MsgInv
<1> SUFFICES ASSUME Init PROVE OnInv /\ MsgInv
  OBVIOUS
<1>1. PICK o \in DriverOrders :
         todo = <<<<"numa">>, <<"hostbridge">>, <<"pci_scan">>, <<"driver", o[1]>>,
                  <<"driver", o[2]>>, <<"driver", o[3]>>>>
  BY InitTodo
<1>2. \A k \in DOMAIN todo : todo[k][1] \in {"numa", "hostbridge", "pci_scan", "driver"}
  BY <1>1
<1>3. OnInv
  BY <1>2 DEF OnInv
<1>4. PciInit(machine) /\ machine \in Machines
  BY DEF Init, PciInit
<1>5. /\ free_irq \in Nat /\ DOMAIN irq_list = Fn /\ DOMAIN table = Fn
      /\ \A f \in Fn : /\ irq_list[f] = <<>> /\ DOMAIN table[f] = 0 .. Hw(f).msix_size - 1
                       /\ cfg[f].msix = [on |-> FALSE]
                       /\ cfg[f].msi = [on |-> FALSE, data |-> -1, order |-> 0]
  BY <1>4 DEF PciInit, Fn, Hw
<1>6. ASSUME NEW f \in Fn PROVE Msg(f)
  <2>1. /\ "on" \in DOMAIN cfg[f].msix /\ {"on", "data", "order"} \subseteq DOMAIN cfg[f].msi
        /\ NotOn(f)
    <3>1. cfg[f].msix = [on |-> FALSE] /\ cfg[f].msi = [on |-> FALSE, data |-> -1, order |-> 0]
      BY <1>5
    <3> QED BY <3>1 DEF NotOn
  <2>2. \A k \in DOMAIN todo : todo[k][1] \notin Talk
    BY <1>2 DEF Talk, Two
  <2>3. Still(f, 0)
    BY <2>2 DEF Still, Silent
  <2>4. \A k \in DOMAIN todo : todo[k] \notin Calls(f) /\ todo[k][1] \notin Two
    <3>1. \A x \in Calls(f) : x[1] \in Talk
      BY DEF Calls, Talk
    <3> QED BY <2>2, <3>1 DEF Talk
  <2>5. Fresh(f)
    BY <1>5, <2>1, <2>4 DEF Fresh, Once
  <2>6. irq_list[f] \in Seq(Nat)
    <3>1. <<>> \in Seq(Nat)
      OBVIOUS
    <3> QED BY <1>5, <3>1
  <2> QED BY <1>5, <2>1, <2>3, <2>5, <2>6 DEF Msg, Stage
<1> QED BY <1>3, <1>5, <1>6 DEF MsgInv

(* MessagesExact: on any machine that MachinesAssumption describes, a        *)
(* function that may send messages can send exactly the interrupts on its    *)
(* irq_list, however many vectors its capability offers, however the probes  *)
(* follow each other, and although their steps write the MSI-X table where   *)
(* pci_dev says it is.                                                       *)
THEOREM MessagesTheorem == Spec => []MessagesExact
<1>1. Init => TypeInv /\ OnceInv /\ DecodeInv /\ ResInv /\ OnInv /\ MsgInv
  BY InitType, InitOnce, InitDecode, InitRes, InitMsg
<1>2. TypeInv /\ OnceInv /\ DecodeInv /\ ResInv /\ OnInv /\ MsgInv /\ [Next]_vars
         => (TypeInv /\ OnceInv /\ DecodeInv /\ ResInv /\ OnInv /\ MsgInv)'
  BY TypeStep, NextOnce, NextDecode, NextRes, NextOn, NextMsg
<1>3. MsgInv => MessagesExact
  <2> SUFFICES ASSUME MsgInv, NEW f \in Fn
               PROVE  /\ cfg[f].msix.on => Range(table[f]) = Range(irq_list[f])
                      /\ cfg[f].msi.on => {cfg[f].msi.data + k : k \in 0 .. 2^cfg[f].msi.order - 1}
                                          = Range(irq_list[f])
    BY DEF MessagesExact
  <2>1. Stage(f)
    BY DEF MsgInv, Msg
  <2>2. NotOn(f) \/ Settled(f)
    BY <2>1 DEF Stage, Fresh, MsixRun, MsiRun
  <2> QED BY <2>2 DEF NotOn, Settled, Block
<1> QED BY <1>1, <1>2, <1>3, PTL DEF Spec
===============================================================================
