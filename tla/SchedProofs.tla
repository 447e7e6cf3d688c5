------------------------------ MODULE SchedProofs ------------------------------
(***************************************************************************)
(* Proofs about Sched, for any number of CPUs, tasks, priorities and       *)
(* programs: everything a CPU executes on, picks, saves and resumes        *)
(* belongs to it, so no two CPUs share a stack; and where only the timer   *)
(* preempts, the current task, the stack and the page table agree.         *)
(***************************************************************************)
EXTENDS Sched, FiniteSetTheorems, TLAPS

(* What belongs to CPU c: its idle task, arch_init on it, the tasks of its queue. *)
On(t, c) == \E i \in DOMAIN queue[c] : queue[c][i] = t
Own(c) == {Idle(c), Main(c)} \cup {t \in Task : On(t, c)}

(* A task on a queue has been created by a CPU that went on to its next, and *)
(* is on no other queue.                                                     *)
QueueInv ==
    /\ \A t \in Task, c \in CPU : On(t, c) =>
           \E d \in CPU : \E i \in DOMAIN Boot[d] : i < todo[d] /\ Boot[d][i] = t
    /\ \A t \in Task, c, d \in CPU : On(t, c) /\ On(t, d) => c = d

(* rq->current, the stack in use, the saved stack pointers and the locals of *)
(* schedule() of what belongs to a CPU point to what belongs to it.          *)
Switching == {"mm", "current", "save", "load"}
HomeInv ==
    /\ \A c \in CPU : /\ run[c] \in Own(c) \cup {Lost}
                      /\ current[c] \in Own(c) \cup {Null}
                      /\ sp[Idle(c)] \in Own(c) \cup {Stale}
    /\ \A t \in Task, c \in CPU : On(t, c) =>
           /\ prev[t] \in Own(c) \cup {Null}
           /\ next[t] \in Own(c) \cup {Null}
           /\ sp[t] \in Own(c) \cup {Stale}
    /\ \A t \in Task : pc[t] \in Switching => next[t] # Null
    /\ \A t \in Task : (\A c \in CPU : ~On(t, c)) =>
           pc[t] = "user" /\ prev[t] = Null /\ next[t] = Null /\ sp[t] \in {t, Stale}

(* A task that is being put on a queue can be resumed. *)
CreateInv ==
    \A c \in CPU : boot[c] = "scan" => /\ todo[c] \in DOMAIN Boot[c]
                                       /\ sp[NewTask(c)] = NewTask(c)

(* Where only the timer preempts, a switch is never left half done. *)
Agree(c) ==
    /\ run[c] \in Thread \cup {Main(c)}
    /\ IF current[c] = Null THEN run[c] = Main(c) ELSE run[c] = current[c] /\ cr3[c] = current[c]
    /\ cr2[c] # "bad"
    /\ \A x \in Thread : x \in Own(c) => sp[x] \in {x, Stale} /\ (x # run[c] => sp[x] = x)
    /\ \A t \in Task : On(t, c) => pc[t] \in {"user", "fault", "return"}
PreemptInv == \A c \in CPU : Preemptive(c) => Agree(c)

(* A CPU that has been found online stays online. *)
OnlineInv ==
    /\ TasksOnOnlineCpus
    /\ \A c \in CPU : status[scan[c].min] # "OFFLINE"
    /\ status[0] # "OFFLINE" /\ \A t \in Task : saved[t] # "OFFLINE"

IInv == TypeOK /\ QueueInv /\ HomeInv /\ CreateInv /\ PreemptInv /\ OnlineInv
-------------------------------------------------------------------------------
(* Threads, arch_init on a CPU and the special values are all different. *)
LEMMA ThreadFacts ==
    /\ 0 \in CPU /\ N \in Nat /\ N > 0
    /\ \A c \in CPU : Idle(c) \in Thread /\ Idle(c) \in IdleTask /\ Idle(c) \notin Task
                      /\ Main(c) \notin Thread /\ Main(c) \notin Task
    /\ \A c, d \in CPU : /\ Idle(c) = Idle(d) => c = d
                         /\ Main(c) = Main(d) => c = d
                         /\ Idle(c) # Main(d)
    /\ \A c \in CPU : Idle(c) \notin {Null, Stale, Lost} /\ Main(c) \notin {Null, Stale, Lost}
    /\ Null \notin Thread /\ Stale \notin Thread /\ Lost \notin Thread
    /\ Null # Stale /\ Null # Lost /\ Stale # Lost
    /\ Task \subseteq Thread
    /\ \A x \in Thread : x \in Task \/ \E c \in CPU : x = Idle(c)
<1>1. N \in Nat /\ N > 0 /\ 0 \in CPU
  BY SchedAssumption DEF CPU
<1>2. Task \cap (IdleTask \cup {Main(c) : c \in CPU} \cup {Null, Stale, Lost}) = {}
  BY SchedAssumption
<1>3. \A c \in CPU : Idle(c) \in IdleTask
  BY DEF IdleTask
<1>4. \A c, d \in CPU : /\ Idle(c) = Idle(d) => c = d
                        /\ Main(c) = Main(d) => c = d
                        /\ Idle(c) # Main(d)
  BY DEF Idle, Main
<1>5. \A c \in CPU : Idle(c) \notin {Null, Stale, Lost} /\ Main(c) \notin {Null, Stale, Lost}
  BY DEF Idle, Main, Null, Stale, Lost
<1>6. Null # Stale /\ Null # Lost /\ Stale # Lost
  BY DEF Null, Stale, Lost
<1>7. \A x \in IdleTask : \E c \in CPU : x = Idle(c)
  BY DEF IdleTask
<1> QED
  BY <1>1, <1>2, <1>3, <1>4, <1>5, <1>6, <1>7 DEF Thread

(* What belongs to a CPU belongs to no other. *)
LEMMA OwnFacts ==
    ASSUME QueueInv
    PROVE  /\ \A c \in CPU : Idle(c) \in Own(c) /\ Main(c) \in Own(c)
           /\ \A c, d \in CPU : \A x \in Own(c) : x \in Own(d) => c = d
           /\ \A c \in CPU : \A x \in Own(c) : /\ x \in Thread \cup {Main(c)}
                                               /\ x \notin {Null, Stale, Lost}
           /\ \A c \in CPU, t \in Task : t \in Own(c) <=> On(t, c)
<1>1. \A c \in CPU, t \in Task : t \in Own(c) <=> On(t, c)
  BY ThreadFacts DEF Own
<1>2. \A c \in CPU : \A x \in Own(c) : x = Idle(c) \/ x = Main(c) \/ (x \in Task /\ On(x, c))
  BY DEF Own
<1>3. \A c \in CPU : \A x \in Own(c) : x \in Thread \cup {Main(c)} /\ x \notin {Null, Stale, Lost}
  BY <1>2, ThreadFacts
<1>4. \A c, d \in CPU : \A x \in Own(c) : x \in Own(d) => c = d
  BY <1>2, ThreadFacts DEF QueueInv
<1> QED
  BY <1>1, <1>3, <1>4 DEF Own

(* pick_next_task chooses a task of the CPU's own queue, or its idle task. *)
LEMMA PickFacts ==
    ASSUME TypeOK, NEW c \in CPU, NEW n \in pick_next_task(c)
    PROVE  n \in Thread /\ n \in Own(c) /\ n # Main(c)
<1>1. Runnable(c) \subseteq DOMAIN queue[c] /\ queue[c] \in Seq(Task)
  BY DEF Runnable, TypeOK
<1>2. n = Idle(c) \/ \E i \in DOMAIN queue[c] : n = queue[c][i]
  BY <1>1 DEF pick_next_task
<1>3. \A i \in DOMAIN queue[c] : queue[c][i] \in Task
  BY <1>1
<1> QED
  BY <1>2, <1>3, ThreadFacts DEF Own, On

(* A refill gives a task its priority and takes nothing from it. *)
LEMMA RefillFacts ==
    ASSUME TypeOK, NEW c \in CPU
    PROVE  /\ Refill(c) \in [Task -> Nat]
           /\ \A t \in Task : Refill(c)[t] <= prio[t]
<1>1. prio \in [Task -> Nat]
  BY SchedAssumption
<1>2. counter \in [Task -> Nat] /\ \A t \in Task : counter[t] <= prio[t]
  BY DEF TypeOK
<1>3. \A t \in Task : Refill(c)[t] \in {prio[t], counter[t]}
  BY DEF Refill
<1>4. Refill(c) = [t \in Task |-> Refill(c)[t]]
  BY DEF Refill
<1> QED
  BY <1>1, <1>2, <1>3, <1>4

(* A return keeps the saved stack pointers, except those of the frame popped. *)
LEMMA ReturnFacts ==
    ASSUME NEW c \in CPU, NEW saves, NEW y, ReturnOn(c, saves, y),
           TypeOK, saves \in [Thread -> Thread \cup {Main(d) : d \in CPU} \cup {Stale}],
           y \in Thread \cup {Main(d) : d \in CPU} \cup {Stale}
    PROVE  /\ run' \in [CPU -> Thread \cup {Main(d) : d \in CPU} \cup {Lost}]
           /\ sp' \in [Thread -> Thread \cup {Main(d) : d \in CPU} \cup {Stale}]
           /\ run'[c] = IF y = Stale THEN Lost ELSE y
           /\ \A d \in CPU : d # c => run'[d] = run[d]
           /\ \A x \in Thread : sp'[x] = IF saves[x] = y THEN Stale ELSE saves[x]
<1>1. run \in [CPU -> Thread \cup {Main(d) : d \in CPU} \cup {Lost}]
  BY DEF TypeOK
<1>2. /\ run' = [run EXCEPT ![c] = IF y = Stale THEN Lost ELSE y]
      /\ sp' = [x \in Thread |-> IF saves[x] = y THEN Stale ELSE saves[x]]
  BY DEF ReturnOn
<1>3. (IF y = Stale THEN Lost ELSE y) \in Thread \cup {Main(d) : d \in CPU} \cup {Lost}
  OBVIOUS
<1>4. run' \in [CPU -> Thread \cup {Main(d) : d \in CPU} \cup {Lost}]
  BY <1>1, <1>2, <1>3
<1>5. run'[c] = (IF y = Stale THEN Lost ELSE y) /\ \A d \in CPU : d # c => run'[d] = run[d]
  BY <1>1, <1>2
<1>6. \A x \in Thread : sp'[x] = IF saves[x] = y THEN Stale ELSE saves[x]
  BY <1>2
<1>7. sp' \in [Thread -> Thread \cup {Main(d) : d \in CPU} \cup {Stale}]
  BY <1>2
<1> QED
  BY <1>4, <1>5, <1>6, <1>7
(* An interrupt saves the stack pointer in use for rq->current. *)
LEMMA SavesFacts ==
    ASSUME TypeOK, NEW c \in CPU, run[c] # Lost
    PROVE  /\ set_current_task_stack(c)
                  \in [Thread -> Thread \cup {Main(d) : d \in CPU} \cup {Stale}]
           /\ \A x \in Thread : set_current_task_stack(c)[x] =
                  IF x = current[c] THEN run[c] ELSE sp[x]
<1>1. /\ sp \in [Thread -> Thread \cup {Main(d) : d \in CPU} \cup {Stale}]
      /\ run[c] \in Thread \cup {Main(d) : d \in CPU}
      /\ current[c] \in Thread \cup {Null}
  BY DEF TypeOK
<1>2. CASE current[c] = Null
  BY <1>1, <1>2, ThreadFacts DEF set_current_task_stack
<1>3. CASE current[c] \in Thread
  <2>1. set_current_task_stack(c) = [sp EXCEPT ![current[c]] = run[c]]
    BY <1>3, ThreadFacts DEF set_current_task_stack
  <2> QED
    BY <1>1, <1>3, <2>1
<1> QED
  BY <1>1, <1>2, <1>3

(* A timer interrupt: it returns on the stack saved for the thread that is   *)
(* current at its end, one that belongs to the CPU.                          *)
LEMMA TickFacts ==
    ASSUME TypeOK, HomeInv, NEW c \in CPU, Tick(c)
    PROVE  /\ run[c] # Lost
           /\ \E n \in Thread :
                 /\ n \in Own(c) /\ n # Main(c)
                 /\ current' = [current EXCEPT ![c] = n]
                 /\ cr3' = [cr3 EXCEPT ![c] = IF n = current[c] THEN cr3[c] ELSE n]
                 /\ ReturnOn(c, set_current_task_stack(c), set_current_task_stack(c)[n])
           /\ counter' \in [Task -> Nat] /\ \A t \in Task : counter'[t] <= prio[t]
           /\ UNCHANGED <<taskVars, bootVars, localVars, cr2, status, state>>
<1>1. run[c] # Lost /\ UNCHANGED <<taskVars, bootVars, localVars, cr2, status, state>>
  BY DEF Tick, TickCount, TickSchedule, TimerOn
<1>2. /\ counter \in [Task -> Nat] /\ \A t \in Task : counter[t] <= prio[t]
      /\ prio \in [Task -> Nat \ {0}]
      /\ current \in [CPU -> Thread \cup {Null}] /\ cr3 \in [CPU -> Thread \cup {Null}]
  BY SchedAssumption DEF TypeOK
<1>3. CASE TickCount(c)
  <2>1. current[c] \in Task /\ counter[current[c]] # 0
    BY <1>3 DEF TickCount, SliceLeft
  <2>2. /\ counter' = [counter EXCEPT ![current[c]] = counter[current[c]] - 1]
        /\ UNCHANGED <<current, cr3>>
        /\ ReturnOn(c, set_current_task_stack(c), run[c])
    BY <1>3 DEF TickCount
  <2>3. current[c] \in Thread /\ current[c] \in Own(c) /\ current[c] # Main(c)
    BY <2>1, ThreadFacts DEF HomeInv
  <2>4. set_current_task_stack(c)[current[c]] = run[c]
    BY <1>1, <2>3, SavesFacts
  <2>5. current' = [current EXCEPT ![c] = current[c]] /\ cr3' = [cr3 EXCEPT ![c] = cr3[c]]
    BY <1>2, <2>2
  <2>6. counter' \in [Task -> Nat] /\ \A t \in Task : counter'[t] <= prio[t]
    BY <1>2, <2>1, <2>2
  <2> QED
    BY <1>1, <2>2, <2>3, <2>4, <2>5, <2>6
<1>4. CASE TickSchedule(c)
  <2>1. PICK n \in pick_next_task(c) :
          /\ current' = [current EXCEPT ![c] = n]
          /\ cr3' = [cr3 EXCEPT ![c] = IF n = current[c] THEN cr3[c] ELSE n]
          /\ ReturnOn(c, set_current_task_stack(c), set_current_task_stack(c)[n])
    BY <1>4 DEF TickSchedule
  <2>2. n \in Thread /\ n \in Own(c) /\ n # Main(c)
    BY PickFacts
  <2>3. counter' = Refill(c)
    BY <1>4 DEF TickSchedule
  <2>4. counter' \in [Task -> Nat] /\ \A t \in Task : counter'[t] <= prio[t]
    BY <2>3, RefillFacts
  <2> QED
    BY <1>1, <2>1, <2>2, <2>4
<1> QED
  BY <1>3, <1>4 DEF Tick

-------------------------------------------------------------------------------
(* The types are preserved by the steps of the bring-up and of create_task, *)
LEMMA TypeBoot ==
    ASSUME IInv, WakeAp \/ ApIsIdle \/ \E c \in CPU : BootStep(c)
    PROVE  TypeOK'
<1>1. TypeOK /\ 0 \in CPU /\ N \in Nat /\ CreateInv
  BY ThreadFacts DEF IInv
<1>2. CASE WakeAp
  BY <1>1, <1>2 DEF WakeAp, TypeOK, taskVars, switchVars, localVars
<1>3. CASE ApIsIdle
  <2>1. ap' \in Nat
    BY <1>1, <1>3 DEF ApIsIdle, TypeOK
  <2>2. boot' \in [CPU -> {"off", "init", "wake", "check", "create", "scan", "done"}]
    <3>1. boot' = boot \/ boot' = [boot EXCEPT ![0] = "check"]
                       \/ boot' = [boot EXCEPT ![0] = "create"]
      BY <1>3 DEF ApIsIdle
    <3> QED
      BY <1>1, <3>1 DEF TypeOK
  <2> QED
    BY <1>1, <1>3, <2>1, <2>2 DEF ApIsIdle, TypeOK, taskVars, switchVars, localVars
<1>4. ASSUME NEW c \in CPU, ApInit(c) PROVE TypeOK'
  BY <1>1, <1>4 DEF ApInit, TypeOK, taskVars, switchVars, localVars
<1>5. ASSUME NEW c \in CPU, create_task(c) PROVE TypeOK'
  <2>1. todo[c] \in Nat \ {0} /\ Boot[c] \in Seq(Task) /\ todo[c] <= Len(Boot[c])
    BY <1>1, <1>5, SchedAssumption DEF create_task, TypeOK
  <2>2. NewTask(c) \in Task
    BY <2>1 DEF NewTask
  <2>3. NewTask(c) \in Thread /\ prio[NewTask(c)] \in Nat
    BY <2>2, ThreadFacts, SchedAssumption
  <2>4. NoLength \in Nat
    <3>1. IsFiniteSet(Task)
      BY SchedAssumption
    <3> QED
      BY <3>1, FS_CardinalityType DEF NoLength
  <2>5. [i |-> 0, min |-> 0, len |-> NoLength] \in [i : 0 .. N, min : CPU, len : Nat]
    BY <1>1, <2>4
  <2> HIDE DEF NewTask, NoLength
  <2>6. scan' = [scan EXCEPT ![c] = [i |-> 0, min |-> 0, len |-> NoLength]]
    BY <1>5 DEF create_task
  <2>7. scan' \in [CPU -> [i : 0 .. N, min : CPU, len : Nat]]
    BY <1>1, <2>5, <2>6 DEF TypeOK
  <2>8. /\ state' \in [Task -> {"NONE", "RUNNING", "KILLED"}]
        /\ counter' \in [Task -> Nat] /\ \A t \in Task : counter'[t] <= prio[t]
    BY <1>1, <1>5, <2>2, <2>3 DEF create_task, TypeOK
  <2>9. /\ sp' \in [Thread -> Thread \cup {Main(d) : d \in CPU} \cup {Stale}]
        /\ boot' \in [CPU -> {"off", "init", "wake", "check", "create", "scan", "done"}]
    BY <1>1, <1>5, <2>3 DEF create_task, TypeOK
  <2> QED
    BY <1>1, <1>5, <2>7, <2>8, <2>9 DEF create_task, TypeOK, taskVars, localVars
<1>6. ASSUME NEW c \in CPU, cpu_min_load(c) PROVE TypeOK'
  <2>1. scan[c].i \in CPU /\ scan[c] \in [i : 0 .. N, min : CPU, len : Nat]
    BY <1>1, <1>6 DEF cpu_min_load, TypeOK
  <2>2. Len(queue[scan[c].i]) \in Nat /\ scan[c].i + 1 \in 0 .. N
    <3>1. queue[scan[c].i] \in Seq(Task)
      BY <1>1, <2>1 DEF TypeOK
    <3>2. Len(queue[scan[c].i]) \in Nat
      BY <3>1
    <3> QED
      BY <1>1, <2>1, <3>2 DEF CPU
  <2>3. scan' \in [CPU -> [i : 0 .. N, min : CPU, len : Nat]]
    BY <1>1, <1>6, <2>1, <2>2 DEF cpu_min_load, TypeOK
  <2> QED
    BY <1>1, <1>6, <2>3 DEF cpu_min_load, TypeOK, taskVars, switchVars, localVars
<1>7. ASSUME NEW c \in CPU, Enqueue(c) PROVE TypeOK'
  <2>1. todo[c] \in DOMAIN Boot[c] /\ Boot[c] \in Seq(Task) /\ scan[c].min \in CPU
    BY <1>1, <1>7, SchedAssumption DEF Enqueue, CreateInv, TypeOK
  <2>2. NewTask(c) \in Task
    BY <2>1 DEF NewTask
  <2> HIDE DEF NewTask
  <2>3. Append(queue[scan[c].min], NewTask(c)) \in Seq(Task)
    BY <1>1, <2>1, <2>2 DEF TypeOK
  <2>4. queue' \in [CPU -> Seq(Task)] /\ cpu' \in [Task -> CPU \cup {-1}]
    BY <1>1, <1>7, <2>1, <2>2, <2>3 DEF Enqueue, TypeOK
  <2>5. /\ todo' \in [CPU -> Nat \ {0}]
        /\ boot' \in [CPU -> {"off", "init", "wake", "check", "create", "scan", "done"}]
    BY <1>1, <1>7, SMTT(30) DEF Enqueue, TypeOK
  <2> QED
    BY <1>1, <1>7, <2>4, <2>5 DEF Enqueue, TypeOK, switchVars, localVars
<1>8. ASSUME NEW c \in CPU, StartTimer(c) PROVE TypeOK'
  BY <1>1, <1>8 DEF StartTimer, TypeOK, taskVars, switchVars, localVars
<1> QED
  BY <1>2, <1>3, <1>4, <1>5, <1>6, <1>7, <1>8 DEF BootStep

(* by a timer interrupt, *)
LEMMA TypeTick ==
    ASSUME IInv, NEW c \in CPU, Tick(c)
    PROVE  TypeOK'
<1>1. TypeOK /\ HomeInv
  BY DEF IInv
<1>2. PICK n \in Thread :
        /\ current' = [current EXCEPT ![c] = n]
        /\ cr3' = [cr3 EXCEPT ![c] = IF n = current[c] THEN cr3[c] ELSE n]
        /\ ReturnOn(c, set_current_task_stack(c), set_current_task_stack(c)[n])
  BY <1>1, TickFacts
<1>3. /\ counter' \in [Task -> Nat] /\ \A t \in Task : counter'[t] <= prio[t]
      /\ run[c] # Lost /\ UNCHANGED <<taskVars, bootVars, localVars, cr2, status, state>>
  BY <1>1, TickFacts
<1>4. set_current_task_stack(c) \in [Thread -> Thread \cup {Main(d) : d \in CPU} \cup {Stale}]
  BY <1>1, <1>3, SavesFacts
<1>5. set_current_task_stack(c)[n] \in Thread \cup {Main(d) : d \in CPU} \cup {Stale}
  BY <1>4
<1>6. /\ run' \in [CPU -> Thread \cup {Main(d) : d \in CPU} \cup {Lost}]
      /\ sp' \in [Thread -> Thread \cup {Main(d) : d \in CPU} \cup {Stale}]
  BY <1>1, <1>2, <1>4, <1>5, ReturnFacts
<1>7. current' \in [CPU -> Thread \cup {Null}] /\ cr3' \in [CPU -> Thread \cup {Null}]
  BY <1>1, <1>2 DEF TypeOK
<1> QED
  BY <1>1, <1>3, <1>6, <1>7 DEF TypeOK, taskVars, bootVars, localVars
(* and by what the thread in use does itself. *)
LEMMA TypeRun ==
    ASSUME IInv, NEW c \in CPU, RunStep(c)
    PROVE  TypeOK'
<1>1. TypeOK /\ HomeInv
  BY DEF IInv
<1>2. CASE PageFault(c)
  BY <1>1, <1>2 DEF PageFault, At, GoTo, TypeOK, taskVars, bootVars, switchVars
<1>3. CASE MapPage(c)
  BY <1>1, <1>3 DEF MapPage, At, GoTo, TypeOK, taskVars, bootVars, switchVars
<1>4. CASE FaultReturn(c)
  <2>1. ip' \in [Task -> Nat \ {0}]
    BY <1>1, <1>4 DEF FaultReturn, At, TypeOK
  <2> QED
    BY <1>1, <1>4, <2>1 DEF FaultReturn, At, GoTo, TypeOK, taskVars, bootVars, switchVars
<1>5. CASE task_exit(c)
  BY <1>1, <1>5 DEF task_exit, At, GoTo, TypeOK, taskVars, bootVars, switchVars
<1>6. CASE Yield(c)
  BY <1>1, <1>6 DEF Yield, At, GoTo, TypeOK, taskVars, bootVars, switchVars, faultVars
<1>7. CASE PickNext(c)
  <2>1. /\ counter' \in [Task -> Nat] /\ \A x \in Task : counter'[x] <= prio[x]
    BY <1>1, <1>7, RefillFacts DEF PickNext
  <2>2. next' \in [Task -> Thread \cup {Null}]
    BY <1>1, <1>7, PickFacts, SMTT(30) DEF PickNext, At, TypeOK
  <2>3. pc' \in [Task -> {"user", "fault", "return", "pick", "mm", "current", "save",
                          "load", "back"}]
    <3>1. pc' = [pc EXCEPT ![run[c]] = "back"] \/ pc' = [pc EXCEPT ![run[c]] = "mm"]
      BY <1>7 DEF PickNext, GoTo
    <3> QED
      BY <1>1, <3>1 DEF TypeOK
  <2> QED
    BY <1>1, <1>7, <2>1, <2>2, <2>3
       DEF PickNext, TypeOK, taskVars, bootVars, switchVars, faultVars
<1>8. CASE SwitchMm(c)
  BY <1>1, <1>8 DEF SwitchMm, At, GoTo, TypeOK, taskVars, bootVars, faultVars
<1>9. CASE SetCurrent(c)
  BY <1>1, <1>9 DEF SetCurrent, At, GoTo, TypeOK, taskVars, bootVars, faultVars
<1>10. CASE SaveSp(c)
  <2>1. run[c] \in Thread
    BY <1>10, ThreadFacts DEF SaveSp, At
  <2> QED
    BY <1>1, <1>10, <2>1 DEF SaveSp, At, GoTo, TypeOK, taskVars, bootVars, faultVars
<1>11. CASE LoadSp(c)
  <2>1. run[c] \in Task /\ next[run[c]] # Null /\ ReturnOn(c, sp, sp[next[run[c]]])
    BY <1>1, <1>11 DEF LoadSp, At, HomeInv, Switching
  <2>2. sp[next[run[c]]] \in Thread \cup {Main(d) : d \in CPU} \cup {Stale}
    BY <1>1, <2>1 DEF TypeOK
  <2>3. sp \in [Thread -> Thread \cup {Main(d) : d \in CPU} \cup {Stale}]
    BY <1>1 DEF TypeOK
  <2>4. /\ run' \in [CPU -> Thread \cup {Main(d) : d \in CPU} \cup {Lost}]
        /\ sp' \in [Thread -> Thread \cup {Main(d) : d \in CPU} \cup {Stale}]
    BY <1>1, <2>1, <2>2, <2>3, ReturnFacts
  <2>5. pc' \in [Task -> {"user", "fault", "return", "pick", "mm", "current", "save",
                          "load", "back"}]
    BY <1>1, <1>11 DEF LoadSp, GoTo, TypeOK
  <2> QED
    BY <1>1, <1>11, <2>4, <2>5 DEF LoadSp, TypeOK, taskVars, bootVars, faultVars
<1>12. CASE YieldReturns(c)
  BY <1>1, <1>12, SMTT(30) DEF YieldReturns, At, GoTo, TypeOK, taskVars, bootVars, switchVars, faultVars
<1>13. CASE ExitReturns(c)
  BY <1>1, <1>13 DEF ExitReturns, At, GoTo, TypeOK, taskVars, bootVars, switchVars
<1>14. CASE IdleLoop(c)
  BY <1>1, <1>14 DEF IdleLoop, TypeOK, taskVars, bootVars, switchVars, localVars
<1> QED
  BY <1>2, <1>3, <1>4, <1>5, <1>6, <1>7, <1>8, <1>9, <1>10, <1>11, <1>12, <1>13, <1>14
     DEF RunStep
-------------------------------------------------------------------------------
(* The queues decide what belongs to whom, and which CPUs only preempt. *)
LEMMA SameQueue ==
    ASSUME UNCHANGED queue
    PROVE  /\ \A c : Own(c)' = Own(c)
           /\ \A t, c : On(t, c)' <=> On(t, c)
           /\ \A c : Preemptive(c)' <=> Preemptive(c)
<1>1. \A t, c : On(t, c)' <=> On(t, c)
  BY DEF On
<1>2. \A c : Own(c)' = Own(c)
  BY <1>1 DEF Own
<1>3. \A c : Preemptive(c)' <=> Preemptive(c)
  BY DEF Preemptive
<1> QED
  BY <1>1, <1>2, <1>3

(* A task that create_task is working on is on no queue yet. *)
LEMMA NewTaskFree ==
    ASSUME QueueInv, TypeOK, NEW c \in CPU, todo[c] \in DOMAIN Boot[c]
    PROVE  /\ NewTask(c) \in Task /\ NewTask(c) \in Thread
           /\ \A d \in CPU : ~On(NewTask(c), d) /\ NewTask(c) \notin Own(d)
<1>1. Boot[c] \in Seq(Task) /\ todo[c] \in Nat
  BY SchedAssumption DEF TypeOK
<1>2. NewTask(c) \in Task
  BY <1>1 DEF NewTask
<1>3. ASSUME NEW d \in CPU, On(NewTask(c), d) PROVE FALSE
  <2>1. PICK e \in CPU : \E i \in DOMAIN Boot[e] : i < todo[e] /\ Boot[e][i] = NewTask(c)
    BY <1>2, <1>3 DEF QueueInv
  <2>2. PICK i \in DOMAIN Boot[e] : i < todo[e] /\ Boot[e][i] = NewTask(c)
    BY <2>1
  <2>3. e = c /\ i = todo[c]
    BY <2>2, SchedAssumption DEF NewTask
  <2> QED
    BY <1>1, <2>2, <2>3
<1> QED
  BY <1>2, <1>3, OwnFacts, ThreadFacts

(* A step of CPU c that touches nothing but what belongs to c. *)
Local(c) ==
    /\ UNCHANGED <<queue, todo, boot, scan>>
    /\ \A d \in CPU : d # c => /\ run'[d] = run[d] /\ current'[d] = current[d]
                               /\ cr3'[d] = cr3[d] /\ cr2'[d] = cr2[d]
    /\ run'[c] \in Own(c) \cup {Lost} /\ current'[c] \in Own(c) \cup {Null}
    /\ \A x \in Thread : IF x \in Own(c) THEN sp'[x] \in Own(c) \cup {Stale}
                                         ELSE sp'[x] = sp[x]
    /\ \A t \in Task : IF On(t, c)
                       THEN /\ prev'[t] \in Own(c) \cup {Null} /\ next'[t] \in Own(c) \cup {Null}
                            /\ pc'[t] \in Switching => next'[t] # Null
                       ELSE prev'[t] = prev[t] /\ next'[t] = next[t] /\ pc'[t] = pc[t]
    /\ \A d \in CPU : status[d] # "OFFLINE" => status'[d] # "OFFLINE"
    /\ \A t \in Task : saved'[t] # "OFFLINE"
    /\ Preemptive(c) => Agree(c)'

(* Such a step keeps the invariant: no other CPU's threads are affected. *)
LEMMA LocalStep ==
    ASSUME IInv, TypeOK', NEW c \in CPU, Local(c)
    PROVE  IInv'
<1>1. TypeOK /\ QueueInv /\ HomeInv /\ CreateInv /\ PreemptInv /\ OnlineInv
  BY DEF IInv
<1>2. /\ \A d : Own(d)' = Own(d) /\ (Preemptive(d)' <=> Preemptive(d))
      /\ \A t, e : On(t, e)' <=> On(t, e)
  BY SameQueue DEF Local
<1>3. UNCHANGED <<queue, todo, boot, scan>>
  BY DEF Local
<1>4. QueueInv'
  BY <1>1, <1>2, <1>3 DEF QueueInv
<1>5. HomeInv'
  <2>1. \A d \in CPU : run'[d] \in Own(d) \cup {Lost} /\ current'[d] \in Own(d) \cup {Null}
    BY <1>1 DEF Local, HomeInv
  <2>2. \A d \in CPU : sp'[Idle(d)] \in Own(d) \cup {Stale}
    <3>1. \A d \in CPU : Idle(d) \in Thread /\ (d # c => Idle(d) \notin Own(c)) /\ Idle(c) \in Own(c)
      BY <1>1, OwnFacts, ThreadFacts
    <3> QED
      BY <1>1, <3>1 DEF Local, HomeInv
  <2>3. \A t \in Task : t \in Thread
    BY ThreadFacts
  <2>4. \A t \in Task, d \in CPU : On(t, d) =>
            /\ prev'[t] \in Own(d) \cup {Null}
            /\ next'[t] \in Own(d) \cup {Null}
            /\ sp'[t] \in Own(d) \cup {Stale}
    <3> SUFFICES ASSUME NEW t \in Task, NEW d \in CPU, On(t, d)
                 PROVE  /\ prev'[t] \in Own(d) \cup {Null}
                        /\ next'[t] \in Own(d) \cup {Null}
                        /\ sp'[t] \in Own(d) \cup {Stale}
      OBVIOUS
    <3>1. CASE d = c
      BY <1>1, <2>3, <3>1, OwnFacts DEF Local
    <3>2. CASE d # c
      <4>1. ~On(t, c) /\ t \notin Own(c)
        BY <1>1, <3>2, OwnFacts DEF QueueInv
      <4> QED
        BY <1>1, <2>3, <4>1 DEF Local, HomeInv
    <3> QED
      BY <3>1, <3>2
  <2>5. \A t \in Task : pc'[t] \in Switching => next'[t] # Null
    BY <1>1 DEF Local, HomeInv
  <2>6. \A t \in Task : (\A d \in CPU : ~On(t, d)) =>
            pc'[t] = "user" /\ prev'[t] = Null /\ next'[t] = Null /\ sp'[t] \in {t, Stale}
    BY <1>1, <2>3, OwnFacts DEF Local, HomeInv
  <2> QED
    BY <1>2, <2>1, <2>2, <2>4, <2>5, <2>6 DEF HomeInv
<1>6. CreateInv'
  <2> SUFFICES ASSUME NEW d \in CPU, boot[d] = "scan"
               PROVE  todo[d] \in DOMAIN Boot[d] /\ sp'[NewTask(d)] = NewTask(d)
    BY <1>3 DEF CreateInv, NewTask
  <2>1. todo[d] \in DOMAIN Boot[d] /\ sp[NewTask(d)] = NewTask(d)
    BY <1>1 DEF CreateInv
  <2>2. NewTask(d) \in Thread /\ NewTask(d) \notin Own(c)
    BY <1>1, <2>1, NewTaskFree
  <2> QED
    BY <2>1, <2>2 DEF Local
<1>7. PreemptInv'
  <2> SUFFICES ASSUME NEW d \in CPU, Preemptive(d) PROVE Agree(d)'
    BY <1>2 DEF PreemptInv
  <2>1. CASE d = c
    BY <2>1 DEF Local
  <2>2. CASE d # c
    <3>1. Agree(d)
      BY <1>1 DEF PreemptInv
    <3>2. run'[d] = run[d] /\ current'[d] = current[d] /\ cr3'[d] = cr3[d] /\ cr2'[d] = cr2[d]
      BY <2>2 DEF Local
    <3>3. \A x \in Thread : x \in Own(d) => sp'[x] = sp[x]
      BY <1>1, <2>2, OwnFacts DEF Local
    <3>4. \A t \in Task : On(t, d) => pc'[t] = pc[t]
      BY <1>1, <2>2 DEF Local, QueueInv
    <3> QED
      BY <1>2, <3>1, <3>2, <3>3, <3>4 DEF Agree
  <2> QED
    BY <2>1, <2>2
<1>8. OnlineInv'
  <2>1. \A d \in CPU : scan[d].min \in CPU
    BY <1>1 DEF TypeOK
  <2> QED
    BY <1>1, <1>3, <2>1, ThreadFacts DEF OnlineInv, TasksOnOnlineCpus, Local
<1> QED
  BY <1>4, <1>5, <1>6, <1>7, <1>8 DEF IInv
(* What holds of the task that executes on CPU c. *)
LEMMA RunningFacts ==
    ASSUME IInv, NEW c \in CPU, run[c] \in Task
    PROVE  /\ On(run[c], c) /\ run[c] \in Own(c) /\ run[c] \in Thread
           /\ prev[run[c]] \in Own(c) \cup {Null} /\ next[run[c]] \in Own(c) \cup {Null}
           /\ status[c] # "OFFLINE"
           /\ Preemptive(c) => /\ pc[run[c]] \in {"user", "fault", "return"}
                               /\ Op(run[c]) \in {"touch", "compute"}
                               /\ cr2[c] # "bad"
<1>1. TypeOK /\ QueueInv /\ HomeInv /\ PreemptInv /\ OnlineInv
  BY DEF IInv
<1>2. run[c] # Lost /\ run[c] \in Thread
  BY ThreadFacts
<1>3. run[c] \in Own(c) /\ On(run[c], c)
  BY <1>1, <1>2, OwnFacts DEF HomeInv
<1>4. prev[run[c]] \in Own(c) \cup {Null} /\ next[run[c]] \in Own(c) \cup {Null}
  BY <1>1, <1>3 DEF HomeInv
<1>5. status[c] # "OFFLINE"
  <2>1. queue[c] # <<>>
    BY <1>3 DEF On
  <2> QED
    BY <1>1, <2>1 DEF OnlineInv, TasksOnOnlineCpus
<1>6. ASSUME Preemptive(c)
      PROVE  /\ pc[run[c]] \in {"user", "fault", "return"} /\ cr2[c] # "bad"
             /\ Op(run[c]) \in {"touch", "compute"}
  <2>1. Agree(c)
    BY <1>1, <1>6 DEF PreemptInv
  <2>2. \A k \in DOMAIN Prog[run[c]] : Prog[run[c]][k] = "touch"
    BY <1>3, <1>6 DEF On, Preemptive
  <2>3. ip[run[c]] \in Nat \ {0} /\ Prog[run[c]] \in Seq({"touch", "bad", "yield"})
    BY <1>1, SchedAssumption DEF TypeOK
  <2>4. Op(run[c]) \in {"touch", "compute"}
    BY <2>2, <2>3 DEF Op
  <2> QED
    BY <1>3, <2>1, <2>4 DEF Agree
<1> QED
  BY <1>2, <1>3, <1>4, <1>5, <1>6

(* A step that leaves rq->current, the page table and the stacks alone, and  *)
(* changes only the locals of the running task, is local if it only picks    *)
(* what belongs to the CPU.                                                  *)
LEMMA ScheduleLocal ==
    ASSUME IInv, NEW c \in CPU, run[c] \in Task,
           UNCHANGED <<queue, todo, boot, scan, run, current, cr3, sp>>,
           \A d \in CPU : d # c => cr2'[d] = cr2[d],
           \A t \in Task : t # run[c] => /\ prev'[t] = prev[t] /\ next'[t] = next[t]
                                         /\ pc'[t] = pc[t],
           prev'[run[c]] \in Own(c) \cup {Null}, next'[run[c]] \in Own(c) \cup {Null},
           pc'[run[c]] \in Switching => next'[run[c]] # Null,
           \A d \in CPU : status[d] # "OFFLINE" => status'[d] # "OFFLINE",
           \A t \in Task : saved'[t] # "OFFLINE",
           Preemptive(c) => cr2'[c] # "bad" /\ pc'[run[c]] \in {"user", "fault", "return"}
    PROVE  Local(c)
<1>1. TypeOK /\ QueueInv /\ HomeInv /\ PreemptInv /\ OnlineInv
  BY DEF IInv
<1>2. /\ \A d : Own(d)' = Own(d) /\ \A t, e : On(t, e)' <=> On(t, e)
  BY SameQueue
<1>3. \A x \in Thread : IF x \in Own(c) THEN sp'[x] \in Own(c) \cup {Stale}
                                        ELSE sp'[x] = sp[x]
  <2>1. \A x \in Thread : x \in Own(c) => sp[x] \in Own(c) \cup {Stale}
    BY <1>1, OwnFacts, ThreadFacts DEF HomeInv, Own
  <2> QED
    BY <2>1
<1>4. \A t \in Task : IF On(t, c)
                      THEN /\ prev'[t] \in Own(c) \cup {Null} /\ next'[t] \in Own(c) \cup {Null}
                           /\ pc'[t] \in Switching => next'[t] # Null
                      ELSE prev'[t] = prev[t] /\ next'[t] = next[t] /\ pc'[t] = pc[t]
  BY <1>1, RunningFacts DEF HomeInv
<1>5. Preemptive(c) => Agree(c)'
  BY <1>1, <1>2 DEF PreemptInv, Agree
<1>6. run'[c] \in Own(c) \cup {Lost} /\ current'[c] \in Own(c) \cup {Null}
  BY <1>1 DEF HomeInv
<1> QED
  BY <1>3, <1>4, <1>5, <1>6 DEF Local

(* The page fault, schedule() up to the page table and what comes after it. *)
LEMMA RunLocal ==
    ASSUME IInv, NEW c \in CPU,
           \/ PageFault(c) \/ MapPage(c) \/ FaultReturn(c) \/ task_exit(c) \/ Yield(c)
           \/ PickNext(c) \/ YieldReturns(c) \/ ExitReturns(c)
    PROVE  Local(c)
<1>1. TypeOK /\ QueueInv /\ HomeInv /\ PreemptInv /\ OnlineInv
  BY DEF IInv
<1>2. /\ run[c] \in Task
      /\ UNCHANGED <<queue, todo, boot, scan, run, current, cr3, sp>>
  BY DEF PageFault, MapPage, FaultReturn, task_exit, Yield, PickNext, YieldReturns,
         ExitReturns, At, bootVars, taskVars, switchVars
<1>3. /\ pc \in [Task -> {"user", "fault", "return", "pick", "mm", "current", "save",
                          "load", "back"}]
      /\ prev \in [Task -> Thread \cup {Null}] /\ next \in [Task -> Thread \cup {Null}]
      /\ status \in [CPU -> {"OFFLINE", "IDLE", "EXCEPTION"}]
      /\ saved \in [Task -> {"OFFLINE", "IDLE", "EXCEPTION"}]
      /\ cr2 \in [CPU -> {"zero", "touch", "bad"}]
  BY <1>1 DEF TypeOK
<1>4. /\ On(run[c], c) /\ run[c] \in Own(c) /\ status[c] # "OFFLINE"
      /\ prev[run[c]] \in Own(c) \cup {Null} /\ next[run[c]] \in Own(c) \cup {Null}
      /\ current[c] \in Own(c) \cup {Null}
      /\ \A t \in Task : saved[t] # "OFFLINE"
      /\ Preemptive(c) => /\ pc[run[c]] \in {"user", "fault", "return"}
                          /\ Op(run[c]) \in {"touch", "compute"}
                          /\ cr2[c] # "bad"
  BY <1>1, <1>2, RunningFacts DEF HomeInv, OnlineInv
<1>5. CASE PageFault(c)
  BY <1>2, <1>3, <1>4, <1>5, ScheduleLocal DEF PageFault, At, GoTo, Switching
<1>6. CASE MapPage(c)
  BY <1>2, <1>3, <1>4, <1>6, ScheduleLocal DEF MapPage, At, GoTo, Switching
<1>7. CASE FaultReturn(c)
  BY <1>2, <1>3, <1>4, <1>7, ScheduleLocal DEF FaultReturn, At, GoTo, Switching
<1>8. CASE task_exit(c)
  BY <1>2, <1>3, <1>4, <1>8, ScheduleLocal DEF task_exit, At, GoTo, Switching
<1>9. CASE Yield(c)
  BY <1>2, <1>3, <1>4, <1>9, ScheduleLocal DEF Yield, At, GoTo, Switching, faultVars
<1>10. CASE PickNext(c)
  <2>1. PICK n \in pick_next_task(c) :
          /\ next' = [next EXCEPT ![run[c]] = n]
          /\ GoTo(c, IF n = prev[run[c]] THEN "back" ELSE "mm")
    BY <1>10 DEF PickNext
  <2>2. n \in Own(c) /\ n \in Thread /\ n # Null
    BY <1>1, PickFacts, ThreadFacts
  <2>3. pc[run[c]] = "pick" /\ UNCHANGED <<status, prev, saved, cr2>>
    BY <1>10 DEF PickNext, At, faultVars
  <2>4. /\ \A t \in Task : t # run[c] => next'[t] = next[t] /\ pc'[t] = pc[t]
        /\ next'[run[c]] = n
    BY <1>2, <1>3, <2>1 DEF GoTo
  <2> QED
    BY <1>2, <1>4, <2>2, <2>3, <2>4, ScheduleLocal
<1>11. CASE YieldReturns(c)
  BY <1>2, <1>3, <1>4, <1>11, ScheduleLocal DEF YieldReturns, At, GoTo, Switching, faultVars
<1>12. CASE ExitReturns(c)
  BY <1>2, <1>3, <1>4, <1>12, ScheduleLocal DEF ExitReturns, At, GoTo, Switching
<1> QED
  BY <1>5, <1>6, <1>7, <1>8, <1>9, <1>10, <1>11, <1>12
(* No stack pointer of what belongs to another CPU points into c's stacks. *)
LEMMA ForeignSp ==
    ASSUME IInv, NEW c \in CPU, NEW x \in Thread, x \notin Own(c),
           sp[x] \in Own(c) \cup {Stale}
    PROVE  sp[x] = Stale
<1>1. TypeOK /\ QueueInv /\ HomeInv
  BY DEF IInv
<1>2. x \in Task \/ \E d \in CPU : d # c /\ x = Idle(d)
  BY <1>1, ThreadFacts, OwnFacts
<1>3. CASE \E d \in CPU : d # c /\ sp[x] \in Own(d) \cup {Stale}
  BY <1>1, <1>3, OwnFacts
<1>4. CASE \E d \in CPU : d # c /\ x = Idle(d)
  BY <1>1, <1>3, <1>4 DEF HomeInv
<1>5. CASE x \in Task
  <2>1. CASE \E d \in CPU : On(x, d)
    BY <1>1, <1>3, <1>5, <2>1, OwnFacts DEF HomeInv
  <2>2. CASE \A d \in CPU : ~On(x, d)
    BY <1>1, <1>5, <2>2 DEF HomeInv
  <2> QED
    BY <2>1, <2>2
<1> QED
  BY <1>2, <1>4, <1>5

(* The rest of schedule(): the page table, rq->current and the stacks.  None *)
(* of it happens where only the timer preempts.                              *)
LEMMA SwitchLocal ==
    ASSUME IInv, NEW c \in CPU, SwitchMm(c) \/ SetCurrent(c) \/ SaveSp(c) \/ LoadSp(c)
    PROVE  Local(c)
<1>1. TypeOK /\ QueueInv /\ HomeInv /\ OnlineInv
  BY DEF IInv
<1>2. /\ run[c] \in Task /\ pc[run[c]] \in Switching
      /\ UNCHANGED <<queue, todo, boot, scan, status, prev, next, saved, cr2>>
  BY DEF SwitchMm, SetCurrent, SaveSp, LoadSp, At, bootVars, taskVars, faultVars, Switching
<1>3. /\ pc \in [Task -> {"user", "fault", "return", "pick", "mm", "current", "save",
                          "load", "back"}]
      /\ next \in [Task -> Thread \cup {Null}] /\ prev \in [Task -> Thread \cup {Null}]
      /\ current \in [CPU -> Thread \cup {Null}] /\ cr3 \in [CPU -> Thread \cup {Null}]
      /\ sp \in [Thread -> Thread \cup {Main(d) : d \in CPU} \cup {Stale}]
  BY <1>1 DEF TypeOK
<1>4. /\ On(run[c], c) /\ run[c] \in Own(c) /\ run[c] \in Thread
      /\ prev[run[c]] \in Own(c) \cup {Null}
      /\ next[run[c]] \in Own(c) /\ next[run[c]] \in Thread
      /\ ~Preemptive(c)
  BY <1>1, <1>2, <1>3, RunningFacts DEF HomeInv, Switching
<1>5. \A x \in Thread : x \in Own(c) => sp[x] \in Own(c) \cup {Stale}
  BY <1>1, OwnFacts, ThreadFacts DEF HomeInv, Own
<1>6. \A t \in Task : IF On(t, c)
                      THEN /\ prev'[t] \in Own(c) \cup {Null} /\ next'[t] \in Own(c) \cup {Null}
                           /\ pc'[t] \in Switching => next'[t] # Null
                      ELSE prev'[t] = prev[t] /\ next'[t] = next[t] /\ pc'[t] = pc[t]
  <2>1. \A t \in Task : t # run[c] => pc'[t] = pc[t]
    BY <1>2, <1>3 DEF SwitchMm, SetCurrent, SaveSp, LoadSp, GoTo
  <2> QED
    BY <1>1, <1>2, <1>4, <2>1 DEF HomeInv
<1>7. /\ \A d \in CPU : d # c => /\ run'[d] = run[d] /\ current'[d] = current[d]
                                 /\ cr3'[d] = cr3[d] /\ cr2'[d] = cr2[d]
      /\ current'[c] \in Own(c) \cup {Null}
      /\ run'[c] \in Own(c) \cup {Lost}
      /\ \A x \in Thread : IF x \in Own(c) THEN sp'[x] \in Own(c) \cup {Stale}
                                           ELSE sp'[x] = sp[x]
  <2>1. run[c] \in Own(c) /\ current[c] \in Own(c) \cup {Null}
    BY <1>1, <1>4 DEF HomeInv
  <2>2. CASE SwitchMm(c)
    BY <1>2, <1>3, <1>5, <2>1, <2>2 DEF SwitchMm
  <2>3. CASE SetCurrent(c)
    BY <1>2, <1>3, <1>4, <1>5, <2>1, <2>3 DEF SetCurrent
  <2>4. CASE SaveSp(c)
    <3>1. UNCHANGED <<run, current, cr3>> /\ sp' = [sp EXCEPT ![prev[run[c]]] = run[c]]
      BY <2>4 DEF SaveSp
    <3>2. \A x \in Thread : sp'[x] = IF x = prev[run[c]] THEN run[c] ELSE sp[x]
      BY <1>3, <3>1
    <3>3. \A x \in Thread : x = prev[run[c]] => x \in Own(c)
      BY <1>4, ThreadFacts
    <3> QED
      BY <1>2, <1>4, <1>5, <2>1, <3>1, <3>2, <3>3
  <2>5. CASE LoadSp(c)
    <3>1. UNCHANGED <<current, cr3>> /\ ReturnOn(c, sp, sp[next[run[c]]])
      BY <2>5 DEF LoadSp
    <3> DEFINE y == sp[next[run[c]]]
    <3>2. y \in Own(c) \cup {Stale} /\ y \in Thread \cup {Main(d) : d \in CPU} \cup {Stale}
      BY <1>3, <1>4, <1>5
    <3> HIDE DEF y
    <3>3. /\ run'[c] = IF y = Stale THEN Lost ELSE y
          /\ \A d \in CPU : d # c => run'[d] = run[d]
          /\ \A x \in Thread : sp'[x] = IF sp[x] = y THEN Stale ELSE sp[x]
      BY <1>1, <1>3, <3>1, <3>2, ReturnFacts DEF y
    <3>4. \A x \in Thread : x \notin Own(c) => sp'[x] = sp[x]
      BY <3>2, <3>3, ForeignSp
    <3> QED
      BY <1>2, <1>5, <2>1, <3>1, <3>2, <3>3, <3>4
  <2> QED
    BY <2>2, <2>3, <2>4, <2>5
<1> QED
  BY <1>1, <1>2, <1>4, <1>6, <1>7 DEF Local, OnlineInv

(* The idle task sets cpu->status and halts. *)
LEMMA IdleLocal ==
    ASSUME IInv, NEW c \in CPU, IdleLoop(c)
    PROVE  Local(c)
<1>1. TypeOK /\ QueueInv /\ HomeInv /\ PreemptInv /\ OnlineInv
  BY DEF IInv
<1>2. /\ UNCHANGED <<queue, todo, boot, scan, run, current, cr3, cr2, sp, pc, prev, next, saved>>
      /\ status' = [status EXCEPT ![c] = "IDLE"]
  BY DEF IdleLoop, taskVars, bootVars, switchVars, localVars
<1>3. /\ \A d : Own(d)' = Own(d) /\ \A t, e : On(t, e)' <=> On(t, e)
  BY <1>2, SameQueue
<1>4. \A x \in Thread : IF x \in Own(c) THEN sp'[x] \in Own(c) \cup {Stale}
                                        ELSE sp'[x] = sp[x]
  BY <1>1, <1>2, OwnFacts, ThreadFacts DEF HomeInv, Own
<1>5. \A t \in Task : IF On(t, c)
                      THEN /\ prev'[t] \in Own(c) \cup {Null} /\ next'[t] \in Own(c) \cup {Null}
                           /\ pc'[t] \in Switching => next'[t] # Null
                      ELSE prev'[t] = prev[t] /\ next'[t] = next[t] /\ pc'[t] = pc[t]
  BY <1>1, <1>2 DEF HomeInv
<1>6. Preemptive(c) => Agree(c)'
  BY <1>1, <1>2, <1>3 DEF PreemptInv, Agree
<1>7. \A d \in CPU : status[d] # "OFFLINE" => status'[d] # "OFFLINE"
  BY <1>1, <1>2 DEF TypeOK
<1>8. run'[c] \in Own(c) \cup {Lost} /\ current'[c] \in Own(c) \cup {Null}
  BY <1>1, <1>2 DEF HomeInv
<1> QED
  BY <1>1, <1>2, <1>4, <1>5, <1>6, <1>7, <1>8 DEF Local, OnlineInv
(* A timer interrupt saves, picks and resumes what belongs to its CPU; where *)
(* only it preempts, the thread it returns to is current, on its own stack   *)
(* and on its own page table.                                                *)
LEMMA TickLocal ==
    ASSUME IInv, NEW c \in CPU, Tick(c)
    PROVE  Local(c)
<1>1. TypeOK /\ QueueInv /\ HomeInv /\ PreemptInv /\ OnlineInv
  BY DEF IInv
<1>2. PICK n \in Thread :
        /\ n \in Own(c) /\ n # Main(c)
        /\ current' = [current EXCEPT ![c] = n]
        /\ cr3' = [cr3 EXCEPT ![c] = IF n = current[c] THEN cr3[c] ELSE n]
        /\ ReturnOn(c, set_current_task_stack(c), set_current_task_stack(c)[n])
  BY <1>1, TickFacts
<1>3. /\ run[c] # Lost
      /\ UNCHANGED <<queue, todo, boot, scan, pc, prev, next, saved, cr2, status>>
  BY <1>1, TickFacts DEF taskVars, bootVars, localVars
<1>4. /\ run[c] \in Own(c) /\ current[c] \in Own(c) \cup {Null}
      /\ current \in [CPU -> Thread \cup {Null}] /\ cr3 \in [CPU -> Thread \cup {Null}]
  BY <1>1, <1>3 DEF HomeInv, TypeOK
<1>5. \A x \in Thread : x \in Own(c) => sp[x] \in Own(c) \cup {Stale}
  BY <1>1, OwnFacts, ThreadFacts DEF HomeInv, Own
<1> DEFINE saves == set_current_task_stack(c)
           y == saves[n]
<1>6. /\ saves \in [Thread -> Thread \cup {Main(d) : d \in CPU} \cup {Stale}]
      /\ \A x \in Thread : saves[x] = IF x = current[c] THEN run[c] ELSE sp[x]
  BY <1>1, <1>3, SavesFacts
<1>7. ReturnOn(c, saves, y) /\ y = saves[n]
  BY <1>2
<1> HIDE DEF saves, y
<1>8. y \in Thread \cup {Main(d) : d \in CPU} \cup {Stale} /\ y \in Own(c) \cup {Stale}
  BY <1>2, <1>4, <1>5, <1>6, <1>7
<1>9. /\ run'[c] = IF y = Stale THEN Lost ELSE y
      /\ \A d \in CPU : d # c => run'[d] = run[d]
      /\ \A x \in Thread : sp'[x] = IF saves[x] = y THEN Stale ELSE saves[x]
  BY <1>1, <1>6, <1>7, <1>8, ReturnFacts
<1>10. \A x \in Thread : x \notin Own(c) => sp'[x] = sp[x]
  <2>1. \A x \in Thread : x \notin Own(c) => saves[x] = sp[x]
    BY <1>4, <1>6, ThreadFacts
  <2> QED
    BY <1>8, <1>9, <2>1, ForeignSp
<1>11. \A x \in Thread : x \in Own(c) => sp'[x] \in Own(c) \cup {Stale}
  BY <1>4, <1>5, <1>6, <1>9
<1>12. /\ current'[c] = n /\ cr3'[c] = IF n = current[c] THEN cr3[c] ELSE n
       /\ \A d \in CPU : d # c => current'[d] = current[d] /\ cr3'[d] = cr3[d]
  BY <1>2, <1>4
<1>13. \A t \in Task : IF On(t, c)
                       THEN /\ prev'[t] \in Own(c) \cup {Null} /\ next'[t] \in Own(c) \cup {Null}
                            /\ pc'[t] \in Switching => next'[t] # Null
                       ELSE prev'[t] = prev[t] /\ next'[t] = next[t] /\ pc'[t] = pc[t]
  BY <1>1, <1>3 DEF HomeInv
<1>14. ASSUME Preemptive(c) PROVE Agree(c)'
  <2>1. Agree(c)
    BY <1>1, <1>14 DEF PreemptInv
  <2>2. /\ \A x \in Thread : x \in Own(c) => sp[x] \in {x, Stale} /\ (x # run[c] => sp[x] = x)
        /\ IF current[c] = Null THEN run[c] = Main(c)
                                ELSE run[c] = current[c] /\ cr3[c] = current[c]
    BY <2>1 DEF Agree
  <2>3. \A x \in Thread : x \in Own(c) => saves[x] = x
    BY <1>4, <1>6, <2>2, ThreadFacts
  <2>4. y = n /\ n # Stale /\ n # Null
    BY <1>2, <1>7, <2>3, ThreadFacts
  <2>5. run'[c] = n
    BY <1>9, <2>4
  <2>6. \A x \in Thread : x \in Own(c) => sp'[x] = IF x = n THEN Stale ELSE x
    BY <1>9, <2>3, <2>4
  <2>7. cr3'[c] = n
    BY <1>12, <2>2, <2>4
  <2>8. \A x : (x \in Own(c))' <=> x \in Own(c)
    BY <1>3, SameQueue
  <2>9. \A t \in Task : On(t, c)' <=> On(t, c)
    BY <1>3, SameQueue
  <2> QED
    BY <1>2, <1>3, <1>12, <2>1, <2>4, <2>5, <2>6, <2>7, <2>8, <2>9 DEF Agree
<1>15. run'[c] \in Own(c) \cup {Lost} /\ current'[c] \in Own(c) \cup {Null}
  BY <1>2, <1>8, <1>9, <1>12
<1> QED
  BY <1>1, <1>3, <1>9, <1>10, <1>11, <1>12, <1>13, <1>14, <1>15 DEF Local, OnlineInv

-------------------------------------------------------------------------------
(* The steps of the bring-up that touch no thread, *)
LEMMA BootQuiet ==
    ASSUME IInv,
           WakeAp \/ ApIsIdle \/ \E c \in CPU : ApInit(c) \/ cpu_min_load(c) \/ StartTimer(c)
    PROVE  IInv'
<1>1. TypeOK /\ QueueInv /\ HomeInv /\ CreateInv /\ PreemptInv /\ OnlineInv
  BY DEF IInv
<1>2. UNCHANGED <<queue, todo, run, current, cr3, cr2, sp, pc, prev, next, saved>>
  BY DEF WakeAp, ApIsIdle, ApInit, cpu_min_load, StartTimer, taskVars, switchVars, localVars
<1>3. TypeOK'
  BY TypeBoot DEF BootStep
<1>4. /\ \A d : Own(d)' = Own(d) /\ (Preemptive(d)' <=> Preemptive(d))
      /\ \A t, e : On(t, e)' <=> On(t, e)
  BY <1>2, SameQueue
<1>5. QueueInv'
  BY <1>1, <1>2, <1>4 DEF QueueInv
<1>6. HomeInv'
  BY <1>1, <1>2, <1>4 DEF HomeInv
<1>7. PreemptInv'
  BY <1>1, <1>2, <1>4 DEF PreemptInv, Agree
<1>8. CreateInv'
  <2>1. \A c \in CPU : boot'[c] = "scan" => boot[c] = "scan"
    BY <1>1 DEF WakeAp, ApIsIdle, ApInit, cpu_min_load, StartTimer, TypeOK
  <2> QED
    BY <1>1, <1>2, <2>1 DEF CreateInv, NewTask
<1>9. OnlineInv'
  <2>1. /\ status \in [CPU -> {"OFFLINE", "IDLE", "EXCEPTION"}]
        /\ scan \in [CPU -> [i : 0 .. N, min : CPU, len : Nat]]
    BY <1>1 DEF TypeOK
  <2>2. \A d \in CPU : status[d] # "OFFLINE" => status'[d] # "OFFLINE"
    BY <2>1 DEF WakeAp, ApIsIdle, ApInit, cpu_min_load, StartTimer
  <2>3. \A d \in CPU : status[scan'[d].min] # "OFFLINE" /\ scan'[d].min \in CPU
    <3>1. CASE UNCHANGED scan
      BY <1>1, <2>1, <3>1 DEF OnlineInv
    <3>2. ASSUME NEW c \in CPU, cpu_min_load(c)
          PROVE  \A d \in CPU : status[scan'[d].min] # "OFFLINE" /\ scan'[d].min \in CPU
      <4>1. /\ scan[c] \in [i : 0 .. N, min : CPU, len : Nat] /\ scan[c].i \in CPU
            /\ scan \in [CPU -> [i : 0 .. N, min : CPU, len : Nat]]
        BY <2>1, <3>2 DEF cpu_min_load
      <4>2. CASE scan' = [scan EXCEPT ![c] = [scan[c] EXCEPT !.i = scan[c].i + 1]]
        <5>1. [scan[c] EXCEPT !.i = scan[c].i + 1].min = scan[c].min
          BY <4>1
        <5>2. \A d \in CPU : scan'[d].min = scan[d].min
          BY <4>1, <4>2, <5>1
        <5> QED
          BY <1>1, <4>1, <5>2 DEF OnlineInv
      <4>3. CASE /\ status[scan[c].i] # "OFFLINE"
                 /\ scan' = [scan EXCEPT ![c] = [i |-> scan[c].i + 1, min |-> scan[c].i,
                                                 len |-> Len(queue[scan[c].i])]]
        <5>1. scan'[c].min = scan[c].i /\ \A d \in CPU : d # c => scan'[d] = scan[d]
          BY <4>1, <4>3
        <5> QED
          BY <1>1, <4>1, <4>3, <5>1 DEF OnlineInv
      <4> QED
        BY <3>2, <4>2, <4>3 DEF cpu_min_load
    <3> QED
      BY <3>1, <3>2 DEF WakeAp, ApIsIdle, ApInit, StartTimer
  <2> QED
    BY <1>1, <1>2, <2>2, <2>3, ThreadFacts DEF OnlineInv, TasksOnOnlineCpus
<1> QED
  BY <1>3, <1>5, <1>6, <1>7, <1>8, <1>9 DEF IInv
(* create_task makes a task that is not on a queue yet, *)
LEMMA CreateStep ==
    ASSUME IInv, NEW c \in CPU, create_task(c)
    PROVE  IInv'
<1>1. TypeOK /\ QueueInv /\ HomeInv /\ CreateInv /\ PreemptInv /\ OnlineInv
  BY DEF IInv
<1>2. /\ UNCHANGED <<queue, todo, run, current, cr3, cr2, status, pc, prev, next, saved>>
      /\ boot[c] = "create" /\ todo[c] <= Len(Boot[c])
      /\ boot' = [boot EXCEPT ![c] = "scan"]
      /\ scan' = [scan EXCEPT ![c] = [i |-> 0, min |-> 0, len |-> NoLength]]
      /\ sp' = [sp EXCEPT ![NewTask(c)] = NewTask(c)]
  BY DEF create_task, taskVars, localVars
<1>3. TypeOK'
  BY TypeBoot DEF BootStep
<1>4. /\ \A d : Own(d)' = Own(d) /\ (Preemptive(d)' <=> Preemptive(d))
      /\ \A t, e : On(t, e)' <=> On(t, e)
  BY <1>2, SameQueue
<1>5. todo[c] \in DOMAIN Boot[c]
  <2>1. Boot[c] \in Seq(Task) /\ todo[c] \in Nat \ {0}
    BY <1>1, SchedAssumption DEF TypeOK
  <2> QED
    BY <1>2, <2>1
<1>6. /\ NewTask(c) \in Task /\ NewTask(c) \in Thread
      /\ \A d \in CPU : ~On(NewTask(c), d) /\ NewTask(c) \notin Own(d)
  BY <1>1, <1>5, NewTaskFree
<1>7. \A x \in Thread : sp'[x] = IF x = NewTask(c) THEN NewTask(c) ELSE sp[x]
  BY <1>1, <1>2, <1>6 DEF TypeOK
<1>8. \A d \in CPU, x \in Thread : x \in Own(d) => sp'[x] = sp[x]
  BY <1>6, <1>7
<1>9. QueueInv'
  BY <1>1, <1>2, <1>4 DEF QueueInv
<1>10. HomeInv'
  <2>1. \A d \in CPU : sp'[Idle(d)] = sp[Idle(d)]
    BY <1>1, <1>8, OwnFacts, ThreadFacts
  <2>2. \A t \in Task, d \in CPU : On(t, d) => sp'[t] = sp[t]
    BY <1>1, <1>8, OwnFacts, ThreadFacts
  <2>3. \A t \in Task : sp'[t] = sp[t] \/ sp'[t] = t
    BY <1>7, ThreadFacts
  <2> QED
    BY <1>1, <1>2, <1>4, <2>1, <2>2, <2>3 DEF HomeInv
<1>11. PreemptInv'
  BY <1>1, <1>2, <1>4, <1>8 DEF PreemptInv, Agree
<1>12. CreateInv'
  <2>1. \A d \in CPU : d # c /\ boot'[d] = "scan" => boot[d] = "scan"
    BY <1>1, <1>2 DEF TypeOK
  <2>2. \A d \in CPU : boot[d] = "scan" => NewTask(d) \in Thread
    BY <1>1, NewTaskFree DEF CreateInv
  <2>3. sp'[NewTask(c)] = NewTask(c)
    BY <1>6, <1>7
  <2>4. \A d \in CPU : boot[d] = "scan" => sp'[NewTask(d)] = NewTask(d)
    BY <1>1, <1>7, <2>2 DEF CreateInv
  <2>5. \A d \in CPU : NewTask(d)' = NewTask(d)
    BY <1>2 DEF NewTask
  <2> QED
    BY <1>1, <1>2, <1>5, <2>1, <2>3, <2>4, <2>5 DEF CreateInv
<1>13. OnlineInv'
  <2>1. \A d \in CPU : scan'[d].min = scan[d].min \/ scan'[d].min = 0
    BY <1>1, <1>2 DEF TypeOK
  <2> QED
    BY <1>1, <1>2, <2>1 DEF OnlineInv, TasksOnOnlineCpus
<1> QED
  BY <1>3, <1>9, <1>10, <1>11, <1>12, <1>13 DEF IInv

(* and puts it on one queue, of a CPU that has been found online. *)
LEMMA EnqueueStep ==
    ASSUME IInv, NEW c \in CPU, Enqueue(c)
    PROVE  IInv'
<1>1. TypeOK /\ QueueInv /\ HomeInv /\ CreateInv /\ PreemptInv /\ OnlineInv
  BY DEF IInv
<1>2. PICK m : m = scan[c].min
  OBVIOUS
<1>3. PICK new : new = NewTask(c)
  OBVIOUS
<1>4. /\ UNCHANGED <<run, current, cr3, cr2, sp, status, pc, prev, next, saved, scan>>
      /\ boot[c] = "scan" /\ boot' = [boot EXCEPT ![c] = "create"]
      /\ queue' = [queue EXCEPT ![m] = Append(queue[m], new)]
      /\ todo' = [todo EXCEPT ![c] = todo[c] + 1]
  BY <1>2, <1>3 DEF Enqueue, switchVars, localVars
<1>5. TypeOK'
  BY TypeBoot DEF BootStep
<1>6. /\ m \in CPU /\ status[m] # "OFFLINE"
      /\ todo[c] \in DOMAIN Boot[c] /\ sp[new] = new /\ todo[c] \in Nat
  BY <1>1, <1>4, <1>2, <1>3 DEF TypeOK, CreateInv, OnlineInv
<1>7. new \in Task /\ new \in Thread /\ \A d \in CPU : ~On(new, d) /\ new \notin Own(d)
  BY <1>1, <1>6, <1>3, NewTaskFree
<1>8. \A d \in CPU : d # m => queue'[d] = queue[d]
  BY <1>1, <1>4, <1>6 DEF TypeOK
<1>9. /\ queue[m] \in Seq(Task) /\ queue'[m] = Append(queue[m], new)
      /\ queue \in [CPU -> Seq(Task)]
  BY <1>1, <1>4, <1>6 DEF TypeOK
<1>10. Boot[c][todo[c]] = new
  BY <1>3 DEF NewTask
<1>11. \A t, d : d \in CPU => (On(t, d)' <=> On(t, d) \/ (d = m /\ t = new))
  <2>1. \A t, d : d \in CPU /\ d # m => (On(t, d)' <=> On(t, d))
    BY <1>8 DEF On
  <2>2. ASSUME NEW t PROVE On(t, m)' <=> On(t, m) \/ t = new
    <3>1. DOMAIN queue'[m] = DOMAIN queue[m] \cup {Len(queue[m]) + 1}
      BY <1>9
    <3>2. \A i \in DOMAIN queue[m] : queue'[m][i] = queue[m][i]
      BY <1>9
    <3>3. queue'[m][Len(queue[m]) + 1] = new
      BY <1>9
    <3>4. On(t, m)' <=> \E i \in DOMAIN queue'[m] : queue'[m][i] = t
      BY DEF On
    <3> QED
      BY <3>1, <3>2, <3>3, <3>4 DEF On
  <2> QED
    BY <1>6, <2>1, <2>2
<1>12. \A d \in CPU : \A x : x \in Own(d)' <=> x \in Own(d) \/ (d = m /\ x = new)
  BY <1>7, <1>11 DEF Own
<1>13. /\ \A d \in CPU : d # c => todo'[d] = todo[d] /\ boot'[d] = boot[d]
       /\ todo'[c] = todo[c] + 1 /\ boot'[c] = "create"
  BY <1>1, <1>4 DEF TypeOK
<1>14. QueueInv'
  <2>1. \A t \in Task, d \in CPU : On(t, d)' =>
            \E e \in CPU : \E i \in DOMAIN Boot[e] : i < todo'[e] /\ Boot[e][i] = t
    <3> SUFFICES ASSUME NEW t \in Task, NEW d \in CPU, On(t, d)'
                 PROVE  \E e \in CPU : \E i \in DOMAIN Boot[e] : i < todo'[e] /\ Boot[e][i] = t
      OBVIOUS
    <3>1. CASE On(t, d)
      <4>1. PICK e \in CPU : \E i \in DOMAIN Boot[e] : i < todo[e] /\ Boot[e][i] = t
        BY <1>1, <3>1 DEF QueueInv
      <4>2. PICK i \in DOMAIN Boot[e] : i < todo[e] /\ Boot[e][i] = t
        BY <4>1
      <4>3. Boot[e] \in Seq(Task) /\ i \in Nat /\ todo[e] \in Nat
        <5>1. Boot[e] \in Seq(Task)
          BY SchedAssumption
        <5>2. i \in Nat
          BY <5>1
        <5> QED
          BY <1>1, <5>1, <5>2 DEF TypeOK
      <4>4. i < todo'[e]
        BY <1>13, <4>2, <4>3
      <4> QED
        BY <4>2, <4>4
    <3>2. CASE t = new
      BY <1>6, <1>10, <1>13, <3>2
    <3> QED
      BY <1>11, <3>1, <3>2
  <2>2. \A t \in Task, d, e \in CPU : On(t, d)' /\ On(t, e)' => d = e
    BY <1>1, <1>7, <1>11 DEF QueueInv
  <2> QED
    BY <2>1, <2>2 DEF QueueInv
<1>15. HomeInv'
  <2>1. prev[new] = Null /\ next[new] = Null /\ new \in Own(m)'
    BY <1>1, <1>6, <1>7, <1>12 DEF HomeInv
  <2>2. \A t \in Task, d \in CPU : On(t, d)' =>
            /\ prev[t] \in Own(d)' \cup {Null}
            /\ next[t] \in Own(d)' \cup {Null}
            /\ sp[t] \in Own(d)' \cup {Stale}
    BY <1>1, <1>6, <1>11, <1>12, <2>1 DEF HomeInv
  <2>3. \A d \in CPU : /\ run[d] \in Own(d)' \cup {Lost} /\ current[d] \in Own(d)' \cup {Null}
                       /\ sp[Idle(d)] \in Own(d)' \cup {Stale}
    BY <1>1, <1>12 DEF HomeInv
  <2>4. \A t \in Task : (\A d \in CPU : ~On(t, d)') => \A d \in CPU : ~On(t, d)
    BY <1>11
  <2> QED
    BY <1>1, <1>4, <2>2, <2>3, <2>4 DEF HomeInv
<1>16. CreateInv'
  <2>1. \A d \in CPU : boot'[d] = "scan" =>
            todo'[d] \in DOMAIN Boot[d] /\ sp[Boot[d][todo'[d]]] = Boot[d][todo'[d]]
    BY <1>1, <1>13 DEF CreateInv, NewTask
  <2> QED
    BY <1>4, <2>1 DEF CreateInv, NewTask
<1>17. PreemptInv'
  <2> SUFFICES ASSUME NEW d \in CPU, Preemptive(d)' PROVE Agree(d)'
    BY DEF PreemptInv
  <2>1. Preemptive(d)
    <3>1. CASE d # m
      BY <1>8, <3>1 DEF Preemptive
    <3>2. CASE d = m
      <4>1. DOMAIN queue[m] \subseteq DOMAIN queue'[m]
        BY <1>6, <1>7, <1>9
      <4>2. \A i \in DOMAIN queue[m] : queue'[m][i] = queue[m][i]
        BY <1>6, <1>7, <1>9
      <4> QED
        BY <3>2, <4>1, <4>2 DEF Preemptive
    <3> QED
      BY <3>1, <3>2
  <2>2. Agree(d)
    BY <1>1, <2>1 DEF PreemptInv
  <2>3. pc[new] = "user"
    BY <1>1, <1>7 DEF HomeInv
  <2>4. \A x \in Thread : (x \in Own(d))' => sp[x] \in {x, Stale} /\ (x # run[d] => sp[x] = x)
    BY <1>6, <1>12, <2>2 DEF Agree
  <2>5. \A t \in Task : On(t, d)' => pc[t] \in {"user", "fault", "return"}
    BY <1>11, <2>2, <2>3 DEF Agree
  <2> QED
    BY <1>4, <2>2, <2>4, <2>5 DEF Agree
<1>18. OnlineInv'
  BY <1>1, <1>4, <1>6, <1>8 DEF OnlineInv, TasksOnOnlineCpus
<1> QED
  BY <1>5, <1>14, <1>15, <1>16, <1>17, <1>18 DEF IInv

-------------------------------------------------------------------------------
(* Nothing is on a queue at first, and nothing is current. *)
LEMMA InitIInv == Init => IInv
<1> SUFFICES ASSUME Init PROVE IInv
  OBVIOUS
<1> USE DEF Init
<1>1. \A t, c : c \in CPU => ~On(t, c)
  BY DEF On
<1>2. TypeOK
  <2>1. NoLength \in Nat
    BY SchedAssumption, FS_CardinalityType DEF NoLength
  <2>2. [i |-> 0, min |-> 0, len |-> NoLength] \in [i : 0 .. N, min : CPU, len : Nat]
    BY <2>1, ThreadFacts
  <2>3. scan \in [CPU -> [i : 0 .. N, min : CPU, len : Nat]]
    BY <2>2
  <2>4. sp \in [Thread -> Thread \cup {Main(d) : d \in CPU} \cup {Stale}]
    OBVIOUS
  <2>5. queue \in [CPU -> Seq(Task)]
    OBVIOUS
  <2>6. \A t \in Task : counter[t] <= prio[t]
    BY SchedAssumption
  <2>7. run \in [CPU -> Thread \cup {Main(c) : c \in CPU} \cup {Lost}]
    OBVIOUS
  <2> HIDE DEF Init
  <2>8. /\ current \in [CPU -> Thread \cup {Null}] /\ cr3 \in [CPU -> Thread \cup {Null}]
        /\ cr2 \in [CPU -> {"zero", "touch", "bad"}] /\ addr \in [Task -> {"zero", "touch", "bad"}]
        /\ status \in [CPU -> {"OFFLINE", "IDLE", "EXCEPTION"}]
        /\ state \in [Task -> {"NONE", "RUNNING", "KILLED"}]
        /\ counter \in [Task -> Nat] /\ cpu \in [Task -> CPU \cup {-1}]
    BY DEF Init
  <2>9. /\ boot \in [CPU -> {"off", "init", "wake", "check", "create", "scan", "done"}]
        /\ ap \in Nat /\ todo \in [CPU -> Nat \ {0}]
        /\ pc \in [Task -> {"user", "fault", "return", "pick", "mm", "current", "save",
                            "load", "back"}]
        /\ prev \in [Task -> Thread \cup {Null}] /\ next \in [Task -> Thread \cup {Null}]
        /\ saved \in [Task -> {"OFFLINE", "IDLE", "EXCEPTION"}]
        /\ ip \in [Task -> Nat \ {0}]
    BY DEF Init
  <2> QED
    BY <2>3, <2>4, <2>5, <2>6, <2>7, <2>8, <2>9 DEF TypeOK
<1>3. QueueInv
  BY <1>1 DEF QueueInv
<1>4. HomeInv
  <2>1. \A c \in CPU : run[c] \in Own(c) /\ sp[Idle(c)] \in Own(c)
    BY ThreadFacts DEF Own
  <2>2. \A t \in Task : sp[t] \in {t, Stale}
    BY ThreadFacts
  <2> QED
    BY <1>1, <2>1, <2>2 DEF HomeInv, Switching
<1>5. CreateInv
  BY DEF CreateInv
<1>6. PreemptInv
  <2>1. \A c \in CPU, x \in Thread : x \in Own(c) => x \in IdleTask
    BY <1>1, ThreadFacts DEF Own
  <2> QED
    BY <1>1, <2>1 DEF PreemptInv, Agree
<1>7. OnlineInv
  BY ThreadFacts DEF OnlineInv, TasksOnOnlineCpus
<1> QED
  BY <1>2, <1>3, <1>4, <1>5, <1>6, <1>7 DEF IInv

(* Every step of every CPU keeps the invariant. *)
LEMMA NextIInv == IInv /\ [Next]_vars => IInv'
<1>1. ASSUME IInv, NEW c \in CPU, Tick(c) PROVE IInv'
  BY <1>1, TypeTick, TickLocal, LocalStep
<1>2. ASSUME IInv, NEW c \in CPU, RunStep(c) PROVE IInv'
  <2>1. Local(c)
    BY <1>2, RunLocal, SwitchLocal, IdleLocal DEF RunStep
  <2> QED
    BY <1>2, <2>1, TypeRun, LocalStep
<1>3. ASSUME IInv, WakeAp \/ ApIsIdle \/ \E c \in CPU : BootStep(c) PROVE IInv'
  BY <1>3, BootQuiet, CreateStep, EnqueueStep DEF BootStep
<1>4. ASSUME IInv, UNCHANGED vars PROVE IInv'
  <2>1. /\ \A d : Own(d)' = Own(d) /\ (Preemptive(d)' <=> Preemptive(d))
        /\ \A t, e : On(t, e)' <=> On(t, e)
    BY <1>4, SameQueue DEF vars
  <2>2. TypeOK' /\ OnlineInv' /\ CreateInv'
    BY <1>4 DEF vars, IInv, TypeOK, OnlineInv, TasksOnOnlineCpus, CreateInv, NewTask
  <2>3. QueueInv' /\ HomeInv' /\ PreemptInv'
    BY <1>4, <2>1 DEF vars, IInv, QueueInv, HomeInv, PreemptInv, Agree
  <2> QED
    BY <2>2, <2>3 DEF IInv
<1> QED
  BY <1>1, <1>2, <1>3, <1>4 DEF Next

(* The types: among others, cpu->status is never left at IRQ_CONTEXT, and    *)
(* schedule() never loads the stack pointer of no task at all.               *)
THEOREM TypeCorrect == Spec => []TypeOK
<1>1. IInv => TypeOK
  BY DEF IInv
<1> QED
  BY <1>1, InitIInv, NextIInv, PTL DEF Spec

(* No two CPUs ever execute on the same stack: whatever a CPU picks, saves,  *)
(* makes current or resumes belongs to it.                                   *)
THEOREM NoSharingTheorem == Spec => []NoSharing
<1>1. IInv => NoSharing
  <2> SUFFICES ASSUME IInv, NEW c \in CPU, NEW d \in CPU, c # d, run[c] # Lost
               PROVE  run[c] # run[d]
    BY DEF NoSharing
  <2>1. run[c] \in Own(c) /\ run[d] \in Own(d) \cup {Lost} /\ QueueInv
    BY DEF IInv, HomeInv
  <2> QED
    BY <2>1, OwnFacts
<1> QED
  BY <1>1, InitIInv, NextIInv, PTL DEF Spec

(* On a CPU whose tasks never call schedule(), the current task, the stack   *)
(* and the page table agree, and the other tasks can be resumed, whatever    *)
(* the tasks of other CPUs do.                                               *)
THEOREM PreemptionTheorem == Spec => []PreemptionSound
<1>1. IInv => PreemptionSound
  <2> SUFFICES ASSUME IInv, NEW c \in CPU, Preemptive(c)
               PROVE  /\ run[c] # Lost
                      /\ current[c] # Null => run[c] = current[c] /\ cr3[c] = current[c]
                      /\ \A i \in DOMAIN queue[c] :
                             queue[c][i] # run[c] => sp[queue[c][i]] = queue[c][i]
    BY DEF PreemptionSound
  <2>1. TypeOK /\ QueueInv /\ Agree(c)
    BY DEF IInv, PreemptInv
  <2>2. \A i \in DOMAIN queue[c] : queue[c][i] \in Task /\ On(queue[c][i], c)
    BY <2>1 DEF TypeOK, On
  <2>3. \A i \in DOMAIN queue[c] : queue[c][i] \in Thread /\ queue[c][i] \in Own(c)
    BY <2>1, <2>2, OwnFacts, ThreadFacts
  <2> QED
    BY <2>1, <2>3, ThreadFacts DEF Agree
<1> QED
  BY <1>1, InitIInv, NextIInv, PTL DEF Spec

(* cpu_min_load, which takes no lock, gives no task to a CPU that is not     *)
(* online: a CPU it has found online stays so.                               *)
THEOREM OnlineTheorem == Spec => []TasksOnOnlineCpus
<1>1. IInv => TasksOnOnlineCpus
  BY DEF IInv, OnlineInv
<1> QED
  BY <1>1, InitIInv, NextIInv, PTL DEF Spec
===============================================================================
