--------------------------------- MODULE Sched ---------------------------------
(***************************************************************************)
(* Bring-up, scheduling and context switching (kernel/task.c,              *)
(* arch/x86_64/kernel/task.c, the interrupt and page-fault paths of isr.S, *)
(* entry.c, traps.c and fault.c).                                          *)
(*                                                                         *)
(* Every CPU boots, creates its tasks on the least loaded run queue and    *)
(* starts its timer.  A timer interrupt is one step: it runs with          *)
(* interrupts off, touches only its own CPU's state, and switches tasks by *)
(* returning on another task's stack.  schedule() in process or exception  *)
(* context runs with interrupts ON, so it is a sequence of steps with      *)
(* timer interrupts in between.                                            *)
(***************************************************************************)
EXTENDS Integers, Sequences, FiniteSets

CONSTANTS N,      \* nr_cpus; CPU 0 is the boot processor
          Task,   \* the tasks create_task will make
          prio,   \* prio[t]: the time slice of t
          Boot,   \* Boot[c]: the tasks arch_init creates on CPU c, in order
          Prog    \* Prog[t]: what t does before it only computes: "touch" a page
                  \* not mapped yet, touch a "bad" address, "yield" to schedule()

CPU == 0 .. N - 1
Idle(c) == <<"idle", c>>            \* rq->idle
Main(c) == <<"main", c>>            \* arch_init itself, before the first switch
Null == <<"null", 0>>               \* rq->current before the first switch
Stale == <<"stale", 0>>             \* a saved sp whose frame has been popped
Lost == <<"lost", 0>>               \* a CPU that returned to a popped frame
IdleTask == {Idle(c) : c \in CPU}
Thread == Task \cup IdleTask        \* what a task_struct stands for

ASSUME SchedAssumption ==
    /\ N \in Nat \ {0}
    /\ prio \in [Task -> Nat \ {0}]
    /\ IsFiniteSet(Task) /\ Boot \in [CPU -> Seq(Task)]
    /\ \A c, d \in CPU : \A i \in DOMAIN Boot[c], j \in DOMAIN Boot[d] :   \* every call of
           Boot[c][i] = Boot[d][j] => c = d /\ i = j      \* create_task makes a new task
    /\ Prog \in [Task -> Seq({"touch", "bad", "yield"})]
    /\ Task \cap (IdleTask \cup {Main(c) : c \in CPU} \cup {Null, Stale, Lost}) = {}

VARIABLES
    queue,    \* queue[c]: rq->task_list (rq->length is its length: both change
              \* in one section of the rq lock)
    current,  \* current[c]: rq->current
    cr3,      \* cr3[c]: whose page table CPU c uses
    cr2,      \* cr2[c]: the address of the last page fault on CPU c
    status,   \* status[c]: cpu->status, as it is outside interrupt handlers
    run,      \* run[c]: the thread on whose stack CPU c executes
    sp,       \* sp[x]: the thread whose suspended stack x->sp points into
    state,    \* state[t]: t->state
    counter,  \* counter[t]: t->counter
    cpu,      \* cpu[t]: t->cpu
    boot,     \* boot[c]: where arch_init is on CPU c
    ap,       \* the CPU wakeup_all_processors is at
    todo,     \* todo[c]: index in Boot[c] of the next task to create
    scan,     \* scan[c]: the locals of cpu_min_load
    pc,       \* pc[t]: where t is in the kernel, "user" if it is not
    prev,     \* prev[t], next[t]: the locals of t's call of schedule()
    next,
    saved,    \* saved[t]: cpu_status in t's call of do_page_fault_exception
    addr,     \* addr[t]: the address that call has read from cr2
    ip        \* ip[t]: index in Prog[t] of what t does next

bootVars == <<boot, ap, todo, scan>>
taskVars == <<queue, cpu>>
switchVars == <<current, cr3, run, sp>>
faultVars == <<cr2, addr>>
localVars == <<pc, prev, next, saved, addr, ip>>
vars == <<queue, current, cr3, cr2, status, run, sp, state, counter, cpu, boot, ap,
          todo, scan, pc, prev, next, saved, addr, ip>>

NoLength == Cardinality(Task) + 1   \* min_len = 0xffffffff, above every length

Init == /\ queue = [c \in CPU |-> <<>>]
        /\ current = [c \in CPU |-> Null]
        /\ cr3 = [c \in CPU |-> Null]
        /\ cr2 = [c \in CPU |-> "zero"]
        /\ status = [c \in CPU |-> IF c = 0 THEN "IDLE" ELSE "OFFLINE"]
        /\ run = [c \in CPU |-> Main(c)]
        /\ sp = [x \in Thread |-> IF x \in IdleTask THEN x ELSE Stale]
        /\ state = [t \in Task |-> "NONE"]
        /\ counter = [t \in Task |-> 0]
        /\ cpu = [t \in Task |-> -1]
        /\ boot = [c \in CPU |-> IF c # 0 THEN "off" ELSE IF N = 1 THEN "create" ELSE "wake"]
        /\ ap = 1
        /\ todo = [c \in CPU |-> 1]
        /\ scan = [c \in CPU |-> [i |-> 0, min |-> 0, len |-> NoLength]]
        /\ pc = [t \in Task |-> "user"]
        /\ prev = [t \in Task |-> Null] /\ next = [t \in Task |-> Null]
        /\ saved = [t \in Task |-> "IDLE"] /\ addr = [t \in Task |-> "zero"]
        /\ ip = [t \in Task |-> 1]

-------------------------------------------------------------------------------
(* Bring-up.  wakeup_all_processors sends each AP its startup IPI and spins  *)
(* until the AP is idle; a second loop waits for and prints each of them.    *)
WakeAp == /\ boot[0] = "wake" /\ boot[ap] = "off"
          /\ boot' = [boot EXCEPT ![ap] = "init"]
          /\ UNCHANGED <<taskVars, switchVars, localVars, cr2, status, state, counter, ap, todo, scan>>

ApIsIdle == /\ boot[0] \in {"wake", "check"} /\ status[ap] = "IDLE"
            /\ IF ap < N - 1
               THEN ap' = ap + 1 /\ UNCHANGED boot
               ELSE /\ ap' = 1
                    /\ boot' = [boot EXCEPT ![0] = IF @ = "wake" THEN "check" ELSE "create"]
            /\ UNCHANGED <<taskVars, switchVars, localVars, cr2, status, state, counter, todo, scan>>

(* x86_cpu_init on an AP. *)
ApInit(c) == /\ boot[c] = "init"
             /\ status' = [status EXCEPT ![c] = "IDLE"]
             /\ boot' = [boot EXCEPT ![c] = "create"]
             /\ UNCHANGED <<taskVars, switchVars, localVars, cr2, state, counter, ap, todo, scan>>

(* create_task, first __create_task: the stack holds a frame that starts the *)
(* task, so its sp is resumable.                                             *)
NewTask(c) == Boot[c][todo[c]]
create_task(c) ==
    /\ boot[c] = "create" /\ todo[c] <= Len(Boot[c])
    /\ state' = [state EXCEPT ![NewTask(c)] = "RUNNING"]
    /\ counter' = [counter EXCEPT ![NewTask(c)] = prio[NewTask(c)]]
    /\ sp' = [sp EXCEPT ![NewTask(c)] = NewTask(c)]
    /\ boot' = [boot EXCEPT ![c] = "scan"]
    /\ scan' = [scan EXCEPT ![c] = [i |-> 0, min |-> 0, len |-> NoLength]]
    /\ UNCHANGED <<taskVars, localVars, cr2, status, current, cr3, run, ap, todo>>

(* cpu_min_load looks at one queue after the other without taking locks.     *)
cpu_min_load(c) ==
    LET i == scan[c].i IN
    /\ boot[c] = "scan" /\ i \in CPU
    /\ scan' = [scan EXCEPT ![c] = IF status[i] # "OFFLINE" /\ Len(queue[i]) < @.len
                                   THEN [i |-> i + 1, min |-> i, len |-> Len(queue[i])]
                                   ELSE [@ EXCEPT !.i = i + 1]]
    /\ UNCHANGED <<taskVars, switchVars, localVars, cr2, status, state, counter, boot, ap, todo>>

(* The section of the rq lock in create_task: list_add_tail and length++.    *)
(* EnqueueHere puts the task on the creating CPU's queue instead of the one  *)
(* it has been given to.                                                     *)
EnqueueHere(c) ==
    /\ boot[c] = "scan" /\ scan[c].i = N
    /\ cpu' = [cpu EXCEPT ![NewTask(c)] = scan[c].min]
    /\ queue' = [queue EXCEPT ![c] = Append(@, NewTask(c)), ![scan[c].min] = Append(@, NewTask(c))]
    /\ todo' = [todo EXCEPT ![c] = @ + 1]
    /\ boot' = [boot EXCEPT ![c] = "create"]
    /\ UNCHANGED <<switchVars, localVars, cr2, status, state, counter, ap, scan>>
Enqueue(c) ==
    /\ boot[c] = "scan" /\ scan[c].i = N
    /\ cpu' = [cpu EXCEPT ![NewTask(c)] = scan[c].min]
    /\ queue' = [queue EXCEPT ![scan[c].min] = Append(@, NewTask(c))]
    /\ todo' = [todo EXCEPT ![c] = @ + 1]
    /\ boot' = [boot EXCEPT ![c] = "create"]
    /\ UNCHANGED <<switchVars, localVars, cr2, status, state, counter, ap, scan>>

(* The end of arch_init: request_irq_smp and lapic_set_timer, then hlt. *)
StartTimer(c) ==
    /\ boot[c] = "create" /\ todo[c] > Len(Boot[c])
    /\ boot' = [boot EXCEPT ![c] = "done"]
    /\ UNCHANGED <<taskVars, switchVars, localVars, cr2, status, state, counter, ap, todo, scan>>

-------------------------------------------------------------------------------
(* pick_next_task: the last of the runnable tasks with the largest counter;  *)
(* when all their counters are 0 they are refilled first.  schedule() falls  *)
(* back on the idle task.                                                    *)
Runnable(c) == {i \in DOMAIN queue[c] : state[queue[c][i]] = "RUNNING"}
Exhausted(c) == \A i \in Runnable(c) : counter[queue[c][i]] = 0
NoRefill(c) == counter  \* a pick_next_task that only ever uses slices up
Refill(c) == [t \in Task |-> IF Exhausted(c) /\ \E i \in Runnable(c) : queue[c][i] = t
                             THEN prio[t] ELSE counter[t]]
pick_next_task(c) ==
    IF Runnable(c) = {} THEN {Idle(c)}
    ELSE {queue[c][i] : i \in {k \in Runnable(c) :
             \A j \in Runnable(c) :
                \/ Refill(c)[queue[c][j]] < Refill(c)[queue[c][k]]
                \/ Refill(c)[queue[c][j]] = Refill(c)[queue[c][k]] /\ j <= k}}

(* Returning on a saved stack pops its frame: from then on no saved sp that  *)
(* points to it can be returned to.  A CPU that returns to a popped frame is *)
(* lost; what it executes is not modelled.                                   *)
ReturnOn(c, saves, y) ==
    /\ run' = [run EXCEPT ![c] = IF y = Stale THEN Lost ELSE y]
    /\ sp' = [x \in Thread |-> IF saves[x] = y THEN Stale ELSE saves[x]]

(* The timer interrupt: IRQ_COMMON saves rsp in current->sp, the handler is  *)
(* task_timer_tick, and the exit path loads rsp from current->sp, which may  *)
(* be another task by then.  intr_handler_common sets cpu->status to         *)
(* IRQ_CONTEXT and puts the old value back; in between, switch_to does not   *)
(* switch.  SwitchWithoutCr3 is a switch that keeps the page table.          *)
TimerOn(c) == boot[c] = "done" /\ run[c] # Lost
SliceLeft(c) == current[c] \in Task /\ counter[current[c]] # 0
set_current_task_stack(c) ==
    IF current[c] = Null THEN sp ELSE [sp EXCEPT ![current[c]] = run[c]]

TickCount(c) ==
    /\ TimerOn(c) /\ SliceLeft(c)
    /\ counter' = [counter EXCEPT ![current[c]] = @ - 1]
    /\ ReturnOn(c, set_current_task_stack(c), run[c])
    /\ UNCHANGED <<taskVars, bootVars, localVars, cr2, status, state, current, cr3>>

SwitchWithoutCr3(c) ==
    /\ TimerOn(c) /\ ~SliceLeft(c)
    /\ \E n \in pick_next_task(c) :
          /\ current' = [current EXCEPT ![c] = n]
          /\ ReturnOn(c, set_current_task_stack(c), set_current_task_stack(c)[n])
    /\ counter' = Refill(c)
    /\ UNCHANGED <<taskVars, bootVars, localVars, cr2, status, state, cr3>>
TickSchedule(c) ==
    /\ TimerOn(c) /\ ~SliceLeft(c)
    /\ \E n \in pick_next_task(c) :
          /\ current' = [current EXCEPT ![c] = n]
          /\ cr3' = [cr3 EXCEPT ![c] = IF n = current[c] THEN @ ELSE n]
          /\ ReturnOn(c, set_current_task_stack(c), set_current_task_stack(c)[n])
    /\ counter' = Refill(c)
    /\ UNCHANGED <<taskVars, bootVars, localVars, cr2, status, state>>

Tick(c) == TickCount(c) \/ TickSchedule(c)

-------------------------------------------------------------------------------
(* What the thread executing on c does itself, with interrupts on. *)
At(c, p) == run[c] \in Task /\ pc[run[c]] = p
Op(t) == IF ip[t] <= Len(Prog[t]) THEN Prog[t][ip[t]] ELSE "compute"
GoTo(c, p) == pc' = [pc EXCEPT ![run[c]] = p]

(* do_page_fault_exception, entered through a trap gate: interrupts stay on. *)
PageFault(c) ==
    /\ At(c, "user") /\ Op(run[c]) \in {"touch", "bad"}
    /\ cr2' = [cr2 EXCEPT ![c] = Op(run[c])]
    /\ saved' = [saved EXCEPT ![run[c]] = status[c]]
    /\ status' = [status EXCEPT ![c] = "EXCEPTION"]
    /\ GoTo(c, "fault")
    /\ UNCHANGED <<taskVars, bootVars, switchVars, state, counter, prev, next, addr, ip>>

(* page_fault_mm gets what cr2 holds by now and maps a page for a good       *)
(* address; at its end do_page_fault_exception clears cr2 and puts the saved *)
(* status back.  The access that faulted is repeated: it faults again if     *)
(* another address has been mapped.  LeaveStatus does not restore the status.*)
MapPage(c) ==
    /\ At(c, "fault") /\ cr2[c] # "bad"
    /\ addr' = [addr EXCEPT ![run[c]] = cr2[c]]
    /\ GoTo(c, "return")
    /\ UNCHANGED <<taskVars, bootVars, switchVars, cr2, status, state, counter, prev, next, saved, ip>>
LeaveStatus(c) ==
    /\ At(c, "return")
    /\ cr2' = [cr2 EXCEPT ![c] = "zero"]
    /\ ip' = IF addr[run[c]] = Op(run[c]) THEN [ip EXCEPT ![run[c]] = @ + 1] ELSE ip
    /\ GoTo(c, "user")
    /\ UNCHANGED <<taskVars, bootVars, switchVars, status, state, counter, prev, next, saved, addr>>
FaultReturn(c) ==
    /\ At(c, "return")
    /\ cr2' = [cr2 EXCEPT ![c] = "zero"]
    /\ status' = [status EXCEPT ![c] = saved[run[c]]]
    /\ ip' = IF addr[run[c]] = Op(run[c]) THEN [ip EXCEPT ![run[c]] = @ + 1] ELSE ip
    /\ GoTo(c, "user")
    /\ UNCHANGED <<taskVars, bootVars, switchVars, state, counter, prev, next, saved, addr>>

(* page_fault_mm on a bad address: task_exit(get_current_task()), which      *)
(* calls schedule() from the exception handler.                              *)
task_exit(c) ==
    /\ At(c, "fault") /\ cr2[c] = "bad"
    /\ addr' = [addr EXCEPT ![run[c]] = cr2[c]]
    /\ state' = [state EXCEPT ![current[c]] = "KILLED"]
    /\ prev' = [prev EXCEPT ![run[c]] = current[c]]
    /\ GoTo(c, "pick")
    /\ UNCHANGED <<taskVars, bootVars, switchVars, cr2, status, counter, next, saved, ip>>

(* schedule() called by the task itself (test_task does) *)
Yield(c) ==
    /\ At(c, "user") /\ Op(run[c]) = "yield"
    /\ prev' = [prev EXCEPT ![run[c]] = current[c]]
    /\ GoTo(c, "pick")
    /\ UNCHANGED <<taskVars, bootVars, switchVars, status, state, counter, next, saved, faultVars, ip>>

(* schedule() step by step: pick_next_task; context_switch, which returns at *)
(* once if there is nothing to switch, loads cr3 and sets rq->current; then  *)
(* switch_to, which outside interrupts goes on to __switch_to: it saves rsp  *)
(* in prev->sp and loads it from next->sp.                                   *)
PickNext(c) ==
    /\ At(c, "pick")
    /\ \E n \in pick_next_task(c) :
          /\ next' = [next EXCEPT ![run[c]] = n]
          /\ GoTo(c, IF n = prev[run[c]] THEN "back" ELSE "mm")
    /\ counter' = Refill(c)
    /\ UNCHANGED <<taskVars, bootVars, switchVars, status, state, prev, saved, faultVars, ip>>
SwitchMm(c) ==
    /\ At(c, "mm")
    /\ cr3' = [cr3 EXCEPT ![c] = next[run[c]]]
    /\ GoTo(c, "current")
    /\ UNCHANGED <<taskVars, bootVars, current, run, sp, status, state, counter, prev, next, saved, faultVars, ip>>
SetCurrent(c) ==
    /\ At(c, "current")
    /\ current' = [current EXCEPT ![c] = next[run[c]]]
    /\ GoTo(c, "save")
    /\ UNCHANGED <<taskVars, bootVars, cr3, run, sp, status, state, counter, prev, next, saved, faultVars, ip>>
SaveSp(c) ==
    /\ At(c, "save") /\ status[c] # "IRQ"
    /\ sp' = [sp EXCEPT ![prev[run[c]]] = run[c]]
    /\ GoTo(c, "load")
    /\ UNCHANGED <<taskVars, bootVars, current, cr3, run, status, state, counter, prev, next, saved, faultVars, ip>>
LoadSp(c) ==
    /\ At(c, "load")
    /\ ReturnOn(c, sp, sp[next[run[c]]])
    /\ GoTo(c, "back")
    /\ UNCHANGED <<taskVars, bootVars, current, cr3, status, state, counter, prev, next, saved, faultVars, ip>>

(* schedule() returns to the task that called it. *)
YieldReturns(c) ==
    /\ At(c, "back") /\ Op(run[c]) = "yield"
    /\ ip' = [ip EXCEPT ![run[c]] = @ + 1]
    /\ GoTo(c, "user")
    /\ UNCHANGED <<taskVars, bootVars, switchVars, status, state, counter, prev, next, saved, faultVars>>

(* schedule() returns to task_exit: the handler's err_exit path halts until  *)
(* an interrupt, clears cr2, restores the status and returns to the faulting *)
(* access.                                                                   *)
ExitReturns(c) ==
    /\ At(c, "back") /\ Op(run[c]) # "yield"
    /\ cr2' = [cr2 EXCEPT ![c] = "zero"]
    /\ status' = [status EXCEPT ![c] = saved[run[c]]]
    /\ GoTo(c, "user")
    /\ UNCHANGED <<taskVars, bootVars, switchVars, state, counter, prev, next, saved, addr, ip>>

(* idle_task: status = IDLE; hlt *)
IdleLoop(c) ==
    /\ run[c] = Idle(c) /\ status[c] # "IDLE"
    /\ status' = [status EXCEPT ![c] = "IDLE"]
    /\ UNCHANGED <<taskVars, bootVars, switchVars, localVars, cr2, state, counter>>

-------------------------------------------------------------------------------
BootStep(c) == ApInit(c) \/ create_task(c) \/ cpu_min_load(c) \/ Enqueue(c) \/ StartTimer(c)
RunStep(c) == \/ PageFault(c) \/ MapPage(c) \/ FaultReturn(c) \/ task_exit(c) \/ Yield(c)
              \/ PickNext(c) \/ SwitchMm(c) \/ SetCurrent(c) \/ SaveSp(c) \/ LoadSp(c)
              \/ YieldReturns(c) \/ ExitReturns(c) \/ IdleLoop(c)

Next == WakeAp \/ ApIsIdle \/ \E c \in CPU : BootStep(c) \/ Tick(c) \/ RunStep(c)

Spec == Init /\ [][Next]_vars

(* CPUs execute what they have to execute, and a periodic timer that has     *)
(* been started keeps firing.  A tick a second does not keep a task that     *)
(* runs again and again from ever executing an instruction: hence SF.        *)
FairSpec == /\ Spec
            /\ WF_vars(WakeAp) /\ WF_vars(ApIsIdle)
            /\ \A c \in CPU : WF_vars(BootStep(c)) /\ WF_vars(Tick(c)) /\ SF_vars(RunStep(c))

-------------------------------------------------------------------------------
(* The types include that cpu->status is never left at IRQ_CONTEXT, where    *)
(* switch_to would not switch, and that a slice is never more than prio.     *)
TypeOK ==
    /\ queue \in [CPU -> Seq(Task)]
    /\ current \in [CPU -> Thread \cup {Null}]
    /\ cr3 \in [CPU -> Thread \cup {Null}]
    /\ cr2 \in [CPU -> {"zero", "touch", "bad"}] /\ addr \in [Task -> {"zero", "touch", "bad"}]
    /\ status \in [CPU -> {"OFFLINE", "IDLE", "EXCEPTION"}]
    /\ run \in [CPU -> Thread \cup {Main(c) : c \in CPU} \cup {Lost}]
    /\ sp \in [Thread -> Thread \cup {Main(c) : c \in CPU} \cup {Stale}]
    /\ state \in [Task -> {"NONE", "RUNNING", "KILLED"}]
    /\ counter \in [Task -> Nat] /\ \A t \in Task : counter[t] <= prio[t]
    /\ cpu \in [Task -> CPU \cup {-1}]
    /\ boot \in [CPU -> {"off", "init", "wake", "check", "create", "scan", "done"}]
    /\ ap \in Nat /\ todo \in [CPU -> Nat \ {0}]
    /\ scan \in [CPU -> [i : 0 .. N, min : CPU, len : Nat]]
    /\ pc \in [Task -> {"user", "fault", "return", "pick", "mm", "current", "save",
                        "load", "back"}]
    /\ prev \in [Task -> Thread \cup {Null}]
    /\ next \in [Task -> Thread \cup {Null}]
    /\ saved \in [Task -> {"OFFLINE", "IDLE", "EXCEPTION"}]
    /\ ip \in [Task -> Nat \ {0}]

(* No two CPUs ever execute on the stack of the same thread: a task is only  *)
(* picked, resumed, saved and switched to on the CPU whose queue it is on,   *)
(* whatever timer interrupts do to a switch in progress.                     *)
NoSharing == \A c, d \in CPU : c # d /\ run[c] # Lost => run[c] # run[d]

(* cpu_min_load gives no task to a CPU that is not online, where it would    *)
(* never run, though it reads status and lengths without locks.              *)
TasksOnOnlineCpus == \A c \in CPU : status[c] = "OFFLINE" => queue[c] = <<>>

(* Tasks that only compute or touch memory are preempted by the timer alone. *)
Preemptive(c) == \A i \in DOMAIN queue[c] : \A k \in DOMAIN Prog[queue[c][i]] :
                     Prog[queue[c][i]][k] = "touch"

(* On such a CPU rq->current, the stack in use and cr3 always agree, and     *)
(* every other task of the queue can be resumed on its own stack, whatever   *)
(* tasks that yield or are killed do to the other CPUs.                      *)
PreemptionSound ==
    \A c \in CPU : Preemptive(c) =>
        /\ run[c] # Lost
        /\ current[c] # Null => run[c] = current[c] /\ cr3[c] = current[c]
        /\ \A i \in DOMAIN queue[c] : queue[c][i] # run[c] => sp[queue[c][i]] = queue[c][i]

(* Where nothing but the timer preempts, every runnable task on a queue runs *)
(* again and again, whatever its priority (pick_next_task and its refill).   *)
StarvationFree == \A t \in Task, c \in CPU :
    []((\E i \in DOMAIN queue[c] : queue[c][i] = t) /\ boot[c] = "done" => <>(run[c] = t))

(* "irq info can be saved onto the nexttask->stack" (arch task.c:104): an    *)
(* interrupt saves the frame of a task on that task's own stack.             *)
SavedOnOwnStack == \A t \in Task : sp[t] \in {t, Stale}

(* test_task sends the task with id 7 to an invalid address, and it is that  *)
(* task that page_fault_mm kills: a task that makes no bad access is never   *)
(* killed.                                                                   *)
OnlyBadKilled == \A t \in Task : state[t] = "KILLED" => \E k \in DOMAIN Prog[t] : Prog[t][k] = "bad"

(* The page-fault handlers of a CPU have overlapped and put its status back  *)
(* in the wrong order: every one of them has returned, and the CPU is left   *)
(* at EXCEPTION_CONTEXT, which the last of them found when it began.         *)
LeftInException(c) == /\ status[c] = "EXCEPTION"
                      /\ \A t \in Task : cpu[t] = c => pc[t] = "user"
                      /\ \E t \in Task : cpu[t] = c /\ saved[t] = "EXCEPTION"

(* Every CPU finishes arch_init, so the kernel runs "with SMP enabled"       *)
(* (README.txt:7), unless overlapping page faults leave an AP for ever in a  *)
(* status the boot processor does not wait for (traps.c:342, entry.c:337).   *)
AllCpusStart == \/ <>(\A c \in CPU : boot[c] = "done")
                \/ <>[](\E c \in CPU \ {0} : LeftInException(c))

(* The same without the exception.  It is violated: MCSchedStuck.cfg.        *)
AllCpusAlwaysStart == <>(\A c \in CPU : boot[c] = "done")
===============================================================================
