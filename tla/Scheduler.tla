------------------------------ MODULE Scheduler ------------------------------
(***************************************************************************)
(* The preemptive scheduler's policy (scheduler_policy.inc and the timer,  *)
(* yield, sleep, wait and exit paths of scheduler.inc): dynamic priorities *)
(* with aging, quanta, round robin among equals, sleepers woken by the     *)
(* wrapping tick counter.                                                  *)
(*                                                                         *)
(* Abstractions: a slot whose task has ended is "gone" until it is spawned *)
(* into again (ProcessLifecycle.tla models zombies and objects); a wait is *)
(* for the exit of one task.  left and bypassed are history variables that *)
(* no guard reads.                                                         *)
(***************************************************************************)
EXTENDS Integers

CONSTANTS
    TaskCount,          \* task_capacity
    MaximumPriority,    \* maximum_priority
    DefaultPriority,    \* default_priority, the base priority of every task
    AgingTicks,         \* aging_ticks
    MinimumQuantum,     \* minimum_quantum_ticks
    TickModulus,        \* 2^32, the range of timer_ticks
    Durations           \* what tasks pass to sleep

ASSUME PolicyAssumption ==
    /\ TaskCount \in Nat \ {0}
    /\ MaximumPriority \in Nat
    /\ DefaultPriority \in 0 .. MaximumPriority
    /\ AgingTicks \in Nat /\ AgingTicks > MinimumQuantum + MaximumPriority
    /\ MinimumQuantum \in Nat \ {0}
    /\ TickModulus \in Nat /\ TickModulus % 2 = 0
    /\ Durations \subseteq 0 .. (TickModulus - 1)

VARIABLES
    state,      \* Task::state
    priority,   \* Task::dynamic_priority
    waitTicks,  \* Task::wait_ticks
    wakeTick,   \* Task::wake_tick
    target,     \* the task a waiting task waits for
    quantum,    \* quantum_remaining of the running task
    current,    \* current_task, or none when the batch has ended
    blocked,    \* the running task waits inside a system call, in ring 0
    ticks,      \* timer_ticks
    left,       \* history: ticks a sleeper has still asked for
    bypassed    \* history: switches to other tasks while a task was ready

vars == <<state, priority, waitTicks, wakeTick, target, quantum, current, blocked,
          ticks, left, bypassed>>

Tasks == 0 .. (TaskCount - 1)
NoTask == -1
Ticks == 0 .. (TickModulus - 1)

Quantum(p) == MinimumQuantum + p

\* static_cast<int32_t>(now - deadline) < 0, on the wrapping counter.
Before(now, deadline) == (now - deadline) % TickModulus >= TickModulus \div 2

\* Slots in the order select visits them, starting after the current one.
Distance(c, t) == IF (t - c) % TaskCount = 0 THEN TaskCount ELSE (t - c) % TaskCount

Put(f, i, v) == [t \in Tasks |-> IF t = i THEN v ELSE f[t]]

ReadyIn(st) == {t \in Tasks : st[t] = "ready"}

\* Mutant: priority decides ties in favour of the lower slot.
SelectLowest(st, pr, c) ==
    {t \in ReadyIn(st) :
        \A u \in ReadyIn(st) : pr[u] < pr[t] \/ (pr[u] = pr[t] /\ t <= u)}

\* scheduler_policy::select: the highest priority, the nearest slot among equals
\* (one slot, or none when no task is ready).
Select(st, pr, c) ==
    {t \in ReadyIn(st) :
        \A u \in ReadyIn(st) :
            pr[u] < pr[t] \/ (pr[u] = pr[t] /\ Distance(c, t) <= Distance(c, u))}

Init ==
    \E n \in 1 .. TaskCount :
        /\ state = [t \in Tasks |-> IF t = 0 THEN "running"
                                    ELSE IF t < n THEN "ready" ELSE "gone"]
        /\ priority = [t \in Tasks |-> DefaultPriority]
        /\ waitTicks = [t \in Tasks |-> 0]
        /\ wakeTick = [t \in Tasks |-> 0]
        /\ target = [t \in Tasks |-> NoTask]
        /\ quantum = Quantum(DefaultPriority)
        /\ current = 0
        /\ blocked = FALSE
        /\ ticks \in Ticks
        /\ left = [t \in Tasks |-> 0]
        /\ bypassed = [t \in Tasks |-> 0]

-----------------------------------------------------------------------------
(* Switching: st, pr and wt are the tables when select_ready is called *)

BypassLimit == TaskCount - 1

CountBypass(st, n) ==
    [t \in Tasks |-> IF t = n \/ st[t] # "ready" THEN 0
                     ELSE IF bypassed[t] > BypassLimit THEN bypassed[t]
                     ELSE bypassed[t] + 1]

\* activate_task on the selected task.
Activate(st, pr, wt) ==
    \E n \in Select(st, pr, current) :
        /\ state' = Put(st, n, "running")
        /\ quantum' = Quantum(pr[n])
        /\ priority' = Put(pr, n, DefaultPriority)
        /\ waitTicks' = Put(wt, n, 0)
        /\ current' = n
        /\ bypassed' = CountBypass(st, n)

Alive == current # NoTask

\* The running task executes user code.
UserMode == Alive /\ ~blocked

\* The running task goes on: no switch.
Continue == UNCHANGED <<state, priority, waitTicks, quantum, current, bypassed>>

Yield ==
    LET st == [state EXCEPT ![current] = "ready"]
    IN  /\ UserMode
        /\ IF current \in Select(st, priority, current) THEN Continue
           ELSE Activate(st, priority, waitTicks)
        /\ UNCHANGED <<blocked, wakeTick, target, ticks, left>>

Deadline(duration) == (ticks + duration) % TickModulus

\* With no other task ready, sleep returns at once.
Sleep(d) ==
    LET st == [state EXCEPT ![current] = "sleeping"]
        duration == IF d = 0 THEN 1 ELSE d
    IN  /\ UserMode
        /\ wakeTick' = [wakeTick EXCEPT ![current] = Deadline(duration)]
        /\ IF ReadyIn(st) = {}
           THEN Continue /\ UNCHANGED left
           ELSE /\ Activate(st, priority, waitTicks)
                /\ left' = [left EXCEPT ![current] = duration]
        /\ UNCHANGED <<blocked, target, ticks>>

\* begin_wait: with no other task ready the call returns would_block.
Wait(t) ==
    LET st == [state EXCEPT ![current] = "waiting"]
    IN  /\ UserMode
        /\ t # current
        /\ state[t] # "gone"
        /\ Activate(st, priority, waitTicks)
        /\ target' = [target EXCEPT ![current] = t]
        /\ UNCHANGED <<blocked, wakeTick, ticks, left>>

\* configure_task in a free slot.
Spawn(t) ==
    /\ UserMode
    /\ state[t] = "gone"
    /\ state' = [state EXCEPT ![t] = "ready"]
    /\ priority' = [priority EXCEPT ![t] = DefaultPriority]
    /\ waitTicks' = [waitTicks EXCEPT ![t] = 0]
    /\ bypassed' = [bypassed EXCEPT ![t] = 0]
    /\ UNCHANGED <<blocked, wakeTick, target, quantum, current, ticks, left>>

\* user_window_cleanup: the task table is reset.
EndBatch ==
    /\ state' = [t \in Tasks |-> "gone"]
    /\ priority' = [t \in Tasks |-> DefaultPriority]
    /\ waitTicks' = [t \in Tasks |-> 0]
    /\ wakeTick' = [t \in Tasks |-> 0]
    /\ target' = [t \in Tasks |-> NoTask]
    /\ quantum' = 0
    /\ current' = NoTask
    /\ left' = [t \in Tasks |-> 0]
    /\ bypassed' = [t \in Tasks |-> 0]
    /\ UNCHANGED <<blocked, ticks>>

\* A denied system call whose audit record could not be stored.
DeniedUnaudited == UserMode /\ EndBatch

\* exit and faults: the waiters of the task become ready; with no task ready the
\* whole batch ends.
Exit ==
    LET woken == {t \in Tasks : state[t] = "waiting" /\ target[t] = current}
        st == [t \in Tasks |-> IF t = current THEN "gone"
                               ELSE IF t \in woken THEN "ready" ELSE state[t]]
        wt == [t \in Tasks |-> IF t \in woken THEN 0 ELSE waitTicks[t]]
    IN  /\ UserMode
        /\ IF ReadyIn(st) = {} THEN EndBatch
           ELSE /\ Activate(st, priority, wt)
                /\ target' = [t \in Tasks |-> IF t \in woken THEN NoTask ELSE target[t]]
                /\ UNCHANGED <<blocked, wakeTick, ticks, left>>

-----------------------------------------------------------------------------
(* timer_interrupt *)

\* Mutant: deadlines are compared as unsigned values.
WokenUnsigned(now, st) ==
    [t \in Tasks |-> IF st[t] = "sleeping" /\ now >= wakeTick[t] THEN "ready" ELSE st[t]]

\* wake_sleepers
Woken(now, st) ==
    [t \in Tasks |-> IF st[t] = "sleeping" /\ ~Before(now, wakeTick[t]) THEN "ready" ELSE st[t]]

\* account_wait, for every task: one more tick of waiting, then promotion.
Promoted(st, wt, t) ==
    st[t] = "ready" /\ wt[t] + 1 >= AgingTicks /\ priority[t] < MaximumPriority

AgedPriority(st, wt) ==
    [t \in Tasks |-> IF Promoted(st, wt, t) THEN priority[t] + 1 ELSE priority[t]]

\* Past the last promotion the count only matters as "at least AgingTicks".
AgedWait(st, wt) ==
    [t \in Tasks |-> IF st[t] # "ready" \/ Promoted(st, wt, t) THEN 0
                     ELSE IF wt[t] >= AgingTicks THEN wt[t] ELSE wt[t] + 1]

\* The sleepers' remaining time after one more tick.
Elapsed == [t \in Tasks |-> IF left[t] > 0 THEN left[t] - 1 ELSE 0]

\* Mutant: a tick never preempts.
TickRunsOn ==
    LET now == (ticks + 1) % TickModulus
        st == Woken(now, state)
        q == quantum - 1
    IN  /\ UserMode
        /\ ticks' = now
        /\ left' = Elapsed
        /\ state' = st
        /\ quantum' = IF q > 0 THEN q ELSE Quantum(priority[current])
        /\ waitTicks' = AgedWait(st, waitTicks)
        /\ UNCHANGED <<blocked, priority, current, bypassed, wakeTick, target>>

\* timer_interrupt out of user mode.
UserTick ==
    LET now == (ticks + 1) % TickModulus
        st == Woken(now, state)
        wt == [t \in Tasks |-> IF st[t] # state[t] THEN 0 ELSE waitTicks[t]]
        pr == AgedPriority(st, wt)
        aged == AgedWait(st, wt)
        q == IF quantum > 0 THEN quantum - 1 ELSE 0
        preemptible == Put(st, current, "ready")
        stays == \/ q > 0 /\ \A t \in ReadyIn(st) : pr[t] <= pr[current]
                 \/ current \in Select(preemptible, pr, current)
    IN  /\ UserMode
        /\ ticks' = now
        /\ left' = Elapsed
        /\ IF stays
           THEN /\ state' = st
                /\ priority' = pr
                /\ waitTicks' = aged
                /\ quantum' = IF q > 0 /\ \A t \in ReadyIn(st) : pr[t] <= pr[current]
                              THEN q ELSE Quantum(pr[current])
                /\ UNCHANGED <<current, bypassed>>
           ELSE Activate(preemptible, pr, aged)
        /\ UNCHANGED <<blocked, wakeTick, target>>

\* The running task enters a system call that waits in the kernel: console_read for
\* a key, a file call for the disk.
KernelWait ==
    /\ UserMode
    /\ blocked' = TRUE
    /\ UNCHANGED <<state, priority, waitTicks, wakeTick, target, quantum, current, ticks,
                   left, bypassed>>

\* A tick out of ring 0 only counts: timer_interrupt returns at once.
KernelTick ==
    /\ blocked
    /\ ticks' = (ticks + 1) % TickModulus
    /\ left' = Elapsed
    /\ UNCHANGED <<state, priority, waitTicks, wakeTick, target, quantum, current, blocked,
                   bypassed>>

\* The line has been typed, or the disk has answered.
KernelReturn ==
    /\ blocked
    /\ blocked' = FALSE
    /\ UNCHANGED <<state, priority, waitTicks, wakeTick, target, quantum, current, ticks,
                   left, bypassed>>

Ended == ~Alive /\ UNCHANGED vars

Next ==
    \/ UserTick
    \/ Yield
    \/ \E d \in Durations : Sleep(d)
    \/ \E t \in Tasks : Wait(t) \/ Spawn(t)
    \/ Exit
    \/ DeniedUnaudited
    \/ KernelWait
    \/ KernelTick
    \/ KernelReturn
    \/ Ended

\* While user code runs, the timer interrupts it.  Nothing makes a wait in the kernel end.
Spec == Init /\ [][Next]_vars /\ WF_vars(UserTick)

-----------------------------------------------------------------------------
(* Properties *)

\* A ready task is passed over at most TaskCount - 1 times, whatever the others
\* do (yield, sleep, spawn, exit, age): nobody goes first twice.
BoundedBypass == \A t \in Tasks : bypassed[t] <= BypassLimit

\* sleep blocks until its deadline: no sleeper is made ready early, across the
\* wrap of the tick counter.
NotEarly ==
    [][\A t \in Tasks :
          state[t] = "sleeping" /\ state'[t] = "ready" => left'[t] = 0]_vars

\* Starvation control: a task that is ready or asleep runs, or its batch ends
\* (wake_sleepers, select, account_wait), unless tasks wait in the kernel for ever or
\* again and again, where the timer does not switch.
NoStarvation ==
    <>[]~blocked =>
        \A t \in Tasks :
            state[t] \in {"ready", "sleeping"} ~> state[t] \notin {"ready", "sleeping"}
=============================================================================
