--------------------------- MODULE ProcessLifecycle ---------------------------
(***************************************************************************)
(* Task slots, process objects and process handles of the kernel           *)
(* (scheduler.inc, process_lifecycle.inc, process_handles.inc).  A step is *)
(* one trap of the running task: a system call, a fault or a timer         *)
(* interrupt, handled with interrupts off up to the return to user mode.   *)
(*                                                                         *)
(* Abstractions: which ready task runs next is left open (Scheduler.tla    *)
(* models select_ready), as is the tick at which a sleeper's deadline      *)
(* passes.  A PID encodes an object key one to one, so keys stand for      *)
(* PIDs; no key is PID 0, the kernel.  Status contents and error codes are *)
(* left out: a call that only returns an error is the step Refused.        *)
(***************************************************************************)
EXTENDS Integers, FiniteSets

CONSTANTS
    TaskCount,      \* task_capacity
    ObjectCount,    \* object_capacity
    HandleCount,    \* handle_capacity
    MaxGeneration   \* the last generation of a slot, 0xFFFF

ASSUME CapacityAssumption ==
    /\ TaskCount \in Nat \ {0}
    /\ ObjectCount \in Nat \ {0}
    /\ HandleCount \in Nat \ {0}
    /\ MaxGeneration \in Nat \ {0}

VARIABLES
    task,           \* tasks[]
    object,         \* process_lifecycle::objects[]
    generations,    \* process_lifecycle::generations[]
    mapped,         \* slots whose address space holds pages
    scrub,          \* deferred_stack_scrub_mask
    current,        \* current_task
    running         \* scheduler_running

vars == <<task, object, generations, mapped, scrub, current, running>>

-----------------------------------------------------------------------------
TaskSlots == 0 .. (TaskCount - 1)
ObjectSlots == 0 .. (ObjectCount - 1)
Handles == 0 .. (HandleCount - 1)
Generation == 0 .. MaxGeneration

NoSlot == -1

Key == [slot : ObjectSlots, gen : Generation]

NoKey == [slot |-> 0, gen |-> 0]

Object == [used : BOOLEAN, signaled : BOOLEAN, parentReaped : BOOLEAN,
           gen : Generation, task : TaskSlots \cup {NoSlot}, parent : Key, refs : Nat]

NoObject == [used |-> FALSE, signaled |-> FALSE, parentReaped |-> FALSE,
             gen |-> 0, task |-> NoSlot, parent |-> NoKey, refs |-> 0]

NoHandle == [used |-> FALSE, gen |-> 0, obj |-> NoKey]

NoTask == [state |-> "unused", obj |-> NoKey, wait |-> NoKey, reap |-> FALSE,
           any |-> FALSE, handles |-> [h \in Handles |-> NoHandle],
           handleGens |-> [h \in Handles |-> 0]]

Live(t) == t.state \in {"ready", "running", "sleeping", "waiting"}

First(S) == CHOOSE i \in S : \A j \in S : i <= j

\* After the last generation a slot starts over; generation 0 names no process.
next_generation(g) == IF g = MaxGeneration THEN 1 ELSE g + 1

-----------------------------------------------------------------------------
(* process_lifecycle: operations on the object table *)

KeyOf(o, s) == [slot |-> s, gen |-> o[s].gen]

Find(o, key) == key.gen # 0 /\ o[key.slot].used /\ o[key.slot].gen = key.gen

FreeObjects(o) == {s \in ObjectSlots : ~o[s].used}

Create(parent, slot, gen) ==
    [NoObject EXCEPT !.used = TRUE, !.gen = gen, !.task = slot, !.parent = parent]

\* collect_if_unreferenced
Collect(ob) ==
    IF ob.signaled /\ ob.parentReaped /\ ob.refs = 0 THEN NoObject ELSE ob

\* release: k handles of an object are given back.
Release(ob, k) == IF k = 0 THEN ob ELSE Collect([ob EXCEPT !.refs = @ - k])

\* reap_parent
ReapParent(ob) == Collect([ob EXCEPT !.parentReaped = TRUE])

\* reparent(pid, 0): the kernel reaps children that have already exited.
Reparent(o, pid) ==
    [s \in ObjectSlots |->
        IF ~o[s].used \/ o[s].parent # pid THEN o[s]
        ELSE IF o[s].signaled THEN ReapParent([o[s] EXCEPT !.parent = NoKey])
        ELSE [o[s] EXCEPT !.parent = NoKey]]

\* Mutant: nobody reaps the exit of an orphan.
TerminateOnly(o, key) ==
    [o EXCEPT ![key.slot] = Collect([o[key.slot] EXCEPT !.signaled = TRUE])]

\* terminate: an orphan counts as reaped.
Terminate(o, key) ==
    LET ob == o[key.slot]
    IN  [o EXCEPT ![key.slot] =
            Collect([ob EXCEPT !.signaled = TRUE,
                               !.parentReaped = ob.parentReaped \/ ob.parent = NoKey])]

\* The processes first_child and syscall_wait_child accept.
Children(o, pid) == {s \in ObjectSlots : o[s].used /\ o[s].parent = pid /\ ~o[s].parentReaped}

-----------------------------------------------------------------------------
(* terminate_task and the switch that follows it *)

\* Zombies whose object is gone or was reaped by the kernel.
OrphanZombies(t, o, c) ==
    {z \in TaskSlots \ {c} :
        /\ t[z].state = "zombie"
        /\ Find(o, t[z].obj) =>
               o[t[z].obj.slot].parent = NoKey /\ o[t[z].obj.slot].parentReaped}

ClearTasks(t, Z) == [s \in TaskSlots |-> IF s \in Z THEN NoTask ELSE t[s]]

\* Mutant: the objects keep the number of the cleared slot.
DetachNothing(o, t, Z) == o

\* The objects of the cleared slots Z forget their task slot.
Detach(o, t, Z) ==
    [s \in ObjectSlots |->
        IF o[s].used /\ \E z \in Z : t[z].obj = KeyOf(o, s)
        THEN Collect([o[s] EXCEPT !.task = NoSlot]) ELSE o[s]]

HandlesTo(tk, key) == {h \in Handles : tk.handles[h].used /\ tk.handles[h].obj = key}

\* close_all_handles
CloseAll(o, tk) ==
    [s \in ObjectSlots |->
        IF o[s].used THEN Release(o[s], Cardinality(HandlesTo(tk, KeyOf(o, s)))) ELSE o[s]]

\* Tasks wake_waiters looks at when the object of key has signalled.
Waiters(t, o, key) ==
    {w \in TaskSlots :
        /\ t[w].state = "waiting"
        /\ t[w].wait = key \/ (t[w].any /\ o[key.slot].parent = t[w].obj)}

\* The waiter whose wait reaps the object; status says its buffer was written.
Reapers(t, o, key, status) ==
    {w \in Waiters(t, o, key) :
        status /\ t[w].reap /\ ~o[key.slot].parentReaped /\ o[key.slot].parent = t[w].obj}

\* Waiters are completed in slot order, until a reap collects the object.
Woken(t, o, key, status) ==
    IF ~Find(o, key) THEN {}
    ELSE IF Reapers(t, o, key, status) # {} /\ o[key.slot].refs = 0
    THEN {w \in Waiters(t, o, key) : w <= First(Reapers(t, o, key, status))}
    ELSE Waiters(t, o, key)

StopWaiting(tk, s) == [tk EXCEPT !.state = s, !.wait = NoKey, !.reap = FALSE, !.any = FALSE]

\* Task table, object table and freed slots after terminate_task(c).
AfterTerminate(c, status) ==
    LET key == task[c].obj
        o1 == Reparent(object, key)
        Z  == OrphanZombies(task, o1, c)
        o2 == CloseAll(Detach(o1, task, Z), task[c])
        o3 == Terminate(o2, key)
        W  == Woken(task, o3, key, status)
        R  == Reapers(task, o3, key, status) \cap W
        t1 == ClearTasks(task, Z)
    IN  [freed |-> Z,
         objects |-> IF R = {} THEN o3 ELSE [o3 EXCEPT ![key.slot] = ReapParent(@)],
         tasks |-> [s \in TaskSlots |->
             IF s = c THEN [t1[c] EXCEPT !.state = "zombie",
                                         !.handles = [h \in Handles |-> NoHandle]]
             ELSE IF s \in W THEN StopWaiting(t1[s], "ready")
             ELSE t1[s]]]

ReadySlots(t) == {s \in TaskSlots : t[s].state = "ready"}

-----------------------------------------------------------------------------
Init ==
    /\ task = [s \in TaskSlots |-> NoTask]
    /\ object = [s \in ObjectSlots |-> NoObject]
    /\ generations = [s \in ObjectSlots |-> 0]
    /\ mapped = {}
    /\ scrub = {}
    /\ current = NoSlot
    /\ running = FALSE

\* run_task_batch, run_process_lifecycle_probe: n root tasks in the first slots of
\* fresh tables; slot 0 runs first.
StartBatch(n) ==
    /\ ~running
    /\ n <= ObjectCount
    /\ generations' = [s \in ObjectSlots |-> IF s < n THEN next_generation(generations[s]) ELSE generations[s]]
    /\ object' = [s \in ObjectSlots |->
           IF s < n THEN Create(NoKey, s, generations'[s]) ELSE NoObject]
    /\ task' = [s \in TaskSlots |->
           IF s < n THEN [NoTask EXCEPT !.state = IF s = 0 THEN "running" ELSE "ready",
                                        !.obj = [slot |-> s, gen |-> generations'[s]]]
           ELSE NoTask]
    /\ mapped' = 0 .. (n - 1)
    /\ scrub' = {}
    /\ current' = 0
    /\ running' = TRUE

\* A command of the batch cannot be loaded after n tasks were prepared.
StartBatchFails(n) ==
    /\ ~running
    /\ n <= ObjectCount
    /\ generations' = [s \in ObjectSlots |-> IF s < n THEN next_generation(generations[s]) ELSE generations[s]]
    /\ UNCHANGED <<task, object, mapped, scrub, current, running>>

Trap == running

\* Mutant: no stack is wiped before its slot is used again.
WipedNever == scrub

\* Every trap first wipes the deferred stacks, except the one it runs on.
Wiped == scrub \cap {current}

-----------------------------------------------------------------------------
(* syscall_spawn_task *)

FreeTaskSlots == {s \in TaskSlots : task[s].state = "unused"}

FreeHandles == {h \in Handles : ~task[current].handles[h].used}

NewKey == LET s == First(FreeObjects(object))
          IN  [slot |-> s, gen |-> next_generation(generations[s])]

CanSpawn ==
    /\ Trap
    /\ FreeTaskSlots # {}
    /\ FreeObjects(object) # {}

Child(slot) == Create(task[current].obj, slot, NewKey.gen)

Spawn(withHandle) ==
    LET slot == First(FreeTaskSlots)
        h == First(FreeHandles)
        g == next_generation(task[current].handleGens[h])
    IN  /\ CanSpawn
        /\ withHandle => FreeHandles # {}
        /\ generations' = [generations EXCEPT ![NewKey.slot] = NewKey.gen]
        /\ object' = [object EXCEPT ![NewKey.slot] =
               [Child(slot) EXCEPT !.refs = IF withHandle THEN 1 ELSE 0]]
        /\ task' = [s \in TaskSlots |->
               IF s = slot THEN [NoTask EXCEPT !.state = "ready", !.obj = NewKey]
               ELSE IF s = current /\ withHandle
               THEN [task[s] EXCEPT !.handleGens[h] = g,
                                    !.handles[h] = [used |-> TRUE, gen |-> g, obj |-> NewKey]]
               ELSE task[s]]
        /\ mapped' = mapped \cup {slot}
        /\ scrub' = Wiped
        /\ UNCHANGED <<current, running>>

\* No handle can be returned: the prepared task is discarded, its slot and object
\* are free again but the generation stays used.
SpawnDiscarded ==
    /\ CanSpawn
    /\ \/ FreeHandles = {} /\ UNCHANGED task
       \/ \E h \in FreeHandles :
              /\ h = First(FreeHandles)
              /\ task' = [task EXCEPT ![current].handleGens[h] = next_generation(@)]
    /\ generations' = [generations EXCEPT ![NewKey.slot] = NewKey.gen]
    /\ scrub' = Wiped \cup {First(FreeTaskSlots)}
    /\ UNCHANGED <<object, mapped, current, running>>

-----------------------------------------------------------------------------
(* Leaving the running task *)

\* activate_task(n)
Activate(t, n) ==
    [s \in TaskSlots |-> IF s = n THEN [t[s] EXCEPT !.state = "running"] ELSE t[s]]

\* finalize_terminated_task(c), after the switch away from c.
Finalize(t, o, c) ==
    LET gone == Find(o, t[c].obj) => o[t[c].obj.slot].parentReaped
    IN  [tasks |-> IF gone THEN ClearTasks(t, {c}) ELSE t,
         objects |-> IF gone THEN Detach(o, t, {c}) ELSE o]

EndBatch ==
    /\ task' = [s \in TaskSlots |-> NoTask]
    /\ object' = [s \in ObjectSlots |-> NoObject]
    /\ mapped' = {}
    /\ scrub' = {}
    /\ current' = NoSlot
    /\ running' = FALSE
    /\ UNCHANGED generations

\* exit and user_exception: with no ready task left the whole batch ends
\* (scheduler_ending, then user_window_cleanup).
Exit ==
    \E status \in BOOLEAN :
        LET after == AfterTerminate(current, status)
        IN  /\ Trap
            /\ \/ ReadySlots(after.tasks) = {} /\ EndBatch
               \/ \E n \in ReadySlots(after.tasks) :
                      LET f == Finalize(Activate(after.tasks, n), after.objects, current)
                      IN  /\ task' = f.tasks
                          /\ object' = f.objects
                          /\ mapped' = mapped \ (after.freed \cup {current})
                          /\ scrub' = Wiped \cup after.freed \cup {current}
                          /\ current' = n
                          /\ UNCHANGED <<generations, running>>

\* A denied system call whose audit record could not be stored ends the batch, whoever is ready.
DeniedUnaudited == Trap /\ EndBatch

\* Switch from the running task, left in state s, to a ready one.
SwitchFrom(t) ==
    \E n \in ReadySlots(t) \ {current} :
        /\ task' = Activate(t, n)
        /\ current' = n
        /\ scrub' = Wiped
        /\ UNCHANGED <<object, generations, mapped, running>>

Yield == Trap /\ SwitchFrom([task EXCEPT ![current].state = "ready"])

Sleep == Trap /\ SwitchFrom([task EXCEPT ![current].state = "sleeping"])

\* wake_sleepers on the tasks of S; the preempted task is made ready likewise.
Wake(S) ==
    [s \in TaskSlots |-> IF s \in S THEN [task[s] EXCEPT !.state = "ready"] ELSE task[s]]

\* timer_interrupt: due sleepers wake; the running task may be preempted.
Timer ==
    \E S \in SUBSET {s \in TaskSlots : task[s].state = "sleeping"} :
        /\ Trap
        /\ \/ /\ task' = Wake(S)
              /\ scrub' = Wiped
              /\ UNCHANGED <<object, generations, mapped, current, running>>
           \/ SwitchFrom(Wake(S \cup {current}))

-----------------------------------------------------------------------------
(* syscall_wait_child, syscall_wait_process_handle, handle_close *)

\* reap_child_task outside a termination: the zombie's slot is freed too.
ReapChild(s) ==
    LET z == object[s].task
        Z == {z} \ {NoSlot, current}
    IN  /\ task' = ClearTasks(task, Z)
        /\ object' = [object EXCEPT ![s] =
               ReapParent([object[s] EXCEPT !.task = IF Z = {} THEN z ELSE NoSlot])]
        /\ mapped' = mapped \ Z
        /\ scrub' = Wiped \cup Z
        /\ UNCHANGED <<generations, current, running>>

\* Mutant: the caller blocks even if the process has already signalled.
BlocksAlways(s, reap, any) ==
    SwitchFrom([task EXCEPT ![current] =
        [task[current] EXCEPT !.state = "waiting", !.wait = KeyOf(object, s),
                  !.reap = reap, !.any = any]])

\* begin_wait on the object in slot s.  With nobody ready the call returns
\* would_block instead, as it does at once for a non-blocking wait.
BeginWait(s, reap, any) ==
    \/ object[s].signaled /\ reap /\ ReapChild(s)
    \/ /\ ~object[s].signaled
       /\ SwitchFrom([task EXCEPT ![current] =
              [task[current] EXCEPT !.state = "waiting", !.wait = KeyOf(object, s),
                        !.reap = reap, !.any = any]])

WaitChild(s) == Trap /\ s \in Children(object, task[current].obj) /\ BeginWait(s, TRUE, FALSE)

\* waitpid(0): a signalled child if there is one, else the first child.
WaitAny ==
    LET C == Children(object, task[current].obj)
        D == {s \in C : object[s].signaled}
    IN  /\ Trap
        /\ C # {}
        /\ BeginWait(First(IF D # {} THEN D ELSE C), TRUE, TRUE)

WaitHandle(h) ==
    LET e == task[current].handles[h]
    IN  /\ Trap
        /\ e.used
        /\ Find(object, e.obj)
        /\ BeginWait(e.obj.slot, FALSE, FALSE)

\* Mutant: the table entry is cleared and the reference kept.
CloseKeepsReference(h) ==
    /\ Trap
    /\ task[current].handles[h].used
    /\ task' = [task EXCEPT ![current].handles[h] = NoHandle]
    /\ scrub' = Wiped
    /\ UNCHANGED <<object, generations, mapped, current, running>>

CloseHandle(h) ==
    LET e == task[current].handles[h]
    IN  /\ Trap
        /\ e.used
        /\ task' = [task EXCEPT ![current].handles[h] = NoHandle]
        /\ object' = IF Find(object, e.obj)
                     THEN [object EXCEPT ![e.obj.slot] = Release(@, 1)] ELSE object
        /\ scrub' = Wiped
        /\ UNCHANGED <<generations, mapped, current, running>>

\* Calls that change nothing: getpid, process_query, stale handles, would_block,
\* a failed load.
Refused ==
    /\ Trap
    /\ scrub' = Wiped
    /\ UNCHANGED <<task, object, generations, mapped, current, running>>

Next ==
    \/ \E n \in 1 .. TaskCount : StartBatch(n) \/ StartBatchFails(n)
    \/ \E withHandle \in BOOLEAN : Spawn(withHandle)
    \/ SpawnDiscarded
    \/ Exit \/ DeniedUnaudited \/ Yield \/ Sleep \/ Timer
    \/ \E s \in ObjectSlots : WaitChild(s)
    \/ WaitAny
    \/ \E h \in Handles : WaitHandle(h) \/ CloseHandle(h)
    \/ Refused

Spec == Init /\ [][Next]_vars

-----------------------------------------------------------------------------
(* Properties *)

HandlesOn(key) ==
    {x \in TaskSlots \X Handles :
        task[x[1]].handles[x[2]].used /\ task[x[1]].handles[x[2]].obj = key}

\* handle_references counts the handles open in all tables, and every open handle
\* resolves, also after the parent has reaped: no termination, discard or close
\* order loses or repeats a release.
RefsExact ==
    /\ \A s \in ObjectSlots :
           object[s].used => object[s].refs = Cardinality(HandlesOn(KeyOf(object, s)))
    /\ \A s \in TaskSlots, h \in Handles :
           task[s].handles[h].used => Find(object, task[s].handles[h].obj)

\* A blocked waiter waits for a process that has yet to signal, and a wait for
\* any child blocks only while no child has signalled: no wakeup is lost.
NoLostWakeup ==
    \A s \in TaskSlots :
        task[s].state = "waiting" =>
            /\ Find(object, task[s].wait)
            /\ ~object[task[s].wait.slot].signaled
            /\ task[s].any => \A c \in Children(object, task[s].obj) : ~object[c].signaled

\* Task slots and objects refer to each other, and exactly the live tasks have
\* their pages: reaping through task_slot never clears a slot that has been given
\* to another process, and ended and discarded tasks have given their pages back.
SlotsLinked ==
    /\ mapped = {s \in TaskSlots : Live(task[s])}
    /\ \A s \in TaskSlots :
           task[s].state # "unused" =>
               /\ Find(object, task[s].obj)
               /\ object[task[s].obj.slot].task = s
    /\ \A s \in ObjectSlots :
           object[s].used /\ object[s].task # NoSlot =>
               task[object[s].task].obj = KeyOf(object, s)

\* No process object outlives its uses: it is running, or a handle refers to it,
\* or a live parent has yet to reap it.
Reclaimed ==
    \A s \in ObjectSlots :
        object[s].used /\ object[s].signaled =>
            object[s].refs > 0 \/ (object[s].parent # NoKey /\ ~object[s].parentReaped)

\* A stack due to be wiped never belongs to a task that can still run on it, even
\* when the slot of an ended task is reused at once.
ScrubSafe == \A s \in scrub : ~Live(task[s])

\* "A task fault terminates only that task": no exit or fault (Exit) ends a task other
\* than the one that was running.
FaultIsolated ==
    [][Exit => \A s \in TaskSlots : s # current /\ Live(task[s]) => Live(task'[s])]_vars
=============================================================================
