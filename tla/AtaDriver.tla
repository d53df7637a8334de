------------------------------ MODULE AtaDriver ------------------------------
(***************************************************************************)
(* The deadline ATA driver (storage_ata_deadline_*.inc): one request at a  *)
(* time, polled against a tick deadline, at most MaxAttempts attempts with *)
(* a soft reset and a revalidating IDENTIFY between them.                  *)
(*                                                                         *)
(* The disk is external: a status register, the command it executes, a     *)
(* volatile write cache and a medium.  It may stay busy for ever, fail a   *)
(* command, vanish, and come back from a reset with another capacity.  It  *)
(* raises BSY before the driver's next read of the status register and     *)
(* ignores commands while BSY is up.                                       *)
(***************************************************************************)
EXTENDS Integers

CONSTANTS
    Lbas,           \* sector addresses, 0..n
    Values,         \* what a sector can hold
    Capacities,     \* what IDENTIFY may report
    MaxAttempts,    \* ata2_max_attempts
    CommandTicks,   \* ata2_command_timeout_ms in ticks
    ResetTicks,     \* ata2_reset_timeout_ms in ticks
    TickModulus,    \* timer_ticks wraps here
    Contexts,       \* may interrupts be on (TRUE), off (FALSE) in a request
    NoRequest, NoValue, Failed, Pending, Done

ASSUME AtaAssumption ==
    /\ Lbas \subseteq Nat /\ Capacities \subseteq Nat
    /\ MaxAttempts \in Nat \ {0}
    /\ CommandTicks \in Nat \ {0} /\ ResetTicks \in Nat \ {0}
    /\ TickModulus \in Nat
    /\ 2 * CommandTicks < TickModulus /\ 2 * ResetTicks < TickModulus
    /\ Contexts \subseteq BOOLEAN /\ Contexts # {}

VARIABLES
    status, command, data, buffer, cache, medium, capacity,       \* the disk
    pc, request, attempt, resetting, expected, got, outcome,      \* the driver
    present, total, ata0,                                         \* what it publishes
    interrupts, now, deadline, waited                             \* time

disk == <<status, command, data, buffer, cache, medium, capacity>>
published == <<present, total, ata0>>
clock == <<interrupts, now, deadline, waited>>
driver == <<pc, request, attempt, resetting, expected, got, outcome>>
vars == <<disk, driver, published, clock>>

Reads == [op : {"read"}, lba : Lbas]
Writes == [op : {"write"}, lba : Lbas, value : Values]
NoCommand == [op |-> "none"]
Commands == [op : {"none", "identify", "flush"}] \cup [op : {"read", "write"}, lba : Lbas]

Errors == {"fault", "abort", "bad", "gone"}   \* bad: the errors no retry helps

\* Stages that poll the status register.
Waits == {"ready", "drq", "done", "flush", "reset", "identify_drq", "identify_done"}

TypeOK ==
    /\ status \in {"ready", "busy", "drq"} \cup Errors
    /\ command \in Commands
    /\ data \in Values \cup {NoValue}
    /\ buffer \in Values \cup Capacities \cup {NoValue}
    /\ cache \in [Lbas -> Values \cup {NoValue}]
    /\ medium \in [Lbas -> Values]
    /\ capacity \in Capacities
    /\ pc \in Waits \cup {"off", "idle", "absent", "check"}
    /\ request \in Reads \cup Writes \cup {NoRequest}
    /\ attempt \in 0 .. MaxAttempts
    /\ resetting \in BOOLEAN /\ present \in BOOLEAN /\ interrupts \in BOOLEAN
    /\ expected \in Capacities \cup {0} /\ total \in Capacities \cup {0}
    /\ ata0 \in [present : BOOLEAN, sectors : Capacities \cup {0}]
    /\ got \in Values \cup Capacities \cup {NoValue}
    /\ outcome \in Values \cup {Failed, Pending, Done}
    /\ now \in 0 .. TickModulus - 1 /\ deadline \in 0 .. TickModulus - 1
    /\ waited \in 0 .. TickModulus

Init ==
    /\ status = "busy" /\ command = NoCommand
    /\ data = NoValue /\ buffer = NoValue
    /\ cache = [l \in Lbas |-> NoValue]
    /\ medium \in [Lbas -> Values]
    /\ capacity \in Capacities
    /\ pc = "off" /\ request = NoRequest /\ attempt = 0
    /\ resetting = FALSE /\ expected = 0 /\ got = NoValue /\ outcome = Pending
    /\ present = FALSE /\ total = 0 /\ ata0 = [present |-> FALSE, sectors |-> 0]
    /\ interrupts = TRUE /\ now \in 0 .. TickModulus - 1
    /\ deadline = now /\ waited = 0

-----------------------------------------------------------------------------
(* The disk *)

Contents(l) == IF cache[l] = NoValue THEN medium[l] ELSE cache[l]

\* A write whose data the disk holds may end in the cache.
Accept == IF command.op = "write" /\ data # NoValue
          THEN [cache EXCEPT ![command.lba] = data]
          ELSE cache

DiskRaisesDrq ==
    /\ status = "busy" /\ data = NoValue
    /\ \/ command.op = "identify" /\ buffer' = capacity
       \/ command.op = "read" /\ command.lba < capacity /\ buffer' = Contents(command.lba)
       \/ command.op = "write" /\ command.lba < capacity /\ buffer' = NoValue
    /\ status' = "drq"
    /\ UNCHANGED <<command, data, cache, medium, capacity, driver, published, clock>>

DiskFinishes ==
    /\ status = "busy"
    /\ \/ command.op = "none"
       \/ command.op = "write" /\ data # NoValue
       \/ command.op = "flush" /\ \A l \in Lbas : cache[l] = NoValue
    /\ status' = "ready"
    /\ cache' = Accept
    /\ command' = NoCommand /\ data' = NoValue
    /\ UNCHANGED <<buffer, medium, capacity, driver, published, clock>>

DiskFails ==
    /\ status = "busy"
    /\ status' \in Errors
    /\ cache' \in {cache, Accept}
    /\ command' = NoCommand /\ data' = NoValue
    /\ UNCHANGED <<buffer, medium, capacity, driver, published, clock>>

DiskDestages ==
    /\ \E l \in Lbas :
           /\ cache[l] # NoValue
           /\ medium' = [medium EXCEPT ![l] = cache[l]]
           /\ cache' = [cache EXCEPT ![l] = NoValue]
    /\ UNCHANGED <<status, command, data, buffer, capacity, driver, published, clock>>

\* A command written to the command port.
DiskTakes(c) ==
    /\ IF status \in {"busy", "gone"}
       THEN UNCHANGED <<status, command, data>>
       ELSE status' = "busy" /\ command' = c /\ data' = NoValue
    /\ UNCHANGED <<buffer, cache, medium, capacity>>

\* The 256 words of a sector moved through the data port.
DiskMoves(word) ==
    /\ status' = "busy"
    /\ IF command.op = "write"
       THEN data' = word /\ UNCHANGED command
       ELSE data' = NoValue /\ command' = NoCommand
    /\ buffer' = NoValue
    /\ UNCHANGED <<cache, medium, capacity>>

\* SRST raised and dropped.
DiskResets ==
    /\ status' = "busy" /\ command' = NoCommand /\ data' = NoValue /\ buffer' = NoValue
    /\ cache' \in {cache, Accept}
    /\ capacity' \in Capacities
    /\ UNCHANGED medium

-----------------------------------------------------------------------------
(* Time *)

Await(ticks) ==
    /\ deadline' = (now + ticks) % TickModulus
    /\ waited' = 0
    /\ UNCHANGED <<interrupts, now>>

\* Mutant: the counters are compared without their wrap.
ReachedUnsigned == now >= deadline

\* static_cast<int32_t>(now - deadline) >= 0
DeadlineReached == (now - deadline) % TickModulus < TickModulus \div 2

\* The timer interrupt; the polling loop reads the clock at least once a tick.
Tick ==
    /\ pc \in Waits
    /\ interrupts
    /\ ~DeadlineReached
    /\ now' = (now + 1) % TickModulus
    /\ waited' = waited + 1
    /\ UNCHANGED <<interrupts, deadline, disk, driver, published>>

-----------------------------------------------------------------------------
(* How a poll of ata2_wait ends *)

Satisfied(require_drq) ==
    /\ status \notin Errors \cup {"busy"}
    /\ require_drq => status = "drq"

TimedOut(require_drq) ==
    status \notin Errors /\ ~Satisfied(require_drq) /\ DeadlineReached

WaitFails(require_drq) == status \in Errors \/ TimedOut(require_drq)

\* block_retryable of what a failed wait reports.
WaitRetryable == status \notin {"bad", "gone"}

-----------------------------------------------------------------------------
(* Ends of attempts, resets and requests *)

Publish(isPresent, sectors) ==
    LET n == IF isPresent THEN sectors ELSE 0
    IN  /\ present' = isPresent
        /\ total' = n
        /\ ata0' = [present |-> isPresent, sectors |-> n]

Retire == request' = NoRequest /\ attempt' = 0 /\ resetting' = FALSE /\ expected' = 0
          /\ got' = NoValue /\ deadline' = now /\ waited' = 0 /\ UNCHANGED <<interrupts, now>>

Complete(result) ==
    pc' = "idle" /\ outcome' = result /\ Retire

\* The first IDENTIFY fails: init_deadline turns to the live image.
BootFails ==
    pc' = "absent" /\ Publish(FALSE, 0) /\ Retire /\ UNCHANGED outcome

ResetFails ==
    /\ IF request = NoRequest THEN BootFails
       ELSE Publish(FALSE, 0) /\ Complete(Failed)
    /\ UNCHANGED disk

SoftReset ==
    /\ expected' = total
    /\ resetting' = TRUE
    /\ pc' = "reset"
    /\ Await(ResetTicks)
    /\ DiskResets
    /\ UNCHANGED <<request, attempt, got, outcome, published>>

AttemptFails(retryable) ==
    IF retryable /\ attempt < MaxAttempts
    THEN SoftReset
    ELSE /\ IF request = NoRequest THEN BootFails
            ELSE Complete(Failed) /\ UNCHANGED published
         /\ UNCHANGED disk

IdentifyFails(retryable) ==
    IF resetting THEN ResetFails ELSE AttemptFails(retryable)

\* Mutant: any capacity will do.
AcceptsAnyCapacity(observed) == observed # 0

RevalidationAccepts(observed) ==
    observed # 0 /\ (expected # 0 => observed = expected)

-----------------------------------------------------------------------------
(* The driver's steps *)

SendIdentify ==
    /\ pc' = "identify_drq"
    /\ Await(CommandTicks)
    /\ DiskTakes([op |-> "identify"])

Boot ==
    /\ pc = "off"
    /\ attempt' = 1
    /\ SendIdentify
    /\ UNCHANGED <<request, resetting, expected, got, outcome, published>>

Request ==
    /\ pc = "idle"
    /\ request' \in Reads \cup Writes
    /\ interrupts' \in Contexts
    /\ pc' = "check" /\ outcome' = Pending
    /\ UNCHANGED <<disk, attempt, resetting, expected, got, published, now, deadline, waited>>

Check ==
    /\ pc = "check"
    /\ IF ata0.present /\ request.lba < ata0.sectors /\ present /\ request.lba < total
       THEN /\ pc' = "ready" /\ attempt' = 1
            /\ Await(CommandTicks)
            /\ UNCHANGED <<request, resetting, expected, got, outcome>>
       ELSE Complete(Failed)
    /\ UNCHANGED <<disk, published>>

\* A wait of an attempt: what follows it, or the failure of the attempt.
PollReady ==
    /\ pc = "ready"
    /\ \/ /\ Satisfied(FALSE)
          /\ DiskTakes([op |-> request.op, lba |-> request.lba])
          /\ pc' = "drq" /\ Await(CommandTicks)
          /\ UNCHANGED <<request, attempt, resetting, expected, got, outcome, published>>
       \/ WaitFails(FALSE) /\ AttemptFails(WaitRetryable)

PollDrq ==
    /\ pc = "drq"
    /\ \/ /\ Satisfied(TRUE)
          /\ IF request.op = "read"
             THEN got' = buffer /\ DiskMoves(NoValue)
             ELSE got' = NoValue /\ DiskMoves(request.value)
          /\ pc' = "done" /\ Await(CommandTicks)
          /\ UNCHANGED <<request, attempt, resetting, expected, outcome, published>>
       \/ WaitFails(TRUE) /\ AttemptFails(WaitRetryable)

\* Mutant: a write ends when the disk has taken the data.
PollDoneUnflushed ==
    /\ pc = "done"
    /\ \/ /\ Satisfied(FALSE)
          /\ Complete(IF request.op = "read" THEN got ELSE Done)
          /\ UNCHANGED <<disk, published>>
       \/ WaitFails(FALSE) /\ AttemptFails(WaitRetryable)

PollDone ==
    /\ pc = "done"
    /\ \/ /\ Satisfied(FALSE) /\ request.op = "read"
          /\ Complete(got)
          /\ UNCHANGED <<disk, published>>
       \/ /\ Satisfied(FALSE) /\ request.op = "write"
          /\ DiskTakes([op |-> "flush"])
          /\ pc' = "flush" /\ Await(CommandTicks)
          /\ UNCHANGED <<request, attempt, resetting, expected, got, outcome, published>>
       \/ WaitFails(FALSE) /\ AttemptFails(WaitRetryable)

PollFlush ==
    /\ pc = "flush"
    /\ \/ Satisfied(FALSE) /\ Complete(Done) /\ UNCHANGED <<disk, published>>
       \/ WaitFails(FALSE) /\ AttemptFails(WaitRetryable)

PollReset ==
    /\ pc = "reset"
    /\ \/ /\ Satisfied(FALSE)
          /\ SendIdentify
          /\ UNCHANGED <<request, attempt, resetting, expected, got, outcome, published>>
       \/ WaitFails(FALSE) /\ ResetFails

\* The second disjunct: a device whose signature is not that of a disk.
PollIdentifyDrq ==
    /\ pc = "identify_drq"
    /\ \/ /\ Satisfied(TRUE)
          /\ got' = buffer /\ DiskMoves(NoValue)
          /\ pc' = "identify_done" /\ Await(CommandTicks)
          /\ UNCHANGED <<request, attempt, resetting, expected, outcome, published>>
       \/ Satisfied(TRUE) /\ IdentifyFails(FALSE)
       \/ WaitFails(TRUE) /\ IdentifyFails(WaitRetryable)

\* Mutant: a recovered attempt is not counted.
RevalidateUncounted ==
    IF ~RevalidationAccepts(got) THEN ResetFails
    ELSE /\ Publish(TRUE, got)
         /\ resetting' = FALSE /\ expected' = 0 /\ got' = NoValue
         /\ IF request = NoRequest THEN SendIdentify
            ELSE pc' = "ready" /\ Await(CommandTicks) /\ UNCHANGED disk
         /\ UNCHANGED <<request, attempt, outcome>>

\* After a reset, revalidate and start the next attempt.
Revalidate ==
    IF ~RevalidationAccepts(got) THEN ResetFails
    ELSE /\ Publish(TRUE, got)
         /\ attempt' = attempt + 1
         /\ resetting' = FALSE /\ expected' = 0 /\ got' = NoValue
         /\ IF request = NoRequest THEN SendIdentify
            ELSE pc' = "ready" /\ Await(CommandTicks) /\ UNCHANGED disk
         /\ UNCHANGED <<request, outcome>>

PollIdentifyDone ==
    /\ pc = "identify_done"
    /\ \/ Satisfied(FALSE) /\ resetting /\ Revalidate
       \/ /\ Satisfied(FALSE) /\ ~resetting /\ got # 0
          /\ Publish(TRUE, got) /\ pc' = "idle" /\ Retire
          /\ UNCHANGED <<disk, outcome>>
       \/ Satisfied(FALSE) /\ ~resetting /\ got = 0 /\ IdentifyFails(FALSE)
       \/ WaitFails(FALSE) /\ IdentifyFails(WaitRetryable)

\* Power fails at any point: the cache is lost, the kernel starts again.
PowerLoss ==
    /\ status' = "busy" /\ command' = NoCommand /\ data' = NoValue /\ buffer' = NoValue
    /\ cache' = [l \in Lbas |-> NoValue]
    /\ pc' = "off" /\ outcome' = Pending
    /\ Publish(FALSE, 0)
    /\ request' = NoRequest /\ attempt' = 0 /\ resetting' = FALSE /\ expected' = 0
    /\ got' = NoValue /\ interrupts' = TRUE /\ deadline' = now /\ waited' = 0
    /\ UNCHANGED <<medium, capacity, now>>

DriverStep ==
    \/ Boot \/ Check
    \/ PollReady \/ PollDrq \/ PollDone \/ PollFlush
    \/ PollReset \/ PollIdentifyDrq \/ PollIdentifyDone

DiskStep == DiskRaisesDrq \/ DiskFinishes \/ DiskFails \/ DiskDestages

Next == DriverStep \/ Request \/ DiskStep \/ Tick \/ PowerLoss

Spec == Init /\ [][Next]_vars

\* The processor executes the driver and the timer interrupts it; the disk
\* owes nothing.
FairSpec == Spec /\ WF_vars(DriverStep) /\ WF_vars(Tick)

-----------------------------------------------------------------------------
(* Properties *)

\* Writes the disk holds and has not put on the medium.
InLimbo ==
    {[op |-> "write", lba |-> l, value |-> cache[l]] : l \in {x \in Lbas : cache[x] # NoValue}}
    \cup IF command.op = "write" /\ data # NoValue
         THEN {[op |-> "write", lba |-> command.lba, value |-> data]} ELSE {}

Store == INSTANCE BlockStore WITH store <- medium, limbo <- InLimbo

\* Through timeouts, retries, resets and power loss the driver is a block
\* store: ata2_write_result reports success only when the sector is on the
\* medium and no earlier failed write can overtake it; ata2_read_result returns
\* the sector.
ImplementsStore == Store!BSpec

\* ata2_read_once and ata2_write_once address only sectors the disk has, even
\* when it came back from a soft reset with another capacity.
CommandsInRange ==
    command.op \in {"read", "write"} => command.lba < capacity

\* A wait on a busy disk gives up after its whole timeout and not before,
\* also when timer_ticks wraps during the wait.
TimeoutExact ==
    [][(pc \in Waits /\ status = "busy" /\ pc' \notin {pc, "off"})
          => waited = (IF pc = "reset" THEN ResetTicks ELSE CommandTicks)]_vars

\* Every request ends, whatever the disk does: waits have deadlines and
\* attempts are counted.
RequestEnds == request # NoRequest ~> request = NoRequest
=============================================================================
