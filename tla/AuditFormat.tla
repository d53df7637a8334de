----------------------------- MODULE AuditFormat -----------------------------
(***************************************************************************)
(* The ZGAL1 audit journal: a ring of Capacity hash-chained records, as    *)
(* the kernel keeps it (kernel/parts/security_audit.inc) and as the host   *)
(* tools check it (tools/zenov_audit_format.hpp).                          *)
(*                                                                         *)
(* SHA-256 is taken to be injective: the hash of a record is the previous  *)
(* hash with the record appended, and the zero hash is the empty sequence. *)
(* An event stands for tick, action, verdict, path and file digest of a    *)
(* record; its second component says whether a bit of it has been flipped. *)
(***************************************************************************)
EXTENDS Integers, Sequences, SequencesExt

CONSTANTS
    Capacity,       \* disk_capacity, 64
    MaxSequence     \* 0xFFFFFFFF

ASSUME CapacityAssumption == Capacity \in Nat \ {0} /\ MaxSequence \in Nat \ {0}

Zero == << >>
Indices == 0 .. (Capacity - 1)

\* A record that was never written: all bytes zero.
NoRecord == [sequence |-> 0, event |-> <<"none", FALSE>>, hash |-> Zero]

Sha256(previous, bytes) == Append(previous, bytes)

hash_record(record, previous) == Sha256(previous, <<record.sequence, record.event>>)

initialize_empty ==
    [count |-> 0, next_index |-> 0, next_sequence |-> 1, anchor |-> Zero, head |-> Zero,
     records |-> [i \in Indices |-> NoRecord]]

First(j) == IF j.count = Capacity THEN j.next_index ELSE 0

\* The i-th record from the oldest.
RecordAt(j, i) == j.records[(First(j) + i) % Capacity]

EmptyValid(j) == j.next_index = 0 /\ j.next_sequence = 1 /\ j.anchor = Zero /\ j.head = Zero

HeaderValid(j) ==
    /\ j.count \in 0 .. Capacity /\ j.next_index \in Indices /\ j.next_sequence # 0
    /\ j.count > 0 => j.next_sequence > j.count
    /\ j.count \in 1 .. (Capacity - 1) => j.next_index = j.count /\ j.anchor = Zero

\* security_audit::verify: every record continues the stored hash of the one before it.
verify(j) ==
    /\ HeaderValid(j)
    /\ j.count = 0 => EmptyValid(j)
    /\ \A i \in 0 .. (j.count - 1) :
        LET previous == IF i = 0 THEN j.anchor ELSE RecordAt(j, i - 1).hash
        IN /\ RecordAt(j, i).sequence = j.next_sequence - j.count + i
           /\ RecordAt(j, i).hash = hash_record(RecordAt(j, i), previous)
    /\ j.count > 0 => RecordAt(j, j.count - 1).hash = j.head

\* zenov_audit_host::verify: every record continues the hash computed for the one before it.
Computed(j, n) == FoldLeft(LAMBDA h, i : hash_record(RecordAt(j, i - 1), h), j.anchor, [i \in 1 .. n |-> i])

host_verify(j, require_nonempty) ==
    /\ HeaderValid(j)
    /\ require_nonempty => j.count > 0
    /\ j.count = 0 => EmptyValid(j)
    /\ \A i \in 0 .. (j.count - 1) :
        /\ RecordAt(j, i).sequence = j.next_sequence - j.count + i
        /\ RecordAt(j, i).hash = Computed(j, i + 1)
    /\ j.count > 0 => Computed(j, j.count) = j.head

\* Mutant: the hash of the overwritten record does not become the anchor.
StaleAnchor(j, event) ==
    LET r == [sequence |-> j.next_sequence, event |-> event, hash |-> Zero]
        record == [r EXCEPT !.hash = hash_record(r, j.head)]
    IN [count |-> IF j.count < Capacity THEN j.count + 1 ELSE j.count,
        next_index |-> (j.next_index + 1) % Capacity,
        next_sequence |-> j.next_sequence + 1,
        anchor |-> j.anchor,
        head |-> record.hash,
        records |-> [j.records EXCEPT ![j.next_index] = record]]

\* append_to, when next_sequence is not the last one.
append_to(j, event) ==
    LET r == [sequence |-> j.next_sequence, event |-> event, hash |-> Zero]
        record == [r EXCEPT !.hash = hash_record(r, j.head)]
    IN [count |-> IF j.count < Capacity THEN j.count + 1 ELSE j.count,
        next_index |-> (j.next_index + 1) % Capacity,
        next_sequence |-> j.next_sequence + 1,
        anchor |-> IF j.count = Capacity THEN j.records[j.next_index].hash ELSE j.anchor,
        head |-> record.hash,
        records |-> [j.records EXCEPT ![j.next_index] = record]]

\* --emit-tampered: one bit of the path of the oldest record.
tamper_oldest(j) == [j EXCEPT !.records[First(j)].event[2] = ~@]

Events(j) == [i \in 1 .. j.count |-> RecordAt(j, i - 1).event]
=============================================================================
