----------------------------- MODULE BlockStore -----------------------------
(***************************************************************************)
(* What a block device promises the file system: a sector that was written *)
(* with success is on the medium and nothing is left in flight; a write    *)
(* that failed stays in limbo, where it may take effect at any later time  *)
(* or be lost; no other sector changes; a read returns what is on the      *)
(* medium or in limbo.                                                     *)
(***************************************************************************)
CONSTANTS
    Lbas,       \* sector addresses
    Values,     \* what a sector can hold
    NoRequest,
    Failed,     \* outcome of a failed request
    Pending,    \* no request has ended since the last one began
    Done        \* outcome of a write

VARIABLES
    store,      \* [Lbas -> Values], the medium
    request,    \* the open request, or NoRequest
    limbo,      \* writes that may still take effect
    outcome     \* of the last request

Reads == [op : {"read"}, lba : Lbas]
Writes == [op : {"write"}, lba : Lbas, value : Values]

IsWrite == request \in Writes

\* Limbo only gains the open write, and may lose anything.
Drift == limbo' \subseteq limbo \cup (IF IsWrite THEN {request} ELSE {})

BInit ==
    /\ store \in [Lbas -> Values]
    /\ request = NoRequest
    /\ limbo = {}
    /\ outcome = Pending

Begin ==
    /\ request = NoRequest
    /\ request' \in Reads \cup Writes
    /\ outcome' = Pending
    /\ limbo' \subseteq limbo
    /\ UNCHANGED store

TakesEffect ==
    /\ \E w \in limbo \cup (IF IsWrite THEN {request} ELSE {}) :
           store' = [store EXCEPT ![w.lba] = w.value]
    /\ Drift
    /\ UNCHANGED <<request, outcome>>

Drifts == Drift /\ UNCHANGED <<store, request, outcome>>

ReadDone ==
    /\ request \in Reads
    /\ outcome' \in {store[request.lba]} \cup {w.value : w \in {x \in limbo : x.lba = request.lba}}
    /\ request' = NoRequest
    /\ Drift
    /\ UNCHANGED store

WriteDone ==
    /\ IsWrite
    /\ store[request.lba] = request.value
    /\ outcome' = Done
    /\ request' = NoRequest
    /\ limbo' = {}
    /\ UNCHANGED store

Fails ==
    /\ request # NoRequest
    /\ outcome' = Failed
    /\ request' = NoRequest
    /\ Drift
    /\ UNCHANGED store

Interrupted ==
    /\ request' = NoRequest
    /\ outcome' = Pending
    /\ limbo' = {}
    /\ UNCHANGED store

BNext ==
    \/ Begin \/ TakesEffect \/ Drifts
    \/ ReadDone \/ WriteDone \/ Fails
    \/ Interrupted

BSpec == BInit /\ [][BNext]_<<store, request, limbo, outcome>>
=============================================================================
