----------------------------- MODULE ZenPkgTool -----------------------------
(***************************************************************************)
(* The commands of the host tool zenpkg (tools/zenpkg/main.cpp, with the   *)
(* file handling of common.hpp, archive.hpp and foreign_probe.hpp), while  *)
(* other programs may rewrite the files it reads and it may be killed.     *)
(*                                                                         *)
(* read_binary takes a file's size first and its bytes later; probe, hash  *)
(* and import-native read chunk by chunk.  Each of these is a step.        *)
(***************************************************************************)
EXTENDS ZenPkg, ForeignFormat

CONSTANTS
    Names,         \* files
    Setups,        \* the files there at the start: functions from names to contents
    Contents,      \* name -> the contents another program may give it
    Directory,     \* the .zpk files of the directory index scans, in the order of their names
    CommandLines,
    Chunk,         \* units per read, 64 KiB in the code
    HeadSample,    \* units of the head sample, 64 KiB in the code
    MaxRewrites,
    MaxJobs

VARIABLES
    disk,       \* name -> [present, data]
    job,        \* the running command
    outcome,    \* what the last command reported
    rewrites,
    jobs

zenpkg_vars == <<disk, job, outcome, rewrites, jobs>>

Gone == [present |-> FALSE, data |-> <<>>]
File(data) == [present |-> TRUE, data |-> data]

NoLine == [command |-> "none", wellformed |-> FALSE]
NoJob == [phase |-> "idle", line |-> NoLine, todo |-> <<>>, got |-> <<>>, size |-> 0,
          read |-> <<>>, sample |-> <<>>, tail |-> <<>>, writes |-> <<>>]
NoOutcome == [line |-> NoLine, exit |-> -1, bytes |-> <<>>, package |-> Rejected, snapshot |-> <<>>,
              sample |-> <<>>, format |-> "none"]

ZenPkgInit ==
    /\ \E setup \in Setups : disk = [n \in Names |-> IF n \in DOMAIN setup THEN File(setup[n]) ELSE Gone]
    /\ job = NoJob
    /\ outcome = NoOutcome
    /\ rewrites = 0
    /\ jobs = 0

Finish(code, o) ==
    /\ outcome' = [o EXCEPT !.line = job.line, !.exit = code]
    /\ job' = NoJob
Fail == Finish(2, NoOutcome) /\ UNCHANGED disk

----------------------------------------------------------------------------
(* Starting a command.  Files are read in the order of the code: pack      *)
(* reads the payload before the manifest.                                  *)

Inputs(l) ==
    CASE l.command = "pack" -> IF l.payload = "-" THEN <<l.manifest>> ELSE <<l.payload, l.manifest>>
      [] l.command = "index" -> SelectSeq(Directory, LAMBDA n : disk[n].present)
      [] l.command = "manifest-check" -> <<l.manifest>>
      [] OTHER -> <<l.input>>

Streaming == {"probe", "hash", "import-native"}

Begin(l) ==
    /\ job.phase = "idle" /\ jobs < MaxJobs
    /\ jobs' = jobs + 1
    /\ IF l.wellformed
       THEN /\ job' = [NoJob EXCEPT !.line = l, !.todo = Inputs(l),
                                    !.phase = IF l.command \in Streaming THEN "open" ELSE "size"]
            /\ UNCHANGED outcome
       ELSE /\ outcome' = [NoOutcome EXCEPT !.line = l, !.exit = 2]
            /\ UNCHANGED job
    /\ UNCHANGED <<disk, rewrites>>

\* read_binary: the size of the next file, and then its bytes.  A file that has grown in
\* between is read up to its old size, one that has shrunk is refused.
ReadSize ==
    /\ job.phase = "size" /\ job.todo # <<>>
    /\ IF disk[Head(job.todo)].present
       THEN /\ job' = [job EXCEPT !.phase = "bytes", !.size = Len(disk[Head(job.todo)].data)]
            /\ UNCHANGED <<disk, outcome>>
       ELSE Fail
    /\ UNCHANGED <<rewrites, jobs>>

ReadBytes ==
    /\ job.phase = "bytes"
    /\ LET data == disk[Head(job.todo)].data
       IN IF Len(data) >= job.size
          THEN /\ job' = [job EXCEPT !.phase = "size", !.todo = Tail(@),
                                     !.got = Append(@, SubSeq(data, 1, job.size))]
               /\ UNCHANGED <<disk, outcome>>
          ELSE Fail
    /\ UNCHANGED <<rewrites, jobs>>

Ready(name) == job.phase = "size" /\ job.todo = <<>> /\ job.line.command = name

Queue(w) == job' = [job EXCEPT !.phase = "write", !.writes = w]

----------------------------------------------------------------------------
(* The commands once their files are read.                                 *)

\* verify and inspect.
Verify ==
    /\ Ready("verify")
    /\ LET p == parse_package_bytes(job.got[1])
       IN Finish(IF p.ok THEN 0 ELSE 2, [NoOutcome EXCEPT !.bytes = job.got[1], !.package = p])
    /\ UNCHANGED <<disk, rewrites, jobs>>

Pack ==
    /\ Ready("pack")
    /\ LET payload == IF Len(job.got) = 2 THEN job.got[1] ELSE <<>>
           parsed == parse_manifest(job.got[Len(job.got)])
       IN IF parsed.ok /\ CanBuild(parsed.manifest, payload)
          THEN /\ Queue(<<[to |-> job.line.output, data |-> build_package_bytes(parsed.manifest, payload)]>>)
               /\ UNCHANGED <<disk, outcome>>
          ELSE Fail
    /\ UNCHANGED <<rewrites, jobs>>

ManifestCheck ==
    /\ Ready("manifest-check")
    /\ LET parsed == parse_manifest(job.got[1])
       IN Finish(IF parsed.ok /\ validate_manifest(parsed.manifest, job.line.size) THEN 0 ELSE 2, NoOutcome)
    /\ UNCHANGED <<disk, rewrites, jobs>>

Extract ==
    /\ Ready("extract")
    /\ IF parse_package_bytes(job.got[1]).ok
       THEN /\ Queue(<<[to |-> job.line.manifest, data |-> ManifestText(job.got[1])],
                       [to |-> job.line.payload, data |-> Payload(job.got[1])]>>)
            /\ UNCHANGED <<disk, outcome>>
       ELSE Fail
    /\ UNCHANGED <<rewrites, jobs>>

ResolvePackage ==
    /\ Ready("resolve")
    /\ LET p == parse_package_bytes(job.got[1])
           host == job.line.host
       IN IF /\ p.ok
             /\ {host.architecture, host.target} \subseteq Identifiers
             /\ is_safe_version(host.os_version)
             /\ Comparable(host.os_version, p.manifest.min_os)
          THEN Finish(IF resolve_manifest(p.manifest, host) THEN 0 ELSE 3,
                    [NoOutcome EXCEPT !.bytes = job.got[1], !.package = p]) /\ UNCHANGED disk
          ELSE Fail
    /\ UNCHANGED <<rewrites, jobs>>

\* scan_packages: every file is a package and no two have the same identity.
PackageIdentity(p) == <<p.manifest.name, p.manifest.version, p.manifest.target>>

Index ==
    /\ Ready("index")
    /\ LET P == [i \in DOMAIN job.got |-> parse_package_bytes(job.got[i])]
       IN IF /\ \A i \in DOMAIN P : P[i].ok
             /\ \A i, j \in DOMAIN P : PackageIdentity(P[i]) = PackageIdentity(P[j]) => i = j
          THEN /\ Queue(<<[to |-> job.line.output,
                           data |-> [i \in DOMAIN P |-> [entry |-> PackageIdentity(P[i]), size |-> Len(job.got[i])]]]>>)
               /\ UNCHANGED <<disk, outcome>>
          ELSE Fail
    /\ UNCHANGED <<rewrites, jobs>>

----------------------------------------------------------------------------
(* Streaming reads.                                                        *)

\* Opening for probe, hash and import-native; import-native refuses a large file at once.
Open ==
    /\ job.phase = "open"
    /\ LET f == disk[job.line.input]
       IN IF f.present /\ (job.line.command = "import-native" => Len(f.data) <= PackageLimit)
          THEN /\ job' = [job EXCEPT !.phase = "stream", !.size = Len(f.data)]
               /\ UNCHANGED <<disk, outcome>>
          ELSE Fail
    /\ UNCHANGED <<rewrites, jobs>>

Least(a, b) == IF a < b THEN a ELSE b
LastUnits(s, n) == SubSeq(s, Len(s) - n + 1, Len(s))

TakeHead(sample, got) == sample \o SubSeq(got, 1, Least(Len(got), HeadSample - Len(sample)))

\* Mutant: a short chunk replaces the tail.
ReplaceTail(tail, got) == IF Len(got) >= Trailer THEN LastUnits(got, Trailer) ELSE got

TakeTail(tail, got) ==
    IF Len(got) >= Trailer THEN LastUnits(got, Trailer)
    ELSE LET overflow == IF Len(tail) + Len(got) > Trailer THEN Len(tail) + Len(got) - Trailer ELSE 0
         IN SubSeq(tail, overflow + 1, Len(tail)) \o got

\* One chunk.  import-native asks for no more than the size it measured.
NextChunk ==
    LET data == disk[job.line.input].data
        end == IF job.line.command = "import-native" THEN Least(job.size, Len(data)) ELSE Len(data)
    IN SubSeq(data, Len(job.read) + 1, Least(Len(job.read) + Chunk, end))

Stream ==
    /\ job.phase = "stream"
    /\ LET got == NextChunk
       IN job' = IF got = <<>> THEN [job EXCEPT !.phase = "end"]
                 ELSE [job EXCEPT !.read = @ \o got, !.sample = TakeHead(@, got), !.tail = TakeTail(@, got)]
    /\ UNCHANGED <<disk, outcome, rewrites, jobs>>

HashEnd ==
    /\ job.phase = "end" /\ job.line.command = "hash"
    /\ Finish(0, [NoOutcome EXCEPT !.bytes = job.read])
    /\ UNCHANGED <<disk, rewrites, jobs>>

\* The classifier sees the head sample and what it misses of the tail.
ProbeEnd ==
    /\ job.phase = "end" /\ job.line.command = "probe"
    /\ LET missing == job.size - Len(job.sample)
           sample == job.sample \o (IF missing > 0 THEN LastUnits(job.tail, Least(missing, Len(job.tail))) ELSE <<>>)
       IN IF Len(job.read) = job.size
          THEN /\ Finish(0, [NoOutcome EXCEPT !.bytes = job.read, !.sample = sample,
                                            !.format = classify(sample, job.line.suffix)])
               /\ UNCHANGED disk
          ELSE Fail
    /\ UNCHANGED <<rewrites, jobs>>

\* The snapshot of import-native: exactly the measured size, with nothing behind it.
Import ==
    /\ job.phase = "end" /\ job.line.command = "import-native"
    /\ LET format == classify(job.read, job.line.suffix)
           type == IF format = "zex1" THEN "zex1" ELSE "elf32"
       IN IF /\ Len(job.read) = job.size /\ Len(disk[job.line.input].data) <= job.size
             /\ format \in {"zex1", "elf"} /\ CanImport(job.line, format, job.read)
          THEN /\ Queue(<<[to |-> job.line.output, data |-> build_package_bytes(NativeManifest(job.line, type), job.read)]>>)
               /\ UNCHANGED <<disk, outcome>>
          ELSE Fail
    /\ UNCHANGED <<rewrites, jobs>>

----------------------------------------------------------------------------
(* write_binary_atomic: a temporary file renamed over the output; when the *)
(* rename fails the output is removed and the rename tried once more.      *)

WriteFails == job.phase = "write" /\ Fail /\ UNCHANGED <<rewrites, jobs>>

Written ==
    IF Len(job.writes) > 1 THEN job' = [job EXCEPT !.phase = "write", !.writes = Tail(@)] /\ UNCHANGED outcome
    ELSE IF job.line.command \in {"pack", "import-native"}
         THEN job' = [job EXCEPT !.phase = "readback"] /\ UNCHANGED outcome
    ELSE Finish(0, NoOutcome)

Replace ==
    /\ job.phase \in {"write", "retry"}
    /\ disk' = [disk EXCEPT ![Head(job.writes).to] = File(Head(job.writes).data)]
    /\ Written
    /\ UNCHANGED <<rewrites, jobs>>

ReplaceFails ==
    /\ job.phase = "write"
    /\ disk' = [disk EXCEPT ![Head(job.writes).to] = Gone]
    /\ job' = [job EXCEPT !.phase = "retry"]
    /\ UNCHANGED <<outcome, rewrites, jobs>>

RetryFails == job.phase = "retry" /\ Fail /\ UNCHANGED <<rewrites, jobs>>

\* pack and import-native read their output back; import-native also compares the payload
\* with its snapshot and removes an output that differs.
ReadBack ==
    /\ job.phase = "readback"
    /\ LET f == disk[job.line.output]
           p == parse_package_bytes(f.data)
       IN IF ~f.present \/ ~p.ok THEN Fail
          ELSE IF job.line.command = "import-native" /\ p.payload # job.read
          THEN Finish(2, NoOutcome) /\ disk' = [disk EXCEPT ![job.line.output] = Gone]
          ELSE /\ Finish(0, [NoOutcome EXCEPT !.bytes = f.data, !.package = p, !.snapshot = job.read])
               /\ UNCHANGED disk
    /\ UNCHANGED <<rewrites, jobs>>

----------------------------------------------------------------------------
(* The environment.                                                        *)

Rewrite(n, data) ==
    /\ job.phase # "idle" /\ rewrites < MaxRewrites
    /\ disk[n].present /\ disk[n].data # data
    /\ disk' = [disk EXCEPT ![n] = File(data)]
    /\ rewrites' = rewrites + 1
    /\ UNCHANGED <<job, outcome, jobs>>

Die ==
    /\ job.phase # "idle"
    /\ job' = NoJob
    /\ UNCHANGED <<disk, outcome, rewrites, jobs>>

ZenPkgNext ==
    \/ \E l \in CommandLines : Begin(l)
    \/ ReadSize \/ ReadBytes
    \/ Verify \/ Pack \/ ManifestCheck \/ Extract \/ ResolvePackage \/ Index
    \/ Open \/ Stream \/ HashEnd \/ ProbeEnd \/ Import
    \/ WriteFails \/ Replace \/ ReplaceFails \/ RetryFails \/ ReadBack
    \/ \E n \in Names : \E data \in Contents[n] : Rewrite(n, data)
    \/ Die

----------------------------------------------------------------------------
(* Properties.                                                             *)

\* A container has one form: whatever a command accepts as a package (verify, inspect, resolve,
\* and the read-back of pack and import-native) is, unit for unit, what build_package_bytes
\* makes of the manifest and the payload found in it.
VerifiedIsCanonical ==
    outcome.package.ok =>
        outcome.bytes = build_package_bytes(outcome.package.manifest, outcome.package.payload)

\* The bytes and the zeroes of every load segment are where its program header says.
LoadedAsDeclared(file) ==
    LET h == file[1].elf
        M == Memory(file)
    IN \A i \in Loadable(h) : LET s == h.segments[i] IN
           \A a \in Span(s.vaddr, s.memsz) :
               M[a] = IF a < s.vaddr + s.filesz THEN file[s.offset + (a - s.vaddr) + 1] ELSE Byte(0)

\* A package import-native reports as written contains the very bytes that were validated,
\* whatever happened to the input meanwhile, and the kernel takes it: its container parser
\* verifies it, its loader maps the payload with every segment's bytes in place.
ImportedRuns ==
    outcome.line.command = "import-native" /\ outcome.exit = 0 =>
        /\ outcome.package.payload = outcome.snapshot
        /\ NativeProgram(outcome.bytes)
        /\ HasHeader(outcome.snapshot, "elf") => LoadedAsDeclared(outcome.snapshot)

\* The MZ header of a file longer than its sample points behind the head sample, or so close
\* to its end that the PE signature would be cut: the classifier looks into the tail.
FarHeader(bytes) ==
    /\ SigAt(bytes, 1, "mz") /\ bytes[1].at + PeUnits > HeadSample
    /\ Len(bytes) > HeadSample + Trailer

\* The same file with an MZ header that points at itself.
Unlinked(bytes) == [bytes EXCEPT ![1].at = 0]

\* The bounded sample of probe: its ends are the ends of what was hashed, so a signature at
\* the start, at the ISO offset or in the trailer is seen as it would be in the whole file.
\* Only the answer to "is it PE" may differ, and only for a far header.
ProbeExact ==
    outcome.line.command = "probe" /\ outcome.exit = 0 =>
        LET all == outcome.bytes
            n == Least(Len(all), Trailer)
        IN /\ IsPrefix(SubSeq(all, 1, Least(Len(all), HeadSample)), outcome.sample)
           /\ LastUnits(outcome.sample, n) = LastUnits(all, n)
           /\ \/ outcome.format = classify(all, outcome.line.suffix)
              \/ FarHeader(all) /\ outcome.format \in {"pe", classify(Unlinked(all), outcome.line.suffix)}

============================================================================
