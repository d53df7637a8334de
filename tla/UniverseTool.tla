---------------------------- MODULE UniverseTool ----------------------------
(***************************************************************************)
(* One invocation after the other of the zenuniverse command               *)
(* (tools/zenuniverse/main.cpp, artifact_manifest.hpp, common.hpp), while  *)
(* other programs change the artifact it reads.                            *)
(*                                                                         *)
(* A command loads the catalog, hashes the artifact chunk by chunk between *)
(* two fstat calls, decides, and replaces its output through a temporary   *)
(* file.  It may be killed between any two of these steps.  A digest       *)
(* stands for the bytes it was computed from.  Every write to a file gets  *)
(* a time stamp of its own.                                                *)
(***************************************************************************)
EXTENDS Universe

CONSTANTS
    Paths,        \* the number of .zsource file names, in their order
    Directories,  \* what the catalog directory may hold: per file name a descriptor or NoFile
    Commands,     \* the command lines that are tried
    Profiles,     \* the built-in host profiles, by name
    Bytes,        \* values of a chunk of the artifact
    MaxChunks,    \* longest artifact
    MaxEdits,     \* changes other programs make
    MaxRuns       \* commands run

VARIABLES
    dir,      \* the catalog directory
    inodes,   \* the artifact: the inodes its path has named, the last one now
    out,      \* what each output path holds
    cmd,      \* the running command
    report,   \* what the last plan said
    edits,    \* changes made so far by other programs
    runs,     \* commands started so far
    past      \* history: every content the artifact has had

vars == <<dir, inodes, out, cmd, report, edits, runs, past>>

NoFile == [id |-> <<"no file", "no file">>]

Absent == [type |-> "absent"]

Outputs == {"compile", "artifact-manifest", "launch-plan"}

Idle == [pc |-> "idle", code |-> 0]

NoReport == [ready |-> FALSE]

Step(pc) == cmd.pc = pc /\ UNCHANGED <<dir, inodes, edits, runs, past>>

\* Every Error ends the command with status 2.
Exit(code) == cmd' = [Idle EXCEPT !.code = code]

Init ==
    /\ dir \in Directories
    /\ \E n \in 0 .. MaxChunks :
         inodes = <<[time |-> 0, bytes |-> [i \in 1 .. n |-> CHOOSE b \in Bytes : TRUE]]>>
    /\ out = [o \in Outputs |-> Absent]
    /\ cmd = Idle
    /\ report = NoReport
    /\ edits = 0
    /\ runs = 0
    /\ past = {inodes[1].bytes}

\* parse_args, one, many, reject_unknown and the dispatch of command: a
\* command line that is not well formed ends at once.  All that a command
\* can find of an earlier one is a manifest: another run without one, or of a
\* command that reads none, would be a first run again.
Start(c) ==
    /\ cmd.pc = "idle"
    /\ runs < MaxRuns
    /\ runs = 0 \/ (out["artifact-manifest"] # Absent /\ c.name \in {"verify-artifact", "launch-plan"})
    /\ runs' = runs + 1
    /\ report' = NoReport
    /\ IF ~ c.wellformed THEN Exit(2)
       ELSE cmd' = [pc |-> CASE c.name = "validate" -> "validate"
                             [] c.name = "verify-artifact" -> "manifest"
                             [] c.name = "host-profile" -> "profile"
                             [] OTHER -> "load",
                    code |-> 0, line |-> c, records |-> <<>>, manifest |-> Absent,
                    inode |-> 0, time |-> 0, size |-> 0, digest |-> <<>>, text |-> Absent]
    /\ UNCHANGED <<dir, inodes, out, edits, past>>

\* validate takes the files one by one and stops at the first bad one.
Validate ==
    /\ Step("validate")
    /\ Exit(IF \A p \in 1 .. Paths : dir[p] # NoFile /\ validate_descriptor(dir[p]) THEN 0 ELSE 2)
    /\ UNCHANGED <<out, report>>

\* The profile whose architecture is not one of its capabilities would not
\* pass validate_host_profile.
validate_host_profile(p) ==
    /\ p.limit > 0
    /\ \A c \in p.capabilities : known_capability(c)
    /\ "cpu." \o p.architecture \in p.capabilities

HostProfile ==
    /\ Step("profile")
    /\ Exit(IF cmd.line.host \in DOMAIN Profiles /\ validate_host_profile(Profiles[cmd.line.host])
            THEN 0 ELSE 2)
    /\ UNCHANGED <<out, report>>

----------------------------------------------------------------------------
(* load_directory reads and validates file by file, in the order of the    *)
(* names.  A file edited meanwhile is found old or new: either way what is *)
(* loaded is one of the directories of Init, so that one step reads it.    *)

Identity(d) == <<d.id, d.version>>

load_directory ==
    SelectSeq([p \in 1 .. Paths |-> dir[p]], LAMBDA d : d # NoFile)

GoodCatalog(records) ==
    /\ records # <<>>
    /\ \A i \in DOMAIN records : validate_descriptor(records[i])
    /\ \A i, j \in DOMAIN records : Identity(records[i]) = Identity(records[j]) => i = j

Load ==
    /\ Step("load")
    /\ IF GoodCatalog(load_directory)
       THEN cmd' = [cmd EXCEPT !.records = load_directory,
                               !.pc = IF cmd.line.name = "launch-plan" THEN "manifest" ELSE cmd.line.name]
       ELSE Exit(2)
    /\ UNCHANGED <<out, report>>

----------------------------------------------------------------------------
(* digest_regular_file: open, fstat, read to the end, fstat.  The open     *)
(* descriptor keeps its inode when the path is replaced.                   *)

HashOpen ==
    /\ Step("hash")
    /\ LET now == inodes[Len(inodes)]
       IN  IF now.bytes = <<>> THEN Exit(2)
           ELSE cmd' = [cmd EXCEPT !.pc = "hashing", !.digest = <<>>, !.inode = Len(inodes),
                                   !.time = now.time, !.size = Len(now.bytes)]
    /\ UNCHANGED <<out, report>>

Opened == inodes[cmd.inode]

HashRead ==
    /\ Step("hashing")
    /\ Len(cmd.digest) < Len(Opened.bytes)
    /\ cmd' = [cmd EXCEPT !.digest = Append(@, Opened.bytes[Len(@) + 1])]
    /\ UNCHANGED <<out, report>>

\* Mutant: only the size is compared.
ChangedInSize == Len(cmd.digest) # cmd.size \/ Len(Opened.bytes) # cmd.size

\* size_changed or time_changed; the identity of an open file cannot change.
ChangedWhileHashing ==
    \/ Len(cmd.digest) # cmd.size
    \/ Len(Opened.bytes) # cmd.size
    \/ Opened.time # cmd.time

\* verify_artifact_file compares the digest with that of the manifest.
HashDone ==
    /\ Step("hashing")
    /\ Len(cmd.digest) >= Len(Opened.bytes)
    /\ IF \/ ChangedWhileHashing
          \/ cmd.manifest # Absent /\ cmd.manifest.digest # cmd.digest
       THEN Exit(2)
       ELSE CASE cmd.line.name = "verify-artifact" -> Exit(0)
              [] cmd.line.name = "launch-plan" -> cmd' = [cmd EXCEPT !.pc = "launch"]
              [] OTHER -> cmd' = [cmd EXCEPT !.pc = "describe"]
    /\ UNCHANGED <<out, report>>

\* parse_artifact_manifest: only the canonical text of a valid manifest.
ParseManifest ==
    /\ Step("manifest")
    /\ LET m == out["artifact-manifest"]
       IN  IF m.type = "manifest" THEN cmd' = [cmd EXCEPT !.pc = "hash", !.manifest = m]
           ELSE Exit(2)
    /\ UNCHANGED <<out, report>>

----------------------------------------------------------------------------
(* write_atomic: the text goes to a temporary file that a rename puts in   *)
(* place.  When the rename fails the old file is removed and the rename    *)
(* tried once more.                                                        *)

Write(text, code) == cmd' = [cmd EXCEPT !.pc = "write", !.text = text, !.code = code]

WriteTemporary ==
    /\ Step("write")
    /\ \/ cmd' = [cmd EXCEPT !.pc = "rename"]
       \/ Exit(2)
    /\ UNCHANGED <<out, report>>

Rename ==
    /\ Step("rename")
    /\ \/ /\ out' = [out EXCEPT ![cmd.line.name] = cmd.text]
          /\ Exit(cmd.code)
       \/ /\ out' = [out EXCEPT ![cmd.line.name] = Absent]
          /\ cmd' = [cmd EXCEPT !.pc = "retry"]
    /\ UNCHANGED report

RenameAgain ==
    /\ Step("retry")
    /\ \/ /\ out' = [out EXCEPT ![cmd.line.name] = cmd.text]
          /\ Exit(cmd.code)
       \/ UNCHANGED out /\ Exit(2)
    /\ UNCHANGED report

----------------------------------------------------------------------------
(* The commands that read the catalog, once it is loaded.                  *)

Compile ==
    /\ Step("compile")
    /\ Write([type |-> "catalog", records |-> compile_catalog(cmd.records)], 0)
    /\ UNCHANGED <<out, report>>

KnownHost == cmd.line.host \in DOMAIN Profiles

Host == Profiles[cmd.line.host]

\* What a plan printed: the plan for an application or, by runtime-status, for
\* a runtime alone, and the provider it names besides.
Report(plan, application, provider) ==
    report' = [ready |-> plan.blocked = {}, plan |-> plan, application |-> application,
               provider |-> provider, records |-> cmd.records, line |-> cmd.line,
               arch |-> IF cmd.line.name = "resolve" THEN cmd.line.arch ELSE Host.architecture,
               host |-> IF cmd.line.name = "resolve" THEN cmd.line.capabilities ELSE Host.capabilities]

ExitCode(plan) == IF plan.blocked = {} THEN 0 ELSE 3

Resolve ==
    /\ Step("resolve")
    /\ LET d == latest(cmd.records, cmd.line.package)
           plan == make_plan(d, cmd.records, cmd.line.arch, cmd.line.capabilities)
       IN  IF d = NoDescriptor \/ \E c \in cmd.line.capabilities : ~ known_capability(c)
           THEN Exit(2) /\ UNCHANGED report
           ELSE Report(plan, d, NoDescriptor) /\ Exit(ExitCode(plan))
    /\ UNCHANGED out

AcceptBlocker(plan, provider, artifact) ==
    IF provider # NoDescriptor /\ provider_accepts_artifact(provider, artifact) THEN plan
    ELSE append_blocker(plan, <<"provider does not accept artifact", artifact>>)

RuntimePlan ==
    /\ Step("runtime-plan")
    /\ LET d == latest(cmd.records, cmd.line.package)
           base == make_plan(d, cmd.records, Host.architecture, Host.capabilities)
           plan == IF cmd.line.artifact = "none" THEN base
                   ELSE AcceptBlocker(base, runtime_provider(cmd.records, d.runtime), cmd.line.artifact)
       IN  IF d = NoDescriptor \/ ~ KnownHost THEN Exit(2) /\ UNCHANGED report
           ELSE Report(plan, d, NoDescriptor) /\ Exit(ExitCode(plan))
    /\ UNCHANGED out

RuntimeStatus ==
    /\ Step("runtime-status")
    /\ LET provider == runtime_provider(cmd.records, cmd.line.runtime)
           plan == make_runtime_plan(cmd.line.runtime, cmd.records, Host.architecture, Host.capabilities)
       IN  IF provider = NoDescriptor \/ ~ KnownHost THEN Exit(2) /\ UNCHANGED report
           ELSE Report(plan, NoDescriptor, provider) /\ Exit(ExitCode(plan))
    /\ UNCHANGED out

\* fetch-plan prints the delivery of the newest version and ends with 0.
FetchPlan ==
    /\ Step("fetch-plan")
    /\ Exit(IF latest(cmd.records, cmd.line.package) = NoDescriptor THEN 2 ELSE 0)
    /\ UNCHANGED <<out, report>>

\* artifact-manifest: the profile and its provider are checked before the
\* artifact is hashed, the manifest is made after it.
Accept ==
    /\ Step("artifact-manifest")
    /\ LET d == latest(cmd.records, cmd.line.package)
           provider == runtime_provider(cmd.records, d.runtime)
       IN  IF /\ d # NoDescriptor
              /\ d.kind # "runtime"
              /\ provider # NoDescriptor
              /\ provider_accepts_artifact(provider, cmd.line.artifact)
              /\ d.platform \in consoles \/ d.delivery = "user-supplied" => cmd.line.owned
           THEN cmd' = [cmd EXCEPT !.pc = "hash"]
           ELSE Exit(2)
    /\ UNCHANGED <<out, report>>

Describe ==
    /\ Step("describe")
    /\ IF cmd.line.artifact \in {"metadata", "runtime-bundle"} THEN Exit(2)
       ELSE Write([type |-> "manifest", package |-> cmd.line.package, artifact |-> cmd.line.artifact,
                   owned |-> cmd.line.owned, digest |-> cmd.digest], 0)
    /\ UNCHANGED <<out, report>>

\* launch-plan, after the artifact was verified.  supplied maps the assets on
\* the command line to whether their file can be hashed.
LaunchBlockers(d, provider, m) ==
    LET plan == AcceptBlocker(make_plan(d, cmd.records, Host.architecture, Host.capabilities),
                              provider, m.artifact)
        Missing == {<<"required asset not supplied", a>> : a \in plan.assets \ DOMAIN cmd.line.supplied}
        Size == IF Len(m.digest) > Host.limit THEN {<<"artifact exceeds limit", Len(m.digest)>>} ELSE {}
        Owner == IF d.platform \in consoles /\ ~ m.owned THEN {<<"not user-owned", d.id>>} ELSE {}
    IN  [plan EXCEPT !.blocked = @ \cup Missing \cup Size \cup Owner]

Launch ==
    /\ Step("launch")
    /\ LET m == cmd.manifest
           d == latest(cmd.records, m.package)
           provider == runtime_provider(cmd.records, d.runtime)
           plan == LaunchBlockers(d, provider, m)
       IN  IF \/ ~ KnownHost
              \/ d = NoDescriptor
              \/ d.kind = "runtime"
              \/ provider = NoDescriptor
              \/ \E a \in DOMAIN cmd.line.supplied : a \notin plan.assets \/ ~ cmd.line.supplied[a]
           THEN Exit(2) /\ UNCHANGED report
           ELSE /\ Report(plan, d, provider)
                /\ Write([type |-> "launch", ready |-> plan.blocked = {}, digest |-> cmd.digest,
                          provider |-> Identity(provider)], ExitCode(plan))
    /\ UNCHANGED out

----------------------------------------------------------------------------
(* Other programs, and the end of a command that is killed.                *)

\* Another program overwrites the artifact in place or renames a new file over
\* it.  Only between commands or while it is read does the moment matter.
EditArtifact ==
    /\ edits < MaxEdits
    /\ cmd.pc = "hashing" \/ (cmd.pc = "idle" /\ runs > 0)
    /\ edits' = edits + 1
    /\ \E k \in 0 .. MaxChunks, v \in Bytes :
         LET n == Len(inodes)
             written == [time |-> edits + 1, bytes |-> [i \in 1 .. k |-> v]]
         IN  /\ \/ inodes' = [inodes EXCEPT ![n] = written]
                \/ inodes' = Append(inodes, written)
             /\ past' = past \cup {written.bytes}
    /\ UNCHANGED <<dir, out, cmd, report, runs>>

Kill ==
    /\ cmd.pc # "idle"
    /\ Exit(2)
    /\ UNCHANGED <<dir, inodes, out, report, edits, runs, past>>

Next ==
    \/ \E c \in Commands : Start(c)
    \/ Validate \/ HostProfile \/ Load
    \/ HashOpen \/ HashRead \/ HashDone \/ ParseManifest
    \/ WriteTemporary \/ Rename \/ RenameAgain
    \/ Compile \/ Resolve \/ RuntimePlan \/ RuntimeStatus \/ FetchPlan
    \/ Accept \/ Describe \/ Launch
    \/ EditArtifact \/ Kill

Spec == Init /\ [][Next]_vars

----------------------------------------------------------------------------
(* Properties.                                                             *)

Provided(order) == report.host \cup UNION {ToSet(order[i].provides) : i \in DOMAIN order}

\* What must be there before d can run.
Needs(d, isApplication) ==
    ToSet(d.requires) \cup (IF isApplication \/ (d.kind = "runtime" /\ d.provides # <<"runtime.native">>)
                            THEN {RuntimeCapability(d.runtime)} ELSE {})

\* A plan reported ready can be carried out in its order on that host: every
\* package finds its runtime, everything it requires and one option of each
\* alternative provided by the host or by a package before it; every provider
\* is available for the architecture; and all assets are asked for
\* (resolve_capability and resolve_alternative of resolver.hpp).
ReadyPlanClosed ==
    report.ready =>
        LET order == report.plan.order
            IsApplication(i) == report.application # NoDescriptor /\ i = Len(order)
        IN  \A i \in DOMAIN order :
              LET before == Provided(SubSeq(order, 1, i - 1))
              IN  /\ Needs(order[i], IsApplication(i)) \subseteq before
                  /\ \A k \in DOMAIN order[i].any : ToSet(order[i].any[k]) \cap before # {}
                  /\ FitsHost(order[i], report.arch)
                  /\ IsApplication(i) \/ order[i].availability = "available"
                  /\ order[i].assets \subseteq report.plan.assets

\* The plan does not depend on the names of the files, that is on the order
\* in which load_directory reads them (best_provider, latest): exchanging two
\* files changes neither the plan nor the compiled catalog.
Exchanged(records) ==
    {[records EXCEPT ![i] = records[j], ![j] = records[i]] : i, j \in DOMAIN records}

PlanIndependentOfNames ==
    report # NoReport /\ cmd.pc \in {"idle", "write"} =>
        \A records \in Exchanged(report.records) :
            LET plan == IF report.application = NoDescriptor
                        THEN make_runtime_plan(report.line.runtime, records, report.arch, report.host)
                        ELSE make_plan(latest(records, report.application.id), records,
                                       report.arch, report.host)
            IN  /\ plan.order = report.plan.order
                /\ plan.alternatives = report.plan.alternatives
                /\ compile_catalog(records) = compile_catalog(report.records)

\* The digest in a manifest or a launch plan is that of bytes the artifact
\* held all at one time, however it changed while it was read
\* (digest_regular_file of artifact_manifest.hpp).
DigestOfOneContent ==
    \A o \in {"artifact-manifest", "launch-plan"} : out[o] # Absent => out[o].digest \in past

============================================================================
