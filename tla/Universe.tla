------------------------------ MODULE Universe ------------------------------
(***************************************************************************)
(* The ZenUniverse catalog: descriptors, their validation, the choice of a *)
(* provider for a capability and the installation plan                     *)
(* (tools/zenuniverse/{capability,descriptor,host_profile,resolver}.hpp).  *)
(*                                                                         *)
(* An id is the pair of its prefix and its last component, a version the   *)
(* pair of its numeric parts and the rank of its text among the versions   *)
(* with equal parts.  Texts that no decision depends on (licence, homepage,*)
(* description ...) are one field saying whether they are well formed.     *)
(***************************************************************************)
EXTENDS Integers, FiniteSets, Sequences, SequencesExt

CONSTANTS
    CapabilityOrder,   \* the capability registry, in the order of its names
    IdOrder            \* the ids of the catalog, in the order of their names

Rank(x, order) == CHOOSE i \in DOMAIN order : order[i] = x

----------------------------------------------------------------------------
(* The registry and the enumerations.                                      *)

runtime_names ==
    {"native", "linux-i386-minimal", "linux-abi", "wine", "proton", "qemu-user", "qemu-system", "darling",
     "duckstation", "ppsspp", "pcsx2", "rpcs3", "xemu", "xenia", "external"}

static_capabilities == {CapabilityOrder[i] : i \in DOMAIN CapabilityOrder}

RuntimeCapability(runtime) == "runtime." \o runtime

known_capability(c) ==
    \/ c \in static_capabilities
    \/ \E r \in runtime_names : c = RuntimeCapability(r)

\* A requires-any value: at least two known capabilities, none twice.  The
\* sequence of its options is sorted by name.
GoodAlternatives(options) ==
    /\ Len(options) >= 2
    /\ \A i \in DOMAIN options : known_capability(options[i])
    /\ IsInjective(options)

canonical_alternatives(options) ==
    LET S == ToSet(options)
        Before(c) == {d \in S : Rank(d, CapabilityOrder) < Rank(c, CapabilityOrder)}
    IN  [i \in 1 .. Cardinality(S) |-> CHOOSE c \in S : Cardinality(Before(c)) = i - 1]

consoles == {"playstation1", "playstation-portable", "playstation2", "playstation3", "xbox", "xbox360"}

platforms == {"zenov", "linux", "windows", "macos"} \cup consoles

AllowedArtifacts ==
    [p \in platforms |-> {"metadata"} \cup
        CASE p = "zenov" -> {"zpk", "zex1", "elf32", "runtime-bundle"}
          [] p = "linux" -> {"elf32", "elf64", "appimage", "flatpak", "deb", "rpm", "tar", "runtime-bundle"}
          [] p = "windows" -> {"exe", "msi", "msix", "appx", "runtime-bundle"}
          [] p = "macos" -> {"dmg", "pkg", "app", "runtime-bundle"}
          [] p = "playstation1" -> {"psx-exe", "bin-cue", "chd", "pbp", "iso", "disc-image"}
          [] p = "playstation-portable" -> {"iso", "disc-image", "pbp", "cso"}
          [] p = "playstation2" -> {"iso", "disc-image", "cso"}
          [] p = "playstation3" -> {"iso", "disc-image"}
          [] p \in {"xbox", "xbox360"} -> {"iso", "disc-image", "rom"}]

artifacts == UNION {AllowedArtifacts[p] : p \in platforms}

PlatformRuntimes ==
    [p \in platforms |-> {"external"} \cup
        CASE p = "zenov" -> {"native"}
          [] p = "linux" -> {"linux-i386-minimal", "linux-abi", "qemu-user", "qemu-system"}
          [] p = "windows" -> {"wine", "proton", "qemu-system"}
          [] p = "macos" -> {"darling", "qemu-system"}
          [] p = "playstation1" -> {"duckstation"}
          [] p = "playstation-portable" -> {"ppsspp"}
          [] p = "playstation2" -> {"pcsx2"}
          [] p = "playstation3" -> {"rpcs3"}
          [] p = "xbox" -> {"xemu"}
          [] p = "xbox360" -> {"xenia"}]

deliveries == {"builtin", "embedded", "https", "user-supplied", "metadata-only"}

----------------------------------------------------------------------------
(* validate_descriptor, one predicate per group of its checks.             *)

\* parse_descriptor took the file: key=value lines, known keys, no scalar
\* given twice, no value empty.
Parsed(d) == d.wellformed

GoodEnums(d) ==
    /\ d.kind \in {"application", "game", "runtime", "sdk", "toolchain", "profile", "firmware"}
    /\ d.platform \in platforms
    /\ d.architecture \in {"any", "x86", "x86_64", "arm64", "ppc64"}
    /\ d.artifact \in artifacts
    /\ d.delivery \in deliveries
    /\ d.runtime \in runtime_names
    /\ d.availability \in {"available", "planned", "external"}

UniqueKnown(caps) ==
    /\ \A i \in DOMAIN caps : known_capability(caps[i])
    /\ IsInjective(caps)

\* A launch argument names the artifact, an asset of the descriptor, or
\* nothing dynamic at all.
valid_launch_argument(argument, assets) ==
    \/ argument[1] \in {"plain", "artifact"}
    \/ argument[1] = "asset" /\ argument[2] \in assets

GoodLists(d) ==
    /\ UniqueKnown(d.requires)
    /\ UniqueKnown(d.provides)
    /\ \A i \in DOMAIN d.any : GoodAlternatives(d.any[i])
    /\ \A i, j \in DOMAIN d.any : ToSet(d.any[i]) = ToSet(d.any[j]) => i = j
    /\ d.accepts \subseteq artifacts
    /\ \A a \in d.args : valid_launch_argument(a, d.assets)

\* What each delivery says about mirrors, and about a fixed size and digest.
GoodDelivery(d) ==
    CASE d.delivery = "https"    -> d.mirrors /\ d.sized
      [] d.delivery = "embedded" -> ~ d.mirrors /\ d.sized
      [] d.delivery = "builtin"  -> ~ d.mirrors /\ ~ d.sized /\ d.kind = "runtime"
      [] OTHER                   -> ~ d.mirrors /\ ~ d.sized

GoodPlatform(d) ==
    /\ d.platform \in consoles /\ d.kind = "game" => d.delivery = "user-supplied"
    /\ d.artifact \in AllowedArtifacts[d.platform]
    /\ d.kind # "runtime" => d.runtime \in PlatformRuntimes[d.platform]

GoodProvider(d) ==
    /\ d.runtime = "native"
    /\ d.abi
    /\ d.launch \in {"builtin", "exec", "external"}
    /\ d.accepts # {}
    /\ d.entrypoint \in {"kernel-loader", "absolute"}
    /\ d.provides = <<RuntimeCapability(d.id[2])>>
    /\ d.delivery = "builtin" =>
         d.availability = "available" /\ d.launch = "builtin" /\ d.entrypoint = "kernel-loader"
    /\ d.availability = "available" => d.delivery \in {"builtin", "embedded", "https"}
    /\ d.launch = "builtin" => d.delivery = "builtin"

PlainDescriptor(d) == ~ d.abi /\ d.launch = "none" /\ d.accepts = {} /\ d.args = {}

validate_descriptor(d) ==
    /\ Parsed(d)
    /\ GoodEnums(d)
    /\ GoodLists(d)
    /\ GoodDelivery(d)
    /\ GoodPlatform(d)
    /\ IF d.kind = "runtime" THEN GoodProvider(d) ELSE PlainDescriptor(d)

----------------------------------------------------------------------------
(* Versions and the choice among descriptors.  records is the sequence     *)
(* load_directory returns, in the order of the file names.                 *)

Part(parts, i) == IF i <= Len(parts) THEN parts[i] ELSE 0

\* version_parts are compared after padding with zeros, texts break ties.
version_less(a, b) ==
    LET n == IF Len(a.parts) > Len(b.parts) THEN Len(a.parts) ELSE Len(b.parts)
        Differ == {i \in 1 .. n : Part(a.parts, i) # Part(b.parts, i)}
    IN  IF Differ = {} THEN a.text < b.text
        ELSE LET i == CHOOSE k \in Differ : \A j \in Differ : k <= j
             IN  Part(a.parts, i) < Part(b.parts, i)

\* The loops of latest and best_provider: a wanted record replaces the best so far.
\* NoDescriptor stands for the null pointer.
NoDescriptor == [id |-> <<"none", "none">>]

latest(records, id) ==
    FoldLeft(LAMBDA best, d :
                 IF d.id = id /\ (best = NoDescriptor \/ version_less(best.version, d.version)) THEN d ELSE best,
             NoDescriptor, records)

runtime_provider(records, runtime) == latest(records, <<"org.zenov.runtime", runtime>>)

architecture_rank(d, arch) == CASE d.architecture = arch -> 2 [] d.architecture = "any" -> 1 [] OTHER -> 0

availability_rank(d) == CASE d.availability = "available" -> 2 [] d.availability = "external" -> 1 [] OTHER -> 0

delivery_rank(d) ==
    CASE d.delivery \in {"builtin", "embedded", "https"} -> 2
      [] d.delivery = "user-supplied" -> 1
      [] OTHER -> 0

Score(d, arch) == 9 * architecture_rank(d, arch) + 3 * availability_rank(d) + delivery_rank(d)

\* Mutant: the first provider found wins a tie.
BetterByScoreOnly(d, best, arch) == Score(d, arch) > Score(best, arch)

BetterProvider(d, best, arch) ==
    \/ Score(d, arch) > Score(best, arch)
    \/ /\ Score(d, arch) = Score(best, arch)
       /\ \/ version_less(best.version, d.version)
          \/ /\ d.version = best.version
             /\ Rank(d.id, IdOrder) < Rank(best.id, IdOrder)

best_provider(capability, records, arch) ==
    FoldLeft(LAMBDA best, d :
                 IF capability \in ToSet(d.provides) /\ (best = NoDescriptor \/ BetterProvider(d, best, arch))
                 THEN d ELSE best,
             NoDescriptor, records)

----------------------------------------------------------------------------
(* Plans.  A plan carries the sets active and emitted of the recursion;    *)
(* diagnostics are left out, a blocker is a reason and what it is about.   *)

EmptyPlan(host) ==
    [order |-> <<>>, blocked |-> {}, alternatives |-> <<>>, assets |-> {}, active |-> {}, emitted |-> host]

append_blocker(plan, reason) == [plan EXCEPT !.blocked = @ \cup {reason}]

append_assets(plan, d) == [plan EXCEPT !.assets = @ \cup d.assets]

FitsHost(d, arch) == d.architecture \in {"any", arch}

\* Mutant: the architecture of a provider is not compared with the host's.
AvailabilityOnly(p, arch) ==
    IF p.availability = "available" THEN {} ELSE {<<"provider not available yet", p.id>>}

\* The blockers of a chosen provider.
Obstacles(p, arch) ==
    (IF FitsHost(p, arch) THEN {} ELSE {<<"provider architecture mismatch", p.id>>})
      \cup (IF p.availability = "available" THEN {} ELSE {<<"provider not available yet", p.id>>})

\* The provider enters the plan after everything it needs.
Emit(plan, capability, p) ==
    IF capability \in plan.emitted THEN plan
    ELSE [plan EXCEPT !.order = IF p \in ToSet(@) THEN @ ELSE Append(@, p),
                      !.emitted = @ \cup ToSet(p.provides)]

\* The first option at hand, or else the attempt that adds the fewest
\* blockers, then packages, then comes first by name - if it adds no blocker.
Better(attempt, i, j) ==
    LET blockers(k) == Cardinality(attempt[k].blocked)
    IN  \/ blockers(i) < blockers(j)
        \/ /\ blockers(i) = blockers(j)
           /\ \/ Len(attempt[i].order) < Len(attempt[j].order)
              \/ Len(attempt[i].order) = Len(attempt[j].order) /\ i < j

Decide(plan, options, selected) ==
    [plan EXCEPT !.alternatives =
        Append(@, [expression |-> options, selected |-> selected, satisfied |-> selected # "-"])]

resolve_alternative(options, plan, attempt) ==
    LET AtHand == {i \in DOMAIN options : options[i] \in plan.emitted}
        best == CHOOSE i \in DOMAIN options : \A j \in DOMAIN options \ {i} : Better(attempt, i, j)
    IN  IF AtHand # {} THEN Decide(plan, options, options[CHOOSE i \in AtHand : \A j \in AtHand : i <= j])
        ELSE IF attempt[best].blocked = plan.blocked THEN Decide(attempt[best], options, options[best])
        ELSE Decide(append_blocker(plan, <<"no satisfiable alternative", options>>), options, "-")

\* What a provider needs, in the order in which it is resolved.
Needed(capability, p) ==
    (IF capability # "runtime.native" /\ p.kind = "runtime" /\ p.runtime = "native"
     THEN <<"runtime.native">> ELSE <<>>) \o p.requires

Enter(capability, p, arch, plan) ==
    append_assets([plan EXCEPT !.active = @ \cup {capability}, !.blocked = @ \cup Obstacles(p, arch)], p)

Leave(capability, p, plan) == [Emit(plan, capability, p) EXCEPT !.active = @ \ {capability}]

RECURSIVE resolve_capability(_, _, _, _), resolve_all(_, _, _, _), resolve_any(_, _, _, _)

resolve_capability(capability, records, arch, plan) ==
    IF capability \in plan.emitted THEN plan
    ELSE IF capability \in plan.active
    THEN append_blocker(plan, <<"dependency cycle", capability>>)
    ELSE LET p == best_provider(capability, records, arch)
         IN  IF p = NoDescriptor
             THEN append_blocker(plan, <<"missing capability provider", capability>>)
             ELSE Leave(capability, p,
                    resolve_any(p.any, records, arch,
                      resolve_all(Needed(capability, p), records, arch, Enter(capability, p, arch, plan))))

resolve_all(capabilities, records, arch, plan) ==
    IF capabilities = <<>> THEN plan
    ELSE resolve_all(Tail(capabilities), records, arch,
                     resolve_capability(Head(capabilities), records, arch, plan))

\* resolve_alternative for each of the expressions.
resolve_any(expressions, records, arch, plan) ==
    IF expressions = <<>> THEN plan
    ELSE LET options == canonical_alternatives(Head(expressions))
         IN  resolve_any(Tail(expressions), records, arch,
               resolve_alternative(options, plan,
                 [i \in DOMAIN options |-> resolve_capability(options[i], records, arch, plan)]))

make_plan(application, records, arch, host) ==
    LET start == IF FitsHost(application, arch) THEN EmptyPlan(host)
                 ELSE append_blocker(EmptyPlan(host), <<"architecture mismatch", application.id>>)
    IN  [resolve_any(application.any, records, arch,
           resolve_all(<<RuntimeCapability(application.runtime)>> \o application.requires, records, arch,
                       append_assets(start, application)))
         EXCEPT !.order = Append(@, application)]

make_runtime_plan(runtime, records, arch, host) ==
    resolve_capability(RuntimeCapability(runtime), records, arch, EmptyPlan(host))

provider_accepts_artifact(p, artifact) == artifact \in p.accepts

----------------------------------------------------------------------------
(* compile_catalog sorts by id, then by version.                           *)

CatalogBefore(a, b) ==
    IF a.id = b.id THEN version_less(a.version, b.version)
    ELSE Rank(a.id, IdOrder) < Rank(b.id, IdOrder)

\* The record a descriptor becomes.  Its lists are sorted and hold nothing
\* twice: a set stands for each.
canonical(d) ==
    [d EXCEPT !.requires = ToSet(@), !.provides = ToSet(@),
              !.any = {canonical_alternatives(d.any[i]) : i \in DOMAIN d.any}]

compile_catalog(records) ==
    LET sorted == SortSeq(records, CatalogBefore)
    IN  [i \in DOMAIN sorted |-> canonical(sorted[i])]
============================================================================
