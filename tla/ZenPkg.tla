------------------------------- MODULE ZenPkg -------------------------------
(***************************************************************************)
(* The ZENPKG1 container: manifests and archives as the host tool builds   *)
(* and parses them (tools/zenpkg/{manifest,archive,foreign_import}.hpp)    *)
(* and as the kernel verifies them (kernel/parts/package_format.inc).      *)
(*                                                                         *)
(* Units of a file besides those of NativeExec: a container header, a line *)
(* of a text ([key, value], or [blank] for a blank line or a comment, or   *)
(* [junk] for a line without key=value), and signatures of other formats.  *)
(* A digest is a token of what was digested: no two contents share one.    *)
(***************************************************************************)
EXTENDS NativeExec

CONSTANTS
    Identifiers,     \* texts is_safe_identifier accepts
    LowerNames,      \* those of them the kernel takes as a package name
    Versions,        \* version text -> [parts, pre, rank, native, supported]; parts = <<>>: core not numeric;
                     \* native: the kernel takes it as a version, supported: as a min_os of this release
    Entrypoints,     \* texts is_safe_absolute_entrypoint accepts: "-" and safe absolute paths
    Padded,          \* text with blanks around it -> the text without them
    Requirements,    \* texts validate_requirement accepts, in the order of their bytes
    NativeRequirements,  \* those of them the kernel accepts
    MaxManifest, MaxNativeManifest, MaxPayload, PackageLimit

Sha256(content) == [sha256 |-> content]

Trim(text) == IF text \in DOMAIN Padded THEN Padded[text] ELSE text

is_safe_version(v) == v \in DOMAIN Versions
is_safe_absolute_entrypoint(v) == v \in Entrypoints
Printable(v) == v # ""

----------------------------------------------------------------------------
(* Manifests.                                                              *)

ScalarKeys ==
    <<"format", "name", "version", "architecture", "target", "kind", "entrypoint", "payload_type", "runtime",
      "min_os", "license", "source", "asset_policy">>
ListKeys == <<"capability", "dependency", "conflict">>
ManifestKeys == ScalarKeys \o ListKeys

EmptyManifest == [k \in ToSet(ManifestKeys) |-> IF k \in ToSet(ListKeys) THEN <<>> ELSE ""]

IsLine(u) == "key" \in DOMAIN u
IsBlank(u) == "blank" \in DOMAIN u

\* The manifest of a text.  ok is FALSE where parse_manifest throws: a line that is no
\* key=value, an unknown key, an empty value, a scalar given twice.
parse_manifest(text) ==
    LET lines == SelectSeq(text, LAMBDA u : ~IsBlank(u))
        wellformed == \A i \in DOMAIN lines :
                          /\ IsLine(lines[i])
                          /\ lines[i].key \in ToSet(ManifestKeys)
                          /\ Trim(lines[i].value) # ""
        Of(k) == SelectSeq(lines, LAMBDA u : u.key = k)
        Values(k) == [i \in DOMAIN Of(k) |-> Trim(Of(k)[i].value)]
    IN IF wellformed /\ \A k \in ToSet(ScalarKeys) : Len(Of(k)) <= 1
       THEN [ok |-> TRUE,
             manifest |-> [k \in ToSet(ManifestKeys) |->
                              IF k \in ToSet(ListKeys) THEN Values(k)
                              ELSE IF Values(k) = <<>> THEN "" ELSE Values(k)[1]]]
       ELSE [ok |-> FALSE, manifest |-> EmptyManifest]

Executable == {"native", "application", "runtime"}
Descriptive == {"compat-profile", "firmware-descriptor"}
PayloadTypes == {"zex1", "elf32", "elf64", "tar", "runtime-bundle", "metadata", "none"}
Runtimes == {"native", "wine", "proton", "qemu-user", "qemu-system", "darling", "pcsx2", "rpcs3", "xemu",
             "xenia", "external"}

GoodList(values) == IsInjective(values) /\ \A i \in DOMAIN values : values[i] \in ToSet(Requirements)

validate_manifest(m, size) ==
    /\ m.format = "zenpkg-manifest-1"
    /\ {m.name, m.architecture, m.target} \subseteq Identifiers
    /\ is_safe_version(m.version) /\ is_safe_version(m.min_os)
    /\ m.kind \in Executable \cup Descriptive
    /\ m.payload_type \in PayloadTypes /\ m.runtime \in Runtimes
    /\ is_safe_absolute_entrypoint(m.entrypoint) /\ Printable(m.license) /\ Printable(m.source)
    /\ m.asset_policy \in {"redistributable", "user-supplied", "metadata-only"}
    /\ m.payload_type = "none" <=> size = 0
    /\ m.kind \in Descriptive <=> m.entrypoint = "-"
    /\ \A k \in ToSet(ListKeys) : GoodList(m[k])

ByteOrder(x) == CHOOSE i \in DOMAIN Requirements : Requirements[i] = x
Sorted(values) == SortSeq(values, LAMBDA x, y : ByteOrder(x) < ByteOrder(y))

Lines(k, values) == [i \in DOMAIN values |-> [key |-> k, value |-> values[i]]]

canonical_manifest(m) ==
    [i \in DOMAIN ScalarKeys |-> [key |-> ScalarKeys[i], value |-> m[ScalarKeys[i]]]]
        \o FlattenSeq([i \in DOMAIN ListKeys |-> Lines(ListKeys[i], Sorted(m[ListKeys[i]]))])

----------------------------------------------------------------------------
(* Versions and the compatibility of a package with a host.                *)

Padding(s, n) == [i \in 1..n |-> IF i <= Len(s) THEN s[i] ELSE 0]

version_at_least(current, minimum) ==
    LET c == Versions[current]
        m == Versions[minimum]
        n == IF Len(c.parts) > Len(m.parts) THEN Len(c.parts) ELSE Len(m.parts)
        a == Padding(c.parts, n)
        b == Padding(m.parts, n)
    IN IF a # b THEN \E i \in 1..n : b[i] < a[i] /\ \A j \in 1..(i - 1) : a[j] = b[j]
       ELSE IF c.pre # m.pre THEN ~c.pre
       ELSE c.rank >= m.rank

\* Whether the versions can be compared at all.
Comparable(current, minimum) == Versions[current].parts # <<>> /\ Versions[minimum].parts # <<>>

resolve_manifest(m, host) ==
    /\ m.architecture \in {"any", host.architecture}
    /\ m.target \in {"any", host.target}
    /\ version_at_least(host.os_version, m.min_os)
    /\ ToSet(m.capability) \subseteq host.capabilities

----------------------------------------------------------------------------
(* Containers.                                                             *)

HeaderFields(manifest, payload) ==
    [magic |-> "ZENPKG1", version |-> 1, flags |-> 0, manifest_size |-> Len(manifest),
     payload_size |-> Len(payload), manifest_digest |-> Sha256(manifest), payload_digest |-> Sha256(payload)]

WithDigest(fields) == [package |-> fields, digest |-> Sha256(fields)]

CanBuild(m, payload) ==
    /\ validate_manifest(m, Len(payload))
    /\ Len(canonical_manifest(m)) <= MaxManifest
    /\ Len(payload) <= MaxPayload

build_package_bytes(m, payload) ==
    LET text == canonical_manifest(m)
    IN <<WithDigest(HeaderFields(text, payload))>> \o text \o payload

Rejected == [ok |-> FALSE, manifest |-> EmptyManifest, payload |-> <<>>]

\* The header, the lengths and the digests of a container.
Intact(bytes, limit) ==
    /\ HasHeader(bytes, "package")
    /\ LET h == bytes[1].package
       IN /\ h.magic = "ZENPKG1" /\ h.version = 1 /\ h.flags = 0
          /\ h.manifest_size <= limit /\ h.payload_size <= MaxPayload
          /\ 1 + h.manifest_size + h.payload_size = Len(bytes)
          /\ bytes[1].digest = Sha256(h)
          /\ h.manifest_digest = Sha256(SubSeq(bytes, 2, 1 + h.manifest_size))
          /\ h.payload_digest = Sha256(SubSeq(bytes, 2 + h.manifest_size, Len(bytes)))

ManifestText(bytes) == SubSeq(bytes, 2, 1 + bytes[1].package.manifest_size)
Payload(bytes) == SubSeq(bytes, 2 + bytes[1].package.manifest_size, Len(bytes))

\* Mutant: the manifest of a container need not be in canonical form.
ParseAnyManifest(bytes) ==
    IF ~Intact(bytes, MaxManifest) THEN Rejected
    ELSE LET text == ManifestText(bytes)
             payload == Payload(bytes)
             parsed == parse_manifest(text)
         IN IF parsed.ok /\ validate_manifest(parsed.manifest, Len(payload))
            THEN [ok |-> TRUE, manifest |-> parsed.manifest, payload |-> payload]
            ELSE Rejected

parse_package_bytes(bytes) ==
    IF ~Intact(bytes, MaxManifest) THEN Rejected
    ELSE LET text == ManifestText(bytes)
             payload == Payload(bytes)
             parsed == parse_manifest(text)
         IN IF /\ parsed.ok
               /\ validate_manifest(parsed.manifest, Len(payload))
               /\ canonical_manifest(parsed.manifest) = text
            THEN [ok |-> TRUE, manifest |-> parsed.manifest, payload |-> payload]
            ELSE Rejected

----------------------------------------------------------------------------
(* The kernel's reading of the same container.                             *)

NativeCapabilities == {"abi.zex1.v1", "abi.elf32.i386.static", "kernel.ring3", "storage.zenovfs1"}
Abi(payload_type) == IF payload_type = "zex1" THEN "abi.zex1.v1" ELSE "abi.elf32.i386.static"
Suffix(payload_type) == IF payload_type = "zex1" THEN ".zex" ELSE ".elf"

expected_entrypoint(name, version, payload_type) ==
    "/data/apps/pkg-" \o name \o "-" \o version \o Suffix(payload_type)

MaxPath == 47
MaxNativeList == 4

\* parse_manifest of the kernel reads the lines in order and takes only a text whose keys
\* ascend, whose scalars are all there once, whose lists ascend strictly, and whose values
\* are those of a native package.
native_manifest_accepts(text) ==
    LET KeyRank(k) == CHOOSE i \in DOMAIN ManifestKeys : ManifestKeys[i] = k
        Values(k) == LET L == SelectSeq(text, LAMBDA u : u.key = k) IN [i \in DOMAIN L |-> L[i].value]
        V(k) == Values(k)[1]
    IN /\ text # <<>>
       /\ \A i \in DOMAIN text : IsLine(text[i]) /\ text[i].key \in ToSet(ManifestKeys) /\ text[i].value # ""
       /\ \A i \in 1..(Len(text) - 1) :
              LET a == KeyRank(text[i].key)
                  b == KeyRank(text[i + 1].key)
              IN a < b \/ (a = b /\ a > Len(ScalarKeys) /\ ByteOrder(text[i].value) < ByteOrder(text[i + 1].value))
       /\ \A k \in ToSet(ScalarKeys) : Values(k) # <<>>
       /\ V("format") = "zenpkg-manifest-1" /\ V("name") \in LowerNames
       /\ is_safe_version(V("version")) /\ Versions[V("version")].native
       /\ V("architecture") = "i686" /\ V("target") = "i686-zenov-none"
       /\ V("kind") \in {"application", "native"} /\ V("payload_type") \in {"zex1", "elf32"}
       /\ V("runtime") = "native" /\ V("asset_policy") = "redistributable"
       /\ is_safe_version(V("min_os")) /\ Versions[V("min_os")].native /\ Versions[V("min_os")].supported
       /\ ToSet(Values("capability")) \subseteq NativeCapabilities
       /\ {Abi(V("payload_type")), "kernel.ring3", "storage.zenovfs1"} \subseteq ToSet(Values("capability"))
       /\ \A k \in {"dependency", "conflict"} :
              Len(Values(k)) <= MaxNativeList /\ ToSet(Values(k)) \subseteq NativeRequirements
       /\ V("entrypoint") = expected_entrypoint(V("name"), V("version"), V("payload_type"))
       /\ Len(V("entrypoint")) <= MaxPath

verify_bytes(bytes) ==
    /\ Intact(bytes, MaxNativeManifest)
    /\ native_manifest_accepts(ManifestText(bytes))
    /\ \/ HasHeader(Payload(bytes), "zex") /\ [key |-> "payload_type", value |-> "zex1"] \in ToSet(ManifestText(bytes))
       \/ HasHeader(Payload(bytes), "elf") /\ [key |-> "payload_type", value |-> "elf32"] \in ToSet(ManifestText(bytes))

\* A native program of the kernel: a container it verifies whose payload its loader accepts.
NativeProgram(bytes) ==
    verify_bytes(bytes) /\ (load_zex(Payload(bytes)) \/ load_elf32(Payload(bytes)))

----------------------------------------------------------------------------
(* import-native: the manifest around a validated executable.              *)

NativeManifest(line, payload_type) ==
    [EmptyManifest EXCEPT
        !.format = "zenpkg-manifest-1", !.name = line.name, !.version = line.version,
        !.architecture = "i686", !.target = "i686-zenov-none", !.kind = "application",
        !.entrypoint = expected_entrypoint(line.name, line.version, payload_type),
        !.payload_type = payload_type, !.runtime = "native", !.min_os = "0.1.1",
        !.license = line.license, !.source = line.source, !.asset_policy = line.asset_policy,
        !.capability = <<"kernel.ring3", "storage.zenovfs1", Abi(payload_type)>>]

\* The arguments import_native takes.
GoodImportLine(line) ==
    /\ line.name \in LowerNames /\ is_safe_version(line.version) /\ Versions[line.version].native
    /\ Printable(line.license) /\ Printable(line.source) /\ line.asset_policy = "redistributable"

CanImport(line, format, bytes) ==
    LET type == IF format = "zex1" THEN "zex1" ELSE "elf32"
        m == NativeManifest(line, type)
    IN /\ GoodImportLine(line)
       /\ IF format = "zex1" THEN validate_zex1_import(bytes) ELSE validate_elf32_i386_import(bytes)
       /\ Len(m.entrypoint) <= MaxPath
       /\ CanBuild(m, bytes)
       /\ Len(build_package_bytes(m, bytes)) <= PackageLimit
============================================================================
