------------------------------ MODULE MCZenPkg ------------------------------
(* Constants of ZenPkgTool for TLC.                                        *)
EXTENDS ZenPkgTool

MCVersions ==
    [v \in {"0.1.1", "0.1.0-1", "0.2", "latest"} |->
        CASE v = "0.1.1" -> [parts |-> <<0, 1, 1>>, pre |-> FALSE, rank |-> 1, native |-> TRUE, supported |-> TRUE]
          [] v = "0.1.0-1" -> [parts |-> <<0, 1, 0>>, pre |-> TRUE, rank |-> 0, native |-> TRUE, supported |-> TRUE]
          [] v = "0.2" -> [parts |-> <<0, 2>>, pre |-> FALSE, rank |-> 2, native |-> TRUE, supported |-> FALSE]
          [] OTHER -> [parts |-> <<>>, pre |-> FALSE, rank |-> 3, native |-> FALSE, supported |-> FALSE]]

MCPadded == [t \in {" MIT"} |-> "MIT"]

MCEntrypoints == {"-"} \cup {expected_entrypoint(n, v, t) : n \in LowerNames, v \in {"0.1.1"}, t \in {"zex1", "elf32"}}

MCRequirements == <<"abi.elf32.i386.static", "abi.zex1.v1", "kernel.ring3", "storage.zenovfs1", "tool@0.2">>

\* Executables.
Zex(image, bss, entry) ==
    <<[zex |-> [version |-> 1, header |-> 1, image |-> Len(image), entry |-> entry, bss |-> bss, stack |-> 2,
                checksum |-> zex_checksum(image)]]>> \o image

Segment(vaddr, filesz, memsz, w, x) ==
    [type |-> PT_LOAD, offset |-> 1, vaddr |-> vaddr, filesz |-> filesz, memsz |-> memsz, w |-> w, x |-> x,
     other |-> FALSE, align |-> 1]

Elf(segments, entry, bytes) ==
    <<[elf |-> [class |-> 1, data |-> 1, type |-> 2, machine |-> 3, r5900 |-> FALSE, sce |-> FALSE, version |-> 1, sizes |-> TRUE,
                table |-> TRUE, entry |-> entry, segments |-> segments]]>> \o bytes

B(n) == [i \in 1..n |-> Byte(i)]

Segments == {Segment(v, f, m, p[1], p[2]) : v \in {0, 1, 2, 3}, f \in {0, 1}, m \in {0, 2},
                                            p \in {<<FALSE, TRUE>>, <<TRUE, FALSE>>, <<TRUE, TRUE>>}}

Executables ==
    {Elf(<<s, t>>, entry, B(1)) : s \in Segments, t \in Segments, entry \in {1, 2}}
        \cup {Elf(<<[s EXCEPT !.type = ty, !.align = 2, !.offset = o]>>, 1, B(2)) :
                 s \in Segments, ty \in {PT_LOAD, PT_INTERP}, o \in {0, 1, 2}}
        \cup {Zex(B(2), bss, 1) : bss \in {0, 2, 5, 62}} \cup {Zex(B(1), bss, e) : bss \in {0, 1}, e \in {0, 1}}

\* Manifests and containers.
AppManifest == NativeManifest([name |-> "app", version |-> "0.1.1", license |-> "MIT", source |-> "here",
                          asset_policy |-> "redistributable"], "zex1")
Library == [AppManifest EXCEPT !.kind = "compat-profile", !.entrypoint = "-", !.payload_type = "none", !.min_os = "0.1.0-1",
                          !.architecture = "any", !.target = "any", !.capability = <<>>]
Text == canonical_manifest(AppManifest)
Unsorted == [AppManifest EXCEPT !.capability = <<"kernel.ring3", "storage.zenovfs1", "abi.zex1.v1">>,
                           !.dependency = <<"tool@0.2">>]
Raw(m) == [i \in DOMAIN ScalarKeys |-> [key |-> ScalarKeys[i], value |-> m[ScalarKeys[i]]]]
              \o [i \in DOMAIN m.capability |-> [key |-> "capability", value |-> m.capability[i]]]
Container(text, payload) == <<WithDigest(HeaderFields(text, payload))>> \o text \o payload
Good == build_package_bytes(AppManifest, B(2))

Texts ==
    {Raw(Unsorted), <<[blank |-> TRUE]>> \o Text, <<[junk |-> TRUE]>> \o Text, Tail(Text),
     Append(Text, [key |-> "name", value |-> "app"]), Append(Text, [key |-> "colour", value |-> "red"]),
     [Text EXCEPT ![11].value = " MIT"], [Text EXCEPT ![7].value = "/data/../app"], canonical_manifest(Library), Text}

Packages ==
    {Container(t, B(2)) : t \in Texts} \cup {Container(canonical_manifest(Library), <<>>)}
        \cup {Append(Good, Byte(1)), [Good EXCEPT ![1].package.flags = 1], [Good EXCEPT ![Len(Good)] = Byte(9)],
              [Good EXCEPT ![1] = WithDigest([Good[1].package EXCEPT !.flags = 1])],
              [Good EXCEPT ![1] = WithDigest([Good[1].package EXCEPT !.manifest_size = @ - 1, !.payload_size = @ + 1])],
              [Good EXCEPT ![3].value = "latest"], B(3), <<>>}
Other == build_package_bytes([AppManifest EXCEPT !.name = "tool"], B(1))

\* Files to probe.
Foreign(n) == {<<[sig |-> s]>> \o B(n - 1) : s \in {"zip", "gzip", "pspkg", "chd"}}
                  \cup {[B(n) EXCEPT ![n - 1] = [sig |-> "koly"]]}
                  \cup (IF n > 2 THEN {[B(n) EXCEPT ![3] = [sig |-> "iso"]]} ELSE {})
                  \cup {<<[sig |-> "fat", count |-> c]>> \o B(n - 1) : c \in {0, 1, 33}}

\* The header offset and the place of a PE signature, which need not agree, on either side
\* of the end of the head sample and of the tail.
Pe(n, at, place) ==
    [i \in 1..n |-> IF i = 1 THEN [sig |-> "mz", at |-> at]
                    ELSE IF i = place + 1 THEN [sig |-> "pe"]
                    ELSE IF i = place + PeUnits THEN [sig |-> "nul"]
                    ELSE Byte(i)]
PeFiles == UNION {{Pe(n, at, place) : at \in 1..(HeadSample + Trailer), place \in 1..(n - 1)} : n \in {4, 5, 6, 9}}

SonyElf == [Elf(<<>>, 0, B(1)) EXCEPT ![1].elf.class = 2, ![1].elf.machine = 62, ![1].elf.sce = TRUE]

Probed == {<<>>, SonyElf} \cup PeFiles \cup UNION {Foreign(n) : n \in 2..9}

MCNames == {"in", "manifest", "a.zpk", "b.zpk", "out"}
MCDirectory == <<"a.zpk", "b.zpk">>

MCSetups ==
    {[in |-> e] : e \in Executables \cup Probed}
        \cup {[n \in {"in", "out"} |-> IF n = "in" THEN Zex(B(2), 0, 1) ELSE Good]}
        \cup {[n \in {"in", "manifest", "a.zpk", "b.zpk"} |->
                  CASE n = "in" -> Zex(B(1), 0, 0) [] n = "manifest" -> t [] n = "a.zpk" -> Good [] OTHER -> p] :
              t \in Texts, p \in Packages \cup {Other}}

MCContents ==
    [n \in MCNames |-> CASE n = "in" -> {Zex(B(2), 0, 0), Zex(B(1), 0, 0), <<Byte(7)>>}
                         [] n = "b.zpk" -> {Other, SubSeq(Good, 1, 3)}
                         [] n = "out" -> {Other}
                         [] OTHER -> {}]

PkgLine(command) ==
    [command |-> command, wellformed |-> TRUE, input |-> "b.zpk", manifest |-> "manifest", payload |-> "in",
     output |-> "out", suffix |-> "none", size |-> 2, name |-> "app", version |-> "0.1.1", license |-> "MIT",
     source |-> "here", asset_policy |-> "redistributable",
     host |-> [architecture |-> "i686", target |-> "i686-zenov-none", os_version |-> "0.1.1",
               capabilities |-> {"abi.zex1.v1", "kernel.ring3", "storage.zenovfs1"}]]

OnInput(command) == [PkgLine(command) EXCEPT !.input = "in"]

MCCommandLines ==
    {PkgLine("verify"), PkgLine("pack"), [PkgLine("pack") EXCEPT !.payload = "-"], PkgLine("manifest-check"), PkgLine("extract"),
     PkgLine("resolve"), [PkgLine("resolve") EXCEPT !.host.os_version = "latest"], PkgLine("index"),
     [PkgLine("verify") EXCEPT !.wellformed = FALSE],
     OnInput("probe"), [OnInput("probe") EXCEPT !.suffix = "vpk"], [OnInput("probe") EXCEPT !.suffix = "iso"],
     OnInput("hash"), OnInput("import-native"), [OnInput("import-native") EXCEPT !.asset_policy = "user-supplied"],
     [OnInput("import-native") EXCEPT !.license = " MIT"]}

============================================================================
