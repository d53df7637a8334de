---------------------------- MODULE ForeignFormat ----------------------------
(***************************************************************************)
(* The classifier of foreign files (kernel/parts/package_foreign_format.inc*)
(* and package_foreign_policy.inc, shared by kernel and host tool).  A     *)
(* signature is one unit, [sig |-> name], or two where a reader may cut it *)
(* (PE); it is looked for at the start, at a fixed offset (ISO 9660), at   *)
(* an offset the header gives (PE) and Trailer units before the end        *)
(* (UDIF).  Support state, family and wording are left out.                *)
(***************************************************************************)
EXTENDS NativeExec

CONSTANTS
    Trailer,     \* size of a trailer, 512 bytes in the code
    IsoOffset    \* where an ISO 9660 signature lies, 0x8001 in the code

SigAt(bytes, i, sig) == i \in DOMAIN bytes /\ "sig" \in DOMAIN bytes[i] /\ bytes[i].sig = sig

\* Formats known by their first bytes, before and after the trailer is looked at.
EarlySignatures ==
    [xbe |-> "xbox-xbe", xex |-> "xbox-xex", stfs |-> "xbox-stfs", psx |-> "playstation-psx-exe",
     pbp |-> "playstation-pbp", pup |-> "playstation-pup", self |-> "playstation-self",
     wim |-> "wim", rpm |-> "rpm"]
LateSignatures ==
    [macho |-> "macho", pspkg |-> "playstation-pkg", ps4pkg |-> "playstation-pkg"]

\* Formats known by their first bytes together with the suffix of the path.
SuffixedSignatures ==
    [cfb |-> [msi |-> "msi"], zip |-> [msix |-> "msix", vpk |-> "playstation-pkg"], cab |-> [msu |-> "msu"],
     ar |-> [deb |-> "deb"], adb |-> [apk |-> "alpine-apk"], gzip |-> [apk |-> "alpine-apk", archpkg |-> "arch-package"],
     zstd |-> [archpkg |-> "arch-package"], squashfs |-> [snap |-> "snap"], xar |-> [pkg |-> "apple-pkg"]]

\* Formats guessed from the suffix alone.
Extensions ==
    [msixvc2 |-> "xbox-msixvc2", msixvc |-> "xbox-msixvc", xvc |-> "xbox-xvc", flatpak |-> "flatpak",
     dmg |-> "apple-dmg", pkg |-> "apple-pkg", iso |-> "disc-image"]

classify_elf(h, suffix) ==
    IF suffix = "appimage" THEN "appimage"
    ELSE IF h.class = 1 /\ h.data = 1 /\ h.machine = 3 THEN "elf"
    ELSE IF h.class = 1 /\ h.data = 1 /\ h.machine = 8 /\ h.r5900 THEN "playstation-ps2-elf"
    ELSE IF h.class = 2 /\ h.data = 1 /\ h.machine = 62 /\ h.sce THEN "playstation-self"
    ELSE "elf-foreign"

\* The PE signature lies where the MZ header says, counted from 0.
PeUnits == 2

PeHeader(bytes) ==
    /\ SigAt(bytes, 1, "mz")
    /\ SigAt(bytes, bytes[1].at + 1, "pe") /\ SigAt(bytes, bytes[1].at + PeUnits, "nul")

\* A fat Mach-O file shares its first bytes with other formats: its count must be plausible.
MaxFatCount == 32
FatMachO(bytes) == SigAt(bytes, 1, "fat") /\ bytes[1].count \in 1 .. MaxFatCount

classify(bytes, suffix) ==
    LET first == IF bytes # <<>> /\ "sig" \in DOMAIN bytes[1] THEN bytes[1].sig ELSE "none"
    IN CASE HasHeader(bytes, "package") -> "zenpkg"
         [] HasHeader(bytes, "zex") -> "zex1"
         [] HasHeader(bytes, "elf") -> classify_elf(bytes[1].elf, suffix)
         [] first \in DOMAIN EarlySignatures -> EarlySignatures[first]
         [] PeHeader(bytes) -> "pe"
         [] first \in DOMAIN SuffixedSignatures /\ suffix \in DOMAIN SuffixedSignatures[first] ->
                SuffixedSignatures[first][suffix]
         [] first = "cab" -> "cab"
         [] OTHER ->
              IF Len(bytes) >= Trailer /\ SigAt(bytes, Len(bytes) - Trailer + 1, "koly") THEN "apple-dmg"
              ELSE IF FatMachO(bytes) THEN "macho"
              ELSE IF first \in DOMAIN LateSignatures THEN LateSignatures[first]
              ELSE IF SigAt(bytes, IsoOffset + 1, "iso") THEN "disc-image"
              ELSE IF first = "chd" THEN "chd"
              ELSE IF suffix \in DOMAIN Extensions THEN Extensions[suffix]
              ELSE IF first = "zip" THEN "zip"
              ELSE "unknown"
============================================================================
