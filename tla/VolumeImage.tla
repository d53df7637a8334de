----------------------------- MODULE VolumeImage -----------------------------
(***************************************************************************)
(* A ZenovFS1 data image as the host tools under tools/ see it, and what   *)
(* each tool makes of it.                                                  *)
(*                                                                         *)
(* An image is its superblock generation and its used entries; entry i     *)
(* owns slot i, so an entry carries the data of its slot.  The geometry is *)
(* the builder's.  A path is a sequence of names.  The content of a file   *)
(* is what the tools and the kernel tell apart: its kind, a version, its   *)
(* size in units of which SlotBytes fill a slot, and whether a bit of it   *)
(* is flipped.  FNV-1a, SHA-256 and the signatures are injective: the      *)
(* checksum of a content is the content.  Of files that are treated alike  *)
(* (applications, update candidates, samples, corpus files, repository     *)
(* metadata) one stands for all.                                           *)
(***************************************************************************)
EXTENDS AuditFormat, FiniteSetsExt, TLC

CONSTANTS
    TableSize,          \* kEntryCount, 128
    EntriesPerSector,   \* 8 entries of 64 bytes
    SlotBytes,          \* kMaxFileBytes
    ObjectBytes,        \* least size of a signed object, package or metadata file
    MaxGeneration,      \* 0xFFFFFFFF
    CacheDirectoryIndex, CacheZpDirectoryIndex, PartialIndex, JournalIndex

ASSUME LayoutAssumption ==
    /\ EntriesPerSector \in Nat \ {0} /\ ObjectBytes \in 1 .. SlotBytes /\ MaxGeneration \in Nat \ {0}
    /\ {CacheDirectoryIndex, CacheZpDirectoryIndex, PartialIndex, JournalIndex} \subseteq 0 .. (TableSize - 1)

Slots == 0 .. (TableSize - 1)

-----------------------------------------------------------------------------
(* Contents, entries, images *)

Content(kind, v, size) == [kind |-> kind, v |-> v, size |-> size, bad |-> FALSE]
Flip(c) == [c EXCEPT !.bad = ~@]
NoBytes == Content("nothing", 0, 0)

Object(domain, v) == Content(domain, v, ObjectBytes)
VersionText(v) == Content("version", v, 1)
AuditBytes(j) == [kind |-> "audit", journal |-> j, size |-> ObjectBytes, bad |-> FALSE]

fnv1a(c) == c

\* Only the kernel's entries are ever "transaction" or committed, while a write is unfinished.
NewEntry(type, p, c) ==
    [type |-> type, committed |-> FALSE, path |-> p, checksum |-> fnv1a(c), reserved |-> 0, data |-> c]
Directory(p) == NewEntry("directory", p, NoBytes)
FileEntry(p, c) == NewEntry("file", p, c)

At(img, p) == {i \in DOMAIN img.entries : img.entries[i].path = p}
Has(img, p) == At(img, p) # {}
Entry(img, p) == img.entries[Min(At(img, p))]
FilesAt(img, p) == {i \in At(img, p) : img.entries[i].type = "file"}
Free(img) == Slots \ DOMAIN img.entries

Put(img, i, e) == [img EXCEPT !.entries = (i :> e) @@ @]

\* What a tool that stops on an error makes of an image.
Refused == [generation |-> 0, entries |-> << >>]

\* A tool's steps in order; the first that stops is the last.
Steps(Op(_, _), img, arguments) ==
    FoldLeft(LAMBDA r, a : IF r = Refused THEN Refused ELSE Op(r, a), img, arguments)

-----------------------------------------------------------------------------
(* Paths *)

Domains == <<"zgdb", "zcap", "zmid", "zrwp", "zvrt">>
LiveName == [zgdb |-> "zenovguard.zgdb", zcap |-> "syscall-capabilities.zcap",
             zmid |-> "zenovguard-intelligence.zmid", zrwp |-> "ransomware-policy.zrwp",
             zvrt |-> "verified-reads.zvrt"]
VersionName == [zgdb |-> "zenovguard.version", zcap |-> "syscall-capabilities.version",
                zmid |-> "zenovguard-intelligence.version", zrwp |-> "ransomware-policy.version",
                zvrt |-> "verified-reads.version"]
Live(d) == <<"security", LiveName[d]>>
Version(d) == <<"security", VersionName[d]>>
Candidate == <<"security", "updates", "zmid-v2.zmid">>
AuditPath == <<"security", "zenovguard.audit">>
PolicyJournalPath == <<"security", "policy-transaction.journal">>
Hello == <<"apps", "hello.zex">>
CleanSample == <<"samples", "clean.txt">>
Corpus == <<"samples", "eicar.com">>
Metadata == <<"repo", "timestamp.zrm">>
RepositoryState == <<"var", "lib", "zenpkg", "repo.v1">>
TransportState == <<"var", "lib", "zenpkg", "transport.v1">>
CachePartial == <<"var", "cache", "zp", "hello.part">>
CacheFinal == <<"var", "cache", "zp", "hello.zpk">>

-----------------------------------------------------------------------------
(* zenovfs_builder and zenovfs_verify *)

Layout(hello) ==
    <<Directory(<<"apps">>), Directory(<<"docs">>), FileEntry(Hello, hello),
      FileEntry(<<"apps", "fileio.elf">>, Object("elf", 1)),
      FileEntry(<<"docs", "release.txt">>, Content("text", 1, 1)),
      Directory(<<"config">>), FileEntry(<<"config", "system.ini">>, Content("text", 2, 1)),
      Directory(<<"security">>), Directory(<<"security", "updates">>),
      FileEntry(AuditPath, AuditBytes(initialize_empty))>>
    \o [i \in 1 .. Len(Domains) |-> FileEntry(Live(Domains[i]), Object(Domains[i], 1))]
    \o [i \in 1 .. Len(Domains) |-> FileEntry(Version(Domains[i]), VersionText(1))]
    \o <<FileEntry(Candidate, Object("zmid", 2)),
         Directory(<<"samples">>), FileEntry(CleanSample, Content("text", 3, 1)),
         Directory(<<"quarantine">>), FileEntry(PolicyJournalPath, NoBytes)>>

\* Every input file must fit a slot; each entry has its fixed index.
build(hello) ==
    IF hello.size > SlotBytes THEN Refused
    ELSE [generation |-> 1, entries |-> [i \in 0 .. (Len(Layout(hello)) - 1) |-> Layout(hello)[i + 1]]]

RequiredSeeds == {Hello, <<"apps", "fileio.elf">>, <<"config", "system.ini">>, <<"docs", "release.txt">>}

zenovfs_verify(img) ==
    LET used == {img.entries[i] : i \in DOMAIN img.entries}
        paths == {e.path : e \in used}
        directories == {e.path : e \in {u \in used : u.type = "directory"}}
    IN /\ Cardinality(paths) = Cardinality(DOMAIN img.entries)
       /\ \A e \in used :
            \/ e.type = "directory" /\ e.checksum = NoBytes
            \/ e.type = "file" /\ e.data.size <= SlotBytes /\ e.checksum = fnv1a(e.data)
       /\ \A p \in paths : Len(p) = 1 \/ Front(p) \in directories
       /\ RequiredSeeds \subseteq paths

-----------------------------------------------------------------------------
(* zenovfs_package_seed *)

\* An existing directory stays; a new one takes the first free entry.
add_directory(img, p) ==
    IF Has(img, p) THEN IF Entry(img, p).type = "directory" THEN img ELSE Refused
    ELSE IF Free(img) = {} THEN Refused
    ELSE Put(img, Min(Free(img)), Directory(p))

validate_seed_magic(p, c) ==
    c.size >= ObjectBytes /\ c.kind = (IF p[1] = "packages" THEN "zpk" ELSE "zrm")

add_file(img, s) ==
    IF Has(img, s.path) \/ s.data.size \notin 1 .. SlotBytes \/ ~validate_seed_magic(s.path, s.data) \/ Free(img) = {}
    THEN Refused ELSE Put(img, Min(Free(img)), FileEntry(s.path, s.data))

SeedDirectories ==
    <<<<"packages">>, <<"repo">>, <<"var">>, <<"var", "lib">>, <<"var", "lib", "zenpkg">>>>

package_seed(img, seeds) == Steps(add_file, Steps(add_directory, img, SeedDirectories), seeds)

-----------------------------------------------------------------------------
(* zenovfs_antimalware_benchmark_fixture --build *)

add_corpus_file(img, p) ==
    IF Has(img, p) \/ Free(img) = {} THEN Refused
    ELSE Put(img, Min(Free(img)), FileEntry(p, Content("text", 4, 1)))

build_fixture(img) == add_corpus_file(img, Corpus)

-----------------------------------------------------------------------------
(* zenovfs_{zmid,zcap,zrwp,zvrt}_corrupt: a flipped bit, the checksum      *)
(* repaired.                                                               *)

FlipRepaired(img, i) ==
    LET c == Flip(img.entries[i].data)
    IN [img EXCEPT !.entries[i].data = c, !.entries[i].checksum = fnv1a(c)]

\* slots: how many payload slots of the image file are there to be read.
corrupt_object(img, d, slots) ==
    LET is == FilesAt(img, Live(d))
    IN IF is = {} \/ Min(is) >= slots \/ img.entries[Min(is)].data.size < ObjectBytes
       THEN Refused ELSE FlipRepaired(img, Min(is))

zmid_corrupt(img, slots) == corrupt_object(img, "zmid", slots)
zcap_corrupt(img, slots) == corrupt_object(img, "zcap", slots)
zrwp_corrupt(img, slots) == corrupt_object(img, "zrwp", slots)

zvrt_corrupt(img, mode, slots) ==
    LET p == IF mode = "manifest" THEN Live("zvrt") ELSE CleanSample
        is == FilesAt(img, p)
    IN IF \/ is = {} \/ Min(is) >= slots
          \/ img.entries[Min(is)].data.size < (IF mode = "manifest" THEN ObjectBytes ELSE 1)
       THEN Refused ELSE FlipRepaired(img, Min(is))

-----------------------------------------------------------------------------
(* zenovfs_policy_journal_fixture *)

HasFile(img, p) == FilesAt(img, p) # {}
FirstFile(img, p) == img.entries[Min(FilesAt(img, p))]
ImageReadable(img, p) == HasFile(img, p) /\ FirstFile(img, p).checksum = fnv1a(FirstFile(img, p).data)
ImageRead(img, p) == FirstFile(img, p).data

\* Image::write: into the slot the file already has.
ImageWrite(img, w) == Put(img, Min(FilesAt(img, w.path)), FileEntry(w.path, w.data))

\* Image::save
Saved(img) == IF img.generation = MaxGeneration THEN Refused ELSE [img EXCEPT !.generation = @ + 1]

build_hot_zmid_journal(policy, version, audit) ==
    [kind |-> "zptj", policy |-> policy, version |-> version, audit |-> audit, size |-> SlotBytes, bad |-> FALSE]

\* The state of an interrupted update: the journal holds what the update replaced.
make_hot_zmid(img) ==
    LET old == [p \in {Live("zmid"), Version("zmid"), AuditPath, Candidate} |-> ImageRead(img, p)]
    IN IF \/ ~(\A p \in {Live("zmid"), Version("zmid"), AuditPath, Candidate} : ImageReadable(img, p))
          \/ ~HasFile(img, PolicyJournalPath)
          \/ old[Version("zmid")] # VersionText(1)
       THEN Refused
       ELSE Saved(Steps(ImageWrite, img,
                <<[path |-> PolicyJournalPath,
                   data |-> build_hot_zmid_journal(old[Live("zmid")], old[Version("zmid")], old[AuditPath])],
                  [path |-> Live("zmid"), data |-> old[Candidate]],
                  [path |-> Version("zmid"), data |-> VersionText(2)],
                  [path |-> AuditPath, data |-> Flip(old[AuditPath])]>>))

make_corrupt_journal(img) ==
    IF ~ImageReadable(img, PolicyJournalPath) \/ ImageRead(img, PolicyJournalPath).kind # "zptj" THEN Refused
    ELSE Saved(ImageWrite(img, [path |-> PolicyJournalPath, data |-> Flip(ImageRead(img, PolicyJournalPath))]))

-----------------------------------------------------------------------------
(* zenpkg_blkdebug_seed: three images with an interrupted package transfer *)
(* whose objects are alone in their metadata sectors.                      *)

ensure_directory(img, d) ==
    IF Has(img, d.path) THEN IF Entry(img, d.path).type = "directory" THEN img ELSE Refused
    ELSE IF d.index \notin Free(img) THEN Refused
    ELSE Put(img, d.index, Directory(d.path))

SectorOf(index) == LET first == index - (index % EntriesPerSector) IN first .. (first + EntriesPerSector - 1)

isolate_metadata_sector(img, index) ==
    Steps(ensure_directory, img,
        [k \in 1 .. (EntriesPerSector - 1) |->
            LET other == Min(SectorOf(index)) + k - (IF Min(SectorOf(index)) + k <= index THEN 1 ELSE 0)
            IN [index |-> other, path |-> <<"var", "lib", "zenpkg", ToString(other)>>]])

put_file(img, f) ==
    IF f.index \notin Free(img) \/ f.data.size > SlotBytes \/ Has(img, f.path) THEN Refused
    ELSE Put(img, f.index, FileEntry(f.path, f.data))

make_journal(ready, offset) == Content(IF ready THEN "ready" ELSE "downloading", offset, 1)

\* offset: how much of the package the cache object holds; the journal says the same.
make_state(img, package, committed, ready) ==
    LET offset == IF ready THEN package.size ELSE 1
        directories == <<[index |-> CacheDirectoryIndex, path |-> <<"var", "cache">>],
                         [index |-> CacheZpDirectoryIndex, path |-> <<"var", "cache", "zp">>]>>
        isolated == Steps(isolate_metadata_sector, Steps(ensure_directory, img, directories), <<PartialIndex, JournalIndex>>)
    IN Steps(put_file, isolated,
            <<[index |-> PartialIndex, path |-> IF committed THEN CacheFinal ELSE CachePartial,
               data |-> Content("zpk", package.v, offset)],
              [index |-> JournalIndex, path |-> TransportState,
               data |-> make_journal(ready, offset)]>>)

ReservedFree(img) ==
    (CacheDirectoryIndex .. (CacheDirectoryIndex + 1)) \cup SectorOf(PartialIndex) \cup SectorOf(JournalIndex) \subseteq Free(img)

blkdebug_seed(img, package) ==
    IF package.kind # "zpk" \/ package.size <= 1 \/ package.size > SlotBytes \/ ~ReservedFree(img)
    THEN <<Refused>>
    ELSE <<make_state(img, package, FALSE, FALSE), make_state(img, package, FALSE, TRUE), make_state(img, package, TRUE, TRUE)>>

-----------------------------------------------------------------------------
(* zenovfs_audit_verify *)

audit_verify(img, require_nonempty) ==
    \E i \in FilesAt(img, AuditPath) :
        /\ FilesAt(img, AuditPath) = {i} /\ ~img.entries[i].committed
        /\ img.entries[i].data.kind = "audit" /\ img.entries[i].checksum = fnv1a(img.entries[i].data)
        /\ ~img.entries[i].data.bad /\ host_verify(img.entries[i].data.journal, require_nonempty)

emit_tampered(img) ==
    IF ~audit_verify(img, TRUE) THEN Refused
    ELSE ImageWrite(img, [path |-> AuditPath, data |-> AuditBytes(tamper_oldest(ImageRead(img, AuditPath).journal))])
=============================================================================
