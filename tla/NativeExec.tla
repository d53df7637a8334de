----------------------------- MODULE NativeExec -----------------------------
(***************************************************************************)
(* Executable files: what the host tool accepts for a package              *)
(* (tools/zenpkg/foreign_import.hpp) and what the kernel loader does with  *)
(* the same bytes (load_zex and load_elf32 of kernel/parts/process.inc).   *)
(*                                                                         *)
(* A file is a sequence of units.  The first unit of an executable is its  *)
(* header (of an ELF file with the program headers it points to), the rest *)
(* are bytes; sizes, offsets and addresses count units.                    *)
(***************************************************************************)
EXTENDS Integers, FiniteSets, Sequences, SequencesExt

CONSTANTS
    PageSize,      \* page_size
    StackBase,     \* stack_base: the stack occupies [StackBase, StackBase + StackBytes)
    StackBytes,
    Word           \* number of values of uint32_t

ASSUME LayoutAssumption == /\ PageSize \in Nat \ {0} /\ StackBase % PageSize = 0 /\ StackBytes % PageSize = 0
                           /\ StackBase + StackBytes < Word

HasHeader(file, kind) == file # <<>> /\ kind \in DOMAIN file[1]

Byte(b) == [byte |-> b]

PageOf(a) == a \div PageSize
Span(a, n) == a .. (a + n - 1)
Pages(a, n) == {PageOf(x) : x \in Span(a, n)}
Overlap(a, m, b, n) == a < b + n /\ b < a + m
PagesOverlap(a, m, b, n) == Pages(a, m) \cap Pages(b, n) # {}

----------------------------------------------------------------------------
(* ZEX1: one image, entered at an offset, followed by zeroed bss.          *)

Image(file) == Tail(file)
zex_checksum(image) == [fnv |-> image]

validate_zex1_import(file) ==
    /\ HasHeader(file, "zex")
    /\ LET h == file[1].zex
       IN /\ h.version = 1 /\ h.header = 1
          /\ h.image # 0 /\ h.image <= Len(file) - 1 /\ Len(file) = 1 + h.image
          /\ h.entry < h.image
          /\ h.image <= StackBase /\ h.bss <= StackBase - h.image /\ h.stack <= StackBytes
          /\ h.bss # 0 => h.image % PageSize = 0
          /\ zex_checksum(Image(file)) = h.checksum

\* The kernel adds image and bss sizes modulo 2^32 before it compares.
load_zex(file) ==
    /\ HasHeader(file, "zex")
    /\ LET h == file[1].zex
       IN /\ h.version = 1 /\ h.header = 1
          /\ h.image <= Len(file) - 1 /\ (h.image + h.bss) % Word <= StackBase /\ h.image # 0
          /\ h.entry < h.image /\ h.stack <= StackBytes
          /\ zex_checksum(SubSeq(file, 2, 1 + h.image)) = h.checksum
          /\ h.bss # 0 => h.image % PageSize = 0
          /\ h.image + h.bss <= StackBase + StackBytes      \* map_user of image and bss

----------------------------------------------------------------------------
(* ELF32.  A program header: [type, offset, vaddr, filesz, memsz, w, x,    *)
(* other, align], with the permission bits apart and other for the flags   *)
(* beyond the three.                                                       *)

PT_LOAD == 1
PT_DYNAMIC == 2
PT_INTERP == 3

\* The header checks host and kernel share.
ElfHeaderFits(file) ==
    /\ HasHeader(file, "elf")
    /\ LET h == file[1].elf
       IN /\ h.class = 1 /\ h.data = 1 /\ h.type = 2 /\ h.machine = 3 /\ h.version = 1
          /\ h.sizes /\ h.segments # <<>> /\ h.table        \* the program headers lie in the file
          /\ h.entry < StackBase

Loadable(h) == {i \in DOMAIN h.segments : h.segments[i].type = PT_LOAD /\ h.segments[i].memsz # 0}

PowerOfTwo(n) == \E k \in 0..n : n = 2^k

SegmentFits(s, size) ==
    /\ s.filesz <= s.memsz /\ s.offset <= size /\ s.filesz <= size - s.offset
    /\ s.vaddr < StackBase /\ s.memsz <= StackBase - s.vaddr
    /\ ~s.other
    /\ s.align > 1 => PowerOfTwo(s.align) /\ s.vaddr % s.align = s.offset % s.align

Holds(s, address) == address \in Span(s.vaddr, s.memsz)

\* Two load segments a page cannot serve.
Conflict(s, t) ==
    \/ Overlap(s.vaddr, s.memsz, t.vaddr, t.memsz)
    \/ s.w # t.w /\ PagesOverlap(s.vaddr, s.memsz, t.vaddr, t.memsz)

\* Mutant: segments are compared byte by byte only.
ConflictOfBytes(s, t) == Overlap(s.vaddr, s.memsz, t.vaddr, t.memsz)

ForeignConflict(s, t) == Conflict(s, t)

validate_elf32_i386_import(file) ==
    /\ ElfHeaderFits(file)
    /\ LET h == file[1].elf
           S == h.segments
       IN /\ \A i \in DOMAIN S : S[i].type \notin {PT_DYNAMIC, PT_INTERP}
          /\ \A i \in DOMAIN S : S[i].type = PT_LOAD /\ S[i].memsz = 0 => S[i].filesz = 0
          /\ \A i \in Loadable(h) : SegmentFits(S[i], Len(file)) /\ ~(S[i].w /\ S[i].x)
          /\ \A i, j \in Loadable(h) : j < i => ~ForeignConflict(S[i], S[j])
          /\ \E i \in Loadable(h) : S[i].x /\ ~S[i].w /\ Holds(S[i], h.entry)

\* The pages that are writable after every load segment has been mapped
\* writable and then protected, in the order of the program headers.
WritablePages(S, L) ==
    LET Protect(W, i) == IF i \notin L THEN W
                         ELSE IF S[i].w THEN W \cup Pages(S[i].vaddr, S[i].memsz)
                         ELSE W \ Pages(S[i].vaddr, S[i].memsz)
    IN FoldLeftDomain(LAMBDA W, i : Protect(W, i), UNION {Pages(S[i].vaddr, S[i].memsz) : i \in L}, S)

\* The memory after every segment has been copied and its rest zeroed.
Memory(file) ==
    LET S == file[1].elf.segments
        L == Loadable(file[1].elf)
        Copy(M, i) == IF i \notin L THEN M
                      ELSE [a \in DOMAIN M |->
                               IF a \in Span(S[i].vaddr, S[i].filesz) THEN file[S[i].offset + (a - S[i].vaddr) + 1]
                               ELSE IF Holds(S[i], a) THEN Byte(0)
                               ELSE M[a]]
    IN FoldLeftDomain(LAMBDA M, i : Copy(M, i), [a \in 0..(StackBase - 1) |-> Byte(0)], S)

load_elf32(file) ==
    /\ ElfHeaderFits(file)
    /\ LET h == file[1].elf
           S == h.segments
           L == Loadable(h)
           stack == Pages(StackBase, StackBytes)
       IN /\ \A i \in DOMAIN S : S[i].type = PT_LOAD /\ S[i].memsz = 0 => S[i].filesz = 0
          /\ \A i \in L : SegmentFits(S[i], Len(file))
          /\ \A i, j \in L : j < i => ~Conflict(S[i], S[j])
          /\ \E i \in L : S[i].x /\ Holds(S[i], h.entry)
          /\ PageOf(h.entry) \notin WritablePages(S, L) \cup stack
============================================================================
