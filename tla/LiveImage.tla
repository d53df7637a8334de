----------------------------- MODULE LiveImage -----------------------------
(***************************************************************************)
(* The live medium: the host tool live_image_pack.cpp turns the image of a *)
(* file system into a sparse pack and compresses it; the kernel decodes it *)
(* at boot, reads base sectors from it, and keeps changed sectors in a RAM *)
(* overlay of bounded size (storage_live_image.inc).                       *)
(*                                                                         *)
(* Numbers in the pack take two bytes; its magic and the reserved field of *)
(* a row are left out.  The memory a session starts from holds anything.   *)
(***************************************************************************)
EXTENDS Lzss, FiniteSetsExt

CONSTANTS
    Sectors,        \* live_image_logical_sectors
    SectorSize,
    ZeroGap,        \* zero_gap
    Capacity,       \* live_overlay_capacity_sectors
    Images,         \* images the tool may be given, sequences of bytes
    Payloads,       \* [rows, data]: damaged sparse payloads
    Streams,        \* damaged streams
    StreamSize,     \* size of the pack a damaged stream stands for
    Garbage,        \* a sector of memory never written
    Written,        \* sector contents the file system writes
    NoRequest, Failed, Pending, Done

Bytes == 0 .. ByteBase - 1

ASSUME LiveAssumption ==
    /\ Sectors \in Nat \ {0} /\ SectorSize \in Nat \ {0} /\ Capacity \in Nat
    /\ Sectors * SectorSize < ByteBase * ByteBase
    /\ ZeroGap \in Nat
    /\ Images \subseteq [1 .. Sectors * SectorSize -> Bytes]
    /\ Written \subseteq [1 .. SectorSize -> Bytes]

Lbas == 0 .. Sectors                    \* the last one is out of range
Values == [1 .. SectorSize -> Bytes]
Empty == -1                             \* live_overlay_empty

-----------------------------------------------------------------------------
(* live_image_pack.cpp: chunks of an image; addresses count from 0 *)

Nonzero(img) == {x \in 0 .. Len(img) - 1 : img[x + 1] # 0}

\* Nonzero bytes with at most ZeroGap zeros between them share a chunk.
ChunkStarts(img) ==
    {x \in Nonzero(img) : \A y \in Nonzero(img) : y < x => x - y - 1 > ZeroGap}

ChunkEnd(img, start) ==
    LET later == {s \in ChunkStarts(img) : s > start}
    IN  1 + Max({x \in Nonzero(img) : \A s \in later : x < s})

Nth(S, k) == CHOOSE x \in S : Cardinality({y \in S : y < x}) = k - 1

RowsOf(img) ==
    [k \in 1 .. Cardinality(ChunkStarts(img)) |->
        LET start == Nth(ChunkStarts(img), k)
        IN  [offset |-> start, length |-> ChunkEnd(img, start) - start]]

\* Bytes stored before row k (live_chunk_data_offset).
DataOffset(rows, k) == MapThenSumSet(LAMBDA j : rows[j].length, 1 .. k - 1)

ChunkData(img) ==
    LET rows == RowsOf(img)
        size == DataOffset(rows, Len(rows) + 1)
        row(i) == CHOOSE k \in 1 .. Len(rows) :
                      DataOffset(rows, k) < i /\ i <= DataOffset(rows, k + 1)
    IN  [i \in 1 .. size |-> img[rows[row(i)].offset + i - DataOffset(rows, row(i))]]

Word(n) == <<n % ByteBase, n \div ByteBase>>

\* The sparse payload: header, one row per chunk, the bytes of the chunks.
Sparse(rows, data) ==
    Word(Sectors) \o Word(Len(rows)) \o Word(Len(data))
    \o [i \in 1 .. 4 * Len(rows) |->
           LET row == rows[1 + ((i - 1) \div 4)]
           IN  (Word(row.offset) \o Word(row.length))[1 + ((i - 1) % 4)]]
    \o data

SparseOf(img) == Sparse(RowsOf(img), ChunkData(img))

-----------------------------------------------------------------------------
(* The kernel's side of the pack *)

HeaderBytes == 6
RowBytes == 4

Field(b, at) == b[at + 1] + b[at + 2] * ByteBase

RowEnd(r) == r.offset + r.length

\* live_chunk_row of each chunk; count is live_image_chunk_count.
ChunkRows(b, count) ==
    [k \in 1 .. count |-> [offset |-> Field(b, HeaderBytes + (k - 1) * RowBytes),
                           length |-> Field(b, HeaderBytes + (k - 1) * RowBytes + 2)]]

\* Mutant: a chunk may not start where the last one ended.
RowsOrderedStrictly(rows) ==
    \A k \in 1 .. Len(rows) :
        /\ rows[k].length # 0
        /\ rows[k].offset > (IF k = 1 THEN 0 ELSE RowEnd(rows[k - 1]))
        /\ RowEnd(rows[k]) <= Sectors * SectorSize

RowsOrdered(rows) ==
    \A k \in 1 .. Len(rows) :
        /\ rows[k].length # 0
        /\ rows[k].offset >= (IF k = 1 THEN 0 ELSE RowEnd(rows[k - 1]))
        /\ RowEnd(rows[k]) <= Sectors * SectorSize

\* The checksum apart, which Initialize decides.
live_pack_valid(b, count) ==
    /\ Len(b) >= HeaderBytes
    /\ Field(b, 0) = Sectors /\ Field(b, 2) = count /\ count # 0
    /\ HeaderBytes + count * RowBytes + Field(b, 4) = Len(b)
    /\ RowsOrdered(ChunkRows(b, count))
    /\ DataOffset(ChunkRows(b, count), count + 1) = Field(b, 4)

\* The binary search for the first chunk that ends after begin.
FirstRow(rows, begin) ==
    LET search[r \in (1 .. Len(rows) + 1) \X (1 .. Len(rows) + 1)] ==
            IF r[1] >= r[2] THEN r[1]
            ELSE LET middle == r[1] + ((r[2] - r[1]) \div 2)
                 IN  IF RowEnd(rows[middle]) <= begin
                     THEN search[<<middle + 1, r[2]>>] ELSE search[<<r[1], middle>>]
    IN  search[<<1, Len(rows) + 1>>]

live_read_base_sector(b, count, lba) ==
    LET rows == ChunkRows(b, count)
        begin == lba * SectorSize
        end == begin + SectorSize
        low == FirstRow(rows, begin)
        visited == {k \in low .. count : \A j \in low .. k : rows[j].offset < end}
        over(x) == {k \in visited : rows[k].offset <= x /\ x < RowEnd(rows[k])}
        data_start == HeaderBytes + count * RowBytes
        byte(x) == IF over(x) = {} THEN 0
                   ELSE LET k == Max(over(x))
                        IN  b[data_start + DataOffset(rows, k) + x - rows[k].offset + 1]
    IN  [i \in 1 .. SectorSize |-> byte(begin + i - 1)]

-----------------------------------------------------------------------------
VARIABLES
    image,      \* what the base should read as
    built,      \* the tool made the stream
    payload,    \* the sparse payload the tool compresses
    stream,     \* live_image_compressed
    chunks,     \* live_image_chunk_count
    size,       \* live_image_pack_bytes
    workspace,  \* live_pack_decoded
    active,     \* live_storage_active
    map,        \* live_overlay_map
    overlay,    \* live_overlay_sectors
    used,       \* live_overlay_used
    pc, request, outcome

build == <<image, built, payload, stream, chunks, size>>
base == <<build, workspace, active>>
vars == <<base, map, overlay, used, pc, request, outcome>>

Slots == 0 .. Capacity - 1

\* Reference: the image a decoded pack describes, looked up by address.
Described(b, count) ==
    [i \in 1 .. Sectors * SectorSize |->
        IF ~live_pack_valid(b, count) THEN 0
        ELSE LET rows == ChunkRows(b, count)
                 over == {k \in 1 .. count : rows[k].offset < i /\ i <= RowEnd(rows[k])}
             IN  IF over = {} THEN 0
                 ELSE LET k == CHOOSE k \in over : TRUE
                      IN  b[HeaderBytes + count * RowBytes + DataOffset(rows, k) + i - rows[k].offset]]

\* Before live_image_initialize the overlay memory holds anything.
Init ==
    /\ \/ /\ built = TRUE /\ pc = "pack"
          /\ image \in {i \in Images : Nonzero(i) # {}}
          /\ payload = <<>> /\ stream = <<>> /\ chunks = 0 /\ size = 0
       \/ /\ built = FALSE /\ pc = "compress"
          /\ \E p \in Payloads : payload = Sparse(p.rows, p.data) /\ chunks = Len(p.rows)
          /\ image = Described(payload, chunks)
          /\ stream = <<>> /\ size = Len(payload)
       \/ /\ built = FALSE /\ pc = "off"
          /\ stream \in Streams /\ size = StreamSize
          /\ image = [i \in 1 .. Sectors * SectorSize |-> 0]
          /\ payload = <<>> /\ chunks = 1
    /\ workspace = <<>>
    /\ active = FALSE
    /\ map \in {[l \in 0 .. Sectors - 1 |-> g] : g \in Slots \cup {Empty}}
    /\ overlay = [s \in Slots |-> Garbage]
    /\ used = 0
    /\ request = NoRequest /\ outcome = Pending

\* The tool: sparse payload, then stream.
Pack ==
    /\ pc = "pack"
    /\ payload' = SparseOf(image)
    /\ chunks' = Len(RowsOf(image)) /\ size' = Len(payload')
    /\ pc' = "compress"
    /\ UNCHANGED <<image, built, stream, workspace, active, map, overlay, used, request, outcome>>

\* The tool refuses a stream that is not shorter than its payload, as most are at the
\* sizes of a model; Compress follows those too, so that the decoder meets them.
Compress ==
    /\ pc = "compress"
    /\ stream' = lzss_compress(payload, 0)
    /\ pc' = "off"
    /\ UNCHANGED <<image, built, payload, chunks, size, workspace, active, map, overlay, used,
                   request, outcome>>

ClearedMap == [l \in 0 .. Sectors - 1 |-> Empty]

\* live_image_initialize; the checksum may catch a damaged pack.
Initialize ==
    /\ pc = "off"
    /\ workspace' = live_decompress_pack(stream, size)
    /\ \E checksum \in IF built THEN {TRUE} ELSE BOOLEAN :
           active' = (workspace' # Rejected /\ checksum /\ live_pack_valid(workspace', chunks))
    /\ used' = 0
    /\ map' = IF active' THEN ClearedMap ELSE map
    /\ pc' = "idle"
    /\ UNCHANGED <<build, overlay, request, outcome>>

Request ==
    /\ pc = "idle" /\ request = NoRequest
    /\ request' \in [op : {"read"}, lba : Lbas] \cup [op : {"write"}, lba : Lbas, value : Written]
    /\ outcome' = Pending
    /\ pc' = "serve"
    /\ UNCHANGED <<base, map, overlay, used>>

End(result) == outcome' = result /\ request' = NoRequest /\ pc' = "idle"

Servable == active /\ request.lba < Sectors

Refuse ==
    /\ pc = "serve" /\ ~Servable
    /\ End(Failed)
    /\ UNCHANGED <<base, map, overlay, used>>

live_read_sector ==
    /\ pc = "serve" /\ request.op = "read" /\ Servable
    /\ End(IF map[request.lba] # Empty THEN overlay[map[request.lba]]
           ELSE live_read_base_sector(workspace, chunks, request.lba))
    /\ UNCHANGED <<base, map, overlay, used>>

\* No slot left for a sector that has none.
OverlayFull == map[request.lba] = Empty /\ used >= Capacity

\* Mutant: live_overlay_used is not advanced.
TakeSameSlot ==
    /\ map' = IF map[request.lba] = Empty THEN [map EXCEPT ![request.lba] = used] ELSE map
    /\ used' = used

TakeSlot ==
    IF map[request.lba] = Empty
    THEN map' = [map EXCEPT ![request.lba] = used] /\ used' = used + 1
    ELSE UNCHANGED <<map, used>>

live_write_sector ==
    /\ pc = "serve" /\ request.op = "write" /\ Servable
    /\ \/ OverlayFull /\ End(Failed) /\ UNCHANGED <<map, overlay, used>>
       \/ /\ ~OverlayFull
          /\ TakeSlot
          /\ overlay' = [overlay EXCEPT ![map'[request.lba]] = request.value]
          /\ pc' = "return"
          /\ UNCHANGED <<request, outcome>>
    /\ UNCHANGED base

Return ==
    /\ pc = "return"
    /\ End(Done)
    /\ UNCHANGED <<base, map, overlay, used>>

Next == Pack \/ Compress \/ Initialize \/ Request \/ Refuse \/ live_read_sector \/ live_write_sector \/ Return

Spec == Init /\ [][Next]_vars

-----------------------------------------------------------------------------
(* Properties *)

\* What the device shows: changed sectors from the overlay, the image under it.
View == [l \in Lbas |->
            IF l = Sectors THEN [i \in 1 .. SectorSize |-> 0]
            ELSE IF active /\ map[l] # Empty THEN overlay[map[l]]
            ELSE SubSeq(image, l * SectorSize + 1, (l + 1) * SectorSize)]

Store == INSTANCE BlockStore WITH store <- View, limbo <- {}

\* live0 is a block store over the image the tool was given: the base sectors
\* decoded and assembled from chunks are its sectors, a write changes one
\* sector only (no overlay slot is shared), and one refused by a full overlay
\* changes nothing.
ImplementsStore == Store!BSpec

\* Every image the tool packs and compresses is decoded and accepted at boot.
BuiltPacksLoad == built /\ pc \in {"idle", "serve", "return"} => active

\* live_decompress_pack refuses a damaged stream or fills the workspace
\* exactly: it never writes past live_image_pack_bytes.
DamageContained ==
    pc \in {"idle", "serve", "return"} => workspace = Rejected \/ Len(workspace) = size
=============================================================================
