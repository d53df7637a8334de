---------------------------- MODULE MCLiveImage ----------------------------
(* Three sectors of two bytes; bytes of two bits, so a window of 8 and     *)
(* matches of 3 or 4 bytes.                                                *)
EXTENDS LiveImage

MCImages == [1 .. Sectors * SectorSize -> 0 .. 2]

\* Packs with rows unordered, overlapping, empty or overlong.
Rows == [offset : 0 .. Sectors * SectorSize, length : 0 .. 3]
ShortRows == [offset : 0 .. Sectors * SectorSize - 1, length : {1, 2}]
MCPayloads == [rows : [1 .. 1 -> Rows] \cup [1 .. 2 -> Rows], data : {<<1, 2, 1, 2>>}]
              \cup [rows : [1 .. 3 -> ShortRows], data : {<<1, 2, 1>>}]

MaxStream == 5
MCStreams == UNION {[1 .. n -> Bytes] : n \in 0 .. MaxStream}

MCWritten == {<<2, 2>>, <<1, 2>>}
MCGarbage == <<3, 3>>
=============================================================================
