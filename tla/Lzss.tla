-------------------------------- MODULE Lzss --------------------------------
(***************************************************************************)
(* The ZLIVE003 transport of the live image: lzss_compress of the host     *)
(* tool and live_decompress_pack of the kernel.  The widths are constants  *)
(* with the ratios of the code: a flag byte has one bit per item and a     *)
(* match code fills two bytes with a distance and a length.                *)
(***************************************************************************)
EXTENDS Integers, Sequences, FiniteSets

CONSTANTS
    ByteBase,       \* values of a byte: 2^GroupBits
    GroupBits,      \* items under one flag byte
    LengthSpan,     \* values of the length field of a code
    MinMatch,       \* lz_min_match
    ChainLimit,     \* lz_chain_limit
    HashSlots       \* lz_hash_slots

Window == (ByteBase * ByteBase) \div LengthSpan
MaxMatch == MinMatch + LengthSpan - 1

ASSUME LzssAssumption ==
    /\ ByteBase = 2 ^ GroupBits
    /\ LengthSpan * Window = ByteBase * ByteBase

Rejected == <<-1>>      \* no byte string

-----------------------------------------------------------------------------
(* lzss_compress; positions count from 0 *)

lz_hash(s, p) == ((s[p + 1] * 251 + s[p + 2]) * 251 + s[p + 3]) % HashSlots

\* Every earlier position was inserted in the chain of its hash; the search
\* visits the ChainLimit latest of them that are within the window.
Chain(s, p) ==
    LET same == {q \in 0 .. p - 1 : lz_hash(s, q) = lz_hash(s, p)}
    IN  {q \in same : p - q <= Window /\ Cardinality({r \in same : r > q}) < ChainLimit}

MatchLength(s, q, p) ==
    LET limit == IF Len(s) - p < MaxMatch THEN Len(s) - p ELSE MaxMatch
    IN  CHOOSE n \in 0 .. limit :
            /\ \A i \in 1 .. n : s[q + i] = s[p + i]
            /\ n < limit => s[q + n + 1] # s[p + n + 1]

\* The longest match, the nearest of equals; a length of 0 is no match.
BestMatch(s, p) ==
    IF p + MinMatch > Len(s) THEN [length |-> 0, distance |-> 0]
    ELSE LET chain == {q \in Chain(s, p) : MatchLength(s, q, p) >= MinMatch}
         IN  IF chain = {} THEN [length |-> 0, distance |-> 0]
             ELSE LET best == CHOOSE q \in chain : \A r \in chain :
                                  \/ MatchLength(s, q, p) > MatchLength(s, r, p)
                                  \/ MatchLength(s, q, p) = MatchLength(s, r, p) /\ q >= r
                  IN  [length |-> MatchLength(s, best, p), distance |-> p - best]

Code(m) == (m.distance - 1) * LengthSpan + (m.length - MinMatch)

RECURSIVE Group(_, _, _, _, _), lzss_compress(_, _)
\* One flag byte and its items, then the rest.
Group(s, p, bit, flags, items) ==
    IF bit = GroupBits \/ p = Len(s)
    THEN <<flags>> \o items \o lzss_compress(s, p)
    ELSE LET m == BestMatch(s, p)
         IN  IF m.length >= MinMatch
             THEN Group(s, p + m.length, bit + 1, flags,
                        items \o <<Code(m) % ByteBase, (Code(m) \div ByteBase) % ByteBase>>)
             ELSE Group(s, p + 1, bit + 1, flags + 2 ^ bit, Append(items, s[p + 1]))

lzss_compress(s, p) == IF p = Len(s) THEN <<>> ELSE Group(s, p, 0, 0, <<>>)

-----------------------------------------------------------------------------
(* live_decompress_pack *)

\* A match may overlap its own output.
Copy(out, distance, length) ==
    out \o [i \in 1 .. length |-> out[Len(out) - distance + 1 + ((i - 1) % distance)]]

\* Mutant: the end of the output is not checked.
MatchRunsOver(out, distance, length, capacity) == distance <= Len(out)

MatchFits(out, distance, length, capacity) ==
    distance <= Len(out) /\ Len(out) + length <= capacity

RECURSIVE Items(_, _, _, _, _, _), Decode(_, _, _, _)
Items(s, capacity, at, out, flags, bit) ==
    IF bit = GroupBits \/ Len(out) >= capacity THEN Decode(s, capacity, at, out)
    ELSE IF (flags \div 2 ^ bit) % 2 = 1
    THEN IF at >= Len(s) THEN Rejected
         ELSE Items(s, capacity, at + 1, Append(out, s[at + 1]), flags, bit + 1)
    ELSE IF at + 1 >= Len(s) THEN Rejected
    ELSE LET code == s[at + 1] + s[at + 2] * ByteBase
             distance == (code \div LengthSpan) + 1
             length == (code % LengthSpan) + MinMatch
         IN  IF MatchFits(out, distance, length, capacity)
             THEN Items(s, capacity, at + 2, Copy(out, distance, length), flags, bit + 1)
             ELSE Rejected

Decode(s, capacity, at, out) ==
    IF Len(out) >= capacity THEN (IF at = Len(s) THEN out ELSE Rejected)
    ELSE IF at >= Len(s) THEN Rejected
    ELSE Items(s, capacity, at + 1, out, s[at + 1], 0)

live_decompress_pack(s, capacity) == Decode(s, capacity, 0, <<>>)
=============================================================================
