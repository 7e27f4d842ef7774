----------------------------- MODULE FrameTokens -----------------------------
(***************************************************************************)
(* The frames of standalone LZ4 and Zstandard streams, as tokens: a token  *)
(* is a number and stands for one field, whatever its width, or for one    *)
(* byte of a payload.  Descriptors keep the bits the code tests.  The      *)
(* decoders of lz4_flex, ruzstd, bzip2-rs, brotli and miniz_oxide are      *)
(* external; what un7z sees of them is what a frame decodes to.            *)
(***************************************************************************)
EXTENDS Integers, SequencesExt

LZ4_MAGIC        == 201
LZ4_LEGACY_MAGIC == 202
SKIPPABLE_MAGIC  == 203
ZSTANDARD_MAGIC  == 204
UNIX_MAGIC       == 205
STREAM_MAGIC     == 206      \* a Brotli or Deflate stream
BZip2Magics      == 211..219 \* "BZh" and the digit of the block size
Magics == {LZ4_MAGIC, LZ4_LEGACY_MAGIC, SKIPPABLE_MAGIC}

NoSize == -1                 \* a content size of None

\* Block sizes and windows, scaled down; the order among them is the code's.
Lz4BlockBytes == <<2, 3, 4, 5>>       \* 64 KiB, 256 KiB, 1 MiB, 4 MiB
LEGACY_BLOCK_BYTES == 6
MAXIMUM_BLOCK_BYTES == 4              \* of a Zstandard block, 128 KiB
StoredBlock == 128                    \* the bit of an uncompressed LZ4 block
ContentBias == 2                      \* 256, added to a two-byte content size

Bit(token, k) == (token \div 2^k) % 2 = 1

Least(a, b)   == IF a < b THEN a ELSE b
Greatest(a, b) == IF a < b THEN b ELSE a
Sum(s) == FoldLeft(LAMBDA x, y : x + y, 0, s)
Flag(b) == IF b THEN 1 ELSE 0

\* xxHash of a run of tokens: any single changed token changes it.
Hash(s) == 100 + (Sum(s) % 64)

\* Flags of an LZ4 descriptor.
Lz4Dictionary(flags)  == Bit(flags, 0)
Lz4ContentHash(flags) == Bit(flags, 2)
Lz4ContentSize(flags) == Bit(flags, 3)
Lz4BlockHashes(flags) == Bit(flags, 4)

\* Fields of a Zstandard descriptor and block header.
SingleSegment(d)   == Bit(d, 5)
ZstdHash(d)        == Bit(d, 2)
ZstdDictionary(d)  == d % 4
ZstdSizeField(d)   == d \div 64 # 0 \/ SingleSegment(d)
LastBlock(b)       == b % 2 = 1
BlockType(b)       == (b \div 2) % 4
BlockSize(b)       == b \div 8
RunLength          == 1                \* the block type with one payload byte

-----------------------------------------------------------------------------
(***************************************************************************)
(* External: what a decoder makes of a frame.  A stored token is one unit  *)
(* of output, a run-length token as many as its block says, a compressed   *)
(* token v < 4 is v units, and any other is rejected.  A unit is the       *)
(* token's place in the input and its number there.                        *)
(***************************************************************************)
Expands(block, v) ==
    CASE block.kind = "stored"     -> 1
      [] block.kind = "run"        -> block.count
      [] block.kind = "compressed" -> v

Rejected(block) ==
    \/ Len(block.payload) < (IF block.kind = "run" THEN 1 ELSE block.count)
    \/ block.kind = "compressed" /\ \E i \in DOMAIN block.payload : block.payload[i] > 3

\* The units of a block that starts at a place of the input, and for each the
\* tokens of the frame that must have been read.
BlockUnits(block, start) ==
    FlattenSeq([i \in DOMAIN block.payload |->
        [k \in 1..Expands(block, block.payload[i]) |->
            [unit |-> <<start + block.at + i - 1, k>>, needs |-> block.at + i - 1]]])

\* The blocks of a frame's tokens, from one place on.
Lz4BlockAt(t, p, hashes) ==
    LET size == t[p] % StoredBlock
        last == p + size
    IN  [kind |-> IF t[p] >= StoredBlock THEN "stored" ELSE "compressed",
         at |-> p + 1, payload |-> SubSeq(t, p + 1, Least(last, Len(t))), count |-> size,
         hash |-> IF hashes = 1 /\ last < Len(t) THEN t[last + 1] ELSE NoSize]

Lz4Blocks(t, from, hashes) ==
    LET blocks[p \in Nat \ {0}] ==
            IF p > Len(t) \/ t[p] = 0 THEN <<>>
            ELSE <<Lz4BlockAt(t, p, hashes)>> \o blocks[p + (t[p] % StoredBlock) + hashes + 1]
    IN  blocks[from]

PayloadSize(b) == IF BlockType(b) = RunLength THEN 1 ELSE BlockSize(b)    \* of a Zstandard block's payload

ZstdBlockAt(t, p) ==
    [kind |-> IF BlockType(t[p]) = RunLength THEN "run"
              ELSE IF BlockType(t[p]) = 0 THEN "stored" ELSE "compressed",
     at |-> p + 1, payload |-> SubSeq(t, p + 1, Least(p + PayloadSize(t[p]), Len(t))),
     count |-> BlockSize(t[p]), hash |-> NoSize]

ZstdBlocks(t, from) ==
    LET blocks[p \in Nat \ {0}] ==
            IF p > Len(t) THEN <<>>
            ELSE <<ZstdBlockAt(t, p)>> \o (IF LastBlock(t[p]) THEN <<>> ELSE blocks[p + PayloadSize(t[p]) + 1])
    IN  blocks[from]

Lz4Header(t)  == IF t[1] # LZ4_MAGIC THEN 2
                 ELSE 5 + Flag(Lz4ContentSize(t[2])) + Flag(Lz4Dictionary(t[2]))

ZstdHeader(t) == 3 + Flag(~SingleSegment(t[2])) + Flag(ZstdDictionary(t[2]) # 0) + Flag(ZstdSizeField(t[2]))

FrameBlocks(t) ==
    CASE t[1] = ZSTANDARD_MAGIC  -> ZstdBlocks(t, ZstdHeader(t))
      [] t[1] = LZ4_LEGACY_MAGIC -> Lz4Blocks(t, 2, 0)
      [] t[1] = LZ4_MAGIC        -> Lz4Blocks(t, Lz4Header(t), Flag(Lz4BlockHashes(t[2])))
      [] OTHER                   -> Lz4Blocks(t, 2, 0)

ContentHash(blocks) == Hash(FlattenSeq([i \in DOMAIN blocks |-> blocks[i].payload]))

\* Where the frame ends: after its last block, the end mark and the hash.
FrameEnd(t) ==
    LET blocks == FrameBlocks(t)
        b      == Last(blocks)
        behind == IF blocks # <<>> THEN b.at + Len(b.payload) + Flag(b.hash # NoSize)
                  ELSE IF t[1] = ZSTANDARD_MAGIC THEN ZstdHeader(t) ELSE Lz4Header(t)
        hashed == \/ t[1] = ZSTANDARD_MAGIC /\ ZstdHash(t[2])
                  \/ t[1] = LZ4_MAGIC /\ Lz4ContentHash(t[2])
        marked == \/ t[1] \notin {LZ4_LEGACY_MAGIC, ZSTANDARD_MAGIC}
                  \/ t[1] = LZ4_LEGACY_MAGIC /\ behind <= Len(t)
    IN  behind - 1 + Flag(marked) + Flag(hashed)

HashToken(t) == t[FrameEnd(t)]

Known == {LZ4_MAGIC, LZ4_LEGACY_MAGIC, ZSTANDARD_MAGIC, STREAM_MAGIC} \cup BZip2Magics

\* The descriptor of an LZ4 frame carries its own hash.
HeaderSpoilt(t) ==
    /\ t[1] = LZ4_MAGIC
    /\ Lz4Header(t) - 1 <= Len(t) => t[Lz4Header(t) - 1] # Hash(SubSeq(t, 2, Lz4Header(t) - 2))

Panic == 99                  \* a payload token the decoder panics on

\* Units up to the first block that is rejected or fails its hash, and how the
\* decoder then ends.  ruzstd leaves the content hash to its caller.
DecodedBlocks(t, start) ==
    LET blocks  == FrameBlocks(t)
        Unhashed(b) == b.hash # NoSize /\ b.hash # Hash(b.payload)
        bad     == {i \in DOMAIN blocks : Rejected(blocks[i]) \/ Unhashed(blocks[i])}
        first   == IF bad = {} THEN Len(blocks) + 1 ELSE CHOOSE i \in bad : \A j \in bad : i <= j
    IN  [units |-> FlattenSeq([i \in 1..(first - 1) |-> BlockUnits(blocks[i], start)]),
         ends  |-> Least(FrameEnd(t), Len(t)),
         verdict |->
            IF bad # {} THEN IF Panic \in Range(blocks[first].payload) THEN "panics"
                             ELSE IF Rejected(blocks[first]) THEN "rejects" ELSE "checksum"
            ELSE IF FrameEnd(t) > Len(t) THEN "rejects"
            ELSE IF t[1] = LZ4_MAGIC /\ Lz4ContentHash(t[2]) /\ HashToken(t) # ContentHash(blocks)
            THEN "checksum" ELSE "end"]

Decoded(t, start) ==
    IF t = <<>> \/ t[1] \notin Known \/ (t[1] \in {LZ4_MAGIC, ZSTANDARD_MAGIC} /\ Len(t) < 2)
    THEN [units |-> <<>>, ends |-> 0, verdict |-> "rejects"]
    ELSE IF HeaderSpoilt(t) THEN [units |-> <<>>, ends |-> 0, verdict |-> "checksum"]
    ELSE DecodedBlocks(t, start)
=============================================================================
