-------------------------- MODULE CompressedStream --------------------------
(***************************************************************************)
(* CompressedStream over frames (stream/mod.rs, lz4.rs, zstandard.rs).     *)
(* Opening finds the format, walks the frames once without decoding them   *)
(* and keeps their ranges; extract_to then gives each range to a decoder   *)
(* of its own, through the loop of DecoderPump, and counts what it         *)
(* verified.                                                               *)
(***************************************************************************)
EXTENDS DecoderPump

VARIABLES
    format,               \* "none" until it is known
    cursor,               \* StreamCursor.position: tokens parsed
    total_frames,         \* data and skippable frames seen
    layout,               \* the data frames
    frame,                \* index of the frame being extracted
    frames_decoded, checksums_verified

streamVars == <<format, cursor, total_frames, layout, frame, frames_decoded, checksums_verified>>

StreamInit ==
    /\ pc = (IF job.kind = "stream" THEN "open" ELSE "coder")
    /\ format = "none" /\ cursor = 0 /\ total_frames = 0 /\ layout = <<>>
    /\ frame = 0 /\ frames_decoded = 0 /\ checksums_verified = 0

Input == job.tokens
Ahead(n) == IF cursor + n <= Len(Input) THEN Input[cursor + n] ELSE NoSize

-----------------------------------------------------------------------------
(***************************************************************************)
(* open_bytes_inner: the input's size is admitted and charged, chunk by    *)
(* chunk; a format that the caller does not name is found by its magic.    *)
(***************************************************************************)
ChargeInput ==
    /\ pc = "open"
    /\ IF Len(Input) > MaxTotalInput
       THEN Fail("LimitExceeded") /\ UNCHANGED <<budget, output, charged_input>>
       ELSE LET chunk == Least(ControlChunk, Len(Input) - charged_input)
            IN  \/ /\ Passed(chunk) /\ budget' = Charged(budget, chunk)
                   /\ charged_input' = charged_input + chunk
                   /\ pc' = IF charged_input' = Len(Input) THEN "detect" ELSE "open"
                   /\ UNCHANGED <<result, output>>
                \/ /\ ~Passed(chunk) /\ Fail(Checkpoint(cancelled, budget, chunk))
                   /\ UNCHANGED <<budget, output, charged_input>>
    /\ UNCHANGED <<job, cancelled, source, decoder, expected, consumed, produced, read, start_output,
                   retries>> /\ UNCHANGED streamVars

\* detect_format: skippable frames do not tell LZ4 from Zstandard.
Detected ==
    LET find[p \in Nat] ==
            IF p >= Len(Input) THEN "none"
            ELSE CASE Input[p + 1] \in {LZ4_MAGIC, LZ4_LEGACY_MAGIC} -> "lz4"
                   [] Input[p + 1] = ZSTANDARD_MAGIC                -> "zstandard"
                   [] Input[p + 1] = SKIPPABLE_MAGIC ->
                         IF p + 1 >= Len(Input) \/ p + 2 + Input[p + 2] > Len(Input) THEN "none"
                         ELSE find[p + 2 + Input[p + 2]]
                   [] OTHER -> "none"
    IN  IF Len(Input) > 0 /\ Input[1] = UNIX_MAGIC THEN "unix-compress" ELSE find[0]

DetectFormat ==
    /\ pc = "detect"
    /\ format' = (IF job.format = "auto" THEN Detected ELSE job.format)
    /\ CASE format' = "none"          -> Fail("Format")
         [] format' = "unix-compress" -> pc' = "header" /\ UNCHANGED result
         [] OTHER                     -> pc' = "frames" /\ UNCHANGED result
    /\ UNCHANGED <<job, cancelled, budget, output, cursor, total_frames, layout, frame,
                   frames_decoded, checksums_verified>> /\ UNCHANGED pumpVars

-----------------------------------------------------------------------------
(***************************************************************************)
(* lz4::parse and zstandard::parse, one step per frame.  Each returns the  *)
(* verdict on the frame at the cursor, and for a good one what is kept.    *)
(***************************************************************************)
Bad(error) == [verdict |-> error]

\* The blocks of a standard LZ4 frame, up to its end mark.
Lz4End(from, maximum, hashes) ==
    LET walk[p \in Nat \ {0}] ==
            IF p > Len(Input) THEN NoSize
            ELSE IF Input[p] = 0 THEN p
            ELSE LET size == Input[p] % StoredBlock
                 IN  IF size = 0 \/ size > maximum \/ p + size + hashes > Len(Input) THEN NoSize
                     ELSE walk[p + size + hashes + 1]
    IN  walk[from]

StandardFrame ==
    LET flags == Ahead(2)
        block == Ahead(3)
        size  == Flag(Lz4ContentSize(flags))
        from  == cursor + 5 + size + Flag(Lz4Dictionary(flags))    \* first block header
        maximum == Lz4BlockBytes[block \div 16 - 3]
        mark  == Lz4End(from, maximum, Flag(Lz4BlockHashes(flags)))
        end   == mark + Flag(Lz4ContentHash(flags))
    IN  IF flags = NoSize \/ block = NoSize \/ flags \div 64 # 1 \/ Bit(flags, 1) THEN Bad("Format")
        ELSE IF block % 16 # 0 \/ block \div 16 \notin 4..7 \/ from - 1 > Len(Input) THEN Bad("Format")
        ELSE IF Input[from - 1] # Hash(SubSeq(Input, cursor + 2, from - 2)) THEN Bad("Checksum")
        ELSE IF mark = NoSize \/ end > Len(Input) THEN Bad("Format")
        ELSE [verdict |-> "Ok", end |-> end, size |-> IF size = 1 THEN Ahead(4) ELSE NoSize,
              hashed |-> Lz4ContentHash(flags) \/ Lz4BlockHashes(flags),
              dictionary |-> Lz4Dictionary(flags), working |-> 10 * maximum]

\* A legacy frame has no descriptor and ends with the input, a zero size or
\* before the next magic.
LegacyEndMutant(from) ==          \* the next frame's magic is not looked for
    LET walk[p \in Nat \ {0}] ==
            IF p > Len(Input) THEN Len(Input)
            ELSE IF Input[p] = 0 THEN p
            ELSE IF Input[p] > LEGACY_BLOCK_BYTES \/ p + Input[p] > Len(Input) THEN NoSize
            ELSE walk[p + Input[p] + 1]
    IN  walk[from]

LegacyEnd(from) ==
    LET walk[p \in Nat \ {0}] ==
            IF p > Len(Input) THEN Len(Input)
            ELSE IF Input[p] \in Magics THEN p - 1
            ELSE IF Input[p] = 0 THEN p
            ELSE IF Input[p] > LEGACY_BLOCK_BYTES \/ p + Input[p] > Len(Input) THEN NoSize
            ELSE walk[p + Input[p] + 1]
    IN  walk[from]

LegacyFrame ==
    IF LegacyEnd(cursor + 2) = NoSize THEN Bad("Format")
    ELSE [verdict |-> "Ok", end |-> LegacyEnd(cursor + 2), size |-> NoSize, hashed |-> FALSE,
          dictionary |-> FALSE, working |-> 10 * LEGACY_BLOCK_BYTES]

\* parse_frame of zstandard.rs.
ZstdEnd(from, maximum) ==
    LET walk[p \in Nat \ {0}] ==
            IF p > Len(Input) \/ BlockSize(Input[p]) > maximum \/ BlockType(Input[p]) = 3 THEN NoSize
            ELSE LET last == p + PayloadSize(Input[p])
                 IN  IF last > Len(Input) THEN NoSize
                     ELSE IF LastBlock(Input[p]) THEN last ELSE walk[last + 1]
    IN  walk[from]

ZstandardFrame ==
    LET t      == SubSeq(Input, cursor + 1, Len(Input))
        window == ZstdWindow(t)
        last   == ZstdEnd(cursor + ZstdHeader(t), Least(window, MAXIMUM_BLOCK_BYTES))
        end    == last + Flag(ZstdHash(t[2]))
    IN  IF Len(t) < 2 \/ Bit(t[2], 3) \/ ZstdHeader(t) - 1 > Len(t) THEN Bad("Format")
        ELSE IF last = NoSize \/ end > Len(Input) THEN Bad("Format")
        ELSE IF window > MaxDictionary THEN Bad("LimitExceeded")
        ELSE [verdict |-> "Ok", end |-> end, size |-> ZstdSize(t), hashed |-> ZstdHash(t[2]),
              dictionary |-> ZstdDictionaryId(t) # 0, working |-> window]

SkippableFrame ==
    IF Ahead(2) = NoSize \/ cursor + 2 + Ahead(2) > Len(Input) THEN Bad("Format")
    ELSE [verdict |-> "Ok", end |-> cursor + 2 + Ahead(2)]

FrameAtCursor ==
    IF total_frames + 1 > MaxFrames THEN Bad("LimitExceeded")
    ELSE CASE Ahead(1) = SKIPPABLE_MAGIC                           -> SkippableFrame
           [] format = "lz4" /\ Ahead(1) = LZ4_MAGIC               -> StandardFrame
           [] format = "lz4" /\ Ahead(1) = LZ4_LEGACY_MAGIC        -> LegacyFrame
           [] format = "zstandard" /\ Ahead(1) = ZSTANDARD_MAGIC   -> ZstandardFrame
           [] OTHER                                                -> Bad("Format")

ParseFrame ==
    /\ pc = "frames" /\ cursor < Len(Input)
    /\ LET f == FrameAtCursor
       IN  \/ /\ f.verdict # "Ok" /\ Fail(f.verdict) /\ UNCHANGED <<cursor, total_frames, layout>>
           \/ /\ f.verdict = "Ok" /\ UNCHANGED <<pc, result>>
              /\ total_frames' = total_frames + 1 /\ cursor' = f.end
              /\ layout' = IF Ahead(1) = SKIPPABLE_MAGIC THEN layout
                           ELSE Append(layout, [start |-> cursor, end |-> f.end, size |-> f.size, hashed |-> f.hashed,
                                           dictionary |-> f.dictionary, working |-> f.working])
    /\ UNCHANGED <<job, cancelled, budget, output, format, frame, frames_decoded, checksums_verified>>
    /\ UNCHANGED pumpVars

\* The sum of the declared sizes, if every data frame declares one.
AggregateSize ==
    IF \E i \in DOMAIN layout : layout[i].size = NoSize THEN NoSize
    ELSE Sum([i \in DOMAIN layout |-> layout[i].size])

\* Every frame was found; the sizes they declare are admitted together.
OpenReturns ==
    /\ pc = "frames" /\ cursor = Len(Input)
    /\ CASE layout = <<>>            -> Fail("Format")
         [] AggregateSize > MaxEntryOutput \/ AggregateSize > MaxTotalOutput -> Fail("LimitExceeded")
         [] OTHER                    -> pc' = "extract" /\ UNCHANGED result
    /\ UNCHANGED <<job, cancelled, budget, output>> /\ UNCHANGED pumpVars /\ UNCHANGED streamVars

-----------------------------------------------------------------------------
(***************************************************************************)
(* Lz4Layout::extract and ZstandardLayout::extract, the head of the loop   *)
(* over the frames.                                                        *)
(***************************************************************************)
Frame == layout[frame + 1]
FrameTokensOf(f) == SubSeq(Input, f.start + 1, f.end)

BeginFrame ==
    /\ pc = "extract" /\ frame < Len(layout)
    /\ LET verdict == IF ~Passed(0) THEN Checkpoint(cancelled, budget, 0)
                      ELSE IF Frame.working > MaxDictionary THEN "LimitExceeded"
                      ELSE IF Frame.dictionary THEN "Unsupported" ELSE "Ok"
       IN  \/ verdict # "Ok" /\ Fail(verdict) /\ UNCHANGED pumpVars
           \/ /\ verdict = "Ok" /\ UNCHANGED result
              /\ pc' = IF format = "zstandard" THEN "construct" ELSE "pump"
              /\ BeginDecoding(FrameTokensOf(Frame), Frame.start, Frame.size)
    /\ UNCHANGED <<job, cancelled, budget, output>> /\ UNCHANGED streamVars

(***************************************************************************)
(* The frame's decoder is at its end: sizes and the input it took are      *)
(* compared with the layout, and for Zstandard the content hash, which     *)
(* ruzstd only reports.                                                    *)
(***************************************************************************)
FrameVerdict ==
    IF ~SizeMatches \/ consumed # charged_input \/ consumed # Len(source) THEN "Format"
    ELSE IF format = "zstandard" /\ Frame.hashed /\ HashToken(source) # ContentHash(FrameBlocks(source))
    THEN "Checksum" ELSE "Ok"

FinishFrame ==
    /\ pc = "ended" /\ Streaming
    /\ \/ FrameVerdict # "Ok" /\ Fail(FrameVerdict) /\ UNCHANGED <<frame, frames_decoded, checksums_verified>>
       \/ /\ FrameVerdict = "Ok" /\ pc' = "extract" /\ UNCHANGED result
          /\ frame' = frame + 1 /\ frames_decoded' = frames_decoded + 1
          /\ checksums_verified' = checksums_verified + Flag(Frame.hashed)
    /\ UNCHANGED <<job, cancelled, budget, output, format, cursor, total_frames, layout>>
    /\ UNCHANGED pumpVars

\* The rest of extract_to.
ExtractReturns ==
    /\ pc = "extract" /\ frame = Len(layout)
    /\ Fail(IF AggregateSize \notin {NoSize, Len(output)} THEN "Format" ELSE "Ok")
    /\ UNCHANGED <<job, cancelled, budget, output>> /\ UNCHANGED pumpVars /\ UNCHANGED streamVars

StreamStep ==
    \/ ChargeInput \/ DetectFormat \/ ParseFrame \/ OpenReturns
    \/ BeginFrame \/ FinishFrame \/ ExtractReturns
=============================================================================
