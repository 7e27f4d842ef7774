----------------------------- MODULE DecoderPump -----------------------------
(***************************************************************************)
(* How un7z runs a decoder it does not own: the loop of pump_reader        *)
(* (stream/mod.rs), which writes a standalone frame to the caller's        *)
(* writer, and of decode_reader and decode_deflate (codecs.rs), which      *)
(* collect a folder coder's output.  The decoder pulls its input through   *)
(* ControlledInput, which consults the token; between two reads the loop   *)
(* charges what the decoder took and gave.                                 *)
(*                                                                         *)
(* ControlledInput reports a set token as io::ErrorKind::Interrupted.  By  *)
(* the contract of std::io::Read such an error may be retried, and         *)
(* Read::read_exact, which the frame decoders use, always retries it.      *)
(***************************************************************************)
EXTENDS OperationControl, FrameTokens

CONSTANTS
    Jobs,             \* the calls to make, see JobsAssumption
    Budgets,
    ControlChunk,     \* CONTROL_CHUNK_SIZE
    MaxTotalInput, MaxEntryOutput, MaxTotalOutput, MaxDictionary, MaxFrames

(***************************************************************************)
(* A job is one call: of a CompressedStream, opened and extracted, or of a *)
(* folder coder.  declared is what the input was written from, if anything *)
(* wrote it.                                                               *)
(***************************************************************************)
Methods == {"deflate", "bzip2", "brotli", "lz4", "zstd"}

ASSUME PumpAssumption ==
    /\ \A j \in Jobs : /\ j.kind \in {"stream", "coder"}
                       /\ j.tokens \in Seq(Nat)
                       /\ j.expected \in Nat \cup {NoSize} /\ j.maximum \in Nat
    /\ Budgets \subseteq Budget
    /\ ControlChunk \in Nat \ {0}
    /\ {MaxTotalInput, MaxEntryOutput, MaxTotalOutput, MaxDictionary, MaxFrames} \subseteq Nat

VARIABLES
    job,
    cancelled,        \* the shared token
    budget,
    pc,
    result,           \* "none" while the call runs
    source,           \* tokens the decoder may read
    decoder,          \* external: what it makes of them
    expected,         \* size the decoder's output must have, or NoSize
    consumed,         \* Cell<usize>: tokens the decoder has read
    charged_input,
    produced,         \* units the decoder has returned
    read,             \* units its last read returned
    output,           \* what the writer accepted or the vector holds
    start_output,     \* its length when the frame began
    retries           \* reads again after an interruption: 0, then 1 and 2 in turn

pumpVars == <<source, decoder, expected, consumed, charged_input, produced, read, start_output, retries>>

PumpInit ==
    /\ job \in Jobs /\ budget \in Budgets /\ cancelled \in BOOLEAN
    /\ result = "none" /\ output = <<>>
    /\ source = <<>> /\ decoder = Decoded(<<>>, 0) /\ expected = NoSize
    /\ consumed = 0 /\ charged_input = 0 /\ produced = 0 /\ read = 0 /\ start_output = 0
    /\ retries = 0

Fail(error) == result' = error /\ pc' = "done"

Passed(units) == Checkpoint(cancelled, budget, units) = "Ok"

\* checkpoint(units)?: the step Then is taken after it, or the call fails.
AtCheckpoint(units, Then) ==
    \/ /\ Passed(units) /\ budget' = Charged(budget, units) /\ Then
    \/ /\ ~Passed(units) /\ Fail(Checkpoint(cancelled, budget, units))
       /\ UNCHANGED <<budget, output>> /\ UNCHANGED pumpVars

CancelToken == ~cancelled /\ cancelled' = TRUE

Streaming == job.kind = "stream"
Controlled == job.kind = "stream" \/ job.method # "deflate"   \* reads through ControlledInput

\* decode_reader admits the declared size before it reads.
TooLarge == ~Streaming /\ job.expected # NoSize /\ job.expected > job.maximum

\* A decoder is made for a frame or a coder's input.
BeginDecoding(tokens, at, size) ==
    /\ source' = tokens /\ decoder' = Decoded(tokens, at) /\ expected' = size
    /\ consumed' = 0 /\ charged_input' = 0 /\ produced' = 0 /\ read' = 0
    /\ start_output' = Len(output) /\ retries' = 0

-----------------------------------------------------------------------------
(***************************************************************************)
(* The head of the loop: checkpoint(0).                                    *)
(***************************************************************************)
PumpHead ==
    /\ pc = "pump"
    /\ AtCheckpoint(0, pc' = "decode" /\ UNCHANGED <<result, output>> /\ UNCHANGED pumpVars)
    /\ UNCHANGED <<job, cancelled>>

(***************************************************************************)
(* reader.read(&mut buffer), the token not set when the decoder pulls      *)
(* input: it returns up to a buffer of units, having read what they need   *)
(* or further; at the end it returns nothing, or fails.                    *)
(***************************************************************************)
Returns(n, upto) ==
    /\ read' = n /\ produced' = produced + n /\ consumed' = Greatest(consumed, upto)
    /\ pc' = "charge" /\ UNCHANGED result

DecoderGives ==
    \E n \in 1..Least(ControlChunk, Len(decoder.units) - produced) :
        \E upto \in {decoder.units[produced + n].needs, Len(source)} : Returns(n, upto)

DecoderEnds ==
    /\ produced = Len(decoder.units)
    /\ decoder.verdict = "end" \/ (~Controlled /\ decoder.verdict # "panics")
    /\ \E upto \in {decoder.ends, Len(source)} : Returns(0, upto)

DecoderFails ==
    /\ produced = Len(decoder.units) /\ decoder.verdict # "end"
    /\ Controlled \/ decoder.verdict = "panics"
    /\ pc' = "failed" /\ UNCHANGED <<result, consumed, produced, read>>

DecoderReads ==
    /\ pc = "decode" /\ (Controlled => ~cancelled)
    /\ DecoderGives \/ DecoderEnds \/ DecoderFails
    /\ UNCHANGED <<job, cancelled, budget, source, decoder, expected, charged_input, output,
                   start_output, retries>>

\* What the loop makes of the decoder's error: a token set meanwhile comes
\* first, except that pump_reader and decode_deflate do not look at it after a
\* panic.
ErrorOf(verdict) ==
    IF (Streaming \/ ~Controlled) /\ verdict = "panics" THEN "Format"
    ELSE IF cancelled THEN "Cancelled"
    ELSE IF Streaming /\ verdict = "checksum" THEN "Checksum" ELSE "Format"

DecoderError ==
    /\ pc = "failed" /\ Fail(ErrorOf(decoder.verdict))
    /\ UNCHANGED <<job, cancelled, budget, output>> /\ UNCHANGED pumpVars

(***************************************************************************)
(* The token is set while the decoder pulls input.  It may have all it     *)
(* needs for some output, give up, or read again, and again.  ruzstd's     *)
(* constructor already reads the header, and an error there is taken for a *)
(* bad header.                                                             *)
(***************************************************************************)
ConstructDecoder ==
    /\ pc = "construct" /\ ~cancelled
    /\ IF TooLarge THEN Fail("LimitExceeded") ELSE pc' = "pump" /\ UNCHANGED result
    /\ consumed' = Least(ZstdHeader(source) - 1, Len(source))
    /\ UNCHANGED <<job, cancelled, budget, output, source, decoder, expected, charged_input,
                   produced, read, start_output, retries>>

DecoderHasOutput ==
    /\ pc = "decode" /\ Controlled /\ cancelled /\ retries = 0
    /\ \E n \in 1..Least(ControlChunk, Len(decoder.units) - produced) :
          /\ decoder.units[produced + n].needs <= consumed
          /\ Returns(n, consumed)
    /\ UNCHANGED <<job, cancelled, budget, source, decoder, expected, charged_input, output,
                   start_output, retries>>

DecoderGivesUp ==
    /\ pc \in {"construct", "decode"} /\ Controlled /\ cancelled /\ retries = 0
    /\ Fail(IF pc = "decode" THEN "Cancelled" ELSE "Format")
    /\ UNCHANGED <<job, cancelled, budget, output>> /\ UNCHANGED pumpVars

DecoderRetries ==
    /\ pc \in {"construct", "decode"} /\ Controlled /\ cancelled
    /\ retries' = IF retries = 1 THEN 2 ELSE 1
    /\ UNCHANGED <<job, cancelled, budget, pc, result, output, source, decoder, expected, consumed,
                   charged_input, produced, read, start_output>>

(***************************************************************************)
(* The work of one read: the input it took, the output it gave, and one.   *)
(***************************************************************************)
Work == (consumed - charged_input) + read + 1

ChargeReadMutant ==            \* a read of nothing is neither the end nor charged for
    /\ pc = "charge"
    /\ AtCheckpoint((consumed - charged_input) + read,
           /\ charged_input' = consumed /\ pc' = "accept"
           /\ UNCHANGED <<result, output, source, decoder, expected, consumed, produced, read,
                          start_output, retries>>)
    /\ UNCHANGED <<job, cancelled>>

ChargeRead ==
    /\ pc = "charge"
    /\ AtCheckpoint(Work,
           /\ charged_input' = consumed
           /\ pc' = IF read = 0 /\ (Streaming \/ Controlled) THEN "ended" ELSE "accept"
           /\ UNCHANGED <<result, output, source, decoder, expected, consumed, produced, read,
                          start_output, retries>>)
    /\ UNCHANGED <<job, cancelled>>

-----------------------------------------------------------------------------
(***************************************************************************)
(* write_output (streams) and append_output (coders).  A stream's size is  *)
(* compared with the declaration after the bytes were written, a coder's   *)
(* before.  The writer may fail.                                           *)
(***************************************************************************)
Chunk == [i \in 1..read |-> decoder.units[produced - read + i].unit]

FrameOutput == Len(output) + read - start_output

WriteVerdictMutant(length) ==     \* the frame's output instead of all frames'
    IF FrameOutput > MaxEntryOutput \/ FrameOutput > MaxTotalOutput THEN "LimitExceeded" ELSE "Ok"

WriteVerdict(length) ==
    IF length > MaxEntryOutput \/ length > MaxTotalOutput THEN "LimitExceeded" ELSE "Ok"

WriteOutput ==
    /\ pc = "accept" /\ Streaming
    /\ LET verdict == IF cancelled THEN "Cancelled" ELSE WriteVerdict(Len(output) + read)
       IN  \/ /\ verdict # "Ok" /\ Fail(verdict) /\ UNCHANGED output
           \/ /\ verdict = "Ok" /\ Fail("Io") /\ UNCHANGED output
           \/ /\ verdict = "Ok" /\ output' = output \o Chunk
              /\ IF expected # NoSize /\ FrameOutput > expected THEN Fail("Format")
                 ELSE pc' = "pump" /\ UNCHANGED result
    /\ UNCHANGED <<job, cancelled, budget>> /\ UNCHANGED pumpVars

AppendVerdict(length) ==
    IF expected # NoSize /\ length > expected THEN "Format"
    ELSE IF length > job.maximum THEN "LimitExceeded" ELSE "Ok"

\* Of Deflate the status is judged after the output: its end may come with the
\* last of it, or with a read of nothing.
AfterOutput ==
    IF read = 0 THEN {"ended"}
    ELSE {"pump"} \cup (IF ~Controlled /\ produced = Len(decoder.units) /\ consumed >= decoder.ends
                        THEN {"ended"} ELSE {})

AppendOutput ==
    /\ pc = "accept" /\ ~Streaming
    /\ LET verdict == AppendVerdict(Len(output) + read)
       IN  \/ /\ verdict # "Ok" /\ Fail(verdict) /\ UNCHANGED output
           \/ /\ verdict = "Ok" /\ output' = output \o Chunk
              /\ pc' \in AfterOutput /\ UNCHANGED result
    /\ UNCHANGED <<job, cancelled, budget>> /\ UNCHANGED pumpVars

\* Deflate's stream ended before its input did.
TrailingMutant == FALSE       \* what follows the stream is ignored

Trailing == ~Controlled /\ decoder.ends # Len(source)

SizeMatches == expected = NoSize \/ Len(output) - start_output = expected

\* After the loop of a coder: its output is returned.
CoderEnds ==
    /\ pc = "ended" /\ ~Streaming
    /\ Fail(IF decoder.verdict # "end" \/ Trailing \/ ~SizeMatches THEN "Format" ELSE "Ok")
    /\ UNCHANGED <<job, cancelled, budget, output>> /\ UNCHANGED pumpVars

-----------------------------------------------------------------------------
(***************************************************************************)
(* decode_deflate, decode_bzip2, decode_brotli, decode_lz4 and decode_zstd *)
(* up to their loop: the header is examined, the decoder's memory and the  *)
(* declared size are admitted.                                             *)
(***************************************************************************)
Working ==
    CASE job.method = "deflate" -> 1
      [] job.method = "bzip2"   -> 10 * (job.tokens[1] - 210)     \* by the block size's digit
      [] job.method = "brotli"  -> 60
      [] job.method = "lz4"     -> 60

\* brotli_payload: a skippable frame may precede the stream.
Payload ==
    IF job.method = "brotli" /\ Len(job.tokens) > 1 /\ job.tokens[1] = SKIPPABLE_MAGIC
    THEN SubSeq(job.tokens, 3, Len(job.tokens)) ELSE job.tokens

\* zstd_window_bytes.
ZstdSize(t) ==
    IF ~ZstdSizeField(t[2]) THEN NoSize
    ELSE t[ZstdHeader(t) - 1] + (IF t[2] \div 64 = 1 THEN ContentBias ELSE 0)

WindowBytes(w) == LET base == 2^(w \div 8) IN base + (base \div 8) * (w % 8)

ZstdWindow(t) == IF SingleSegment(t[2]) THEN ZstdSize(t) ELSE WindowBytes(t[3])

ZstdDictionaryId(t) ==
    LET at == 3 + Flag(~SingleSegment(t[2]))
    IN  IF ZstdDictionary(t[2]) = 0 \/ at > Len(t) THEN 0 ELSE t[at]

ZstdVerdict(t) ==
    IF Len(t) < 2 \/ t[1] # ZSTANDARD_MAGIC THEN "Format"
    ELSE IF Bit(t[2], 3) \/ Bit(t[2], 4) THEN "Format"
    ELSE IF ZstdDictionaryId(t) # 0 THEN "Unsupported"
    ELSE IF ZstdHeader(t) > Len(t) + 1 THEN "Format"
    ELSE IF job.expected # NoSize /\ ZstdSize(t) # NoSize /\ ZstdSize(t) # job.expected THEN "Format"
    ELSE IF ZstdWindow(t) > MaxDictionary THEN "LimitExceeded" ELSE "Ok"

HeaderVerdict ==
    CASE job.method = "zstd" -> ZstdVerdict(job.tokens)
      [] job.method = "lz4" /\ (Len(job.tokens) < 5 \/ job.tokens[1] # LZ4_MAGIC) -> "Format"
      [] job.method = "bzip2" /\ (job.tokens = <<>> \/ job.tokens[1] \notin BZip2Magics) -> "Format"
      [] OTHER -> IF Working > MaxDictionary THEN "LimitExceeded" ELSE "Ok"

StartCoder ==
    /\ pc = "coder"
    /\ LET verdict == IF HeaderVerdict # "Ok" THEN HeaderVerdict
                      ELSE IF TooLarge /\ job.method # "zstd" THEN "LimitExceeded"
                      ELSE "Ok"
       IN  \/ verdict # "Ok" /\ Fail(verdict) /\ UNCHANGED pumpVars
           \/ /\ verdict = "Ok" /\ UNCHANGED result
              /\ pc' = IF job.method = "zstd" THEN "construct" ELSE "pump"
              /\ BeginDecoding(Payload, Len(job.tokens) - Len(Payload), job.expected)
    /\ UNCHANGED <<job, cancelled, budget, output>>

PumpStep ==
    \/ PumpHead \/ ConstructDecoder \/ DecoderReads \/ DecoderError \/ DecoderHasOutput \/ DecoderGivesUp
    \/ ChargeRead \/ WriteOutput \/ AppendOutput \/ CoderEnds \/ StartCoder
=============================================================================
