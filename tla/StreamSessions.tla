--------------------------- MODULE StreamSessions ---------------------------
(***************************************************************************)
(* The decoders that un7z drives but did not write, and its own LZW, under *)
(* one token and one budget: a session opens and extracts a standalone     *)
(* stream, or decodes one folder coder.  What a session owes is stated     *)
(* from the frames and texts that the inputs were written from.            *)
(***************************************************************************)
EXTENDS UnixCompress

vars == <<job, cancelled, budget, pc, result, output, pumpVars, streamVars, lzwVars>>

Init == PumpInit /\ StreamInit /\ LzwInit

Progress == \/ PumpStep /\ UNCHANGED streamVars /\ UNCHANGED lzwVars
            \/ StreamStep /\ UNCHANGED lzwVars
            \/ LzwStep

Cancel == /\ pc # "done" /\ CancelToken
          /\ UNCHANGED <<job, budget, pc, result, output>>
          /\ UNCHANGED pumpVars /\ UNCHANGED streamVars /\ UNCHANGED lzwVars

Retry == DecoderRetries /\ UNCHANGED streamVars /\ UNCHANGED lzwVars

Next == Progress \/ Cancel \/ Retry

Spec == Init /\ [][Next]_vars

\* The thread inside the call keeps running; nobody has to set the token, and
\* whether an interrupted decoder goes on or retries is its own choice.
FairSpec == Spec /\ WF_vars(Progress \/ Retry)

-----------------------------------------------------------------------------
Interrupted == cancelled \/ result \in {"none", "WorkUnits", "Io"}

UnitsOf(decoded) == [i \in DOMAIN decoded.units |-> decoded.units[i].unit]

(***************************************************************************)
(* A written stream is a sequence of frames: their tokens, whether each is *)
(* data, carries hashes, and can be decoded as it declares.                *)
(***************************************************************************)
DataFrames(d) == SelectSeq(d, LAMBDA f : f.data)

Contents(d) ==
    FlattenSeq([i \in DOMAIN d |->
        IF ~d[i].data THEN <<>>
        ELSE UnitsOf(Decoded(d[i].tokens, Sum([k \in 1..(i - 1) |-> Len(d[k].tokens)])))])

StreamIntact(d) ==
    /\ DataFrames(d) # <<>> /\ \A i \in DOMAIN d : d[i].fault = "none"
    /\ Len(d) <= MaxFrames /\ Len(Input) <= MaxTotalInput
    /\ Len(Contents(d)) <= Least(MaxEntryOutput, MaxTotalOutput)

(***************************************************************************)
(* CompressedStream: a stream that nothing interrupts is extracted exactly *)
(* when every frame of it is intact and all of them together stay within   *)
(* the limits; then the writer has the frames' contents in order and the   *)
(* totals count every data frame and every hash.  A checksum error names   *)
(* the first frame that is not intact.                                     *)
(***************************************************************************)
StreamVerdict ==
    \A d \in Range(job.frames) :
        /\ ~Interrupted => (result = "Ok" <=> StreamIntact(d))
        /\ result = "Ok" =>
              /\ output = Contents(d)
              /\ frames_decoded = Len(DataFrames(d))
              /\ checksums_verified = Len(SelectSeq(d, LAMBDA f : f.hashed))
        /\ result = "Checksum" =>
              IF cursor < Len(Input) THEN DataFrames(d)[Len(layout) + 1].fault = "Header"
              ELSE /\ DataFrames(d)[frame + 1].fault = "Checksum"
                   /\ \A i \in 1..frame : DataFrames(d)[i].fault = "none"

\* What the decoders make of the ranges that were opened, or of a coder's input.
Reference ==
    IF job.kind = "coder" THEN UnitsOf(Decoded(Payload, Len(job.tokens) - Len(Payload)))
    ELSE FlattenSeq([i \in DOMAIN layout |-> UnitsOf(Decoded(FrameTokensOf(layout[i]), layout[i].start))])

CoderIntact ==
    LET decoded == Decoded(Payload, 0)
    IN  /\ HeaderVerdict = "Ok" /\ decoded.verdict = "end"
        /\ job.expected \in {NoSize, Len(decoded.units)} /\ Len(decoded.units) <= job.maximum
        /\ job.method = "deflate" => decoded.ends = Len(Payload)

(***************************************************************************)
(* pump_reader, decode_reader and decode_deflate, whatever the input: the  *)
(* decoder's units are kept once each and in order, whatever the sizes of  *)
(* its reads, all of them before the call returns Ok; an uninterrupted     *)
(* coder returns Ok exactly when its stream ends, has the declared size    *)
(* and stays within the maximum.                                           *)
(***************************************************************************)
PumpedInOrder ==
    pc = "done" /\ format # "unix-compress" =>
        /\ IsPrefix(output, Reference)
        /\ result = "Ok" => output = Reference
        /\ job.kind = "coder" /\ ~Interrupted => (result = "Ok" <=> CoderIntact)

(***************************************************************************)
(* ExtractionControl: what the writer has is within both output limits,    *)
(* all frames together, and was paid for unit by unit, together with all   *)
(* the input it was made from.                                             *)
(***************************************************************************)
OutputPaidAndBounded ==
    /\ Streaming => Len(output) <= Least(MaxEntryOutput, MaxTotalOutput)
    /\ ~Streaming => Len(output) <= job.maximum
    /\ result = "Ok" =>
          budget.consumed >= Len(output)
                             + (IF format = "unix-compress" THEN LzwLength + DictionaryBytes
                                ELSE IF Streaming THEN Len(FlattenSeq([i \in DOMAIN layout |-> FrameTokensOf(layout[i])]))
                                ELSE consumed)
                             + (IF Streaming THEN Len(Input) ELSE 0)

-----------------------------------------------------------------------------
(***************************************************************************)
(* decode_lzw inverts compress for every width, mode and place of CLEAR.   *)
(* Of a stream that was cut off, whatever is returned is a beginning of    *)
(* the text.                                                               *)
(***************************************************************************)
LzwRoundTrip ==
    \A t \in Range(job.text) :
        /\ IsPrefix(output, t.text)
        /\ ~Interrupted => result \in {"Ok", "LimitExceeded"}
        /\ ~Interrupted /\ t.whole =>
              (result = "Ok" <=> /\ Len(t.text) <= Least(MaxEntryOutput, MaxTotalOutput)
                                 /\ 4 * 2^t.bits <= MaxDictionary)
        /\ result = "Ok" /\ t.whole => output = t.text

(***************************************************************************)
(* decode_lzw, whatever the codes: entries left over from before a CLEAR   *)
(* are never followed, a chain never meets an undefined code or a cycle,   *)
(* and the expansion stays within the memory admitted for it.              *)
(***************************************************************************)
LzwAccounted == result # Internal /\ Len(expansion) <= DictionaryEntries

-----------------------------------------------------------------------------
\* Every session ends if the token stays unset: no loop of the decoders, nor of
\* un7z around them, goes on without taking input.
SessionReturns == []~cancelled => <>(pc = "done")

\* docs/adr/0004: cancellation applies to every standalone operation.
CancelledSessionReturns == (job.kind = "stream" /\ cancelled) ~> (pc = "done")
=============================================================================
