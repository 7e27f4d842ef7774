----------------------------- MODULE LzmaStreams -----------------------------
(***************************************************************************)
(* decode_lzma and decode_lzma2 of lzma.rs: one step per operation of an   *)
(* LZMA stream and per chunk header of an LZMA2 stream.  A step's          *)
(* checkpoints are taken within it, so that work and errors come in the    *)
(* code's order.                                                           *)
(***************************************************************************)
EXTENDS LzmaDecoder

CONSTANTS
    Jobs,          \* the coders to run, see JobsAssumption
    Budgets,
    ControlChunk   \* CONTROL_CHUNK_SIZE

NoSize == -1       \* None

(***************************************************************************)
(* A job is one call of decode_coder: method, properties, the coder's      *)
(* inputs, the declared size or NoSize, and the limit on its output.       *)
(* written is <<>>, or <<w>> with what the inputs were encoded from.       *)
(***************************************************************************)
JobsAssumption ==
    \A j \in Jobs : /\ j.inputs \in Seq(Seq(Nat)) /\ j.properties \in Seq(Nat)
                    /\ j.expected \in Nat \cup {NoSize} /\ j.maximum \in Nat

ASSUME LzmaAssumption == JobsAssumption /\ Budgets \subseteq Budget /\ ControlChunk \in Nat \ {0}

VARIABLES
    job,
    cancelled,               \* the token
    budget,
    pc,                      \* "start", "chunk", "operation" or "done"
    result,                  \* "none" while the call runs
    output,                  \* Output::bytes
    dictionary_start,
    dictionary_size,
    lzma,                    \* LzmaState; <<>> for None
    range,                   \* RangeDecoder of the stream or chunk
    target,                  \* length at which the stream or chunk ends, or NoSize
    position,                \* of the SliceCursor over an LZMA2 stream
    needs_dictionary_reset,
    needs_properties

callVars == <<job, cancelled>>
lzmaVars == <<dictionary_start, dictionary_size, lzma, range, target, position,
              needs_dictionary_reset, needs_properties>>

Input == job.inputs[1]

LzmaInit ==
    /\ job \in Jobs /\ budget \in Budgets /\ cancelled = FALSE
    /\ pc = "start" /\ result = "none" /\ output = <<>>
    /\ dictionary_start = 0 /\ dictionary_size = 0 /\ lzma = <<>> /\ range = RangeDecoder(<<>>)
    /\ target = NoSize /\ position = 0
    /\ needs_dictionary_reset = TRUE /\ needs_properties = TRUE

\* Within one step: an error, the work charged, and what was read last.
Step == [fault |-> "none", work |-> 0, room |-> Headroom(budget), cancelled |-> cancelled,
         byte |-> 0, bit |-> 0, node |-> 1, value |-> 0, op |-> NoOperation]

\* A step ends: its work is charged, and an error ends the call.
Settle(d, next) ==
    /\ budget' = Charged(budget, d.work)
    /\ IF Failed(d) THEN pc' = "done" /\ result' = d.fault
       ELSE pc' = next.pc /\ result' = next.result

Going(p)  == [pc |-> p, result |-> "none"]
Finished  == [pc |-> "done", result |-> "Ok"]

-----------------------------------------------------------------------------
(***************************************************************************)
(* Output: what an operation adds.  d.op is what it came from; the new     *)
(* bytes are returned with the step's record.                              *)
(***************************************************************************)
EnsureAdditional(d, n) == IF Len(output) + n > job.maximum THEN Faulted(d, "LimitExceeded") ELSE d

Push(d) == Spend(EnsureAdditional(d, 1), 1)

\* Byte by byte, so a match may run into its own output.
Copied(out, distance, length) ==
    FoldLeft(LAMBDA o, i : Append(o, o[Len(o) - distance + 1]), out, Upto(length))

CopyMatch(d, distance, length) ==
    IF distance > dictionary_size \/ distance > Len(output) - dictionary_start
    THEN Faulted(d, "Format")
    ELSE SpendBy(EnsureAdditional(d, length), length, 1)

\* extend_uncompressed: the limit first, then the work.
ExtendUncompressed(d, n) == SpendBy(EnsureAdditional(d, n), n, ControlChunk)

PastTarget(length) == target # NoSize /\ Len(output) + length > target

\* Operation::End: the range coder must be at rest and out of input.
AtEnd(d) ==
    IF d.code # 0 \/ d.at # Len(d.input) \/ (target # NoSize /\ Len(output) # target)
    THEN Faulted(d, "Format") ELSE d

\* What the operation does to the output, and the call's next place.
Applied(d) ==
    CASE Failed(d) -> d
      [] ~Failed(d) /\ d.op.kind = "literal" -> Push(d)
      [] ~Failed(d) /\ d.op.kind = "match" ->
            IF PastTarget(d.op.length) THEN Faulted(d, "Format")
            ELSE CopyMatch(d, d.op.distance, d.op.length)
      [] OTHER -> AtEnd(d)

Extended(d) ==
    CASE d.op.kind = "literal" -> Append(output, d.op.byte)
      [] d.op.kind = "match" -> Copied(output, d.op.distance, d.op.length)
      [] OTHER -> output

-----------------------------------------------------------------------------
\* Where a stream that has reached its target goes on.
StreamOk == IF job.method = "lzma" THEN Finished ELSE Going("chunk")

(***************************************************************************)
(* One turn of the loop of decode_stream.                                  *)
(***************************************************************************)
Merged == lzma @@ range @@ Step

LzmaOperation ==
    /\ pc = "operation" /\ Len(output) # target
    /\ \E d \in {Applied(DecodeOperation(Merged, output))} :
           /\ Settle(d, IF d.op.kind = "end" THEN StreamOk ELSE Going("operation"))
           /\ lzma' = [f \in DOMAIN lzma |-> d[f]]
           /\ range' = [f \in DOMAIN range |-> d[f]]
           /\ output' = IF Failed(d) THEN output ELSE Extended(d)
    /\ UNCHANGED <<dictionary_start, dictionary_size, target, position, needs_dictionary_reset, needs_properties>>
    /\ UNCHANGED callVars

\* LZMA2 also compares the total with the declared size after every chunk.
TargetReached ==
    /\ pc = "operation" /\ Len(output) = target
    /\ Settle(IF job.method = "lzma2" /\ job.expected # NoSize /\ Len(output) > job.expected
              THEN Faulted(Step, "Format") ELSE Step, StreamOk)
    /\ UNCHANGED output /\ UNCHANGED lzmaVars /\ UNCHANGED callVars

\* decode_stream up to its loop: the target is admitted and the range opened.
OpenStream(d, state, bytes, end) ==
    OpenRange(state @@ RangeDecoder(bytes)
              @@ (IF end # NoSize /\ end > job.maximum THEN Faulted(d, "LimitExceeded") ELSE d))

-----------------------------------------------------------------------------
Require(d, condition) == IF condition THEN d ELSE Faulted(d, "Format")

\* Output::new admits the declared size before anything is read.
Admitted(d) == IF job.expected > job.maximum THEN Faulted(d, "LimitExceeded") ELSE d

(***************************************************************************)
(* decode_lzma: the property byte and the dictionary size.                 *)
(***************************************************************************)
LzmaPropertiesValid == Len(job.properties) = 2 /\ PropertiesValid(job.properties[1])

StartState == IF LzmaPropertiesValid THEN PropertiesFromByte(job.properties[1]) ELSE LzmaState(0, 0, 0)

StartLzma ==
    /\ pc = "start" /\ job.method = "lzma"
    /\ \E d \in {OpenStream(Admitted(Require(Step, LzmaPropertiesValid)), StartState, Input, job.expected)} :
           /\ Settle(d, Going("operation"))
           /\ lzma' = StartState /\ range' = [f \in DOMAIN range |-> d[f]]
    /\ dictionary_size' = IF LzmaPropertiesValid /\ job.properties[2] > 0 THEN job.properties[2] ELSE 1
    /\ target' = job.expected
    /\ UNCHANGED <<output, dictionary_start, position, needs_dictionary_reset, needs_properties>>
    /\ UNCHANGED callVars

(***************************************************************************)
(* decode_lzma2: the dictionary property, of which 40 is the greatest; the *)
(* sizes are scaled.                                                       *)
(***************************************************************************)
LZMA2_PROPERTY_MAX == 6

Lzma2Dictionary(property) == (2 + (property % 2)) * 2^(property \div 2)

Lzma2PropertiesValid == Len(job.properties) = 1 /\ job.properties[1] <= LZMA2_PROPERTY_MAX

StartLzma2 ==
    /\ pc = "start" /\ job.method = "lzma2"
    /\ Settle(Admitted(Require(Step, Lzma2PropertiesValid)), Going("chunk"))
    /\ dictionary_size' = IF Lzma2PropertiesValid THEN Lzma2Dictionary(job.properties[1]) ELSE 1
    /\ UNCHANGED <<output, dictionary_start, lzma, range, target, position,
                   needs_dictionary_reset, needs_properties>>
    /\ UNCHANGED callVars

-----------------------------------------------------------------------------
(***************************************************************************)
(* The chunks of LZMA2.  s is the SliceCursor with the step's record; a    *)
(* size has two bytes, the greater first, and counts from one.             *)
(***************************************************************************)
Cursor == [input |-> Input, at |-> position] @@ Step

SizeFrom(high, low) == [low EXCEPT !.value = high * Byte + low.byte + 1]
SizeAfter(s) == SizeFrom(s.byte, ReadByte(s))
ReadSize(s) == SizeAfter(ReadByte(s))

\* read_bytes: all of them, or the stream is truncated.
Advanced(s, n) == IF Failed(s) THEN s ELSE [s EXCEPT !.at = @ + n]
ReadBytes(s, n) == Advanced(SpendBy(Require(s, s.at + n <= Len(s.input)), n, ControlChunk), n)

ResetsDictionary(control) == control >= 224 \/ control = 1
NeedsProperties(control)  == needs_properties \/ ResetsDictionary(control)

\* The control byte, and the rule that the first chunk resets the dictionary.
Opened(s) == Require(s, Failed(s) \/ s.byte = 0 \/ ~needs_dictionary_reset \/ ResetsDictionary(s.byte))
Control == ReadByte(Spend(Cursor, 1))

ResetDictionary(control) ==
    /\ dictionary_start' = IF ResetsDictionary(control) THEN Len(output) ELSE dictionary_start
    /\ needs_dictionary_reset' = (needs_dictionary_reset /\ ~ResetsDictionary(control))

\* Control byte zero, or none at all.
Lzma2End ==
    /\ pc = "chunk"
    /\ \E s \in {Control} :
           /\ Failed(s) \/ s.byte = 0
           /\ Settle(Require(s, s.at = Len(Input) /\ job.expected \in {NoSize, Len(output)}), Finished)
    /\ UNCHANGED output /\ UNCHANGED lzmaVars /\ UNCHANGED callVars

(***************************************************************************)
(* 128..255: the sizes; from 192 on properties, from 160 on a new state;   *)
(* then the packed bytes, in which a stream is opened.                     *)
(***************************************************************************)
ValidProperties(s) == Require(s, Failed(s) \/ PropertiesValid(s.byte))

ChunkProperties(s, control) ==
    IF control >= 192 THEN ValidProperties(ReadByte(s)) ELSE Require(s, ~NeedsProperties(control))

ChunkState(s, control) ==
    IF Failed(s) THEN LzmaState(0, 0, 0)
    ELSE IF control >= 192 THEN PropertiesFromByte(s.byte)
    ELSE IF control >= 160 THEN LzmaState(lzma.lc, lzma.lp, lzma.pb)
    ELSE lzma

CompressedChunk ==
    /\ pc = "chunk"
    /\ \E s \in {Opened(Control)} :
       LET control == Input[position + 1] IN
           /\ s.at > position /\ control >= 128
           /\ \E unpacked \in {ReadSize(s)} :
              \E packed \in {ReadSize(unpacked)} :
              \E header \in {ChunkProperties(packed, control)} :
              \E body \in {ReadBytes(header, packed.value)} :
              LET state == ChunkState(header, control)
                  end   == Len(output) + (control % 32) * Byte^2 + unpacked.value
              IN  \E d \in {OpenStream(body, state, SubSeq(Input, header.at + 1, body.at), end)} :
                      /\ Settle(d, Going("operation"))
                      /\ lzma' = state /\ range' = [f \in DOMAIN range |-> d[f]]
                      /\ target' = end /\ position' = body.at
           /\ needs_properties' = (NeedsProperties(control) /\ control < 192)
           /\ ResetDictionary(control)
    /\ UNCHANGED <<output, dictionary_size>> /\ UNCHANGED callVars

\* 1 and 2: the bytes themselves, charged when read and again when put out.
UncompressedChunk ==
    /\ pc = "chunk"
    /\ \E s \in {Opened(Control)} :
       LET control == Input[position + 1] IN
           /\ s.at > position /\ control \in {1, 2}
           /\ \E size \in {ReadSize(s)} :
              \E body \in {ReadBytes(size, size.value)} :
              \E put \in {ExtendUncompressed(body, size.value)} :
              \E d \in {Require(put, job.expected = NoSize \/ Len(output) + size.value <= job.expected)} :
                  /\ Settle(d, Going("chunk"))
                  /\ position' = body.at
                  /\ output' = IF Failed(d) THEN output ELSE output \o SubSeq(Input, size.at + 1, body.at)
           /\ needs_properties' = NeedsProperties(control)
           /\ ResetDictionary(control)
    /\ UNCHANGED <<dictionary_size, lzma, range, target>> /\ UNCHANGED callVars

ReservedControl ==
    /\ pc = "chunk"
    /\ \E s \in {Control} :
           /\ ~Failed(s) /\ s.byte \in 3..127
           /\ Settle(Faulted(s, "Format"), Finished)
    /\ UNCHANGED output /\ UNCHANGED lzmaVars /\ UNCHANGED callVars

LzmaStep == \/ StartLzma \/ StartLzma2 \/ LzmaOperation \/ TargetReached
            \/ Lzma2End \/ CompressedChunk \/ UncompressedChunk \/ ReservedControl
=============================================================================
