---------------------------- MODULE UnixCompress ----------------------------
(***************************************************************************)
(* Unix compress (stream/unix_compress.rs): the header, and decode_lzw     *)
(* with its code reader, step by step.  ByteBits scales the format down: a *)
(* byte has that many bits, a group of codes is as many bytes as a code    *)
(* has bits and so holds ByteBits codes, and codes start one bit wider     *)
(* than a byte.                                                            *)
(***************************************************************************)
EXTENDS CompressedStream

CONSTANT ByteBits                          \* 8

ASSUME LzwAssumption == ByteBits \in Nat \ {0}

VARIABLES
    maximum_code_bits, block_mode,         \* UnixCompressLayout
    code_bits, next_code, previous_code, first_character,
    prefixes, suffixes,                    \* the dictionary
    reader,                                \* CodeReader
    force_refill,
    code, expansion                        \* the chain being walked and its bytes

lzwVars == <<maximum_code_bits, block_mode, code_bits, next_code, previous_code, first_character,
             prefixes, suffixes, reader, force_refill, code, expansion>>

Literals            == 2^ByteBits
INITIAL_CODE_BITS   == ByteBits + 1
MAXIMUM_CODE_BITS   == 2 * ByteBits
CLEAR_CODE          == Literals
FIRST_BLOCK_CODE    == Literals + 1
FIRST_PLAIN_CODE    == Literals
BLOCK_MODE_FLAG     == 5                   \* bits of the flags byte
RESERVED_FLAG       == 4
NoCode              == -1                  \* previous_code is None
Internal            == "Inconsistent"      \* errors the decoder declares but never meets

NewReader == [position |-> 0, group_start |-> 0, group_length |-> 0, bit_offset |-> 0, valid_bits |-> 0]

LzwInit ==
    /\ maximum_code_bits = INITIAL_CODE_BITS /\ block_mode = FALSE
    /\ code_bits = INITIAL_CODE_BITS /\ next_code = 0 /\ previous_code = NoCode /\ first_character = 0
    /\ prefixes = <<>> /\ suffixes = <<>> /\ reader = NewReader /\ force_refill = FALSE
    /\ code = 0 /\ expansion = <<>>

DictionaryEntries == 2^maximum_code_bits
DictionaryBytes   == 4 * DictionaryEntries      \* a prefix, a suffix and a place in the expansion
LzwByte(i)        == Input[2 + i]                \* behind magic and flags
LzwLength         == Len(Input) - 2

\* The operation's other state.
Elsewhere == <<job, format, cursor, total_frames, layout, frame, checksums_verified, source, decoder,
               expected, consumed, produced, read, start_output, retries>>

\* checkpoint(units)? of the decoder.
LzwCheckpoint(units, Then) ==
    \/ Passed(units) /\ budget' = Charged(budget, units) /\ Then
    \/ /\ ~Passed(units) /\ Fail(Checkpoint(cancelled, budget, units))
       /\ UNCHANGED <<budget, output, charged_input, frames_decoded>> /\ UNCHANGED lzwVars

-----------------------------------------------------------------------------
\* parse: the flags byte is all the header has.
HeaderError ==
    LET flags == Input[2]
        bits  == flags % 16
    IN  IF Len(Input) < 2 \/ Input[1] # UNIX_MAGIC THEN "Format"
        ELSE IF MaxFrames < 1 THEN "LimitExceeded"
        ELSE IF Bit(flags, RESERVED_FLAG) \/ bits \notin INITIAL_CODE_BITS..MAXIMUM_CODE_BITS THEN "Format"
        ELSE IF 4 * 2^bits > MaxDictionary THEN "LimitExceeded" ELSE "Ok"

ParseHeader ==
    /\ pc = "header"
    /\ \/ HeaderError # "Ok" /\ Fail(HeaderError) /\ UNCHANGED <<maximum_code_bits, block_mode>>
       \/ /\ HeaderError = "Ok" /\ pc' = "memory" /\ UNCHANGED result
          /\ maximum_code_bits' = Input[2] % 16 /\ block_mode' = Bit(Input[2], BLOCK_MODE_FLAG)
    /\ UNCHANGED Elsewhere
    /\ UNCHANGED <<cancelled, budget, output, charged_input, frames_decoded, code_bits, next_code,
                   previous_code, first_character, prefixes, suffixes, reader, force_refill, code, expansion>>

\* extract: the dictionary is paid for before it is allocated.
AllocateDictionary ==
    /\ pc = "memory"
    /\ LzwCheckpoint(DictionaryBytes,
           /\ prefixes' = [c \in 0..(DictionaryEntries - 1) |-> 0]
           /\ suffixes' = [c \in 0..(DictionaryEntries - 1) |-> IF c < Literals THEN c ELSE 0]
           /\ next_code' = (IF block_mode THEN FIRST_BLOCK_CODE ELSE FIRST_PLAIN_CODE)
           /\ charged_input' = 0 /\ pc' = "prepay"
           /\ UNCHANGED <<result, output, frames_decoded, maximum_code_bits, block_mode, code_bits,
                          previous_code, first_character, reader, force_refill, code, expansion>>)
    /\ UNCHANGED cancelled /\ UNCHANGED Elsewhere

\* and so is the input, chunk by chunk.
PrepayInput ==
    /\ pc = "prepay"
    /\ IF charged_input = LzwLength
       THEN pc' = "code" /\ UNCHANGED <<budget, result, output, charged_input, frames_decoded>> /\ UNCHANGED lzwVars
       ELSE LET chunk == Least(ControlChunk, LzwLength - charged_input)
            IN  LzwCheckpoint(chunk, /\ charged_input' = charged_input + chunk
                                     /\ UNCHANGED <<pc, result, output, frames_decoded>> /\ UNCHANGED lzwVars)
    /\ UNCHANGED cancelled /\ UNCHANGED Elsewhere

-----------------------------------------------------------------------------
(***************************************************************************)
(* CodeReader::next_code.  A group is as many bytes as the code has bits;  *)
(* a change of width or a CLEAR drops what is left of the group.           *)
(***************************************************************************)
MaximumCode(width) == IF width = maximum_code_bits THEN 2^width ELSE 2^width - 1

Refilled(width) ==
    LET length == Least(LzwLength - reader.position, width)
        codes  == (length * ByteBits) \div width
    IN  [position |-> reader.position + length, group_start |-> reader.position,
         group_length |-> length, bit_offset |-> 0, valid_bits |-> codes * width]

NeedsRefill(refill) == refill \/ reader.bit_offset >= reader.valid_bits

GroupBit(r, k) == (LzwByte(r.group_start + (k \div ByteBits) + 1) \div 2^(k % ByteBits)) % 2

\* The highest bit first.
CodeAt(r, width) ==
    LET value[b \in 0..width] ==
            IF b = 0 THEN 0 ELSE 2 * value[b - 1] + GroupBit(r, r.bit_offset + width - b)
    IN  value[width]

(***************************************************************************)
(* The loop of decode_lzw up to the classification of the next code.       *)
(***************************************************************************)
WidensMutant == next_code >= MaximumCode(code_bits) /\ code_bits < maximum_code_bits   \* one code early

Widens == next_code > MaximumCode(code_bits) /\ code_bits < maximum_code_bits

Width == IF Widens THEN code_bits + 1 ELSE code_bits

NextReader == IF NeedsRefill(force_refill \/ Widens) THEN Refilled(Width) ELSE reader

InputEnds == /\ NeedsRefill(force_refill \/ Widens)
             /\ reader.position = LzwLength \/ NextReader.valid_bits = 0

Encoded == CodeAt(NextReader, Width)

\* The end of the input ends the stream.
LzwEnds ==
    /\ InputEnds
    /\ Fail("Ok") /\ frames_decoded' = frames_decoded + 1
    /\ UNCHANGED <<output, charged_input>> /\ UNCHANGED lzwVars

ClearsMutant ==                  \* the previous code outlives the dictionary
    /\ ~InputEnds /\ block_mode /\ Encoded = CLEAR_CODE
    /\ code_bits' = INITIAL_CODE_BITS /\ next_code' = FIRST_BLOCK_CODE /\ UNCHANGED previous_code
    /\ expansion' = <<>> /\ force_refill' = TRUE
    /\ reader' = [NextReader EXCEPT !.bit_offset = @ + Width]
    /\ UNCHANGED <<pc, result, output, charged_input, frames_decoded, maximum_code_bits, block_mode,
                   first_character, prefixes, suffixes, code>>

Clears ==
    /\ ~InputEnds /\ block_mode /\ Encoded = CLEAR_CODE
    /\ code_bits' = INITIAL_CODE_BITS /\ next_code' = FIRST_BLOCK_CODE /\ previous_code' = NoCode
    /\ expansion' = <<>> /\ force_refill' = TRUE
    /\ reader' = [NextReader EXCEPT !.bit_offset = @ + Width]
    /\ UNCHANGED <<pc, result, output, charged_input, frames_decoded, maximum_code_bits, block_mode,
                   first_character, prefixes, suffixes, code>>

\* The step from a code to the walk of its chain.
TakesCode(to, start, bytes) ==
    /\ pc' = to /\ code' = start /\ expansion' = bytes
    /\ code_bits' = Width /\ force_refill' = FALSE
    /\ reader' = [NextReader EXCEPT !.bit_offset = @ + Width]
    /\ UNCHANGED <<result, output, charged_input, frames_decoded, maximum_code_bits, block_mode,
                   next_code, previous_code, first_character, prefixes, suffixes>>

PlainCode == ~InputEnds /\ ~(block_mode /\ Encoded = CLEAR_CODE)

FirstCode ==
    /\ PlainCode /\ previous_code = NoCode
    /\ IF Encoded >= Literals
       THEN Fail("Format") /\ UNCHANGED <<output, charged_input, frames_decoded>> /\ UNCHANGED lzwVars
       ELSE TakesCode("literal", Encoded, <<>>)

\* A code that is only being defined stands for the previous one and its first
\* character again.
LaterCode ==
    /\ PlainCode /\ previous_code # NoCode
    /\ CASE Encoded = next_code -> TakesCode("walk", previous_code, <<first_character>>)
         [] Encoded < next_code -> TakesCode("walk", Encoded, <<>>)
         [] OTHER -> Fail("Format") /\ UNCHANGED <<output, charged_input, frames_decoded>> /\ UNCHANGED lzwVars

NextCode ==
    /\ pc = "code"
    /\ LzwCheckpoint(1, LzwEnds \/ Clears \/ FirstCode \/ LaterCode)
    /\ UNCHANGED cancelled /\ UNCHANGED Elsewhere

-----------------------------------------------------------------------------
\* The previous code is the encoded one, also when the chain started elsewhere.
LastEncoded == CodeAt([reader EXCEPT !.bit_offset = @ - code_bits], code_bits)

\* ExtractionControl::write_output.
LzwWrites(bytes, Then) ==
    LET verdict == IF cancelled THEN "Cancelled" ELSE WriteVerdict(Len(output) + Len(bytes))
    IN  \/ /\ verdict # "Ok" /\ Fail(verdict) /\ UNCHANGED <<output>> /\ UNCHANGED lzwVars
        \/ /\ verdict = "Ok" /\ Fail("Io") /\ UNCHANGED <<output>> /\ UNCHANGED lzwVars
        \/ /\ verdict = "Ok" /\ output' = output \o bytes /\ Then /\ UNCHANGED result

WriteLiteral ==
    /\ pc = "literal"
    /\ LzwCheckpoint(1,
           /\ LzwWrites(<<code>>, /\ pc' = "code" /\ first_character' = code /\ previous_code' = code
                                  /\ UNCHANGED <<maximum_code_bits, block_mode, code_bits, next_code, prefixes,
                                                 suffixes, reader, force_refill, code, expansion>>)
           /\ UNCHANGED <<charged_input, frames_decoded>>)
    /\ UNCHANGED cancelled /\ UNCHANGED Elsewhere

\* One link of the prefix chain.
WalkChain ==
    /\ pc = "walk" /\ code >= Literals
    /\ LzwCheckpoint(1,
           /\ IF code >= next_code \/ Len(expansion) - Flag(LastEncoded = next_code) >= DictionaryEntries
              THEN Fail(Internal) /\ UNCHANGED lzwVars
              ELSE /\ expansion' = Append(expansion, suffixes[code]) /\ code' = prefixes[code]
                   /\ UNCHANGED <<pc, result, maximum_code_bits, block_mode, code_bits, next_code,
                                  previous_code, first_character, prefixes, suffixes, reader, force_refill>>
           /\ UNCHANGED <<output, charged_input, frames_decoded>>)
    /\ UNCHANGED cancelled /\ UNCHANGED Elsewhere

ChainEnds ==
    /\ pc = "walk" /\ code < Literals
    /\ first_character' = code /\ expansion' = Append(expansion, code) /\ pc' = "reversed"
    /\ UNCHANGED <<cancelled, budget, result, output, charged_input, frames_decoded, maximum_code_bits,
                   block_mode, code_bits, next_code, previous_code, prefixes, suffixes, reader,
                   force_refill, code>>
    /\ UNCHANGED Elsewhere

\* write_reversed: the expansion is a stack.
WriteReversed ==
    /\ pc = "reversed" /\ expansion # <<>>
    /\ LET count == Least(ControlChunk, Len(expansion))
           kept  == Len(expansion) - count
       IN  LzwCheckpoint(count,
               /\ LzwWrites(Reverse(SubSeq(expansion, kept + 1, Len(expansion))),
                            /\ expansion' = SubSeq(expansion, 1, kept)
                            /\ UNCHANGED <<pc, maximum_code_bits, block_mode, code_bits, next_code,
                                           previous_code, first_character, prefixes, suffixes, reader,
                                           force_refill, code>>)
               /\ UNCHANGED <<charged_input, frames_decoded>>)
    /\ UNCHANGED cancelled /\ UNCHANGED Elsewhere

\* The entry that the previous code and this one's first character define.
HasRoom == next_code < DictionaryEntries

DefineEntry ==
    /\ pc = "reversed" /\ expansion = <<>>
    /\ IF HasRoom
       THEN /\ prefixes' = [prefixes EXCEPT ![next_code] = previous_code]
            /\ suffixes' = [suffixes EXCEPT ![next_code] = first_character]
            /\ next_code' = next_code + 1
       ELSE UNCHANGED <<prefixes, suffixes, next_code>>
    /\ previous_code' = LastEncoded /\ pc' = "code"
    /\ UNCHANGED <<cancelled, budget, result, output, charged_input, frames_decoded, maximum_code_bits,
                   block_mode, code_bits, first_character, reader, force_refill, code, expansion>>
    /\ UNCHANGED Elsewhere

LzwStep ==
    \/ ParseHeader \/ AllocateDictionary \/ PrepayInput \/ NextCode \/ WriteLiteral
    \/ WalkChain \/ ChainEnds \/ WriteReversed \/ DefineEntry
=============================================================================
