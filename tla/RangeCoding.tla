----------------------------- MODULE RangeCoding -----------------------------
(***************************************************************************)
(* The adaptive range decoder under LZMA and BCJ2: Probability,            *)
(* RangeDecoder and ProbabilityTree of lzma.rs.  A byte has ByteBits bits  *)
(* and a word four bytes, so that every u32 fits TLC's integers; the       *)
(* probabilities are scaled with them.  At this scale, as at the code's,   *)
(* one byte always brings the range back to TOP_VALUE.                     *)
(*                                                                         *)
(* A decoder is a record d.  d.probs holds the probabilities that have     *)
(* left their initial value; d.fault is the first error, after which       *)
(* nothing of d changes; d.work is what the step's checkpoints have        *)
(* charged of d.room.  An operator leaves what it read or decoded in       *)
(* d.byte, d.bit or d.value.                                               *)
(***************************************************************************)
EXTENDS OperationControl, SequencesExt

ByteBits     == 4
PROB_BITS    == 5
MOVE_BITS    == 2
Byte         == 2^ByteBits
Word         == Byte^4
PROB_TOTAL   == 2^PROB_BITS
PROB_INITIAL == PROB_TOTAL \div 2
TOP_VALUE    == Byte^3

Upto(n) == [i \in 1..n |-> i]

Probability(probs, c) == IF c \in DOMAIN probs THEN probs[c] ELSE PROB_INITIAL

Failed(d) == d.fault # "none"

Faulted(d, error) == IF Failed(d) THEN d ELSE [d EXCEPT !.fault = error]

\* control.checkpoint(units)?
Spend(d, units) ==
    IF Failed(d) THEN d
    ELSE IF d.cancelled THEN Faulted(d, "Cancelled")
    ELSE IF d.work + units > d.room THEN Faulted(d, "WorkUnits")
    ELSE [d EXCEPT !.work = @ + units]

\* n units in checkpoints of at most chunk: those that fit are charged.
SpendBy(d, n, chunk) ==
    IF Failed(d) \/ n = 0 THEN d
    ELSE IF d.cancelled THEN Faulted(d, "Cancelled")
    ELSE IF d.work + n > d.room
    THEN Faulted([d EXCEPT !.work = @ + chunk * ((d.room - d.work) \div chunk)], "WorkUnits")
    ELSE [d EXCEPT !.work = @ + n]

-----------------------------------------------------------------------------
\* Mutant: zeros follow the end of the input.
TakeByteMutant(d) ==
    IF Failed(d) THEN d
    ELSE IF d.at >= Len(d.input) THEN [d EXCEPT !.byte = 0]
    ELSE [d EXCEPT !.at = @ + 1, !.byte = d.input[d.at + 1]]

TakeByte(d) ==
    IF Failed(d) THEN d
    ELSE IF d.at >= Len(d.input) THEN Faulted(d, "Format")
    ELSE [d EXCEPT !.at = @ + 1, !.byte = d.input[d.at + 1]]

ReadByte(d) == TakeByte(Spend(d, 1))

\* The byte read becomes the last of code.
IntoCode(d) == IF Failed(d) THEN d ELSE [d EXCEPT !.code = (@ * Byte + d.byte) % Word]

ShiftIn(d) == IntoCode(ReadByte(d))

Normalize(d) ==
    IF Failed(d) \/ d.range >= TOP_VALUE THEN d
    ELSE ShiftIn([d EXCEPT !.range = (@ * Byte) % Word])

RangeDecoder(input) == [input |-> input, at |-> 0, range |-> Word - 1, code |-> 0]

\* RangeDecoder::new: a zero byte, then the first word of code.
ZeroFirst(d) == IF ~Failed(d) /\ d.byte # 0 THEN Faulted(d, "Format") ELSE d
WithinRange(d) == IF d.code >= d.range THEN Faulted(d, "Format") ELSE d

OpenRange(d) ==
    WithinRange(FoldLeft(LAMBDA e, i : ShiftIn(e), ZeroFirst(ReadByte(d)), Upto(4)))

\* Mutant: the adaptation is rounded up instead of down.
NarrowedMutant(d, c, p) ==
    LET bound == (d.range \div PROB_TOTAL) * p
        Up(n) == (n + 2^MOVE_BITS - 1) \div 2^MOVE_BITS
    IN  IF d.code < bound
        THEN [d EXCEPT !.range = bound, !.bit = 0, !.probs = (c :> (p + Up(PROB_TOTAL - p))) @@ @]
        ELSE [d EXCEPT !.range = @ - bound, !.code = @ - bound, !.bit = 1, !.probs = (c :> (p - Up(p))) @@ @]

(***************************************************************************)
(* Probability::decode.  RangeSound says that none of its checked          *)
(* operations fails.                                                       *)
(***************************************************************************)
Narrowed(d, c, p) ==
    LET bound == (d.range \div PROB_TOTAL) * p
    IN  IF d.code < bound
        THEN [d EXCEPT !.range = bound, !.bit = 0, !.probs = (c :> (p + (PROB_TOTAL - p) \div 2^MOVE_BITS)) @@ @]
        ELSE [d EXCEPT !.range = @ - bound, !.code = @ - bound, !.bit = 1,
                       !.probs = (c :> (p - p \div 2^MOVE_BITS)) @@ @]

DecodeBit(d, c) == IF Failed(d) THEN d ELSE Normalize(Narrowed(d, c, Probability(d.probs, c)))

Halved(d, half) ==
    IF d.code >= half THEN [d EXCEPT !.range = half, !.code = @ - half, !.bit = 1]
    ELSE [d EXCEPT !.range = half, !.bit = 0]

DecodeDirectBit(d) == IF Failed(d) THEN d ELSE Normalize(Halved(d, d.range \div 2))

DecodeDirect(d, bits) ==
    LET Add(e) == [e EXCEPT !.value = 2 * @ + e.bit]
    IN  FoldLeft(LAMBDA e, i : Add(DecodeDirectBit(e)), [d EXCEPT !.value = 0], Upto(bits))

\* ProbabilityTree::decode: the k-th tree called name.
DecodeTree(d, name, k, bits) ==
    LET Down(e) == [e EXCEPT !.node = 2 * @ + e.bit]
        Leaf(e) == [e EXCEPT !.value = e.node - 2^bits]
    IN  Leaf(FoldLeft(LAMBDA e, i : Down(DecodeBit(e, <<name, k, e.node>>)), [d EXCEPT !.node = 1], Upto(bits)))

\* ProbabilityTree::decode_reverse: the least bit comes first.
DecodeReverse(d, name, k, bits) ==
    LET Down(e, i) == [e EXCEPT !.node = 2 * @ + e.bit, !.value = @ + e.bit * 2^(i - 1)]
    IN  FoldLeft(LAMBDA e, i : Down(DecodeBit(e, <<name, k, e.node>>), i),
                 [d EXCEPT !.node = 1, !.value = 0], Upto(bits))

(***************************************************************************)
(* What keeps the checked arithmetic above from failing: the range is      *)
(* normalised and no probability reaches either end.                       *)
(***************************************************************************)
RangeSound(d) ==
    /\ d.range \in TOP_VALUE..(Word - 1) /\ d.code \in 0..(Word - 1) /\ d.at <= Len(d.input)
    /\ \A c \in DOMAIN d.probs : d.probs[c] \in 1..(PROB_TOTAL - 1)
=============================================================================
