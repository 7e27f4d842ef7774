---------------------------- MODULE BranchFilters ----------------------------
(***************************************************************************)
(* The filters of filters.rs and phase5_filters.rs at the scale of         *)
(* RangeCoding: Delta, Swap, the x86, PPC, ARM, SPARC and ARM Thumb branch *)
(* filters, and BCJ2.  An opcode keeps its leading bits and its place in   *)
(* the word; addresses wrap where the code's do.  A filter is a fold over  *)
(* a step's record d with the bytes in d.out.                              *)
(***************************************************************************)
EXTENDS RangeCoding

WordFilters == {"ppc", "arm", "sparc"}
Filters     == {"delta", "swap2", "swap4", "x86", "thumb"} \cup WordFilters

Wrap(n) == n % Word          \* u32 arithmetic; n may be negative

LittleEndian(b) == b[1] + Byte * b[2] + Byte^2 * b[3] + Byte^3 * b[4]
BigEndian(b)    == LittleEndian(Reverse(b))
LittleBytes(w)  == [i \in 1..4 |-> (w \div Byte^(i - 1)) % Byte]
BigBytes(w)     == Reverse(LittleBytes(w))

At(s, offset, n) == SubSeq(s, offset + 1, offset + n)
Written(s, offset, b) == SubSeq(s, 1, offset) \o b \o SubSeq(s, offset + Len(b) + 1, Len(s))

\* starting_position: none, or one word.
StartValid(properties) == Len(properties) \in {0, 4}
Start(properties) == IF properties = <<>> THEN 0 ELSE LittleEndian(properties)

-----------------------------------------------------------------------------
\* decode_delta: a ring of the last Byte bytes, filled downwards.
DecodeDelta(d, properties) ==
    LET distance == properties[1] + 1
        Step(e, i) ==
            LET slot == (-(i - 1)) % Byte
                byte == (e.out[i] + e.history[(distance + slot) % Byte]) % Byte
            IN  [Spend(e, 1) EXCEPT !.out[i] = byte, !.history[slot] = byte]
    IN  IF Len(properties) # 1 THEN Faulted(d, "Format")
        ELSE FoldLeft(Step, [history |-> [i \in 0..(Byte - 1) |-> 0]] @@ d, Upto(Len(d.out)))

\* decode_swap: whole groups are reversed, a rest is left alone.
DecodeSwap(d, properties, width) ==
    LET Step(e, i) == [Spend(e, width) EXCEPT !.out = Written(@, (i - 1) * width, Reverse(At(@, (i - 1) * width, width)))]
    IN  IF properties # <<>> THEN Faulted(d, "Format")
        ELSE FoldLeft(Step, d, Upto(Len(d.out) \div width))

-----------------------------------------------------------------------------
(***************************************************************************)
(* decode_ppc, decode_arm and decode_sparc: a word that holds a branch     *)
(* loses the address of its instruction.                                   *)
(***************************************************************************)
PpcWord(b, pc) ==
    IF b[1] \div 4 = 1 /\ b[4] % 4 = 1
    THEN BigBytes((Wrap(BigEndian(b) - pc) % (Word \div 4)) + Word \div 4)
    ELSE b

ArmOpcode == 11              \* BL, always
ArmWord(b, pc) ==
    IF b[4] = ArmOpcode
    THEN LittleBytes((Wrap(LittleEndian(b) - Wrap(pc + 8) \div 4) % Byte^3) + ArmOpcode * Byte^3)
    ELSE b

\* The displacement is extended with its sign, then the opcode put back.
SparcWord(b, pc) ==
    LET shifted == Wrap(Wrap(BigEndian(b) * 4) - pc) % (2 * Byte^3)
        signed  == Wrap(shifted - Byte^3)
        flipped == (Byte - 1 - signed \div Byte^3) * Byte^3 + (signed % Byte^3)
    IN  IF (b[1] = 4 /\ b[2] < 4) \/ (b[1] = 7 /\ b[2] >= 12)
        THEN BigBytes(((flipped \div 4) % (Word \div 4)) + Word \div 4)
        ELSE b

DecodeWord(method, b, pc) ==
    CASE method = "ppc" -> PpcWord(b, pc)
      [] method = "arm" -> ArmWord(b, pc)
      [] method = "sparc" -> SparcWord(b, pc)

DecodeWords(d, properties, method) ==
    LET Step(e, i) == [Spend(e, 4) EXCEPT
            !.out = Written(@, 4 * (i - 1),
                            DecodeWord(method, At(@, 4 * (i - 1), 4), Wrap(Start(properties) + 4 * (i - 1))))]
    IN  IF ~StartValid(properties) THEN Faulted(d, "Format")
        ELSE FoldLeft(Step, d, Upto(Len(d.out) \div 4))

-----------------------------------------------------------------------------
(***************************************************************************)
(* decode_arm_thumb: a call is two halfwords with three bits of opcode     *)
(* each, found at any even offset; d.at is the offset.                     *)
(***************************************************************************)
ThumbCall(b) == b[2] \div 2 = 6 /\ b[4] \div 2 = 7

ThumbWord(b, pc) ==
    LET source      == ((((b[2] % 2) * Byte + b[1]) * 2 + (b[4] % 2)) * Byte + b[3]) * 2
        destination == Wrap(source - Wrap(pc + 4)) \div 2
    IN  <<(destination \div (2 * Byte)) % Byte, 12 + ((destination \div (2 * Byte^2)) % 2),
          destination % Byte, 14 + ((destination \div Byte) % 2)>>

DecodeThumb(d, properties) ==
    LET Step(e, i) ==
            LET word  == At(e.out, e.at, 4)
                spent == Spend(e, 2)
            IN  IF e.at + 4 > Len(e.out) THEN e
                ELSE IF ThumbCall(word)
                THEN [spent EXCEPT !.out = Written(@, e.at, ThumbWord(word, Start(properties) + e.at)), !.at = @ + 4]
                ELSE [spent EXCEPT !.at = @ + 2]
    IN  IF Len(d.out) < 4 THEN d
        ELSE IF ~StartValid(properties) THEN Faulted(d, "Format")
        ELSE FoldLeft(Step, [at |-> 0] @@ d, Upto(Len(d.out) \div 2))

-----------------------------------------------------------------------------
(***************************************************************************)
(* decode_x86_bcj: e.at runs over the bytes before the last four;          *)
(* e.previous is where the scan for an opcode began, e.mask what the       *)
(* opcodes before it have left.                                            *)
(***************************************************************************)
X86Opcode(byte)  == byte \div 2 = 4           \* CALL or JMP
TestX86Msb(byte) == byte \in {0, Byte - 1}

\* The address under a mask: converted again when the byte that the mask
\* names would be taken for a high byte.
X86Value(value, current, mask) ==
    LET once  == Wrap(value - current)
        low   == Byte^(mask \div 2 + 1)
        flipped == (once - (once % low)) + (low - 1 - (once % low))
    IN  IF mask # 0 /\ TestX86Msb((once \div Byte^(mask \div 2)) % Byte)
        THEN Wrap(flipped - current) ELSE once

\* Mutant: the opcode left alone is not remembered.
X86SkipMutant(e, mask) == [e EXCEPT !.mask = mask \div 2, !.at = @ + 1, !.previous = e.at + 1]

X86Skip(e, mask) == [e EXCEPT !.mask = mask \div 2 + 4, !.at = @ + 1, !.previous = e.at + 1]

X86Branch(e, mask, start) ==
    LET byte == At(e.out, e.at + 1, 4)
        value == LittleBytes(X86Value(LittleEndian(byte), Wrap(start + 5 + e.at), mask))
    IN  IF mask # 0 /\ (mask > 4 \/ mask = 3 \/ TestX86Msb(byte[mask \div 2 + 1])) THEN X86Skip(e, mask)
        ELSE IF ~TestX86Msb(byte[4]) THEN X86Skip(e, mask)
        ELSE [e EXCEPT !.out = Written(@, e.at + 1, [value EXCEPT ![4] = (-(@ % 2)) % Byte]),
                       !.mask = 0, !.at = @ + 5, !.previous = e.at + 5]

DecodeX86(d, properties) ==
    LET Step(e, i) ==
            LET spent    == Spend(e, 1)
                distance == e.at - e.previous
            IN  IF e.at + 4 >= Len(e.out) THEN e
                ELSE IF ~X86Opcode(e.out[e.at + 1]) THEN [spent EXCEPT !.at = @ + 1]
                ELSE X86Branch(spent, IF distance > 2 THEN 0 ELSE e.mask \div 2^distance, Start(properties))
    IN  IF Len(d.out) < 5 THEN d
        ELSE IF ~StartValid(properties) THEN Faulted(d, "Format")
        ELSE FoldLeft(Step, [at |-> 0, previous |-> 0, mask |-> 0] @@ d, Upto(Len(d.out)))

\* decode_filter.
DecodeFilter(d, method, properties) ==
    CASE method = "delta" -> DecodeDelta(d, properties)
      [] method = "swap2" -> DecodeSwap(d, properties, 2)
      [] method = "swap4" -> DecodeSwap(d, properties, 4)
      [] method = "x86"   -> DecodeX86(d, properties)
      [] method = "thumb" -> DecodeThumb(d, properties)
      [] OTHER            -> DecodeWords(d, properties, method)

-----------------------------------------------------------------------------
(***************************************************************************)
(* decode_bcj2: the main stream with the branches' addresses taken out;    *)
(* the range stream says at each branch whether its address is in the call *)
(* or jump stream.  e.call and e.jump are the cursors over those.          *)
(***************************************************************************)
CallOpcode == 8
JumpOpcode == 9
TwoByteOpcode == 3           \* 0x0f, before a conditional jump
IsBcj2Branch(previous, current) ==
    current \in {CallOpcode, JumpOpcode} \/ (previous = TwoByteOpcode /\ current \div 2 = 2)

Bcj2Context(previous, current) ==
    <<"bcj2", CASE current = CallOpcode -> previous [] current = JumpOpcode -> Byte [] OTHER -> Byte + 1, 0>>

\* Bcj2Range: the five first bytes of the range stream are its code, unchecked;
\* a flag is decoded as a bit of LZMA is.
Bcj2Range(e, input) == FoldLeft(LAMBDA r, i : ShiftIn(r), RangeDecoder(input) @@ e, Upto(5))
Bcj2Flag(e, context) == DecodeBit(e, context)

Reserve(e, n, maximum) == IF Len(e.out) + n > maximum THEN Faulted(e, "LimitExceeded") ELSE e

Added(e, bytes) == IF Failed(e) THEN e ELSE [e EXCEPT !.out = @ \o bytes, !.previous = Last(bytes)]
Put(e, bytes, maximum) == Added(Reserve(e, Len(bytes), maximum), bytes)

\* A cursor is a sequence of what is left; a word has its greatest byte first.
SideWord(e, side) ==
    IF Len(side) < 4 THEN Faulted(SpendBy(e, Len(side) + 1, 1), "Format") ELSE SpendBy(e, 4, 1)

PutAddress(e, side, maximum) ==
    IF Failed(e) THEN e
    ELSE Put(e, LittleBytes(Wrap(BigEndian(SubSeq(side, 1, 4)) - Wrap(Len(e.out) + 4))), maximum)

Bcj2Address(e, byte, maximum) ==
    IF byte = CallOpcode
    THEN PutAddress([SideWord(e, e.call) EXCEPT !.call = SubSeq(@, 5, Len(@))], e.call, maximum)
    ELSE PutAddress([SideWord(e, e.jump) EXCEPT !.jump = SubSeq(@, 5, Len(@))], e.jump, maximum)

AfterFlag(e, byte, maximum) ==
    IF Failed(e) \/ e.bit = 0 THEN e ELSE Bcj2Address(e, byte, maximum)

Bcj2Step(e, byte, maximum) ==
    IF IsBcj2Branch(e.previous, byte)
    THEN AfterFlag(Bcj2Flag(Put(Spend(e, 1), <<byte>>, maximum), Bcj2Context(e.previous, byte)), byte, maximum)
    ELSE Put(Spend(e, 1), <<byte>>, maximum)

\* The side streams must be used up; the range stream need not be.
Bcj2Done(e, expected) ==
    IF e.call # <<>> \/ e.jump # <<>> \/ expected \notin {-1, Len(e.out)} THEN Faulted(e, "Format") ELSE e

DecodeBcj2(d, inputs, expected, maximum) ==
    LET cursors == [call |-> inputs[2], jump |-> inputs[3], previous |-> 0, probs |-> <<>>] @@ d
    IN  Bcj2Done(FoldLeft(LAMBDA e, b : Bcj2Step(e, b, maximum), Bcj2Range(cursors, inputs[4]), inputs[1]),
                 expected)
=============================================================================
