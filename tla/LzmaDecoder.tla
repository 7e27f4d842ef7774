----------------------------- MODULE LzmaDecoder -----------------------------
(***************************************************************************)
(* One operation of LZMA: decode_operation of lzma.rs with the length,     *)
(* distance and literal decoders and the state it keeps.  A decoder is a   *)
(* record of RangeCoding with the fields of LzmaState; d.op is the         *)
(* operation decoded.  The widths of the trees are scaled with the bytes.  *)
(***************************************************************************)
EXTENDS RangeCoding

MIN_MATCH_LENGTH     == 2
LENGTH_STATES        == 4
LOW_LENGTH_BITS      == 1      \* 3
HIGH_LENGTH_BITS     == 2      \* 8
START_POSITION_MODEL == 4
END_POSITION_MODEL   == 6      \* 14
POSITION_SLOT_BITS   == 3      \* 6
ALIGN_BITS           == 1      \* 4
EOS_DISTANCE         == 15     \* u32::MAX: the last slot with every bit set
POSITION_STATES      == 16

\* LzmaState::new, and reset, which keeps lc, lp and pb.
LzmaState(lc, lp, pb) ==
    [lc |-> lc, lp |-> lp, pb |-> pb, state |-> 0, reps |-> <<0, 0, 0, 0>>, probs |-> <<>>]

PropertiesValid(byte) == byte <= 224 /\ (byte % 9) + ((byte \div 9) % 5) <= 4

PropertiesFromByte(byte) == LzmaState(byte % 9, (byte \div 9) % 5, byte \div 45)

AfterLiteral(state)  == IF state < 4 THEN 0 ELSE IF state < 10 THEN state - 3 ELSE state - 6
AfterMatch(state)    == IF state < 7 THEN 7 ELSE 10
AfterRep(state)      == IF state < 7 THEN 8 ELSE 11
AfterShortRep(state) == IF state < 7 THEN 9 ELSE 11

-----------------------------------------------------------------------------
\* LengthDecoder::decode; which is 0 for length, 1 for repetition_length, and k
\* the tree of the position state.
Plus(d, n) == [d EXCEPT !.value = @ + n]

LongLength(d, which, k) ==
    IF d.bit = 0 THEN Plus(DecodeTree(d, "middle", k, LOW_LENGTH_BITS), 2^LOW_LENGTH_BITS)
    ELSE Plus(DecodeTree(d, "high", which, HIGH_LENGTH_BITS), 2 * 2^LOW_LENGTH_BITS)

LengthAfter(d, which, k) ==
    IF d.bit = 0 THEN DecodeTree(d, "low", k, LOW_LENGTH_BITS)
    ELSE LongLength(DecodeBit(d, <<"choice", which, 1>>), which, k)

DecodeLength(d, which, positionState) ==
    LengthAfter(DecodeBit(d, <<"choice", which, 0>>), which, which * POSITION_STATES + positionState)

\* DistanceDecoder::decode: the slot, then the bits below it.
SlotBits(slot) == slot \div 2 - 1
SlotBase(slot) == (2 + (slot % 2)) * 2^SlotBits(slot)

Aligned(d, base) == Plus(DecodeReverse(d, "align", 0, ALIGN_BITS), base + d.value * 2^ALIGN_BITS)

BelowSlot(d, slot) ==
    IF slot < START_POSITION_MODEL THEN d
    ELSE IF slot < END_POSITION_MODEL
    THEN Plus(DecodeReverse(d, "model", slot, SlotBits(slot)), SlotBase(slot))
    ELSE Aligned(DecodeDirect(d, SlotBits(slot) - ALIGN_BITS), SlotBase(slot))

WithSlot(d) == BelowSlot(d, d.value)

DecodeDistance(d, length) ==
    WithSlot(DecodeTree(d, "slot", IF length < LENGTH_STATES THEN length ELSE LENGTH_STATES - 1, POSITION_SLOT_BITS))

\* LiteralDecoder::decode: after a match the bits of the byte that the match
\* would have gone on with choose the context until one of them differs.
LiteralState(d, position, previous) ==
    (position % 2^d.lp) * 2^d.lc + previous \div 2^(ByteBits - d.lc)

DecodeLiteral(d, matched, literalState) ==
    LET MatchBit(i) == (matched \div 2^(ByteBits - i)) % 2
        Index(e, i) == e.node + (IF e.value = 1 THEN (1 + MatchBit(i)) * Byte ELSE 0)
        Down(e, i)  == [e EXCEPT !.node = 2 * @ + e.bit, !.value = IF e.bit = MatchBit(i) THEN @ ELSE 0]
        Leaf(e)     == [e EXCEPT !.value = e.node - Byte]
    IN  Leaf(FoldLeft(LAMBDA e, i : Down(DecodeBit(e, <<"literal", literalState, Index(e, i)>>), i),
                      [d EXCEPT !.node = 1, !.value = IF d.state >= 7 THEN 1 ELSE 0], Upto(ByteBits)))

-----------------------------------------------------------------------------
NoOperation == [kind |-> "none", byte |-> 0, distance |-> 0, length |-> 0]
Literal(byte) == [NoOperation EXCEPT !.kind = "literal", !.byte = byte]
Match(distance, length) == [NoOperation EXCEPT !.kind = "match", !.distance = distance, !.length = length]
EndMarker == [NoOperation EXCEPT !.kind = "end"]

\* Output::position, previous_byte and match_byte: of everything put out.
Position(out)     == Len(out)
PreviousByte(out) == IF out = <<>> THEN 0 ELSE Last(out)
MatchByte(out, offset) == IF offset < Len(out) THEN out[Len(out) - offset] ELSE 0

\* decode_operation, one operator for each end it can come to.
PutLiteral(d) == [d EXCEPT !.state = AfterLiteral(@), !.op = Literal(d.value)]

LiteralOperation(d, out) ==
    PutLiteral(DecodeLiteral(d, MatchByte(out, d.reps[1]), LiteralState(d, Position(out), PreviousByte(out))))

PutMatch(d, length) ==
    [d EXCEPT !.reps = <<d.value, @[1], @[2], @[3]>>, !.state = AfterMatch(@),
              !.op = IF d.value = EOS_DISTANCE THEN EndMarker
                     ELSE Match(d.value + 1, length + MIN_MATCH_LENGTH)]

MatchDistance(d) == PutMatch(DecodeDistance(d, d.value), d.value)
MatchOperation(d, positionState) == MatchDistance(DecodeLength(d, 0, positionState))

\* Mutant: the distance used changes places with the front.
ToFrontMutant(reps, k) == [reps EXCEPT ![1] = reps[k], ![k] = reps[1]]

\* The k-th of the last distances moves to the front.
ToFront(reps, k) == <<reps[k]>> \o RemoveAt(reps, k)

PutRep(d) == [d EXCEPT !.state = AfterRep(@), !.op = Match(d.reps[1] + 1, d.value + MIN_MATCH_LENGTH)]

RepOperation(d, k, positionState) ==
    PutRep(DecodeLength([d EXCEPT !.reps = ToFront(@, k)], 1, positionState))

ShortRepOperation(d) == [d EXCEPT !.state = AfterShortRep(@), !.op = Match(d.reps[1] + 1, 1)]

AfterRepTwo(d, ps) == RepOperation(d, 3 + d.bit, ps)

AfterRepOne(d, ps) ==
    IF d.bit = 0 THEN RepOperation(d, 2, ps)
    ELSE AfterRepTwo(DecodeBit(d, <<"is_rep_two", d.state, 0>>), ps)

AfterLong(d, ps) == IF d.bit = 0 THEN ShortRepOperation(d) ELSE RepOperation(d, 1, ps)

AfterRepZero(d, ps) ==
    IF d.bit = 0 THEN AfterLong(DecodeBit(d, <<"is_rep_zero_long", d.state, ps>>), ps)
    ELSE AfterRepOne(DecodeBit(d, <<"is_rep_one", d.state, 0>>), ps)

AfterIsRep(d, ps) ==
    IF d.bit = 0 THEN MatchOperation(d, ps)
    ELSE AfterRepZero(DecodeBit(d, <<"is_rep_zero", d.state, 0>>), ps)

AfterIsMatch(d, out, ps) ==
    IF d.bit = 0 THEN LiteralOperation(d, out)
    ELSE AfterIsRep(DecodeBit(d, <<"is_rep", d.state, 0>>), ps)

AtPosition(d, out, ps) == AfterIsMatch(DecodeBit(Spend(d, 1), <<"is_match", d.state, ps>>), out, ps)

DecodeOperation(d, out) == AtPosition(d, out, Position(out) % 2^d.pb)
=============================================================================
