---------------------------- MODULE CodecFormats ----------------------------
(***************************************************************************)
(* Encoders for LZMA, LZMA2, Deflate64, the filters and BCJ2, written from *)
(* the definitions of the formats (the LZMA SDK, XZ Utils, RFC 1951): the  *)
(* reference that the decoders are checked against.  Nothing here models   *)
(* un7z.                                                                   *)
(***************************************************************************)
EXTENDS Deflate64, BranchFilters

(***************************************************************************)
(* The range encoder: low and range as in the format, cache the digit that *)
(* a carry may still change, and after it pending digits of Byte - 1.      *)
(***************************************************************************)
Encoder == [low |-> 0, width |-> Word - 1, cache |-> 0, pending |-> 0, digits |-> <<>>, probs |-> <<>>]

ShiftLow(e) ==
    LET carry == e.low \div Word
        moved == [e EXCEPT !.low = (@ % Byte^3) * Byte]
    IN  IF e.low < Word - Byte^3 \/ carry = 1
        THEN [moved EXCEPT !.digits = @ \o <<(e.cache + carry) % Byte>>
                                        \o [i \in 1..e.pending |-> (Byte - 1 + carry) % Byte],
                           !.cache = (e.low \div Byte^3) % Byte, !.pending = 0]
        ELSE [moved EXCEPT !.pending = @ + 1]

Widen(e) == IF e.width < TOP_VALUE THEN ShiftLow([e EXCEPT !.width = @ * Byte]) ELSE e

\* A coded bit is <<context, bit>>; the context Direct has no probability.
Direct == <<"direct", 0, 0>>

EncodeBit(e, coded) ==
    LET c == coded[1]
        p == Probability(e.probs, c)
        bound == IF c = Direct THEN e.width \div 2 ELSE (e.width \div PROB_TOTAL) * p
        q == IF coded[2] = 0 THEN p + (PROB_TOTAL - p) \div 2^MOVE_BITS ELSE p - p \div 2^MOVE_BITS
        adapted == IF c = Direct THEN e ELSE [e EXCEPT !.probs = (c :> q) @@ @]
    IN  Widen(IF coded[2] = 0 THEN [adapted EXCEPT !.width = bound]
              ELSE IF c = Direct THEN [adapted EXCEPT !.low = @ + bound, !.width = bound]
              ELSE [adapted EXCEPT !.low = @ + bound, !.width = @ - bound])

EncodeBits(e, coded) == FoldLeft(EncodeBit, e, coded)

Flushed(e) == FoldLeft(LAMBDA x, i : ShiftLow(x), e, Upto(5)).digits

-----------------------------------------------------------------------------
(***************************************************************************)
(* The bits of an LZMA operation.  An operation is written as what it puts *)
(* out: a literal, a match at an offset, the k-th repetition, a short      *)
(* repetition, or the end marker.                                          *)
(***************************************************************************)
BitAt(v, i) == (v \div 2^i) % 2

TreeBits(name, k, bits, v) ==
    [i \in 1..bits |-> <<<<name, k, 2^(i - 1) + v \div 2^(bits - i + 1)>>, BitAt(v, bits - i)>>]

Reversed(v, bits) == FoldLeft(LAMBDA x, i : x + BitAt(v, i - 1) * 2^(bits - i), 0, Upto(bits))

ReverseBits(name, k, bits, v) ==
    [i \in 1..bits |-> <<<<name, k, 2^(i - 1) + Reversed(v, i - 1)>>, BitAt(v, i - 1)>>]

LengthBits(which, positionState, v) ==
    LET k == which * POSITION_STATES + positionState
        n == 2^LOW_LENGTH_BITS
    IN  IF v < n THEN <<<<<<"choice", which, 0>>, 0>>>> \o TreeBits("low", k, LOW_LENGTH_BITS, v)
        ELSE IF v < 2 * n
        THEN <<<<<<"choice", which, 0>>, 1>>, <<<<"choice", which, 1>>, 0>>>>
             \o TreeBits("middle", k, LOW_LENGTH_BITS, v - n)
        ELSE <<<<<<"choice", which, 0>>, 1>>, <<<<"choice", which, 1>>, 1>>>>
             \o TreeBits("high", which, HIGH_LENGTH_BITS, v - 2 * n)

\* An offset below four is its slot; otherwise the slot is its leading one and
\* the bit after it, and the bits below are modelled, or direct and aligned.
TopBit(v) == CHOOSE n \in 0..ByteBits : 2^n <= v /\ v < 2^(n + 1)
Slot(v) == IF v < START_POSITION_MODEL THEN v ELSE 2 * TopBit(v) + BitAt(v, TopBit(v) - 1)

DistanceBits(length, v) ==
    LET below == TopBit(v) - 1
    IN  TreeBits("slot", IF length > 3 THEN 3 ELSE length, POSITION_SLOT_BITS, Slot(v))
        \o (IF v < START_POSITION_MODEL THEN <<>>
            ELSE IF Slot(v) < END_POSITION_MODEL THEN ReverseBits("model", Slot(v), below, v % 2^below)
            ELSE [i \in 1..(below - ALIGN_BITS) |-> <<Direct, BitAt(v, below - i)>>]
                 \o ReverseBits("align", 0, ALIGN_BITS, v % 2^ALIGN_BITS))

\* A literal in the light of the byte m that a match would have gone on with.
LiteralBits(context, matching, m, v) ==
    [i \in 1..ByteBits |->
        LET node == 2^(i - 1) + v \div 2^(ByteBits - i + 1)
            same == \A j \in 1..(i - 1) : BitAt(v, ByteBits - j) = BitAt(m, ByteBits - j)
        IN  <<<<"literal", context, IF matching /\ same THEN (1 + BitAt(m, ByteBits - i)) * Byte + node ELSE node>>,
              BitAt(v, ByteBits - i)>>]

\* w is the writer: w.text since the dictionary was reset, w.done before that.
\* Position and previous byte are those of the dictionary.
WriterBits(w, op) ==
    LET ps   == Len(w.text) % 2^w.pb
        prev == IF w.text = <<>> THEN 0 ELSE Last(w.text)
        ctx  == (Len(w.text) % 2^w.lp) * 2^w.lc + prev \div 2^(ByteBits - w.lc)
        m    == IF w.reps[1] < Len(w.text) THEN w.text[Len(w.text) - w.reps[1]] ELSE 0
        At1(name, b) == <<<<name, w.state, 0>>, b>>
        match(b) == <<<<<<"is_match", w.state, ps>>, b>>>>
        long(b)  == <<<<<<"is_rep_zero_long", w.state, ps>>, b>>>>
        rep == match(1) \o <<At1("is_rep", 1)>>
    IN  CASE op.kind = "literal" -> match(0) \o LiteralBits(ctx, w.state >= 7, m, op.byte)
          [] op.kind \in {"match", "end"} ->
                match(1) \o <<At1("is_rep", 0)>> \o LengthBits(0, ps, op.length - MIN_MATCH_LENGTH)
                \o DistanceBits(op.length - MIN_MATCH_LENGTH, op.offset)
          [] op.kind = "short" -> rep \o <<At1("is_rep_zero", 0)>> \o long(0)
          [] op.kind = "rep" ->
                rep \o (CASE op.k = 1 -> <<At1("is_rep_zero", 0)>> \o long(1)
                          [] op.k = 2 -> <<At1("is_rep_zero", 1), At1("is_rep_one", 0)>>
                          [] OTHER -> <<At1("is_rep_zero", 1), At1("is_rep_one", 1), At1("is_rep_two", op.k - 3)>>)
                \o LengthBits(1, ps, op.length - MIN_MATCH_LENGTH)

\* What an operation means: the bytes it adds and the distances it leaves.
OffsetOf(w, op) == CASE op.kind = "match" -> op.offset [] op.kind = "short" -> w.reps[1] [] op.kind = "rep" -> w.reps[op.k]

Repeat(text, offset, n) ==
    LET unit == SubSeq(text, Len(text) - offset, Len(text))
    IN  [i \in 1..n |-> unit[((i - 1) % (offset + 1)) + 1]]

Meant(w, op) ==
    CASE op.kind = "literal" -> <<op.byte>>
      [] op.kind = "end" -> <<>>
      [] OTHER -> Repeat(w.text, OffsetOf(w, op), op.length)

NewReps(w, op) ==
    CASE op.kind \in {"literal", "short"} -> w.reps
      [] op.kind \in {"match", "end"} -> <<op.offset>> \o SubSeq(w.reps, 1, 3)
      [] OTHER -> [i \in 1..4 |-> IF i = 1 THEN w.reps[op.k] ELSE IF i <= op.k THEN w.reps[i - 1] ELSE w.reps[i]]

\* The states of the format, each with its successors.
NewState(w, op) ==
    CASE op.kind = "literal" -> <<0, 0, 0, 0, 1, 2, 3, 4, 5, 6, 4, 5>>[w.state + 1]
      [] op.kind \in {"match", "end"} -> <<7, 7, 7, 7, 7, 7, 7, 10, 10, 10, 10, 10>>[w.state + 1]
      [] op.kind = "rep" -> <<8, 8, 8, 8, 8, 8, 8, 11, 11, 11, 11, 11>>[w.state + 1]
      [] op.kind = "short" -> <<9, 9, 9, 9, 9, 9, 9, 11, 11, 11, 11, 11>>[w.state + 1]

WriteOp(w, op) ==
    LET e == EncodeBits(w, WriterBits(w, op))
    IN  [e EXCEPT !.text = @ \o Meant(w, op), !.reps = NewReps(w, op), !.state = NewState(w, op)]

Writer(p) == [text |-> <<>>, before |-> <<>>, tokens |-> <<>>, lc |-> p[1], lp |-> p[2], pb |-> p[3],
              state |-> 0, reps |-> <<0, 0, 0, 0>>] @@ Encoder

\* An operation can follow a text when its source lies within the dictionary.
Follows(w, op) == op.kind \in {"literal", "end"} \/ OffsetOf(w, op) < Len(w.text)

Fresh(w)  == [w EXCEPT !.low = 0, !.width = Word - 1, !.cache = 0, !.pending = 0, !.digits = <<>>]
Finish(w) == [w EXCEPT !.digits = Flushed(w)]
WriteStream(w, ops) == Finish(FoldLeft(WriteOp, Fresh(w), ops))

(***************************************************************************)
(* LZMA2: chunks of bytes, or of operations with what is reset before      *)
(* them: 0 nothing, 1 the state, 2 also the properties, 3 the dictionary   *)
(* too.                                                                    *)
(***************************************************************************)
PropertyByte(p) == (p[3] * 5 + p[2]) * 9 + p[1]
TwoBytes(n) == <<n \div Byte, n % Byte>>

Emptied(w) == [w EXCEPT !.before = @ \o w.text, !.text = <<>>]

PutRaw(w, c) ==
    [w EXCEPT !.text = @ \o c.bytes, !.tokens = @ \o <<c.control>> \o TwoBytes(Len(c.bytes) - 1) \o c.bytes]

RawChunk(w, c) == PutRaw(IF c.control = 1 THEN Emptied(w) ELSE w, c)

NewModel(w, c) == IF c.level = 0 THEN w ELSE [w EXCEPT !.probs = <<>>, !.state = 0, !.reps = <<0, 0, 0, 0>>]
NewProps(w, c)  == IF c.level < 2 THEN w ELSE [w EXCEPT !.lc = c.p[1], !.lp = c.p[2], !.pb = c.p[3]]
NewDict(w, c)   == IF c.level = 3 THEN Emptied(w) ELSE w

PutOps(e, c, n) ==
    [e EXCEPT !.tokens = @ \o <<128 + 32 * c.level + n \div Byte^2>> \o TwoBytes(n % Byte^2)
                           \o TwoBytes(Len(e.digits) - 1)
                           \o (IF c.level >= 2 THEN <<PropertyByte(c.p)>> ELSE <<>>) \o e.digits]

AfterOps(e, c, before) == PutOps(e, c, Len(e.text) - before - 1)

OpsChunk(w, c) ==
    AfterOps(WriteStream(NewDict(NewProps(NewModel(w, c), c), c), c.ops), c, IF c.level = 3 THEN 0 ELSE Len(w.text))

EndChunks(w) == [w EXCEPT !.tokens = Append(@, 0)]

WriteChunks(chunks) ==
    EndChunks(FoldLeft(LAMBDA w, c : IF c.level < 0 THEN RawChunk(w, c) ELSE OpsChunk(w, c),
                       Writer(<<0, 0, 0>>), chunks))

-----------------------------------------------------------------------------
(***************************************************************************)
(* Deflate64 as RFC 1951 has it, with the alphabets of this scale.  A      *)
(* block is a record: kind 0 with its bytes; kind 1 or 2 with operations;  *)
(* kind 2 also with the code lengths of both alphabets as the runs they    *)
(* are written in, of which the first literals are the literals', and with *)
(* the lengths of the codes those runs are written in.                     *)
(***************************************************************************)
LowFirst(v, n)  == [i \in 1..n |-> BitAt(v, i - 1)]
HighFirst(v, n) == [i \in 1..n |-> BitAt(v, n - i)]

\* The codes of one length are consecutive in the symbols' order and begin after
\* twice the last code of the length before.
Using(lengths, n) == {t \in DOMAIN lengths : lengths[t] = n}
CodeBits(lengths, s) ==
    LET n == lengths[s + 1]
        first == FoldLeft(LAMBDA code, m : 2 * (code + Cardinality(Using(lengths, m))), 0, Upto(n - 1))
    IN  HighFirst(first + Cardinality({t \in Using(lengths, n) : t <= s}), n)

\* A run is <<symbol, bits, extra, lengths>>: what is written and what it stands for.
Plain(n)        == <<n, 0, 0, <<n>>>>
Again(n, times) == <<RepeatPrevious, 2, times - 3, [i \in 1..times |-> n]>>
Zeros(times)    == IF times < 11 THEN <<ShortZeros, 3, times - 3, [i \in 1..times |-> 0]>>
                   ELSE <<LongZeros, 4, times - 11, [i \in 1..times |-> 0]>>

RunLengths(b) == FlattenSeq([i \in DOMAIN b.runs |-> b.runs[i][4]])

LiteralLengths(b) ==
    IF b.kind = 2 THEN SubSeq(RunLengths(b), 1, b.literals)
    ELSE [s \in 1..24 |-> CASE s <= 8 -> 5 [] s \in 9..16 -> 6 [] s \in 17..20 -> 3 [] OTHER -> 5]
DistanceLengths(b) ==
    IF b.kind = 2 THEN SubSeq(RunLengths(b), b.literals + 1, Len(RunLengths(b))) ELSE [s \in 1..8 |-> 3]

\* Code lengths that are zero at the end of their order are left out.
CodeCount(b) == CHOOSE n \in 4..11 : /\ n = 4 \/ b.codes[CODE_LENGTH_ORDER[n] + 1] # 0
                                     /\ \A i \in (n + 1)..11 : b.codes[CODE_LENGTH_ORDER[i] + 1] = 0

TreesBits(b) ==
    LowFirst(b.literals - 17, 3) \o LowFirst(Len(RunLengths(b)) - b.literals - 1, 3) \o LowFirst(CodeCount(b) - 4, 3)
    \o FlattenSeq([i \in 1..CodeCount(b) |-> LowFirst(b.codes[CODE_LENGTH_ORDER[i] + 1], 3)])
    \o FlattenSeq([i \in DOMAIN b.runs |-> CodeBits(b.codes, b.runs[i][1]) \o LowFirst(b.runs[i][3], b.runs[i][2])])

\* op.k = 1 asks for the last length symbol where a shorter one would do.
LengthSymbol(op) ==
    IF op.k = 1 \/ op.length > 8 THEN 5 ELSE CASE op.length = 3 -> 1 [] op.length = 4 -> 2 [] op.length \in 5..6 -> 3 [] OTHER -> 4
DistanceSymbol(op) == CHOOSE k \in 1..8 : op.offset + 1 \in DISTANCE_BASE[k]..(DISTANCE_BASE[k] + 2^DISTANCE_EXTRA[k] - 1)

SymbolBits(literals, distances, op) ==
    LET l == LengthSymbol(op)
        k == DistanceSymbol(op)
    IN  IF op.kind = "literal" THEN CodeBits(literals, op.byte)
        ELSE CodeBits(literals, 16 + l) \o LowFirst(op.length - LENGTH_BASE[l], LENGTH_EXTRA[l])
             \o CodeBits(distances, k - 1) \o LowFirst(op.offset + 1 - DISTANCE_BASE[k], DISTANCE_EXTRA[k])

\* What fills up a byte has no meaning.
Padded(bits) == bits \o [i \in 1..((-Len(bits)) % ByteBits) |-> 1]
Digits(bits) == [i \in 1..(Len(bits) \div ByteBits) |->
                    FoldLeft(LAMBDA v, j : v + 2^(j - 1) * bits[ByteBits * (i - 1) + j], 0, Upto(ByteBits))]

BlockBits(bits, b, final) ==
    LET head == bits \o <<IF final THEN 1 ELSE 0>> \o LowFirst(b.kind, 2)
        size == Len(b.bytes)
        literals  == LiteralLengths(b)
        distances == DistanceLengths(b)
    IN  IF b.kind = 0
        THEN Padded(head) \o LowFirst(size, 8) \o LowFirst(255 - size, 8)
             \o FlattenSeq([i \in DOMAIN b.bytes |-> LowFirst(b.bytes[i], ByteBits)])
        ELSE head \o (IF b.kind = 2 THEN TreesBits(b) ELSE <<>>)
             \o FlattenSeq([i \in DOMAIN b.ops |-> SymbolBits(literals, distances, b.ops[i])]) \o CodeBits(literals, 16)

DeflateOf(blocks) ==
    Digits(Padded(FoldLeft(LAMBDA bits, i : BlockBits(bits, blocks[i], i = Len(blocks)), <<>>, Upto(Len(blocks)))))

DeflateText(blocks) ==
    FoldLeft(LAMBDA text, b :
                 IF b.kind = 0 THEN text \o b.bytes
                 ELSE FoldLeft(LAMBDA t, op : IF op.kind = "literal" THEN Append(t, op.byte)
                                              ELSE t \o Repeat(t, op.offset, op.length), text, b.ops),
             <<>>, blocks)

-----------------------------------------------------------------------------
(***************************************************************************)
(* The filters' encoders: an absolute address takes the place of a         *)
(* relative one, modulo the width of its field.                            *)
(***************************************************************************)
DeltaOf(text, distance) ==
    [i \in DOMAIN text |-> (text[i] - (IF i > distance THEN text[i - distance] ELSE 0)) % Byte]

SwapOf(text, width) ==
    [i \in DOMAIN text |->
        LET group == (i - 1) \div width
        IN  IF (group + 1) * width > Len(text) THEN text[i]
            ELSE text[2 * group * width + width + 1 - i]]

\* The field of n values at the bottom of word w, moved by an amount.
Moved(w, n, amount) == (w - (w % n)) + (((w % n) + amount) % n)

WordOf(method, b, here) ==
    CASE method = "ppc" ->
            IF b[1] \in 4..7 /\ b[4] \in {1, 5, 9, 13} THEN BigBytes(Moved(BigEndian(b), Word \div 4, here)) ELSE b
      [] method = "arm" ->
            IF b[4] = ArmOpcode THEN LittleBytes(Moved(LittleEndian(b), Byte^3, (here + 8) \div 4)) ELSE b
      [] method = "sparc" ->
            LET far  == Byte^3 \div 4                        \* displacements run from -far to far - 1
                w    == BigEndian(b)
                disp == IF w \div (Word \div 4) # 1 THEN 2 * far
                        ELSE IF w % (Word \div 4) < Word \div 8 THEN w % (Word \div 4)
                        ELSE (w % (Word \div 4)) - Word \div 4
                sum  == ((disp + here \div 4 + far) % (2 * far)) - far
            IN  IF disp \in (-far)..(far - 1) THEN BigBytes(Word \div 4 + (sum % (Word \div 4))) ELSE b

WordsOf(method, text, start) ==
    FlattenSeq([i \in 1..(Len(text) \div 4) |-> WordOf(method, At(text, 4 * (i - 1), 4), start + 4 * (i - 1))])
    \o SubSeq(text, Len(text) - (Len(text) % 4) + 1, Len(text))

ThumbOf(text, start) ==
    LET Scan(e, i) ==
            LET b == At(e.out, e.at, 4)
                field == ((b[2] % 2) * Byte + b[1]) * 2 * Byte + (b[4] % 2) * Byte + b[3]
                moved == (field + (start + e.at + 4) \div 2) % (4 * Byte^2)
            IN  IF e.at + 4 > Len(text) THEN e
                ELSE IF b[2] \in 12..13 /\ b[4] \in 14..15
                THEN [out |-> Written(e.out, e.at, <<(moved \div (2 * Byte)) % Byte, 12 + moved \div (2 * Byte^2),
                                                     moved % Byte, 14 + ((moved \div Byte) % 2)>>), at |-> e.at + 4]
                ELSE [e EXCEPT !.at = @ + 2]
    IN  FoldLeft(Scan, [out |-> text, at |-> 0], Upto(Len(text))).out

(***************************************************************************)
(* x86 as XZ Utils writes it.  An opcode less than four bytes back that    *)
(* was left alone has its high byte inside this address; two of them, or   *)
(* one whose high byte was 0 or Byte - 1, forbid the conversion, and one   *)
(* must not get such a high byte by it.                                    *)
(***************************************************************************)
X86Of(text, start) ==
    LET Address(value, here, age) ==
            LET once == Wrap(value + here)
                low  == Byte^(4 - age)
            IN  IF age > 0 /\ (once \div (low \div Byte)) % Byte \in {0, Byte - 1}
                THEN Wrap((once - (once % low)) + (low - 1 - (once % low)) + here) ELSE once
        Scan(e, i) ==
            LET b      == At(e.out, e.at + 1, 4)
                recent == {m \in e.left : e.at - m[1] < 4}
                age    == IF recent = {} THEN 0 ELSE e.at - (CHOOSE m \in recent : TRUE)[1]
                msb    == b[4] \in {0, Byte - 1}
                a      == LittleBytes(Address(LittleEndian(b), start + e.at + 5, age))
            IN  IF e.at + 5 > Len(text) THEN e
                ELSE IF e.out[e.at + 1] \notin {CallOpcode, JumpOpcode} THEN [e EXCEPT !.at = @ + 1]
                ELSE IF msb /\ Cardinality(recent) < 2 /\ \A m \in recent : ~m[2]
                THEN [out |-> Written(e.out, e.at + 1, [a EXCEPT ![4] = IF @ % 2 = 1 THEN Byte - 1 ELSE 0]),
                      at |-> e.at + 5, left |-> {}]
                ELSE [e EXCEPT !.at = @ + 1, !.left = @ \cup {<<e.at, msb>>}]
    IN  FoldLeft(Scan, [out |-> text, at |-> 0, left |-> {}], Upto(Len(text))).out

(***************************************************************************)
(* BCJ2, converting the branches at the offsets in chosen.                 *)
(***************************************************************************)
FlagOf(e, b, take) == EncodeBit(e, <<Bcj2Context(e.previous, b), IF take THEN 1 ELSE 0>>)
Bcj2Main(e, b) == [e EXCEPT !.main = Append(@, b), !.previous = b, !.at = @ + 1]
Bcj2Side(e, b, rest) ==
    LET word == BigBytes(Wrap(LittleEndian(rest) + e.at + 4))
    IN  [e EXCEPT !.at = @ + 4, !.previous = rest[4],
                  !.call = IF b = CallOpcode THEN @ \o word ELSE @,
                  !.jump = IF b = CallOpcode THEN @ ELSE @ \o word]
Bcj2Streams(e) == <<e.main, e.call, e.jump, Flushed(e)>>

Bcj2Of(text, chosen) ==
    LET Take(e) == e.at \in chosen /\ e.at + 5 <= Len(text)
        Scan(e, i) ==
            IF e.at >= Len(text) THEN e
            ELSE IF ~IsBcj2Branch(e.previous, text[e.at + 1]) THEN Bcj2Main(e, text[e.at + 1])
            ELSE IF ~Take(e) THEN Bcj2Main(FlagOf(e, text[e.at + 1], FALSE), text[e.at + 1])
            ELSE Bcj2Side(Bcj2Main(FlagOf(e, text[e.at + 1], TRUE), text[e.at + 1]), text[e.at + 1],
                          At(text, e.at + 1, 4))
    IN  Bcj2Streams(FoldLeft(Scan, [main |-> <<>>, call |-> <<>>, jump |-> <<>>, at |-> 0, previous |-> 0] @@ Encoder,
                             Upto(Len(text))))
=============================================================================
