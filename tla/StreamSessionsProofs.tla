------------------------ MODULE StreamSessionsProofs ------------------------
(***************************************************************************)
(* Proofs about the sessions of StreamSessions: what the decoders give is  *)
(* kept once and in order, is within the limits and is paid for, and the   *)
(* LZW dictionary never leads a chain astray.                              *)
(*                                                                         *)
(* The walks over blocks and frames, and the digits of a code, are defined *)
(* by recursion on a place in the input.  Every step of a walk goes        *)
(* onwards, so a descent on the rest of the input shows that the function  *)
(* exists and what its values are; the same for the concatenations that    *)
(* FlattenSeq goes through.  The invariant then says, for every place of   *)
(* the code, which of the decoder's units were kept, what was charged so   *)
(* far, and, between two codes, that every dictionary entry leads to an    *)
(* earlier one.                                                            *)
(***************************************************************************)
EXTENDS StreamSessions, WellFoundedInduction, FiniteSetTheorems, SequenceTheorems,
        TLAPS

\* A set of naturals that is not empty has a least element.
LEMMA LeastNatural ==
    ASSUME NEW S \in SUBSET Nat, S # {}
    PROVE  \E n \in S : \A m \in S : n <= m
  <1> DEFINE R == OpToRel(<, Nat)
  <1>1. IsWellFoundedOn(R, Nat)
    BY NatLessThanWellFounded
  <1>2. \E n \in S : \A m \in S : ~(<<m, n>> \in R)
    <2> HIDE DEF R
    <2> QED BY <1>1, WFMin
  <1>3. \A m, n \in Nat : ~(<<m, n>> \in R) => n <= m
    BY DEF OpToRel
  <1> QED BY <1>2, <1>3

-----------------------------------------------------------------------------
\* Places of a call: before anything is written, in the loop of a decoder, and in
\* the expansion of codes.
Opening   == {"open", "detect", "frames", "header", "memory", "prepay"}
Pumping   == {"construct", "pump", "decode", "failed", "charge", "accept", "ended"}
Expanding == {"code", "literal", "walk", "reversed"}

\* What can be written: the units of a frame, or the bytes of a text.
Element == (Nat \X Nat) \cup Nat
Unit    == [unit : Nat \X Nat, needs : Nat]

\* A sequence, whatever its elements.
IsSequence(s) == Len(s) \in Nat /\ s = [i \in 1..Len(s) |-> s[i]]

\* Which kind of call, which format and which result go with a place in the code.
Phases ==
    /\ pc \in Opening \cup Pumping \cup Expanding \cup {"coder", "extract", "done"}
    /\ pc # "done" => result = "none"
    /\ pc \in Opening \cup Expanding \cup {"extract"} => Streaming
    /\ pc = "coder" => ~Streaming
    /\ ~Streaming => format = "none"
    /\ pc \in {"header", "memory", "prepay"} \cup Expanding => format = "unix-compress"
    /\ pc \in {"frames", "extract"} \cup Pumping => format # "unix-compress"
    /\ pc \in Opening \cup {"coder"} => output = <<>> /\ frame = 0

\* Every frame that was found is a range of the input.
LayoutTyped(l) ==
    /\ IsSequence(l)
    /\ \A i \in 1..Len(l) : l[i].start \in Nat /\ l[i].end \in 0..Len(Input)

\* The variables of the loop; the decoder is always one made for its source.
Typed ==
    /\ job \in Jobs
    /\ source \in Seq(Nat) /\ \E at \in Nat : decoder = Decoded(source, at)
    /\ consumed \in Nat /\ charged_input \in Int
    /\ produced \in 0..Len(decoder.units) /\ read \in 0..produced
    /\ cursor \in Nat /\ LayoutTyped(layout) /\ frame \in 0..Len(layout)

\* The fields of a code reader.
Reader == [position : Nat, group_start : Nat, group_length : Nat, bit_offset : Nat, valid_bits : Nat]

\* Both ends of what is left of a group are multiples of the width, until the
\* group is dropped.
GroupTyped(r, width) ==
    /\ {r.position, r.group_start, r.group_length, r.bit_offset, r.valid_bits} \subseteq Nat
    /\ r.position <= LzwLength /\ r.group_start + r.group_length <= LzwLength
    /\ r.valid_bits <= r.group_length * ByteBits
    /\ \E a, b \in Nat : r.bit_offset = a * width /\ r.valid_bits = b * width /\ a <= b

\* The group was read for the current width, unless it is about to be dropped.
ReaderSound ==
    /\ code_bits \in INITIAL_CODE_BITS..maximum_code_bits /\ force_refill \in BOOLEAN
    /\ reader \in Reader
    /\ \E width \in Nat : GroupTyped(reader, width) /\ (~force_refill => width = code_bits)

\* Every entry leads to an earlier one.
DictionarySound ==
    /\ prefixes \in [0..(DictionaryEntries - 1) -> Nat] /\ suffixes \in [0..(DictionaryEntries - 1) -> Nat]
    /\ next_code \in Literals..DictionaryEntries /\ (block_mode => next_code > CLEAR_CODE)
    /\ \A c \in Literals..(next_code - 1) : prefixes[c] < c
    /\ previous_code \in (0..(next_code - 1)) \cup {NoCode}
    /\ first_character \in Nat

\* The chain of a code is walked downwards, so it is no longer than the codes
\* below its start; a code that is only being defined adds one.
ChainSound ==
    /\ code \in Nat /\ previous_code # NoCode
    /\ LastEncoded \in 0..next_code /\ LastEncoded < DictionaryEntries
    /\ pc = "walk" => /\ Len(expansion) - Flag(LastEncoded = next_code) + code < next_code
                      /\ code < next_code

\* The state of decode_lzw, by the place in the code.
LzwSound ==
    /\ expansion \in Seq(Nat) /\ Len(expansion) <= DictionaryEntries
    /\ maximum_code_bits \in INITIAL_CODE_BITS..MAXIMUM_CODE_BITS /\ block_mode \in BOOLEAN
    /\ result # Internal
    /\ pc \notin Expanding \cup {"done"} =>
          /\ expansion = <<>> /\ reader = NewReader /\ code_bits = INITIAL_CODE_BITS
          /\ force_refill = FALSE /\ previous_code = NoCode /\ first_character = 0
    /\ pc \in {"memory", "prepay"} \cup Expanding => Len(Input) >= 2
    /\ pc \in {"prepay"} \cup Expanding => ReaderSound /\ DictionarySound
    /\ pc = "literal" => code \in 0..(Literals - 1) /\ expansion = <<>>
    /\ pc \in {"walk", "reversed"} => ChainSound

\* What was charged for the frames that are finished.
FrameInput(k) == Len(FlattenSeq([i \in 1..k |-> FrameTokensOf(layout[i])]))

\* What was written is within the limits.
Admitted ==
    /\ output \in Seq(Element) /\ budget.consumed \in Int
    /\ Streaming => Len(output) <= Least(MaxEntryOutput, MaxTotalOutput)
    /\ ~Streaming => Len(output) <= job.maximum

\* What the finished frames took of the budget, the opening of the stream included.
PaidFrames == IF Streaming THEN Len(Input) + FrameInput(frame) ELSE 0

\* What a call that returned Ok has paid.
ResultPaid ==
    result = "Ok" =>
        budget.consumed >= Len(output)
                           + (IF format = "unix-compress" THEN LzwLength + DictionaryBytes
                              ELSE IF Streaming THEN Len(FlattenSeq([i \in DOMAIN layout |-> FrameTokensOf(layout[i])]))
                              ELSE consumed)
                           + (IF Streaming THEN Len(Input) ELSE 0)

\* At every place of the code, what was charged covers what was taken and written.
Paying ==
    /\ pc = "open" => budget.consumed >= charged_input /\ charged_input <= Len(Input)
    /\ pc \in {"detect", "frames", "header", "memory"} => budget.consumed >= Len(Input)
    /\ pc = "coder" => budget.consumed >= 0
    /\ pc = "extract" => budget.consumed >= Len(output) + PaidFrames
    /\ pc \in Pumping => budget.consumed >= Len(output) + PaidFrames + charged_input
    /\ pc = "accept" => budget.consumed >= Len(output) + PaidFrames + charged_input + read
    /\ pc = "prepay" => budget.consumed >= Len(Input) + DictionaryBytes + charged_input
    /\ pc \in Expanding => budget.consumed >= Len(Input) + Len(output) + LzwLength + DictionaryBytes
    /\ pc \in {"accept", "ended"} => charged_input = consumed

Paid == Paying /\ ResultPaid

\* How many of the decoder's units are kept.
Given == IF pc \in {"charge", "accept"} THEN produced - read ELSE produced

\* What the frames decode to, one of them and the first k.
FrameUnits(i) == UnitsOf(Decoded(FrameTokensOf(layout[i]), layout[i].start))

Written(k) == FlattenSeq([i \in 1..k |-> FrameUnits(i)])

\* What was written before the decoder began.
Base == IF Streaming THEN Written(frame) ELSE <<>>

\* The output ends where the decoder's units that were kept end.
Placed ==
    /\ pc = "extract" => output = Base
    /\ pc \in Pumping => output = Base \o SubSeq(UnitsOf(decoder), 1, Given)
    /\ pc \in {"charge", "accept"} /\ read = 0 => produced = Len(decoder.units)
    /\ pc \in {"failed", "ended"} => produced = Len(decoder.units)
    /\ pc = "failed" => decoder.verdict # "end"

\* A coder's decoder was made for its input.
CoderBound ==
    pc \in Pumping /\ ~Streaming =>
        /\ source = Payload /\ decoder = Decoded(source, Len(job.tokens) - Len(Payload))
        /\ start_output = 0 /\ expected = job.expected /\ HeaderVerdict = "Ok"

InOrder == Placed /\ CoderBound /\ PumpedInOrder

\* The frame being extracted is the one its decoder was made for.
FrameBound ==
    pc \in Pumping /\ Streaming =>
        /\ frame < Len(layout) /\ source = FrameTokensOf(Frame) /\ decoder = Decoded(source, Frame.start)
-----------------------------------------------------------------------------
(***************************************************************************)
(* Powers of two, from the number of subsets.                              *)
(***************************************************************************)
\* A power of two is the number of subsets of an interval.
LEMMA PowerIsCount ==
    ASSUME NEW n \in Nat
    PROVE  /\ IsFiniteSet(SUBSET (1..n)) /\ 2^n \in Nat
           /\ Cardinality(SUBSET (1..n)) = 2^n
  <1>1. IsFiniteSet(1..n) /\ Cardinality(1..n) = n
    BY FS_Interval
  <1>2. IsFiniteSet(SUBSET (1..n)) /\ Cardinality(SUBSET (1..n)) = 2^n
    BY <1>1, FS_SUBSET
  <1> QED BY <1>2, FS_CardinalityType

\* One more element doubles the subsets.
LEMMA PowerDoubles ==
    ASSUME NEW n \in Nat
    PROVE  2^(n + 1) = 2 * 2^n
  <1> DEFINE A == SUBSET (1..n)
             B == {s \cup {n + 1} : s \in A}
             f == [s \in A |-> s \cup {n + 1}]
  <1>1. IsFiniteSet(A) /\ Cardinality(A) = 2^n /\ 2^n \in Nat
    BY PowerIsCount
  <1>2. Cardinality(SUBSET (1..(n + 1))) = 2^(n + 1)
    <2>1. n + 1 \in Nat
      OBVIOUS
    <2> HIDE DEF A, B, f
    <2> QED BY <2>1, PowerIsCount
  <1>3. f \in Bijection(A, B)
    <2>1. \A s \in A : n + 1 \notin s
      OBVIOUS
    <2>2. \A s, u \in A : f[s] = f[u] => s = u
      BY <2>1
    <2>3. f \in [A -> B]
      OBVIOUS
    <2>4. \A b \in B : \E s \in A : f[s] = b
      OBVIOUS
    <2> HIDE DEF A, B, f
    <2> QED BY <2>2, <2>3, <2>4 DEF Bijection, Injection, Surjection, IsInjective
  <1>4. IsFiniteSet(B) /\ Cardinality(B) = 2^n
    <2>1. ExistsBijection(A, B)
      BY <1>3 DEF ExistsBijection
    <2> HIDE DEF A, B, f
    <2> QED BY <1>1, <2>1, FS_Bijection
  <1>5. A \cap B = {}
    OBVIOUS
  <1>6. A \cup B = SUBSET (1..(n + 1))
    <2>1. ASSUME NEW s \in SUBSET (1..(n + 1)) PROVE s \in A \cup B
      <3>1. CASE n + 1 \in s
        <4>1. s \ {n + 1} \in A /\ s = (s \ {n + 1}) \cup {n + 1}
          BY <3>1
        <4> QED BY <4>1
      <3>2. CASE n + 1 \notin s
        <4>1. s \in A
          BY <3>2
        <4> QED BY <4>1
      <3> QED BY <3>1, <3>2
    <2>2. A \cup B \subseteq SUBSET (1..(n + 1))
      <3>1. A \subseteq SUBSET (1..(n + 1))
        OBVIOUS
      <3>2. \A s \in A : s \cup {n + 1} \subseteq 1..(n + 1)
        OBVIOUS
      <3>3. B \subseteq SUBSET (1..(n + 1))
        BY <3>2
      <3> QED BY <3>1, <3>3
    <2> QED BY <2>1, <2>2
  <1>7. Cardinality(A \cup B) = Cardinality(A) + Cardinality(B) - Cardinality({})
    <2> HIDE DEF A, B, f
    <2> QED BY <1>1, <1>4, <1>5, FS_Union
  <1>8. Cardinality({}) = 0
    BY FS_EmptySet
  <1>9. 2^(n + 1) = 2^n + 2^n - 0
    <2> HIDE DEF A, B, f
    <2>1. Cardinality(A \cup B) = 2^n + 2^n - 0
      BY <1>1, <1>4, <1>7, <1>8, Zenon
    <2> QED BY <1>2, <1>6, <2>1, Zenon
  <1> DEFINE x == 2^n
             y == 2^(n + 1)
  <1>10. x \in Nat /\ y = x + x - 0
    BY <1>1, <1>9, Zenon
  <1>11. y = 2 * x
    <2> HIDE DEF x, y
    <2> QED BY <1>10
  <1> QED BY <1>11, Zenon

\* Powers of two grow.
LEMMA PowersGrow ==
    ASSUME NEW n \in Nat, NEW k \in Nat
    PROVE  2^n \in Nat /\ 2^n >= 1 /\ 2^n <= 2^(n + k)
  <1>1. \A m \in Nat : m = 0 => 2^m = 1
    <2>1. 2^0 = 1
      OBVIOUS
    <2> QED BY <2>1, Zenon
  <1>2. \A m \in Nat : 2^m \in Nat
    BY PowerIsCount
  <1>3. \A m \in Nat : 2^(m + 1) = 2 * 2^m
    BY PowerDoubles
  <1>4. \A m \in Nat : 2^m >= 1
    <2> DEFINE S == {m \in Nat : ~(2^m >= 1)}
    <2>1. SUFFICES ASSUME S # {} PROVE FALSE
      OBVIOUS
    <2>2. PICK b \in S : \A m \in S : b <= m
      <3>1. S \in SUBSET Nat
        OBVIOUS
      <3> HIDE DEF S
      <3> QED BY <3>1, <2>1, LeastNatural
    <2>3. b # 0
      BY <1>1
    <2>4. b - 1 \in Nat /\ b - 1 \notin S /\ (b - 1) + 1 = b
      BY <2>2, <2>3
    <2>5. 2^(b - 1) >= 1 /\ 2^((b - 1) + 1) = 2 * 2^(b - 1) /\ 2^(b - 1) \in Nat
      BY <2>4, <1>2, <1>3
    <2> QED BY <2>4, <2>5
  <1>5. 2^n <= 2^(n + k)
    <2> DEFINE S == {j \in Nat : ~(2^n <= 2^(n + j))}
    <2>1. SUFFICES ASSUME S # {} PROVE FALSE
      OBVIOUS
    <2>2. PICK b \in S : \A m \in S : b <= m
      <3>1. S \in SUBSET Nat
        OBVIOUS
      <3> HIDE DEF S
      <3> QED BY <3>1, <2>1, LeastNatural
    <2>3. b # 0
      <3>1. n + 0 = n /\ 2^n <= 2^n
        BY <1>2
      <3> QED BY <3>1
    <2>4. b - 1 \in Nat /\ b - 1 \notin S /\ n + b = (n + (b - 1)) + 1 /\ n + (b - 1) \in Nat
      BY <2>2, <2>3
    <2>5. 2^n <= 2^(n + (b - 1)) /\ 2^((n + (b - 1)) + 1) = 2 * 2^(n + (b - 1))
      BY <2>4, <1>3
    <2>6. 2^(n + (b - 1)) \in Nat /\ 2^n \in Nat
      BY <2>4, <1>2
    <2>7. ~(2^n <= 2^((n + (b - 1)) + 1))
      BY <2>2, <2>4
    <2> QED BY <2>5, <2>6, <2>7
  <1> QED BY <1>2, <1>4, <1>5
-----------------------------------------------------------------------------
(***************************************************************************)
(* Sequences and FlattenSeq.                                               *)
(***************************************************************************)
\* A sequence is a sequence over its own elements.
LEMMA SequenceOverRange ==
    ASSUME NEW s, IsSequence(s)
    PROVE  /\ DOMAIN s = 1..Len(s)
           /\ s \in Seq({s[i] : i \in 1..Len(s)})
  <1> DEFINE S == {s[i] : i \in 1..Len(s)}
  <1>1. s \in [1..Len(s) -> S] /\ Len(s) \in Nat
    BY DEF IsSequence
  <1> QED BY <1>1

\* A mapped sequence.
LEMMA MappedSequence ==
    ASSUME NEW n \in Nat, NEW T, NEW f \in [1..n -> T]
    PROVE  f \in Seq(T) /\ Len(f) = n
  OBVIOUS

\* The beginning of a sequence, as a function.
LEMMA BeginningIsMapped ==
    ASSUME NEW T, NEW s \in Seq(T), NEW k \in 0..Len(s)
    PROVE  /\ SubSeq(s, 1, k) = [i \in 1..k |-> s[i]]
           /\ SubSeq(s, 1, k) \in Seq(T) /\ Len(SubSeq(s, 1, k)) = k
  <1>1. \A i \in 1..k : s[i] \in T
    OBVIOUS
  <1>2. /\ SubSeq(s, 1, k) \in Seq(T) /\ Len(SubSeq(s, 1, k)) = k
        /\ \A i \in 1..k : SubSeq(s, 1, k)[i] = s[i]
    BY <1>1, SubSeqProperties
  <1> DEFINE u == SubSeq(s, 1, k)
             v == [i \in 1..k |-> s[i]]
  <1>3. v \in Seq(T) /\ Len(v) = k
    OBVIOUS
  <1>4. u = v
    <2>1. \A i \in 1..k : u[i] = v[i]
      BY <1>2
    <2>2. u \in Seq(T) /\ Len(u) = k
      BY <1>2
    <2> HIDE DEF u, v
    <2> QED BY <1>3, <2>1, <2>2, SeqEqual
  <1> QED BY <1>2, <1>4

\* g holds the partial concatenations of s, as FlattenSeq defines them.
Concats(s, g) == g = [i \in 1..Len(s) |-> IF i = 1 THEN s[i] ELSE g[i - 1] \o s[i]]

\* Partial concatenations exist.
LEMMA ConcatsExist ==
    ASSUME NEW T, NEW s \in Seq(Seq(T))
    PROVE  \E g \in [1..Len(s) -> Seq(T)] : Concats(s, g)
  <1> DEFINE Upto(g, m) == \A i \in 1..m : g[i] = IF i = 1 THEN s[i] ELSE g[i - 1] \o s[i]
             Failing == {m \in 0..Len(s) : ~\E g \in [1..m -> Seq(T)] : Upto(g, m)}
  <1>1. Failing = {}
    <2>1. SUFFICES ASSUME Failing # {} PROVE FALSE
      OBVIOUS
    <2>2. PICK b \in Failing : \A m \in Failing : b <= m
      <3>1. Failing \in SUBSET Nat
        OBVIOUS
      <3> HIDE DEF Failing
      <3> QED BY <3>1, <2>1, LeastNatural
    <2>3. b # 0
      <3>1. [i \in 1..0 |-> <<>>] \in [1..0 -> Seq(T)] /\ Upto([i \in 1..0 |-> <<>>], 0)
        OBVIOUS
      <3> QED BY <3>1
    <2>4. b - 1 \in 0..Len(s) /\ b - 1 \notin Failing /\ b \in 1..Len(s)
      <3>1. b \in 0..Len(s) /\ Len(s) \in Nat
        OBVIOUS
      <3> HIDE DEF Failing
      <3> QED BY <2>2, <2>3, <3>1
    <2>5. PICK g \in [1..(b - 1) -> Seq(T)] : Upto(g, b - 1)
      BY <2>4
    <2> DEFINE h == [i \in 1..b |-> IF i = b THEN (IF b = 1 THEN s[b] ELSE g[b - 1] \o s[b]) ELSE g[i]]
    <2>6. s[b] \in Seq(T) /\ (b # 1 => g[b - 1] \in Seq(T))
      BY <2>4
    <2>7. b # 1 => g[b - 1] \o s[b] \in Seq(T)
      BY <2>6, ConcatProperties
    <2>8. h \in [1..b -> Seq(T)]
      BY <2>4, <2>6, <2>7
    <2>9. Upto(h, b)
      <3>1. \A i \in 1..(b - 1) : h[i] = g[i]
        <4>1. \A i \in 1..(b - 1) : i \in 1..b /\ i # b
          BY <2>4
        <4> QED BY <4>1
      <3>2. h[b] = IF b = 1 THEN s[b] ELSE g[b - 1] \o s[b]
        BY <2>4
      <3>3. b # 1 => h[b - 1] = g[b - 1]
        BY <3>1, <2>4
      <3>4. \A i \in 1..b : i = b \/ (i \in 1..(b - 1) /\ (i # 1 => i - 1 \in 1..(b - 1)))
        BY <2>4
      <3> HIDE DEF h
      <3> QED BY <2>5, <3>1, <3>2, <3>3, <3>4
    <2> QED BY <2>2, <2>8, <2>9
  <1>2. Len(s) \notin Failing /\ Len(s) \in 0..Len(s)
    <2>1. Len(s) \in Nat
      OBVIOUS
    <2> HIDE DEF Failing
    <2> QED BY <1>1, <2>1
  <1>3. PICK g \in [1..Len(s) -> Seq(T)] : Upto(g, Len(s))
    BY <1>2
  <1>4. Concats(s, g)
    <2> DEFINE v == [i \in 1..Len(s) |-> IF i = 1 THEN s[i] ELSE g[i - 1] \o s[i]]
    <2>1. \A i \in 1..Len(s) : g[i] = v[i]
      BY <1>3
    <2>2. g = v
      BY <2>1
    <2> QED BY <2>2 DEF Concats
  <1> QED BY <1>3, <1>4

\* Two functions that agree, and a sequence that another one begins with.
SameUpto(n, f, g) == \A i \in 1..n : f[i] = g[i]

Begins(u, s) == Len(u) <= Len(s) /\ SameUpto(Len(u), s, u)

\* They are the only ones, as far as two sequences agree.
LEMMA ConcatsAgree ==
    ASSUME NEW T, NEW s \in Seq(Seq(T)), NEW u \in Seq(Seq(T)), Begins(u, s),
           NEW g, NEW h, Concats(s, g), Concats(u, h)
    PROVE  SameUpto(Len(u), g, h)
  <1> DEFINE n == Len(u)
  <1> DEFINE Failing == {i \in 1..n : g[i] # h[i]}
  <1>1. SUFFICES ASSUME Failing # {} PROVE FALSE
    BY DEF SameUpto
  <1>2. PICK b \in Failing : \A m \in Failing : b <= m
    <2>1. Failing \in SUBSET Nat
      OBVIOUS
    <2> HIDE DEF Failing
    <2> QED BY <2>1, <1>1, LeastNatural
  <1>3. /\ g[b] = IF b = 1 THEN s[b] ELSE g[b - 1] \o s[b]
        /\ h[b] = IF b = 1 THEN u[b] ELSE h[b - 1] \o u[b]
    <2>1. b \in 1..Len(s) /\ b \in 1..Len(u)
      BY DEF Begins, SameUpto
    <2> QED BY <2>1 DEF Concats
  <1>4. b # 1 => g[b - 1] = h[b - 1]
    BY <1>2
  <1>5. s[b] = u[b]
    BY DEF Begins, SameUpto
  <1> QED BY <1>3, <1>4, <1>5

\* FlattenSeq is the last of the partial concatenations.
LEMMA FlattenIsLast ==
    ASSUME NEW T, NEW s \in Seq(Seq(T)), s # <<>>
    PROVE  \E g \in [1..Len(s) -> Seq(T)] : Concats(s, g) /\ FlattenSeq(s) = g[Len(s)]
  <1>0. Len(s) \in Nat /\ Len(s) # 0
    OBVIOUS
  <1> DEFINE c == CHOOSE g : g = [i \in 1..Len(s) |-> IF i = 1 THEN s[i] ELSE g[i - 1] \o s[i]]
  <1>1. FlattenSeq(s) = c[Len(s)]
    BY <1>0 DEF FlattenSeq
  <1>2. PICK g \in [1..Len(s) -> Seq(T)] : Concats(s, g)
    BY ConcatsExist
  <1>3. Concats(s, c)
    <2>1. \E h : h = [i \in 1..Len(s) |-> IF i = 1 THEN s[i] ELSE h[i - 1] \o s[i]]
      BY <1>2 DEF Concats
    <2>2. c = [i \in 1..Len(s) |-> IF i = 1 THEN s[i] ELSE c[i - 1] \o s[i]]
      BY <2>1, Zenon
    <2> HIDE DEF c
    <2> QED BY <2>2 DEF Concats
  <1>4. \A i \in 1..Len(s) : c[i] = g[i]
    <2>1. Begins(s, s)
      BY <1>0 DEF Begins, SameUpto
    <2> HIDE DEF c
    <2>2. SameUpto(Len(s), c, g)
      BY <1>2, <1>3, <2>1, ConcatsAgree
    <2> QED BY <2>2 DEF SameUpto
  <1>5. Len(s) \in 1..Len(s)
    BY <1>0
  <1> HIDE DEF c
  <1> QED BY <1>1, <1>2, <1>4, <1>5

\* The concatenation of sequences is one.
LEMMA FlattenType ==
    ASSUME NEW T, NEW s \in Seq(Seq(T))
    PROVE  FlattenSeq(s) \in Seq(T)
  <1>1. CASE s = <<>>
    <2>1. Len(s) = 0
      BY <1>1
    <2>2. FlattenSeq(s) = <<>>
      BY <1>1, <2>1 DEF FlattenSeq
    <2> QED BY <2>2
  <1>2. CASE s # <<>>
    <2>1. PICK g \in [1..Len(s) -> Seq(T)] : Concats(s, g) /\ FlattenSeq(s) = g[Len(s)]
      BY <1>2, FlattenIsLast
    <2>2. Len(s) \in 1..Len(s)
      BY <1>2
    <2> QED BY <2>1, <2>2
  <1> QED BY <1>1, <1>2

\* Nothing is the concatenation of nothing.
LEMMA FlattenEmpty == ASSUME NEW s, s = <<>> PROVE FlattenSeq(s) = <<>>
  <1>1. Len(s) = 0
    OBVIOUS
  <1> QED BY <1>1 DEF FlattenSeq

\* One sequence more.
LEMMA FlattenLast ==
    ASSUME NEW T, NEW s \in Seq(Seq(T)), NEW u \in Seq(Seq(T)), Len(s) = Len(u) + 1,
           \A i \in 1..Len(u) : s[i] = u[i]
    PROVE  FlattenSeq(s) = FlattenSeq(u) \o s[Len(s)]
  <1>0. Len(s) \in Nat /\ Len(u) \in Nat /\ s # <<>> /\ Len(s) \in 1..Len(s) /\ s[Len(s)] \in Seq(T)
    OBVIOUS
  <1>1. PICK g \in [1..Len(s) -> Seq(T)] : Concats(s, g) /\ FlattenSeq(s) = g[Len(s)]
    BY <1>0, FlattenIsLast
  <1>2. g[Len(s)] = IF Len(s) = 1 THEN s[Len(s)] ELSE g[Len(s) - 1] \o s[Len(s)]
    BY <1>0, <1>1 DEF Concats
  <1>3. CASE u = <<>>
    <2>1. FlattenSeq(u) = <<>> /\ Len(s) = 1
      BY <1>3, FlattenEmpty
    <2>2. <<>> \o s[Len(s)] = s[Len(s)]
      BY <1>0, ConcatEmptySeq
    <2> QED BY <1>1, <1>2, <2>1, <2>2
  <1>4. CASE u # <<>>
    <2>1. PICK h \in [1..Len(u) -> Seq(T)] : Concats(u, h) /\ FlattenSeq(u) = h[Len(u)]
      BY <1>4, FlattenIsLast
    <2>2. \A i \in 1..Len(u) : g[i] = h[i]
      <3>1. Begins(u, s)
        BY <1>0 DEF Begins, SameUpto
      <3>2. SameUpto(Len(u), g, h)
        BY <1>1, <2>1, <3>1, ConcatsAgree
      <3> QED BY <3>2 DEF SameUpto
    <2>3. Len(u) \in 1..Len(u) /\ Len(s) # 1 /\ Len(s) - 1 = Len(u)
      BY <1>0, <1>4
    <2> QED BY <1>1, <1>2, <2>1, <2>2, <2>3
  <1> QED BY <1>3, <1>4

\* Beginnings, one sequence longer.
LEMMA FlattenBeginning ==
    ASSUME NEW T, NEW s \in Seq(Seq(T)), NEW k \in 1..Len(s)
    PROVE  /\ FlattenSeq(SubSeq(s, 1, k)) = FlattenSeq(SubSeq(s, 1, k - 1)) \o s[k]
           /\ FlattenSeq(SubSeq(s, 1, k)) \in Seq(T) /\ FlattenSeq(SubSeq(s, 1, k - 1)) \in Seq(T)
  <1> DEFINE a == SubSeq(s, 1, k)
             b == SubSeq(s, 1, k - 1)
  <1>1. a \in Seq(Seq(T)) /\ Len(a) = k /\ a = [i \in 1..k |-> s[i]]
    <2>1. k \in 0..Len(s)
      OBVIOUS
    <2> QED BY <2>1, BeginningIsMapped
  <1>2. b \in Seq(Seq(T)) /\ Len(b) = k - 1 /\ b = [i \in 1..(k - 1) |-> s[i]]
    <2>1. k - 1 \in 0..Len(s)
      OBVIOUS
    <2> QED BY <2>1, BeginningIsMapped
  <1>3. \A i \in 1..Len(b) : a[i] = b[i]
    BY <1>1, <1>2
  <1>4. a[Len(a)] = s[k]
    BY <1>1
  <1>5. Len(a) = Len(b) + 1
    BY <1>1, <1>2
  <1> HIDE DEF a, b
  <1>6. FlattenSeq(a) = FlattenSeq(b) \o s[k]
    BY <1>1, <1>2, <1>3, <1>4, <1>5, FlattenLast
  <1>7. FlattenSeq(a) \in Seq(T) /\ FlattenSeq(b) \in Seq(T)
    BY <1>1, <1>2, FlattenType
  <1> QED BY <1>6, <1>7 DEF a, b

\* Sequences of the same lengths have concatenations of the same length.
LEMMA FlattenLength ==
    ASSUME NEW T, NEW s \in Seq(Seq(T)), NEW u \in Seq(Seq(T)), Len(s) = Len(u),
           \A i \in 1..Len(s) : Len(s[i]) = Len(u[i])
    PROVE  Len(FlattenSeq(s)) = Len(FlattenSeq(u))
  <1> DEFINE Failing == {k \in 0..Len(s) : Len(FlattenSeq(SubSeq(s, 1, k))) # Len(FlattenSeq(SubSeq(u, 1, k)))}
  <1>1. Failing = {}
    <2>1. SUFFICES ASSUME Failing # {} PROVE FALSE
      OBVIOUS
    <2>2. PICK b \in Failing : \A m \in Failing : b <= m
      <3>1. Failing \in SUBSET Nat
        OBVIOUS
      <3> HIDE DEF Failing
      <3> QED BY <3>1, <2>1, LeastNatural
    <2>3. b # 0
      <3>1. SubSeq(s, 1, 0) = <<>> /\ SubSeq(u, 1, 0) = <<>>
        BY SubSeqEmpty
      <3> QED BY <3>1
    <2>4. b \in 1..Len(s) /\ b \in 1..Len(u) /\ b - 1 \in 0..Len(s) /\ b - 1 \notin Failing
      BY <2>2, <2>3
    <2>5. Len(FlattenSeq(SubSeq(s, 1, b - 1))) = Len(FlattenSeq(SubSeq(u, 1, b - 1)))
      BY <2>4
    <2>6. /\ FlattenSeq(SubSeq(s, 1, b)) = FlattenSeq(SubSeq(s, 1, b - 1)) \o s[b]
          /\ FlattenSeq(SubSeq(s, 1, b - 1)) \in Seq(T)
      BY <2>4, FlattenBeginning
    <2>7. /\ FlattenSeq(SubSeq(u, 1, b)) = FlattenSeq(SubSeq(u, 1, b - 1)) \o u[b]
          /\ FlattenSeq(SubSeq(u, 1, b - 1)) \in Seq(T)
      BY <2>4, FlattenBeginning
    <2>8. s[b] \in Seq(T) /\ u[b] \in Seq(T) /\ Len(s[b]) = Len(u[b])
      BY <2>4
    <2>9. /\ Len(FlattenSeq(SubSeq(s, 1, b))) = Len(FlattenSeq(SubSeq(s, 1, b - 1))) + Len(s[b])
          /\ Len(FlattenSeq(SubSeq(u, 1, b))) = Len(FlattenSeq(SubSeq(u, 1, b - 1))) + Len(u[b])
      <3>1. Len(FlattenSeq(SubSeq(s, 1, b))) = Len(FlattenSeq(SubSeq(s, 1, b - 1))) + Len(s[b])
        <4> DEFINE x == FlattenSeq(SubSeq(s, 1, b - 1))
                   y == s[b]
        <4>1. x \in Seq(T) /\ y \in Seq(T) /\ FlattenSeq(SubSeq(s, 1, b)) = x \o y
          BY <2>6, <2>8
        <4> HIDE DEF x, y
        <4>2. Len(x \o y) = Len(x) + Len(y)
          BY <4>1, ConcatProperties
        <4> QED BY <4>1, <4>2 DEF x, y
      <3>2. Len(FlattenSeq(SubSeq(u, 1, b))) = Len(FlattenSeq(SubSeq(u, 1, b - 1))) + Len(u[b])
        <4> DEFINE x == FlattenSeq(SubSeq(u, 1, b - 1))
                   y == u[b]
        <4>1. x \in Seq(T) /\ y \in Seq(T) /\ FlattenSeq(SubSeq(u, 1, b)) = x \o y
          BY <2>7, <2>8
        <4> HIDE DEF x, y
        <4>2. Len(x \o y) = Len(x) + Len(y)
          BY <4>1, ConcatProperties
        <4> QED BY <4>1, <4>2 DEF x, y
      <3> QED BY <3>1, <3>2
    <2> QED BY <2>2, <2>5, <2>8, <2>9
  <1>2. Len(s) \in 0..Len(s) /\ Len(s) \notin Failing
    BY <1>1
  <1>3. SubSeq(s, 1, Len(s)) = s /\ SubSeq(u, 1, Len(s)) = u
    BY SubSeqFull
  <1> QED BY <1>2, <1>3

\* What was concatenated stays a beginning.
LEMMA FlattenExtends ==
    ASSUME NEW T, NEW s \in Seq(Seq(T)), NEW k \in 0..Len(s)
    PROVE  \E t \in Seq(T) : FlattenSeq(s) = FlattenSeq(SubSeq(s, 1, k)) \o t
  <1> DEFINE A == FlattenSeq(SubSeq(s, 1, k))
             Failing == {n \in k..Len(s) : ~\E t \in Seq(T) : FlattenSeq(SubSeq(s, 1, n)) = A \o t}
  <1>0. A \in Seq(T)
    <2>1. SubSeq(s, 1, k) \in Seq(Seq(T))
      BY BeginningIsMapped
    <2> QED BY <2>1, FlattenType
  <1>1. Failing = {}
    <2>1. SUFFICES ASSUME Failing # {} PROVE FALSE
      OBVIOUS
    <2>2. PICK b \in Failing : \A m \in Failing : b <= m
      <3>1. Failing \in SUBSET Nat
        OBVIOUS
      <3> HIDE DEF Failing
      <3> QED BY <3>1, <2>1, LeastNatural
    <2>3. b # k
      <3>1. A \o <<>> = A /\ <<>> \in Seq(T)
        BY <1>0, ConcatEmptySeq
      <3> HIDE DEF A
      <3> QED BY <3>1 DEF A
    <2>4. b \in 1..Len(s) /\ b - 1 \in k..Len(s) /\ b - 1 \notin Failing
      <3>1. b \in k..Len(s) /\ Len(s) \in Nat
        OBVIOUS
      <3> HIDE DEF Failing
      <3> QED BY <2>2, <2>3, <3>1
    <2>5. PICK t \in Seq(T) : FlattenSeq(SubSeq(s, 1, b - 1)) = A \o t
      BY <2>4
    <2>6. FlattenSeq(SubSeq(s, 1, b)) = FlattenSeq(SubSeq(s, 1, b - 1)) \o s[b]
      BY <2>4, FlattenBeginning
    <2>7. s[b] \in Seq(T)
      BY <2>4
    <2>8. (A \o t) \o s[b] = A \o (t \o s[b]) /\ t \o s[b] \in Seq(T)
      <3> HIDE DEF A
      <3>1. (A \o t) \o s[b] = A \o (t \o s[b])
        <4> DEFINE y == s[b]
        <4>1. y \in Seq(T) /\ t \in Seq(T)
          BY <2>7
        <4>2. A \in Seq(T)
          BY <1>0
        <4> HIDE DEF y
        <4>3. (A \o t) \o y = A \o (t \o y)
          <5>1. \A f, g, h \in Seq(T) : (f \o g) \o h = f \o (g \o h)
            BY ConcatAssociative
          <5> QED BY <4>1, <4>2, <5>1
        <4> QED BY <4>3 DEF y
      <3>2. t \o s[b] \in Seq(T)
        BY <2>5, <2>7, ConcatProperties
      <3> QED BY <3>1, <3>2
    <2>9. \E w \in Seq(T) : FlattenSeq(SubSeq(s, 1, b)) = A \o w
      BY <2>5, <2>6, <2>8
    <2> QED BY <2>2, <2>9
  <1>2. Len(s) \in k..Len(s) /\ Len(s) \notin Failing
    <2>1. Len(s) \in Nat
      OBVIOUS
    <2> HIDE DEF Failing
    <2> QED BY <1>1, <2>1
  <1>3. SubSeq(s, 1, Len(s)) = s
    BY SubSeqFull
  <1> QED BY <1>2, <1>3

\* A beginning is a prefix, and so is a beginning of what follows it.
LEMMA BeginningIsPrefix ==
    ASSUME NEW T, NEW s \in Seq(T), NEW t \in Seq(T)
    PROVE  IsPrefix(s, s \o t)
  <1>1. /\ s \o t \in Seq(T) /\ Len(s \o t) = Len(s) + Len(t)
        /\ \A i \in 1..Len(s) : (s \o t)[i] = s[i]
    BY ConcatProperties
  <1>2. Len(s) \in 0..Len(s) /\ Len(s) \in 0..Len(s \o t)
    BY <1>1
  <1>3. SubSeq(s, 1, Len(s)) = [i \in 1..Len(s) |-> s[i]]
    BY <1>2, BeginningIsMapped
  <1>4. SubSeq(s \o t, 1, Len(s)) = [i \in 1..Len(s) |-> (s \o t)[i]]
    BY <1>1, <1>2, BeginningIsMapped
  <1>5. [i \in 1..Len(s) |-> (s \o t)[i]] = [i \in 1..Len(s) |-> s[i]]
    BY <1>1
  <1>6. Len(s) <= Len(s \o t)
    BY <1>1
  <1> QED BY <1>3, <1>4, <1>5, <1>6 DEF IsPrefix
-----------------------------------------------------------------------------
(***************************************************************************)
(* The walks over blocks: functions defined by recursion towards greater   *)
(* places, which stops behind the last token.                              *)
(***************************************************************************)
\* A place in the input, as a walk counts them.
Place == Nat \ {0}

\* From every place where it does not stop, a walk goes on at a greater one.
Onward(n, Stop, next) == \A p \in Place : p \notin Stop => p <= n /\ next[p] > p

\* What the recursion defines.
Solved(f, Stop, value, join, next) ==
    \A p \in Place : f[p] = IF p \in Stop THEN value[p] ELSE join[<<p, f[next[p]]>>]

\* Such a recursion has a solution.
LEMMA WalkExists ==
    ASSUME NEW n \in Nat, NEW T, NEW Stop, NEW next \in [Place -> Place], NEW value \in [Place -> T],
           NEW join \in [Place \X T -> T], Onward(n, Stop, next)
    PROVE  \E f \in [Place -> T] : Solved(f, Stop, value, join, next)
  <1> DEFINE Solves(f, p) == f[p] = IF p \in Stop THEN value[p] ELSE join[<<p, f[next[p]]>>]
             Failing == {m \in Nat : ~\E f \in [Place -> T] : \A p \in Place : p > n - m => Solves(f, p)}
  <1>1. Failing = {}
    <2>1. SUFFICES ASSUME Failing # {} PROVE FALSE
      OBVIOUS
    <2>2. PICK b \in Failing : \A m \in Failing : b <= m
      <3>1. Failing \in SUBSET Nat
        OBVIOUS
      <3> HIDE DEF Failing
      <3> QED BY <3>1, <2>1, LeastNatural
    <2>3. b # 0
      <3>1. \A p \in Place : p > n - 0 => p \in Stop
        BY DEF Onward, Place
      <3>2. \A p \in Place : p > n - 0 => Solves(value, p)
        BY <3>1
      <3>3. 0 \notin Failing
        BY <3>2
      <3> QED BY <3>3
    <2>4. b - 1 \in Nat /\ b - 1 \notin Failing /\ b \in Nat
      <3>1. b \in Nat
        OBVIOUS
      <3> HIDE DEF Failing
      <3> QED BY <2>2, <2>3, <3>1
    <2>5. PICK f \in [Place -> T] : \A p \in Place : p > n - (b - 1) => Solves(f, p)
      BY <2>4
    <2> DEFINE v == [p \in Place |-> IF p \in Stop THEN value[p] ELSE join[<<p, f[next[p]]>>]]
               h == [p \in Place |-> IF p > n - (b - 1) THEN f[p] ELSE v[p]]
    <2>6. v \in [Place -> T]
      <3>1. \A p \in Place : <<p, f[next[p]]>> \in Place \X T
        OBVIOUS
      <3> QED BY <3>1
    <2>7. h \in [Place -> T]
      <3> HIDE DEF v
      <3> QED BY <2>6
    <2>8. ASSUME NEW p \in Place, p > n - b PROVE Solves(h, p)
      <3>1. CASE p \in Stop
        <4>1. v[p] = value[p] /\ (p > n - (b - 1) => f[p] = value[p])
          BY <3>1, <2>5
        <4> HIDE DEF v
        <4> QED BY <3>1, <4>1
      <3>2. CASE p \notin Stop
        <4>1. next[p] \in Place /\ next[p] > p /\ p \in Nat /\ next[p] \in Nat
          BY <3>2 DEF Onward, Place
        <4>2. next[p] > n - (b - 1)
          BY <4>1, <2>4, <2>8
        <4>3. h[next[p]] = f[next[p]]
          BY <4>1, <4>2
        <4>4. v[p] = join[<<p, f[next[p]]>>] /\ (p > n - (b - 1) => f[p] = join[<<p, f[next[p]]>>])
          BY <3>2, <2>5
        <4>5. h[p] = join[<<p, f[next[p]]>>]
          <5> HIDE DEF v
          <5> QED BY <4>4
        <4> HIDE DEF h, v
        <4> QED BY <3>2, <4>3, <4>5
      <3> QED BY <3>1, <3>2
    <2>9. b \notin Failing
      <3> HIDE DEF h, v
      <3> QED BY <2>4, <2>7, <2>8
    <2> QED BY <2>9
  <1>2. PICK f \in [Place -> T] : \A p \in Place : p > n - n => Solves(f, p)
    <2>1. n \notin Failing
      <3> HIDE DEF Failing
      <3> QED BY <1>1
    <2> QED BY <2>1
  <1>3. \A p \in Place : p > n - n
    BY DEF Place
  <1>4. Solved(f, Stop, value, join, next)
    BY <1>2, <1>3 DEF Solved
  <1> QED BY <1>4

\* g is in T at p if it is where the walk goes on.
KeptBackwards(g, T, Stop, next) == \A p \in Place : (p \in Stop \/ g[next[p]] \in T) => g[p] \in T

\* What a solution is made of decides what it is, everywhere.
LEMMA WalkKept ==
    ASSUME NEW n \in Nat, NEW T, NEW Stop, NEW next \in [Place -> Place], Onward(n, Stop, next),
           NEW g, KeptBackwards(g, T, Stop, next), NEW q \in Place
    PROVE  g[q] \in T
  <1> DEFINE Failing == {m \in Nat : \E p \in Place : p > n - m /\ g[p] \notin T}
  <1>1. SUFFICES ASSUME g[q] \notin T PROVE FALSE
    OBVIOUS
  <1>2. n \in Failing
    BY <1>1 DEF Place
  <1>3. PICK b \in Failing : \A m \in Failing : b <= m
    <2>1. Failing \in SUBSET Nat
      OBVIOUS
    <2> HIDE DEF Failing
    <2> QED BY <2>1, <1>2, LeastNatural
  <1>4. PICK p \in Place : p > n - b /\ g[p] \notin T
    OBVIOUS
  <1>5. p \notin Stop /\ g[next[p]] \notin T
    BY <1>4 DEF KeptBackwards
  <1>6. next[p] > p /\ p <= n /\ next[p] \in Nat /\ p \in Nat /\ b \in Nat
    BY <1>5 DEF Onward, Place
  <1>7. b - 1 \in Nat
    BY <1>4, <1>6
  <1>8. next[p] > n - (b - 1)
    BY <1>4, <1>6
  <1>9. b - 1 \in Failing
    BY <1>5, <1>7, <1>8
  <1> HIDE DEF Failing
  <1> QED BY <1>3, <1>6, <1>9

\* Walks that collect a piece at every place, and walks that look for an end.
Collects(g, Stop, value, piece, next) ==
    g = [p \in Place |-> IF p \in Stop THEN value[p] ELSE piece[p] \o g[next[p]]]

\* A walk that returns the value it stops at.
Ends(g, Stop, value, next) == g = [p \in Place |-> IF p \in Stop THEN value[p] ELSE g[next[p]]]

\* Both are defined, and pieces give a sequence.
LEMMA CollectsExists ==
    ASSUME NEW n \in Nat, NEW T, NEW Stop, NEW next \in [Place -> Place], NEW value \in [Place -> Seq(T)],
           NEW piece \in [Place -> Seq(T)], Onward(n, Stop, next)
    PROVE  \E f : Collects(f, Stop, value, piece, next)
  <1> DEFINE join == [x \in Place \X Seq(T) |-> piece[x[1]] \o x[2]]
  <1>1. join \in [Place \X Seq(T) -> Seq(T)]
    <2>1. ASSUME NEW x \in Place \X Seq(T) PROVE piece[x[1]] \o x[2] \in Seq(T)
      <3>1. piece[x[1]] \in Seq(T) /\ x[2] \in Seq(T)
        OBVIOUS
      <3> QED BY <3>1, ConcatProperties
    <2> QED BY <2>1
  <1>2. PICK f \in [Place -> Seq(T)] : Solved(f, Stop, value, join, next)
    <2> HIDE DEF join
    <2> QED BY <1>1, WalkExists
  <1>3. \A p \in Place : join[<<p, f[next[p]]>>] = piece[p] \o f[next[p]]
    <2> TAKE p \in Place
    <2> DEFINE y == f[next[p]]
    <2>1. y \in Seq(T)
      BY <1>2
    <2> HIDE DEF y
    <2>2. join[<<p, y>>] = piece[p] \o y
      BY <2>1
    <2> QED BY <2>2 DEF y
  <1>4. f = [p \in Place |-> IF p \in Stop THEN value[p] ELSE piece[p] \o f[next[p]]]
    <2> HIDE DEF join
    <2>1. \A p \in Place : f[p] = IF p \in Stop THEN value[p] ELSE piece[p] \o f[next[p]]
      BY <1>2, <1>3 DEF Solved
    <2> QED BY <2>1
  <1> QED BY <1>4 DEF Collects

\* What such a walk collects.
LEMMA CollectsTyped ==
    ASSUME NEW n \in Nat, NEW T, NEW Stop, NEW next \in [Place -> Place], NEW value \in [Place -> Seq(T)],
           NEW piece \in [Place -> Seq(T)], Onward(n, Stop, next), NEW g, Collects(g, Stop, value, piece, next),
           NEW q \in Place
    PROVE  g[q] \in Seq(T)
  <1>1. ASSUME NEW p \in Place, p \in Stop \/ g[next[p]] \in Seq(T) PROVE g[p] \in Seq(T)
    <2>1. g[p] = IF p \in Stop THEN value[p] ELSE piece[p] \o g[next[p]]
      BY DEF Collects
    <2>2. CASE p \in Stop
      BY <2>1, <2>2
    <2>3. CASE p \notin Stop
      <3>1. g[next[p]] \in Seq(T) /\ piece[p] \in Seq(T)
        BY <1>1, <2>3
      <3>2. piece[p] \o g[next[p]] \in Seq(T)
        BY <3>1, ConcatProperties
      <3> QED BY <2>1, <2>3, <3>2
    <2> QED BY <2>2, <2>3
  <1>2. KeptBackwards(g, Seq(T), Stop, next)
    BY <1>1 DEF KeptBackwards
  <1> QED BY <1>2, WalkKept

\* A walk to a single value, and what it finds.
LEMMA EndsExists ==
    ASSUME NEW n \in Nat, NEW T, NEW Stop, NEW next \in [Place -> Place], NEW value \in [Place -> T],
           Onward(n, Stop, next)
    PROVE  \E f : Ends(f, Stop, value, next)
  <1> DEFINE join == [x \in Place \X T |-> x[2]]
  <1>1. join \in [Place \X T -> T]
    OBVIOUS
  <1>2. PICK f \in [Place -> T] : Solved(f, Stop, value, join, next)
    <2> HIDE DEF join
    <2> QED BY <1>1, WalkExists
  <1>3. \A p \in Place : join[<<p, f[next[p]]>>] = f[next[p]]
    BY <1>2
  <1>4. \A p \in Place : f[p] = IF p \in Stop THEN value[p] ELSE f[next[p]]
    <2> HIDE DEF join
    <2> QED BY <1>2, <1>3 DEF Solved
  <1> QED BY <1>2, <1>4 DEF Ends

\* The value is one of those at which the walk may stop.
LEMMA EndsTyped ==
    ASSUME NEW n \in Nat, NEW T, NEW Stop, NEW next \in [Place -> Place], NEW value \in [Place -> T],
           Onward(n, Stop, next), NEW g, Ends(g, Stop, value, next), NEW q \in Place
    PROVE  g[q] \in T
  <1>1. ASSUME NEW p \in Place, p \in Stop \/ g[next[p]] \in T PROVE g[p] \in T
    <2>1. g[p] = IF p \in Stop THEN value[p] ELSE g[next[p]]
      BY DEF Ends
    <2> QED BY <1>1, <2>1
  <1>2. KeptBackwards(g, T, Stop, next)
    BY <1>1 DEF KeptBackwards
  <1> QED BY <1>2, WalkKept

-----------------------------------------------------------------------------
(***************************************************************************)
(* What the decoders make of a frame.                                      *)
(***************************************************************************)
\* The blocks of a frame.
BlockKinds == {"stored", "run", "compressed"}

Block == [kind : BlockKinds, at : Nat, payload : Seq(Nat), count : Nat, hash : Int]

\* A payload is a run of tokens.
LEMMA PayloadTyped ==
    ASSUME NEW t \in Seq(Nat), NEW p \in Place, NEW last \in Nat
    PROVE  SubSeq(t, p + 1, Least(last, Len(t))) \in Seq(Nat)
  <1>1. Least(last, Len(t)) \in Int /\ Least(last, Len(t)) <= Len(t)
    BY DEF Least
  <1>2. \A i \in (p + 1)..Least(last, Len(t)) : t[i] \in Nat
    BY <1>1 DEF Place
  <1>3. p + 1 \in Int
    BY DEF Place
  <1> QED BY <1>1, <1>2, <1>3, SubSeqProperties

\* A block of an LZ4 frame.
LEMMA Lz4BlockTyped ==
    ASSUME NEW t \in Seq(Nat), NEW p \in Place, p <= Len(t), NEW hashes \in {0, 1}
    PROVE  /\ Lz4BlockAt(t, p, hashes) \in Block
           /\ p + (t[p] % StoredBlock) + hashes + 1 \in Place
           /\ p + (t[p] % StoredBlock) + hashes + 1 > p
  <1> DEFINE size == t[p] % StoredBlock
  <1>0. p \in Nat /\ p > 0
    BY DEF Place
  <1>1. size \in Nat
    BY <1>0 DEF StoredBlock
  <1>2. Lz4BlockAt(t, p, hashes) =
           [kind |-> IF t[p] >= StoredBlock THEN "stored" ELSE "compressed",
            at |-> p + 1, payload |-> SubSeq(t, p + 1, Least(p + size, Len(t))), count |-> size,
            hash |-> IF hashes = 1 /\ p + size < Len(t) THEN t[p + size + 1] ELSE NoSize]
    BY DEF Lz4BlockAt
  <1> HIDE DEF size
  <1>3. p + size \in Nat
    BY <1>0, <1>1
  <1>4. SubSeq(t, p + 1, Least(p + size, Len(t))) \in Seq(Nat)
    BY <1>3, PayloadTyped
  <1>5. (IF hashes = 1 /\ p + size < Len(t) THEN t[p + size + 1] ELSE NoSize) \in Int
    BY <1>3 DEF NoSize
  <1>6. (IF t[p] >= StoredBlock THEN "stored" ELSE "compressed") \in BlockKinds /\ p + 1 \in Nat
    BY <1>0 DEF BlockKinds
  <1>7. Lz4BlockAt(t, p, hashes) \in Block
    BY <1>1, <1>2, <1>4, <1>5, <1>6 DEF Block
  <1>8. p + size + hashes + 1 \in Place /\ p + size + hashes + 1 > p
    BY <1>0, <1>1 DEF Place
  <1> QED BY <1>7, <1>8 DEF size

\* The blocks of an LZ4 frame.
LEMMA Lz4BlocksTyped ==
    ASSUME NEW t \in Seq(Nat), NEW from \in Place, NEW hashes \in {0, 1}
    PROVE  Lz4Blocks(t, from, hashes) \in Seq(Block)
  <1> DEFINE Stop == {p \in Place : p > Len(t) \/ t[p] = 0}
             next == [p \in Place |-> IF p \in Stop THEN 1 ELSE p + (t[p] % StoredBlock) + hashes + 1]
             value == [p \in Place |-> <<>>]
             piece == [p \in Place |-> IF p \in Stop THEN <<>> ELSE <<Lz4BlockAt(t, p, hashes)>>]
             Body(f) == [p \in Nat \ {0} |->
                            IF p > Len(t) \/ t[p] = 0 THEN <<>>
                            ELSE <<Lz4BlockAt(t, p, hashes)>> \o f[p + (t[p] % StoredBlock) + hashes + 1]]
             g == CHOOSE f : f = Body(f)
  <1>1. \A p \in Place : p <= Len(t) => /\ Lz4BlockAt(t, p, hashes) \in Block
                                       /\ p + (t[p] % StoredBlock) + hashes + 1 \in Place /\ p + (t[p] % StoredBlock) + hashes + 1 > p
    BY Lz4BlockTyped
  <1>2. \A p \in Place : p \notin Stop => p <= Len(t)
    BY DEF Place
  <1>3. next \in [Place -> Place]
    <2>1. 1 \in Place
      BY DEF Place
    <2> QED BY <1>1, <1>2, <2>1
  <1>4. Onward(Len(t), Stop, next) /\ Len(t) \in Nat
    <2>1. \A p \in Place : p \notin Stop => next[p] = p + (t[p] % StoredBlock) + hashes + 1
      OBVIOUS
    <2> HIDE DEF next, Stop
    <2> QED BY <1>1, <1>2, <2>1 DEF Onward
  <1>5. value \in [Place -> Seq(Block)]
    OBVIOUS
  <1>6. piece \in [Place -> Seq(Block)]
    BY <1>1, <1>2
  <1>7. ASSUME NEW f PROVE Body(f) = [p \in Place |-> IF p \in Stop THEN value[p] ELSE piece[p] \o f[next[p]]]
    <2>1. \A p \in Place :
             (IF p \in Stop THEN value[p] ELSE piece[p] \o f[next[p]])
             = IF p > Len(t) \/ t[p] = 0 THEN <<>>
               ELSE <<Lz4BlockAt(t, p, hashes)>> \o f[p + (t[p] % StoredBlock) + hashes + 1]
      OBVIOUS
    <2> HIDE DEF Stop, next, value, piece
    <2> QED BY <2>1 DEF Place
  <1>8. \E f : f = Body(f)
    <2>1. \E f : Collects(f, Stop, value, piece, next)
      <3> HIDE DEF Stop, next, value, piece
      <3> QED BY <1>3, <1>4, <1>5, <1>6, CollectsExists
    <2> HIDE DEF Stop, next, value, piece, Body
    <2> QED BY <1>7, <2>1 DEF Collects
  <1>9. g = Body(g)
    BY <1>8, Zenon
  <1>10. Collects(g, Stop, value, piece, next)
    <2> HIDE DEF Stop, next, value, piece, Body, g
    <2> QED BY <1>7, <1>9 DEF Collects
  <1>11. Lz4Blocks(t, from, hashes) = g[from]
    BY Zenon DEF Lz4Blocks
  <1> HIDE DEF Stop, next, value, piece, Body, g
  <1>12. g[from] \in Seq(Block)
    BY <1>3, <1>4, <1>5, <1>6, <1>10, CollectsTyped
  <1> QED BY <1>11, <1>12

\* A block of a Zstandard frame.
LEMMA ZstdBlockTyped ==
    ASSUME NEW t \in Seq(Nat), NEW p \in Place, p <= Len(t)
    PROVE  /\ ZstdBlockAt(t, p) \in Block /\ PayloadSize(t[p]) \in Nat
           /\ p + PayloadSize(t[p]) + 1 \in Place /\ p + PayloadSize(t[p]) + 1 > p
  <1>0. p \in Nat /\ p > 0
    BY DEF Place
  <1>1. t[p] \in Nat
    BY <1>0
  <1>2. BlockSize(t[p]) \in Nat
    BY <1>1 DEF BlockSize
  <1>3. PayloadSize(t[p]) \in Nat
    BY <1>2 DEF PayloadSize
  <1>4. SubSeq(t, p + 1, Least(p + PayloadSize(t[p]), Len(t))) \in Seq(Nat)
    <2>1. p + PayloadSize(t[p]) \in Nat
      BY <1>0, <1>3
    <2> QED BY <2>1, PayloadTyped
  <1>5. ZstdBlockAt(t, p).kind \in BlockKinds /\ p + 1 \in Nat /\ NoSize \in Int
    BY <1>0 DEF BlockKinds, ZstdBlockAt, NoSize
  <1>6. ZstdBlockAt(t, p) \in Block
    <2> DEFINE kind == IF BlockType(t[p]) = RunLength THEN "run"
                       ELSE IF BlockType(t[p]) = 0 THEN "stored" ELSE "compressed"
               payload == SubSeq(t, p + 1, Least(p + PayloadSize(t[p]), Len(t)))
    <2>1. ZstdBlockAt(t, p) = [kind |-> kind, at |-> p + 1, payload |-> payload,
                               count |-> BlockSize(t[p]), hash |-> NoSize]
      BY DEF ZstdBlockAt
    <2>2. kind \in BlockKinds /\ payload \in Seq(Nat)
      BY <1>4 DEF BlockKinds
    <2> HIDE DEF kind, payload
    <2> QED BY <1>2, <1>5, <2>1, <2>2 DEF Block
  <1>7. p + PayloadSize(t[p]) + 1 \in Place /\ p + PayloadSize(t[p]) + 1 > p
    BY <1>0, <1>3 DEF Place
  <1> QED BY <1>3, <1>6, <1>7

\* The blocks of a Zstandard frame.
LEMMA ZstdBlocksTyped ==
    ASSUME NEW t \in Seq(Nat), NEW from \in Place
    PROVE  ZstdBlocks(t, from) \in Seq(Block)
  <1> DEFINE Stop == {p \in Place : p > Len(t) \/ LastBlock(t[p])}
             next == [p \in Place |-> IF p \in Stop THEN 1 ELSE p + PayloadSize(t[p]) + 1]
             value == [p \in Place |-> IF p > Len(t) THEN <<>> ELSE <<ZstdBlockAt(t, p)>> \o <<>>]
             piece == [p \in Place |-> IF p \in Stop THEN <<>> ELSE <<ZstdBlockAt(t, p)>>]
             Body(f) == [p \in Nat \ {0} |->
                            IF p > Len(t) THEN <<>>
                            ELSE <<ZstdBlockAt(t, p)>> \o (IF LastBlock(t[p]) THEN <<>> ELSE f[p + PayloadSize(t[p]) + 1])]
             g == CHOOSE f : f = Body(f)
  <1>1. \A p \in Place : p <= Len(t) => /\ ZstdBlockAt(t, p) \in Block
                                       /\ p + PayloadSize(t[p]) + 1 \in Place /\ p + PayloadSize(t[p]) + 1 > p
    BY ZstdBlockTyped
  <1>2. \A p \in Place : p \notin Stop => p <= Len(t)
    BY DEF Place
  <1>3. next \in [Place -> Place]
    <2>1. 1 \in Place
      BY DEF Place
    <2> QED BY <1>1, <1>2, <2>1
  <1>4. Onward(Len(t), Stop, next) /\ Len(t) \in Nat
    <2>1. \A p \in Place : p \notin Stop => next[p] = p + PayloadSize(t[p]) + 1
      OBVIOUS
    <2> HIDE DEF next, Stop
    <2> QED BY <1>1, <1>2, <2>1 DEF Onward
  <1>5. value \in [Place -> Seq(Block)]
    <2>1. ASSUME NEW p \in Place, ~(p > Len(t)) PROVE <<ZstdBlockAt(t, p)>> \o <<>> \in Seq(Block)
      <3>1. <<ZstdBlockAt(t, p)>> \in Seq(Block) /\ <<>> \in Seq(Block)
        BY <1>1, <2>1 DEF Place
      <3> QED BY <3>1, ConcatProperties
    <2> QED BY <2>1
  <1>6. piece \in [Place -> Seq(Block)]
    BY <1>1, <1>2
  <1>7. ASSUME NEW f PROVE Body(f) = [p \in Place |-> IF p \in Stop THEN value[p] ELSE piece[p] \o f[next[p]]]
    <2>1. \A p \in Place :
             (IF p \in Stop THEN value[p] ELSE piece[p] \o f[next[p]])
             = IF p > Len(t) THEN <<>>
               ELSE <<ZstdBlockAt(t, p)>> \o (IF LastBlock(t[p]) THEN <<>> ELSE f[p + PayloadSize(t[p]) + 1])
      OBVIOUS
    <2> HIDE DEF Stop, next, value, piece
    <2> QED BY <2>1 DEF Place
  <1>8. \E f : f = Body(f)
    <2>1. \E f : Collects(f, Stop, value, piece, next)
      <3> HIDE DEF Stop, next, value, piece
      <3> QED BY <1>3, <1>4, <1>5, <1>6, CollectsExists
    <2> HIDE DEF Stop, next, value, piece, Body
    <2> QED BY <1>7, <2>1 DEF Collects
  <1>9. g = Body(g)
    BY <1>8, Zenon
  <1>10. Collects(g, Stop, value, piece, next)
    <2> HIDE DEF Stop, next, value, piece, Body, g
    <2> QED BY <1>7, <1>9 DEF Collects
  <1>11. ZstdBlocks(t, from) = g[from]
    BY Zenon DEF ZstdBlocks
  <1> HIDE DEF Stop, next, value, piece, Body, g
  <1>12. g[from] \in Seq(Block)
    BY <1>3, <1>4, <1>5, <1>6, <1>10, CollectsTyped
  <1> QED BY <1>11, <1>12

\* The blocks of a frame, whatever its magic.
LEMMA FrameBlocksTyped ==
    ASSUME NEW t \in Seq(Nat), t # <<>>, t[1] \in {LZ4_MAGIC, ZSTANDARD_MAGIC} => Len(t) >= 2
    PROVE  FrameBlocks(t) \in Seq(Block)
  <1>1. \A b \in BOOLEAN : Flag(b) \in {0, 1}
    BY DEF Flag
  <1>2. Flag(Lz4BlockHashes(t[2])) \in {0, 1}
    BY DEF Flag
  <1>3. Lz4Header(t) \in Place /\ ZstdHeader(t) \in Place /\ 2 \in Place /\ 0 \in {0, 1}
    BY DEF Lz4Header, ZstdHeader, Place, Flag
  <1>4. CASE t[1] = ZSTANDARD_MAGIC
    <2>1. FrameBlocks(t) = ZstdBlocks(t, ZstdHeader(t))
      BY <1>4 DEF FrameBlocks, ZSTANDARD_MAGIC, LZ4_LEGACY_MAGIC, LZ4_MAGIC
    <2> QED BY <2>1, <1>3, ZstdBlocksTyped
  <1>5. CASE t[1] = LZ4_MAGIC
    <2>1. FrameBlocks(t) = Lz4Blocks(t, Lz4Header(t), Flag(Lz4BlockHashes(t[2])))
      BY <1>5 DEF FrameBlocks, ZSTANDARD_MAGIC, LZ4_LEGACY_MAGIC, LZ4_MAGIC
    <2> QED BY <2>1, <1>2, <1>3, Lz4BlocksTyped
  <1>6. CASE t[1] \notin {ZSTANDARD_MAGIC, LZ4_MAGIC}
    <2>1. FrameBlocks(t) = Lz4Blocks(t, 2, 0)
      BY <1>6 DEF FrameBlocks, ZSTANDARD_MAGIC, LZ4_LEGACY_MAGIC, LZ4_MAGIC
    <2> QED BY <2>1, <1>3, Lz4BlocksTyped
  <1> QED BY <1>4, <1>5, <1>6

\* The units of a token.
TokenUnits(block, start, i) ==
    [k \in 1..Expands(block, block.payload[i]) |->
        [unit |-> <<start + block.at + i - 1, k>>, needs |-> block.at + i - 1]]

\* The units of one token of a payload.
LEMMA TokenUnitsTyped ==
    ASSUME NEW block \in Block, NEW start \in Nat, NEW i \in DOMAIN block.payload
    PROVE  /\ Expands(block, block.payload[i]) \in Nat
           /\ TokenUnits(block, start, i) \in Seq(Unit)
           /\ Len(TokenUnits(block, start, i)) = Expands(block, block.payload[i])
  <1>1. block.payload \in Seq(Nat) /\ block.at \in Nat /\ block.kind \in BlockKinds /\ block.count \in Nat
    BY DEF Block
  <1>2. i \in Nat /\ i >= 1 /\ block.payload[i] \in Nat
    BY <1>1
  <1>3. Expands(block, block.payload[i]) \in Nat
    BY <1>1, <1>2 DEF Expands, BlockKinds
  <1> DEFINE n == Expands(block, block.payload[i])
             place == start + block.at + i - 1
             needs == block.at + i - 1
  <1>4. place \in Nat /\ needs \in Nat /\ n \in Nat
    <2> DEFINE at == block.at
    <2>1. at \in Nat
      BY <1>1
    <2> HIDE DEF at
    <2>2. start + at + i - 1 \in Nat /\ at + i - 1 \in Nat
      BY <1>2, <2>1
    <2>3. place \in Nat /\ needs \in Nat
      BY <2>2 DEF at
    <2> QED BY <1>3, <2>3
  <1>5. TokenUnits(block, start, i) = [k \in 1..n |-> [unit |-> <<place, k>>, needs |-> needs]]
    BY DEF TokenUnits
  <1> HIDE DEF n, place, needs
  <1>6. TokenUnits(block, start, i) \in [1..n -> Unit]
    BY <1>4, <1>5 DEF Unit
  <1>7. TokenUnits(block, start, i) \in Seq(Unit) /\ Len(TokenUnits(block, start, i)) = n
    BY <1>4, <1>6, MappedSequence
  <1> QED BY <1>3, <1>7 DEF n

\* The units of a block; how many they are does not depend on its place.
LEMMA BlockUnitsTyped ==
    ASSUME NEW block \in Block, NEW start \in Nat, NEW other \in Nat
    PROVE  /\ BlockUnits(block, start) \in Seq(Unit)
           /\ Len(BlockUnits(block, start)) = Len(BlockUnits(block, other))
  <1> DEFINE n == Len(block.payload)
             s == [i \in 1..n |-> TokenUnits(block, start, i)]
             u == [i \in 1..n |-> TokenUnits(block, other, i)]
  <1>1. block.payload \in Seq(Nat) /\ n \in Nat /\ DOMAIN block.payload = 1..n
    BY DEF Block
  <1>2. BlockUnits(block, start) = FlattenSeq(s) /\ BlockUnits(block, other) = FlattenSeq(u)
    BY <1>1 DEF BlockUnits, TokenUnits
  <1>3. \A i \in 1..n : /\ TokenUnits(block, start, i) \in Seq(Unit) /\ TokenUnits(block, other, i) \in Seq(Unit)
                        /\ Len(TokenUnits(block, start, i)) = Len(TokenUnits(block, other, i))
    <2> HIDE DEF n
    <2> QED BY <1>1, TokenUnitsTyped
  <1>4. s \in [1..n -> Seq(Unit)] /\ u \in [1..n -> Seq(Unit)]
    BY <1>3
  <1>5. s \in Seq(Seq(Unit)) /\ u \in Seq(Seq(Unit)) /\ Len(s) = n /\ Len(u) = n
    <2> HIDE DEF s, u, n
    <2> QED BY <1>1, <1>4, MappedSequence
  <1>6. \A i \in 1..n : Len(s[i]) = Len(u[i])
    BY <1>3
  <1> HIDE DEF s, u, n
  <1>7. BlockUnits(block, start) \in Seq(Unit)
    BY <1>2, <1>5, FlattenType
  <1>8. Len(FlattenSeq(s)) = Len(FlattenSeq(u))
    BY <1>5, <1>6, FlattenLength
  <1> QED BY <1>2, <1>7, <1>8

\* Where a frame ends, as far as its tokens tell.
LEMMA FrameEndTyped ==
    ASSUME NEW t \in Seq(Nat), FrameBlocks(t) \in Seq(Block)
    PROVE  FrameEnd(t) \in Int
  <1> DEFINE blocks == FrameBlocks(t)
             b      == Last(blocks)
             behind == IF blocks # <<>> THEN b.at + Len(b.payload) + Flag(b.hash # NoSize)
                       ELSE IF t[1] = ZSTANDARD_MAGIC THEN ZstdHeader(t) ELSE Lz4Header(t)
             hashed == \/ t[1] = ZSTANDARD_MAGIC /\ ZstdHash(t[2])
                       \/ t[1] = LZ4_MAGIC /\ Lz4ContentHash(t[2])
             marked == \/ t[1] \notin {LZ4_LEGACY_MAGIC, ZSTANDARD_MAGIC}
                       \/ t[1] = LZ4_LEGACY_MAGIC /\ behind <= Len(t)
  <1>1. FrameEnd(t) = behind - 1 + Flag(marked) + Flag(hashed)
    BY DEF FrameEnd
  <1>2. Flag(marked) \in Int /\ Flag(hashed) \in Int
    BY DEF Flag
  <1>3. ZstdHeader(t) \in Int /\ Lz4Header(t) \in Int
    BY DEF ZstdHeader, Lz4Header, Flag
  <1>4. blocks # <<>> => b.at + Len(b.payload) + Flag(b.hash # NoSize) \in Int
    <2>1. SUFFICES ASSUME blocks # <<>> PROVE b.at + Len(b.payload) + Flag(b.hash # NoSize) \in Int
      OBVIOUS
    <2>2. b \in Block
      <3>1. blocks \in Seq(Block)
        OBVIOUS
      <3> HIDE DEF blocks
      <3> QED BY <3>1, <2>1 DEF Last
    <2>3. b.at \in Nat /\ b.payload \in Seq(Nat) /\ Flag(b.hash # NoSize) \in Int
      BY <2>2 DEF Block, Flag
    <2>4. Len(b.payload) \in Nat
      BY <2>3
    <2> HIDE DEF b
    <2> QED BY <2>3, <2>4
  <1>5. behind \in Int
    BY <1>3, <1>4
  <1> HIDE DEF behind, marked, hashed
  <1> QED BY <1>1, <1>2, <1>5

\* How a decoder ends, and how many units it gives, do not depend on where its
\* input starts.
SameDecoding(a, b) ==
    /\ a.units \in Seq(Unit) /\ b.units \in Seq(Unit) /\ Len(a.units) = Len(b.units)
    /\ a.ends \in Int /\ a.ends = b.ends /\ a.verdict = b.verdict

\* Decoding does not depend on where the frame starts, except in the places its
\* units name.
LEMMA DecodedBlocksTyped ==
    ASSUME NEW t \in Seq(Nat), FrameBlocks(t) \in Seq(Block), NEW start \in Nat, NEW other \in Nat
    PROVE  SameDecoding(DecodedBlocks(t, start), DecodedBlocks(t, other))
  <1> DEFINE blocks == FrameBlocks(t)
             Unhashed(b) == b.hash # NoSize /\ b.hash # Hash(b.payload)
             bad     == {i \in DOMAIN blocks : Rejected(blocks[i]) \/ Unhashed(blocks[i])}
             first   == IF bad = {} THEN Len(blocks) + 1 ELSE CHOOSE i \in bad : \A j \in bad : i <= j
             ends    == Least(FrameEnd(t), Len(t))
             verdict == IF bad # {} THEN IF Panic \in Range(blocks[first].payload) THEN "panics"
                                         ELSE IF Rejected(blocks[first]) THEN "rejects" ELSE "checksum"
                        ELSE IF FrameEnd(t) > Len(t) THEN "rejects"
                        ELSE IF t[1] = LZ4_MAGIC /\ Lz4ContentHash(t[2]) /\ HashToken(t) # ContentHash(blocks)
                        THEN "checksum" ELSE "end"
             s == [i \in 1..(first - 1) |-> BlockUnits(blocks[i], start)]
             u == [i \in 1..(first - 1) |-> BlockUnits(blocks[i], other)]
  <1>1. /\ DecodedBlocks(t, start) = [units |-> FlattenSeq(s), ends |-> ends, verdict |-> verdict]
        /\ DecodedBlocks(t, other) = [units |-> FlattenSeq(u), ends |-> ends, verdict |-> verdict]
    BY DEF DecodedBlocks
  <1>2. blocks \in Seq(Block) /\ Len(blocks) \in Nat /\ DOMAIN blocks = 1..Len(blocks)
    OBVIOUS
  <1>3. first \in 1..(Len(blocks) + 1)
    <2>1. CASE bad = {}
      <3> HIDE DEF blocks, bad
      <3> QED BY <2>1, <1>2
    <2>2. CASE bad # {}
      <3>1. bad \in SUBSET Nat /\ bad \subseteq 1..Len(blocks)
        <4> HIDE DEF blocks, Unhashed
        <4> QED BY <1>2
      <3>2. \E i \in bad : \A j \in bad : i <= j
        <4> HIDE DEF bad
        <4> QED BY <2>2, <3>1, LeastNatural
      <3>3. first \in bad
        <4> HIDE DEF bad
        <4> QED BY <2>2, <3>2
      <3> HIDE DEF bad, first, blocks
      <3> QED BY <1>2, <3>1, <3>3
    <2> QED BY <2>1, <2>2
  <1>4. ends \in Int
    <2>1. FrameEnd(t) \in Int /\ Len(t) \in Int
      BY FrameEndTyped
    <2> QED BY <2>1 DEF Least
  <1>5. \A i \in 1..(first - 1) : blocks[i] \in Block
    <2> HIDE DEF blocks, first
    <2> QED BY <1>2, <1>3
  <1> HIDE DEF blocks, bad, first, ends, verdict
  <1>6. \A i \in 1..(first - 1) :
           /\ BlockUnits(blocks[i], start) \in Seq(Unit) /\ BlockUnits(blocks[i], other) \in Seq(Unit)
           /\ Len(BlockUnits(blocks[i], start)) = Len(BlockUnits(blocks[i], other))
    BY <1>5, BlockUnitsTyped
  <1>7. s \in [1..(first - 1) -> Seq(Unit)] /\ u \in [1..(first - 1) -> Seq(Unit)] /\ first - 1 \in Nat
    BY <1>2, <1>3, <1>6
  <1>8. \A i \in 1..(first - 1) : Len(s[i]) = Len(u[i])
    BY <1>6
  <1> HIDE DEF s, u
  <1>9. s \in Seq(Seq(Unit)) /\ u \in Seq(Seq(Unit)) /\ Len(s) = first - 1 /\ Len(u) = first - 1
    BY <1>7, MappedSequence
  <1>10. FlattenSeq(s) \in Seq(Unit) /\ FlattenSeq(u) \in Seq(Unit)
    BY <1>9, FlattenType
  <1>11. Len(FlattenSeq(s)) = Len(FlattenSeq(u))
    BY <1>8, <1>9, FlattenLength
  <1> QED BY <1>1, <1>4, <1>10, <1>11 DEF SameDecoding

\* The same for any tokens, whole or not.
LEMMA DecodedTyped ==
    ASSUME NEW t \in Seq(Nat), NEW start \in Nat, NEW other \in Nat
    PROVE  SameDecoding(Decoded(t, start), Decoded(t, other))
  <1>1. CASE t = <<>> \/ t[1] \notin Known \/ (t[1] \in {LZ4_MAGIC, ZSTANDARD_MAGIC} /\ Len(t) < 2)
    <2>1. /\ Decoded(t, start) = [units |-> <<>>, ends |-> 0, verdict |-> "rejects"]
          /\ Decoded(t, other) = [units |-> <<>>, ends |-> 0, verdict |-> "rejects"]
      BY <1>1 DEF Decoded
    <2> QED BY <2>1 DEF SameDecoding
  <1>2. CASE ~(t = <<>> \/ t[1] \notin Known \/ (t[1] \in {LZ4_MAGIC, ZSTANDARD_MAGIC} /\ Len(t) < 2))
    <2>1. CASE HeaderSpoilt(t)
      <3>1. /\ Decoded(t, start) = [units |-> <<>>, ends |-> 0, verdict |-> "checksum"]
            /\ Decoded(t, other) = [units |-> <<>>, ends |-> 0, verdict |-> "checksum"]
        BY <1>2, <2>1 DEF Decoded
      <3> QED BY <3>1 DEF SameDecoding
    <2>2. CASE ~HeaderSpoilt(t)
      <3>1. Decoded(t, start) = DecodedBlocks(t, start) /\ Decoded(t, other) = DecodedBlocks(t, other)
        BY <1>2, <2>2 DEF Decoded
      <3>2. t # <<>> /\ (t[1] \in {LZ4_MAGIC, ZSTANDARD_MAGIC} => Len(t) >= 2)
        BY <1>2
      <3>3. FrameBlocks(t) \in Seq(Block)
        BY <3>2, FrameBlocksTyped
      <3> QED BY <3>1, <3>3, DecodedBlocksTyped
    <2> QED BY <2>1, <2>2
  <1> QED BY <1>1, <1>2

-----------------------------------------------------------------------------
(***************************************************************************)
(* Where the parsers find the end of a frame: within the input, or nowhere.*)
(***************************************************************************)
\* Where a frame ends: nowhere, or within the input.
Found == {NoSize} \cup 0..Len(Input)

\* The end of a standard LZ4 frame.
LEMMA Lz4EndTyped ==
    ASSUME Input \in Seq(Nat), NEW from \in Place, NEW maximum, NEW hashes \in {0, 1}
    PROVE  Lz4End(from, maximum, hashes) \in Found
  <1> DEFINE Stop == {p \in Place : \/ p > Len(Input) \/ Input[p] = 0 \/ Input[p] % StoredBlock = 0
                                   \/ Input[p] % StoredBlock > maximum
                                   \/ p + (Input[p] % StoredBlock) + hashes > Len(Input)}
             next == [p \in Place |-> IF p \in Stop THEN 1 ELSE p + (Input[p] % StoredBlock) + hashes + 1]
             value == [p \in Place |-> IF p <= Len(Input) /\ Input[p] = 0 THEN p ELSE NoSize]
             Body(f) == [p \in Nat \ {0} |->
                            IF p > Len(Input) THEN NoSize
                            ELSE IF Input[p] = 0 THEN p
                            ELSE IF \/ Input[p] % StoredBlock = 0 \/ Input[p] % StoredBlock > maximum
                                    \/ p + (Input[p] % StoredBlock) + hashes > Len(Input) THEN NoSize
                            ELSE f[p + (Input[p] % StoredBlock) + hashes + 1]]
             g == CHOOSE f : f = Body(f)
  <1>1. Len(Input) \in Nat /\ \A p \in Place : p <= Len(Input) => Input[p] \in Nat
    <2> HIDE DEF Stop
    <2> QED BY DEF Place
  <1>2. \A p \in Place : p \notin Stop => p <= Len(Input) /\ p + (Input[p] % StoredBlock) + hashes + 1 \in Place /\ p + (Input[p] % StoredBlock) + hashes + 1 > p
    <2> SUFFICES ASSUME NEW p \in Place, p \notin Stop
                 PROVE  /\ p <= Len(Input) /\ p + (Input[p] % StoredBlock) + hashes + 1 \in Place
                        /\ p + (Input[p] % StoredBlock) + hashes + 1 > p
      OBVIOUS
    <2>1. p <= Len(Input) /\ p \in Nat /\ p > 0
      BY <1>1 DEF Place
    <2>2. Input[p] % StoredBlock \in Nat
      BY <1>1, <2>1 DEF StoredBlock
    <2> HIDE DEF Stop
    <2> QED BY <2>1, <2>2 DEF Place
  <1>3. next \in [Place -> Place]
    <2>1. 1 \in Place
      BY DEF Place
    <2>2. \A p \in Place : next[p] \in Place
      BY <1>2, <2>1
    <2>3. next = [p \in Place |-> next[p]]
      OBVIOUS
    <2> HIDE DEF next
    <2> QED BY <2>2, <2>3
  <1>4. Onward(Len(Input), Stop, next)
    <2>1. \A p \in Place : p \notin Stop => next[p] = p + (Input[p] % StoredBlock) + hashes + 1
      OBVIOUS
    <2> HIDE DEF next, Stop
    <2> QED BY <1>2, <2>1 DEF Onward
  <1>5. value \in [Place -> Found]
    <2>1. \A p \in Place : (IF p <= Len(Input) /\ Input[p] = 0 THEN p ELSE NoSize) \in Found
      BY <1>1 DEF Found, Place, NoSize
    <2> QED BY <2>1
  <1>6. ASSUME NEW f PROVE Body(f) = [p \in Place |-> IF p \in Stop THEN value[p] ELSE f[next[p]]]
    <2>1. \A p \in Place : (IF p \in Stop THEN value[p] ELSE f[next[p]]) = (IF p > Len(Input) THEN NoSize
                            ELSE IF Input[p] = 0 THEN p
                            ELSE IF \/ Input[p] % StoredBlock = 0 \/ Input[p] % StoredBlock > maximum
                                    \/ p + (Input[p] % StoredBlock) + hashes > Len(Input) THEN NoSize
                            ELSE f[p + (Input[p] % StoredBlock) + hashes + 1])
      <3> TAKE p \in Place
      <3>1. p \in Nat /\ Len(Input) \in Nat
        BY <1>1 DEF Place
      <3>2. value[p] = IF p <= Len(Input) /\ Input[p] = 0 THEN p ELSE NoSize
        OBVIOUS
      <3>3. p \notin Stop => next[p] = p + (Input[p] % StoredBlock) + hashes + 1
        OBVIOUS
      <3>4. p \in Stop <=> (\/ p > Len(Input) \/ Input[p] = 0 \/ Input[p] % StoredBlock = 0
                             \/ Input[p] % StoredBlock > maximum
                             \/ p + (Input[p] % StoredBlock) + hashes > Len(Input))
        OBVIOUS
      <3> DEFINE size == Input[p] % StoredBlock
      <3> HIDE DEF Stop, value, next, size
      <3> QED BY <3>1, <3>2, <3>3, <3>4 DEF size
    <2> HIDE DEF Stop, next, value
    <2> QED BY <2>1 DEF Place
  <1>7. \E f : f = Body(f)
    <2>1. \E f : Ends(f, Stop, value, next)
      <3> HIDE DEF Stop, next, value
      <3> QED BY <1>1, <1>3, <1>4, <1>5, EndsExists
    <2> HIDE DEF Stop, next, value, Body
    <2> QED BY <1>6, <2>1 DEF Ends
  <1>8. g = Body(g)
    BY <1>7, Zenon
  <1>9. Ends(g, Stop, value, next)
    <2> HIDE DEF Stop, next, value, Body, g
    <2> QED BY <1>6, <1>8 DEF Ends
  <1>10. Lz4End(from, maximum, hashes) = g[from]
    BY Zenon DEF Lz4End
  <1> HIDE DEF Stop, next, value, Body, g
  <1>11. g[from] \in Found
    BY <1>1, <1>3, <1>4, <1>5, <1>9, EndsTyped
  <1> QED BY <1>10, <1>11

\* The end of a legacy LZ4 frame.
LEMMA LegacyEndTyped ==
    ASSUME Input \in Seq(Nat), NEW from \in Place
    PROVE  LegacyEnd(from) \in Found
  <1> DEFINE Stop == {p \in Place : \/ p > Len(Input) \/ Input[p] \in Magics \/ Input[p] = 0
                                   \/ Input[p] > LEGACY_BLOCK_BYTES \/ p + Input[p] > Len(Input)}
             next == [p \in Place |-> IF p \in Stop THEN 1 ELSE p + Input[p] + 1]
             value == [p \in Place |-> IF p > Len(Input) THEN Len(Input)
                                      ELSE IF Input[p] \in Magics THEN p - 1
                                      ELSE IF Input[p] = 0 THEN p ELSE NoSize]
             Body(f) == [p \in Nat \ {0} |->
                            IF p > Len(Input) THEN Len(Input)
                            ELSE IF Input[p] \in Magics THEN p - 1
                            ELSE IF Input[p] = 0 THEN p
                            ELSE IF Input[p] > LEGACY_BLOCK_BYTES \/ p + Input[p] > Len(Input) THEN NoSize
                            ELSE f[p + Input[p] + 1]]
             g == CHOOSE f : f = Body(f)
  <1>1. Len(Input) \in Nat /\ \A p \in Place : p <= Len(Input) => Input[p] \in Nat
    <2> HIDE DEF Stop
    <2> QED BY DEF Place
  <1>2. \A p \in Place : p \notin Stop => p <= Len(Input) /\ p + Input[p] + 1 \in Place /\ p + Input[p] + 1 > p
    BY <1>1 DEF Place
  <1>3. next \in [Place -> Place]
    <2>1. 1 \in Place
      BY DEF Place
    <2>2. \A p \in Place : next[p] \in Place
      BY <1>2, <2>1
    <2>3. next = [p \in Place |-> next[p]]
      OBVIOUS
    <2> HIDE DEF next
    <2> QED BY <2>2, <2>3
  <1>4. Onward(Len(Input), Stop, next)
    <2>1. \A p \in Place : p \notin Stop => next[p] = p + Input[p] + 1
      OBVIOUS
    <2> HIDE DEF next, Stop
    <2> QED BY <1>2, <2>1 DEF Onward
  <1>5. value \in [Place -> Found]
    <2>1. \A p \in Place : (IF p > Len(Input) THEN Len(Input)
                                      ELSE IF Input[p] \in Magics THEN p - 1
                                      ELSE IF Input[p] = 0 THEN p ELSE NoSize) \in Found
      BY <1>1 DEF Found, Place, NoSize
    <2> QED BY <2>1
  <1>6. ASSUME NEW f PROVE Body(f) = [p \in Place |-> IF p \in Stop THEN value[p] ELSE f[next[p]]]
    <2>1. \A p \in Place : (IF p \in Stop THEN value[p] ELSE f[next[p]]) = (IF p > Len(Input) THEN Len(Input)
                            ELSE IF Input[p] \in Magics THEN p - 1
                            ELSE IF Input[p] = 0 THEN p
                            ELSE IF Input[p] > LEGACY_BLOCK_BYTES \/ p + Input[p] > Len(Input) THEN NoSize
                            ELSE f[p + Input[p] + 1])
      BY <1>1
    <2> HIDE DEF Stop, next, value
    <2> QED BY <2>1 DEF Place
  <1>7. \E f : f = Body(f)
    <2>1. \E f : Ends(f, Stop, value, next)
      <3> HIDE DEF Stop, next, value
      <3> QED BY <1>1, <1>3, <1>4, <1>5, EndsExists
    <2> HIDE DEF Stop, next, value, Body
    <2> QED BY <1>6, <2>1 DEF Ends
  <1>8. g = Body(g)
    BY <1>7, Zenon
  <1>9. Ends(g, Stop, value, next)
    <2> HIDE DEF Stop, next, value, Body, g
    <2> QED BY <1>6, <1>8 DEF Ends
  <1>10. LegacyEnd(from) = g[from]
    BY Zenon DEF LegacyEnd
  <1> HIDE DEF Stop, next, value, Body, g
  <1>11. g[from] \in Found
    BY <1>1, <1>3, <1>4, <1>5, <1>9, EndsTyped
  <1> QED BY <1>10, <1>11

\* The end of a Zstandard frame's blocks.
LEMMA ZstdEndTyped ==
    ASSUME Input \in Seq(Nat), NEW from \in Place, NEW maximum
    PROVE  ZstdEnd(from, maximum) \in Found
  <1> DEFINE Stop == {p \in Place : \/ p > Len(Input) \/ BlockSize(Input[p]) > maximum \/ BlockType(Input[p]) = 3
                                   \/ p + PayloadSize(Input[p]) > Len(Input) \/ LastBlock(Input[p])}
             next == [p \in Place |-> IF p \in Stop THEN 1 ELSE p + PayloadSize(Input[p]) + 1]
             value == [p \in Place |-> IF p > Len(Input) \/ BlockSize(Input[p]) > maximum \/ BlockType(Input[p]) = 3 THEN NoSize
                                      ELSE IF p + PayloadSize(Input[p]) > Len(Input) THEN NoSize
                                      ELSE p + PayloadSize(Input[p])]
             Body(f) == [p \in Nat \ {0} |->
                            IF p > Len(Input) \/ BlockSize(Input[p]) > maximum \/ BlockType(Input[p]) = 3 THEN NoSize
                            ELSE IF p + PayloadSize(Input[p]) > Len(Input) THEN NoSize
                            ELSE IF LastBlock(Input[p]) THEN p + PayloadSize(Input[p])
                            ELSE f[p + PayloadSize(Input[p]) + 1]]
             g == CHOOSE f : f = Body(f)
  <1>1. Len(Input) \in Nat /\ \A p \in Place : p <= Len(Input) => Input[p] \in Nat
    <2> HIDE DEF Stop
    <2> QED BY DEF Place
  <1>2. \A p \in Place : p \notin Stop => p <= Len(Input) /\ p + PayloadSize(Input[p]) + 1 \in Place /\ p + PayloadSize(Input[p]) + 1 > p
    <2> SUFFICES ASSUME NEW p \in Place, p \notin Stop
                 PROVE  /\ p <= Len(Input) /\ p + PayloadSize(Input[p]) + 1 \in Place
                        /\ p + PayloadSize(Input[p]) + 1 > p
      OBVIOUS
    <2>1. p <= Len(Input)
      BY <1>1 DEF Place
    <2> HIDE DEF Stop
    <2> QED BY <2>1, ZstdBlockTyped
  <1>3. next \in [Place -> Place]
    <2>1. 1 \in Place
      BY DEF Place
    <2>2. \A p \in Place : next[p] \in Place
      BY <1>2, <2>1
    <2>3. next = [p \in Place |-> next[p]]
      OBVIOUS
    <2> HIDE DEF next
    <2> QED BY <2>2, <2>3
  <1>4. Onward(Len(Input), Stop, next)
    <2>1. \A p \in Place : p \notin Stop => next[p] = p + PayloadSize(Input[p]) + 1
      OBVIOUS
    <2> HIDE DEF next, Stop
    <2> QED BY <1>2, <2>1 DEF Onward
  <1>5. value \in [Place -> Found]
    <2>1. \A p \in Place : (IF p > Len(Input) \/ BlockSize(Input[p]) > maximum \/ BlockType(Input[p]) = 3 THEN NoSize
                                      ELSE IF p + PayloadSize(Input[p]) > Len(Input) THEN NoSize
                                      ELSE p + PayloadSize(Input[p])) \in Found
      <3> SUFFICES ASSUME NEW p \in Place
                   PROVE  (IF p > Len(Input) \/ BlockSize(Input[p]) > maximum \/ BlockType(Input[p]) = 3 THEN NoSize
                           ELSE IF p + PayloadSize(Input[p]) > Len(Input) THEN NoSize
                           ELSE p + PayloadSize(Input[p])) \in Found
        OBVIOUS
      <3>1. p <= Len(Input) => PayloadSize(Input[p]) \in Nat
        BY ZstdBlockTyped
      <3> QED BY <1>1, <3>1 DEF Found, Place
    <2> QED BY <2>1
  <1>6. ASSUME NEW f PROVE Body(f) = [p \in Place |-> IF p \in Stop THEN value[p] ELSE f[next[p]]]
    <2>1. \A p \in Place : (IF p \in Stop THEN value[p] ELSE f[next[p]]) = (IF p > Len(Input) \/ BlockSize(Input[p]) > maximum \/ BlockType(Input[p]) = 3 THEN NoSize
                            ELSE IF p + PayloadSize(Input[p]) > Len(Input) THEN NoSize
                            ELSE IF LastBlock(Input[p]) THEN p + PayloadSize(Input[p])
                            ELSE f[p + PayloadSize(Input[p]) + 1])
      BY <1>1
    <2> HIDE DEF Stop, next, value
    <2> QED BY <2>1 DEF Place
  <1>7. \E f : f = Body(f)
    <2>1. \E f : Ends(f, Stop, value, next)
      <3> HIDE DEF Stop, next, value
      <3> QED BY <1>1, <1>3, <1>4, <1>5, EndsExists
    <2> HIDE DEF Stop, next, value, Body
    <2> QED BY <1>6, <2>1 DEF Ends
  <1>8. g = Body(g)
    BY <1>7, Zenon
  <1>9. Ends(g, Stop, value, next)
    <2> HIDE DEF Stop, next, value, Body, g
    <2> QED BY <1>6, <1>8 DEF Ends
  <1>10. ZstdEnd(from, maximum) = g[from]
    BY Zenon DEF ZstdEnd
  <1> HIDE DEF Stop, next, value, Body, g
  <1>11. g[from] \in Found
    BY <1>1, <1>3, <1>4, <1>5, <1>9, EndsTyped
  <1> QED BY <1>10, <1>11

\* The errors a frame's header can have.
ParseErrors == {"Format", "Checksum", "LimitExceeded"}

\* A good frame ends within the input.
Parsed(f) == f.verdict \in ParseErrors \/ (f.verdict = "Ok" /\ f.end \in 0..Len(Input))

\* A frame that is refused.
LEMMA BadParsed == ASSUME NEW error \in ParseErrors PROVE Parsed(Bad(error))
  BY DEF Parsed, Bad

\* A standard LZ4 frame ends within the input, behind its start.
LEMMA StandardFrameParsed ==
    ASSUME Input \in Seq(Nat), cursor \in Nat
    PROVE  Parsed(StandardFrame)
  <1> DEFINE flags == Ahead(2)
             block == Ahead(3)
             size  == Flag(Lz4ContentSize(flags))
             from  == cursor + 5 + size + Flag(Lz4Dictionary(flags))
             maximum == Lz4BlockBytes[block \div 16 - 3]
             mark  == Lz4End(from, maximum, Flag(Lz4BlockHashes(flags)))
             more  == Flag(Lz4ContentHash(flags))
             end   == mark + more
             spoilt == Input[from - 1] # Hash(SubSeq(Input, cursor + 2, from - 2))
             given == IF size = 1 THEN Ahead(4) ELSE NoSize
             hashed == Lz4ContentHash(flags) \/ Lz4BlockHashes(flags)
             dictionary == Lz4Dictionary(flags)
             first == flags = NoSize \/ block = NoSize \/ flags \div 64 # 1 \/ Bit(flags, 1)
             second == block % 16 # 0 \/ block \div 16 \notin 4..7 \/ from - 1 > Len(Input)
  <1>1. StandardFrame =
           IF first THEN Bad("Format")
           ELSE IF second THEN Bad("Format")
           ELSE IF spoilt THEN Bad("Checksum")
           ELSE IF mark = NoSize \/ end > Len(Input) THEN Bad("Format")
           ELSE [verdict |-> "Ok", end |-> end, size |-> given, hashed |-> hashed,
                 dictionary |-> dictionary, working |-> 10 * maximum]
    BY DEF StandardFrame
  <1>2. size \in {0, 1} /\ Flag(Lz4Dictionary(flags)) \in {0, 1} /\ Flag(Lz4BlockHashes(flags)) \in {0, 1}
        /\ more \in {0, 1}
    BY DEF Flag
  <1>3. from \in Place
    <2> HIDE DEF size, flags
    <2> QED BY <1>2 DEF Place
  <1>4. mark \in Found
    <2> HIDE DEF from, maximum, flags
    <2> QED BY <1>2, <1>3, Lz4EndTyped
  <1> HIDE DEF mark, more, spoilt, given, hashed, dictionary, first, second
  <1>5. mark # NoSize /\ ~(end > Len(Input)) => end \in 0..Len(Input)
    BY <1>2, <1>4 DEF Found, NoSize
  <1>6. Parsed(Bad("Format")) /\ Parsed(Bad("Checksum"))
    BY BadParsed DEF ParseErrors
  <1>7. ASSUME mark # NoSize, ~(end > Len(Input))
        PROVE  Parsed([verdict |-> "Ok", end |-> end, size |-> given, hashed |-> hashed,
                       dictionary |-> dictionary, working |-> 10 * maximum])
    <2> HIDE DEF end, maximum
    <2> QED BY <1>5, <1>7 DEF Parsed
  <1> HIDE DEF end, maximum, from, flags, block, size
  <1> QED BY <1>1, <1>6, <1>7, Zenon

\* So does a legacy one,
LEMMA LegacyFrameParsed ==
    ASSUME Input \in Seq(Nat), cursor \in Nat
    PROVE  Parsed(LegacyFrame)
  <1>1. cursor + 2 \in Place
    BY DEF Place
  <1>2. LegacyEnd(cursor + 2) \in Found
    BY <1>1, LegacyEndTyped
  <1>3. CASE LegacyEnd(cursor + 2) = NoSize
    BY <1>3 DEF LegacyFrame, Parsed, Bad, ParseErrors
  <1>4. CASE LegacyEnd(cursor + 2) # NoSize
    <2>1. LegacyEnd(cursor + 2) \in 0..Len(Input)
      BY <1>2, <1>4 DEF Found
    <2>2. LegacyFrame.verdict = "Ok" /\ LegacyFrame.end = LegacyEnd(cursor + 2)
      BY <1>4 DEF LegacyFrame
    <2> QED BY <2>1, <2>2 DEF Parsed
  <1> QED BY <1>3, <1>4

\* one of Zstandard,
LEMMA ZstandardFrameParsed ==
    ASSUME Input \in Seq(Nat), cursor \in Nat
    PROVE  Parsed(ZstandardFrame)
  <1> DEFINE t      == SubSeq(Input, cursor + 1, Len(Input))
             window == ZstdWindow(t)
             last   == ZstdEnd(cursor + ZstdHeader(t), Least(window, MAXIMUM_BLOCK_BYTES))
             more   == Flag(ZstdHash(t[2]))
             end    == last + more
             first  == Len(t) < 2 \/ Bit(t[2], 3) \/ ZstdHeader(t) - 1 > Len(t)
             given  == ZstdSize(t)
             hashed == ZstdHash(t[2])
             dictionary == ZstdDictionaryId(t) # 0
  <1>1. ZstandardFrame =
           IF first THEN Bad("Format")
           ELSE IF last = NoSize \/ end > Len(Input) THEN Bad("Format")
           ELSE IF window > MaxDictionary THEN Bad("LimitExceeded")
           ELSE [verdict |-> "Ok", end |-> end, size |-> given, hashed |-> hashed,
                 dictionary |-> dictionary, working |-> window]
    BY DEF ZstandardFrame
  <1>2. more \in {0, 1}
    BY DEF Flag
  <1>3. ZstdHeader(t) \in Nat /\ ZstdHeader(t) >= 3
    BY DEF ZstdHeader, Flag
  <1>4. last \in Found
    <2>1. cursor + ZstdHeader(t) \in Place
      <3> HIDE DEF t
      <3> QED BY <1>3 DEF Place
    <2> HIDE DEF t, window
    <2> QED BY <2>1, ZstdEndTyped
  <1> HIDE DEF t, window, last, more, first, given, hashed, dictionary
  <1>5. last # NoSize /\ ~(end > Len(Input)) => end \in 0..Len(Input)
    BY <1>2, <1>4 DEF Found, NoSize
  <1>6. Parsed(Bad("Format")) /\ Parsed(Bad("LimitExceeded"))
    BY BadParsed DEF ParseErrors
  <1>7. ASSUME last # NoSize, ~(end > Len(Input))
        PROVE  Parsed([verdict |-> "Ok", end |-> end, size |-> given, hashed |-> hashed,
                       dictionary |-> dictionary, working |-> window])
    <2> HIDE DEF end
    <2> QED BY <1>5, <1>7 DEF Parsed
  <1> HIDE DEF end
  <1> QED BY <1>1, <1>6, <1>7, Zenon

\* and one that is skipped.
LEMMA SkippableFrameParsed ==
    ASSUME Input \in Seq(Nat), cursor \in Nat
    PROVE  Parsed(SkippableFrame)
  <1>1. CASE Ahead(2) = NoSize \/ cursor + 2 + Ahead(2) > Len(Input)
    BY <1>1 DEF SkippableFrame, Parsed, Bad, ParseErrors
  <1>2. CASE ~(Ahead(2) = NoSize \/ cursor + 2 + Ahead(2) > Len(Input))
    <2>1. Ahead(2) \in Nat
      BY <1>2 DEF Ahead
    <2>2. cursor + 2 + Ahead(2) \in 0..Len(Input)
      BY <1>2, <2>1
    <2>3. SkippableFrame.verdict = "Ok" /\ SkippableFrame.end = cursor + 2 + Ahead(2)
      BY <1>2 DEF SkippableFrame
    <2> QED BY <2>2, <2>3 DEF Parsed
  <1> QED BY <1>1, <1>2

\* Whichever frame is at the cursor.
LEMMA FrameAtCursorParsed ==
    ASSUME Input \in Seq(Nat), cursor \in Nat
    PROVE  Parsed(FrameAtCursor)
  <1>1. Parsed(SkippableFrame) /\ Parsed(StandardFrame) /\ Parsed(LegacyFrame) /\ Parsed(ZstandardFrame)
    BY SkippableFrameParsed, StandardFrameParsed, LegacyFrameParsed, ZstandardFrameParsed
  <1>2. Parsed(Bad("LimitExceeded")) /\ Parsed(Bad("Format"))
    BY BadParsed DEF ParseErrors
  <1>3. FrameAtCursor \in {SkippableFrame, StandardFrame, LegacyFrame, ZstandardFrame, Bad("LimitExceeded"), Bad("Format")}
    BY Zenon DEF FrameAtCursor, SKIPPABLE_MAGIC, LZ4_MAGIC, LZ4_LEGACY_MAGIC, ZSTANDARD_MAGIC
  <1> QED BY <1>1, <1>2, <1>3

-----------------------------------------------------------------------------
(***************************************************************************)
(* The places of a call.                                                   *)
(***************************************************************************)
\* One step of the specification is one of the actions.
LEMMA Steps ==
    ASSUME [Next]_vars
    PROVE  \/ PumpStep /\ UNCHANGED streamVars /\ UNCHANGED lzwVars
           \/ StreamStep /\ UNCHANGED lzwVars
           \/ LzwStep
           \/ Cancel \/ Retry \/ UNCHANGED vars
  BY DEF Next, Progress

\* Every action leads from its place to the next one.
LEMMA PhasesKept ==
    ASSUME Phases, [Next]_vars
    PROVE  Phases'
  <1> USE DEF Phases, Opening, Pumping, Expanding, Streaming
  <1>1. CASE PumpStep /\ UNCHANGED streamVars /\ UNCHANGED lzwVars
    <2>1. CASE PumpHead
      BY <1>1, <2>1 DEF PumpHead, AtCheckpoint, Fail, streamVars, lzwVars, pumpVars
    <2>2. CASE ConstructDecoder
      BY <1>1, <2>2 DEF ConstructDecoder, Fail, streamVars, lzwVars, pumpVars
    <2>3. CASE DecoderReads
      BY <1>1, <2>3 DEF DecoderReads, DecoderGives, DecoderEnds, DecoderFails, Returns, streamVars, lzwVars,
         pumpVars
    <2>4. CASE DecoderError
      BY <1>1, <2>4 DEF DecoderError, Fail, streamVars, lzwVars, pumpVars
    <2>5. CASE DecoderHasOutput
      BY <1>1, <2>5 DEF DecoderHasOutput, Returns, streamVars, lzwVars, pumpVars
    <2>6. CASE DecoderGivesUp
      BY <1>1, <2>6 DEF DecoderGivesUp, Fail, streamVars, lzwVars, pumpVars
    <2>7. CASE ChargeRead
      BY <1>1, <2>7 DEF ChargeRead, AtCheckpoint, Fail, streamVars, lzwVars, pumpVars
    <2>8. CASE WriteOutput
      BY <1>1, <2>8 DEF WriteOutput, Fail, streamVars, lzwVars, pumpVars
    <2>9. CASE AppendOutput
      BY <1>1, <2>9 DEF AppendOutput, Fail, AfterOutput, streamVars, lzwVars, pumpVars
    <2>10. CASE CoderEnds
      BY <1>1, <2>10 DEF CoderEnds, Fail, streamVars, lzwVars, pumpVars
    <2>11. CASE StartCoder
      BY <1>1, <2>11 DEF StartCoder, Fail, BeginDecoding, streamVars, lzwVars, pumpVars
    <2> QED BY <1>1, <2>1, <2>2, <2>3, <2>4, <2>5, <2>6, <2>7, <2>8, <2>9, <2>10, <2>11 DEF PumpStep
  <1>2. CASE StreamStep /\ UNCHANGED lzwVars
    <2>1. CASE ChargeInput
      BY <1>2, <2>1 DEF ChargeInput, Fail, streamVars, lzwVars, pumpVars
    <2>2. CASE DetectFormat
      BY <1>2, <2>2 DEF DetectFormat, Fail, streamVars, lzwVars, pumpVars
    <2>3. CASE ParseFrame
      BY <1>2, <2>3 DEF ParseFrame, Fail, streamVars, lzwVars, pumpVars
    <2>4. CASE OpenReturns
      BY <1>2, <2>4 DEF OpenReturns, Fail, streamVars, lzwVars, pumpVars
    <2>5. CASE BeginFrame
      BY <1>2, <2>5 DEF BeginFrame, Fail, BeginDecoding, streamVars, lzwVars, pumpVars
    <2>6. CASE FinishFrame
      BY <1>2, <2>6 DEF FinishFrame, Fail, streamVars, lzwVars, pumpVars
    <2>7. CASE ExtractReturns
      BY <1>2, <2>7 DEF ExtractReturns, Fail, streamVars, lzwVars, pumpVars
    <2> QED BY <1>2, <2>1, <2>2, <2>3, <2>4, <2>5, <2>6, <2>7 DEF StreamStep
  <1>3. CASE LzwStep
    <2>1. CASE ParseHeader
      BY <1>3, <2>1 DEF ParseHeader, Fail, lzwVars, Elsewhere
    <2>2. CASE AllocateDictionary
      BY <1>3, <2>2 DEF AllocateDictionary, LzwCheckpoint, Fail, lzwVars, Elsewhere
    <2>3. CASE PrepayInput
      BY <1>3, <2>3 DEF PrepayInput, LzwCheckpoint, Fail, lzwVars, Elsewhere
    <2>4. CASE NextCode
      BY <1>3, <2>4 DEF NextCode, LzwCheckpoint, Fail, LzwEnds, Clears, FirstCode, LaterCode, TakesCode, lzwVars,
         Elsewhere
    <2>5. CASE WriteLiteral
      BY <1>3, <2>5 DEF WriteLiteral, LzwCheckpoint, Fail, LzwWrites, lzwVars, Elsewhere
    <2>6. CASE WalkChain
      BY <1>3, <2>6 DEF WalkChain, LzwCheckpoint, Fail, lzwVars, Elsewhere
    <2>7. CASE ChainEnds
      BY <1>3, <2>7 DEF ChainEnds, lzwVars, Elsewhere
    <2>8. CASE WriteReversed
      BY <1>3, <2>8 DEF WriteReversed, LzwCheckpoint, Fail, LzwWrites, lzwVars, Elsewhere
    <2>9. CASE DefineEntry
      BY <1>3, <2>9 DEF DefineEntry, lzwVars, Elsewhere
    <2> QED BY <1>3, <2>1, <2>2, <2>3, <2>4, <2>5, <2>6, <2>7, <2>8, <2>9 DEF LzwStep
  <1>4. CASE Cancel
    BY <1>4 DEF Cancel, streamVars
  <1>5. CASE Retry
    BY <1>5 DEF Retry, DecoderRetries, streamVars
  <1>6. CASE UNCHANGED vars
    BY <1>6 DEF vars, streamVars
  <1> QED BY <1>1, <1>2, <1>3, <1>4, <1>5, <1>6, Steps

-----------------------------------------------------------------------------
(***************************************************************************)
(* What the variables of a call range over.                                *)
(***************************************************************************)
\* The tokens of a call.
LEMMA JobTyped ==
    ASSUME job \in Jobs
    PROVE  /\ Input \in Seq(Nat) /\ Len(Input) \in Nat /\ job.maximum \in Nat
           /\ job.expected \in Nat \cup {NoSize} /\ job.kind \in {"stream", "coder"}
  BY PumpAssumption DEF Input

\* A coder's input, without the frame that may precede it.
LEMMA PayloadOfJob ==
    ASSUME job \in Jobs
    PROVE  Payload \in Seq(Nat) /\ Len(job.tokens) - Len(Payload) \in Nat
  <1> DEFINE t == job.tokens
  <1>1. t \in Seq(Nat)
    BY JobTyped DEF Input
  <1>2. Payload = t \/ (Payload = SubSeq(t, 3, Len(t)) /\ Len(t) > 1)
    BY DEF Payload
  <1> HIDE DEF t
  <1>3. \A i \in 3..Len(t) : t[i] \in Nat
    BY <1>1
  <1>4. Len(t) \in Int /\ Len(t) \in Nat
    BY <1>1
  <1>5. /\ SubSeq(t, 3, Len(t)) \in Seq(Nat)
        /\ Len(SubSeq(t, 3, Len(t))) = IF 3 <= Len(t) THEN Len(t) - 3 + 1 ELSE 0
    BY <1>3, <1>4, SubSeqProperties
  <1>6. Payload \in Seq(Nat) /\ Len(t) - Len(Payload) \in Nat
    <2>1. CASE Payload = t
      BY <1>1, <1>4, <2>1
    <2>2. CASE Payload = SubSeq(t, 3, Len(t)) /\ Len(t) > 1
      <3>1. CASE 3 <= Len(t)
        BY <1>4, <1>5, <2>2, <3>1
      <3>2. CASE ~(3 <= Len(t))
        BY <1>4, <1>5, <2>2, <3>2
      <3> QED BY <3>1, <3>2
    <2> QED BY <1>2, <2>1, <2>2
  <1> QED BY <1>6 DEF t

\* What the decoder of a call gives.
LEMMA DecoderTyped ==
    ASSUME Typed
    PROVE  /\ decoder.units \in Seq(Unit) /\ Len(decoder.units) \in Nat /\ decoder.ends \in Int
           /\ \A i \in 1..Len(decoder.units) : /\ decoder.units[i].needs \in Nat
                                               /\ decoder.units[i].unit \in Nat \X Nat
  <1>1. PICK at \in Nat : decoder = Decoded(source, at)
    BY DEF Typed
  <1>2. SameDecoding(decoder, decoder)
    BY <1>1, DecodedTyped DEF Typed
  <1>3. decoder.units \in Seq(Unit) /\ decoder.ends \in Int
    BY <1>2 DEF SameDecoding
  <1>4. \A i \in 1..Len(decoder.units) : decoder.units[i] \in Unit
    BY <1>3
  <1>5. \A u \in Unit : u.needs \in Nat /\ u.unit \in Nat \X Nat
    BY DEF Unit
  <1>6. Len(decoder.units) \in Nat
    BY <1>3
  <1> QED BY <1>3, <1>4, <1>5, <1>6

\* The tokens of a range.
LEMMA RangeTyped ==
    ASSUME Input \in Seq(Nat), NEW f, f.start \in Nat, f.end \in 0..Len(Input)
    PROVE  FrameTokensOf(f) \in Seq(Nat)
  <1>1. \A i \in (f.start + 1)..f.end : Input[i] \in Nat
    OBVIOUS
  <1>2. f.start + 1 \in Int /\ f.end \in Int
    OBVIOUS
  <1> QED BY <1>1, <1>2, SubSeqProperties DEF FrameTokensOf

\* One more frame.
LEMMA LayoutGrows ==
    ASSUME NEW l, LayoutTyped(l), NEW e, e.start \in Nat, e.end \in 0..Len(Input)
    PROVE  LayoutTyped(Append(l, e)) /\ Len(Append(l, e)) = Len(l) + 1 /\ Len(l) \in Nat
  <1> DEFINE S == {l[i] : i \in 1..Len(l)} \cup {e}
  <1>1. IsSequence(l) /\ Len(l) \in Nat
    BY DEF LayoutTyped, IsSequence
  <1>2. \A i \in 1..Len(l) : l[i] \in S
    OBVIOUS
  <1>3. l \in [1..Len(l) -> S] /\ e \in S
    <2>1. l = [i \in 1..Len(l) |-> l[i]]
      BY <1>1 DEF IsSequence
    <2> HIDE DEF S
    <2>2. [i \in 1..Len(l) |-> l[i]] \in [1..Len(l) -> S]
      BY <1>2
    <2>3. e \in S
      BY DEF S
    <2> QED BY <2>1, <2>2, <2>3
  <1> HIDE DEF S
  <1>4. l \in Seq(S)
    BY <1>1, <1>3
  <1> DEFINE m == Append(l, e)
  <1>5. /\ m \in Seq(S) /\ Len(m) = Len(l) + 1
        /\ \A i \in 1..Len(l) : m[i] = l[i]
        /\ m[Len(l) + 1] = e
    BY <1>3, <1>4, AppendProperties
  <1> HIDE DEF m
  <1>6. \A i \in 1..Len(m) : i \in 1..Len(l) \/ i = Len(l) + 1
    BY <1>1, <1>5
  <1>7. \A i \in 1..Len(m) : m[i].start \in Nat /\ m[i].end \in 0..Len(Input)
    BY <1>5, <1>6 DEF LayoutTyped
  <1>8. IsSequence(m)
    BY <1>5 DEF IsSequence
  <1> QED BY <1>1, <1>5, <1>7, <1>8 DEF LayoutTyped, m

\* Typed, clause by clause.
LEMMA TypedChange ==
    ASSUME job' = job, job \in Jobs, source' \in Seq(Nat), source' = source, decoder' = decoder,
           \E at \in Nat : decoder = Decoded(source, at),
           consumed' \in Nat, charged_input' \in Int,
           produced' \in 0..Len(decoder.units), read' \in 0..produced',
           cursor' \in Nat, LayoutTyped(layout'), frame' \in 0..Len(layout')
    PROVE  Typed'
  <1>1. LayoutTyped(layout)'
    BY DEF LayoutTyped, Input
  <1> QED BY <1>1 DEF Typed

\* A decoder is made.
LEMMA TypedBegin ==
    ASSUME job' = job, job \in Jobs, NEW tokens \in Seq(Nat), NEW at \in Nat, NEW size, BeginDecoding(tokens, at, size),
           cursor' \in Nat, LayoutTyped(layout'), frame' \in 0..Len(layout')
    PROVE  Typed'
  <1>1. LayoutTyped(layout)'
    BY DEF LayoutTyped, Input
  <1>2. source' \in Seq(Nat) /\ decoder' = Decoded(source', at)
    BY DEF BeginDecoding
  <1>3. consumed' = 0 /\ charged_input' = 0 /\ produced' = 0 /\ read' = 0
    BY DEF BeginDecoding
  <1>4. Len(decoder.units)' \in Nat
    <2>1. SameDecoding(decoder', decoder')
      BY <1>2, DecodedTyped
    <2> QED BY <2>1 DEF SameDecoding
  <1>5. \E a \in Nat : decoder' = Decoded(source', a)
    BY <1>2
  <1>6. produced' \in 0..Len(decoder.units)' /\ read' \in 0..produced'
    BY <1>3, <1>4
  <1> QED BY <1>1, <1>2, <1>3, <1>5, <1>6 DEF Typed

\* The next frame is a range of the input.
LEMMA FrameTyped ==
    ASSUME Typed, frame < Len(layout)
    PROVE  /\ frame + 1 \in 1..Len(layout) /\ Frame.start \in Nat /\ Frame.end \in 0..Len(Input)
           /\ FrameTokensOf(Frame) \in Seq(Nat)
  <1>1. frame + 1 \in 1..Len(layout)
    BY DEF Typed, LayoutTyped, IsSequence
  <1>2. Frame.start \in Nat /\ Frame.end \in 0..Len(Input)
    BY <1>1 DEF Typed, LayoutTyped, Frame
  <1>3. Input \in Seq(Nat)
    BY JobTyped DEF Typed
  <1> QED BY <1>1, <1>2, <1>3, RangeTyped

\* While a frame's decoder runs, there is a frame.
LEMMA FrameBoundIn ==
    ASSUME FrameBound, pc \in Pumping, Streaming
    PROVE  frame < Len(layout)
  BY DEF FrameBound

\* Every action keeps them.
LEMMA TypedKept ==
    ASSUME Typed, FrameBound, [Next]_vars
    PROVE  Typed'
  <1>0. /\ decoder.units \in Seq(Unit) /\ Len(decoder.units) \in Nat /\ decoder.ends \in Int
        /\ \A i \in 1..Len(decoder.units) : decoder.units[i].needs \in Nat
        /\ Input \in Seq(Nat) /\ Len(Input) \in Nat /\ Len(layout) \in Nat /\ Parsed(FrameAtCursor)
    BY DecoderTyped, JobTyped, FrameAtCursorParsed DEF Typed, LayoutTyped, IsSequence
  <1>1. CASE PumpStep /\ UNCHANGED streamVars /\ UNCHANGED lzwVars
    <2>1. CASE PumpHead
      BY TypedChange, <1>1, <2>1 DEF PumpHead, AtCheckpoint, Fail, streamVars, lzwVars, pumpVars, Typed
    <2>2. CASE ConstructDecoder
      <3>1. ZstdHeader(source) - 1 \in Nat
        BY DEF ZstdHeader, Flag
      <3>2. consumed' \in Nat
        BY <2>2, <3>1 DEF Typed, ConstructDecoder, Least
      <3> QED BY <1>1, <2>2, <3>2, TypedChange DEF Typed, ConstructDecoder, streamVars
    <2>3. CASE DecoderReads
      <3>1. ASSUME NEW n \in Nat, n <= Len(decoder.units) - produced, NEW upto \in Int, Returns(n, upto),
                   UNCHANGED <<job, source, decoder, charged_input>>
            PROVE  Typed'
        <4>1. produced' \in 0..Len(decoder.units) /\ read' \in 0..produced'
          <5>1. produced' = produced + n /\ read' = n
            BY <3>1 DEF Returns
          <5>2. produced \in Nat
            BY <1>0 DEF Typed
          <5> QED BY <1>0, <3>1, <5>1, <5>2
        <4>2. consumed' \in Nat
          BY <3>1 DEF Typed, Returns, Greatest
        <4> QED BY <1>1, <3>1, <4>1, <4>2, TypedChange DEF Typed, streamVars
      <3>2. UNCHANGED <<job, source, decoder, charged_input>>
        BY <2>3 DEF DecoderReads
      <3>3. CASE DecoderGives
        <4>1. PICK n \in 1..Least(ControlChunk, Len(decoder.units) - produced) :
                 \E upto \in {decoder.units[produced + n].needs, Len(source)} : Returns(n, upto)
          BY <3>3 DEF DecoderGives
        <4>2. n \in Nat /\ n <= Len(decoder.units) - produced /\ produced + n \in 1..Len(decoder.units)
          BY <1>0, PumpAssumption DEF Typed, Least
        <4>3. decoder.units[produced + n].needs \in Int /\ Len(source) \in Int
          <5> DEFINE k == produced + n
          <5>1. k \in 1..Len(decoder.units)
            BY <4>2
          <5> HIDE DEF k
          <5>2. decoder.units[k].needs \in Int
            BY <1>0, <5>1
          <5>3. Len(source) \in Int
            BY DEF Typed
          <5> QED BY <5>2, <5>3 DEF k
        <4> QED BY <3>1, <3>2, <4>1, <4>2, <4>3
      <3>4. CASE DecoderEnds
        <4>1. PICK upto \in {decoder.ends, Len(source)} : Returns(0, upto)
          BY <3>4 DEF DecoderEnds
        <4>2. upto \in Int /\ 0 \in Nat /\ 0 <= Len(decoder.units) - produced
          BY <1>0 DEF Typed
        <4> QED BY <3>1, <3>2, <4>1, <4>2
      <3>5. CASE DecoderFails
        BY <1>1, <2>3, <3>5, TypedChange DEF Typed, DecoderReads, DecoderFails, streamVars
      <3> QED BY <2>3, <3>3, <3>4, <3>5 DEF DecoderReads
    <2>4. CASE DecoderError
      BY TypedChange, <1>1, <2>4 DEF DecoderError, Fail, streamVars, lzwVars, pumpVars, Typed
    <2>5. CASE DecoderHasOutput
      <3>1. ASSUME NEW n \in Nat, n <= Len(decoder.units) - produced, NEW upto \in Int, Returns(n, upto),
                   UNCHANGED <<job, source, decoder, charged_input>>
            PROVE  Typed'
        <4>1. produced' \in 0..Len(decoder.units) /\ read' \in 0..produced'
          <5>1. produced' = produced + n /\ read' = n
            BY <3>1 DEF Returns
          <5>2. produced \in Nat
            BY <1>0 DEF Typed
          <5> QED BY <1>0, <3>1, <5>1, <5>2
        <4>2. consumed' \in Nat
          BY <3>1 DEF Typed, Returns, Greatest
        <4> QED BY <1>1, <3>1, <4>1, <4>2, TypedChange DEF Typed, streamVars
      <3>2. UNCHANGED <<job, source, decoder, charged_input>>
        BY <2>5 DEF DecoderHasOutput
      <3>3. PICK n \in 1..Least(ControlChunk, Len(decoder.units) - produced) : Returns(n, consumed)
        BY <2>5 DEF DecoderHasOutput
      <3>4. n \in Nat /\ n <= Len(decoder.units) - produced
        BY <1>0, PumpAssumption DEF Typed, Least
      <3> QED BY <3>1, <3>2, <3>3, <3>4 DEF Typed
    <2>6. CASE DecoderGivesUp
      BY TypedChange, <1>1, <2>6 DEF DecoderGivesUp, Fail, streamVars, lzwVars, pumpVars, Typed
    <2>7. CASE ChargeRead
      BY TypedChange, <1>1, <2>7 DEF ChargeRead, AtCheckpoint, Fail, streamVars, lzwVars, pumpVars, Typed
    <2>8. CASE WriteOutput
      BY TypedChange, <1>1, <2>8 DEF WriteOutput, Fail, streamVars, lzwVars, pumpVars, Typed
    <2>9. CASE AppendOutput
      BY TypedChange, <1>1, <2>9 DEF AppendOutput, Fail, AfterOutput, streamVars, lzwVars, pumpVars, Typed
    <2>10. CASE CoderEnds
      BY TypedChange, <1>1, <2>10 DEF CoderEnds, Fail, streamVars, lzwVars, pumpVars, Typed
    <2>11. CASE StartCoder
      <3>1. CASE UNCHANGED pumpVars
        BY <1>1, <2>11, <3>1, TypedChange DEF Typed, StartCoder, pumpVars, streamVars
      <3>2. CASE BeginDecoding(Payload, Len(job.tokens) - Len(Payload), job.expected)
        <4>1. Payload \in Seq(Nat) /\ Len(job.tokens) - Len(Payload) \in Nat
          BY PayloadOfJob DEF Typed
        <4> QED BY <1>1, <2>11, <3>2, <4>1, TypedBegin DEF StartCoder, streamVars, Typed
      <3> QED BY <2>11, <3>1, <3>2 DEF StartCoder
    <2> QED BY <1>1, <2>1, <2>2, <2>3, <2>4, <2>5, <2>6, <2>7, <2>8, <2>9, <2>10, <2>11 DEF PumpStep
  <1>2. CASE StreamStep /\ UNCHANGED lzwVars
    <2>1. CASE ChargeInput
      <3> DEFINE chunk == Least(ControlChunk, Len(Input) - charged_input)
      <3>2. charged_input \in Int /\ chunk \in Int
        BY <1>0, PumpAssumption DEF Typed, Least, LzwLength
      <3>3. charged_input' = charged_input \/ charged_input' = charged_input + chunk
        BY <2>1 DEF ChargeInput
      <3> HIDE DEF chunk
      <3>1. charged_input' \in Int
        BY <3>2, <3>3
      <3> QED BY <2>1, <3>1, TypedChange DEF Typed, ChargeInput, streamVars
    <2>2. CASE DetectFormat
      BY TypedChange, <1>2, <2>2 DEF DetectFormat, Fail, streamVars, lzwVars, pumpVars, Typed
    <2>3. CASE ParseFrame
      <3>1. UNCHANGED <<job, source, decoder, consumed, charged_input, produced, read, frame>>
        BY <2>3 DEF ParseFrame, pumpVars
      <3>2. CASE UNCHANGED <<cursor, layout>>
        BY <3>1, <3>2, TypedChange DEF Typed
      <3>3. CASE FrameAtCursor.verdict = "Ok" /\ cursor' = FrameAtCursor.end /\ UNCHANGED layout
        <4>1. cursor' \in Nat
          BY <3>3, <1>0 DEF Parsed, ParseErrors
        <4> QED BY <3>1, <3>3, <4>1, TypedChange DEF Typed
      <3>4. ASSUME NEW e, e.start = cursor, e.end = FrameAtCursor.end, FrameAtCursor.verdict = "Ok",
                   cursor' = FrameAtCursor.end, layout' = Append(layout, e)
            PROVE  Typed'
        <4>1. cursor' \in Nat /\ e.end \in 0..Len(Input)
          BY <3>4, <1>0 DEF Parsed, ParseErrors
        <4>2. LayoutTyped(layout') /\ frame \in 0..Len(layout')
          BY <3>4, <4>1, LayoutGrows DEF Typed
        <4> QED BY <3>1, <4>1, <4>2, TypedChange DEF Typed
      <3>5. \/ UNCHANGED <<cursor, layout>>
            \/ FrameAtCursor.verdict = "Ok" /\ cursor' = FrameAtCursor.end /\ UNCHANGED layout
            \/ /\ FrameAtCursor.verdict = "Ok" /\ cursor' = FrameAtCursor.end
               /\ layout' = Append(layout, [start |-> cursor, end |-> FrameAtCursor.end, size |-> FrameAtCursor.size,
                                            hashed |-> FrameAtCursor.hashed, dictionary |-> FrameAtCursor.dictionary,
                                            working |-> FrameAtCursor.working])
        BY <2>3 DEF ParseFrame
      <3> QED BY <3>2, <3>3, <3>4, <3>5
    <2>4. CASE OpenReturns
      BY TypedChange, <1>2, <2>4 DEF OpenReturns, Fail, streamVars, lzwVars, pumpVars, Typed
    <2>5. CASE BeginFrame
      <3>1. CASE UNCHANGED pumpVars
        BY <2>5, <3>1, TypedChange DEF Typed, BeginFrame, pumpVars, streamVars
      <3>2. CASE BeginDecoding(FrameTokensOf(Frame), Frame.start, Frame.size)
        <4>1. Frame.start \in Nat /\ FrameTokensOf(Frame) \in Seq(Nat)
          BY <2>5, FrameTyped DEF BeginFrame
        <4> QED BY <2>5, <3>2, <4>1, TypedBegin DEF BeginFrame, streamVars, Typed
      <3> QED BY <2>5, <3>1, <3>2 DEF BeginFrame
    <2>6. CASE FinishFrame
      <3>1. frame' \in 0..Len(layout)
        BY <2>6, FrameBoundIn, <1>0 DEF FinishFrame, Typed, Pumping
      <3> QED BY <2>6, <3>1, TypedChange DEF Typed, FinishFrame, pumpVars
    <2>7. CASE ExtractReturns
      BY TypedChange, <1>2, <2>7 DEF ExtractReturns, Fail, streamVars, lzwVars, pumpVars, Typed
    <2> QED BY <1>2, <2>1, <2>2, <2>3, <2>4, <2>5, <2>6, <2>7 DEF StreamStep
  <1>3. CASE LzwStep
    <2>1. CASE ParseHeader
      BY TypedChange, <1>3, <2>1 DEF ParseHeader, Fail, lzwVars, Elsewhere, Typed
    <2>2. CASE AllocateDictionary
      <3>1. charged_input' \in Int
        BY <2>2 DEF AllocateDictionary, LzwCheckpoint, Typed
      <3> QED BY <2>2, <3>1, TypedChange DEF Typed, AllocateDictionary, Elsewhere
    <2>3. CASE PrepayInput
      <3> DEFINE chunk == Least(ControlChunk, LzwLength - charged_input)
      <3>2. charged_input \in Int /\ chunk \in Int
        BY <1>0, PumpAssumption DEF Typed, Least, LzwLength
      <3>3. charged_input' = charged_input \/ charged_input' = charged_input + chunk
        BY <2>3 DEF PrepayInput, LzwCheckpoint
      <3> HIDE DEF chunk
      <3>1. charged_input' \in Int
        BY <3>2, <3>3
      <3> QED BY <2>3, <3>1, TypedChange DEF Typed, PrepayInput, Elsewhere
    <2>4. CASE NextCode
      BY TypedChange, <1>3, <2>4 DEF NextCode, LzwCheckpoint, Fail, LzwEnds, Clears, FirstCode, LaterCode,
         TakesCode, lzwVars, Elsewhere, Typed
    <2>5. CASE WriteLiteral
      BY TypedChange, <1>3, <2>5 DEF WriteLiteral, LzwCheckpoint, Fail, LzwWrites, lzwVars, Elsewhere, Typed
    <2>6. CASE WalkChain
      BY TypedChange, <1>3, <2>6 DEF WalkChain, LzwCheckpoint, Fail, lzwVars, Elsewhere, Typed
    <2>7. CASE ChainEnds
      BY TypedChange, <1>3, <2>7 DEF ChainEnds, lzwVars, Elsewhere, Typed
    <2>8. CASE WriteReversed
      BY TypedChange, <1>3, <2>8 DEF WriteReversed, LzwCheckpoint, Fail, LzwWrites, lzwVars, Elsewhere, Typed
    <2>9. CASE DefineEntry
      BY TypedChange, <1>3, <2>9 DEF DefineEntry, lzwVars, Elsewhere, Typed
    <2> QED BY <1>3, <2>1, <2>2, <2>3, <2>4, <2>5, <2>6, <2>7, <2>8, <2>9 DEF LzwStep
  <1>4. CASE Cancel
    BY TypedChange, <1>4 DEF Cancel, streamVars, lzwVars, pumpVars, Typed
  <1>5. CASE Retry
    BY TypedChange, <1>5 DEF Retry, DecoderRetries, streamVars, lzwVars, pumpVars, Typed
  <1>6. CASE UNCHANGED vars
    BY TypedChange, <1>6 DEF vars, streamVars, lzwVars, pumpVars, Typed
  <1> QED BY <1>1, <1>2, <1>3, <1>4, <1>5, <1>6, Steps
\* The frame being extracted is the one its decoder was made for.
LEMMA FrameBoundKept ==
    ASSUME Phases, FrameBound, [Next]_vars
    PROVE  FrameBound'
  <1> USE DEF FrameBound
  <1>1. CASE PumpStep /\ UNCHANGED streamVars /\ UNCHANGED lzwVars
    <2>1. CASE PumpHead
      BY <1>1, <2>1 DEF PumpHead, AtCheckpoint, Fail, streamVars, lzwVars, pumpVars, Phases, Pumping, Opening,
         Expanding, Streaming, Frame, FrameTokensOf, Input
    <2>2. CASE ConstructDecoder
      BY <1>1, <2>2 DEF ConstructDecoder, Fail, streamVars, lzwVars, pumpVars, Phases, Pumping, Opening, Expanding,
         Streaming, Frame, FrameTokensOf, Input
    <2>3. CASE DecoderReads
      BY <1>1, <2>3 DEF DecoderReads, DecoderGives, DecoderEnds, DecoderFails, Returns, streamVars, lzwVars,
         pumpVars, Phases, Pumping, Opening, Expanding, Streaming, Frame, FrameTokensOf, Input
    <2>4. CASE DecoderError
      BY <1>1, <2>4 DEF DecoderError, Fail, streamVars, lzwVars, pumpVars, Phases, Pumping, Opening, Expanding,
         Streaming, Frame, FrameTokensOf, Input
    <2>5. CASE DecoderHasOutput
      BY <1>1, <2>5 DEF DecoderHasOutput, Returns, streamVars, lzwVars, pumpVars, Phases, Pumping, Opening,
         Expanding, Streaming, Frame, FrameTokensOf, Input
    <2>6. CASE DecoderGivesUp
      BY <1>1, <2>6 DEF DecoderGivesUp, Fail, streamVars, lzwVars, pumpVars, Phases, Pumping, Opening, Expanding,
         Streaming, Frame, FrameTokensOf, Input
    <2>7. CASE ChargeRead
      BY <1>1, <2>7 DEF ChargeRead, AtCheckpoint, Fail, streamVars, lzwVars, pumpVars, Phases, Pumping, Opening,
         Expanding, Streaming, Frame, FrameTokensOf, Input
    <2>8. CASE WriteOutput
      BY <1>1, <2>8 DEF WriteOutput, Fail, streamVars, lzwVars, pumpVars, Phases, Pumping, Opening, Expanding,
         Streaming, Frame, FrameTokensOf, Input
    <2>9. CASE AppendOutput
      BY <1>1, <2>9 DEF AppendOutput, Fail, AfterOutput, streamVars, lzwVars, pumpVars, Phases, Pumping, Opening,
         Expanding, Streaming, Frame, FrameTokensOf, Input
    <2>10. CASE CoderEnds
      BY <1>1, <2>10 DEF CoderEnds, Fail, streamVars, lzwVars, pumpVars, Phases, Pumping, Opening, Expanding,
         Streaming, Frame, FrameTokensOf, Input
    <2>11. CASE StartCoder
      BY <1>1, <2>11 DEF StartCoder, Streaming, streamVars, Phases
    <2> QED BY <1>1, <2>1, <2>2, <2>3, <2>4, <2>5, <2>6, <2>7, <2>8, <2>9, <2>10, <2>11 DEF PumpStep
  <1>2. CASE StreamStep /\ UNCHANGED lzwVars
    <2>1. CASE ChargeInput
      BY <1>2, <2>1 DEF ChargeInput, Fail, streamVars, lzwVars, pumpVars, Phases, Pumping, Opening, Expanding,
         Streaming, Frame, FrameTokensOf, Input
    <2>2. CASE DetectFormat
      BY <1>2, <2>2 DEF DetectFormat, Fail, streamVars, lzwVars, pumpVars, Phases, Pumping, Opening, Expanding,
         Streaming, Frame, FrameTokensOf, Input
    <2>3. CASE ParseFrame
      BY <1>2, <2>3 DEF ParseFrame, Fail, streamVars, lzwVars, pumpVars, Phases, Pumping, Opening, Expanding,
         Streaming, Frame, FrameTokensOf, Input
    <2>4. CASE OpenReturns
      BY <1>2, <2>4 DEF OpenReturns, Fail, streamVars, lzwVars, pumpVars, Phases, Pumping, Opening, Expanding,
         Streaming, Frame, FrameTokensOf, Input
    <2>5. CASE BeginFrame
      <3>1. pc' \in Pumping => BeginDecoding(FrameTokensOf(Frame), Frame.start, Frame.size)
        BY <2>5 DEF BeginFrame, Fail, Pumping
      <3> QED BY <2>5, <3>1 DEF BeginFrame, BeginDecoding, streamVars, Streaming, Frame, FrameTokensOf, Input
    <2>6. CASE FinishFrame
      BY <1>2, <2>6 DEF FinishFrame, Fail, streamVars, lzwVars, pumpVars, Phases, Pumping, Opening, Expanding,
         Streaming, Frame, FrameTokensOf, Input
    <2>7. CASE ExtractReturns
      BY <1>2, <2>7 DEF ExtractReturns, Fail, streamVars, lzwVars, pumpVars, Phases, Pumping, Opening, Expanding,
         Streaming, Frame, FrameTokensOf, Input
    <2> QED BY <1>2, <2>1, <2>2, <2>3, <2>4, <2>5, <2>6, <2>7 DEF StreamStep
  <1>3. CASE LzwStep
    <2>1. CASE ParseHeader
      BY <1>3, <2>1 DEF ParseHeader, Fail, lzwVars, Elsewhere, Phases, Pumping, Opening, Expanding, Streaming,
         Frame, FrameTokensOf, Input
    <2>2. CASE AllocateDictionary
      BY <1>3, <2>2 DEF AllocateDictionary, LzwCheckpoint, Fail, lzwVars, Elsewhere, Phases, Pumping, Opening,
         Expanding, Streaming, Frame, FrameTokensOf, Input
    <2>3. CASE PrepayInput
      BY <1>3, <2>3 DEF PrepayInput, LzwCheckpoint, Fail, lzwVars, Elsewhere, Phases, Pumping, Opening, Expanding,
         Streaming, Frame, FrameTokensOf, Input
    <2>4. CASE NextCode
      BY <1>3, <2>4 DEF NextCode, LzwCheckpoint, Fail, LzwEnds, Clears, FirstCode, LaterCode, TakesCode, lzwVars,
         Elsewhere, Phases, Pumping, Opening, Expanding, Streaming, Frame, FrameTokensOf, Input
    <2>5. CASE WriteLiteral
      BY <1>3, <2>5 DEF WriteLiteral, LzwCheckpoint, Fail, LzwWrites, lzwVars, Elsewhere, Phases, Pumping, Opening,
         Expanding, Streaming, Frame, FrameTokensOf, Input
    <2>6. CASE WalkChain
      BY <1>3, <2>6 DEF WalkChain, LzwCheckpoint, Fail, lzwVars, Elsewhere, Phases, Pumping, Opening, Expanding,
         Streaming, Frame, FrameTokensOf, Input
    <2>7. CASE ChainEnds
      BY <1>3, <2>7 DEF ChainEnds, lzwVars, Elsewhere, Phases, Pumping, Opening, Expanding, Streaming, Frame,
         FrameTokensOf, Input
    <2>8. CASE WriteReversed
      BY <1>3, <2>8 DEF WriteReversed, LzwCheckpoint, Fail, LzwWrites, lzwVars, Elsewhere, Phases, Pumping,
         Opening, Expanding, Streaming, Frame, FrameTokensOf, Input
    <2>9. CASE DefineEntry
      BY <1>3, <2>9 DEF DefineEntry, lzwVars, Elsewhere, Phases, Pumping, Opening, Expanding, Streaming, Frame,
         FrameTokensOf, Input
    <2> QED BY <1>3, <2>1, <2>2, <2>3, <2>4, <2>5, <2>6, <2>7, <2>8, <2>9 DEF LzwStep
  <1>4. CASE Cancel
    BY <1>4 DEF Cancel, streamVars, lzwVars, pumpVars, Phases, Pumping, Opening, Expanding, Streaming, Frame,
       FrameTokensOf, Input
  <1>5. CASE Retry
    BY <1>5 DEF Retry, DecoderRetries, streamVars, lzwVars, pumpVars, Phases, Pumping, Opening, Expanding,
       Streaming, Frame, FrameTokensOf, Input
  <1>6. CASE UNCHANGED vars
    BY <1>6 DEF vars, streamVars, lzwVars, pumpVars, Phases, Pumping, Opening, Expanding, Streaming, Frame,
       FrameTokensOf, Input
  <1> QED BY <1>1, <1>2, <1>3, <1>4, <1>5, <1>6, Steps

-----------------------------------------------------------------------------
(***************************************************************************)
(* The code reader: every code it reads is within its group.               *)
(***************************************************************************)
\* Multiples and quotients.
LEMMA QuotientBelow ==
    ASSUME NEW x \in Nat, NEW d \in Nat, d > 0, NEW l \in Nat, x < l * d
    PROVE  x \div d < l /\ x \div d \in Nat
  OBVIOUS

\* Dividing by a width and multiplying again.
LEMMA QuotientTimes ==
    ASSUME NEW x \in Nat, NEW d \in Nat, d > 0
    PROVE  (x \div d) * d <= x /\ x \div d \in Nat
  OBVIOUS

\* One more code still ends at a multiple of the width.
LEMMA NextMultiple ==
    ASSUME NEW a \in Nat, NEW b \in Nat, NEW w \in Nat, a * w < b * w
    PROVE  a < b /\ (a + 1) * w = a * w + w /\ a * w + w <= b * w
  <1>1. a < b
    <2>1. a >= b => a * w >= b * w
      OBVIOUS
    <2> QED BY <2>1
  <1>2. (a + 1) * w = a * w + w
    OBVIOUS
  <1>3. a < b => a * w + w <= b * w
    OBVIOUS
  <1> QED BY <1>1, <1>2, <1>3

\* A quotient's last bit.
LEMMA LastBit ==
    ASSUME NEW x \in Nat, NEW d \in Nat, d > 0
    PROVE  (x \div d) % 2 \in {0, 1}
  <1>1. x \div d \in Nat
    OBVIOUS
  <1> DEFINE q == x \div d
  <1> HIDE DEF q
  <1>2. q \in Nat => q % 2 \in {0, 1}
    OBVIOUS
  <1> QED BY <1>1, <1>2 DEF q

\* f holds the numbers of the first digits, as CodeAt defines them.
Digits(f, n, bit) == f = [b \in 0..n |-> IF b = 0 THEN 0 ELSE 2 * f[b - 1] + bit[b]]

\* The value of a run of bits, digit by digit.
LEMMA DigitsExist ==
    ASSUME NEW n \in Nat, NEW bit \in [1..n -> {0, 1}]
    PROVE  \E f : Digits(f, n, bit)
  <1> DEFINE Good == {m \in 0..n : \E g \in [0..m -> Nat] : Digits(g, m, bit)}
             Failing == {m \in 0..n : m \notin Good}
  <1>1. SUFFICES ASSUME Failing # {} PROVE FALSE
    <2>1. n \in Good
      <3>1. n \in 0..n
        OBVIOUS
      <3> HIDE DEF Good
      <3> QED BY <1>1, <3>1
    <2> QED BY <2>1
  <1>2. PICK b \in Failing : \A m \in Failing : b <= m
    <2>1. Failing \in SUBSET Nat
      OBVIOUS
    <2> HIDE DEF Failing
    <2> QED BY <2>1, <1>1, LeastNatural
  <1>3. b # 0
    <2>1. Digits([m \in 0..0 |-> 0], 0, bit) /\ [m \in 0..0 |-> 0] \in [0..0 -> Nat]
      BY DEF Digits
    <2> QED BY <2>1
  <1>4. b - 1 \in Good /\ b \in Nat /\ b <= n
    <2>1. b \in 0..n
      OBVIOUS
    <2>2. b - 1 \in 0..n
      BY <1>3, <2>1
    <2>3. b - 1 \notin Failing
      <3> HIDE DEF Failing
      <3> QED BY <1>2, <2>1, <2>2
    <2> HIDE DEF Good
    <2> QED BY <2>1, <2>2, <2>3
  <1>5. PICK g \in [0..(b - 1) -> Nat] : Digits(g, b - 1, bit)
    BY <1>4
  <1> DEFINE h == [m \in 0..b |-> IF m = b THEN 2 * g[b - 1] + bit[b] ELSE g[m]]
  <1>6. h \in [0..b -> Nat]
    <2>1. \A m \in 0..b : m # b => m \in 0..(b - 1)
      BY <1>4
    <2>2. 2 * g[b - 1] + bit[b] \in Nat
      <3>0. b - 1 \in 0..(b - 1) /\ b \in 1..n
        BY <1>3, <1>4
      <3>1. g[b - 1] \in Nat /\ bit[b] \in Nat
        BY <1>5, <3>0
      <3> QED BY <3>1
    <2> QED BY <2>1, <2>2
  <1>7. Digits(h, b, bit)
    <2>1. \A m \in 0..(b - 1) : g[m] = IF m = 0 THEN 0 ELSE 2 * g[m - 1] + bit[m]
      BY <1>5 DEF Digits
    <2>2. \A m \in 0..b : h[m] = IF m = 0 THEN 0 ELSE 2 * h[m - 1] + bit[m]
      <3> TAKE m \in 0..b
      <3>1. CASE m = b
        <4>1. b - 1 \in 0..b /\ b - 1 # b /\ b \in 0..b
          BY <1>3, <1>4
        <4>2. h[b] = 2 * g[b - 1] + bit[b] /\ h[b - 1] = g[b - 1]
          BY <4>1
        <4> HIDE DEF h
        <4> QED BY <1>3, <3>1, <4>2
      <3>2. CASE m # b
        <4>1. h[m] = g[m] /\ m \in 0..(b - 1)
          BY <3>2, <1>4
        <4>2. m # 0 => h[m - 1] = g[m - 1]
          BY <3>2, <1>4
        <4> HIDE DEF h
        <4> QED BY <2>1, <4>1, <4>2
      <3> QED BY <3>1, <3>2
    <2> HIDE DEF h
    <2> QED BY <2>2, <1>6 DEF Digits
  <1>8. b \in Good
    <2> HIDE DEF h
    <2> QED BY <1>4, <1>6, <1>7
  <1> QED BY <1>8

\* A number of n binary digits is below 2^n.
LEMMA DigitsBound ==
    ASSUME NEW n \in Nat, NEW bit \in [1..n -> {0, 1}], NEW f, Digits(f, n, bit)
    PROVE  f[n] \in 0..(2^n - 1)
  <1> DEFINE In(m) == f[m] \in Nat /\ f[m] < 2^m
             Failing == {m \in 0..n : ~In(m)}
  <1>0. \A m \in 0..n : f[m] = IF m = 0 THEN 0 ELSE 2 * f[m - 1] + bit[m]
    BY DEF Digits
  <1>1. SUFFICES ASSUME Failing # {} PROVE FALSE
    <2>1. In(n)
      <3>1. n \in 0..n
        OBVIOUS
      <3> HIDE DEF In
      <3> QED BY <1>1, <3>1
    <2>2. 2^n \in Nat
      BY PowersGrow
    <2> DEFINE x == 2^n
    <2>3. x \in Nat /\ f[n] \in Nat /\ f[n] < x
      BY <2>1, <2>2, Zenon
    <2> HIDE DEF x
    <2>4. f[n] \in 0..(x - 1)
      BY <2>3
    <2> QED BY <2>4 DEF x
  <1>2. PICK b \in Failing : \A m \in Failing : b <= m
    <2>1. Failing \in SUBSET Nat
      <3> HIDE DEF In
      <3> QED OBVIOUS
    <2> HIDE DEF Failing
    <2> QED BY <2>1, <1>1, LeastNatural
  <1>3. b \in 0..n /\ ~In(b)
    <2> HIDE DEF In
    <2> QED OBVIOUS
  <1>4. b # 0
    <2>1. f[0] = 0
      BY <1>0
    <2>2. 2^0 = 1
      OBVIOUS
    <2>3. In(0)
      BY <2>1, <2>2
    <2> HIDE DEF In
    <2> QED BY <1>3, <2>3
  <1>5. b - 1 \in 0..n /\ In(b - 1)
    <2>1. b - 1 \in 0..n
      BY <1>3, <1>4
    <2> HIDE DEF In
    <2>2. b - 1 \notin Failing
      <3> HIDE DEF Failing
      <3> QED BY <1>2, <1>3, <2>1
    <2> QED BY <2>1, <2>2
  <1> DEFINE x == 2^(b - 1)
             y == 2^b
  <1>6. y = 2 * x /\ x \in Nat
    <2>1. b - 1 \in Nat /\ (b - 1) + 1 = b
      BY <1>3, <1>5
    <2>2. 2^((b - 1) + 1) = 2 * 2^(b - 1) /\ 2^(b - 1) \in Nat
      BY <2>1, PowerDoubles, PowersGrow
    <2> QED BY <2>1, <2>2
  <1>7. f[b] = 2 * f[b - 1] + bit[b] /\ bit[b] \in {0, 1}
    BY <1>0, <1>3, <1>4
  <1>8. f[b - 1] \in Nat /\ f[b - 1] < x
    BY <1>5
  <1>9. f[b] \in Nat /\ f[b] < y
    <2> HIDE DEF x, y
    <2> QED BY <1>6, <1>7, <1>8
  <1> QED BY <1>3, <1>9

\* A code that lies within its group is a number of its width.
LEMMA CodeBound ==
    ASSUME Input \in Seq(Nat), Len(Input) >= 2, NEW r, NEW width \in Nat, GroupTyped(r, width),
           r.bit_offset + width <= r.valid_bits
    PROVE  CodeAt(r, width) \in 0..(2^width - 1)
  <1> DEFINE bit == [b \in 1..width |-> GroupBit(r, r.bit_offset + width - b)]
             Body(f) == [b \in 0..width |->
                            IF b = 0 THEN 0 ELSE 2 * f[b - 1] + GroupBit(r, r.bit_offset + width - b)]
             g == CHOOSE f : f = Body(f)
  <1>1. /\ r.group_start \in Nat /\ r.group_length \in Nat /\ r.bit_offset \in Nat /\ r.valid_bits \in Nat
        /\ r.group_start + r.group_length <= Len(Input) - 2 /\ r.valid_bits <= r.group_length * ByteBits
    BY DEF GroupTyped, LzwLength
  <1>2. ASSUME NEW k \in Nat, k < r.valid_bits PROVE GroupBit(r, k) \in {0, 1}
    <2>1. ByteBits \in Nat /\ ByteBits > 0
      BY LzwAssumption
    <2>2. k < r.group_length * ByteBits
      <3> DEFINE z == r.group_length * ByteBits
      <3>1. z \in Nat /\ r.valid_bits <= z
        BY <1>1, <2>1
      <3> HIDE DEF z
      <3>2. k < z
        BY <1>1, <1>2, <3>1
      <3> QED BY <3>2 DEF z
    <2>3. k \div ByteBits < r.group_length /\ k \div ByteBits \in Nat
      BY <1>1, <2>1, <2>2, QuotientBelow
    <2> DEFINE q == k \div ByteBits
               i == 2 + (r.group_start + q + 1)
               e == k % ByteBits
    <2>4. i \in 1..Len(Input)
      <3> HIDE DEF q
      <3>1. q \in Nat /\ q < r.group_length
        BY <2>3 DEF q
      <3> DEFINE a == r.group_start
                 l == r.group_length
                 n == Len(Input)
      <3>2. a \in Nat /\ l \in Nat /\ n \in Nat /\ a + l <= n - 2 /\ q < l
        BY <1>1, <3>1
      <3>3. 2 + (a + q + 1) \in 1..n
        <4> HIDE DEF a, l, n
        <4> QED BY <3>1, <3>2
      <3> QED BY <3>3
    <2>5. Input[i] \in Nat
      <3> HIDE DEF i
      <3> QED BY <2>4
    <2>6. e \in Nat
      BY <2>1
    <2>7. 2^e \in Nat /\ 2^e >= 1
      <3> HIDE DEF e
      <3>1. 0 \in Nat
        OBVIOUS
      <3> QED BY <2>6, <3>1, PowersGrow
    <2> DEFINE d == 2^e
               x == Input[i]
    <2>8. d \in Nat /\ d > 0 /\ x \in Nat
      <3>1. d \in Nat /\ d >= 1
        BY <2>7, Zenon
      <3> HIDE DEF d
      <3> QED BY <3>1, <2>5
    <2>9. GroupBit(r, k) = (x \div d) % 2
      BY DEF GroupBit, LzwByte
    <2> HIDE DEF d, x
    <2> QED BY <2>8, <2>9, LastBit
  <1>3. bit \in [1..width -> {0, 1}]
    <2>1. \A b \in 1..width : r.bit_offset + width - b \in Nat /\ r.bit_offset + width - b < r.valid_bits
      <3> DEFINE o == r.bit_offset
                 v == r.valid_bits
      <3>1. o \in Nat /\ v \in Nat /\ o + width <= v
        BY <1>1
      <3>2. \A b \in 1..width : o + width - b \in Nat /\ o + width - b < v
        <4> HIDE DEF o, v
        <4> QED BY <3>1
      <3> QED BY <3>2
    <2> QED BY <1>2, <2>1
  <1>4. ASSUME NEW f PROVE Body(f) = [b \in 0..width |-> IF b = 0 THEN 0 ELSE 2 * f[b - 1] + bit[b]]
    <2>1. \A b \in 0..width : b # 0 => bit[b] = GroupBit(r, r.bit_offset + width - b)
      OBVIOUS
    <2> HIDE DEF bit
    <2> QED BY <2>1
  <1>5. \E f : f = Body(f)
    <2> HIDE DEF bit, Body
    <2>1. PICK f : Digits(f, width, bit)
      BY <1>3, DigitsExist
    <2>2. f = Body(f)
      BY <1>4, <2>1 DEF Digits
    <2> QED BY <2>2
  <1>6. g = Body(g)
    BY <1>5, Zenon
  <1>7. Digits(g, width, bit)
    <2> HIDE DEF bit, Body, g
    <2> QED BY <1>4, <1>6 DEF Digits
  <1>8. CodeAt(r, width) = g[width]
    BY Zenon DEF CodeAt
  <1> HIDE DEF g, bit
  <1>9. g[width] \in 0..(2^width - 1)
    BY <1>3, <1>7, DigitsBound
  <1> QED BY <1>8, <1>9

\* A group is filled with whole codes.
LEMMA RefilledSound ==
    ASSUME LzwLength \in Nat, reader.position \in Nat, reader.position <= LzwLength,
           NEW width \in Nat, width > 0
    PROVE  /\ Refilled(width) \in Reader /\ GroupTyped(Refilled(width), width)
           /\ Refilled(width).bit_offset = 0
           /\ Refilled(width).valid_bits # 0 => width <= Refilled(width).valid_bits
  <1> DEFINE length == Least(LzwLength - reader.position, width)
             bits == length * ByteBits
             codes == bits \div width
             valid == codes * width
  <1>1. Refilled(width) = [position |-> reader.position + length, group_start |-> reader.position,
                           group_length |-> length, bit_offset |-> 0, valid_bits |-> valid]
    BY DEF Refilled
  <1>2. length \in Nat /\ length <= LzwLength - reader.position
    BY DEF Least
  <1> HIDE DEF length
  <1>3. bits \in Nat
    BY <1>2, LzwAssumption
  <1> HIDE DEF bits
  <1>4. codes \in Nat /\ valid <= bits
    BY <1>3, QuotientTimes
  <1> HIDE DEF codes
  <1>5. valid \in Nat
    BY <1>4
  <1>6. valid # 0 => width <= valid
    <2>1. 0 * width = 0
      OBVIOUS
    <2>2. valid # 0 => 0 * width < codes * width
      BY <1>5, <2>1
    <2>3. valid # 0 => 0 * width + width <= codes * width
      BY <1>4, <2>2, NextMultiple
    <2> QED BY <2>1, <2>3
  <1>7. 0 = 0 * width /\ 0 <= codes
    BY <1>4
  <1>8. \E a, b \in Nat : 0 = a * width /\ valid = b * width /\ a <= b
    BY <1>4, <1>7
  <1> HIDE DEF valid
  <1>9. Refilled(width) \in Reader
    BY <1>1, <1>2, <1>5 DEF Reader
  <1>10. reader.position + length <= LzwLength
    BY <1>2
  <1>11. valid <= length * ByteBits
    BY <1>4 DEF bits
  <1>12. GroupTyped(Refilled(width), width)
    <2> DEFINE r == Refilled(width)
    <2>1. /\ r.position = reader.position + length /\ r.group_start = reader.position
          /\ r.group_length = length /\ r.bit_offset = 0 /\ r.valid_bits = valid
      BY <1>1
    <2>2. {r.position, r.group_start, r.group_length, r.bit_offset, r.valid_bits} \subseteq Nat
      BY <1>2, <1>5, <2>1
    <2> HIDE DEF r
    <2>3. r.position <= LzwLength /\ r.group_start + r.group_length <= LzwLength
      BY <1>10, <2>1
    <2>4. r.valid_bits <= r.group_length * ByteBits
      BY <1>11, <2>1
    <2>5. \E a, b \in Nat : r.bit_offset = a * width /\ r.valid_bits = b * width /\ a <= b
      BY <1>8, <2>1
    <2>6. GroupTyped(r, width)
      BY <2>2, <2>3, <2>4, <2>5 DEF GroupTyped
    <2> QED BY <2>6 DEF r
  <1> QED BY <1>1, <1>6, <1>9, <1>12

\* A code is taken.
LEMMA TakenSound ==
    ASSUME NEW r \in Reader, NEW width \in Nat, GroupTyped(r, width), r.bit_offset < r.valid_bits
    PROVE  /\ r.bit_offset + width <= r.valid_bits
           /\ [r EXCEPT !.bit_offset = @ + width] \in Reader
           /\ GroupTyped([r EXCEPT !.bit_offset = @ + width], width)
  <1>1. PICK a, b \in Nat : r.bit_offset = a * width /\ r.valid_bits = b * width /\ a <= b
    BY DEF GroupTyped
  <1>2. a < b /\ (a + 1) * width = a * width + width /\ a * width + width <= b * width
    <2>1. a * width < b * width
      BY <1>1
    <2> QED BY <2>1, NextMultiple
  <1>3. r.bit_offset + width <= r.valid_bits
    BY <1>1, <1>2
  <1> DEFINE s == [r EXCEPT !.bit_offset = @ + width]
  <1>4. /\ s.position = r.position /\ s.group_start = r.group_start /\ s.group_length = r.group_length
        /\ s.bit_offset = r.bit_offset + width /\ s.valid_bits = r.valid_bits /\ s \in Reader
    BY DEF Reader
  <1> HIDE DEF s
  <1>5. s.bit_offset = (a + 1) * width /\ s.valid_bits = b * width /\ a + 1 <= b /\ a + 1 \in Nat
    BY <1>1, <1>2, <1>4
  <1>6. \E c, d \in Nat : s.bit_offset = c * width /\ s.valid_bits = d * width /\ c <= d
    BY <1>5
  <1>7. {s.position, s.group_start, s.group_length, s.bit_offset, s.valid_bits} \subseteq Nat
    BY <1>4 DEF Reader
  <1>8. /\ s.position <= LzwLength /\ s.group_start + s.group_length <= LzwLength
        /\ s.valid_bits <= s.group_length * ByteBits
    BY <1>4 DEF GroupTyped
  <1>9. GroupTyped(s, width)
    BY <1>6, <1>7, <1>8 DEF GroupTyped
  <1> QED BY <1>3, <1>4, <1>9 DEF s

\* The next code, unless the input ends: it is within its group.
LEMMA NextReaderSound ==
    ASSUME Input \in Seq(Nat), Len(Input) >= 2, ReaderSound, maximum_code_bits \in Nat, ~InputEnds
    PROVE  /\ Width \in INITIAL_CODE_BITS..maximum_code_bits
           /\ NextReader \in Reader /\ GroupTyped(NextReader, Width)
           /\ NextReader.bit_offset + Width <= NextReader.valid_bits
           /\ [NextReader EXCEPT !.bit_offset = @ + Width] \in Reader
           /\ GroupTyped([NextReader EXCEPT !.bit_offset = @ + Width], Width)
           /\ Encoded \in 0..(2^Width - 1)
  <1>1. INITIAL_CODE_BITS \in Nat /\ INITIAL_CODE_BITS > 0
    BY LzwAssumption DEF INITIAL_CODE_BITS
  <1>2. Width \in INITIAL_CODE_BITS..maximum_code_bits
    BY <1>1 DEF Width, Widens, ReaderSound
  <1>3. Width \in Nat /\ Width > 0
    BY <1>1, <1>2
  <1>4. PICK width \in Nat : GroupTyped(reader, width) /\ (~force_refill => width = code_bits)
    BY DEF ReaderSound
  <1>5. reader.position \in Nat /\ reader.position <= LzwLength /\ LzwLength \in Nat
    BY <1>4 DEF GroupTyped, LzwLength
  <1>6. reader \in Reader
    BY DEF ReaderSound
  <1>7. NextReader \in Reader /\ GroupTyped(NextReader, Width) /\ NextReader.bit_offset < NextReader.valid_bits
    <2>1. CASE NeedsRefill(force_refill \/ Widens)
      <3>1. NextReader = Refilled(Width) /\ NextReader.valid_bits # 0
        BY <2>1 DEF NextReader, InputEnds
      <3>2. /\ Refilled(Width) \in Reader /\ GroupTyped(Refilled(Width), Width)
            /\ Refilled(Width).bit_offset = 0
            /\ Refilled(Width).valid_bits # 0 => Width <= Refilled(Width).valid_bits
        BY <1>3, <1>5, RefilledSound
      <3>3. Refilled(Width).valid_bits \in Nat
        BY <3>2 DEF Reader
      <3> QED BY <1>3, <3>1, <3>2, <3>3
    <2>2. CASE ~NeedsRefill(force_refill \/ Widens)
      <3>1. NextReader = reader /\ ~force_refill /\ ~Widens /\ ~(reader.bit_offset >= reader.valid_bits)
        BY <2>2 DEF NextReader, NeedsRefill
      <3>2. Width = width
        BY <1>4, <3>1 DEF Width
      <3>3. reader.bit_offset < reader.valid_bits
        BY <1>6, <3>1 DEF Reader
      <3> QED BY <1>4, <1>6, <3>1, <3>2, <3>3
    <2> QED BY <2>1, <2>2
  <1>8. /\ NextReader.bit_offset + Width <= NextReader.valid_bits
        /\ [NextReader EXCEPT !.bit_offset = @ + Width] \in Reader
        /\ GroupTyped([NextReader EXCEPT !.bit_offset = @ + Width], Width)
    BY <1>3, <1>7, TakenSound
  <1>9. Encoded \in 0..(2^Width - 1)
    BY <1>3, <1>7, <1>8, CodeBound DEF Encoded
  <1> QED BY <1>2, <1>7, <1>8, <1>9

\* The code that was taken last can be read again.
LEMMA TakenAgain ==
    ASSUME job' = job, NEW r \in Reader, NEW w \in Nat,
           reader' = [r EXCEPT !.bit_offset = @ + w], code_bits' = w
    PROVE  LastEncoded' = CodeAt(r, w)
  <1> DEFINE s == [r EXCEPT !.bit_offset = @ + w]
             u == [s EXCEPT !.bit_offset = @ - w]
  <1>0. r.bit_offset \in Nat
    BY DEF Reader
  <1>1. s.bit_offset = r.bit_offset + w
    BY DEF Reader
  <1>2. u.bit_offset = r.bit_offset
    <2>1. u.bit_offset = s.bit_offset - w
      BY DEF Reader
    <2> HIDE DEF u, s
    <2> QED BY <1>0, <1>1, <2>1
  <1>3. u = r
    <2>1. u = [r EXCEPT !.bit_offset = u.bit_offset]
      BY DEF Reader
    <2>2. u = [r EXCEPT !.bit_offset = r.bit_offset]
      <3> HIDE DEF u, s
      <3> QED BY <1>2, <2>1
    <2>3. r = [r EXCEPT !.bit_offset = r.bit_offset]
      BY DEF Reader
    <2> QED BY <2>2, <2>3
  <1>4. [reader' EXCEPT !.bit_offset = @ - code_bits'] = r
    BY <1>3
  <1>5. LastEncoded' = CodeAt(r, w)'
    BY <1>4 DEF LastEncoded
  <1>6. CodeAt(r, w)' = CodeAt(r, w)
    BY DEF CodeAt, GroupBit, LzwByte, Input
  <1> QED BY <1>5, <1>6

\* It does not change while its chain is walked.
LEMMA TakenStays ==
    ASSUME job' = job, reader' = reader, code_bits' = code_bits
    PROVE  LastEncoded' = LastEncoded
  BY DEF LastEncoded, CodeAt, GroupBit, LzwByte, Input

-----------------------------------------------------------------------------
(***************************************************************************)
(* decode_lzw: the dictionary and the chains through it.                   *)
(***************************************************************************)
\* How many codes there are.
LEMMA CodeSizes ==
    ASSUME maximum_code_bits \in INITIAL_CODE_BITS..MAXIMUM_CODE_BITS
    PROVE  /\ maximum_code_bits \in Nat /\ Literals \in Nat /\ Literals >= 1
           /\ DictionaryEntries \in Nat /\ Literals + 1 <= DictionaryEntries
           /\ DictionaryBytes \in Nat
           /\ \A w \in Nat : w <= maximum_code_bits => 2^w \in Nat /\ 2^w <= DictionaryEntries
  <1>1. ByteBits \in Nat /\ ByteBits > 0 /\ 1 \in Nat /\ 0 \in Nat
    BY LzwAssumption
  <1>2. maximum_code_bits \in Nat /\ ByteBits + 1 <= maximum_code_bits
    BY <1>1 DEF INITIAL_CODE_BITS, MAXIMUM_CODE_BITS
  <1>3. ASSUME NEW w \in Nat, w <= maximum_code_bits PROVE 2^w \in Nat /\ 2^w >= 1 /\ 2^w <= DictionaryEntries
    <2>1. maximum_code_bits - w \in Nat /\ w + (maximum_code_bits - w) = maximum_code_bits
      BY <1>2, <1>3
    <2>2. 2^w \in Nat /\ 2^w >= 1 /\ 2^w <= 2^(w + (maximum_code_bits - w))
      BY <2>1, PowersGrow
    <2> QED BY <2>1, <2>2 DEF DictionaryEntries
  <1>4. Literals \in Nat /\ Literals >= 1
    BY <1>1, PowersGrow DEF Literals
  <1>5. DictionaryEntries \in Nat
    BY <1>1, <1>2, PowersGrow DEF DictionaryEntries
  <1>6. 2^(ByteBits + 1) = 2 * Literals /\ 2^(ByteBits + 1) <= DictionaryEntries
    <2>1. ByteBits + 1 \in Nat /\ ByteBits + 1 <= maximum_code_bits
      BY <1>1, <1>2
    <2>2. 2^(ByteBits + 1) <= DictionaryEntries
      BY <1>3, <2>1
    <2>3. 2^(ByteBits + 1) = 2 * 2^ByteBits
      BY <1>1, PowerDoubles
    <2> QED BY <2>2, <2>3 DEF Literals
  <1>7. Literals + 1 <= DictionaryEntries
    BY <1>4, <1>5, <1>6
  <1>8. DictionaryBytes \in Nat
    BY <1>5 DEF DictionaryBytes
  <1> QED BY <1>2, <1>3, <1>4, <1>5, <1>7, <1>8

\* Away from LZW its state rests.
LEMMA LzwRests ==
    ASSUME LzwSound, UNCHANGED lzwVars, job' = job, result' # Internal,
           pc \notin Expanding \cup {"done", "memory", "prepay"},
           pc' \notin Expanding \cup {"memory", "prepay"}
    PROVE  LzwSound'
  <1>1. /\ expansion' = expansion /\ maximum_code_bits' = maximum_code_bits /\ block_mode' = block_mode
        /\ reader' = reader /\ code_bits' = code_bits /\ force_refill' = force_refill
        /\ previous_code' = previous_code /\ first_character' = first_character
    BY DEF lzwVars
  <1>2. DictionaryEntries' = DictionaryEntries
    BY <1>1 DEF DictionaryEntries
  <1>3. NewReader' = NewReader /\ INITIAL_CODE_BITS' = INITIAL_CODE_BITS /\ MAXIMUM_CODE_BITS' = MAXIMUM_CODE_BITS
    BY DEF NewReader, INITIAL_CODE_BITS, MAXIMUM_CODE_BITS
  <1> QED BY <1>1, <1>2, <1>3 DEF LzwSound, Expanding, Internal, NoCode

\* The call is over, or only the token, the budget and the output changed.
LEMMA LzwStays ==
    ASSUME LzwSound, UNCHANGED lzwVars, job' = job, result' # Internal, pc' = "done" \/ pc' = pc
    PROVE  LzwSound'
  <1>1. /\ expansion' = expansion /\ maximum_code_bits' = maximum_code_bits /\ block_mode' = block_mode
        /\ reader' = reader /\ code_bits' = code_bits /\ force_refill' = force_refill
        /\ previous_code' = previous_code /\ first_character' = first_character /\ code' = code
        /\ next_code' = next_code /\ prefixes' = prefixes /\ suffixes' = suffixes
    BY DEF lzwVars
  <1>2. DictionaryEntries' = DictionaryEntries /\ LastEncoded' = LastEncoded /\ Input' = Input
        /\ LzwLength' = LzwLength
    BY <1>1, TakenStays DEF DictionaryEntries, LzwLength, Input
  <1>3. ReaderSound => ReaderSound'
    BY <1>1, <1>2 DEF ReaderSound, GroupTyped
  <1>4. DictionarySound => DictionarySound'
    BY <1>1, <1>2 DEF DictionarySound
  <1>5. ChainSound => (pc' = pc => ChainSound')
    BY <1>1, <1>2 DEF ChainSound
  <1> QED BY <1>1, <1>2, <1>3, <1>4, <1>5 DEF LzwSound, Expanding, Internal, NoCode

\* What the library's header checks can report.
CallErrors == {"Format", "LimitExceeded", "Unsupported"}

\* The verdict on a coder's header is Ok or an error of the call.
LEMMA HeaderVerdictTyped == HeaderVerdict \in CallErrors \cup {"Ok"}
  <1>1. ZstdVerdict(job.tokens) \in CallErrors \cup {"Ok"}
    BY Zenon DEF ZstdVerdict, CallErrors
  <1>2. HeaderVerdict \in {ZstdVerdict(job.tokens), "Format", "LimitExceeded", "Ok"}
    BY Zenon DEF HeaderVerdict
  <1> QED BY <1>1, <1>2 DEF CallErrors

\* A step of LZW that fails.
LEMMA LzwFails ==
    ASSUME LzwSound, UNCHANGED lzwVars, job' = job, NEW e, Fail(e), e # Internal
    PROVE  LzwSound'
  BY LzwStays DEF Fail

\* What is known while codes are expanded.
LEMMA LzwFacts ==
    ASSUME Typed, LzwSound, pc \in Expanding
    PROVE  /\ Input \in Seq(Nat) /\ Len(Input) \in Nat /\ Len(Input) >= 2
           /\ ReaderSound /\ DictionarySound /\ result # Internal
           /\ expansion \in Seq(Nat) /\ Len(expansion) \in Nat /\ Len(expansion) <= DictionaryEntries
           /\ maximum_code_bits \in INITIAL_CODE_BITS..MAXIMUM_CODE_BITS /\ block_mode \in BOOLEAN
           /\ maximum_code_bits \in Nat /\ Literals \in Nat /\ Literals >= 1
           /\ DictionaryEntries \in Nat /\ Literals + 1 <= DictionaryEntries
           /\ next_code \in Nat /\ next_code >= Literals /\ next_code <= DictionaryEntries
  <1>1. Input \in Seq(Nat) /\ Len(Input) \in Nat
    BY JobTyped DEF Typed
  <1>2. /\ Len(Input) >= 2 /\ ReaderSound /\ DictionarySound /\ result # Internal
        /\ expansion \in Seq(Nat) /\ Len(expansion) <= DictionaryEntries
        /\ maximum_code_bits \in INITIAL_CODE_BITS..MAXIMUM_CODE_BITS /\ block_mode \in BOOLEAN
    BY DEF LzwSound
  <1>3. /\ maximum_code_bits \in Nat /\ Literals \in Nat /\ Literals >= 1
        /\ DictionaryEntries \in Nat /\ Literals + 1 <= DictionaryEntries
    BY <1>2, CodeSizes
  <1>4. next_code \in Nat /\ next_code >= Literals /\ next_code <= DictionaryEntries
    BY <1>2, <1>3 DEF DictionarySound
  <1>5. Len(expansion) \in Nat
    BY <1>2
  <1> QED BY <1>1, <1>2, <1>3, <1>4, <1>5

\* The parts of LzwSound after a step that goes on expanding.
LEMMA LzwSoundNext ==
    ASSUME job' = job, Len(Input) >= 2, result' # Internal, pc' \in Expanding,
           maximum_code_bits' = maximum_code_bits, block_mode' = block_mode,
           maximum_code_bits \in INITIAL_CODE_BITS..MAXIMUM_CODE_BITS, block_mode \in BOOLEAN,
           expansion' \in Seq(Nat), Len(expansion') <= DictionaryEntries,
           ReaderSound', DictionarySound',
           pc' = "literal" => code' \in 0..(Literals - 1) /\ expansion' = <<>>,
           pc' \in {"walk", "reversed"} => ChainSound'
    PROVE  LzwSound'
  <1>1. DictionaryEntries' = DictionaryEntries /\ Input' = Input
    BY DEF DictionaryEntries, Input
  <1>2. Internal' = Internal /\ Literals' = Literals
    BY DEF Internal, Literals
  <1> QED BY <1>1, <1>2 DEF LzwSound, Expanding, INITIAL_CODE_BITS, MAXIMUM_CODE_BITS

\* The reader after a step that left it alone.
LEMMA ReaderStays ==
    ASSUME ReaderSound, job' = job, reader' = reader, code_bits' = code_bits, force_refill' = force_refill,
           maximum_code_bits' = maximum_code_bits
    PROVE  ReaderSound'
  BY DEF ReaderSound, GroupTyped, LzwLength, Input

\* The header of a Unix compress stream admits the widths that are supported.
LEMMA ParseHeaderSound ==
    ASSUME Typed, Phases, LzwSound, ParseHeader
    PROVE  LzwSound'
  <1>1. job' = job
    BY DEF ParseHeader, Elsewhere
  <1>2. HeaderError \in {"Format", "LimitExceeded", "Ok"}
    BY Zenon DEF HeaderError
  <1>3. CASE HeaderError # "Ok"
    <2>1. UNCHANGED lzwVars /\ Fail(HeaderError)
      BY <1>3 DEF ParseHeader, lzwVars
    <2> QED BY <1>1, <1>2, <2>1, LzwFails DEF Internal
  <1>4. CASE HeaderError = "Ok"
    <2>1. /\ pc' = "memory" /\ result' = result /\ maximum_code_bits' = Input[2] % 16
          /\ block_mode' = Bit(Input[2], BLOCK_MODE_FLAG)
          /\ UNCHANGED <<code_bits, previous_code, first_character, reader, force_refill, expansion>>
      BY <1>4 DEF ParseHeader
    <2>2. ~(Len(Input) < 2) /\ Input[2] % 16 \in INITIAL_CODE_BITS..MAXIMUM_CODE_BITS
      BY <1>4, Zenon DEF HeaderError
    <2>3. Len(Input) >= 2
      BY <2>2, JobTyped DEF Typed
    <2>4. block_mode' \in BOOLEAN
      BY <2>1 DEF Bit
    <2>5. expansion = <<>> /\ reader = NewReader /\ code_bits = INITIAL_CODE_BITS
          /\ force_refill = FALSE /\ previous_code = NoCode /\ first_character = 0 /\ result # Internal
      BY DEF LzwSound, ParseHeader, Expanding
    <2>6. DictionaryEntries' \in Nat
      <3>1. maximum_code_bits' \in Nat /\ 0 \in Nat
        BY <2>1, <2>2, LzwAssumption DEF INITIAL_CODE_BITS, MAXIMUM_CODE_BITS
      <3>2. 2^(maximum_code_bits') \in Nat
        BY <3>1, PowersGrow
      <3> QED BY <3>2 DEF DictionaryEntries
    <2>7. expansion' = <<>> /\ expansion' \in Seq(Nat) /\ Len(expansion') = 0
      BY <2>1, <2>5
    <2>8. Len(expansion') <= DictionaryEntries'
      BY <2>6, <2>7
    <2>9. Input' = Input
      BY <1>1 DEF Input
    <2> QED BY <2>1, <2>2, <2>3, <2>4, <2>5, <2>7, <2>8, <2>9
            DEF LzwSound, Expanding, NewReader, INITIAL_CODE_BITS, MAXIMUM_CODE_BITS, NoCode, Internal
  <1> QED BY <1>3, <1>4

\* A new dictionary has the literals and nothing else.
LEMMA AllocateDictionarySound ==
    ASSUME Typed, Phases, LzwSound, AllocateDictionary
    PROVE  LzwSound'
  <1>1. job' = job
    BY DEF AllocateDictionary, Elsewhere
  <1>2. CASE ~Passed(DictionaryBytes)
    <2>1. UNCHANGED lzwVars /\ Fail(Checkpoint(cancelled, budget, DictionaryBytes))
      BY <1>2 DEF AllocateDictionary, LzwCheckpoint
    <2> QED BY <1>1, <2>1, LzwFails DEF Checkpoint, Internal
  <1>3. CASE Passed(DictionaryBytes)
    <2>1. /\ prefixes' = [c \in 0..(DictionaryEntries - 1) |-> 0]
          /\ suffixes' = [c \in 0..(DictionaryEntries - 1) |-> IF c < Literals THEN c ELSE 0]
          /\ next_code' = (IF block_mode THEN FIRST_BLOCK_CODE ELSE FIRST_PLAIN_CODE)
          /\ pc' = "prepay"
          /\ UNCHANGED <<result, maximum_code_bits, block_mode, code_bits,
                         previous_code, first_character, reader, force_refill, code, expansion>>
      BY <1>3 DEF AllocateDictionary, LzwCheckpoint
    <2>2. /\ expansion = <<>> /\ reader = NewReader /\ code_bits = INITIAL_CODE_BITS
          /\ force_refill = FALSE /\ previous_code = NoCode /\ first_character = 0 /\ result # Internal
          /\ Len(Input) >= 2 /\ block_mode \in BOOLEAN
          /\ maximum_code_bits \in INITIAL_CODE_BITS..MAXIMUM_CODE_BITS
          /\ expansion \in Seq(Nat) /\ Len(expansion) <= DictionaryEntries
      BY DEF LzwSound, AllocateDictionary, Expanding
    <2>3. /\ maximum_code_bits \in Nat /\ Literals \in Nat /\ Literals >= 1
          /\ DictionaryEntries \in Nat /\ Literals + 1 <= DictionaryEntries
      BY <2>2, CodeSizes
    <2>4. DictionaryEntries' = DictionaryEntries /\ Input' = Input /\ LzwLength' = LzwLength
          /\ Literals' = Literals /\ CLEAR_CODE' = Literals
      BY <1>1, <2>1 DEF DictionaryEntries, Input, LzwLength, Literals, CLEAR_CODE
    <2>5. prefixes' \in [0..(DictionaryEntries - 1) -> Nat] /\ suffixes' \in [0..(DictionaryEntries - 1) -> Nat]
      BY <2>1, <2>3
    <2>6. next_code' = Literals \/ next_code' = Literals + 1
      BY <2>1, <2>2 DEF FIRST_BLOCK_CODE, FIRST_PLAIN_CODE
    <2>7. next_code' \in Literals..DictionaryEntries /\ (block_mode => next_code' > Literals)
      <3>1. block_mode => next_code' = Literals + 1
        BY <2>1 DEF FIRST_BLOCK_CODE
      <3>2. next_code' \in Literals..DictionaryEntries
        BY <2>3, <2>6
      <3> QED BY <2>3, <3>1, <3>2
    <2>8. \A c \in Literals..(next_code' - 1) : prefixes'[c] < c
      <3> DEFINE l == Literals
                 d == DictionaryEntries
                 n == next_code'
      <3>0. l \in Nat /\ l >= 1 /\ d \in Nat /\ n \in l..d
        BY <2>3, <2>7
      <3>1. \A c \in l..(n - 1) : c \in 0..(d - 1) /\ c > 0
        <4> HIDE DEF l, d, n
        <4> QED BY <3>0
      <3> QED BY <2>1, <3>1
    <2>9. DictionarySound'
      BY <2>1, <2>2, <2>4, <2>5, <2>7, <2>8 DEF DictionarySound, NoCode
    <2>10. LzwLength \in Nat
      BY <2>2, JobTyped DEF LzwLength, Typed
    <2>11. reader' = NewReader /\ NewReader \in Reader
      BY <2>1, <2>2 DEF NewReader, Reader
    <2>12. code_bits' \in Nat /\ code_bits' = INITIAL_CODE_BITS
      BY <2>1, <2>2, LzwAssumption DEF INITIAL_CODE_BITS
    <2>13. GroupTyped(reader, code_bits)'
      <3>1. 0 = 0 * code_bits'
        BY <2>12
      <3>2. 0 <= 0 * ByteBits
        BY LzwAssumption
      <3>3. /\ reader'.position = 0 /\ reader'.group_start = 0 /\ reader'.group_length = 0
            /\ reader'.bit_offset = 0 /\ reader'.valid_bits = 0
        BY <2>11 DEF NewReader
      <3>4. \E a, b \in Nat : reader'.bit_offset = a * code_bits' /\ reader'.valid_bits = b * code_bits' /\ a <= b
        BY <3>1, <3>3
      <3> QED BY <2>4, <2>10, <3>2, <3>3, <3>4 DEF GroupTyped
    <2>14. ReaderSound'
      <3>1. code_bits' \in INITIAL_CODE_BITS..maximum_code_bits'
        BY <2>1, <2>2, <2>12, <2>3
      <3> QED BY <2>1, <2>2, <2>11, <2>12, <2>13, <3>1 DEF ReaderSound, INITIAL_CODE_BITS
    <2> QED BY <2>1, <2>2, <2>4, <2>9, <2>14 DEF LzwSound, Expanding, NewReader, INITIAL_CODE_BITS,
            MAXIMUM_CODE_BITS, NoCode, Internal
  <1> QED BY <1>2, <1>3

\* Paying for the input touches neither dictionary nor reader.
LEMMA PrepayInputSound ==
    ASSUME Typed, Phases, LzwSound, PrepayInput
    PROVE  LzwSound'
  <1>1. job' = job
    BY DEF PrepayInput, Elsewhere
  <1>2. UNCHANGED lzwVars
    BY DEF PrepayInput, LzwCheckpoint
  <1>3. result # Internal
    BY DEF LzwSound
  <1>4. CASE charged_input = LzwLength
    <2>1. pc' = "code" /\ result' = result /\ pc = "prepay"
      BY <1>4 DEF PrepayInput
    <2>2. /\ expansion' = expansion /\ maximum_code_bits' = maximum_code_bits /\ block_mode' = block_mode
          /\ reader' = reader /\ code_bits' = code_bits /\ force_refill' = force_refill
          /\ previous_code' = previous_code /\ first_character' = first_character
          /\ next_code' = next_code /\ prefixes' = prefixes /\ suffixes' = suffixes
      BY <1>2 DEF lzwVars
    <2>3. ReaderSound /\ DictionarySound /\ Len(Input) >= 2
      BY <2>1 DEF LzwSound
    <2>4. ReaderSound'
      BY <1>1, <2>2, <2>3, ReaderStays
    <2>5. DictionarySound'
      BY <2>2, <2>3 DEF DictionarySound, DictionaryEntries
    <2>6. expansion' \in Seq(Nat) /\ Len(expansion') <= DictionaryEntries
      BY <2>2 DEF LzwSound
    <2>7. /\ maximum_code_bits \in INITIAL_CODE_BITS..MAXIMUM_CODE_BITS /\ block_mode \in BOOLEAN
      BY DEF LzwSound
    <2> QED BY <1>1, <1>3, <2>1, <2>2, <2>3, <2>4, <2>5, <2>6, <2>7, LzwSoundNext DEF Expanding
  <1>5. CASE charged_input # LzwLength
    <2>1. PICK e : (Fail(e) /\ e # Internal) \/ (pc' = pc /\ result' = result)
      BY <1>5 DEF PrepayInput, LzwCheckpoint, Checkpoint, Internal
    <2>2. CASE Fail(e) /\ e # Internal
      BY <1>1, <1>2, <2>2, LzwFails
    <2>3. CASE pc' = pc /\ result' = result
      BY <1>1, <1>2, <1>3, <2>3, LzwStays
    <2> QED BY <2>1, <2>2, <2>3
  <1> QED BY <1>4, <1>5

\* A code is taken: what it starts is sound.
LEMMA TakesCodeSound ==
    ASSUME Typed, LzwSound, pc = "code", job' = job, ~InputEnds,
           NEW to \in {"literal", "walk"}, NEW start \in Nat, NEW bytes \in Seq(Nat),
           TakesCode(to, start, bytes), Len(bytes) <= 1,
           to = "literal" => start < Literals /\ bytes = <<>>,
           to = "walk" => /\ previous_code # NoCode /\ Encoded <= next_code /\ start < next_code
                          /\ Len(bytes) - Flag(Encoded = next_code) + start < next_code
    PROVE  LzwSound'
  <1>1. /\ Input \in Seq(Nat) /\ Len(Input) \in Nat /\ Len(Input) >= 2
        /\ ReaderSound /\ DictionarySound /\ result # Internal
        /\ maximum_code_bits \in INITIAL_CODE_BITS..MAXIMUM_CODE_BITS /\ block_mode \in BOOLEAN
        /\ maximum_code_bits \in Nat /\ Literals \in Nat /\ Literals >= 1
        /\ DictionaryEntries \in Nat /\ Literals + 1 <= DictionaryEntries
    BY LzwFacts DEF Expanding
  <1>2. /\ Width \in INITIAL_CODE_BITS..maximum_code_bits
        /\ NextReader \in Reader /\ GroupTyped(NextReader, Width)
        /\ [NextReader EXCEPT !.bit_offset = @ + Width] \in Reader
        /\ GroupTyped([NextReader EXCEPT !.bit_offset = @ + Width], Width)
        /\ Encoded \in 0..(2^Width - 1)
    BY <1>1, NextReaderSound
  <1>3. /\ pc' = to /\ code' = start /\ expansion' = bytes /\ code_bits' = Width /\ force_refill' = FALSE
        /\ reader' = [NextReader EXCEPT !.bit_offset = @ + Width]
        /\ UNCHANGED <<result, maximum_code_bits, block_mode, next_code, previous_code, first_character,
                       prefixes, suffixes>>
    BY DEF TakesCode
  <1>4. Width \in Nat
    BY <1>1, <1>2, LzwAssumption DEF INITIAL_CODE_BITS
  <1>5. DictionaryEntries' = DictionaryEntries /\ LzwLength' = LzwLength
    BY <1>3 DEF DictionaryEntries, LzwLength, Input
  <1>6. DictionarySound'
    BY <1>1, <1>3, <1>5 DEF DictionarySound
  <1>7. ReaderSound'
    <2>1. GroupTyped(reader, code_bits)'
      BY <1>2, <1>3, <1>5 DEF GroupTyped
    <2>2. reader' \in Reader /\ code_bits' \in Nat
      BY <1>2, <1>3, <1>4
    <2>3. code_bits' \in INITIAL_CODE_BITS..maximum_code_bits'
      BY <1>2, <1>3
    <2> QED BY <1>3, <2>1, <2>2, <2>3 DEF ReaderSound, INITIAL_CODE_BITS
  <1>8. LastEncoded' = Encoded
    <2>1. reader' = [NextReader EXCEPT !.bit_offset = @ + Width] /\ code_bits' = Width
      BY <1>3
    <2>2. LastEncoded' = CodeAt(NextReader, Width)
      BY <1>2, <1>4, <2>1, TakenAgain
    <2> QED BY <2>2 DEF Encoded
  <1>9. Encoded \in Nat /\ Encoded < DictionaryEntries
    <2>1. 2^Width \in Nat /\ 2^Width <= DictionaryEntries
      BY <1>1, <1>2, <1>4, CodeSizes
    <2> DEFINE x == 2^Width
    <2>2. x \in Nat /\ x <= DictionaryEntries /\ Encoded \in 0..(x - 1)
      BY <1>2, <2>1
    <2> HIDE DEF x
    <2> QED BY <1>1, <2>2
  <1>10. pc' \in {"walk", "reversed"} => ChainSound'
    <2>1. SUFFICES ASSUME to = "walk" PROVE ChainSound'
      BY <1>3
    <2>2. /\ previous_code # NoCode /\ Encoded <= next_code /\ start < next_code
          /\ Len(bytes) - Flag(Encoded = next_code) + start < next_code
      BY <2>1
    <2>3. next_code \in Nat
      BY <1>1 DEF DictionarySound
    <2>4. LastEncoded' \in 0..next_code' /\ LastEncoded' < DictionaryEntries'
      BY <1>3, <1>5, <1>8, <1>9, <2>2, <2>3
    <2>5. Len(expansion') - Flag(LastEncoded' = next_code') + code' < next_code'
      BY <1>3, <1>8, <2>2
    <2>6. Flag(LastEncoded = next_code)' = Flag(LastEncoded' = next_code')
      BY DEF Flag
    <2> QED BY <1>3, <2>2, <2>4, <2>5, <2>6 DEF ChainSound, NoCode
  <1>11. Len(bytes) <= DictionaryEntries
    <2>1. Len(bytes) \in Nat
      OBVIOUS
    <2> QED BY <1>1, <2>1
  <1> QED BY <1>1, <1>3, <1>6, <1>7, <1>10, <1>11, LzwSoundNext DEF Expanding

\* CLEAR forgets every entry but the literals' and its own.
LEMMA ClearsSound ==
    ASSUME Typed, LzwSound, pc = "code", job' = job, Clears
    PROVE  LzwSound'
  <1>1. /\ Input \in Seq(Nat) /\ Len(Input) \in Nat /\ Len(Input) >= 2
        /\ ReaderSound /\ DictionarySound /\ result # Internal
        /\ maximum_code_bits \in INITIAL_CODE_BITS..MAXIMUM_CODE_BITS /\ block_mode \in BOOLEAN
        /\ maximum_code_bits \in Nat /\ Literals \in Nat /\ Literals >= 1
        /\ DictionaryEntries \in Nat /\ Literals + 1 <= DictionaryEntries
        /\ next_code \in Nat /\ next_code >= Literals /\ next_code <= DictionaryEntries
    BY LzwFacts DEF Expanding
  <1>2. /\ ~InputEnds /\ block_mode
        /\ code_bits' = INITIAL_CODE_BITS /\ next_code' = FIRST_BLOCK_CODE /\ previous_code' = NoCode
        /\ expansion' = <<>> /\ force_refill' = TRUE
        /\ reader' = [NextReader EXCEPT !.bit_offset = @ + Width]
        /\ UNCHANGED <<pc, result, maximum_code_bits, block_mode, first_character, prefixes, suffixes, code>>
    BY DEF Clears
  <1>3. /\ Width \in INITIAL_CODE_BITS..maximum_code_bits
        /\ [NextReader EXCEPT !.bit_offset = @ + Width] \in Reader
        /\ GroupTyped([NextReader EXCEPT !.bit_offset = @ + Width], Width)
    BY <1>1, <1>2, NextReaderSound
  <1>4. Width \in Nat /\ INITIAL_CODE_BITS \in Nat
    BY <1>1, <1>3, LzwAssumption DEF INITIAL_CODE_BITS
  <1>5. DictionaryEntries' = DictionaryEntries /\ LzwLength' = LzwLength
    BY <1>2 DEF DictionaryEntries, LzwLength, Input
  <1>6. ReaderSound'
    <2>2. \E width \in Nat : GroupTyped(reader', width)
      BY <1>2, <1>3, <1>4
    <2>3. \E width \in Nat : GroupTyped(reader, width)'
      BY <2>2, <1>5 DEF GroupTyped
    <2>4. code_bits' \in INITIAL_CODE_BITS..maximum_code_bits'
      BY <1>1, <1>2, <1>4
    <2>5. reader' \in Reader
      BY <1>2, <1>3
    <2> QED BY <1>2, <2>3, <2>4, <2>5 DEF ReaderSound, INITIAL_CODE_BITS
  <1>7. DictionarySound'
    <2>1. next_code' = Literals + 1
      BY <1>2 DEF FIRST_BLOCK_CODE
    <2>2. next_code > Literals
      BY <1>1, <1>2 DEF DictionarySound, CLEAR_CODE
    <2>3. Literals \in Literals..(next_code - 1)
      BY <1>1, <2>2
    <2>4. prefixes[Literals] < Literals
      BY <1>1, <2>3 DEF DictionarySound
    <2>5. \A c \in Literals..(next_code' - 1) : c = Literals
      BY <1>1, <2>1
    <2>6. \A c \in Literals..(next_code' - 1) : prefixes'[c] < c
      BY <1>2, <2>4, <2>5
    <2>7. next_code' \in Literals..DictionaryEntries /\ next_code' > CLEAR_CODE
      BY <1>1, <2>1 DEF CLEAR_CODE
    <2> QED BY <1>1, <1>2, <1>5, <2>6, <2>7 DEF DictionarySound, Literals, CLEAR_CODE
  <1>8. expansion' \in Seq(Nat) /\ Len(expansion') <= DictionaryEntries
    <2>1. Len(expansion') = 0 /\ expansion' \in Seq(Nat)
      BY <1>2
    <2> QED BY <1>1, <2>1
  <1> QED BY <1>1, <1>2, <1>6, <1>7, <1>8, LzwSoundNext DEF Expanding

\* Whatever the next code is, reader and dictionary stay sound.
LEMMA NextCodeSound ==
    ASSUME Typed, Phases, LzwSound, NextCode
    PROVE  LzwSound'
  <1>1. job' = job /\ pc = "code"
    BY DEF NextCode, Elsewhere
  <1>2. CASE ~Passed(1)
    <2>1. UNCHANGED lzwVars /\ Fail(Checkpoint(cancelled, budget, 1))
      BY <1>2 DEF NextCode, LzwCheckpoint
    <2> QED BY <1>1, <2>1, LzwFails DEF Checkpoint, Internal
  <1>3. CASE Passed(1)
    <2>1. LzwEnds \/ Clears \/ FirstCode \/ LaterCode
      BY <1>3 DEF NextCode, LzwCheckpoint
    <2>2. CASE LzwEnds
      BY <1>1, <2>2, LzwFails DEF LzwEnds, Internal
    <2>3. CASE Clears
      BY <1>1, <2>3, ClearsSound
    <2>4. /\ Input \in Seq(Nat) /\ Len(Input) >= 2 /\ ReaderSound /\ DictionarySound
          /\ maximum_code_bits \in Nat /\ Literals \in Nat /\ next_code \in Nat
      BY <1>1, LzwFacts DEF Expanding
    <2>5. ~InputEnds => Encoded \in Nat
      <3>1. SUFFICES ASSUME ~InputEnds PROVE Encoded \in Nat
        OBVIOUS
      <3> DEFINE x == 2^Width - 1
      <3>2. Encoded \in 0..x
        BY <2>4, <3>1, NextReaderSound
      <3> HIDE DEF x
      <3> QED BY <3>2
    <2>6. CASE FirstCode
      <3>1. ~InputEnds
        BY <2>6 DEF FirstCode, PlainCode
      <3>2. CASE Encoded >= Literals
        BY <1>1, <2>6, <3>2, LzwFails DEF FirstCode, Internal
      <3>3. CASE ~(Encoded >= Literals)
        <4>1. TakesCode("literal", Encoded, <<>>)
          BY <2>6, <3>3 DEF FirstCode
        <4>2. Encoded < Literals /\ Encoded \in Nat
          BY <2>4, <2>5, <3>1, <3>3
        <4>3. <<>> \in Seq(Nat) /\ Len(<<>>) <= 1
          OBVIOUS
        <4> QED BY <1>1, <3>1, <4>1, <4>2, <4>3, TakesCodeSound
      <3> QED BY <3>2, <3>3
    <2>7. CASE LaterCode
      <3>1. ~InputEnds /\ previous_code # NoCode
        BY <2>7 DEF LaterCode, PlainCode
      <3>2. CASE Encoded = next_code
        <4>1. TakesCode("walk", previous_code, <<first_character>>)
          BY <2>7, <2>4, <3>2 DEF LaterCode
        <4>2. previous_code \in Nat /\ previous_code < next_code /\ first_character \in Nat
          BY <2>4, <3>1 DEF DictionarySound, NoCode
        <4>3. <<first_character>> \in Seq(Nat) /\ Len(<<first_character>>) = 1
          BY <4>2
        <4>4. Flag(Encoded = next_code) = 1
          BY <3>2 DEF Flag
        <4>5. Len(<<first_character>>) - Flag(Encoded = next_code) + previous_code < next_code
          BY <4>2, <4>3, <4>4, <2>4
        <4>6. Encoded <= next_code /\ Len(<<first_character>>) <= 1
          BY <3>2, <2>4, <4>3
        <4> QED BY <1>1, <3>1, <4>1, <4>2, <4>3, <4>5, <4>6, TakesCodeSound
      <3>3. CASE Encoded < next_code
        <4>1. TakesCode("walk", Encoded, <<>>)
          BY <2>4, <2>5, <2>7, <3>1, <3>3 DEF LaterCode
        <4>2. Flag(Encoded = next_code) = 0
          BY <2>4, <2>5, <3>1, <3>3 DEF Flag
        <4>3. <<>> \in Seq(Nat) /\ Len(<<>>) = 0
          OBVIOUS
        <4>4. Len(<<>>) - Flag(Encoded = next_code) + Encoded < next_code
          BY <4>2, <4>3, <2>4, <2>5, <3>1, <3>3
        <4>5. Encoded <= next_code /\ Encoded \in Nat /\ Len(<<>>) <= 1
          BY <2>4, <2>5, <3>1, <3>3, <4>3
        <4> QED BY <1>1, <3>1, <3>3, <4>1, <4>3, <4>4, <4>5, TakesCodeSound
      <3>4. CASE ~(Encoded = next_code) /\ ~(Encoded < next_code)
        <4>1. Fail("Format") /\ UNCHANGED lzwVars
          BY <2>7, <3>4 DEF LaterCode
        <4> QED BY <1>1, <4>1, LzwFails DEF Internal
      <3> QED BY <3>2, <3>3, <3>4
    <2> QED BY <2>1, <2>2, <2>3, <2>6, <2>7
  <1> QED BY <1>2, <1>3

\* The first code after a start or a CLEAR is a literal.
LEMMA WriteLiteralSound ==
    ASSUME Typed, Phases, LzwSound, WriteLiteral
    PROVE  LzwSound'
  <1>1. job' = job /\ pc = "literal"
    BY DEF WriteLiteral, Elsewhere
  <1>2. CASE ~Passed(1)
    <2>1. UNCHANGED lzwVars /\ Fail(Checkpoint(cancelled, budget, 1))
      BY <1>2 DEF WriteLiteral, LzwCheckpoint
    <2> QED BY <1>1, <2>1, LzwFails DEF Checkpoint, Internal
  <1>3. CASE Passed(1)
    <2>1. \/ \E e \in {"Cancelled", "LimitExceeded", "Io"} : Fail(e) /\ UNCHANGED lzwVars
          \/ /\ pc' = "code" /\ first_character' = code /\ previous_code' = code /\ result' = result
             /\ UNCHANGED <<maximum_code_bits, block_mode, code_bits, next_code, prefixes,
                            suffixes, reader, force_refill, code, expansion>>
      BY <1>3 DEF WriteLiteral, LzwCheckpoint, LzwWrites, WriteVerdict
    <2>2. CASE \E e \in {"Cancelled", "LimitExceeded", "Io"} : Fail(e) /\ UNCHANGED lzwVars
      BY <1>1, <2>2, LzwFails DEF Internal
    <2>3. CASE /\ pc' = "code" /\ first_character' = code /\ previous_code' = code /\ result' = result
               /\ UNCHANGED <<maximum_code_bits, block_mode, code_bits, next_code, prefixes,
                              suffixes, reader, force_refill, code, expansion>>
      <3>1. /\ Len(Input) >= 2 /\ ReaderSound /\ DictionarySound /\ result # Internal
            /\ expansion \in Seq(Nat) /\ Len(expansion) <= DictionaryEntries
            /\ maximum_code_bits \in INITIAL_CODE_BITS..MAXIMUM_CODE_BITS /\ block_mode \in BOOLEAN
            /\ Literals \in Nat /\ next_code \in Nat /\ next_code >= Literals
        BY <1>1, LzwFacts DEF Expanding
      <3>2. code \in 0..(Literals - 1)
        BY <1>1 DEF LzwSound
      <3>3. ReaderSound'
        BY <1>1, <2>3, <3>1, ReaderStays
      <3>4. previous_code' \in 0..(next_code - 1) /\ first_character' \in Nat
        BY <2>3, <3>1, <3>2
      <3>5. DictionarySound'
        BY <2>3, <3>1, <3>4 DEF DictionarySound, DictionaryEntries
      <3> QED BY <1>1, <2>3, <3>1, <3>3, <3>5, LzwSoundNext DEF Expanding
    <2> QED BY <2>1, <2>2, <2>3
  <1> QED BY <1>2, <1>3

\* One more byte of an expansion.
LEMMA OneMore ==
    ASSUME NEW s \in Seq(Nat), NEW v \in Nat
    PROVE  Append(s, v) \in Seq(Nat) /\ Len(Append(s, v)) = Len(s) + 1 /\ Len(s) \in Nat
  BY AppendProperties

\* A link of a chain leads to an earlier code, so the chain ends before the memory
\* for it does.
LEMMA WalkChainSound ==
    ASSUME Typed, Phases, LzwSound, WalkChain
    PROVE  LzwSound'
  <1>1. job' = job /\ pc = "walk" /\ code >= Literals
    BY DEF WalkChain, Elsewhere
  <1>2. /\ Len(Input) >= 2 /\ ReaderSound /\ DictionarySound /\ result # Internal
        /\ expansion \in Seq(Nat) /\ Len(expansion) \in Nat
        /\ maximum_code_bits \in INITIAL_CODE_BITS..MAXIMUM_CODE_BITS /\ block_mode \in BOOLEAN
        /\ Literals \in Nat /\ Literals >= 1 /\ DictionaryEntries \in Nat
        /\ next_code \in Nat /\ next_code <= DictionaryEntries
    BY <1>1, LzwFacts DEF Expanding
  <1>3. ChainSound
    BY <1>1 DEF LzwSound
  <1> DEFINE flag == Flag(LastEncoded = next_code)
  <1>4. /\ code \in Nat /\ code < next_code /\ Len(expansion) - flag + code < next_code
        /\ LastEncoded \in 0..next_code /\ LastEncoded < DictionaryEntries /\ previous_code # NoCode
    BY <1>1, <1>3 DEF ChainSound
  <1>5. flag \in {0, 1} /\ (flag = 1 => next_code < DictionaryEntries)
    BY <1>4 DEF Flag
  <1>6. CASE ~Passed(1)
    <2>1. UNCHANGED lzwVars /\ Fail(Checkpoint(cancelled, budget, 1))
      BY <1>6 DEF WalkChain, LzwCheckpoint
    <2> QED BY <1>1, <2>1, LzwFails DEF Checkpoint, Internal
  <1>7. CASE Passed(1)
    <2>1. ~(code >= next_code \/ Len(expansion) - flag >= DictionaryEntries)
      <3> HIDE DEF flag
      <3> QED BY <1>2, <1>4, <1>5
    <2>2. /\ expansion' = Append(expansion, suffixes[code]) /\ code' = prefixes[code]
          /\ UNCHANGED <<pc, result, maximum_code_bits, block_mode, code_bits, next_code,
                         previous_code, first_character, prefixes, suffixes, reader, force_refill>>
      BY <1>7, <2>1 DEF WalkChain, LzwCheckpoint
    <2>3. code \in 0..(DictionaryEntries - 1) /\ code \in Literals..(next_code - 1)
      BY <1>1, <1>2, <1>4
    <2>4. suffixes[code] \in Nat /\ prefixes[code] \in Nat /\ prefixes[code] < code
      BY <1>2, <2>3 DEF DictionarySound
    <2>5. expansion' \in Seq(Nat) /\ Len(expansion') = Len(expansion) + 1
      BY <1>2, <2>2, <2>4, OneMore
    <2>6. Len(expansion') <= DictionaryEntries
      <3> HIDE DEF flag
      <3> QED BY <1>1, <1>2, <1>4, <1>5, <2>5
    <2>7. LastEncoded' = LastEncoded /\ DictionaryEntries' = DictionaryEntries
      BY <1>1, <2>2, TakenStays DEF DictionaryEntries
    <2>8. ReaderSound' /\ DictionarySound'
      BY <1>1, <1>2, <2>2, <2>7, ReaderStays DEF DictionarySound
    <2>9. ChainSound'
      <3>1. flag' = flag
        BY <2>2, <2>7 DEF Flag
      <3>2. Len(expansion') - flag + code' < next_code /\ code' \in Nat /\ code' < next_code
        <4> HIDE DEF flag
        <4> QED BY <1>2, <1>4, <1>5, <2>2, <2>4, <2>5
      <3> QED BY <1>4, <2>2, <2>7, <3>1, <3>2 DEF ChainSound, NoCode
    <2> QED BY <1>1, <1>2, <2>2, <2>5, <2>6, <2>8, <2>9, LzwSoundNext DEF Expanding
  <1> QED BY <1>6, <1>7

\* The last byte of a chain has a place in the memory for it.
LEMMA ChainEndsSound ==
    ASSUME Typed, Phases, LzwSound, ChainEnds
    PROVE  LzwSound'
  <1>1. job' = job /\ pc = "walk" /\ code < Literals
    BY DEF ChainEnds, Elsewhere
  <1>2. /\ Len(Input) >= 2 /\ ReaderSound /\ DictionarySound /\ result # Internal
        /\ expansion \in Seq(Nat) /\ Len(expansion) \in Nat
        /\ maximum_code_bits \in INITIAL_CODE_BITS..MAXIMUM_CODE_BITS /\ block_mode \in BOOLEAN
        /\ Literals \in Nat /\ Literals >= 1 /\ DictionaryEntries \in Nat
        /\ next_code \in Nat /\ next_code <= DictionaryEntries
    BY <1>1, LzwFacts DEF Expanding
  <1>3. ChainSound
    BY <1>1 DEF LzwSound
  <1> DEFINE flag == Flag(LastEncoded = next_code)
  <1>4. /\ code \in Nat /\ code < next_code /\ Len(expansion) - flag + code < next_code
        /\ LastEncoded \in 0..next_code /\ LastEncoded < DictionaryEntries /\ previous_code # NoCode
    BY <1>1, <1>3 DEF ChainSound
  <1>5. flag \in {0, 1} /\ (flag = 1 => next_code < DictionaryEntries)
    BY <1>4 DEF Flag
  <1>6. /\ first_character' = code /\ expansion' = Append(expansion, code) /\ pc' = "reversed"
        /\ UNCHANGED <<result, maximum_code_bits, block_mode, code_bits, next_code, previous_code, prefixes,
                       suffixes, reader, force_refill, code>>
    BY DEF ChainEnds
  <1>7. expansion' \in Seq(Nat) /\ Len(expansion') = Len(expansion) + 1
    BY <1>2, <1>4, <1>6, OneMore
  <1>8. Len(expansion') <= DictionaryEntries
    <2> HIDE DEF flag
    <2> QED BY <1>1, <1>2, <1>4, <1>5, <1>7
  <1>9. LastEncoded' = LastEncoded /\ DictionaryEntries' = DictionaryEntries
    BY <1>1, <1>6, TakenStays DEF DictionaryEntries
  <1>10. ReaderSound' /\ DictionarySound'
    BY <1>1, <1>2, <1>4, <1>6, <1>9, ReaderStays DEF DictionarySound
  <1>11. ChainSound'
    BY <1>4, <1>6, <1>9 DEF ChainSound, NoCode
  <1> QED BY <1>1, <1>2, <1>6, <1>7, <1>8, <1>10, <1>11, LzwSoundNext DEF Expanding

\* Writing takes bytes off the end of the expansion.
LEMMA WriteReversedSound ==
    ASSUME Typed, Phases, LzwSound, WriteReversed
    PROVE  LzwSound'
  <1> DEFINE count == Least(ControlChunk, Len(expansion))
             kept  == Len(expansion) - count
  <1>1. job' = job /\ pc = "reversed"
    BY DEF WriteReversed, Elsewhere
  <1>2. /\ Len(Input) >= 2 /\ ReaderSound /\ DictionarySound /\ result # Internal
        /\ expansion \in Seq(Nat) /\ Len(expansion) \in Nat /\ Len(expansion) <= DictionaryEntries
        /\ maximum_code_bits \in INITIAL_CODE_BITS..MAXIMUM_CODE_BITS /\ block_mode \in BOOLEAN
        /\ DictionaryEntries \in Nat
    BY <1>1, LzwFacts DEF Expanding
  <1>3. ChainSound
    BY <1>1 DEF LzwSound
  <1>4. kept \in 0..Len(expansion)
    BY <1>2, PumpAssumption DEF Least
  <1>5. \/ \E e \in {"Cancelled", "WorkUnits", "LimitExceeded", "Io"} : Fail(e) /\ UNCHANGED lzwVars
        \/ /\ expansion' = SubSeq(expansion, 1, kept)
           /\ UNCHANGED <<result, pc, maximum_code_bits, block_mode, code_bits, next_code,
                          previous_code, first_character, prefixes, suffixes, reader, force_refill, code>>
    BY DEF WriteReversed, LzwCheckpoint, LzwWrites, WriteVerdict, Checkpoint, Passed
  <1>6. CASE \E e \in {"Cancelled", "WorkUnits", "LimitExceeded", "Io"} : Fail(e) /\ UNCHANGED lzwVars
    BY <1>1, <1>6, LzwFails DEF Internal
  <1>7. CASE /\ expansion' = SubSeq(expansion, 1, kept)
             /\ UNCHANGED <<result, pc, maximum_code_bits, block_mode, code_bits, next_code,
                            previous_code, first_character, prefixes, suffixes, reader, force_refill, code>>
    <2> HIDE DEF kept
    <2>1. expansion' \in Seq(Nat) /\ Len(expansion') = kept
      BY <1>2, <1>4, <1>7, BeginningIsMapped
    <2>2. Len(expansion') <= DictionaryEntries
      BY <1>2, <1>4, <2>1
    <2>3. LastEncoded' = LastEncoded /\ DictionaryEntries' = DictionaryEntries
      BY <1>1, <1>7, TakenStays DEF DictionaryEntries
    <2>4. ReaderSound' /\ DictionarySound'
      BY <1>1, <1>2, <1>7, <2>3, ReaderStays DEF DictionarySound
    <2>5. ChainSound'
      BY <1>1, <1>3, <1>7, <2>3 DEF ChainSound, NoCode
    <2> QED BY <1>1, <1>2, <1>7, <2>1, <2>2, <2>4, <2>5, LzwSoundNext DEF Expanding
  <1> QED BY <1>5, <1>6, <1>7

\* The new entry leads to the previous code, which is earlier.
LEMMA DefineEntrySound ==
    ASSUME Typed, Phases, LzwSound, DefineEntry
    PROVE  LzwSound'
  <1>1. job' = job /\ pc = "reversed" /\ pc' = "code"
    BY DEF DefineEntry, Elsewhere
  <1>2. /\ Len(Input) >= 2 /\ ReaderSound /\ DictionarySound /\ result # Internal
        /\ expansion \in Seq(Nat) /\ Len(expansion) <= DictionaryEntries
        /\ maximum_code_bits \in INITIAL_CODE_BITS..MAXIMUM_CODE_BITS /\ block_mode \in BOOLEAN
        /\ DictionaryEntries \in Nat /\ Literals \in Nat
        /\ next_code \in Nat /\ next_code >= Literals /\ next_code <= DictionaryEntries
    BY <1>1, LzwFacts DEF Expanding
  <1>3. LastEncoded \in 0..next_code /\ LastEncoded < DictionaryEntries /\ previous_code # NoCode
    BY <1>1 DEF LzwSound, ChainSound
  <1>4. previous_code \in Nat /\ previous_code < next_code /\ first_character \in Nat
    BY <1>2, <1>3 DEF DictionarySound, NoCode
  <1>5. /\ previous_code' = LastEncoded
        /\ UNCHANGED <<result, maximum_code_bits, block_mode, code_bits, first_character, reader, force_refill,
                       code, expansion>>
    BY DEF DefineEntry
  <1>6. DictionaryEntries' = DictionaryEntries
    BY <1>5 DEF DictionaryEntries
  <1>7. ReaderSound'
    BY <1>1, <1>2, <1>5, ReaderStays
  <1>8. DictionarySound'
    <2>1. CASE HasRoom
      <3>1. /\ prefixes' = [prefixes EXCEPT ![next_code] = previous_code]
            /\ suffixes' = [suffixes EXCEPT ![next_code] = first_character]
            /\ next_code' = next_code + 1
        BY <2>1 DEF DefineEntry
      <3>2. next_code \in 0..(DictionaryEntries - 1)
        BY <1>2, <2>1 DEF HasRoom
      <3>3. prefixes' \in [0..(DictionaryEntries - 1) -> Nat] /\ suffixes' \in [0..(DictionaryEntries - 1) -> Nat]
        BY <1>2, <1>4, <3>1 DEF DictionarySound
      <3>4. next_code' \in Literals..DictionaryEntries /\ (block_mode => next_code' > CLEAR_CODE)
        BY <1>2, <3>1, <3>2 DEF DictionarySound, CLEAR_CODE
      <3>5. ASSUME NEW c \in Literals..(next_code' - 1) PROVE prefixes'[c] < c
        <4>1. c \in 0..(DictionaryEntries - 1)
          <5> DEFINE l == Literals
                     d == DictionaryEntries
                     n == next_code'
          <5>1. l \in Nat /\ d \in Nat /\ n \in l..d /\ c \in l..(n - 1)
            BY <1>2, <3>4
          <5> HIDE DEF l, d, n
          <5>2. c \in 0..(d - 1)
            BY <5>1
          <5> QED BY <5>2 DEF d
        <4>2. CASE c = next_code
          <5>1. prefixes'[c] = previous_code
            BY <1>2, <3>1, <3>2, <4>2 DEF DictionarySound
          <5> QED BY <1>4, <4>2, <5>1
        <4>3. CASE c # next_code
          <5>1. prefixes'[c] = prefixes[c]
            BY <1>2, <3>1, <4>1, <4>3 DEF DictionarySound
          <5>2. c \in Literals..(next_code - 1)
            BY <1>2, <3>1, <4>3
          <5> QED BY <1>2, <5>1, <5>2 DEF DictionarySound
        <4> QED BY <4>2, <4>3
      <3>6. previous_code' \in 0..(next_code' - 1)
        BY <1>2, <1>3, <1>5, <3>1
      <3> QED BY <1>2, <1>4, <1>5, <1>6, <3>3, <3>4, <3>5, <3>6 DEF DictionarySound, Literals, CLEAR_CODE
    <2>2. CASE ~HasRoom
      <3>1. UNCHANGED <<prefixes, suffixes, next_code>>
        BY <2>2 DEF DefineEntry
      <3>2. next_code = DictionaryEntries
        BY <1>2, <2>2 DEF HasRoom
      <3>3. previous_code' \in 0..(next_code - 1)
        BY <1>2, <1>3, <1>5, <3>2
      <3> QED BY <1>2, <1>4, <1>5, <1>6, <3>1, <3>3 DEF DictionarySound
    <2> QED BY <2>1, <2>2
  <1> QED BY <1>1, <1>2, <1>5, <1>7, <1>8, LzwSoundNext DEF Expanding
\* Every action keeps the dictionary sound.
LEMMA LzwSoundKept ==
    ASSUME Phases, Typed, LzwSound, [Next]_vars
    PROVE  LzwSound'
  <1>0. /\ HeaderVerdict \in CallErrors \cup {"Ok"} /\ Parsed(FrameAtCursor) /\ result # Internal
        /\ Input \in Seq(Nat) /\ Len(Input) \in Nat
    BY HeaderVerdictTyped, FrameAtCursorParsed, JobTyped DEF Typed, LzwSound
  <1> USE DEF CallErrors, Parsed, ParseErrors
  <1>1. CASE PumpStep /\ UNCHANGED streamVars /\ UNCHANGED lzwVars
    <2>1. CASE PumpHead
      <3>1. result' # Internal
        BY <2>1, <1>0 DEF PumpHead, AtCheckpoint, Fail, Checkpoint, Internal
      <3>2. /\ pc \notin Expanding \cup {"done", "memory", "prepay"} /\ pc' \notin Expanding \cup {"memory", "prepay"}
            /\ job' = job
        BY <2>1 DEF PumpHead, AtCheckpoint, Fail, Checkpoint, Expanding
      <3> QED BY <1>1, <3>1, <3>2, LzwRests
    <2>2. CASE ConstructDecoder
      <3>1. result' # Internal
        BY <2>2, <1>0 DEF ConstructDecoder, Fail, Internal
      <3>2. /\ pc \notin Expanding \cup {"done", "memory", "prepay"} /\ pc' \notin Expanding \cup {"memory", "prepay"}
            /\ job' = job
        BY <2>2 DEF ConstructDecoder, Fail, Expanding
      <3> QED BY <1>1, <3>1, <3>2, LzwRests
    <2>3. CASE DecoderReads
      <3>1. result' # Internal
        BY <2>3, <1>0 DEF DecoderReads, DecoderGives, DecoderEnds, DecoderFails, Returns, Internal
      <3>2. /\ pc \notin Expanding \cup {"done", "memory", "prepay"} /\ pc' \notin Expanding \cup {"memory", "prepay"}
            /\ job' = job
        BY <2>3 DEF DecoderReads, DecoderGives, DecoderEnds, DecoderFails, Returns, Expanding
      <3> QED BY <1>1, <3>1, <3>2, LzwRests
    <2>4. CASE DecoderError
      <3>1. result' # Internal
        BY <2>4, <1>0 DEF DecoderError, Fail, ErrorOf, Internal
      <3>2. /\ pc \notin Expanding \cup {"done", "memory", "prepay"} /\ pc' \notin Expanding \cup {"memory", "prepay"}
            /\ job' = job
        BY <2>4 DEF DecoderError, Fail, ErrorOf, Expanding
      <3> QED BY <1>1, <3>1, <3>2, LzwRests
    <2>5. CASE DecoderHasOutput
      <3>1. result' # Internal
        BY <2>5, <1>0 DEF DecoderHasOutput, Returns, Internal
      <3>2. /\ pc \notin Expanding \cup {"done", "memory", "prepay"} /\ pc' \notin Expanding \cup {"memory", "prepay"}
            /\ job' = job
        BY <2>5 DEF DecoderHasOutput, Returns, Expanding
      <3> QED BY <1>1, <3>1, <3>2, LzwRests
    <2>6. CASE DecoderGivesUp
      <3>1. result' # Internal
        BY <2>6, <1>0 DEF DecoderGivesUp, Fail, Internal
      <3>2. /\ pc \notin Expanding \cup {"done", "memory", "prepay"} /\ pc' \notin Expanding \cup {"memory", "prepay"}
            /\ job' = job
        BY <2>6 DEF DecoderGivesUp, Fail, Expanding
      <3> QED BY <1>1, <3>1, <3>2, LzwRests
    <2>7. CASE ChargeRead
      <3>1. result' # Internal
        BY <2>7, <1>0 DEF ChargeRead, AtCheckpoint, Fail, Checkpoint, Internal
      <3>2. /\ pc \notin Expanding \cup {"done", "memory", "prepay"} /\ pc' \notin Expanding \cup {"memory", "prepay"}
            /\ job' = job
        BY <2>7 DEF ChargeRead, AtCheckpoint, Fail, Checkpoint, Expanding
      <3> QED BY <1>1, <3>1, <3>2, LzwRests
    <2>8. CASE WriteOutput
      <3>1. result' # Internal
        BY <2>8, <1>0 DEF WriteOutput, Fail, WriteVerdict, Internal
      <3>2. /\ pc \notin Expanding \cup {"done", "memory", "prepay"} /\ pc' \notin Expanding \cup {"memory", "prepay"}
            /\ job' = job
        BY <2>8 DEF WriteOutput, Fail, WriteVerdict, Expanding
      <3> QED BY <1>1, <3>1, <3>2, LzwRests
    <2>9. CASE AppendOutput
      <3>1. result' # Internal
        BY <2>9, <1>0 DEF AppendOutput, Fail, AppendVerdict, AfterOutput, Internal
      <3>2. /\ pc \notin Expanding \cup {"done", "memory", "prepay"} /\ pc' \notin Expanding \cup {"memory", "prepay"}
            /\ job' = job
        BY <2>9 DEF AppendOutput, Fail, AppendVerdict, AfterOutput, Expanding
      <3> QED BY <1>1, <3>1, <3>2, LzwRests
    <2>10. CASE CoderEnds
      <3>1. result' # Internal
        BY <2>10, <1>0 DEF CoderEnds, Fail, Internal
      <3>2. /\ pc \notin Expanding \cup {"done", "memory", "prepay"} /\ pc' \notin Expanding \cup {"memory", "prepay"}
            /\ job' = job
        BY <2>10 DEF CoderEnds, Fail, Expanding
      <3> QED BY <1>1, <3>1, <3>2, LzwRests
    <2>11. CASE StartCoder
      <3>1. result' # Internal
        BY <2>11, <1>0 DEF StartCoder, Fail, BeginDecoding, Internal
      <3>2. /\ pc \notin Expanding \cup {"done", "memory", "prepay"} /\ pc' \notin Expanding \cup {"memory", "prepay"}
            /\ job' = job
        BY <2>11 DEF StartCoder, Fail, BeginDecoding, Expanding
      <3> QED BY <1>1, <3>1, <3>2, LzwRests
    <2> QED BY <1>1, <2>1, <2>2, <2>3, <2>4, <2>5, <2>6, <2>7, <2>8, <2>9, <2>10, <2>11 DEF PumpStep
  <1>2. CASE StreamStep /\ UNCHANGED lzwVars
    <2>1. CASE ChargeInput
      <3>1. result' # Internal
        BY <2>1, <1>0 DEF ChargeInput, Fail, Checkpoint, Internal
      <3>2. /\ pc \notin Expanding \cup {"done", "memory", "prepay"} /\ pc' \notin Expanding \cup {"memory", "prepay"}
            /\ job' = job
        BY <2>1 DEF ChargeInput, Fail, Checkpoint, Expanding
      <3> QED BY <1>2, <3>1, <3>2, LzwRests
    <2>2. CASE DetectFormat
      <3>1. result' # Internal
        BY <2>2, <1>0 DEF DetectFormat, Fail, Internal
      <3>2. /\ pc \notin Expanding \cup {"done", "memory", "prepay"} /\ pc' \notin Expanding \cup {"memory", "prepay"}
            /\ job' = job
        BY <2>2 DEF DetectFormat, Fail, Expanding
      <3> QED BY <1>2, <3>1, <3>2, LzwRests
    <2>3. CASE ParseFrame
      <3>1. result' # Internal
        BY <2>3, <1>0 DEF ParseFrame, Fail, Internal
      <3>2. /\ pc \notin Expanding \cup {"done", "memory", "prepay"} /\ pc' \notin Expanding \cup {"memory", "prepay"}
            /\ job' = job
        BY <2>3 DEF ParseFrame, Fail, Expanding
      <3> QED BY <1>2, <3>1, <3>2, LzwRests
    <2>4. CASE OpenReturns
      <3>1. result' # Internal
        BY <2>4, <1>0 DEF OpenReturns, Fail, Internal
      <3>2. /\ pc \notin Expanding \cup {"done", "memory", "prepay"} /\ pc' \notin Expanding \cup {"memory", "prepay"}
            /\ job' = job
        BY <2>4 DEF OpenReturns, Fail, Expanding
      <3> QED BY <1>2, <3>1, <3>2, LzwRests
    <2>5. CASE BeginFrame
      <3>1. result' # Internal
        BY <2>5, <1>0 DEF BeginFrame, Fail, Checkpoint, Internal
      <3>2. /\ pc \notin Expanding \cup {"done", "memory", "prepay"} /\ pc' \notin Expanding \cup {"memory", "prepay"}
            /\ job' = job
        BY <2>5 DEF BeginFrame, Fail, Checkpoint, Expanding
      <3> QED BY <1>2, <3>1, <3>2, LzwRests
    <2>6. CASE FinishFrame
      <3>1. result' # Internal
        BY <2>6, <1>0 DEF FinishFrame, Fail, FrameVerdict, Internal
      <3>2. /\ pc \notin Expanding \cup {"done", "memory", "prepay"} /\ pc' \notin Expanding \cup {"memory", "prepay"}
            /\ job' = job
        BY <2>6 DEF FinishFrame, Fail, FrameVerdict, Expanding
      <3> QED BY <1>2, <3>1, <3>2, LzwRests
    <2>7. CASE ExtractReturns
      <3>1. result' # Internal
        BY <2>7, <1>0 DEF ExtractReturns, Fail, Internal
      <3>2. /\ pc \notin Expanding \cup {"done", "memory", "prepay"} /\ pc' \notin Expanding \cup {"memory", "prepay"}
            /\ job' = job
        BY <2>7 DEF ExtractReturns, Fail, Expanding
      <3> QED BY <1>2, <3>1, <3>2, LzwRests
    <2> QED BY <1>2, <2>1, <2>2, <2>3, <2>4, <2>5, <2>6, <2>7 DEF StreamStep
  <1>3. CASE LzwStep
    <2>1. CASE ParseHeader
      BY <2>1, ParseHeaderSound
    <2>2. CASE AllocateDictionary
      BY <2>2, AllocateDictionarySound
    <2>3. CASE PrepayInput
      BY <2>3, PrepayInputSound
    <2>4. CASE NextCode
      BY <2>4, NextCodeSound
    <2>5. CASE WriteLiteral
      BY <2>5, WriteLiteralSound
    <2>6. CASE WalkChain
      BY <2>6, WalkChainSound
    <2>7. CASE ChainEnds
      BY <2>7, ChainEndsSound
    <2>8. CASE WriteReversed
      BY <2>8, WriteReversedSound
    <2>9. CASE DefineEntry
      BY <2>9, DefineEntrySound
    <2> QED BY <1>3, <2>1, <2>2, <2>3, <2>4, <2>5, <2>6, <2>7, <2>8, <2>9 DEF LzwStep
  <1>4. CASE Cancel
    BY <1>4, LzwStays DEF Cancel, LzwSound
  <1>5. CASE Retry
    BY <1>5, LzwStays DEF Retry, DecoderRetries, LzwSound
  <1>6. CASE UNCHANGED vars
    BY <1>6, LzwStays DEF vars, LzwSound
  <1> QED BY <1>1, <1>2, <1>3, <1>4, <1>5, <1>6, Steps

-----------------------------------------------------------------------------
(***************************************************************************)
(* What was written is within the limits.                                  *)
(***************************************************************************)
\* The units of one read.
LEMMA ChunkTyped ==
    ASSUME Typed
    PROVE  Chunk \in Seq(Element) /\ Len(Chunk) = read /\ read \in Nat
  <1>1. read \in Nat /\ produced \in Nat /\ read <= produced /\ produced <= Len(decoder.units)
        /\ Len(decoder.units) \in Nat
    BY DecoderTyped DEF Typed
  <1>2. \A i \in 1..read : decoder.units[produced - read + i].unit \in Element
    <2>1. ASSUME NEW i \in 1..read PROVE decoder.units[produced - read + i].unit \in Element
      <3>1. produced - read + i \in 1..Len(decoder.units)
        BY <1>1
      <3> QED BY <3>1, DecoderTyped DEF Element
    <2> QED BY <2>1
  <1>3. Chunk \in [1..read -> Element]
    BY <1>2 DEF Chunk
  <1> QED BY <1>1, <1>3

\* More is written behind what there is.
LEMMA Writes ==
    ASSUME NEW bytes \in Seq(Element), output \in Seq(Element), output' = output \o bytes
    PROVE  output' \in Seq(Element) /\ Len(output') = Len(output) + Len(bytes)
           /\ Len(output) \in Nat /\ Len(bytes) \in Nat
  BY ConcatProperties

\* A token or a budget that stops a call leaves the rest as it was.
LEMMA ChargedTyped ==
    ASSUME budget.consumed \in Int, NEW units \in Int, budget' = Charged(budget, units)
    PROVE  budget'.consumed \in Int /\ budget'.consumed = budget.consumed + units
  BY DEF Charged

\* The bytes that are written from the end of an expansion.
LEMMA ReversedTyped ==
    ASSUME NEW s \in Seq(Nat), NEW kept \in Nat, kept <= Len(s)
    PROVE  /\ Reverse(SubSeq(s, kept + 1, Len(s))) \in Seq(Element)
           /\ Len(Reverse(SubSeq(s, kept + 1, Len(s)))) = Len(s) - kept
  <1> DEFINE b == SubSeq(s, kept + 1, Len(s))
  <1>1. \A i \in (kept + 1)..Len(s) : s[i] \in Nat
    OBVIOUS
  <1>2. Len(s) \in Nat /\ kept + 1 \in Int
    OBVIOUS
  <1>3. b \in Seq(Nat) /\ Len(b) = IF kept + 1 <= Len(s) THEN Len(s) - (kept + 1) + 1 ELSE 0
    BY <1>1, <1>2, SubSeqProperties
  <1>4. Len(b) = Len(s) - kept
    BY <1>2, <1>3
  <1> HIDE DEF b
  <1>5. Reverse(b) = [i \in 1..Len(b) |-> b[(Len(b) - i) + 1]]
    BY DEF Reverse
  <1>6. ASSUME NEW i \in 1..Len(b) PROVE b[(Len(b) - i) + 1] \in Element
    <2>1. Len(b) \in Nat
      BY <1>3
    <2>2. (Len(b) - i) + 1 \in 1..Len(b)
      BY <2>1
    <2>4. b \in Seq(Nat)
      BY <1>3
    <2>3. b[(Len(b) - i) + 1] \in Nat
      <3> DEFINE j == (Len(b) - i) + 1
      <3>1. j \in 1..Len(b)
        BY <2>2
      <3> HIDE DEF j
      <3>2. b[j] \in Nat
        BY <2>4, <3>1
      <3> QED BY <3>2 DEF j
    <2> QED BY <2>3 DEF Element
  <1>7. Reverse(b) \in [1..Len(b) -> Element]
    BY <1>5, <1>6
  <1>8. Reverse(b) \in Seq(Element) /\ Len(Reverse(b)) = Len(b)
    <2>1. Len(b) \in Nat
      BY <1>3
    <2> QED BY <1>7, <2>1, MappedSequence
  <1> QED BY <1>4, <1>8 DEF b

\* A code is paid for, and nothing is written.
LEMMA NextCodeFrame ==
    ASSUME NextCode
    PROVE  /\ job' = job /\ output' = output /\ pc = "code"
           /\ maximum_code_bits' = maximum_code_bits
           /\ budget' = budget \/ budget' = Charged(budget, 1)
           /\ pc' \in Expanding => budget' = Charged(budget, 1)
           /\ result' = "Ok" => budget' = Charged(budget, 1) \/ result = "Ok"
  <1>1. job' = job /\ pc = "code"
    BY DEF NextCode, Elsewhere
  <1>2. CASE ~Passed(1)
    BY <1>1, <1>2 DEF NextCode, LzwCheckpoint, Fail, Passed, Expanding, lzwVars
  <1>3. CASE Passed(1)
    <2>1. budget' = Charged(budget, 1) /\ (LzwEnds \/ Clears \/ FirstCode \/ LaterCode)
      BY <1>3 DEF NextCode, LzwCheckpoint
    <2>2. output' = output /\ maximum_code_bits' = maximum_code_bits
      <3>1. CASE LzwEnds
        BY <3>1 DEF LzwEnds, lzwVars
      <3>2. CASE Clears
        BY <3>2 DEF Clears
      <3>3. CASE FirstCode
        BY <3>3 DEF FirstCode, TakesCode, lzwVars
      <3>4. CASE LaterCode
        BY <3>4 DEF LaterCode, TakesCode, lzwVars
      <3> QED BY <2>1, <3>1, <3>2, <3>3, <3>4
    <2> QED BY <1>1, <2>1, <2>2
  <1> QED BY <1>2, <1>3

\* A write of a stream is admitted.
LEMMA LzwLimits ==
    ASSUME NEW bytes \in Seq(Element), Admitted, job' = job, Streaming, budget'.consumed \in Int,
           output' = output \/ (output' = output \o bytes /\ WriteVerdict(Len(output) + Len(bytes)) = "Ok")
    PROVE  Admitted'
  <1>1. CASE output' = output
    BY <1>1 DEF Admitted, Streaming
  <1>2. CASE output' = output \o bytes /\ WriteVerdict(Len(output) + Len(bytes)) = "Ok"
    <2>1. output' \in Seq(Element) /\ Len(output') = Len(output) + Len(bytes) /\ Len(output') \in Nat
      BY <1>2, Writes DEF Admitted
    <2> QED BY <1>2, <2>1, PumpAssumption DEF Admitted, WriteVerdict, Streaming, Least
  <1> QED BY <1>1, <1>2

\* Every action keeps within the limits.
LEMMA AdmittedKept ==
    ASSUME Typed, Phases, LzwSound, Admitted, [Next]_vars
    PROVE  Admitted'
  <1>0. /\ Chunk \in Seq(Element) /\ Len(Chunk) = read /\ read \in Nat
        /\ consumed \in Int /\ charged_input \in Int /\ job.maximum \in Nat /\ Len(Input) \in Nat
        /\ expansion \in Seq(Nat) /\ Len(expansion) \in Nat /\ DictionaryBytes \in Nat
        /\ code \in Nat \/ pc # "literal"
        /\ {MaxEntryOutput, MaxTotalOutput} \subseteq Nat /\ ControlChunk \in Nat
        /\ output \in Seq(Element) /\ Len(output) \in Nat /\ budget.consumed \in Int /\ Admitted
    <2>1. code \in Nat \/ pc # "literal"
      BY CodeSizes DEF LzwSound
    <2>2. consumed \in Int /\ charged_input \in Int /\ job \in Jobs
      BY DEF Typed
    <2>3. output \in Seq(Element) /\ Len(output) \in Nat /\ budget.consumed \in Int
      BY DEF Admitted
    <2>4. expansion \in Seq(Nat) /\ Len(expansion) \in Nat /\ DictionaryBytes \in Nat
      BY CodeSizes DEF LzwSound
    <2> QED BY <2>1, <2>2, <2>3, <2>4, ChunkTyped, JobTyped, PumpAssumption
  <1> USE DEF Admitted
  <1>1. CASE PumpStep /\ UNCHANGED streamVars /\ UNCHANGED lzwVars
    <2>1. CASE PumpHead
      <3>1. job' = job /\ output' = output /\ (budget' = budget \/ budget' = Charged(budget, 0))
        BY <1>1, <2>1 DEF PumpHead, AtCheckpoint, pumpVars, streamVars
      <3>2. budget'.consumed \in Int
        BY <1>0, <3>1, ChargedTyped
      <3> QED BY <1>0, <3>1, <3>2 DEF Streaming
    <2>2. CASE ConstructDecoder
      BY <1>0, <1>1, <2>2 DEF ConstructDecoder, Fail, streamVars, lzwVars, pumpVars, Streaming
    <2>3. CASE DecoderReads
      BY <1>0, <1>1, <2>3 DEF DecoderReads, DecoderGives, DecoderEnds, DecoderFails, Returns, streamVars, lzwVars,
         pumpVars, Streaming
    <2>4. CASE DecoderError
      BY <1>0, <1>1, <2>4 DEF DecoderError, Fail, streamVars, lzwVars, pumpVars, Streaming
    <2>5. CASE DecoderHasOutput
      BY <1>0, <1>1, <2>5 DEF DecoderHasOutput, Returns, streamVars, lzwVars, pumpVars, Streaming
    <2>6. CASE DecoderGivesUp
      BY <1>0, <1>1, <2>6 DEF DecoderGivesUp, Fail, streamVars, lzwVars, pumpVars, Streaming
    <2>7. CASE ChargeRead
      <3>1. Work \in Int
        BY <1>0 DEF Work
      <3>2. job' = job /\ output' = output /\ (budget' = budget \/ budget' = Charged(budget, Work))
        BY <1>1, <2>7 DEF ChargeRead, AtCheckpoint, streamVars
      <3>3. budget'.consumed \in Int
        BY <1>0, <3>1, <3>2, ChargedTyped
      <3> QED BY <1>0, <3>2, <3>3 DEF Streaming
    <2>8. CASE WriteOutput
      <3>1. CASE output' = output
        BY <2>8, <3>1, <1>0 DEF WriteOutput, Streaming
      <3>2. CASE output' # output
        <4>1. /\ output' = output \o Chunk /\ WriteVerdict(Len(output) + read) = "Ok" /\ Streaming
              /\ job' = job /\ budget' = budget
          BY <2>8, <3>2 DEF WriteOutput
        <4>2. Chunk \in Seq(Element) /\ output \in Seq(Element) /\ output' = output \o Chunk
          BY <4>1, <1>0
        <4>3. output' \in Seq(Element) /\ Len(output') = Len(output) + Len(Chunk)
          BY <4>2, Writes
        <4> QED BY <4>1, <4>3, <1>0 DEF WriteVerdict, Streaming, Least
      <3> QED BY <3>1, <3>2
    <2>9. CASE AppendOutput
      <3>1. CASE output' = output
        BY <2>9, <3>1, <1>0 DEF AppendOutput, Streaming
      <3>2. CASE output' # output
        <4>1. /\ output' = output \o Chunk /\ AppendVerdict(Len(output) + read) = "Ok" /\ ~Streaming
              /\ job' = job /\ budget' = budget
          BY <2>9, <3>2 DEF AppendOutput
        <4>2. Chunk \in Seq(Element) /\ output \in Seq(Element) /\ output' = output \o Chunk
          BY <4>1, <1>0
        <4>3. output' \in Seq(Element) /\ Len(output') = Len(output) + Len(Chunk)
          BY <4>2, Writes
        <4> QED BY <4>1, <4>3, <1>0 DEF AppendVerdict, Streaming
      <3> QED BY <3>1, <3>2
    <2>10. CASE CoderEnds
      BY <1>0, <1>1, <2>10 DEF CoderEnds, Fail, streamVars, lzwVars, pumpVars, Streaming
    <2>11. CASE StartCoder
      BY <1>0, <1>1, <2>11 DEF StartCoder, Fail, BeginDecoding, streamVars, lzwVars, pumpVars, Streaming
    <2> QED BY <1>1, <2>1, <2>2, <2>3, <2>4, <2>5, <2>6, <2>7, <2>8, <2>9, <2>10, <2>11 DEF PumpStep
  <1>2. CASE StreamStep /\ UNCHANGED lzwVars
    <2>1. CASE ChargeInput
      <3> DEFINE chunk == Least(ControlChunk, Len(Input) - charged_input)
      <3>1. chunk \in Int
        BY <1>0 DEF Least
      <3>2. job' = job /\ output' = output /\ (budget' = budget \/ budget' = Charged(budget, chunk))
        BY <2>1 DEF ChargeInput
      <3> HIDE DEF chunk
      <3> QED BY <1>0, <3>1, <3>2, ChargedTyped DEF Streaming
    <2>2. CASE DetectFormat
      BY <1>0, <1>2, <2>2 DEF DetectFormat, Fail, streamVars, lzwVars, pumpVars, Streaming
    <2>3. CASE ParseFrame
      BY <1>0, <1>2, <2>3 DEF ParseFrame, Fail, streamVars, lzwVars, pumpVars, Streaming
    <2>4. CASE OpenReturns
      BY <1>0, <1>2, <2>4 DEF OpenReturns, Fail, streamVars, lzwVars, pumpVars, Streaming
    <2>5. CASE BeginFrame
      BY <1>0, <1>2, <2>5 DEF BeginFrame, Fail, BeginDecoding, streamVars, lzwVars, pumpVars, Streaming
    <2>6. CASE FinishFrame
      BY <1>0, <1>2, <2>6 DEF FinishFrame, Fail, streamVars, lzwVars, pumpVars, Streaming
    <2>7. CASE ExtractReturns
      BY <1>0, <1>2, <2>7 DEF ExtractReturns, Fail, streamVars, lzwVars, pumpVars, Streaming
    <2> QED BY <1>2, <2>1, <2>2, <2>3, <2>4, <2>5, <2>6, <2>7 DEF StreamStep
  <1>3. CASE LzwStep
    <2>1. CASE ParseHeader
      BY <1>0, <1>3, <2>1 DEF ParseHeader, Fail, lzwVars, Elsewhere, Streaming
    <2>2. CASE AllocateDictionary
      BY <1>3, <2>2, <1>0 DEF AllocateDictionary, LzwCheckpoint, Fail, Charged, Elsewhere, Streaming
    <2>3. CASE PrepayInput
      <3> DEFINE chunk == Least(ControlChunk, LzwLength - charged_input)
      <3>1. chunk \in Int
        BY <1>0 DEF Least, LzwLength
      <3>2. job' = job /\ output' = output /\ (budget' = budget \/ budget' = Charged(budget, chunk))
        BY <2>3 DEF PrepayInput, LzwCheckpoint, Elsewhere
      <3> HIDE DEF chunk
      <3> QED BY <1>0, <3>1, <3>2, ChargedTyped DEF Streaming
    <2>4. CASE NextCode
      <3>1. job' = job /\ output' = output /\ (budget' = budget \/ budget' = Charged(budget, 1))
        BY <2>4, NextCodeFrame
      <3> QED BY <1>0, <3>1, ChargedTyped DEF Streaming
    <2>5. CASE WriteLiteral
      <3>1. <<code>> \in Seq(Element) /\ Len(<<code>>) = 1
        BY <2>5, <1>0 DEF WriteLiteral, LzwSound, Expanding, Element
      <3>2. job' = job /\ (budget' = budget \/ budget' = Charged(budget, 1))
        BY <2>5 DEF WriteLiteral, Elsewhere, LzwCheckpoint
      <3>5. budget'.consumed \in Int
        BY <1>0, <3>2, ChargedTyped
      <3>3. \/ output' = output
            \/ output' = output \o <<code>> /\ WriteVerdict(Len(output) + Len(<<code>>)) = "Ok"
        BY <2>5 DEF WriteLiteral, LzwCheckpoint, LzwWrites
      <3>4. Streaming
        BY <2>5 DEF WriteLiteral, Phases, Expanding
      <3> QED BY <1>0, <3>1, <3>2, <3>3, <3>4, <3>5, LzwLimits
    <2>6. CASE WalkChain
      <3>1. job' = job /\ output' = output /\ (budget' = budget \/ budget' = Charged(budget, 1))
        BY <2>6 DEF WalkChain, LzwCheckpoint, Elsewhere
      <3>2. budget'.consumed \in Int
        BY <1>0, <3>1, ChargedTyped
      <3> QED BY <1>0, <3>1, <3>2 DEF Streaming
    <2>7. CASE ChainEnds
      BY <1>0, <1>3, <2>7 DEF ChainEnds, lzwVars, Elsewhere, Streaming
    <2>8. CASE WriteReversed
      <3> DEFINE count == Least(ControlChunk, Len(expansion))
                 kept  == Len(expansion) - count
                 bytes == Reverse(SubSeq(expansion, kept + 1, Len(expansion)))
      <3>1. kept \in Nat /\ kept <= Len(expansion) /\ count \in Int
        BY <1>0, PumpAssumption DEF Least
      <3>2. bytes \in Seq(Element)
        BY <1>0, <3>1, ReversedTyped
      <3>3. \/ output' = output
            \/ output' = output \o bytes /\ WriteVerdict(Len(output) + Len(bytes)) = "Ok"
        BY <2>8 DEF WriteReversed, LzwCheckpoint, LzwWrites
      <3>4. Streaming /\ job' = job
        BY <2>8 DEF WriteReversed, Phases, Expanding, Elsewhere
      <3>5. budget' = budget \/ budget' = Charged(budget, count)
        BY <2>8 DEF WriteReversed, LzwCheckpoint
      <3> HIDE DEF count, bytes
      <3>6. budget'.consumed \in Int
        BY <1>0, <3>1, <3>5, ChargedTyped
      <3> QED BY <1>0, <3>2, <3>3, <3>4, <3>6, LzwLimits
    <2>9. CASE DefineEntry
      BY <1>0, <1>3, <2>9 DEF DefineEntry, lzwVars, Elsewhere, Streaming
    <2> QED BY <1>3, <2>1, <2>2, <2>3, <2>4, <2>5, <2>6, <2>7, <2>8, <2>9 DEF LzwStep
  <1>4. CASE Cancel
    BY <1>0, <1>4 DEF Cancel, streamVars, lzwVars, pumpVars, Streaming
  <1>5. CASE Retry
    BY <1>0, <1>5 DEF Retry, DecoderRetries, streamVars, lzwVars, pumpVars, Streaming
  <1>6. CASE UNCHANGED vars
    BY <1>0, <1>6 DEF vars, streamVars, lzwVars, pumpVars, Streaming
  <1> QED BY <1>1, <1>2, <1>3, <1>4, <1>5, <1>6, Steps

-----------------------------------------------------------------------------
(***************************************************************************)
(* What was written was paid for.                                          *)
(***************************************************************************)
\* The tokens of the frames.
LEMMA FramesTyped ==
    ASSUME Typed, NEW k \in 0..Len(layout)
    PROVE  /\ [i \in 1..k |-> FrameTokensOf(layout[i])] \in Seq(Seq(Nat))
           /\ Len([i \in 1..k |-> FrameTokensOf(layout[i])]) = k
           /\ k \in Nat
  <1>1. k \in Nat /\ Len(layout) \in Nat /\ k <= Len(layout) /\ Input \in Seq(Nat)
    BY JobTyped DEF Typed, LayoutTyped, IsSequence
  <1>2. ASSUME NEW i \in 1..k PROVE FrameTokensOf(layout[i]) \in Seq(Nat)
    <2>1. i \in 1..Len(layout)
      BY <1>1
    <2>2. layout[i].start \in Nat /\ layout[i].end \in 0..Len(Input)
      BY <2>1 DEF Typed, LayoutTyped
    <2> QED BY <1>1, <2>2, RangeTyped
  <1>3. [i \in 1..k |-> FrameTokensOf(layout[i])] \in [1..k -> Seq(Nat)]
    BY <1>2
  <1> QED BY <1>1, <1>3, MappedSequence

\* What they add up to.
LEMMA FrameInputTyped ==
    ASSUME Typed, NEW k \in 0..Len(layout)
    PROVE  FrameInput(k) \in Nat /\ FrameInput(0) = 0
  <1>1. FlattenSeq([i \in 1..k |-> FrameTokensOf(layout[i])]) \in Seq(Nat)
    BY FramesTyped, FlattenType
  <1>2. FrameInput(k) \in Nat
    BY <1>1 DEF FrameInput
  <1>3. [i \in 1..0 |-> FrameTokensOf(layout[i])] = <<>>
    OBVIOUS
  <1>4. FlattenSeq([i \in 1..0 |-> FrameTokensOf(layout[i])]) = <<>>
    BY <1>3, FlattenEmpty
  <1> QED BY <1>2, <1>4 DEF FrameInput

\* One frame more.
LEMMA FrameInputNext ==
    ASSUME Typed, NEW k \in Nat, k < Len(layout)
    PROVE  FrameInput(k + 1) = FrameInput(k) + Len(FrameTokensOf(layout[k + 1]))
  <1> DEFINE s == [i \in 1..(k + 1) |-> FrameTokensOf(layout[i])]
             u == [i \in 1..k |-> FrameTokensOf(layout[i])]
  <1>1. k \in 0..Len(layout) /\ k + 1 \in 0..Len(layout)
    BY DEF Typed, LayoutTyped, IsSequence
  <1>2. s \in Seq(Seq(Nat)) /\ u \in Seq(Seq(Nat)) /\ Len(s) = k + 1 /\ Len(u) = k
    BY <1>1, FramesTyped
  <1>3. \A i \in 1..k : s[i] = u[i]
    OBVIOUS
  <1>4. s[k + 1] = FrameTokensOf(layout[k + 1])
    OBVIOUS
  <1>5. FrameInput(k + 1) = Len(FlattenSeq(s)) /\ FrameInput(k) = Len(FlattenSeq(u))
    BY DEF FrameInput
  <1> HIDE DEF s, u
  <1>6. FlattenSeq(s) = FlattenSeq(u) \o s[Len(s)]
    BY <1>2, <1>3, FlattenLast
  <1>7. FlattenSeq(u) \in Seq(Nat) /\ s[k + 1] \in Seq(Nat)
    BY <1>2, FlattenType
  <1>8. Len(FlattenSeq(u) \o s[k + 1]) = Len(FlattenSeq(u)) + Len(s[k + 1])
    BY <1>7, ConcatProperties
  <1> QED BY <1>2, <1>4, <1>5, <1>6, <1>8

\* All of them, as the property counts them.
LEMMA FrameInputAll ==
    ASSUME Typed
    PROVE  Len(FlattenSeq([i \in DOMAIN layout |-> FrameTokensOf(layout[i])])) = FrameInput(Len(layout))
  <1>1. DOMAIN layout = 1..Len(layout)
    BY SequenceOverRange DEF Typed, LayoutTyped
  <1> QED BY <1>1 DEF FrameInput

\* What was paid for frames does not depend on the rest of the state.
LEMMA PaidFramesStay ==
    ASSUME UNCHANGED <<job, layout, frame>>
    PROVE  PaidFrames' = PaidFrames
  BY DEF PaidFrames, FrameInput, FrameTokensOf, Input, Streaming

\* Before the first frame only the opening was paid for.
LEMMA PaidFramesTyped ==
    ASSUME Typed
    PROVE  PaidFrames \in Nat /\ (Streaming /\ frame = 0 => PaidFrames = Len(Input))
  BY FrameInputTyped, JobTyped DEF PaidFrames, Typed

\* Where a code leads.
LEMMA NextCodePlaces == NextCode => pc' \in Expanding \cup {"done"}
  <1>1. ASSUME NextCode PROVE pc' \in Expanding \cup {"done"}
    <2>1. pc = "code"
      BY <1>1 DEF NextCode
    <2>2. CASE ~Passed(1)
      BY <1>1, <2>2 DEF NextCode, LzwCheckpoint, Fail
    <2>3. CASE Passed(1)
      <3>1. LzwEnds \/ Clears \/ FirstCode \/ LaterCode
        BY <1>1, <2>3 DEF NextCode, LzwCheckpoint
      <3> QED BY <2>1, <3>1 DEF LzwEnds, Clears, FirstCode, LaterCode, TakesCode, Fail, Expanding
    <2> QED BY <2>2, <2>3
  <1> QED BY <1>1

\* Every action keeps what was paid ahead of what was taken and given.
LEMMA PayingKept ==
    ASSUME Typed, Phases, LzwSound, FrameBound, Admitted, Paying, [Next]_vars
    PROVE  Paying'
  <1>0. /\ Chunk \in Seq(Element) /\ Len(Chunk) = read /\ read \in Nat
        /\ consumed \in Nat /\ charged_input \in Int /\ Len(Input) \in Nat /\ PaidFrames \in Nat
        /\ expansion \in Seq(Nat) /\ Len(expansion) \in Nat /\ DictionaryBytes \in Nat /\ LzwLength \in Int
        /\ code \in Nat \/ pc # "literal"
        /\ ControlChunk \in Nat
        /\ output \in Seq(Element) /\ Len(output) \in Nat /\ budget.consumed \in Int /\ Paying
    <2>1. code \in Nat \/ pc # "literal"
      BY CodeSizes DEF LzwSound
    <2>2. consumed \in Nat /\ charged_input \in Int /\ job \in Jobs
      BY DEF Typed
    <2>3. output \in Seq(Element) /\ Len(output) \in Nat /\ budget.consumed \in Int
      BY DEF Admitted
    <2>4. expansion \in Seq(Nat) /\ Len(expansion) \in Nat /\ DictionaryBytes \in Nat
      BY CodeSizes DEF LzwSound
    <2>5. Len(Input) \in Nat /\ LzwLength \in Int
      BY <2>2, JobTyped DEF LzwLength
    <2>6. ControlChunk \in Nat
      BY PumpAssumption
    <2> QED BY <2>1, <2>2, <2>3, <2>4, <2>5, <2>6, ChunkTyped, PaidFramesTyped
  <1>1. CASE PumpStep /\ UNCHANGED streamVars /\ UNCHANGED lzwVars
    <2>1. CASE PumpHead
      <3>1. PaidFrames' = PaidFrames
        BY <1>1, <2>1, PaidFramesStay DEF PumpHead, streamVars
      <3>2. CASE pc' = "done"
        BY <3>2 DEF Paying, Pumping, Expanding
      <3>3. CASE pc' # "done"
        <4>1. /\ pc' = "decode" /\ pc = "pump" /\ budget' = Charged(budget, 0) /\ UNCHANGED <<output, charged_input>>
          BY <2>1, <3>3 DEF PumpHead, AtCheckpoint, Fail, pumpVars
        <4>2. budget'.consumed = budget.consumed
          BY <1>0, <4>1, ChargedTyped
        <4> QED BY <1>0, <3>1, <4>1, <4>2 DEF Paying, Pumping, Expanding
      <3> QED BY <3>2, <3>3
    <2>2. CASE ConstructDecoder
      <3>1. PaidFrames' = PaidFrames
        BY <1>1, <2>2, PaidFramesStay DEF ConstructDecoder, streamVars, Elsewhere
      <3> QED BY <1>0, <1>1, <2>2, <3>1 DEF ConstructDecoder, Fail, Charged, Paying, streamVars, pumpVars, Pumping,
                 Opening, Expanding, Streaming, Input, Phases
    <2>3. CASE DecoderReads
      <3>1. PaidFrames' = PaidFrames
        BY <1>1, <2>3, PaidFramesStay DEF DecoderReads, streamVars, Elsewhere
      <3> QED BY <1>0, <1>1, <2>3, <3>1 DEF DecoderReads, DecoderGives, DecoderEnds, DecoderFails, Returns,
                 Charged, Paying, streamVars, pumpVars, Pumping, Opening, Expanding, Streaming, Input, Phases
    <2>4. CASE DecoderError
      <3>1. pc' = "done"
        BY <2>4 DEF DecoderError, Fail
      <3> QED BY <3>1 DEF Paying, Pumping, Expanding
    <2>5. CASE DecoderHasOutput
      <3>1. PaidFrames' = PaidFrames
        BY <1>1, <2>5, PaidFramesStay DEF DecoderHasOutput, streamVars, Elsewhere
      <3> QED BY <1>0, <1>1, <2>5, <3>1 DEF DecoderHasOutput, Returns, Charged, Paying, streamVars, pumpVars,
                 Pumping, Opening, Expanding, Streaming, Input, Phases
    <2>6. CASE DecoderGivesUp
      <3>1. pc' = "done"
        BY <2>6 DEF DecoderGivesUp, Fail
      <3> QED BY <3>1 DEF Paying, Pumping, Expanding
    <2>7. CASE ChargeRead
      <3>1. PaidFrames' = PaidFrames
        BY <1>1, <2>7, PaidFramesStay DEF ChargeRead, streamVars
      <3>2. CASE pc' = "done"
        BY <3>2 DEF Paying, Pumping, Expanding
      <3>3. CASE pc' # "done"
        <4>1. /\ pc' \in {"accept", "ended"} /\ charged_input' = consumed /\ budget' = Charged(budget, Work) /\ pc = "charge"
              /\ UNCHANGED <<job, output, consumed, read>>
          BY <2>7, <3>3 DEF ChargeRead, AtCheckpoint, Fail
        <4>2. budget'.consumed = budget.consumed + Work /\ Work \in Int
          BY <1>0, <4>1, ChargedTyped DEF Work
        <4> QED BY <1>0, <3>1, <4>1, <4>2 DEF Paying, Work, Pumping, Opening, Expanding, Streaming, Input, Phases
      <3> QED BY <3>2, <3>3
    <2>8. CASE WriteOutput
      <3>1. CASE pc' = "done"
        BY <3>1 DEF Paying, Pumping, Expanding
      <3>2. CASE pc' # "done"
        <4>1. /\ output' = output \o Chunk /\ pc = "accept" /\ pc' \in {"pump", "ended"}
              /\ UNCHANGED <<job, budget, charged_input, consumed, read>>
          BY <2>8, <3>2 DEF WriteOutput, Fail, AfterOutput, pumpVars
        <4>2. PaidFrames' = PaidFrames
          BY <1>1, <4>1, PaidFramesStay DEF streamVars
        <4>3. Len(output') = Len(output) + Len(Chunk)
          BY <1>0, <4>1, Writes
        <4>4. budget.consumed >= Len(output) + PaidFrames + charged_input + read /\ charged_input = consumed
          BY <1>0, <4>1 DEF Paying
        <4>5. budget.consumed >= Len(output') + PaidFrames + charged_input
          BY <1>0, <4>3, <4>4
        <4> QED BY <4>1, <4>2, <4>4, <4>5 DEF Paying, Pumping, Expanding
      <3> QED BY <3>1, <3>2
    <2>9. CASE AppendOutput
      <3>1. CASE pc' = "done"
        BY <3>1 DEF Paying, Pumping, Expanding
      <3>2. CASE pc' # "done"
        <4>1. /\ output' = output \o Chunk /\ pc = "accept" /\ pc' \in {"pump", "ended"}
              /\ UNCHANGED <<job, budget, charged_input, consumed, read>>
          BY <2>9, <3>2 DEF AppendOutput, Fail, AfterOutput, pumpVars
        <4>2. PaidFrames' = PaidFrames
          BY <1>1, <4>1, PaidFramesStay DEF streamVars
        <4>3. Len(output') = Len(output) + Len(Chunk)
          BY <1>0, <4>1, Writes
        <4>4. budget.consumed >= Len(output) + PaidFrames + charged_input + read /\ charged_input = consumed
          BY <1>0, <4>1 DEF Paying
        <4>5. budget.consumed >= Len(output') + PaidFrames + charged_input
          BY <1>0, <4>3, <4>4
        <4> QED BY <4>1, <4>2, <4>4, <4>5 DEF Paying, Pumping, Expanding
      <3> QED BY <3>1, <3>2
    <2>10. CASE CoderEnds
      <3>1. pc' = "done"
        BY <2>10 DEF CoderEnds, Fail
      <3> QED BY <3>1 DEF Paying, Pumping, Expanding
    <2>11. CASE StartCoder
      <3>1. CASE pc' = "done"
        BY <3>1 DEF Paying, Pumping, Expanding
      <3>2. CASE pc' # "done"
        <4>1. /\ pc = "coder" /\ pc' \in {"construct", "pump"} /\ charged_input' = 0
              /\ UNCHANGED <<job, budget, output>>
          BY <2>11, <3>2 DEF StartCoder, Fail, BeginDecoding
        <4>2. output = <<>> /\ ~Streaming
          BY <4>1 DEF Phases
        <4>3. PaidFrames' = 0 /\ Len(output') = 0
          BY <4>1, <4>2 DEF PaidFrames, Streaming
        <4> QED BY <1>0, <4>1, <4>3 DEF Paying, Pumping, Opening, Expanding, Streaming, Input, Phases
      <3> QED BY <3>1, <3>2
    <2> QED BY <1>1, <2>1, <2>2, <2>3, <2>4, <2>5, <2>6, <2>7, <2>8, <2>9, <2>10, <2>11 DEF PumpStep
  <1>2. CASE StreamStep /\ UNCHANGED lzwVars
    <2>1. CASE ChargeInput
      <3> DEFINE chunk == Least(ControlChunk, Len(Input) - charged_input)
      <3>1. CASE pc' = "done"
        BY <3>1 DEF Paying, Pumping, Expanding
      <3>2. CASE pc' # "done"
        <4>1. /\ pc = "open" /\ budget' = Charged(budget, chunk) /\ charged_input' = charged_input + chunk /\ job' = job
              /\ pc' = IF charged_input' = Len(Input) THEN "detect" ELSE "open"
          BY <2>1, <3>2 DEF ChargeInput, Fail
        <4>2. chunk \in Int /\ chunk <= Len(Input) - charged_input
          BY <1>0 DEF Least
        <4> HIDE DEF chunk
        <4>3. budget'.consumed = budget.consumed + chunk
          BY <1>0, <4>1, <4>2, ChargedTyped
        <4>4. budget'.consumed >= charged_input' /\ charged_input' <= Len(Input)
          BY <1>0, <4>1, <4>2, <4>3 DEF Paying
        <4> QED BY <1>0, <4>1, <4>4 DEF Paying, Pumping, Opening, Expanding, Streaming, Input, Phases
      <3> QED BY <3>1, <3>2
    <2>2. CASE DetectFormat
      <3>1. PaidFrames' = PaidFrames
        BY <1>2, <2>2, PaidFramesStay DEF DetectFormat, streamVars, Elsewhere
      <3> QED BY <1>0, <1>2, <2>2, <3>1 DEF DetectFormat, Fail, Charged, Paying, streamVars, pumpVars, Pumping,
                 Opening, Expanding, Streaming, Input, Phases
    <2>3. CASE ParseFrame
      BY <1>0, <1>2, <2>3 DEF ParseFrame, Fail, Paying, Pumping, Opening, Expanding, Streaming, Input, Phases
    <2>4. CASE OpenReturns
      <3>1. PaidFrames' = PaidFrames
        BY <1>2, <2>4, PaidFramesStay DEF OpenReturns, streamVars
      <3>2. CASE pc' = "done"
        BY <3>2 DEF Paying, Pumping, Expanding
      <3>3. CASE pc' # "done"
        <4>1. pc' = "extract" /\ pc = "frames" /\ UNCHANGED <<job, budget, output>>
          BY <2>4, <3>3 DEF OpenReturns, Fail
        <4>2. output = <<>> /\ frame = 0 /\ Streaming
          BY <4>1 DEF Phases, Opening
        <4>3. PaidFrames = Len(Input) /\ Len(output) = 0
          BY <4>2, PaidFramesTyped
        <4> QED BY <1>0, <3>1, <4>1, <4>3 DEF Paying, Pumping, Opening, Expanding, Streaming, Input, Phases
      <3> QED BY <3>2, <3>3
    <2>5. CASE BeginFrame
      <3>1. PaidFrames' = PaidFrames
        BY <1>2, <2>5, PaidFramesStay DEF BeginFrame, streamVars
      <3>2. CASE pc' = "done"
        BY <3>2 DEF Paying, Pumping, Expanding
      <3>3. CASE pc' # "done"
        <4>1. /\ pc = "extract" /\ pc' \in {"construct", "pump"} /\ charged_input' = 0
              /\ UNCHANGED <<job, budget, output>>
          BY <2>5, <3>3 DEF BeginFrame, Fail, BeginDecoding
        <4>2. budget.consumed >= Len(output) + PaidFrames
          BY <1>0, <4>1 DEF Paying
        <4> QED BY <1>0, <3>1, <4>1, <4>2 DEF Paying, Pumping, Opening, Expanding, Streaming, Input, Phases
      <3> QED BY <3>2, <3>3
    <2>6. CASE FinishFrame
      <3>1. CASE pc' = "done"
        BY <3>1 DEF Paying, Pumping, Expanding
      <3>2. CASE pc' # "done"
        <4>1. /\ pc = "ended" /\ Streaming /\ FrameVerdict = "Ok" /\ pc' = "extract" /\ frame' = frame + 1
              /\ UNCHANGED <<job, budget, output, layout>>
          BY <2>6, <3>2 DEF FinishFrame, Fail
        <4>2. consumed = charged_input /\ consumed = Len(source)
          BY <4>1 DEF FrameVerdict
        <4>3. frame < Len(layout) /\ source = FrameTokensOf(layout[frame + 1]) /\ frame \in Nat
          BY <4>1 DEF FrameBound, Pumping, Frame, Typed
        <4>4. FrameInput(frame + 1) = FrameInput(frame) + Len(source)
          BY <4>3, FrameInputNext
        <4>5. FrameInput(frame)' = FrameInput(frame + 1)
          BY <4>1 DEF FrameInput, FrameTokensOf, Input
        <4>6. FrameInput(frame) \in Nat
          BY FrameInputTyped DEF Typed
        <4>7. PaidFrames' = PaidFrames + consumed
          BY <1>0, <4>1, <4>2, <4>4, <4>5, <4>6 DEF PaidFrames, Streaming, Input
        <4> QED BY <1>0, <4>1, <4>2, <4>7 DEF Paying, Pumping, Opening, Expanding, Streaming, Input, Phases
      <3> QED BY <3>1, <3>2
    <2>7. CASE ExtractReturns
      <3>1. pc' = "done"
        BY <2>7 DEF ExtractReturns, Fail
      <3> QED BY <3>1 DEF Paying, Pumping, Expanding
    <2> QED BY <1>2, <2>1, <2>2, <2>3, <2>4, <2>5, <2>6, <2>7 DEF StreamStep
  <1>3. CASE LzwStep
    <2>1. CASE ParseHeader
      BY <1>0, <2>1 DEF ParseHeader, Fail, Elsewhere, Paying, Pumping, Opening, Expanding, Streaming, Input, Phases
    <2>2. CASE AllocateDictionary
      <3>1. CASE pc' = "done"
        BY <3>1 DEF Paying, Pumping, Expanding
      <3>2. CASE pc' # "done"
        <4>1. /\ pc = "memory" /\ pc' = "prepay" /\ charged_input' = 0 /\ budget' = Charged(budget, DictionaryBytes)
              /\ UNCHANGED <<job, maximum_code_bits>>
          BY <2>2, <3>2 DEF AllocateDictionary, LzwCheckpoint, Fail, Elsewhere
        <4>2. budget'.consumed = budget.consumed + DictionaryBytes
          BY <1>0, <4>1, ChargedTyped
        <4>8. DictionaryBytes' = DictionaryBytes /\ LzwLength' = LzwLength /\ Len(Input)' = Len(Input)
          BY <4>1 DEF DictionaryBytes, DictionaryEntries, LzwLength, Input
        <4> QED BY <1>0, <4>1, <4>2, <4>8 DEF Paying, Pumping, Expanding
      <3> QED BY <3>1, <3>2
    <2>3. CASE PrepayInput
      <3>1. CASE pc' = "done"
        BY <3>1 DEF Paying, Pumping, Expanding
      <3>2. CASE pc' # "done"
        <4> DEFINE chunk == Least(ControlChunk, LzwLength - charged_input)
        <4>1. /\ pc = "prepay" /\ UNCHANGED <<job, maximum_code_bits, output>>
              /\ \/ pc' = "code" /\ budget' = budget /\ charged_input = LzwLength
                 \/ pc' = "prepay" /\ budget' = Charged(budget, chunk) /\ charged_input' = charged_input + chunk
          BY <2>3, <3>2 DEF PrepayInput, LzwCheckpoint, Fail, Elsewhere, lzwVars
        <4>3. chunk \in Int
          BY <1>0 DEF Least
        <4> HIDE DEF chunk
        <4>2. /\ \/ pc' = "code" /\ budget' = budget /\ charged_input = LzwLength
                 \/ /\ pc' = "prepay" /\ budget'.consumed = budget.consumed + chunk
                    /\ charged_input' = charged_input + chunk /\ chunk \in Int
              /\ Len(output) = 0
          BY <1>0, <4>1, <4>3, ChargedTyped DEF Phases, Opening
        <4>8. DictionaryBytes' = DictionaryBytes /\ LzwLength' = LzwLength /\ Len(Input)' = Len(Input)
          BY <4>1 DEF DictionaryBytes, DictionaryEntries, LzwLength, Input
        <4>4. LzwLength <= Len(Input) /\ Len(output') = 0
          BY <1>0, <4>1, <4>2 DEF LzwLength
        <4>5. budget.consumed >= Len(Input) + DictionaryBytes + charged_input
          BY <1>0, <4>1 DEF Paying
        <4>6. CASE pc' = "code"
          <5>1. budget'.consumed >= Len(Input) + Len(output') + LzwLength + DictionaryBytes
            BY <1>0, <4>2, <4>4, <4>5, <4>6
          <5> QED BY <4>6, <4>8, <5>1 DEF Paying, Pumping, Expanding
        <4>7. CASE pc' = "prepay"
          <5>1. budget'.consumed >= Len(Input) + DictionaryBytes + charged_input'
            BY <1>0, <4>2, <4>5, <4>7
          <5> QED BY <4>7, <4>8, <5>1 DEF Paying, Pumping, Expanding
        <4> QED BY <4>1, <4>6, <4>7
      <3> QED BY <3>1, <3>2
    <2>4. CASE NextCode
      <3>1. CASE pc' = "done"
        BY <3>1 DEF Paying, Pumping, Expanding
      <3>2. CASE pc' # "done"
        <4>1. /\ pc \in Expanding /\ pc' \in Expanding /\ budget' = Charged(budget, 1)
              /\ UNCHANGED <<job, maximum_code_bits, output>>
          BY <2>4, <3>2, NextCodeFrame, NextCodePlaces DEF Expanding
        <4>2. budget'.consumed = budget.consumed + 1
          BY <1>0, <4>1, ChargedTyped
        <4>8. DictionaryBytes' = DictionaryBytes /\ LzwLength' = LzwLength /\ Len(Input)' = Len(Input)
          BY <4>1 DEF DictionaryBytes, DictionaryEntries, LzwLength, Input
        <4> QED BY <1>0, <4>1, <4>2, <4>8 DEF Paying, Pumping, Expanding
      <3> QED BY <3>1, <3>2
    <2>5. CASE WriteLiteral
      <3>1. CASE pc' = "done"
        BY <3>1 DEF Paying, Pumping, Expanding
      <3>2. CASE pc' # "done"
        <4>1. /\ pc \in Expanding /\ pc' \in Expanding /\ budget' = Charged(budget, 1)
              /\ UNCHANGED <<job, maximum_code_bits>> /\ output' = output \o <<code>> /\ pc = "literal"
          BY <2>5, <3>2 DEF WriteLiteral, LzwCheckpoint, LzwWrites, Fail, Elsewhere, Expanding
        <4>3. <<code>> \in Seq(Element) /\ Len(<<code>>) = 1
          BY <1>0, <4>1 DEF Element
        <4>2. budget'.consumed = budget.consumed + 1 /\ Len(output') = Len(output) + 1
          BY <1>0, <4>1, <4>3, ChargedTyped, Writes
        <4>8. DictionaryBytes' = DictionaryBytes /\ LzwLength' = LzwLength /\ Len(Input)' = Len(Input)
          BY <4>1 DEF DictionaryBytes, DictionaryEntries, LzwLength, Input
        <4> QED BY <1>0, <4>1, <4>2, <4>8 DEF Paying, Pumping, Expanding
      <3> QED BY <3>1, <3>2
    <2>6. CASE WalkChain
      <3>1. CASE pc' = "done"
        BY <3>1 DEF Paying, Pumping, Expanding
      <3>2. CASE pc' # "done"
        <4>1. /\ pc \in Expanding /\ pc' \in Expanding /\ budget' = Charged(budget, 1)
              /\ UNCHANGED <<job, maximum_code_bits, output>>
          BY <2>6, <3>2, SMT DEF WalkChain, LzwCheckpoint, Fail, Elsewhere, Expanding, lzwVars
        <4>2. budget'.consumed = budget.consumed + 1
          BY <1>0, <4>1, ChargedTyped
        <4>8. DictionaryBytes' = DictionaryBytes /\ LzwLength' = LzwLength /\ Len(Input)' = Len(Input)
          BY <4>1 DEF DictionaryBytes, DictionaryEntries, LzwLength, Input
        <4> QED BY <1>0, <4>1, <4>2, <4>8 DEF Paying, Pumping, Expanding
      <3> QED BY <3>1, <3>2
    <2>7. CASE ChainEnds
      <3>1. CASE pc' = "done"
        BY <3>1 DEF Paying, Pumping, Expanding
      <3>2. CASE pc' # "done"
        <4>1. /\ pc \in Expanding /\ pc' \in Expanding
              /\ UNCHANGED <<job, maximum_code_bits, output, budget>>
          BY <2>7, <3>2 DEF ChainEnds, Elsewhere, Expanding
        <4>2. budget'.consumed = budget.consumed
          BY <4>1
        <4>8. DictionaryBytes' = DictionaryBytes /\ LzwLength' = LzwLength /\ Len(Input)' = Len(Input)
          BY <4>1 DEF DictionaryBytes, DictionaryEntries, LzwLength, Input
        <4> QED BY <1>0, <4>1, <4>2, <4>8 DEF Paying, Pumping, Expanding
      <3> QED BY <3>1, <3>2
    <2>8. CASE WriteReversed
      <3>1. CASE pc' = "done"
        BY <3>1 DEF Paying, Pumping, Expanding
      <3>2. CASE pc' # "done"
        <4> DEFINE count == Least(ControlChunk, Len(expansion))
                   kept  == Len(expansion) - count
                   bytes == Reverse(SubSeq(expansion, kept + 1, Len(expansion)))
        <4>1. /\ pc \in Expanding /\ pc' \in Expanding /\ budget' = Charged(budget, count)
              /\ UNCHANGED <<job, maximum_code_bits>> /\ output' = output \o bytes
          BY <2>8, <3>2 DEF WriteReversed, LzwCheckpoint, LzwWrites, Fail, Elsewhere, Expanding
        <4>3. kept \in Nat /\ kept <= Len(expansion) /\ count \in Int /\ Len(expansion) - kept = count
          BY <1>0 DEF Least
        <4>4. bytes \in Seq(Element) /\ Len(bytes) = Len(expansion) - kept
          BY <1>0, <4>3, ReversedTyped
        <4> HIDE DEF count, bytes, kept
        <4>2. /\ budget'.consumed = budget.consumed + count /\ Len(output') = Len(output) + count
              /\ count \in Int
          BY <1>0, <4>1, <4>3, <4>4, ChargedTyped, Writes
        <4>8. DictionaryBytes' = DictionaryBytes /\ LzwLength' = LzwLength /\ Len(Input)' = Len(Input)
          BY <4>1 DEF DictionaryBytes, DictionaryEntries, LzwLength, Input
        <4> QED BY <1>0, <4>1, <4>2, <4>8 DEF Paying, Pumping, Expanding
      <3> QED BY <3>1, <3>2
    <2>9. CASE DefineEntry
      <3>1. CASE pc' = "done"
        BY <3>1 DEF Paying, Pumping, Expanding
      <3>2. CASE pc' # "done"
        <4>1. /\ pc \in Expanding /\ pc' \in Expanding
              /\ UNCHANGED <<job, maximum_code_bits, output, budget>>
          BY <2>9, <3>2 DEF DefineEntry, Elsewhere, Expanding
        <4>2. budget'.consumed = budget.consumed
          BY <4>1
        <4>8. DictionaryBytes' = DictionaryBytes /\ LzwLength' = LzwLength /\ Len(Input)' = Len(Input)
          BY <4>1 DEF DictionaryBytes, DictionaryEntries, LzwLength, Input
        <4> QED BY <1>0, <4>1, <4>2, <4>8 DEF Paying, Pumping, Expanding
      <3> QED BY <3>1, <3>2
    <2> QED BY <1>3, <2>1, <2>2, <2>3, <2>4, <2>5, <2>6, <2>7, <2>8, <2>9 DEF LzwStep
  <1>4. CASE Cancel
    <2>1. UNCHANGED <<job, layout, frame, budget, pc, output, charged_input, read, consumed, maximum_code_bits>>
      BY <1>4 DEF Cancel, streamVars, pumpVars, lzwVars
    <2>2. PaidFrames' = PaidFrames /\ DictionaryBytes' = DictionaryBytes /\ LzwLength' = LzwLength
          /\ Len(Input)' = Len(Input)
      BY <2>1, PaidFramesStay DEF DictionaryBytes, DictionaryEntries, LzwLength, Input
    <2> QED BY <2>1, <2>2 DEF Paying
  <1>5. CASE Retry
    <2>1. UNCHANGED <<job, layout, frame, budget, pc, output, charged_input, read, consumed, maximum_code_bits>>
      BY <1>5 DEF Retry, DecoderRetries, streamVars, pumpVars, lzwVars
    <2>2. PaidFrames' = PaidFrames /\ DictionaryBytes' = DictionaryBytes /\ LzwLength' = LzwLength
          /\ Len(Input)' = Len(Input)
      BY <2>1, PaidFramesStay DEF DictionaryBytes, DictionaryEntries, LzwLength, Input
    <2> QED BY <2>1, <2>2 DEF Paying
  <1>6. CASE UNCHANGED vars
    <2>1. UNCHANGED <<job, layout, frame, budget, pc, output, charged_input, read, consumed, maximum_code_bits>>
      BY <1>6 DEF vars, streamVars, pumpVars, lzwVars
    <2>2. PaidFrames' = PaidFrames /\ DictionaryBytes' = DictionaryBytes /\ LzwLength' = LzwLength
          /\ Len(Input)' = Len(Input)
      BY <2>1, PaidFramesStay DEF DictionaryBytes, DictionaryEntries, LzwLength, Input
    <2> QED BY <2>1, <2>2 DEF Paying
  <1> QED BY <1>1, <1>2, <1>3, <1>4, <1>5, <1>6, Steps
\* Three actions return Ok.
LEMMA OkReturned ==
    ASSUME Phases, [Next]_vars, result' = "Ok"
    PROVE  \/ ExtractReturns /\ UNCHANGED lzwVars
           \/ CoderEnds /\ UNCHANGED streamVars
           \/ NextCode \/ UNCHANGED vars
  <1>0. result = "none" \/ pc = "done"
    BY DEF Phases
  <1>1. CASE PumpStep /\ UNCHANGED streamVars /\ UNCHANGED lzwVars
    <2>1. CASE PumpHead
      BY <1>0, <1>1, <2>1 DEF PumpHead, AtCheckpoint, Fail, Passed, streamVars, lzwVars, pumpVars
    <2>2. CASE ConstructDecoder
      BY <1>0, <1>1, <2>2 DEF ConstructDecoder, Fail, streamVars, lzwVars, pumpVars
    <2>3. CASE DecoderReads
      BY <1>0, <1>1, <2>3 DEF DecoderReads, DecoderGives, DecoderEnds, DecoderFails, Returns, streamVars, lzwVars,
         pumpVars
    <2>4. CASE DecoderError
      BY <1>0, <1>1, <2>4 DEF DecoderError, Fail, ErrorOf, streamVars, lzwVars, pumpVars
    <2>5. CASE DecoderHasOutput
      BY <1>0, <1>1, <2>5 DEF DecoderHasOutput, Returns, streamVars, lzwVars, pumpVars
    <2>6. CASE DecoderGivesUp
      BY <1>0, <1>1, <2>6 DEF DecoderGivesUp, Fail, streamVars, lzwVars, pumpVars
    <2>7. CASE ChargeRead
      BY <1>0, <1>1, <2>7 DEF ChargeRead, AtCheckpoint, Fail, Passed, streamVars, lzwVars, pumpVars
    <2>8. CASE WriteOutput
      BY <1>0, <1>1, <2>8 DEF WriteOutput, Fail, WriteVerdict, streamVars, lzwVars, pumpVars
    <2>9. CASE AppendOutput
      BY <1>0, <1>1, <2>9 DEF AppendOutput, Fail, AfterOutput, AppendVerdict, streamVars, lzwVars, pumpVars
    <2>10. CASE CoderEnds
      BY <1>1, <2>10
    <2>11. CASE StartCoder
      BY <1>0, <2>11 DEF StartCoder, Fail
    <2> QED BY <1>1, <2>1, <2>2, <2>3, <2>4, <2>5, <2>6, <2>7, <2>8, <2>9, <2>10, <2>11 DEF PumpStep
  <1>2. CASE StreamStep /\ UNCHANGED lzwVars
    <2>1. CASE ChargeInput
      BY <1>0, <1>2, <2>1 DEF ChargeInput, Fail, Passed, streamVars, lzwVars, pumpVars
    <2>2. CASE DetectFormat
      BY <1>0, <1>2, <2>2 DEF DetectFormat, Fail, streamVars, lzwVars, pumpVars
    <2>3. CASE ParseFrame
      BY <1>0, <1>2, <2>3 DEF ParseFrame, Fail, streamVars, lzwVars, pumpVars
    <2>4. CASE OpenReturns
      BY <1>0, <1>2, <2>4 DEF OpenReturns, Fail, streamVars, lzwVars, pumpVars
    <2>5. CASE BeginFrame
      BY <1>0, <1>2, <2>5 DEF BeginFrame, Fail, Passed, streamVars, lzwVars, pumpVars
    <2>6. CASE FinishFrame
      BY <1>0, <1>2, <2>6 DEF FinishFrame, Fail, streamVars, lzwVars, pumpVars
    <2>7. CASE ExtractReturns
      BY <1>2, <2>7
    <2> QED BY <1>2, <2>1, <2>2, <2>3, <2>4, <2>5, <2>6, <2>7 DEF StreamStep
  <1>3. CASE LzwStep
    <2>1. CASE ParseHeader
      BY <1>0, <1>3, <2>1 DEF ParseHeader, Fail, lzwVars, Elsewhere
    <2>2. CASE AllocateDictionary
      BY <1>0, <1>3, <2>2 DEF AllocateDictionary, LzwCheckpoint, Fail, Passed, lzwVars, Elsewhere
    <2>3. CASE PrepayInput
      BY <1>0, <1>3, <2>3 DEF PrepayInput, LzwCheckpoint, Fail, Passed, lzwVars, Elsewhere
    <2>4. CASE NextCode
      BY <1>3, <2>4
    <2>5. CASE WriteLiteral
      BY <1>0, <1>3, <2>5 DEF WriteLiteral, LzwCheckpoint, Fail, LzwWrites, Passed, lzwVars, Elsewhere
    <2>6. CASE WalkChain
      BY <1>0, <1>3, <2>6 DEF WalkChain, LzwCheckpoint, Fail, Passed, Internal, lzwVars, Elsewhere
    <2>7. CASE ChainEnds
      BY <1>0, <1>3, <2>7 DEF ChainEnds, lzwVars, Elsewhere
    <2>8. CASE WriteReversed
      BY <1>0, <1>3, <2>8 DEF WriteReversed, LzwCheckpoint, Fail, LzwWrites, Passed, lzwVars, Elsewhere
    <2>9. CASE DefineEntry
      BY <1>0, <1>3, <2>9 DEF DefineEntry, lzwVars, Elsewhere
    <2> QED BY <1>3, <2>1, <2>2, <2>3, <2>4, <2>5, <2>6, <2>7, <2>8, <2>9 DEF LzwStep
  <1>4. CASE Cancel
    BY <1>0, <1>4 DEF Cancel, streamVars, lzwVars, pumpVars
  <1>5. CASE Retry
    BY <1>0, <1>5 DEF Retry, DecoderRetries, streamVars, lzwVars, pumpVars
  <1>6. CASE UNCHANGED vars
    BY <1>6
  <1> QED BY <1>1, <1>2, <1>3, <1>4, <1>5, <1>6, Steps

\* What a call that returned Ok has paid stays paid.
LEMMA ResultPaidKept ==
    ASSUME Typed, Phases, LzwSound, Admitted, Paid, [Next]_vars
    PROVE  ResultPaid'
  <1> SUFFICES ASSUME result' = "Ok"
               PROVE  budget'.consumed >= Len(output')
                           + (IF format' = "unix-compress" THEN LzwLength' + DictionaryBytes'
                              ELSE IF Streaming' THEN Len(FlattenSeq([i \in DOMAIN layout |-> FrameTokensOf(layout[i])]))'
                              ELSE consumed')
                           + (IF Streaming' THEN Len(Input)' ELSE 0)
    BY DEF ResultPaid
  <1> DEFINE Whole == Len(FlattenSeq([i \in DOMAIN layout |-> FrameTokensOf(layout[i])]))
  <1>0. /\ Len(Input) \in Nat /\ budget.consumed \in Int /\ Len(output) \in Nat /\ consumed \in Nat
        /\ PaidFrames \in Nat /\ DictionaryBytes \in Nat /\ LzwLength \in Int /\ Paying /\ ResultPaid
    BY PaidFramesTyped, JobTyped, CodeSizes DEF Typed, Admitted, LzwSound, Paid, LzwLength
  <1>1. CASE ExtractReturns /\ UNCHANGED lzwVars
    <2>1. pc = "extract" /\ frame = Len(layout) /\ UNCHANGED <<job, budget, output, format, layout>>
      BY <1>1 DEF ExtractReturns, streamVars
    <2>2. Streaming /\ format # "unix-compress"
      BY <2>1 DEF Phases
    <2>3. PaidFrames = Len(Input) + Whole
      BY <2>1, <2>2, FrameInputAll DEF PaidFrames
    <2>4. budget.consumed >= Len(output) + PaidFrames
      BY <2>1, <1>0 DEF Paying
    <2>5. Streaming' /\ format' # "unix-compress" /\ Len(Input)' = Len(Input) /\ Whole' = Whole
      BY <2>1, <2>2 DEF Streaming, Input, FrameTokensOf
    <2>6. Whole \in Int
      BY <2>1, FrameInputAll, FrameInputTyped DEF Typed
    <2> HIDE DEF Whole
    <2>7. budget'.consumed >= Len(output') + Whole' + Len(Input)'
      BY <1>0, <2>1, <2>3, <2>4, <2>5, <2>6
    <2> QED BY <2>5, <2>7 DEF Whole
  <1>2. CASE CoderEnds /\ UNCHANGED streamVars
    <2>1. pc = "ended" /\ ~Streaming /\ UNCHANGED <<job, budget, output, consumed, format>>
      BY <1>2 DEF CoderEnds, pumpVars, streamVars
    <2>2. format = "none"
      BY <2>1 DEF Phases
    <2>3. budget.consumed >= Len(output) + consumed
      BY <1>0, <2>1 DEF Paying, Pumping
    <2> QED BY <1>0, <2>1, <2>2, <2>3 DEF Streaming
  <1>3. CASE NextCode
    <2>1. pc = "code" /\ job' = job /\ output' = output /\ maximum_code_bits' = maximum_code_bits
      BY <1>3, NextCodeFrame
    <2>2. budget' = Charged(budget, 1) /\ format' = format /\ Streaming /\ format = "unix-compress"
      BY <1>3, <2>1, NextCodeFrame DEF Phases, Expanding, NextCode, Elsewhere
    <2>3. budget.consumed >= Len(Input) + Len(output) + LzwLength + DictionaryBytes
      BY <1>0, <2>1 DEF Paying, Expanding
    <2>4. budget'.consumed = budget.consumed + 1
      BY <1>0, <2>2, ChargedTyped
    <2>5. DictionaryBytes' = DictionaryBytes /\ LzwLength' = LzwLength /\ Len(Input)' = Len(Input) /\ Streaming'
      BY <2>1, <2>2 DEF DictionaryBytes, DictionaryEntries, LzwLength, Input, Streaming
    <2> QED BY <1>0, <2>1, <2>2, <2>3, <2>4, <2>5
  <1>4. CASE UNCHANGED vars
    <2>1. UNCHANGED <<job, budget, output, consumed, format, layout, maximum_code_bits, result>>
      BY <1>4 DEF vars, pumpVars, streamVars, lzwVars
    <2> QED BY <1>0, <2>1 DEF ResultPaid, Streaming, LzwLength, DictionaryBytes, DictionaryEntries, Input,
               FrameTokensOf
  <1> QED BY <1>1, <1>2, <1>3, <1>4, OkReturned

-----------------------------------------------------------------------------
(***************************************************************************)
(* What was written is a beginning of what the decoders give.              *)
(***************************************************************************)
\* The output of a decoder.
LEMMA UnitsTyped ==
    ASSUME NEW d, d.units \in Seq(Unit)
    PROVE  /\ UnitsOf(d) \in Seq(Element) /\ Len(UnitsOf(d)) = Len(d.units) /\ Len(d.units) \in Nat
           /\ \A i \in 1..Len(d.units) : UnitsOf(d)[i] = d.units[i].unit
  <1>1. DOMAIN d.units = 1..Len(d.units) /\ Len(d.units) \in Nat
    OBVIOUS
  <1>2. UnitsOf(d) = [i \in 1..Len(d.units) |-> d.units[i].unit]
    BY <1>1 DEF UnitsOf
  <1>3. \A i \in 1..Len(d.units) : d.units[i] \in Unit
    OBVIOUS
  <1>4. \A u \in Unit : u.unit \in Element
    BY DEF Unit, Element
  <1>5. UnitsOf(d) \in [1..Len(d.units) -> Element]
    BY <1>2, <1>3, <1>4
  <1>6. UnitsOf(d) \in Seq(Element) /\ Len(UnitsOf(d)) = Len(d.units)
    BY <1>1, <1>5, MappedSequence
  <1> QED BY <1>1, <1>2, <1>6

\* The units of the decoder at hand, and how many of them it has returned.
LEMMA DecoderUnits ==
    ASSUME Typed
    PROVE  /\ UnitsOf(decoder) \in Seq(Element) /\ Len(UnitsOf(decoder)) = Len(decoder.units)
           /\ Len(decoder.units) \in Nat /\ produced \in Nat /\ read \in Nat
           /\ read <= produced /\ produced <= Len(decoder.units)
           /\ \A i \in 1..Len(decoder.units) : UnitsOf(decoder)[i] = decoder.units[i].unit
  <1>1. decoder.units \in Seq(Unit)
    BY DecoderTyped
  <1>2. Len(decoder.units) \in Nat
    BY <1>1
  <1>3. produced \in 0..Len(decoder.units) /\ read \in 0..produced
    BY DEF Typed
  <1>4. produced \in Nat /\ read \in Nat /\ read <= produced /\ produced <= Len(decoder.units)
    BY <1>2, <1>3
  <1> QED BY <1>1, <1>4, UnitsTyped

\* Nothing of a sequence, and all of it.
LEMMA NothingAndAll ==
    ASSUME NEW T, NEW s \in Seq(T)
    PROVE  SubSeq(s, 1, 0) = <<>> /\ SubSeq(s, 1, Len(s)) = s /\ s \o <<>> = s /\ <<>> \o s = s
  <1>1. Len(s) \in Nat /\ 0 \in 0..Len(s) /\ Len(s) \in 0..Len(s)
    OBVIOUS
  <1>2. SubSeq(s, 1, Len(s)) = [i \in 1..Len(s) |-> s[i]] /\ SubSeq(s, 1, 0) \in Seq(T) /\ Len(SubSeq(s, 1, 0)) = 0
    BY <1>1, BeginningIsMapped
  <1>3. s = [i \in 1..Len(s) |-> s[i]]
    OBVIOUS
  <1>4. SubSeq(s, 1, 0) = <<>>
    BY <1>2, EmptySeq
  <1> QED BY <1>2, <1>3, <1>4

\* The units of a read follow the ones before it.
LEMMA ReadFollows ==
    ASSUME Typed
    PROVE  SubSeq(UnitsOf(decoder), 1, produced - read) \o Chunk = SubSeq(UnitsOf(decoder), 1, produced)
  <1> DEFINE U == UnitsOf(decoder)
             p == produced - read
             a == SubSeq(U, 1, p)
             b == SubSeq(U, 1, produced)
  <1>1. /\ U \in Seq(Element) /\ Len(U) = Len(decoder.units) /\ Len(U) \in Nat /\ produced \in Nat /\ read \in Nat
        /\ read <= produced /\ produced <= Len(U) /\ \A i \in 1..Len(U) : U[i] = decoder.units[i].unit
    BY DecoderUnits
  <1>2. Chunk = [i \in 1..read |-> decoder.units[p + i].unit]
    BY DEF Chunk
  <1> HIDE DEF U
  <1>3. p \in 0..Len(U) /\ produced \in 0..Len(U) /\ p + read = produced
    BY <1>1
  <1>4. /\ a = [i \in 1..p |-> U[i]] /\ a \in Seq(Element) /\ Len(a) = p
        /\ b = [i \in 1..produced |-> U[i]] /\ b \in Seq(Element) /\ Len(b) = produced
    BY <1>1, <1>3, BeginningIsMapped
  <1>5. Chunk \in Seq(Element) /\ Len(Chunk) = read
    BY ChunkTyped
  <1>6. /\ Len(a \o Chunk) = Len(a) + Len(Chunk) /\ a \o Chunk \in Seq(Element)
        /\ \A i \in 1..(Len(a) + Len(Chunk)) : (a \o Chunk)[i] = IF i <= Len(a) THEN a[i] ELSE Chunk[i - Len(a)]
    <2>1. a \in Seq(Element) /\ Chunk \in Seq(Element)
      BY <1>4, <1>5
    <2> HIDE DEF a
    <2> QED BY <2>1, ConcatProperties
  <1>7. ASSUME NEW i \in 1..produced PROVE (a \o Chunk)[i] = b[i]
    <2>1. b[i] = U[i] /\ i \in 1..Len(U)
      BY <1>1, <1>4
    <2>2. CASE i <= p
      <3>1. i \in 1..p /\ i \in 1..(p + read)
        BY <1>3, <2>2
      <3>2. (a \o Chunk)[i] = a[i]
        BY <1>4, <1>5, <1>6, <2>2, <3>1
      <3>3. a[i] = U[i]
        BY <1>4, <3>1
      <3> QED BY <2>1, <3>2, <3>3
    <2>3. CASE i > p
      <3>1. i \in 1..(p + read) /\ ~(i <= p) /\ i - p \in 1..read /\ p + (i - p) = i
        BY <1>1, <1>3, <2>3
      <3>2. (a \o Chunk)[i] = Chunk[i - p]
        BY <1>4, <1>5, <1>6, <3>1
      <3>3. Chunk[i - p] = decoder.units[p + (i - p)].unit
        BY <1>2, <3>1
      <3>4. Chunk[i - p] = U[i]
        BY <1>1, <2>1, <3>1, <3>3
      <3> QED BY <2>1, <3>2, <3>4
    <2>4. i <= p \/ i > p
      BY <1>1
    <2> QED BY <2>2, <2>3, <2>4
  <1>8. Len(a \o Chunk) = produced /\ Len(b) = produced
    BY <1>3, <1>4, <1>5, <1>6
  <1> HIDE DEF a, b
  <1>9. a \o Chunk = b
    BY <1>4, <1>6, <1>7, <1>8, SeqEqual
  <1> QED BY <1>9 DEF a, b, U, p

\* The units of a frame that was found.
LEMMA FrameUnitsTyped ==
    ASSUME Typed, NEW i \in 1..Len(layout)
    PROVE  FrameUnits(i) \in Seq(Element)
  <1>1. layout[i].start \in Nat /\ layout[i].end \in 0..Len(Input) /\ Input \in Seq(Nat)
    BY JobTyped DEF Typed, LayoutTyped
  <1>2. FrameTokensOf(layout[i]) \in Seq(Nat)
    BY <1>1, RangeTyped
  <1>3. SameDecoding(Decoded(FrameTokensOf(layout[i]), layout[i].start), Decoded(FrameTokensOf(layout[i]), layout[i].start))
    BY <1>1, <1>2, DecodedTyped
  <1> QED BY <1>3, UnitsTyped DEF SameDecoding, FrameUnits

\* The units of the first frames, joined.
LEMMA WrittenTyped ==
    ASSUME Typed, NEW k \in 0..Len(layout)
    PROVE  /\ [i \in 1..k |-> FrameUnits(i)] \in Seq(Seq(Element)) /\ Len([i \in 1..k |-> FrameUnits(i)]) = k
           /\ Written(k) \in Seq(Element)
  <1>1. k \in Nat /\ Len(layout) \in Nat /\ k <= Len(layout)
    BY DEF Typed, LayoutTyped, IsSequence
  <1>2. \A i \in 1..k : FrameUnits(i) \in Seq(Element)
    BY <1>1, FrameUnitsTyped
  <1>3. [i \in 1..k |-> FrameUnits(i)] \in [1..k -> Seq(Element)]
    BY <1>2
  <1>4. [i \in 1..k |-> FrameUnits(i)] \in Seq(Seq(Element)) /\ Len([i \in 1..k |-> FrameUnits(i)]) = k
    BY <1>1, <1>3, MappedSequence
  <1> QED BY <1>4, FlattenType DEF Written

\* One frame more.
LEMMA WrittenNext ==
    ASSUME Typed, NEW k \in Nat, k < Len(layout)
    PROVE  Written(k + 1) = Written(k) \o FrameUnits(k + 1)
  <1> DEFINE s == [i \in 1..(k + 1) |-> FrameUnits(i)]
             u == [i \in 1..k |-> FrameUnits(i)]
  <1>1. k \in 0..Len(layout) /\ k + 1 \in 0..Len(layout)
    BY DEF Typed, LayoutTyped, IsSequence
  <1>2. s \in Seq(Seq(Element)) /\ u \in Seq(Seq(Element)) /\ Len(s) = k + 1 /\ Len(u) = k
    BY <1>1, WrittenTyped
  <1>3. \A i \in 1..k : s[i] = u[i]
    OBVIOUS
  <1>4. s[k + 1] = FrameUnits(k + 1)
    OBVIOUS
  <1>5. Written(k + 1) = FlattenSeq(s) /\ Written(k) = FlattenSeq(u)
    BY DEF Written
  <1> HIDE DEF s, u
  <1> QED BY <1>2, <1>3, <1>4, <1>5, FlattenLast

\* The frames before one are a beginning of all of them.
LEMMA WrittenPrefix ==
    ASSUME Typed, NEW k \in 0..Len(layout)
    PROVE  \E t \in Seq(Element) : Written(Len(layout)) = Written(k) \o t
  <1> DEFINE s == [i \in 1..Len(layout) |-> FrameUnits(i)]
             u == [i \in 1..k |-> FrameUnits(i)]
  <1>1. k \in Nat /\ Len(layout) \in Nat /\ k <= Len(layout) /\ Len(layout) \in 0..Len(layout)
    BY DEF Typed, LayoutTyped, IsSequence
  <1>2. s \in Seq(Seq(Element)) /\ Len(s) = Len(layout)
    BY <1>1, WrittenTyped
  <1>3. SubSeq(s, 1, k) = [i \in 1..k |-> s[i]]
    BY <1>1, <1>2, BeginningIsMapped
  <1>4. \A i \in 1..k : s[i] = FrameUnits(i)
    BY <1>1
  <1>5. SubSeq(s, 1, k) = u
    BY <1>3, <1>4
  <1>6. Written(Len(layout)) = FlattenSeq(s) /\ Written(k) = FlattenSeq(u)
    BY DEF Written
  <1> HIDE DEF s, u
  <1>7. \E t \in Seq(Element) : FlattenSeq(s) = FlattenSeq(SubSeq(s, 1, k)) \o t
    BY <1>1, <1>2, FlattenExtends
  <1> QED BY <1>5, <1>6, <1>7

\* All of them are what the property compares with.
LEMMA StreamReference ==
    ASSUME Typed, Streaming
    PROVE  Reference = Written(Len(layout))
  <1>1. DOMAIN layout = 1..Len(layout)
    BY SequenceOverRange DEF Typed, LayoutTyped
  <1> QED BY <1>1 DEF Reference, Written, FrameUnits, Streaming

\* What depends on the call and the layout alone.
LEMMA JobStays ==
    ASSUME job' = job
    PROVE  /\ Payload' = Payload /\ HeaderVerdict' = HeaderVerdict /\ CoderIntact' = CoderIntact
           /\ Streaming' = Streaming
  <1>1. Payload' = Payload
    BY DEF Payload
  <1>2. HeaderVerdict' = HeaderVerdict
    BY DEF HeaderVerdict, ZstdVerdict, Working
  <1>3. CoderIntact' = CoderIntact
    BY <1>1, <1>2 DEF CoderIntact
  <1> QED BY <1>1, <1>2, <1>3 DEF Streaming

\* What depends on the layout too.
LEMMA LayoutStays ==
    ASSUME UNCHANGED <<job, layout>>
    PROVE  Reference' = Reference /\ (frame' = frame => Base' = Base)
  <1>1. Payload' = Payload
    BY JobStays
  <1>2. Reference' = Reference
    BY <1>1 DEF Reference, FrameTokensOf, Input
  <1>3. frame' = frame => Base' = Base
    BY DEF Base, Streaming, Written, FrameUnits, FrameTokensOf, Input
  <1> QED BY <1>2, <1>3

\* What was written before the decoder began.
LEMMA BaseTyped ==
    ASSUME Typed
    PROVE  Base \in Seq(Element) /\ (frame = 0 => Base = <<>>)
  <1>1. Written(frame) \in Seq(Element)
    BY WrittenTyped DEF Typed
  <1>2. frame = 0 => Written(frame) = <<>>
    <2>1. [i \in 1..0 |-> FrameUnits(i)] = <<>>
      OBVIOUS
    <2> QED BY <2>1, FlattenEmpty DEF Written
  <1>3. <<>> \in Seq(Element)
    OBVIOUS
  <1> QED BY <1>1, <1>2, <1>3 DEF Base

\* A coder's decoder was made for its input.
LEMMA CoderBoundKept ==
    ASSUME Phases, CoderBound, [Next]_vars
    PROVE  CoderBound'
  <1>1. CASE PumpStep /\ UNCHANGED streamVars /\ UNCHANGED lzwVars
    <2>1. CASE PumpHead
      BY <1>1, <2>1, JobStays DEF PumpHead, AtCheckpoint, Fail, CoderBound, Pumping, Opening, Expanding, Phases,
         pumpVars
    <2>2. CASE ConstructDecoder
      BY <1>1, <2>2, JobStays DEF ConstructDecoder, Fail, CoderBound, Pumping, Opening, Expanding, Phases, pumpVars
    <2>3. CASE DecoderReads
      BY <1>1, <2>3, JobStays DEF DecoderReads, DecoderGives, DecoderEnds, DecoderFails, Returns, CoderBound,
         Pumping, Opening, Expanding, Phases, pumpVars
    <2>4. CASE DecoderError
      BY <1>1, <2>4, JobStays DEF DecoderError, Fail, CoderBound, Pumping, Opening, Expanding, Phases, pumpVars
    <2>5. CASE DecoderHasOutput
      BY <1>1, <2>5, JobStays DEF DecoderHasOutput, Returns, CoderBound, Pumping, Opening, Expanding, Phases,
         pumpVars
    <2>6. CASE DecoderGivesUp
      BY <1>1, <2>6, JobStays DEF DecoderGivesUp, Fail, CoderBound, Pumping, Opening, Expanding, Phases, pumpVars
    <2>7. CASE ChargeRead
      BY <1>1, <2>7, JobStays DEF ChargeRead, AtCheckpoint, Fail, CoderBound, Pumping, Opening, Expanding, Phases,
         pumpVars
    <2>8. CASE WriteOutput
      BY <1>1, <2>8, JobStays DEF WriteOutput, Fail, CoderBound, Pumping, Opening, Expanding, Phases, pumpVars
    <2>9. CASE AppendOutput
      BY <1>1, <2>9, JobStays DEF AppendOutput, Fail, AfterOutput, CoderBound, Pumping, Opening, Expanding, Phases,
         pumpVars
    <2>10. CASE CoderEnds
      BY <1>1, <2>10, JobStays DEF CoderEnds, Fail, CoderBound, Pumping, Opening, Expanding, Phases, pumpVars
    <2>11. CASE StartCoder
      <3>1. CASE pc' = "done"
        BY <3>1 DEF CoderBound, Pumping
      <3>2. CASE pc' # "done"
        <4>1. /\ BeginDecoding(Payload, Len(job.tokens) - Len(Payload), job.expected) /\ HeaderVerdict = "Ok"
              /\ job' = job /\ pc = "coder"
          BY <2>11, <3>2 DEF StartCoder, Fail
        <4>2. Len(output) = 0
          BY <4>1 DEF Phases
        <4>3. Payload' = Payload /\ HeaderVerdict' = HeaderVerdict
          BY <4>1, JobStays
        <4> QED BY <4>1, <4>2, <4>3 DEF BeginDecoding, CoderBound
      <3> QED BY <3>1, <3>2
    <2> QED BY <1>1, <2>1, <2>2, <2>3, <2>4, <2>5, <2>6, <2>7, <2>8, <2>9, <2>10, <2>11 DEF PumpStep
  <1>2. CASE StreamStep /\ UNCHANGED lzwVars
    <2>1. CASE ChargeInput
      BY <1>2, <2>1, JobStays DEF ChargeInput, Fail, CoderBound, Pumping, Opening, Expanding, Phases, pumpVars
    <2>2. CASE DetectFormat
      BY <1>2, <2>2, JobStays DEF DetectFormat, Fail, CoderBound, Pumping, Opening, Expanding, Phases, pumpVars
    <2>3. CASE ParseFrame
      BY <1>2, <2>3, JobStays DEF ParseFrame, Fail, CoderBound, Pumping, Opening, Expanding, Phases, pumpVars
    <2>4. CASE OpenReturns
      BY <1>2, <2>4, JobStays DEF OpenReturns, Fail, CoderBound, Pumping, Opening, Expanding, Phases, pumpVars
    <2>5. CASE BeginFrame
      BY <1>2, <2>5, JobStays DEF BeginFrame, Fail, BeginDecoding, CoderBound, Pumping, Opening, Expanding, Phases,
         pumpVars
    <2>6. CASE FinishFrame
      BY <1>2, <2>6, JobStays DEF FinishFrame, Fail, CoderBound, Pumping, Opening, Expanding, Phases, pumpVars
    <2>7. CASE ExtractReturns
      BY <1>2, <2>7, JobStays DEF ExtractReturns, Fail, CoderBound, Pumping, Opening, Expanding, Phases, pumpVars
    <2> QED BY <1>2, <2>1, <2>2, <2>3, <2>4, <2>5, <2>6, <2>7 DEF StreamStep
  <1>3. CASE LzwStep
    <2>1. CASE ParseHeader
      <3>1. pc' \notin Pumping
        BY <2>1 DEF ParseHeader, Fail, Pumping, Expanding
      <3> QED BY <3>1 DEF CoderBound
    <2>2. CASE AllocateDictionary
      <3>1. pc' \notin Pumping
        BY <2>2 DEF AllocateDictionary, LzwCheckpoint, Fail, Pumping, Expanding
      <3> QED BY <3>1 DEF CoderBound
    <2>3. CASE PrepayInput
      <3>1. pc' \notin Pumping
        BY <2>3 DEF PrepayInput, LzwCheckpoint, Fail, Pumping, Expanding
      <3> QED BY <3>1 DEF CoderBound
    <2>4. CASE NextCode
      <3>1. pc' \notin Pumping
        BY <2>4, NextCodePlaces DEF NextCode, Pumping, Expanding
      <3> QED BY <3>1 DEF CoderBound
    <2>5. CASE WriteLiteral
      <3>1. pc' \notin Pumping
        BY <2>5 DEF WriteLiteral, LzwCheckpoint, Fail, LzwWrites, Pumping, Expanding
      <3> QED BY <3>1 DEF CoderBound
    <2>6. CASE WalkChain
      <3>1. pc' \notin Pumping
        BY <2>6 DEF WalkChain, LzwCheckpoint, Fail, Pumping, Expanding
      <3> QED BY <3>1 DEF CoderBound
    <2>7. CASE ChainEnds
      <3>1. pc' \notin Pumping
        BY <2>7 DEF ChainEnds, Pumping, Expanding
      <3> QED BY <3>1 DEF CoderBound
    <2>8. CASE WriteReversed
      <3>1. pc' \notin Pumping
        BY <2>8 DEF WriteReversed, LzwCheckpoint, Fail, LzwWrites, Pumping, Expanding
      <3> QED BY <3>1 DEF CoderBound
    <2>9. CASE DefineEntry
      <3>1. pc' \notin Pumping
        BY <2>9 DEF DefineEntry, Pumping, Expanding
      <3> QED BY <3>1 DEF CoderBound
    <2> QED BY <1>3, <2>1, <2>2, <2>3, <2>4, <2>5, <2>6, <2>7, <2>8, <2>9 DEF LzwStep
  <1>4. CASE Cancel
    BY <1>4, JobStays DEF Cancel, CoderBound, pumpVars
  <1>5. CASE Retry
    BY <1>5, JobStays DEF Retry, DecoderRetries, CoderBound, pumpVars
  <1>6. CASE UNCHANGED vars
    BY <1>6, JobStays DEF vars, CoderBound, pumpVars
  <1> QED BY <1>1, <1>2, <1>3, <1>4, <1>5, <1>6, Steps

\* A decoder that only begins has given nothing.
LEMMA NothingGiven ==
    ASSUME NEW d, d.units \in Seq(Unit), NEW b \in Seq(Element)
    PROVE  b \o SubSeq(UnitsOf(d), 1, 0) = b
  <1>1. UnitsOf(d) \in Seq(Element)
    BY UnitsTyped
  <1>2. SubSeq(UnitsOf(d), 1, 0) = <<>>
    BY <1>1, NothingAndAll
  <1> QED BY <1>2, NothingAndAll

\* Accepting a read extends the output to all that the decoder has returned.
LEMMA AcceptsChunk ==
    ASSUME Typed, Placed, pc = "accept", output' = output \o Chunk
    PROVE  output' = Base \o SubSeq(UnitsOf(decoder), 1, produced)
  <1> DEFINE U == UnitsOf(decoder)
             a == SubSeq(U, 1, produced - read)
  <1>1. U \in Seq(Element) /\ produced - read \in 0..Len(U)
    BY DecoderUnits
  <1>2. output = Base \o a
    BY DEF Placed, Pumping, Given
  <1>3. a \o Chunk = SubSeq(U, 1, produced)
    BY ReadFollows
  <1> HIDE DEF U
  <1>4. a \in Seq(Element)
    BY <1>1, BeginningIsMapped
  <1> HIDE DEF a
  <1>5. Chunk \in Seq(Element) /\ Base \in Seq(Element)
    BY ChunkTyped, BaseTyped
  <1>6. (Base \o a) \o Chunk = Base \o (a \o Chunk)
    BY <1>4, <1>5, ConcatAssociative
  <1> QED BY <1>2, <1>3, <1>6 DEF U

\* Every action keeps the output at its place.
LEMMA PlacedKept ==
    ASSUME Typed, Phases, FrameBound, Placed, [Next]_vars
    PROVE  Placed'
  <1>0. produced \in Nat /\ read \in Nat /\ Len(decoder.units) \in Nat /\ ControlChunk \in Nat
    BY DecoderUnits, PumpAssumption
  <1>1. CASE PumpStep /\ UNCHANGED streamVars /\ UNCHANGED lzwVars
    <2>1. CASE PumpHead
      <3>1. Base' = Base
        BY <1>1, <2>1, LayoutStays DEF PumpHead, streamVars
      <3> QED BY <2>1, <3>1 DEF PumpHead, AtCheckpoint, Fail, pumpVars, Placed, Given, Pumping, Expanding
    <2>2. CASE ConstructDecoder
      <3>1. Base' = Base
        BY <1>1, <2>2, LayoutStays DEF ConstructDecoder, streamVars
      <3> QED BY <2>2, <3>1 DEF ConstructDecoder, Fail, pumpVars, Placed, Given, Pumping, Expanding
    <2>3. CASE DecoderReads
      <3>1. Base' = Base
        BY <1>1, <2>3, LayoutStays DEF DecoderReads, streamVars
      <3>2. ASSUME NEW n \in Nat, NEW upto, Returns(n, upto), n = 0 => produced = Len(decoder.units)
            PROVE  Placed'
        <4>1. pc' = "charge" /\ produced' - read' = produced /\ read' = n /\ (read' = 0 => produced' = produced)
          BY <1>0, <3>2 DEF Returns
        <4>2. output' = output /\ decoder' = decoder /\ pc = "decode"
          BY <2>3 DEF DecoderReads
        <4>3. Given' = produced /\ Given = produced
          BY <4>1, <4>2 DEF Given
        <4>4. output = Base \o SubSeq(UnitsOf(decoder), 1, produced)
          BY <4>2, <4>3 DEF Placed, Pumping
        <4>5. output' = Base' \o SubSeq(UnitsOf(decoder'), 1, Given')
          BY <3>1, <4>2, <4>3, <4>4
        <4> QED BY <3>2, <4>1, <4>2, <4>5 DEF Placed, Pumping
      <3>3. CASE DecoderGives
        <4>1. PICK n \in 1..Least(ControlChunk, Len(decoder.units) - produced) :
                 \E upto \in {decoder.units[produced + n].needs, Len(source)} : Returns(n, upto)
          BY <3>3 DEF DecoderGives
        <4>2. n \in Nat /\ n # 0
          BY <1>0 DEF Least
        <4> QED BY <3>2, <4>1, <4>2
      <3>4. CASE DecoderEnds
        BY <3>2, <3>4 DEF DecoderEnds
      <3>5. CASE DecoderFails
        BY <2>3, <3>1, <3>5 DEF DecoderReads, DecoderFails, Placed, Given, Pumping, Expanding
      <3> QED BY <2>3, <3>3, <3>4, <3>5 DEF DecoderReads
    <2>4. CASE DecoderError
      <3>1. pc' \notin Pumping \cup {"extract"}
        BY <2>4 DEF DecoderError, Fail, Pumping, Expanding
      <3> QED BY <3>1 DEF Placed, Pumping
    <2>5. CASE DecoderHasOutput
      <3>1. Base' = Base
        BY <1>1, <2>5, LayoutStays DEF DecoderHasOutput, streamVars
      <3>2. ASSUME NEW n \in Nat, NEW upto, Returns(n, upto), n = 0 => produced = Len(decoder.units)
            PROVE  Placed'
        <4>1. pc' = "charge" /\ produced' - read' = produced /\ read' = n /\ (read' = 0 => produced' = produced)
          BY <1>0, <3>2 DEF Returns
        <4>2. output' = output /\ decoder' = decoder /\ pc = "decode"
          BY <2>5 DEF DecoderHasOutput
        <4>3. Given' = produced /\ Given = produced
          BY <4>1, <4>2 DEF Given
        <4>4. output = Base \o SubSeq(UnitsOf(decoder), 1, produced)
          BY <4>2, <4>3 DEF Placed, Pumping
        <4>5. output' = Base' \o SubSeq(UnitsOf(decoder'), 1, Given')
          BY <3>1, <4>2, <4>3, <4>4
        <4> QED BY <3>2, <4>1, <4>2, <4>5 DEF Placed, Pumping
      <3>3. PICK n \in 1..Least(ControlChunk, Len(decoder.units) - produced) : Returns(n, consumed)
        BY <2>5 DEF DecoderHasOutput
      <3>4. n \in Nat /\ n # 0
        BY <1>0 DEF Least
      <3> QED BY <3>2, <3>3, <3>4
    <2>6. CASE DecoderGivesUp
      <3>1. pc' \notin Pumping \cup {"extract"}
        BY <2>6 DEF DecoderGivesUp, Fail, Pumping, Expanding
      <3> QED BY <3>1 DEF Placed, Pumping
    <2>7. CASE ChargeRead
      <3>1. Base' = Base
        BY <1>1, <2>7, LayoutStays DEF ChargeRead, streamVars
      <3>2. CASE pc' = "done"
        BY <3>2 DEF Placed, Pumping
      <3>3. CASE pc' # "done"
        <4>1. /\ pc = "charge" /\ (pc' = "accept" \/ (pc' = "ended" /\ read = 0))
              /\ UNCHANGED <<output, decoder, produced, read>>
          BY <2>7, <3>3 DEF ChargeRead, AtCheckpoint, Fail
        <4>2. Given' = Given
          BY <1>0, <4>1 DEF Given
        <4> QED BY <3>1, <4>1, <4>2 DEF Placed, Pumping
      <3> QED BY <3>2, <3>3
    <2>8. CASE WriteOutput
      <3>1. Base' = Base
        BY <1>1, <2>8, LayoutStays DEF WriteOutput, streamVars
      <3>2. CASE pc' = "done"
        BY <3>2 DEF Placed, Pumping
      <3>3. CASE pc' # "done"
        <4>1. /\ pc = "accept" /\ output' = output \o Chunk /\ UNCHANGED <<decoder, produced, read>>
              /\ pc' = "pump" \/ (pc' = "ended" /\ (read = 0 \/ produced = Len(decoder.units)))
          BY <2>8, <3>3 DEF WriteOutput, Fail, AfterOutput, pumpVars
        <4>2. output' = Base \o SubSeq(UnitsOf(decoder), 1, produced)
          BY <4>1, AcceptsChunk
        <4>3. Given' = produced
          BY <4>1 DEF Given
        <4>4. output' = Base' \o SubSeq(UnitsOf(decoder'), 1, Given')
          BY <3>1, <4>1, <4>2, <4>3
        <4> QED BY <4>1, <4>4 DEF Placed, Pumping
      <3> QED BY <3>2, <3>3
    <2>9. CASE AppendOutput
      <3>1. Base' = Base
        BY <1>1, <2>9, LayoutStays DEF AppendOutput, streamVars
      <3>2. CASE pc' = "done"
        BY <3>2 DEF Placed, Pumping
      <3>3. CASE pc' # "done"
        <4>1. /\ pc = "accept" /\ output' = output \o Chunk /\ UNCHANGED <<decoder, produced, read>>
              /\ pc' = "pump" \/ (pc' = "ended" /\ (read = 0 \/ produced = Len(decoder.units)))
          BY <2>9, <3>3 DEF AppendOutput, Fail, AfterOutput, pumpVars
        <4>2. output' = Base \o SubSeq(UnitsOf(decoder), 1, produced)
          BY <4>1, AcceptsChunk
        <4>3. Given' = produced
          BY <4>1 DEF Given
        <4>4. output' = Base' \o SubSeq(UnitsOf(decoder'), 1, Given')
          BY <3>1, <4>1, <4>2, <4>3
        <4> QED BY <4>1, <4>4 DEF Placed, Pumping
      <3> QED BY <3>2, <3>3
    <2>10. CASE CoderEnds
      <3>1. pc' \notin Pumping \cup {"extract"}
        BY <2>10 DEF CoderEnds, Fail, Pumping, Expanding
      <3> QED BY <3>1 DEF Placed, Pumping
    <2>11. CASE StartCoder
      <3>1. CASE pc' = "done"
        BY <3>1 DEF Placed, Pumping
      <3>2. CASE pc' # "done"
        <4>1. /\ BeginDecoding(Payload, Len(job.tokens) - Len(Payload), job.expected) /\ pc' \in {"construct", "pump"}
              /\ job' = job /\ pc = "coder" /\ output' = output
          BY <2>11, <3>2 DEF StartCoder, Fail
        <4>2. output' = Base'
          BY <4>1, JobStays DEF Phases, Base
        <4>3. Payload \in Seq(Nat) /\ Len(job.tokens) - Len(Payload) \in Nat
          BY PayloadOfJob DEF Typed
        <4>7. SameDecoding(decoder', decoder')
          BY <4>1, <4>3, DecodedTyped DEF BeginDecoding
        <4>4. decoder'.units \in Seq(Unit) /\ Base' \in Seq(Element)
          BY <4>1, <4>2, <4>7 DEF SameDecoding, Phases
        <4>5. produced' = 0 /\ Given' = 0
          BY <4>1 DEF BeginDecoding, Given
        <4>6. output' = Base' \o SubSeq(UnitsOf(decoder'), 1, Given')
          BY <4>2, <4>3, <4>4, <4>5, NothingGiven
        <4> QED BY <4>1, <4>6 DEF Placed, Pumping
      <3> QED BY <3>1, <3>2
    <2> QED BY <1>1, <2>1, <2>2, <2>3, <2>4, <2>5, <2>6, <2>7, <2>8, <2>9, <2>10, <2>11 DEF PumpStep
  <1>2. CASE StreamStep /\ UNCHANGED lzwVars
    <2>1. CASE ChargeInput
      <3>1. pc' \notin Pumping \cup {"extract"}
        BY <2>1 DEF ChargeInput, Fail, Pumping, Expanding
      <3> QED BY <3>1 DEF Placed, Pumping
    <2>2. CASE DetectFormat
      <3>1. pc' \notin Pumping \cup {"extract"}
        BY <2>2 DEF DetectFormat, Fail, Pumping, Expanding
      <3> QED BY <3>1 DEF Placed, Pumping
    <2>3. CASE ParseFrame
      <3>1. pc' \notin Pumping \cup {"extract"}
        BY <2>3 DEF ParseFrame, Fail, Pumping
      <3> QED BY <3>1 DEF Placed, Pumping
    <2>4. CASE OpenReturns
      <3>1. pc' \in {"done", "extract"} /\ pc = "frames" /\ output' = output /\ Base' = Base
        BY <2>4, LayoutStays DEF OpenReturns, Fail, streamVars
      <3>2. output = <<>> /\ frame = 0
        BY <3>1 DEF Phases, Opening
      <3>3. Base = <<>>
        BY <3>2, BaseTyped
      <3> QED BY <3>1, <3>2, <3>3 DEF Placed, Pumping
    <2>5. CASE BeginFrame
      <3>1. CASE pc' = "done"
        BY <3>1 DEF Placed, Pumping
      <3>2. CASE pc' # "done"
        <4>1. /\ BeginDecoding(FrameTokensOf(Frame), Frame.start, Frame.size) /\ pc' \in {"construct", "pump"}
              /\ pc = "extract" /\ frame < Len(layout) /\ UNCHANGED <<job, layout, frame, output>>
          BY <2>5, <3>2 DEF BeginFrame, Fail, streamVars
        <4>2. output' = Base' /\ Base' = Base
          BY <4>1, LayoutStays DEF Placed
        <4>3. FrameTokensOf(Frame) \in Seq(Nat) /\ Frame.start \in Nat
          BY <4>1, FrameTyped
        <4>7. SameDecoding(decoder', decoder')
          BY <4>1, <4>3, DecodedTyped DEF BeginDecoding
        <4>4. decoder'.units \in Seq(Unit) /\ Base' \in Seq(Element)
          BY <4>2, <4>7, BaseTyped DEF SameDecoding
        <4>5. produced' = 0 /\ Given' = 0
          BY <4>1 DEF BeginDecoding, Given
        <4>6. output' = Base' \o SubSeq(UnitsOf(decoder'), 1, Given')
          BY <4>2, <4>3, <4>4, <4>5, NothingGiven
        <4> QED BY <4>1, <4>6 DEF Placed, Pumping
      <3> QED BY <3>1, <3>2
    <2>6. CASE FinishFrame
      <3>1. CASE pc' = "done"
        BY <3>1 DEF Placed, Pumping
      <3>2. CASE pc' # "done"
        <4>1. /\ pc = "ended" /\ Streaming /\ pc' = "extract" /\ frame' = frame + 1
              /\ UNCHANGED <<job, output, layout>>
          BY <2>6, <3>2 DEF FinishFrame, Fail
        <4>2. frame < Len(layout) /\ decoder = Decoded(FrameTokensOf(layout[frame + 1]), layout[frame + 1].start)
              /\ frame \in Nat
          BY <4>1 DEF FrameBound, Pumping, Frame, Typed
        <4>3. Written(frame + 1) = Written(frame) \o UnitsOf(decoder)
          BY <4>2, WrittenNext DEF FrameUnits
        <4>4. output = Written(frame) \o SubSeq(UnitsOf(decoder), 1, Len(UnitsOf(decoder)))
          BY <4>1, DecoderUnits DEF Placed, Pumping, Given, Base
        <4>5. SubSeq(UnitsOf(decoder), 1, Len(UnitsOf(decoder))) = UnitsOf(decoder)
          BY DecoderUnits, NothingAndAll
        <4>6. Base' = Written(frame + 1)
          BY <4>1 DEF Base, Written, FrameUnits, FrameTokensOf, Input, Streaming
        <4>7. output' = Base'
          BY <4>1, <4>3, <4>4, <4>5, <4>6
        <4> QED BY <4>1, <4>7 DEF Placed, Pumping
      <3> QED BY <3>1, <3>2
    <2>7. CASE ExtractReturns
      <3>1. pc' \notin Pumping \cup {"extract"}
        BY <2>7 DEF ExtractReturns, Fail, Pumping, Expanding
      <3> QED BY <3>1 DEF Placed, Pumping
    <2> QED BY <1>2, <2>1, <2>2, <2>3, <2>4, <2>5, <2>6, <2>7 DEF StreamStep
  <1>3. CASE LzwStep
    <2>1. CASE ParseHeader
      <3>1. pc' \notin Pumping \cup {"extract"}
        BY <2>1 DEF ParseHeader, Fail, Pumping, Expanding
      <3> QED BY <3>1 DEF Placed, Pumping
    <2>2. CASE AllocateDictionary
      <3>1. pc' \notin Pumping \cup {"extract"}
        BY <2>2 DEF AllocateDictionary, LzwCheckpoint, Fail, Pumping, Expanding
      <3> QED BY <3>1 DEF Placed, Pumping
    <2>3. CASE PrepayInput
      <3>1. pc' \notin Pumping \cup {"extract"}
        BY <2>3 DEF PrepayInput, LzwCheckpoint, Fail, Pumping, Expanding
      <3> QED BY <3>1 DEF Placed, Pumping
    <2>4. CASE NextCode
      <3>1. pc' \notin Pumping \cup {"extract"}
        BY <2>4, NextCodePlaces DEF NextCode, Pumping, Expanding
      <3> QED BY <3>1 DEF Placed, Pumping
    <2>5. CASE WriteLiteral
      <3>1. pc' \notin Pumping \cup {"extract"}
        BY <2>5 DEF WriteLiteral, LzwCheckpoint, Fail, LzwWrites, Pumping, Expanding
      <3> QED BY <3>1 DEF Placed, Pumping
    <2>6. CASE WalkChain
      <3>1. pc' \notin Pumping \cup {"extract"}
        BY <2>6 DEF WalkChain, LzwCheckpoint, Fail, Pumping, Expanding
      <3> QED BY <3>1 DEF Placed, Pumping
    <2>7. CASE ChainEnds
      <3>1. pc' \notin Pumping \cup {"extract"}
        BY <2>7 DEF ChainEnds, Pumping, Expanding
      <3> QED BY <3>1 DEF Placed, Pumping
    <2>8. CASE WriteReversed
      <3>1. pc' \notin Pumping \cup {"extract"}
        BY <2>8 DEF WriteReversed, LzwCheckpoint, Fail, LzwWrites, Pumping, Expanding
      <3> QED BY <3>1 DEF Placed, Pumping
    <2>9. CASE DefineEntry
      <3>1. pc' \notin Pumping \cup {"extract"}
        BY <2>9 DEF DefineEntry, Pumping, Expanding
      <3> QED BY <3>1 DEF Placed, Pumping
    <2> QED BY <1>3, <2>1, <2>2, <2>3, <2>4, <2>5, <2>6, <2>7, <2>8, <2>9 DEF LzwStep
  <1>4. CASE Cancel
    <2>1. UNCHANGED <<job, layout, frame, pc, output, decoder, produced, read>>
      BY <1>4 DEF Cancel, streamVars, pumpVars
    <2>2. Base' = Base
      BY <2>1, LayoutStays
    <2> QED BY <2>1, <2>2 DEF Placed, Given
  <1>5. CASE Retry
    <2>1. UNCHANGED <<job, layout, frame, pc, output, decoder, produced, read>>
      BY <1>5 DEF Retry, DecoderRetries, streamVars, pumpVars
    <2>2. Base' = Base
      BY <2>1, LayoutStays
    <2> QED BY <2>1, <2>2 DEF Placed, Given
  <1>6. CASE UNCHANGED vars
    <2>1. UNCHANGED <<job, layout, frame, pc, output, decoder, produced, read>>
      BY <1>6 DEF vars, streamVars, pumpVars
    <2>2. Base' = Base
      BY <2>1, LayoutStays
    <2> QED BY <2>1, <2>2 DEF Placed, Given
  <1> QED BY <1>1, <1>2, <1>3, <1>4, <1>5, <1>6, Steps

\* A sequence that agrees with a longer one as far as it goes is a prefix of it.
LEMMA AgreeingIsPrefix ==
    ASSUME NEW T, NEW x \in Seq(T), NEW y \in Seq(T), Len(x) <= Len(y), \A i \in 1..Len(x) : x[i] = y[i]
    PROVE  IsPrefix(x, y)
  <1>1. Len(x) \in 0..Len(x) /\ Len(x) \in 0..Len(y)
    OBVIOUS
  <1>2. SubSeq(x, 1, Len(x)) = [i \in 1..Len(x) |-> x[i]] /\ SubSeq(y, 1, Len(x)) = [i \in 1..Len(x) |-> y[i]]
    BY <1>1, BeginningIsMapped
  <1>3. [i \in 1..Len(x) |-> x[i]] = [i \in 1..Len(x) |-> y[i]]
    OBVIOUS
  <1> QED BY <1>2, <1>3 DEF IsPrefix

\* A beginning of the middle, behind what comes before it.
LEMMA MiddleIsPrefix ==
    ASSUME NEW T, NEW b \in Seq(T), NEW s \in Seq(T), NEW t \in Seq(T), NEW g \in 0..Len(s)
    PROVE  IsPrefix(b \o SubSeq(s, 1, g), (b \o s) \o t)
  <1> DEFINE a == SubSeq(s, 1, g)
             c == b \o s
             x == b \o a
             y == c \o t
  <1>1. /\ Len(b) \in Nat /\ Len(s) \in Nat /\ Len(t) \in Nat /\ g \in Nat /\ g <= Len(s)
    OBVIOUS
  <1>2. a = [i \in 1..g |-> s[i]] /\ a \in Seq(T) /\ Len(a) = g
    BY BeginningIsMapped
  <1>3. /\ c \in Seq(T) /\ Len(c) = Len(b) + Len(s)
        /\ \A i \in 1..(Len(b) + Len(s)) : c[i] = IF i <= Len(b) THEN b[i] ELSE s[i - Len(b)]
    BY ConcatProperties
  <1> HIDE DEF a, c
  <1>4. /\ x \in Seq(T) /\ Len(x) = Len(b) + Len(a)
        /\ \A i \in 1..(Len(b) + Len(a)) : x[i] = IF i <= Len(b) THEN b[i] ELSE a[i - Len(b)]
    BY <1>2, ConcatProperties
  <1>5. /\ y \in Seq(T) /\ Len(y) = Len(c) + Len(t)
        /\ \A i \in 1..(Len(c) + Len(t)) : y[i] = IF i <= Len(c) THEN c[i] ELSE t[i - Len(c)]
    <2>1. c \in Seq(T) /\ t \in Seq(T)
      BY <1>3
    <2> QED BY <2>1, ConcatProperties
  <1> HIDE DEF x, y
  <1>6. Len(x) = Len(b) + g /\ Len(y) = Len(b) + Len(s) + Len(t) /\ Len(x) <= Len(y)
    BY <1>1, <1>2, <1>3, <1>4, <1>5
  <1>7. ASSUME NEW i \in 1..Len(x) PROVE x[i] = y[i]
    <2>1. /\ i \in 1..(Len(b) + Len(a)) /\ i \in 1..(Len(b) + Len(s)) /\ i \in 1..(Len(c) + Len(t))
          /\ i <= Len(c)
      BY <1>1, <1>2, <1>3, <1>6
    <2>2. y[i] = c[i]
      BY <1>5, <2>1
    <2>3. CASE i <= Len(b)
      <3>1. x[i] = b[i] /\ c[i] = b[i]
        BY <1>3, <1>4, <2>1, <2>3
      <3> QED BY <2>2, <3>1
    <2>4. CASE ~(i <= Len(b))
      <3>1. x[i] = a[i - Len(b)] /\ c[i] = s[i - Len(b)]
        BY <1>3, <1>4, <2>1, <2>4
      <3>2. i - Len(b) \in 1..g
        BY <1>1, <1>6, <2>4
      <3>3. a[i - Len(b)] = s[i - Len(b)]
        BY <1>2, <3>2
      <3> QED BY <2>2, <3>1, <3>3
    <2> QED BY <2>3, <2>4
  <1>8. IsPrefix(x, y)
    BY <1>4, <1>5, <1>6, <1>7, AgreeingIsPrefix
  <1> QED BY <1>8 DEF x, y, a, c

\* What the property compares with is a sequence of units.
LEMMA ReferenceTyped ==
    ASSUME Typed
    PROVE  Reference \in Seq(Element) /\ IsPrefix(<<>>, Reference)
  <1>1. Reference \in Seq(Element)
    <2>1. CASE Streaming
      <3>1. Len(layout) \in 0..Len(layout)
        BY DEF Typed, LayoutTyped, IsSequence
      <3> QED BY <2>1, <3>1, StreamReference, WrittenTyped
    <2>2. CASE ~Streaming
      <3>1. job.kind = "coder"
        BY <2>2, JobTyped DEF Typed, Streaming
      <3>2. SameDecoding(Decoded(Payload, Len(job.tokens) - Len(Payload)), Decoded(Payload, 0))
        BY PayloadOfJob, DecodedTyped DEF Typed
      <3> QED BY <3>1, <3>2, UnitsTyped DEF Reference, SameDecoding
    <2> QED BY <2>1, <2>2
  <1>2. <<>> \in Seq(Element) /\ <<>> \o Reference = Reference
    BY <1>1, NothingAndAll
  <1> QED BY <1>1, <1>2, BeginningIsPrefix

\* Whatever a decoder has given so far is a beginning of it.
LEMMA GivenIsPrefix ==
    ASSUME Typed, FrameBound, CoderBound, pc \in Pumping, NEW g \in 0..Len(decoder.units)
    PROVE  IsPrefix(Base \o SubSeq(UnitsOf(decoder), 1, g), Reference)
  <1> DEFINE U == UnitsOf(decoder)
  <1>1. U \in Seq(Element) /\ g \in 0..Len(U)
    BY DecoderUnits
  <1>2. CASE Streaming
    <2>1. /\ frame < Len(layout) /\ decoder = Decoded(FrameTokensOf(layout[frame + 1]), layout[frame + 1].start)
          /\ frame \in Nat /\ Len(layout) \in Nat /\ frame \in 0..Len(layout)
      BY <1>2 DEF FrameBound, Frame, Typed, LayoutTyped, IsSequence
    <2>2. Written(frame + 1) = Written(frame) \o U
      BY <2>1, WrittenNext DEF FrameUnits
    <2>3. PICK t \in Seq(Element) : Written(Len(layout)) = Written(frame + 1) \o t
      <3>1. frame + 1 \in 0..Len(layout)
        BY <2>1
      <3> QED BY <3>1, WrittenPrefix
    <2>4. Reference = (Base \o U) \o t
      BY <1>2, <2>2, <2>3, StreamReference DEF Base
    <2> HIDE DEF U
    <2>5. IsPrefix(Base \o SubSeq(U, 1, g), (Base \o U) \o t)
      BY <1>1, <2>3, BaseTyped, MiddleIsPrefix
    <2> QED BY <2>4, <2>5 DEF U
  <1>3. CASE ~Streaming
    <2>1. job.kind = "coder"
      BY <1>3, JobTyped DEF Typed, Streaming
    <2>2. Reference = U /\ Base = <<>>
      BY <1>3, <2>1 DEF CoderBound, Reference, Base
    <2> HIDE DEF U
    <2>3. <<>> \in Seq(Element) /\ <<>> \o U = U /\ U \o <<>> = U
      BY <1>1, NothingAndAll
    <2>4. IsPrefix(<<>> \o SubSeq(U, 1, g), (<<>> \o U) \o <<>>)
      BY <1>1, <2>3, MiddleIsPrefix
    <2> QED BY <2>2, <2>3, <2>4 DEF U
  <1> QED BY <1>2, <1>3

\* A coder is intact if its decoder ends well.
LEMMA CoderJudged ==
    ASSUME Typed, CoderBound, pc \in Pumping, ~Streaming
    PROVE  CoderIntact <=> /\ decoder.verdict = "end"
                           /\ job.expected \in {NoSize, Len(decoder.units)} /\ Len(decoder.units) <= job.maximum
                           /\ job.method = "deflate" => decoder.ends = Len(source)
  <1>1. Payload \in Seq(Nat) /\ Len(job.tokens) - Len(Payload) \in Nat /\ 0 \in Nat
    BY PayloadOfJob DEF Typed
  <1>2. source = Payload /\ decoder = Decoded(Payload, Len(job.tokens) - Len(Payload)) /\ HeaderVerdict = "Ok"
    BY DEF CoderBound
  <1>3. SameDecoding(decoder, Decoded(Payload, 0))
    BY <1>1, <1>2, DecodedTyped
  <1> QED BY <1>2, <1>3 DEF SameDecoding, CoderIntact

\* A call that fails leaves a beginning of the output; an uninterrupted coder that
\* fails was not intact.
LEMMA FailsInOrder ==
    ASSUME Typed, Phases, FrameBound, CoderBound, Placed, UNCHANGED <<job, layout>>,
           pc \in Opening \cup Pumping \cup {"coder", "extract"},
           \/ output' = output
           \/ pc \in Pumping /\ output' = Base \o SubSeq(UnitsOf(decoder), 1, produced),
           result' # "Ok", Streaming \/ Interrupted' \/ ~CoderIntact
    PROVE  PumpedInOrder'
  <1>1. Reference' = Reference /\ CoderIntact' = CoderIntact
    BY LayoutStays, JobStays
  <1>2. IsPrefix(output', Reference)
    <2>1. CASE pc \in Opening \cup {"coder"}
      BY <2>1, ReferenceTyped DEF Phases, Opening, Pumping
    <2>2. CASE pc = "extract"
      <3>1. output' = Base /\ Streaming /\ frame \in 0..Len(layout)
        BY <2>2 DEF Placed, Phases, Pumping, Typed
      <3>2. PICK t \in Seq(Element) : Reference = Base \o t
        BY <3>1, WrittenPrefix, StreamReference DEF Base
      <3> QED BY <3>1, <3>2, BaseTyped, BeginningIsPrefix
    <2>3. CASE pc \in Pumping
      <3>1. Given \in 0..Len(decoder.units) /\ produced \in 0..Len(decoder.units)
        BY DecoderUnits DEF Given
      <3>2. output = Base \o SubSeq(UnitsOf(decoder), 1, Given)
        BY <2>3 DEF Placed
      <3> QED BY <2>3, <3>1, <3>2, GivenIsPrefix
    <2> QED BY <2>1, <2>2, <2>3
  <1>3. job.kind = "coder" => ~Streaming
    BY DEF Streaming
  <1>4. job'.kind = "coder" /\ ~Interrupted' => ~CoderIntact'
    BY <1>1, <1>3
  <1> QED BY <1>1, <1>2, <1>4 DEF PumpedInOrder

\* A checkpoint that stops a call interrupts it.
LEMMA CheckpointInterrupts ==
    ASSUME NEW units, ~Passed(units), Fail(Checkpoint(cancelled, budget, units)), cancelled' = cancelled
    PROVE  result' # "Ok" /\ Interrupted'
  BY DEF Passed, Fail, Checkpoint, Interrupted

\* A declared size beyond the maximum cannot be met.
LEMMA TooLargeFails ==
    ASSUME Typed, TooLarge
    PROVE  ~CoderIntact
  BY JobTyped DEF Typed, TooLarge, CoderIntact

\* The output after the read that is being accepted.
LEMMA AcceptedLength ==
    ASSUME Typed, Placed, pc = "accept", ~Streaming
    PROVE  Len(output) + read = produced
  <1>1. /\ UnitsOf(decoder) \in Seq(Element) /\ produced \in Nat /\ read \in Nat
        /\ produced - read \in 0..Len(UnitsOf(decoder))
    BY DecoderUnits
  <1>2. output = <<>> \o SubSeq(UnitsOf(decoder), 1, produced - read)
    BY DEF Placed, Pumping, Given, Base
  <1>3. /\ SubSeq(UnitsOf(decoder), 1, produced - read) \in Seq(Element)
        /\ Len(SubSeq(UnitsOf(decoder), 1, produced - read)) = produced - read
    BY <1>1, BeginningIsMapped
  <1>4. output = SubSeq(UnitsOf(decoder), 1, produced - read)
    BY <1>2, <1>3, NothingAndAll
  <1> QED BY <1>1, <1>3, <1>4

\* Every action keeps the order of the output, and judges a coder as it should.
LEMMA PumpedInOrderKept ==
    ASSUME Typed, Phases, FrameBound, Admitted, CoderBound, Placed, PumpedInOrder, [Next]_vars
    PROVE  PumpedInOrder'
  <1>1. CASE PumpStep /\ UNCHANGED streamVars /\ UNCHANGED lzwVars
    <2>1. CASE PumpHead
      <3>1. CASE pc' # "done"
        BY <3>1 DEF PumpedInOrder
      <3>2. CASE pc' = "done"
        <4>1. /\ ~Passed(0) /\ Fail(Checkpoint(cancelled, budget, 0)) /\ output' = output
              /\ UNCHANGED <<job, layout, cancelled>> /\ pc \in Pumping
          BY <1>1, <2>1, <3>2 DEF PumpHead, AtCheckpoint, streamVars, Pumping
        <4> QED BY <4>1, CheckpointInterrupts, FailsInOrder
      <3> QED BY <3>1, <3>2
    <2>2. CASE ConstructDecoder
      <3>1. CASE pc' # "done"
        BY <3>1 DEF PumpedInOrder
      <3>2. CASE pc' = "done"
        <4>1. /\ TooLarge /\ result' = "LimitExceeded" /\ UNCHANGED <<job, layout, output>> /\ pc \in Pumping
          BY <1>1, <2>2, <3>2 DEF ConstructDecoder, Fail, streamVars, Pumping
        <4> QED BY <4>1, TooLargeFails, FailsInOrder
      <3> QED BY <3>1, <3>2
    <2>3. CASE DecoderReads
      <3>1. pc' # "done"
        BY <2>3 DEF DecoderReads, DecoderGives, DecoderEnds, DecoderFails, Returns
      <3> QED BY <3>1 DEF PumpedInOrder
    <2>4. CASE DecoderError
      <3>1. /\ pc = "failed" /\ result' # "Ok" /\ UNCHANGED <<job, layout, output>> /\ pc \in Pumping
        BY <1>1, <2>4 DEF DecoderError, Fail, ErrorOf, streamVars, Pumping
      <3>2. decoder.verdict # "end"
        BY <3>1 DEF Placed
      <3> QED BY <3>1, <3>2, CoderJudged, FailsInOrder
    <2>5. CASE DecoderHasOutput
      <3>1. pc' # "done"
        BY <2>5 DEF DecoderHasOutput, Returns
      <3> QED BY <3>1 DEF PumpedInOrder
    <2>6. CASE DecoderGivesUp
      <3>1. /\ result' # "Ok" /\ UNCHANGED <<job, layout, output>> /\ pc \in Pumping /\ Interrupted'
        BY <1>1, <2>6 DEF DecoderGivesUp, Fail, streamVars, Pumping, Interrupted
      <3> QED BY <3>1, FailsInOrder
    <2>7. CASE ChargeRead
      <3>1. CASE pc' # "done"
        BY <3>1 DEF PumpedInOrder
      <3>2. CASE pc' = "done"
        <4>1. /\ ~Passed(Work) /\ Fail(Checkpoint(cancelled, budget, Work)) /\ output' = output
              /\ UNCHANGED <<job, layout, cancelled>> /\ pc \in Pumping
          BY <1>1, <2>7, <3>2 DEF ChargeRead, AtCheckpoint, streamVars, Pumping
        <4> QED BY <4>1, CheckpointInterrupts, FailsInOrder
      <3> QED BY <3>1, <3>2
    <2>8. CASE WriteOutput
      <3>1. CASE pc' # "done"
        BY <3>1 DEF PumpedInOrder
      <3>2. CASE pc' = "done"
        <4>1. /\ UNCHANGED <<job, layout>> /\ pc = "accept" /\ Streaming /\ (output' = output \/ output' = output \o Chunk)
              /\ result' # "Ok"
          BY <1>1, <2>8, <3>2 DEF WriteOutput, Fail, streamVars
        <4>2. output' = output \/ output' = Base \o SubSeq(UnitsOf(decoder), 1, produced)
          BY <4>1, AcceptsChunk
        <4> QED BY <4>1, <4>2, FailsInOrder DEF Pumping
      <3> QED BY <3>1, <3>2
    <2>9. CASE AppendOutput
      <3>1. CASE pc' # "done"
        BY <3>1 DEF PumpedInOrder
      <3>2. CASE pc' = "done"
        <4>1. /\ UNCHANGED <<job, layout, output>> /\ pc = "accept" /\ ~Streaming /\ AppendVerdict(Len(output) + read) # "Ok"
              /\ result' # "Ok" /\ pc \in Pumping
          BY <1>1, <2>9, <3>2 DEF AppendOutput, Fail, AfterOutput, streamVars, Pumping
        <4>2. Len(output) + read = produced
          BY <4>1, AcceptedLength
        <4>3. ~CoderIntact
          <5>1. expected = job.expected
            BY <4>1 DEF CoderBound
          <5>2. (job.expected # NoSize /\ produced > job.expected) \/ produced > job.maximum
            BY <4>1, <4>2, <5>1 DEF AppendVerdict
          <5>3. produced <= Len(decoder.units) /\ produced \in Nat /\ Len(decoder.units) \in Nat /\ job.maximum \in Nat
                /\ job.expected \in Nat \cup {NoSize}
            BY DecoderUnits, JobTyped DEF Typed
          <5>4. job.expected \notin {NoSize, Len(decoder.units)} \/ ~(Len(decoder.units) <= job.maximum)
            BY <5>2, <5>3
          <5> QED BY <4>1, <5>4, CoderJudged
        <4> QED BY <4>1, <4>3, FailsInOrder
      <3> QED BY <3>1, <3>2
    <2>10. CASE CoderEnds
      <3>1. /\ pc = "ended" /\ ~Streaming /\ UNCHANGED <<job, layout, output, cancelled>> /\ pc \in Pumping
            /\ result' = IF decoder.verdict # "end" \/ Trailing \/ ~SizeMatches THEN "Format" ELSE "Ok"
        BY <1>1, <2>10 DEF CoderEnds, Fail, streamVars, Pumping
      <3>2. produced = Len(decoder.units) /\ job.kind = "coder"
        BY <3>1, JobTyped DEF Placed, Streaming, Typed
      <3>3. output = UnitsOf(decoder) /\ Len(output) = Len(decoder.units)
        <4>1. output = <<>> \o SubSeq(UnitsOf(decoder), 1, Len(UnitsOf(decoder)))
          BY <3>1, <3>2, DecoderUnits DEF Placed, Given, Base
        <4>2. /\ SubSeq(UnitsOf(decoder), 1, Len(UnitsOf(decoder))) = UnitsOf(decoder)
              /\ <<>> \o UnitsOf(decoder) = UnitsOf(decoder)
          BY DecoderUnits, NothingAndAll
        <4> QED BY <4>1, <4>2, DecoderUnits
      <3>4. Reference = UnitsOf(decoder)
        BY <3>1, <3>2 DEF CoderBound, Reference
      <3>5. start_output = 0 /\ expected = job.expected
        BY <3>1 DEF CoderBound
      <3>6. Len(output) <= job.maximum /\ Len(output) \in Nat
        BY <3>1, <3>3, DecoderUnits DEF Admitted
      <3>7. SizeMatches <=> job.expected \in {NoSize, Len(decoder.units)}
        BY <3>3, <3>5, <3>6 DEF SizeMatches
      <3>8. Trailing <=> job.method = "deflate" /\ decoder.ends # Len(source)
        BY <3>2 DEF Trailing, Controlled
      <3>9. result' = "Ok" <=> CoderIntact
        BY <3>1, <3>3, <3>6, <3>7, <3>8, CoderJudged
      <3>10. Reference' = Reference /\ CoderIntact' = CoderIntact
        BY <3>1, LayoutStays, JobStays
      <3>11. IsPrefix(output', Reference') /\ output' = Reference'
        <4>1. UnitsOf(decoder) \o <<>> = UnitsOf(decoder) /\ <<>> \in Seq(Element) /\ UnitsOf(decoder) \in Seq(Element)
          BY DecoderUnits, NothingAndAll
        <4>2. IsPrefix(UnitsOf(decoder), UnitsOf(decoder) \o <<>>)
          BY <4>1, BeginningIsPrefix
        <4> QED BY <3>1, <3>3, <3>4, <3>10, <4>1, <4>2
      <3> QED BY <3>9, <3>10, <3>11 DEF PumpedInOrder
    <2>11. CASE StartCoder
      <3>1. CASE pc' # "done"
        BY <3>1 DEF PumpedInOrder
      <3>2. CASE pc' = "done"
        <4>1. /\ UNCHANGED <<job, layout, output>> /\ pc = "coder" /\ result' # "Ok"
              /\ HeaderVerdict # "Ok" \/ TooLarge
          BY <1>1, <2>11, <3>2 DEF StartCoder, Fail, streamVars
        <4>2. ~CoderIntact
          BY <4>1, TooLargeFails DEF CoderIntact
        <4> QED BY <4>1, <4>2, FailsInOrder
      <3> QED BY <3>1, <3>2
    <2> QED BY <1>1, <2>1, <2>2, <2>3, <2>4, <2>5, <2>6, <2>7, <2>8, <2>9, <2>10, <2>11 DEF PumpStep
  <1>2. CASE StreamStep /\ UNCHANGED lzwVars
    <2>1. CASE ChargeInput
      <3>1. CASE pc' # "done"
        BY <3>1 DEF PumpedInOrder
      <3>2. CASE pc' = "done"
        <4>1. /\ UNCHANGED <<job, layout, output>> /\ pc \in Opening \cup Pumping \cup {"extract"} /\ result' # "Ok"
          BY <1>2, <2>1, <3>2 DEF ChargeInput, Fail, Passed, Checkpoint, streamVars, Opening, Pumping
        <4>2. Streaming
          BY <4>1, <2>1 DEF ChargeInput, Phases, Opening
        <4> QED BY <4>1, <4>2, FailsInOrder
      <3> QED BY <3>1, <3>2
    <2>2. CASE DetectFormat
      <3>1. CASE pc' # "done"
        BY <3>1 DEF PumpedInOrder
      <3>2. CASE pc' = "done"
        <4>1. /\ UNCHANGED <<job, layout, output>> /\ pc \in Opening \cup Pumping \cup {"extract"} /\ result' # "Ok"
          BY <1>2, <2>2, <3>2 DEF DetectFormat, Fail, streamVars, Opening, Pumping
        <4>2. Streaming
          BY <4>1, <2>2 DEF DetectFormat, Phases, Opening
        <4> QED BY <4>1, <4>2, FailsInOrder
      <3> QED BY <3>1, <3>2
    <2>3. CASE ParseFrame
      <3>1. CASE pc' # "done"
        BY <3>1 DEF PumpedInOrder
      <3>2. CASE pc' = "done"
        <4>1. /\ UNCHANGED <<job, layout, output>> /\ pc \in Opening \cup Pumping \cup {"extract"} /\ result' # "Ok"
          BY <1>2, <2>3, <3>2 DEF ParseFrame, Fail, streamVars, Opening, Pumping
        <4>2. Streaming
          BY <4>1, <2>3 DEF ParseFrame, Phases, Opening
        <4> QED BY <4>1, <4>2, FailsInOrder
      <3> QED BY <3>1, <3>2
    <2>4. CASE OpenReturns
      <3>1. CASE pc' # "done"
        BY <3>1 DEF PumpedInOrder
      <3>2. CASE pc' = "done"
        <4>1. /\ UNCHANGED <<job, layout, output>> /\ pc \in Opening \cup Pumping \cup {"extract"} /\ result' # "Ok"
          BY <1>2, <2>4, <3>2 DEF OpenReturns, Fail, streamVars, Opening, Pumping
        <4>2. Streaming
          BY <4>1, <2>4 DEF OpenReturns, Phases, Opening
        <4> QED BY <4>1, <4>2, FailsInOrder
      <3> QED BY <3>1, <3>2
    <2>5. CASE BeginFrame
      <3>1. CASE pc' # "done"
        BY <3>1 DEF PumpedInOrder
      <3>2. CASE pc' = "done"
        <4>1. /\ UNCHANGED <<job, layout, output>> /\ pc \in Opening \cup Pumping \cup {"extract"} /\ result' # "Ok"
          BY <1>2, <2>5, <3>2 DEF BeginFrame, Fail, Passed, streamVars, Opening, Pumping
        <4>2. Streaming
          BY <4>1, <2>5 DEF BeginFrame, Phases, Opening
        <4> QED BY <4>1, <4>2, FailsInOrder
      <3> QED BY <3>1, <3>2
    <2>6. CASE FinishFrame
      <3>1. CASE pc' # "done"
        BY <3>1 DEF PumpedInOrder
      <3>2. CASE pc' = "done"
        <4>1. /\ UNCHANGED <<job, layout, output>> /\ pc \in Opening \cup Pumping \cup {"extract"} /\ result' # "Ok"
          BY <1>2, <2>6, <3>2 DEF FinishFrame, Fail, streamVars, Opening, Pumping
        <4>2. Streaming
          BY <2>6 DEF FinishFrame, Phases, Opening
        <4> QED BY <4>1, <4>2, FailsInOrder
      <3> QED BY <3>1, <3>2
    <2>7. CASE ExtractReturns
      <3>1. /\ pc = "extract" /\ frame = Len(layout) /\ UNCHANGED <<job, layout, output>>
        BY <2>7 DEF ExtractReturns, streamVars
      <3>2. Streaming /\ output = Base
        BY <3>1 DEF Phases, Placed
      <3>3. output = Reference
        BY <3>1, <3>2, StreamReference DEF Base
      <3>4. Reference' = Reference
        BY <3>1, LayoutStays
      <3>5. output \o <<>> = output /\ <<>> \in Seq(Element) /\ output \in Seq(Element)
        BY <3>2, BaseTyped, NothingAndAll
      <3>6. IsPrefix(output, output)
        <4>1. IsPrefix(output, output \o <<>>)
          BY <3>5, BeginningIsPrefix
        <4> QED BY <3>5, <4>1
      <3>7. job'.kind # "coder"
        BY <3>1, <3>2 DEF Streaming
      <3> QED BY <3>1, <3>3, <3>4, <3>6, <3>7 DEF PumpedInOrder
    <2> QED BY <1>2, <2>1, <2>2, <2>3, <2>4, <2>5, <2>6, <2>7 DEF StreamStep
  <1>3. CASE LzwStep
    <2>1. CASE ParseHeader
      <3>1. pc \in {"header", "memory", "prepay"} \cup Expanding /\ format' = format
        BY <2>1 DEF ParseHeader, Elsewhere, Expanding
      <3> QED BY <3>1 DEF Phases, PumpedInOrder
    <2>2. CASE AllocateDictionary
      <3>1. pc \in {"header", "memory", "prepay"} \cup Expanding /\ format' = format
        BY <2>2 DEF AllocateDictionary, Elsewhere, Expanding
      <3> QED BY <3>1 DEF Phases, PumpedInOrder
    <2>3. CASE PrepayInput
      <3>1. pc \in {"header", "memory", "prepay"} \cup Expanding /\ format' = format
        BY <2>3 DEF PrepayInput, Elsewhere, Expanding
      <3> QED BY <3>1 DEF Phases, PumpedInOrder
    <2>4. CASE NextCode
      <3>1. pc \in {"header", "memory", "prepay"} \cup Expanding /\ format' = format
        BY <2>4 DEF NextCode, Elsewhere, Expanding
      <3> QED BY <3>1 DEF Phases, PumpedInOrder
    <2>5. CASE WriteLiteral
      <3>1. pc \in {"header", "memory", "prepay"} \cup Expanding /\ format' = format
        BY <2>5 DEF WriteLiteral, Elsewhere, Expanding
      <3> QED BY <3>1 DEF Phases, PumpedInOrder
    <2>6. CASE WalkChain
      <3>1. pc \in {"header", "memory", "prepay"} \cup Expanding /\ format' = format
        BY <2>6 DEF WalkChain, Elsewhere, Expanding
      <3> QED BY <3>1 DEF Phases, PumpedInOrder
    <2>7. CASE ChainEnds
      <3>1. pc \in {"header", "memory", "prepay"} \cup Expanding /\ format' = format
        BY <2>7 DEF ChainEnds, Elsewhere, Expanding
      <3> QED BY <3>1 DEF Phases, PumpedInOrder
    <2>8. CASE WriteReversed
      <3>1. pc \in {"header", "memory", "prepay"} \cup Expanding /\ format' = format
        BY <2>8 DEF WriteReversed, Elsewhere, Expanding
      <3> QED BY <3>1 DEF Phases, PumpedInOrder
    <2>9. CASE DefineEntry
      <3>1. pc \in {"header", "memory", "prepay"} \cup Expanding /\ format' = format
        BY <2>9 DEF DefineEntry, Elsewhere, Expanding
      <3> QED BY <3>1 DEF Phases, PumpedInOrder
    <2> QED BY <1>3, <2>1, <2>2, <2>3, <2>4, <2>5, <2>6, <2>7, <2>8, <2>9 DEF LzwStep
  <1>4. CASE Cancel
    BY <1>4 DEF Cancel, PumpedInOrder
  <1>5. CASE Retry
    BY <1>5 DEF Retry, DecoderRetries, PumpedInOrder
  <1>6. CASE UNCHANGED vars
    <2>1. UNCHANGED <<job, layout, output, pc, format, result, cancelled>>
      BY <1>6 DEF vars, streamVars
    <2>2. Reference' = Reference /\ CoderIntact' = CoderIntact
      BY <2>1, LayoutStays, JobStays
    <2> QED BY <2>1, <2>2 DEF PumpedInOrder, Interrupted
  <1> QED BY <1>1, <1>2, <1>3, <1>4, <1>5, <1>6, Steps

-----------------------------------------------------------------------------
(***************************************************************************)
(* The inductive invariant of a session and what follows from it.          *)
(***************************************************************************)
StreamInvariant == Phases /\ Typed /\ FrameBound /\ LzwSound /\ Admitted /\ Paid /\ InOrder

\* A call that has not begun.
LEMMA InitialSession == ASSUME Init PROVE StreamInvariant
  <1> USE DEF Init, PumpInit, StreamInit, LzwInit
  <1>1. job \in Jobs /\ Input \in Seq(Nat) /\ Len(Input) \in Nat /\ job.maximum \in Nat
    BY JobTyped
  <1>2. budget.consumed \in Nat
    BY PumpAssumption, U64MaxAssumption DEF Budget
  <1>3. Phases
    BY DEF Phases, Opening, Pumping, Expanding, Streaming
  <1>4. Typed
    <2>1. decoder = Decoded(source, 0) /\ source \in Seq(Nat)
      OBVIOUS
    <2>2. SameDecoding(decoder, decoder)
      BY <2>1, DecodedTyped
    <2>3. Len(decoder.units) \in Nat
      BY <2>2 DEF SameDecoding
    <2>4. LayoutTyped(layout) /\ Len(layout) = 0
      BY DEF LayoutTyped, IsSequence
    <2> QED BY <1>1, <2>1, <2>3, <2>4 DEF Typed
  <1>5. FrameBound /\ CoderBound /\ Placed /\ PumpedInOrder
    BY DEF FrameBound, CoderBound, Placed, PumpedInOrder, Pumping
  <1>6. LzwSound
    <2>1. maximum_code_bits \in INITIAL_CODE_BITS..MAXIMUM_CODE_BITS
      BY LzwAssumption DEF INITIAL_CODE_BITS, MAXIMUM_CODE_BITS
    <2>2. DictionaryEntries \in Nat
      BY <2>1, CodeSizes
    <2>3. expansion \in Seq(Nat) /\ Len(expansion) <= DictionaryEntries
      BY <2>2
    <2> QED BY <2>1, <2>3 DEF LzwSound, Expanding, Internal
  <1>7. Admitted
    BY <1>1, <1>2, PumpAssumption DEF Admitted, Least
  <1>8. Paid
    BY <1>1, <1>2 DEF Paid, Paying, ResultPaid, Pumping, Expanding
  <1> QED BY <1>3, <1>4, <1>5, <1>6, <1>7, <1>8 DEF StreamInvariant, InOrder

\* Every step of a session keeps the invariant.
LEMMA StreamInvariantKept ==
    ASSUME StreamInvariant, [Next]_vars
    PROVE  StreamInvariant'
  <1> USE DEF StreamInvariant, InOrder
  <1>1. Phases' /\ Typed' /\ FrameBound'
    BY PhasesKept, TypedKept, FrameBoundKept
  <1>2. LzwSound' /\ Admitted'
    BY LzwSoundKept, AdmittedKept
  <1>3. Paid'
    BY PayingKept, ResultPaidKept DEF Paid
  <1>4. Placed' /\ CoderBound' /\ PumpedInOrder'
    BY PlacedKept, CoderBoundKept, PumpedInOrderKept
  <1> QED BY <1>1, <1>2, <1>3, <1>4

\* A session is always at a known place of the code, its decoder is the one of the
\* frame or coder at hand, and its dictionary, its budget and its output agree.
THEOREM StreamSessionInvariant == Spec => []StreamInvariant
  <1>1. Init => StreamInvariant
    BY InitialSession
  <1>2. StreamInvariant /\ [Next]_vars => StreamInvariant'
    BY StreamInvariantKept
  <1> QED BY <1>1, <1>2, PTL DEF Spec

(***************************************************************************)
(* pump_reader, decode_reader and decode_deflate: whatever the sizes of    *)
(* the reads and however the call ends, the decoder's units were kept once *)
(* each and in order, all of them if the call returns Ok; and a coder that *)
(* nothing interrupts returns Ok exactly when its stream is intact.        *)
(***************************************************************************)
THEOREM SessionsPumpInOrder == Spec => []PumpedInOrder
  <1>1. StreamInvariant => PumpedInOrder
    BY DEF StreamInvariant, InOrder
  <1> QED BY <1>1, StreamSessionInvariant, PTL

(***************************************************************************)
(* ExtractionControl: both output limits hold at every step, and a call    *)
(* that returns Ok has charged the budget for every unit it wrote and for  *)
(* all the input it was made from.                                         *)
(***************************************************************************)
THEOREM SessionsPayForOutput == Spec => []OutputPaidAndBounded
  <1>1. StreamInvariant => OutputPaidAndBounded
    BY DEF StreamInvariant, Admitted, Paid, ResultPaid, OutputPaidAndBounded
  <1> QED BY <1>1, StreamSessionInvariant, PTL

(***************************************************************************)
(* decode_lzw: whatever the codes, no chain leaves the dictionary or runs  *)
(* in a cycle, so the decoder never meets the states it calls internal and *)
(* the expansion stays within the memory that was admitted.                *)
(***************************************************************************)
THEOREM LzwStaysAccounted == Spec => []LzwAccounted
  <1>1. StreamInvariant => LzwAccounted
    BY DEF StreamInvariant, LzwSound, LzwAccounted
  <1> QED BY <1>1, StreamSessionInvariant, PTL
=============================================================================
