--------------------------- MODULE MCFolderCodecs ---------------------------
(***************************************************************************)
(* LZMA streams of every short run of operations and some long ones, under *)
(* four sets of properties; LZMA2 streams with each kind of chunk after    *)
(* each; Deflate64 blocks of each kind after each; streams cut anywhere or *)
(* with one byte replaced; code for each filter.                           *)
(***************************************************************************)
EXTENDS FolderCodecs

Op(kind, byte, offset, k, length) == [kind |-> kind, byte |-> byte, offset |-> offset, k |-> k, length |-> length]
Lit(b)    == Op("literal", b, 0, 0, 1)
Mat(o, n) == Op("match", 0, o, 0, n)
Rep(k, n) == Op("rep", 0, 0, k, n)
Short     == Op("short", 0, 0, 0, 1)
End       == Op("end", 0, EOS_DISTANCE, 0, 2)

\* Runs that never reach behind the dictionary, and how far they reach.
Traced(ops) ==
    FoldLeft(LAMBDA x, op :
                IF ~x.valid \/ ~Follows(x, op) THEN [x EXCEPT !.valid = FALSE]
                ELSE [text |-> x.text \o Meant(x, op), reps |-> NewReps(x, op), valid |-> TRUE,
                      reach |-> IF op.kind \in {"literal", "end"} \/ OffsetOf(x, op) < x.reach THEN x.reach
                                ELSE OffsetOf(x, op) + 1],
             [text |-> <<>>, reps |-> <<0, 0, 0, 0>>, valid |-> TRUE, reach |-> 0], ops)

Valid(runs) == {ops \in runs : Traced(ops).valid}

Job(method, properties, inputs, size, maximum, from) ==
    [method |-> method, properties |-> properties, inputs |-> inputs, expected |-> size, maximum |-> maximum,
     max_dictionary |-> Byte, written |-> from]

From(text, sizes, reach, cut, resets) ==
    [text |-> text, sizes |-> sizes, reach |-> reach, cut |-> cut, resets |-> resets]

-----------------------------------------------------------------------------
Properties == {<<0, 0, 0>>, <<3, 0, 2>>, <<0, 2, 1>>, <<2, 1, 1>>}

Short4 == Valid({<<Lit(9)>> \o r : r \in [1..3 -> {Lit(0), Lit(9), Mat(0, 2), Mat(1, 4), Rep(1, 3), Rep(2, 2), Short}]})
Long   == {<<Lit(1), Lit(15), Mat(1, 2), Lit(1), Mat(2, 3), Lit(7), Mat(4, 2), Mat(6, 5), Rep(4, 2), Rep(3, 6), Rep(2, 2),
             Short, Lit(8), Rep(4, 9)>>,
           <<Lit(5), Mat(0, 9), Lit(4), Mat(9, 8), Lit(4), Lit(5), Mat(14, 7), Short, Short, Lit(3)>>,
           <<Lit(5), Mat(0, 9), Mat(8, 6), Mat(7, 3), Mat(12, 2), Mat(13, 5), Mat(5, 4)>>,
           <<Lit(2), Lit(2), Lit(2), Lit(2), Short, Short, Lit(10), Lit(10), Mat(3, 4), Lit(6), Lit(10)>>}

LzmaOf(p, dictionary, w, size, maximum, from) ==
    Job("lzma", <<PropertyByte(p), dictionary>>, <<w.digits>>, IF size < 0 THEN NoSize ELSE Len(w.text) - size, maximum,
        <<From(w.text, IF from.ended THEN {NoSize, Len(w.text)} ELSE {Len(w.text)}, from.reach, FALSE, FALSE)>>)

Lzma(p, ops, size, dictionary, maximum) ==
    LzmaOf(p, dictionary, WriteStream(Writer(p), ops), size, maximum,
           [ended |-> \E i \in DOMAIN ops : ops[i].kind = "end", reach |-> Traced(ops).reach])

LzmaJobs ==
    {Lzma(p, ops, 0, 8, 40) : p \in Properties, ops \in Short4}
    \cup {Lzma(p, ops \o <<End>>, s, d, 60) : p \in Properties, ops \in Long, s \in {-1, 0}, d \in {8, 15}}
    \cup {Lzma(p, ops, s, d, m) : p \in {<<3, 0, 2>>}, ops \in Long \cup {<<>>}, s \in {-1, 0, 1}, d \in {0, 15}, m \in {12, 60}}

\* Cut anywhere; one byte replaced.
CutOf(j) == {[j EXCEPT !.inputs = <<SubSeq(@[1], 1, n)>>, !.written = <<[@[1] EXCEPT !.cut = TRUE]>>] :
                n \in 0..(Len(j.inputs[1]) - 1)}
DamageOf(j) == {[j EXCEPT !.inputs = <<[@[1] EXCEPT ![n] = v]>>, !.written = <<>>] :
                n \in DOMAIN j.inputs[1], v \in {0, 3, 8, 15}}

Bases == {Lzma(<<3, 0, 2>>, ops \o t, IF t = <<>> THEN 0 ELSE -1, 15, 60) : ops \in Long, t \in {<<>>, <<End>>}}

-----------------------------------------------------------------------------
Ops(level, p, ops) == [level |-> level, p |-> p, ops |-> ops, control |-> 0, bytes |-> <<>>]
Raw(control, bytes) == [level |-> -1, p |-> <<0, 0, 0>>, ops |-> <<>>, control |-> control, bytes |-> bytes]

P1 == <<2, 0, 1>>
P2 == <<0, 1, 2>>
First  == {Ops(3, P1, <<Lit(13), Lit(6), Mat(1, 3)>>), Raw(1, <<11, 2, 7>>)}
Second == {Ops(l, P2, <<Lit(7), Short, Lit(9), Mat(2, 2)>>) : l \in 0..3}
          \cup {Raw(2, <<12, 5>>), Raw(1, <<8, 1, 1>>)}
Third  == {Ops(l, P1, <<Lit(9), Rep(1, 2), Lit(4), Lit(12)>>) : l \in 0..3}

ChunkLists == {<<a>> : a \in First} \cup {<<a, b>> : a \in First, b \in Second}
              \cup {<<a, b, c>> : a \in First, b \in Second, c \in Third}

\* Where properties are set after the dictionary, as the format demands.
Resets(c)  == c.control = 1 \/ c.level = 3
SetsProperties(c) == c.level >= 2
WellFormed(cs) == \A i \in DOMAIN cs : cs[i].level \in 0..1 =>
    \E k \in 1..(i - 1) : SetsProperties(cs[k]) /\ \A m \in (k + 1)..(i - 1) : ~Resets(cs[m])

Lzma2Of(chunks, tokens, text, size, property, maximum) ==
    Job("lzma2", <<property>>, <<tokens>>, IF size < 0 THEN NoSize ELSE Len(text) + 1 - size, maximum,
        IF WellFormed(chunks)
        THEN <<From(text, {NoSize, Len(text)}, 3, FALSE, \E i \in 2..Len(chunks) : Resets(chunks[i]))>> ELSE <<>>)

WithText(chunks, w, size, property, maximum) == Lzma2Of(chunks, w.tokens, w.before \o w.text, size, property, maximum)
Lzma2(chunks, size, property, maximum) == WithText(chunks, WriteChunks(chunks), size, property, maximum)

Lzma2Jobs ==
    {Lzma2(c, s, d, 40) : c \in ChunkLists, s \in {-1, 1}, d \in {1}}
    \cup {Lzma2(c, s, d, m) : c \in {<<a, b>> : a \in First, b \in Second}, s \in 0..2, d \in {0, 6, 7}, m \in {5, 40}}
    \cup {Job("lzma2", <<1>>, <<<<c, 0, 1, 0, 5, 0, 0, 0, 0, 0, 0, 0, 0>>>>, NoSize, 9, <<>>) :
             c \in {1, 2, 3, 127, 128, 160, 192, 224}}

Bases2 == {Lzma2(<<a, b>>, -1, 1, 40) : a \in First, b \in {Raw(2, <<12, 5>>)}}
          \cup {Lzma2(<<Ops(3, P1, <<Lit(13), Lit(6), Mat(1, 3)>>), Ops(0, P1, <<Short, Lit(9), Mat(2, 2)>>)>>, -1, 1, 40)}

-----------------------------------------------------------------------------
Block(kind, bytes, ops, literals, runs, codes) ==
    [kind |-> kind, bytes |-> bytes, ops |-> ops, literals |-> literals, runs |-> runs, codes |-> codes]
Stored(bytes) == Block(0, bytes, <<>>, 0, <<>>, <<>>)
Fixed(ops)    == Block(1, <<>>, ops, 0, <<>>, <<>>)

Wide(o, n)    == Op("match", 0, o, 1, n)

\* Codes for 1, 9, the end, four lengths and three distances: one run of equal
\* lengths goes on from the literals to the distances.  Then literals only.
Both(ops) == Block(2, <<>>, ops, 21, <<Plain(0), Plain(2), Zeros(7), Plain(3), Zeros(6), Plain(2), Plain(3), Plain(4), Again(4, 5)>>,
                   <<3, 0, 2, 2, 3, 0, 0, 0, 3, 3, 0>>)
SingleRuns == <<Zeros(13), Plain(1), Plain(0), Plain(0), Plain(1), Plain(0)>>
SingleCodes == <<1, 2, 0, 0, 0, 0, 0, 0, 0, 0, 2>>
Single(ops) == Block(2, <<>>, ops, 17, SingleRuns, SingleCodes)

FirstBlocks  == {Stored(<<>>), Stored(<<7, 0, 15>>), Stored([i \in 1..16 |-> (7 * i) % Byte]), Fixed(<<>>),
                 Fixed(<<Lit(9), Lit(0), Mat(1, 4), Lit(15), Mat(0, 9), Wide(3, 5)>>),
                 Both(<<Lit(1), Lit(9), Mat(1, 3), Lit(9), Mat(2, 7), Mat(0, 4), Mat(1, 6)>>), Single(<<Lit(13), Lit(13)>>)}
LaterBlocks  == {Stored(<<3, 4>>), Fixed(<<Mat(1, 3), Lit(8), Wide(2, 3)>>), Fixed(<<Lit(7), Mat(15, 12), Mat(9, 5), Mat(5, 8)>>),
                 Both(<<Mat(2, 5), Lit(1)>>), Single(<<Lit(13)>>)}
BlockLists   == {<<a>> : a \in FirstBlocks} \cup {<<a, b>> : a \in FirstBlocks, b \in LaterBlocks}
                \cup {<<Stored([i \in 1..16 |-> (7 * i) % Byte]), b, c>> : b, c \in LaterBlocks}

\* Every match starts within what was put out before it.
WithinHistory(blocks) ==
    FoldLeft(LAMBDA x, op : [size |-> x.size + op.length,
                             sound |-> x.sound /\ (op.kind = "match" => op.offset < x.size)],
             [size |-> 0, sound |-> TRUE],
             FlattenSeq([i \in DOMAIN blocks |-> [k \in DOMAIN blocks[i].bytes |-> Lit(0)] \o blocks[i].ops])).sound

DeflateJob(w, size, maximum) ==
    Job("deflate64", <<>>, <<w.digits>>, IF size < 0 THEN NoSize ELSE Len(w.text) + 1 - size, maximum,
        <<From(w.text, {NoSize, Len(w.text)}, 0, FALSE, FALSE)>>)

SoundStreams == {[digits |-> DeflateOf(l), text |-> DeflateText(l)] : l \in {x \in BlockLists : WithinHistory(x)}}


\* What the decoder must refuse: a match before the first byte, reserved symbols
\* and kinds, trees without an end or a use, with too many codes or lengths.
BadBlocks ==
    {Fixed(<<Lit(5), Mat(3, 3)>>), Fixed(<<Lit(22)>>), Fixed(<<Lit(23)>>), [Fixed(<<Lit(5)>>) EXCEPT !.kind = 3],
     [Single(<<Lit(13)>>) EXCEPT !.literals = 23, !.runs = SubSeq(@, 1, 5) \o <<Zeros(8)>>, !.codes = <<1, 2, 0, 0, 0, 0, 0, 0, 0, 3, 3>>],
     [Single(<<Lit(13)>>) EXCEPT !.runs = <<Again(1, 3)>> \o @, !.codes = <<1, 2, 0, 0, 0, 0, 0, 0, 3, 0, 3>>],
     [Single(<<Lit(13)>>) EXCEPT !.codes = <<1, 1, 0, 0, 0, 0, 0, 0, 0, 0, 1>>],
     [Single(<<Lit(13)>>) EXCEPT !.runs = <<Zeros(13), Plain(1), Plain(1), Plain(0), Plain(1), Plain(0)>>],
     [Single(<<>>) EXCEPT !.literals = 18, !.runs = <<Zeros(13), Plain(1), Plain(0), Plain(0), Plain(0), Plain(1), Plain(0)>>]}

DeflateJobs ==
    {DeflateJob(w, s, m) : w \in SoundStreams, s \in -1..2, m \in {16, 60}}
    \cup {[DeflateJob(w, -1, 60) EXCEPT !.inputs[1] = Append(@, 0), !.written[1].cut = TRUE] : w \in SoundStreams}
    \cup {Job("deflate64", <<>>, <<DeflateOf(<<Stored(<<2>>), b>>)>>, NoSize, 60, <<>>) : b \in BadBlocks}
    \cup {[DeflateJob(w, -1, 60) EXCEPT !.max_dictionary = Byte - 1, !.written = <<>>] : w \in SoundStreams}

Bases3 == {DeflateJob([digits |-> DeflateOf(l), text |-> DeflateText(l)], -1, 60) : l \in {<<a>> : a \in FirstBlocks}}

-----------------------------------------------------------------------------
Filter(method, properties, encoded, text) ==
    Job(method, properties, <<encoded>>, Len(text), 24, <<From(text, {Len(text)}, 0, FALSE, FALSE)>>)

Starts == {<<>>, <<4, 2, 0, 0>>, <<8, 15, 15, 15>>}
StartOf(s) == IF s = <<>> THEN 0 ELSE LittleEndian(s)

Words(A, B, C, D) == {<<a, b, c, d, 3>> : a \in A, b \in B, c \in C, d \in D}
Edges == {0, 1, 7, 15}
WordTexts(method) ==
    LET words == CASE method = "ppc" -> Words({0, 4, 7, 8}, Edges, Edges, {1, 2, 13})
                   [] method = "arm" -> Words(Edges, Edges, Edges, {11, 15})
                   [] method = "sparc" -> Words({4, 7, 5}, {0, 3, 4, 11, 12, 15}, Edges, Edges)
    IN  {<<0, 0, 0, 0>> \o w : w \in words}

WordJobs == UNION {{Filter(m, s, WordsOf(m, t, StartOf(s)), t) : t \in WordTexts(m), s \in Starts} : m \in WordFilters}

ThumbTexts == {<<a, b, c, d, e, f, 1>> : a \in {0, 12, 15}, b \in {12, 13, 14, 1}, c \in {0, 15}, d \in {14, 15, 12}, e \in {3, 13},
                                        f \in {14, 12}}
ThumbJobs == {Filter("thumb", s, ThumbOf(t, StartOf(s)), t) : t \in ThumbTexts, s \in Starts}

X86Texts == {<<8>> \o t : t \in [1..7 -> {0, 8, 15}]} \cup {<<9>> \o t : t \in [1..5 -> {0, 3, 9, 15}]}
X86Jobs == {Filter("x86", <<>>, X86Of(t, 0), t) : t \in X86Texts}
           \cup {Filter("x86", s, X86Of(<<8>> \o t, StartOf(s)), <<8>> \o t) : s \in Starts, t \in [1..5 -> {0, 9, 14}]}

Plains == {<<>>, <<7>>, [i \in 1..9 |-> (i * i) % Byte], [i \in 1..20 |-> (5 * i) % Byte]}
PlainJobs == {Filter("delta", <<n>>, DeltaOf(t, n + 1), t) : n \in {0, 1, 3, 14, 15}, t \in Plains}
             \cup {Filter("swap2", <<>>, SwapOf(t, 2), t) : t \in Plains}
             \cup {Filter("swap4", <<>>, SwapOf(t, 4), t) : t \in Plains}

\* Properties of the wrong length, a wrong size and a limit.
RefusedJobs == {Job(m, p, <<<<1, 2, 3, 4, 5>>>>, s, x, <<>>) :
                   m \in Filters, p \in {<<>>, <<1>>, <<0, 0>>}, s \in {5, 6}, x \in {4, 5}}

Bcj2Texts == {<<8, 1, 2, 0, 0, 9, 15, 15, 15, 15, 3, 4, 1, 0, 0, 0, 8>>, <<3, 5, 9, 8, 1, 0, 8, 2, 2, 2, 2, 9>>,
              <<8, 8, 8, 8, 8, 8, 8, 8, 9, 9, 9>>, <<1, 2, 3>>, <<>>}
Bcj2Job(t, s, size, maximum) ==
    Job("bcj2", <<>>, Bcj2Of(t, s), size, maximum, <<From(t, {NoSize, Len(t)}, 0, FALSE, FALSE)>>)
Offsets == {0, 2, 3, 5, 6, 11}
Bcj2Jobs == {Bcj2Job(t, s, NoSize, 24) : t \in Bcj2Texts, s \in SUBSET Offsets}
            \cup {Bcj2Job(t, Offsets, IF sized THEN Len(t) ELSE 11, m) : t \in Bcj2Texts, sized \in BOOLEAN, m \in {10, 24}}
            \cup {[Bcj2Job(t, Offsets, NoSize, 24) EXCEPT !.inputs[k] = IF @ = <<>> THEN <<1>> ELSE Front(@), !.written = <<>>] :
                     t \in Bcj2Texts, k \in 2..4}

-----------------------------------------------------------------------------
CutJobs == UNION {CutOf(j) : j \in Bases \cup Bases2 \cup Bases3}
DamageJobs == UNION {DamageOf(j) : j \in Bases \cup Bases2 \cup Bases3}

MCJobs == LzmaJobs \cup Lzma2Jobs \cup DeflateJobs \cup CutJobs \cup DamageJobs
          \cup WordJobs \cup ThumbJobs \cup X86Jobs \cup PlainJobs \cup RefusedJobs \cup Bcj2Jobs
MCBudgets == {UnlimitedBudget, BoundedBudget(30)}
=============================================================================
