-------------------------- MODULE MCStreamSessions --------------------------
(***************************************************************************)
(* Streams of up to four frames, intact and spoilt in each way that a      *)
(* frame can be, alone and behind others; three of them cut anywhere or    *)
(* with one token replaced; texts compressed with every width and mode;    *)
(* every folder coder's input whole, cut, followed by more, and rejected.  *)
(***************************************************************************)
EXTENDS StreamSessions, LzwWriter

\* Frames.
Framed(tokens, data, hashed, fault) == [tokens |-> tokens, data |-> data, hashed |-> hashed, fault |-> fault]

Block(payload)  == [header |-> Len(payload), payload |-> payload]
Stored(payload) == [header |-> StoredBlock + Len(payload), payload |-> payload]

Lz4Frame(flags, size, dictionary, blocks, spoil) ==
    LET fields == <<64 + flags, 64>> \o (IF Bit(flags, 3) THEN <<size>> ELSE <<>>)
                  \o (IF Bit(flags, 0) THEN <<dictionary>> ELSE <<>>)
        OneBlock(b) == <<b.header>> \o b.payload
                       \o (IF Bit(flags, 4) THEN <<Hash(b.payload) + Flag(spoil = "block")>> ELSE <<>>)
        payloads == FlattenSeq([i \in DOMAIN blocks |-> blocks[i].payload])
    IN  <<LZ4_MAGIC>> \o fields \o <<Hash(fields) + Flag(spoil = "header")>>
        \o FlattenSeq([i \in DOMAIN blocks |-> OneBlock(blocks[i])]) \o <<0>>
        \o (IF Bit(flags, 2) THEN <<Hash(payloads) + Flag(spoil = "content")>> ELSE <<>>)

LegacyTokens(blocks, mark) ==
    <<LZ4_LEGACY_MAGIC>> \o FlattenSeq([i \in DOMAIN blocks |-> <<Len(blocks[i])>> \o blocks[i]])
    \o (IF mark THEN <<0>> ELSE <<>>)

ZstdBlock(type, size, payload, last) == <<8 * size + 2 * type + Flag(last)>> \o payload

ZstdFrame(descriptor, fields, blocks, payload, spoil) ==
    <<ZSTANDARD_MAGIC, descriptor>> \o fields \o blocks
    \o (IF ZstdHash(descriptor) THEN <<Hash(payload) + Flag(spoil = "content")>> ELSE <<>>)

Skip(n) == Framed(<<SKIPPABLE_MAGIC, n>> \o [i \in 1..n |-> LZ4_MAGIC], FALSE, FALSE, "none")

Plain4  == Framed(Lz4Frame(0, 0, 0, <<Block(<<2>>)>>, "none"), TRUE, FALSE, "none")
Sized4  == Framed(Lz4Frame(8, 3, 0, <<Block(<<1, 2>>)>>, "none"), TRUE, FALSE, "none")
Hashed4 == Framed(Lz4Frame(20, 0, 0, <<Stored(<<5, 9>>), Block(<<0, 1>>)>>, "none"), TRUE, TRUE, "none")
Empty4  == Framed(Lz4Frame(12, 0, 0, <<>>, "none"), TRUE, TRUE, "none")
Legacy(mark) == Framed(LegacyTokens(<<<<2, 1>>>>, mark), TRUE, FALSE, "none")

Bad4 == {Framed(Lz4Frame(8, 4, 0, <<Block(<<1, 2>>)>>, "none"), TRUE, FALSE, "Format"),
         Framed(Lz4Frame(8, 2, 0, <<Block(<<1, 2>>)>>, "none"), TRUE, FALSE, "Format"),
         Framed(Lz4Frame(9, 1, 7, <<Block(<<1>>)>>, "none"), TRUE, FALSE, "Unsupported"),
         Framed(Lz4Frame(20, 0, 0, <<Block(<<1>>), Block(<<2>>)>>, "block"), TRUE, TRUE, "Checksum"),
         Framed(Lz4Frame(4, 0, 0, <<Block(<<3>>)>>, "content"), TRUE, TRUE, "Checksum"),
         Framed(Lz4Frame(4, 0, 0, <<Block(<<1>>)>>, "header"), TRUE, TRUE, "Header"),
         Framed(Lz4Frame(4, 0, 0, <<Block(<<1>>), Block(<<2, 9>>)>>, "none"), TRUE, TRUE, "Format"),
         Framed(Lz4Frame(0, 0, 0, <<Block(<<Panic>>)>>, "none"), TRUE, FALSE, "Format"),
         Framed(Lz4Frame(0, 0, 0, <<Block(<<1, 1, 1>>)>>, "none"), TRUE, FALSE, "Format"),
         Framed(LegacyTokens(<<<<1, 1, 1, 1, 1, 1, 1>>>>, TRUE), TRUE, FALSE, "Format")}

PlainZ  == Framed(ZstdFrame(0, <<8>>, ZstdBlock(0, 1, <<7>>, FALSE) \o ZstdBlock(2, 2, <<1, 1>>, TRUE), <<>>, "none"),
                  TRUE, FALSE, "none")
HashedZ == Framed(ZstdFrame(36, <<3>>, ZstdBlock(1, 3, <<7>>, TRUE), <<7>>, "none"), TRUE, TRUE, "none")
WideZ   == Framed(ZstdFrame(64, <<24, 0>>, ZstdBlock(2, 1, <<2>>, TRUE), <<>>, "none"), TRUE, FALSE, "none")

BadZ == {Framed(ZstdFrame(36, <<3>>, ZstdBlock(1, 3, <<7>>, TRUE), <<7>>, "content"), TRUE, TRUE, "Checksum"),
         Framed(ZstdFrame(36, <<2>>, ZstdBlock(2, 1, <<3>>, TRUE), <<3>>, "none"), TRUE, TRUE, "Format"),
         Framed(ZstdFrame(1, <<8, 5>>, ZstdBlock(2, 1, <<1>>, TRUE), <<>>, "none"), TRUE, FALSE, "Unsupported"),
         Framed(ZstdFrame(8, <<8>>, ZstdBlock(2, 1, <<1>>, TRUE), <<>>, "none"), TRUE, FALSE, "Format"),
         Framed(ZstdFrame(0, <<56>>, ZstdBlock(2, 1, <<1>>, TRUE), <<>>, "none"), TRUE, FALSE, "LimitExceeded"),
         Framed(ZstdFrame(0, <<8>>, ZstdBlock(3, 1, <<1>>, TRUE), <<>>, "none"), TRUE, FALSE, "Format"),
         Framed(ZstdFrame(0, <<8>>, ZstdBlock(2, 1, <<9>>, TRUE), <<>>, "none"), TRUE, FALSE, "Format")}

Good4 == {Plain4, Sized4, Hashed4, Empty4, Legacy(TRUE), Legacy(FALSE)}
GoodZ == {PlainZ, HashedZ, WideZ}

Written4 == {<<f>> : f \in Good4 \cup Bad4}
            \cup {<<f, g>> : f \in {Hashed4, Legacy(FALSE)}, g \in Good4 \cup Bad4}
            \cup {<<f, g>> : f \in {Sized4, Skip(2)}, g \in {Sized4, Hashed4, Legacy(TRUE)}}
            \cup {<<f, Skip(1), g>> : f \in {Sized4, Legacy(FALSE)}, g \in {Sized4, Hashed4}}
            \cup {<<Skip(0)>>, <<Plain4, Plain4, Plain4>>, <<Empty4, Empty4, Empty4, Plain4>>,
                  <<Sized4, Sized4, Sized4>>, <<Empty4, Legacy(TRUE), Skip(2)>>}
WrittenZ == {<<f>> : f \in GoodZ \cup BadZ}
            \cup {<<f, g>> : f \in {HashedZ, Skip(1)}, g \in GoodZ \cup BadZ}
            \cup {<<HashedZ, HashedZ, HashedZ>>, <<Skip(3), HashedZ, Skip(0)>>}

Stream(tokens, named, frames, text) ==
    [kind |-> "stream", tokens |-> tokens, format |-> named, method |-> "none", frames |-> frames,
     text |-> text, expected |-> NoSize, maximum |-> 0]

TokensOf(d) == FlattenSeq([i \in DOMAIN d |-> d[i].tokens])

FrameJobs == {Stream(TokensOf(d), "auto", <<d>>, <<>>) : d \in (Written4 \cup WrittenZ) \ {<<Skip(0)>>}}
             \cup {Stream(TokensOf(<<Skip(0)>>), f, <<<<Skip(0)>>>>, <<>>) : f \in {"auto", "lz4", "zstandard"}}
             \cup {Stream(TokensOf(<<Plain4>>), "zstandard", <<>>, <<>>), Stream(<<>>, "auto", <<>>, <<>>),
                   Stream([i \in 1..(MaxTotalInput + 1) |-> 0], "auto", <<>>, <<>>)}

\* Damage to three streams.
Bases == {TokensOf(<<Hashed4, Skip(1), Sized4>>), TokensOf(<<Legacy(FALSE), Legacy(TRUE)>>), TokensOf(<<PlainZ, HashedZ>>)}

DamagedJobs ==
    UNION {{Stream(SubSeq(b, 1, n), "auto", <<>>, <<>>) : n \in 0..(Len(b) - 1)}
           \cup {Stream([b EXCEPT ![n] = v], "auto", <<>>, <<>>) : n \in DOMAIN b, v \in {0, 1, 9, 203}}
           : b \in Bases}

\* Compressed texts.
Texts == UNION {[1..n -> 0..1] : n \in 0..3}
         \cup {[i \in 1..n |-> 0] : n \in {7, 12}} \cup {[i \in 1..n |-> i % 2] : n \in {9, 14}}
         \cup {[i \in 1..n |-> (i * i) % 4] : n \in {10, 24}} \cup {[i \in 1..26 |-> (i \div 3 + i) % 4]}

LzwTokens(text, bits, block, clears) ==
    <<UNIX_MAGIC, bits + (IF block THEN 32 ELSE 0)>> \o Compress(text, bits, block, clears)

TextJob(text, bits, block, clears, cut) ==
    LET tokens == LzwTokens(text, bits, block, clears)
        count  == IF cut < Len(tokens) - 2 THEN cut ELSE 0
    IN  Stream(SubSeq(tokens, 1, Len(tokens) - count), "auto", <<>>,
               <<[text |-> text, bits |-> bits, whole |-> count = 0]>>)

\* Codes of the first width in groups, whatever they mean.
Codes(codes) == Packed(codes, INITIAL_CODE_BITS, INITIAL_CODE_BITS * ((Len(codes) + ByteBits - 1) \div ByteBits))

LzwJobs == {TextJob(t, b, m, c, 0) : t \in Texts, b \in {3, 4}, m \in BOOLEAN, c \in {{}, {3}, {1, 2, 5}}}
           \cup {TextJob(t, b, TRUE, {4}, cut) : t \in {u \in Texts : Len(u) > 8}, b \in {3, 4}, cut \in {1, 2, 4}}
           \cup {Stream(<<UNIX_MAGIC, f>> \o Codes(<<1>> \o c), "auto", <<>>, <<>>) :
                    f \in {4, 35, 36}, c \in [1..3 -> {0, 4, 5, 6}] \cup [1..4 -> {4, 5, 6}]}
           \cup {Stream(<<UNIX_MAGIC, f>> \o b, "auto", <<>>, <<>>) : f \in {2, 3, 5, 19, 35}, b \in {<<>>, <<1>>}}
           \cup {Stream(<<UNIX_MAGIC>>, "auto", <<>>, <<>>)}

\* Folder coders.
Coder(method, tokens, size, maximum) ==
    [kind |-> "coder", tokens |-> tokens, format |-> "none", method |-> method, frames |-> <<>>,
     text |-> <<>>, expected |-> size, maximum |-> maximum]

Bodies == {<<1, 2, 0>>, <<1, 3, 1, 1, 0>>, <<2, 1, 9, 0>>, <<1, Panic, 0>>, <<1, 2, 0, 1>>, <<0>>, <<>>}
CoderInputs ==
    {<<m, <<h>> \o b>> : m \in {"deflate", "brotli"}, h \in {STREAM_MAGIC, 7}, b \in Bodies}
    \cup {<<"bzip2", <<h>> \o b>> : h \in {212, 219, 7}, b \in Bodies}
    \cup {<<"brotli", <<SKIPPABLE_MAGIC, 0, STREAM_MAGIC>> \o b>> : b \in Bodies}
    \cup {<<"lz4", f.tokens \o t>> : f \in {Sized4, Hashed4, Legacy(TRUE)} \cup Bad4, t \in {<<>>, <<LZ4_MAGIC>>}}
    \cup {<<"zstd", f.tokens \o t>> : f \in GoodZ \cup BadZ, t \in {<<>>, <<ZSTANDARD_MAGIC, 0>>}}
    \cup {<<m, <<>>>> : m \in Methods} \cup {<<"zstd", <<ZSTANDARD_MAGIC, 36>>>>}

\* Declared size, or none, and maximum.
Sizes == {<<NoSize, 2>>, <<NoSize, 3>>, <<2, 3>>, <<3, 3>>, <<3, 2>>}

CoderJobs == {Coder(i[1], i[2], z[1], z[2]) : i \in CoderInputs, z \in Sizes}

MCJobs    == FrameJobs \cup DamagedJobs \cup LzwJobs \cup CoderJobs
MCBudgets == {UnlimitedBudget, BoundedBudget(20)}
=============================================================================
