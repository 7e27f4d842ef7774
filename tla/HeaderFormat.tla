---------------------------- MODULE HeaderFormat ----------------------------
(***************************************************************************)
(* The stored next header as a sequence of tokens, one per field (raw.rs). *)
(* A token is a number, so identifiers, counts and sizes can be mistaken   *)
(* for each other as in the file.  An optional value is a sequence of at   *)
(* most one element.                                                       *)
(*                                                                         *)
(* Encode is a reference writer, independent of the parser: what a header  *)
(* looks like in the file, in a terse and in a verbose form.               *)
(***************************************************************************)
EXTENDS Integers, SequencesExt, FiniteSetsExt

CONSTANTS
    U64Max,           \* the largest value, which a size field uses for "unknown"
    Coders            \* what a coder token stands for

None    == <<>>
Some(x) == <<x>>
Unknown == -1         \* a size of None
NoCrc   == -1         \* a CRC of None
Eof     == -1         \* what is read beyond the last token

ID_END == 0
ID_HEADER == 1
ID_ARCHIVE_PROPERTIES == 2
ID_ADDITIONAL_STREAMS_INFO == 3
ID_MAIN_STREAMS_INFO == 4
ID_FILES_INFO == 5
ID_PACK_INFO == 6
ID_UNPACK_INFO == 7
ID_SUBSTREAMS_INFO == 8
ID_SIZE == 9
ID_CRC == 10
ID_FOLDER == 11
ID_CODERS_UNPACK_SIZE == 12
ID_NUM_UNPACK_STREAM == 13
ID_EMPTY_STREAM == 14
ID_EMPTY_FILE == 15
ID_ANTI == 16
ID_NAME == 17
ID_CTIME == 18
ID_ATIME == 19
ID_MTIME == 20
ID_WIN_ATTRIBUTES == 21
ID_ENCODED_HEADER == 23
ID_START_POS == 24
ID_DUMMY == 25

\* Properties with one optional number per entry, in the order they are read.
ValueIds == <<ID_CTIME, ID_ATIME, ID_MTIME, ID_WIN_ATTRIBUTES, ID_START_POS>>

Total(s) ==
    LET sum[n \in 0..Len(s)] == IF n = 0 THEN 0 ELSE sum[n - 1] + s[n]
    IN  sum[Len(s)]

Map(Op(_), s) == [i \in DOMAIN s |-> Op(s[i])]

\* How many of the first n elements of a sequence of Booleans are TRUE.
CountTrue(bits, n) == Cardinality({i \in 1..n : bits[i]})

BitBytes(count) == (count + 7) \div 8

-----------------------------------------------------------------------------
(***************************************************************************)
(* A header, as an archiver means it: optional additional and main         *)
(* streams, or an encoded header's streams; optional entries.  Streams     *)
(* have a position, packed streams and folders with members; where is 0,   *)
(* or one more than the additional stream that holds the folders, names or *)
(* values.                                                                 *)
(***************************************************************************)
Stored(size) == IF size = Unknown THEN U64Max ELSE size

EncodeBits(bits) ==
    [b \in 1..BitBytes(Len(bits)) |->
        SumSet({IF 8 * (b - 1) + j <= Len(bits) /\ bits[8 * (b - 1) + j]
                THEN 2 ^ (8 - j) ELSE 0 : j \in 1..8})]

EncodeDefined(defined, verbose) ==
    IF verbose \/ \E i \in DOMAIN defined : ~defined[i]
    THEN <<0>> \o EncodeBits(defined) ELSE <<1>>

EncodeCrcs(crcs, verbose) ==
    LET defined == Map(LAMBDA c : c # NoCrc, crcs)
    IN  IF ~verbose /\ \A i \in DOMAIN crcs : crcs[i] = NoCrc THEN <<>>
        ELSE IF crcs = <<>> THEN <<ID_CRC>>
        ELSE <<ID_CRC>> \o EncodeDefined(defined, verbose)
                        \o SelectSeq(crcs, LAMBDA c : c # NoCrc)

EncodePack(s, verbose) ==
    <<ID_PACK_INFO, s.position, Len(s.packs), ID_SIZE>>
    \o Map(LAMBDA p : p.size, s.packs)
    \o EncodeCrcs(Map(LAMBDA p : p.crc, s.packs), verbose) \o <<ID_END>>

EncodeFolder(f) ==
    <<Len(f.coders)>> \o f.coders \o FlattenSeq(f.binds)
    \o IF Len(f.packed) > 1 THEN f.packed ELSE <<>>

EncodeUnpack(s, where, verbose) ==
    <<ID_UNPACK_INFO, ID_FOLDER, Len(s.folders)>>
    \o (IF where = 0 THEN <<0>> \o FlattenSeq(Map(EncodeFolder, s.folders))
        ELSE <<1, where - 1>>)
    \o <<ID_CODERS_UNPACK_SIZE>>
    \o FlattenSeq(Map(LAMBDA f : Map(Stored, f.sizes), s.folders))
    \o EncodeCrcs(Map(LAMBDA f : f.crc, s.folders), verbose) \o <<ID_END>>

EncodeSubstreams(s, verbose) ==
    LET counts == Map(LAMBDA f : Len(f.members), s.folders)
        sizes  == FlattenSeq(Map(LAMBDA f : IF f.members = <<>> THEN <<>>
                                            ELSE Map(LAMBDA m : Stored(m.size), Front(f.members)),
                                 s.folders))
        crcs   == FlattenSeq(Map(LAMBDA f : IF Len(f.members) = 1 /\ f.crc # NoCrc THEN <<>>
                                            ELSE Map(LAMBDA m : m.crc, f.members),
                                 s.folders))
        single == \A i \in DOMAIN counts : counts[i] = 1
        sized  == verbose \/ \E i \in DOMAIN sizes : sizes[i] # U64Max
    IN  <<ID_SUBSTREAMS_INFO>>
        \o (IF single /\ ~verbose THEN <<>> ELSE <<ID_NUM_UNPACK_STREAM>> \o counts)
        \o (IF sized THEN <<ID_SIZE>> \o sizes ELSE <<>>)
        \o EncodeCrcs(crcs, verbose) \o <<ID_END>>

EncodeStreams(s, where, verbose) ==
    LET substreams == EncodeSubstreams(s, verbose)
        default    == <<ID_SUBSTREAMS_INFO, ID_END>>
    IN  (IF s.folders = <<>> THEN <<>>
         ELSE EncodePack(s, verbose) \o EncodeUnpack(s, where, verbose)
              \o IF substreams = default THEN <<>> ELSE substreams)
        \o <<ID_END>>

EncodeProperty(id, data) == <<id, Len(data)>> \o data

EncodeName(name) == Append(name, 0)

\* The values of property id, and which entries have one.
ValuesOf(entries, id) == FlattenSeq(Map(LAMBDA e : e.values[id], entries))
HasValue(entries, id) == Map(LAMBDA e : e.values[id] # None, entries)

EncodeFiles(entries, where, verbose) ==
    LET streamless == SelectSeq(entries, LAMBDA e : ~e.has_stream)
        Bits(id, bits) == IF \E i \in DOMAIN bits : bits[i]
                          THEN EncodeProperty(id, EncodeBits(bits)) ELSE <<>>
        named  == \E i \in DOMAIN entries : entries[i].name # None
        names  == IF ~named THEN <<>>
                  ELSE EncodeProperty(ID_NAME,
                          IF where.names # 0 THEN <<1, where.names - 1>>
                          ELSE <<0>> \o FlattenSeq(Map(LAMBDA e : EncodeName(e.name[1]), entries)))
        Value(id) ==
            IF ValuesOf(entries, id) = <<>> THEN <<>>
            ELSE EncodeProperty(id,
                    EncodeDefined(HasValue(entries, id), verbose)
                    \o IF where.values # 0 THEN <<1, where.values - 1>>
                       ELSE <<0>> \o ValuesOf(entries, id))
    IN  <<ID_FILES_INFO, Len(entries)>>
        \o Bits(ID_EMPTY_STREAM, Map(LAMBDA e : ~e.has_stream, entries))
        \o Bits(ID_EMPTY_FILE, Map(LAMBDA e : e.empty_file, streamless))
        \o Bits(ID_ANTI, Map(LAMBDA e : e.anti_item, streamless))
        \o (IF verbose THEN EncodeProperty(ID_DUMMY, <<0, 0>>) ELSE <<>>)
        \o names \o FlattenSeq(Map(Value, ValueIds)) \o <<ID_END>>

Encode(h, verbose) ==
    IF h.encoded # None THEN <<ID_ENCODED_HEADER>> \o EncodeStreams(h.encoded[1], 0, verbose)
    ELSE <<ID_HEADER>>
         \o (IF h.properties = <<>> THEN <<>>
             ELSE <<ID_ARCHIVE_PROPERTIES>>
                  \o FlattenSeq(Map(LAMBDA p : EncodeProperty(p.id, p.data), h.properties))
                  \o <<ID_END>>)
         \o FlattenSeq(Map(LAMBDA s : <<ID_ADDITIONAL_STREAMS_INFO>> \o EncodeStreams(s, 0, verbose),
                           h.additional))
         \o FlattenSeq(Map(LAMBDA s : <<ID_MAIN_STREAMS_INFO>>
                                      \o EncodeStreams(s, h.where.folders, verbose), h.main))
         \o FlattenSeq(Map(LAMBDA e : EncodeFiles(e, h.where, verbose), h.files))
         \o <<ID_END>>

\* What additional stream n holds: the folders, the names or the values.
EncodeExternal(h, n) ==
    IF h.where.folders = n THEN FlattenSeq(Map(EncodeFolder, h.main[1].folders))
    ELSE IF h.where.names = n THEN FlattenSeq(Map(LAMBDA e : EncodeName(e.name[1]), h.files[1]))
    ELSE IF h.where.values = n THEN ValuesOf(h.files[1], ID_MTIME)
    ELSE <<>>
=============================================================================
