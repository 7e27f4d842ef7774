---------------------------- MODULE HeaderParsing ----------------------------
(***************************************************************************)
(* parse_next_header (raw.rs): from the tokens of a next header to raw     *)
(* records, one action per record.  Any record may be interrupted by the   *)
(* token or the budget: every field read passes a checkpoint.  A folder    *)
(* list may be external: the parser then returns what it has, and is run a *)
(* second time with the decoded stream that holds the folders.             *)
(***************************************************************************)
EXTENDS HeaderFormat

CONSTANTS
    Inputs,           \* tokens, the decoded additional streams, and the
                      \* header the tokens were written from, if any
    Limits            \* the counts the parser admits

\* What parse_coder and validate_coder_properties return.
Verdicts == {"Ok", "Format", "Unsupported", "LimitExceeded"}

ASSUME FormatAssumption ==
    /\ U64Max \in Nat \ {0}
    /\ \A c \in DOMAIN Coders :
           /\ Coders[c].inputs \in Nat \ {0} /\ Coders[c].outputs \in Nat \ {0}
           /\ Coders[c].dictionary \in Nat
           /\ Coders[c].parse \in Verdicts /\ Coders[c].properties \in Verdicts
    /\ \A l \in DOMAIN Limits : Limits[l] \in Nat
    /\ \A i \in Inputs : /\ i.tokens \in Seq(0..U64Max) /\ Len(i.tokens) <= Limits.header
                        /\ i.streams \in Seq(Seq(0..U64Max))

VARIABLES
    input,
    external,         \* external_folders: the stream's index and its tokens
    pc,
    cursor,           \* reader.position, from 1
    stage,            \* last record of the header body that was begun
    streams,          \* the StreamsInfo being read
    totals,           \* ParseState
    raw,              \* RawNextHeader
    result            \* "none" while running

parseVars == <<external, cursor, stage, streams, totals, raw>>

NoStreams == [pack |-> None, unpack |-> None, substreams |-> None]

NoTotals == [folders |-> 0, coders |-> 0, streams |-> 0, packed |-> 0,
             substreams |-> 0, properties |-> 0]

NoHeader == [kind |-> "none", properties |-> <<>>, additional |-> None, main |-> None,
             files |-> None, pending |-> None]

ParseInit ==
    /\ input \in Inputs
    /\ external = None
    /\ pc = "kind" /\ cursor = 1 /\ stage = "start"
    /\ streams = NoStreams /\ totals = NoTotals /\ raw = NoHeader
    /\ result = "none"

-----------------------------------------------------------------------------
\* The error of the first check that fails.
Verdict(checks) ==
    LET failing == {i \in DOMAIN checks : checks[i][1]}
    IN  IF failing = {} THEN "Ok" ELSE checks[Min(failing)][2]

ParseFails(error) ==
    pc' = "done" /\ result' = error /\ UNCHANGED <<input, parseVars>>

\* A record is read: interrupted, refused, or taken.
Record(verdict, Taken) ==
    \/ ParseFails("Interrupted")
    \/ verdict # "Ok" /\ ParseFails(verdict)
    \/ verdict = "Ok" /\ Taken /\ UNCHANGED <<input, result>>

At(s, i) == IF i \in DOMAIN s THEN s[i] ELSE Eof
Tok(i)   == At(input.tokens, i)

Fields(s, i, count) == IF count = Eof THEN <<>> ELSE [k \in 1..count |-> At(s, i + k - 1)]

\* parse_bits: from the most significant bit of each byte on.
Bits(s, i, count) ==
    [k \in 1..count |-> (At(s, i + (k - 1) \div 8) \div 2 ^ (7 - ((k - 1) % 8))) % 2 = 1]

\* parse_optional_bits: a flag, then bits if it is zero; and where they end.
OptionalBits(s, i, count) ==
    IF At(s, i) = 0 THEN [bits |-> Bits(s, i + 1, count), next |-> i + 1 + BitBytes(count)]
    ELSE [bits |-> [k \in 1..count |-> TRUE], next |-> i + 1]

\* One field for each TRUE of bits, read from i on.
DefinedFields(s, i, bits) ==
    [k \in DOMAIN bits |-> IF bits[k] THEN At(s, i + CountTrue(bits, k) - 1) ELSE Eof]

\* parse_digests
Digests(i, count) ==
    LET optional == OptionalBits(input.tokens, i, count)
        next     == optional.next + CountTrue(optional.bits, count)
    IN  IF count = 0 THEN [crcs |-> <<>>, next |-> i]
        ELSE [crcs |-> DefinedFields(input.tokens, optional.next, optional.bits), next |-> next]

\* An optional CRC record at i, and where the reader is after it.
OptionalDigests(i, count) ==
    LET digests == Digests(i + 1, count)
    IN  IF Tok(i) = ID_CRC THEN [crcs |-> Some(digests.crcs), next |-> digests.next]
        ELSE [crcs |-> None, next |-> i]

\* Every record is closed by End.
EndsAt(i) == IF Tok(i) = ID_END THEN "Ok" ELSE "Format"

-----------------------------------------------------------------------------
ReadKind ==
    LET kind    == Tok(1)
        verdict == Verdict(<< <<Limits.depth < 1, "LimitExceeded">>,
                              <<kind \notin {ID_HEADER, ID_ENCODED_HEADER}, "Format">> >>)
    IN  /\ pc = "kind"
        /\ Record(verdict,
                  /\ cursor' = 2 /\ stage' = "start"
                  /\ streams' = NoStreams /\ totals' = NoTotals
                  /\ raw' = [NoHeader EXCEPT !.kind = IF kind = ID_HEADER THEN "plain" ELSE "encoded"]
                  /\ pc' = IF kind = ID_HEADER THEN "body" ELSE "streams"
                  /\ UNCHANGED external)

(***************************************************************************)
(* parse_header_body: optional records in a fixed order, then End.         *)
(***************************************************************************)
Stages == <<"start", "properties", "additional", "main", "files">>

StageIndex(s) == CHOOSE i \in DOMAIN Stages : Stages[i] = s

StageOf(id) ==
    CASE id = ID_ARCHIVE_PROPERTIES      -> "properties"
      [] id = ID_ADDITIONAL_STREAMS_INFO -> "additional"
      [] id = ID_MAIN_STREAMS_INFO       -> "main"
      [] id = ID_FILES_INFO              -> "files"
      [] OTHER                           -> "start"

BodyRecord ==
    LET id      == Tok(cursor)
        next    == StageOf(id)
        count   == Tok(cursor + 1)
        verdict == Verdict(<< <<StageIndex(next) <= StageIndex(stage), "Format">>,
                              <<next = "files" /\ count = Eof, "Format">>,
                              <<next = "files" /\ count > Limits.files, "LimitExceeded">> >>)
    IN  /\ pc = "body" /\ Tok(cursor) # ID_END
        /\ Record(verdict,
                  /\ stage' = next
                  /\ cursor' = IF next = "files" THEN cursor + 2 ELSE cursor + 1
                  /\ pc' = IF next \in {"additional", "main"} THEN "streams" ELSE "property"
                  /\ raw' = IF next = "files"
                            THEN [raw EXCEPT !.files = Some([count |-> count, properties |-> <<>>])]
                            ELSE raw
                  /\ streams' = NoStreams
                  /\ UNCHANGED <<external, totals>>)

\* reader.finish: the body must be consumed exactly.
Finished == Tok(cursor) = ID_END /\ cursor = Len(input.tokens)

BodyEnd ==
    /\ pc = "body" /\ Tok(cursor) = ID_END
    /\ Record(IF Finished THEN "Ok" ELSE "Format",
              pc' = "validate" /\ UNCHANGED parseVars)

\* read_bytes: the whole property is in the header.
PropertyFits(length) == cursor + 1 + length <= Len(input.tokens)

\* parse_property_list: one property of the archive or of the files.
ParseProperty ==
    LET id      == Tok(cursor)
        length  == Tok(cursor + 1)
        verdict == Verdict(<< <<id = Eof, "Format">>,
                              <<totals.properties = Limits.properties, "LimitExceeded">>,
                              <<length = Eof, "Format">>,
                              <<length > Limits.header, "LimitExceeded">>,
                              <<~PropertyFits(length), "Format">> >>)
        property == [id |-> id, data |-> Fields(input.tokens, cursor + 2, length)]
    IN  /\ pc = "property" /\ id # ID_END
        /\ Record(verdict,
                  /\ cursor' = cursor + 2 + length
                  /\ totals' = [totals EXCEPT !.properties = @ + 1]
                  /\ raw' = IF stage = "files"
                            THEN [raw EXCEPT !.files[1].properties = Append(@, property)]
                            ELSE [raw EXCEPT !.properties = Append(@, property)]
                  /\ UNCHANGED <<external, pc, stage, streams>>)

PropertiesEnd ==
    /\ pc = "property" /\ Tok(cursor) = ID_END
    /\ Record("Ok", /\ pc' = "body" /\ cursor' = cursor + 1
                    /\ UNCHANGED <<external, stage, streams, totals, raw>>)

-----------------------------------------------------------------------------
(***************************************************************************)
(* parse_streams_info: PackInfo, UnpackInfo and SubStreamsInfo in this     *)
(* order, each optional.                                                   *)
(***************************************************************************)
PackInfoNext      == Tok(cursor) = ID_PACK_INFO /\ streams = NoStreams
UnpackInfoNext    == Tok(cursor) = ID_UNPACK_INFO /\ streams.unpack = None /\ streams.substreams = None
SubstreamsNext    == Tok(cursor) = ID_SUBSTREAMS_INFO /\ streams.substreams = None

ParsePackInfo ==
    LET position == Tok(cursor + 1)
        count    == Tok(cursor + 2)
        sized    == Tok(cursor + 3) = ID_SIZE
        after    == IF sized THEN cursor + 4 + count ELSE cursor + 3
        digests  == OptionalDigests(after, count)
        verdict  == IF count \in {Eof, 0} THEN "Format"
                    ELSE IF totals.packed + count > Limits.streams THEN "LimitExceeded"
                    ELSE EndsAt(digests.next)
        sizes    == IF sized THEN Some(Fields(input.tokens, cursor + 4, count)) ELSE None
    IN  /\ pc = "streams" /\ PackInfoNext
        /\ Record(verdict,
                  /\ cursor' = digests.next + 1
                  /\ totals' = [totals EXCEPT !.packed = @ + count]
                  /\ streams' = [streams EXCEPT !.pack = Some(
                         [position |-> position, sizes |-> sizes, crcs |-> digests.crcs])]
                  /\ UNCHANGED <<external, pc, stage, raw>>)

(***************************************************************************)
(* parse_folder, from the folders read so far: as many bind pairs as       *)
(* outputs but one, and the packed inputs listed if there is more than     *)
(* one.  A coder is one token (parse_coder reads its flags and fields).    *)
(***************************************************************************)
CoderOf(token) ==
    IF token \in DOMAIN Coders THEN Coders[token]
    ELSE [inputs |-> 1, outputs |-> 1, dictionary |-> 0, parse |-> "Format", properties |-> "Ok"]

ParseFolder(s, read) ==
    LET count   == At(s, read.next)
        coders  == Fields(s, read.next + 1, count)
        refused == {k \in DOMAIN coders : CoderOf(coders[k]).parse # "Ok"}
        inputs  == Total(Map(LAMBDA c : CoderOf(c).inputs, coders))
        outputs == Total(Map(LAMBDA c : CoderOf(c).outputs, coders))
        binds   == read.next + 1 + count
        packed  == inputs - (outputs - 1)
        listed  == binds + 2 * (outputs - 1)
        next    == IF packed > 1 THEN listed + packed ELSE listed
        counted == Verdict(<< <<count \in {Eof, 0}, "Format">>,
                              <<count > Limits.coders_per_folder, "LimitExceeded">>,
                              <<read.coders + count > Limits.coders, "LimitExceeded">> >>)
        verdict == IF counted # "Ok" THEN counted
                   ELSE IF refused # {} THEN CoderOf(coders[Min(refused)]).parse
                   ELSE Verdict(<< <<inputs + outputs > Limits.streams_per_folder, "LimitExceeded">>,
                                   <<read.streams + inputs + outputs > Limits.streams,
                                     "LimitExceeded">>,
                                   <<inputs < outputs, "Format">>,
                                   <<next > Len(s) + 1, "Format">> >>)
        folder  == [coders |-> coders,
                    binds  |-> [k \in 1..(outputs - 1) |-> Fields(s, binds + 2 * (k - 1), 2)],
                    packed |-> IF packed > 1 THEN Fields(s, listed, packed) ELSE <<>>,
                    packed_streams |-> packed, outputs |-> outputs, sizes |-> <<>>]
    IN  IF read.verdict # "Ok" THEN read
        ELSE IF verdict # "Ok" THEN [read EXCEPT !.verdict = verdict]
        ELSE [folders |-> Append(read.folders, folder), next |-> next, verdict |-> "Ok",
              coders |-> read.coders + count, streams |-> read.streams + inputs + outputs]

\* parse_folders
ParseFolders(s, from, count) ==
    LET read[k \in 0..count] ==
            IF k = 0 THEN [folders |-> <<>>, next |-> from, verdict |-> "Ok",
                           coders |-> totals.coders, streams |-> totals.streams]
            ELSE ParseFolder(s, read[k - 1])
    IN  read[count]

\* Where folder k's sizes begin, the first folder's at i.
SizesAt(folders, i, k) == i + Total(Map(LAMBDA f : f.outputs, SubSeq(folders, 1, k - 1)))

UnpackCount == Tok(cursor + 2)

\* parse_unpack_info up to the folders.
UnpackVerdict ==
    Verdict(<< <<Tok(cursor + 1) # ID_FOLDER \/ UnpackCount \in {Eof, 0}, "Format">>,
               <<totals.folders + UnpackCount > Limits.folders, "LimitExceeded">>,
               <<Tok(cursor + 3) = Eof, "Format">> >>)

FoldersAreExternal == UnpackVerdict = "Ok" /\ Tok(cursor + 3) # 0

(***************************************************************************)
(* The folders are in an additional stream that is not decoded yet: only   *)
(* the main streams of a header with additional ones may say so, and then  *)
(* the rest of the header is left for the second pass.                     *)
(***************************************************************************)
DeferFolders ==
    LET index   == Tok(cursor + 4)
        verdict == IF index = Eof \/ stage # "main" \/ raw.additional = None
                   THEN "Format" ELSE "Ok"
    IN  /\ pc = "streams" /\ UnpackInfoNext
        /\ FoldersAreExternal /\ (stage # "main" \/ external = None)
        /\ Record(verdict,
                  /\ raw' = [raw EXCEPT !.kind = "pending",
                                        !.pending = Some([pack |-> streams.pack, index |-> index])]
                  /\ pc' = "validate"
                  /\ UNCHANGED <<external, cursor, stage, streams, totals>>)

\* The folders, inline or from the decoded stream, which must be the one named
\* and consumed exactly.
ParseUnpackInfo ==
    LET outside == FoldersAreExternal
        source  == external[1].data
        parsed  == IF UnpackVerdict # "Ok" THEN [verdict |-> UnpackVerdict]
                   ELSE IF ~outside THEN ParseFolders(input.tokens, cursor + 4, UnpackCount)
                   ELSE IF Tok(cursor + 4) # external[1].index THEN [verdict |-> "Format"]
                   ELSE ParseFolders(source, 1, UnpackCount)
        verdict == IF parsed.verdict = "Ok" /\ outside /\ parsed.next # Len(source) + 1
                   THEN "Format" ELSE parsed.verdict
    IN  /\ pc = "streams" /\ UnpackInfoNext
        /\ ~(FoldersAreExternal /\ (stage # "main" \/ external = None))
        /\ Record(verdict,
                  /\ cursor' = IF outside THEN cursor + 5 ELSE parsed.next
                  /\ pc' = "sizes"
                  /\ totals' = [totals EXCEPT !.folders = @ + UnpackCount,
                                              !.coders = parsed.coders, !.streams = parsed.streams]
                  /\ streams' = [streams EXCEPT !.unpack = Some(
                         [folders |-> parsed.folders, crcs |-> None])]
                  /\ UNCHANGED <<external, stage, raw>>)

\* The rest of parse_unpack_info: the sizes of all outputs and the CRCs.
ParseUnpackSizes ==
    LET folders == streams.unpack[1].folders
        digests == OptionalDigests(SizesAt(folders, cursor + 1, Len(folders) + 1), Len(folders))
        verdict == IF Tok(cursor) # ID_CODERS_UNPACK_SIZE THEN "Format" ELSE EndsAt(digests.next)
        Sized(k) == [folders[k] EXCEPT !.sizes =
                        Fields(input.tokens, SizesAt(folders, cursor + 1, k), folders[k].outputs)]
    IN  /\ pc = "sizes"
        /\ Record(verdict,
                  /\ cursor' = digests.next + 1 /\ pc' = "streams"
                  /\ streams' = [streams EXCEPT !.unpack = Some(
                         [folders |-> [k \in DOMAIN folders |-> Sized(k)], crcs |-> digests.crcs])]
                  /\ UNCHANGED <<external, stage, totals, raw>>)

(***************************************************************************)
(* parse_substreams_info: a count per folder, the sizes of all members but *)
(* each folder's last, and CRCs for the members that do not inherit their  *)
(* folder's.                                                               *)
(***************************************************************************)
FolderCrc(crcs, k) == IF crcs = None THEN NoCrc ELSE crcs[1][k]

Inherits(count, crc) == count = 1 /\ crc # NoCrc

DigestCountMutant(counts, crcs) == Total(counts)   \* inheritance forgotten

DigestCount(counts, crcs) ==
    Total([k \in DOMAIN counts |-> IF Inherits(counts[k], FolderCrc(crcs, k)) THEN 0 ELSE counts[k]])

ParseSubstreamsInfo ==
    LET unpack   == streams.unpack[1]
        n        == Len(unpack.folders)
        counted  == Tok(cursor + 1) = ID_NUM_UNPACK_STREAM
        counts   == IF counted THEN Fields(input.tokens, cursor + 2, n) ELSE [k \in 1..n |-> 1]
        a        == IF counted THEN cursor + 2 + n ELSE cursor + 1
        sized    == Tok(a) = ID_SIZE
        explicit == Total(Map(LAMBDA c : IF c > 0 THEN c - 1 ELSE 0, counts))
        b        == IF sized THEN a + 1 + explicit ELSE a
        digests  == OptionalDigests(b, DigestCount(counts, unpack.crcs))
        verdict  == IF Contains(counts, Eof) \/ Total(counts) > U64Max THEN "Format"
                    ELSE IF totals.substreams + Total(counts) > Limits.substreams
                    THEN "LimitExceeded"
                    ELSE EndsAt(digests.next)
    IN  /\ pc = "streams" /\ SubstreamsNext
        /\ IF streams.unpack = None THEN Record("Format", FALSE)
           ELSE Record(verdict,
                  /\ cursor' = digests.next + 1
                  /\ totals' = [totals EXCEPT !.substreams = @ + Total(counts)]
                  /\ streams' = [streams EXCEPT !.substreams = Some(
                         [counts |-> counts, crcs |-> digests.crcs,
                          sizes |-> IF sized THEN Some(Fields(input.tokens, a + 1, explicit))
                                    ELSE None])]
                  /\ UNCHANGED <<external, pc, stage, raw>>)

\* End of the streams.  Without a SubStreamsInfo each folder counts for one.
DefaultSubstreams ==
    IF streams.unpack = None \/ streams.substreams # None THEN 0
    ELSE Len(streams.unpack[1].folders)

StreamsEnd ==
    LET encoded == raw.kind = "encoded"
        verdict == Verdict(<< <<totals.substreams + DefaultSubstreams > Limits.substreams,
                                "LimitExceeded">>,
                              <<Tok(cursor) # ID_END \/ (encoded /\ ~Finished), "Format">> >>)
    IN  /\ pc = "streams" /\ ~PackInfoNext /\ ~UnpackInfoNext /\ ~SubstreamsNext
        /\ Record(verdict,
                  /\ cursor' = cursor + 1
                  /\ totals' = [totals EXCEPT !.substreams = @ + DefaultSubstreams]
                  /\ raw' = IF stage = "additional" THEN [raw EXCEPT !.additional = Some(streams)]
                            ELSE [raw EXCEPT !.main = Some(streams)]
                  /\ pc' = IF encoded THEN "validate" ELSE "body"
                  /\ UNCHANGED <<external, stage, streams>>)

ParseStep == \/ ReadKind \/ BodyRecord \/ BodyEnd \/ ParseProperty \/ PropertiesEnd
             \/ ParsePackInfo \/ DeferFolders \/ ParseUnpackInfo \/ ParseUnpackSizes
             \/ ParseSubstreamsInfo \/ StreamsEnd
=============================================================================
