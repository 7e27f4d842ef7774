-------------------------- MODULE HeaderValidation --------------------------
(***************************************************************************)
(* validate_next_header (validate.rs): from raw records to the archive     *)
(* model, then resolution of what is stored in additional streams          *)
(* (metadata.rs): folders, which restart the parser, and properties of the *)
(* entries.  The coder graph's verdict is FolderGraph's business and a     *)
(* parameter here, what additional streams decode to part of the input.    *)
(***************************************************************************)
EXTENDS HeaderParsing

CONSTANTS
    SignatureOffset, FixedHeaderSize,
    NextHeaderOffset, \* envelope.next_header_offset(), at most the length
    GraphRoot(_)      \* output left unbound by an acceptable folder, else 0

ASSUME EnvelopeAssumption ==
    SignatureOffset \in Nat /\ FixedHeaderSize \in Nat /\ NextHeaderOffset \in Nat

VARIABLES
    section,          \* sections of the header validated
    ranges,           \* of packed sections: <<start, end>>
    packs,            \* packed streams of the current section
    drafts,           \* FolderDrafts of the current section
    size_cursor, crc_cursor,
    built,            \* folders of the section that have their members
    model,            \* ArchiveHeader
    applied           \* external properties applied

validateVars == <<section, ranges, packs, drafts, size_cursor, crc_cursor, built, model, applied>>

vars == <<input, pc, result, parseVars, validateVars>>

NoModel == [kind |-> "none", properties |-> <<>>, additional |-> None, main |-> None,
            files |-> None, external |-> <<>>, unknown |-> <<>>]

ValidateInit ==
    /\ section = 0 /\ ranges = <<>> /\ packs = <<>> /\ drafts = <<>>
    /\ size_cursor = 0 /\ crc_cursor = 0 /\ built = <<>>
    /\ model = NoModel /\ applied = 0

Init == ParseInit /\ ValidateInit

Fails(error) ==
    pc' = "done" /\ result' = error /\ UNCHANGED <<input, parseVars, validateVars>>

\* One stretch of the validation: interrupted, refused, or done.
Validates(verdict, Done) ==
    \/ Fails("Interrupted")
    \/ verdict # "Ok" /\ Fails(verdict)
    \/ verdict = "Ok" /\ Done /\ UNCHANGED <<input, result, parseVars>>

\* A check that can only fail if the parser and the validator disagree.
Internal == "Inconsistent"

-----------------------------------------------------------------------------
(***************************************************************************)
(* validate_streams, for additional and then for main (or encoded header)  *)
(* streams.                                                                *)
(***************************************************************************)
Sections == (IF raw.additional # None THEN <<"additional">> ELSE <<>>)
            \o (IF raw.main # None THEN <<"main">> ELSE <<>>)

Section == Sections[section + 1]
Raw     == IF Section = "additional" THEN raw.additional[1] ELSE raw.main[1]

DataStart == SignatureOffset + FixedHeaderSize

\* validate_pack_ranges
PackOffset(pack, k) == DataStart + pack.position + Total(SubSeq(pack.sizes[1], 1, k - 1))

PackVerdict(pack) ==
    LET sizes   == pack.sizes[1]
        refused == {k \in DOMAIN sizes : \/ sizes[k] = U64Max
                                         \/ PackOffset(pack, k) + sizes[k] > NextHeaderOffset}
    IN  IF pack.sizes = None THEN "Format"
        ELSE IF DataStart + pack.position > U64Max THEN "Format"
        ELSE IF refused = {} THEN "Ok"
        ELSE IF sizes[Min(refused)] = U64Max THEN "Unsupported" ELSE "Format"

PackStreams(pack) ==
    [k \in DOMAIN pack.sizes[1] |->
        [offset |-> PackOffset(pack, k), size |-> pack.sizes[1][k],
         crc |-> FolderCrc(pack.crcs, k)]]

PackRange(pack) ==
    LET end == PackOffset(pack, Len(pack.sizes[1]) + 1)
    IN  IF end > PackOffset(pack, 1) THEN <<<<PackOffset(pack, 1), end>>>> ELSE <<>>

EmptyStreams == [position |-> 0, packs |-> <<>>, folders |-> <<>>]

WithSection(streamsInfo) ==
    IF Section = "additional" THEN [model EXCEPT !.additional = Some(streamsInfo)]
    ELSE [model EXCEPT !.main = Some(streamsInfo)]

ValidatePack ==
    LET pack    == Raw.pack[1]
        verdict == IF (Raw.pack = None) # (Raw.unpack = None) THEN "Format"
                   ELSE IF Raw.pack = None THEN "Ok" ELSE PackVerdict(pack)
    IN  /\ pc = "validate" /\ section < Len(Sections)
        /\ Validates(verdict,
              /\ IF Raw.pack = None
                 THEN /\ model' = WithSection(EmptyStreams) /\ section' = section + 1
                      /\ UNCHANGED <<pc, ranges, packs>>
                 ELSE /\ pc' = "folders"
                      /\ packs' = PackStreams(pack) /\ ranges' = ranges \o PackRange(pack)
                      /\ UNCHANGED <<section, model>>
              /\ UNCHANGED <<drafts, size_cursor, crc_cursor, built, applied>>)

(***************************************************************************)
(* validate_folder: the coders' properties and dictionaries, then the      *)
(* graph.  The folders take the packed streams one after another, and all. *)
(***************************************************************************)
Optional(size) == IF size = U64Max THEN Unknown ELSE size

FolderVerdict(f) ==
    LET dictionaries == Map(LAMBDA c : CoderOf(c).dictionary, f.coders)
        refused == {k \in DOMAIN f.coders :
                      \/ CoderOf(f.coders[k]).properties # "Ok"
                      \/ Total(SubSeq(dictionaries, 1, k)) > Limits.dictionary}
    IN  IF refused # {}
        THEN IF CoderOf(f.coders[Min(refused)]).properties # "Ok"
             THEN CoderOf(f.coders[Min(refused)]).properties ELSE "LimitExceeded"
        ELSE IF GraphRoot(f) \notin DOMAIN f.sizes THEN "Format" ELSE "Ok"

FirstPackMutant(folders, k) == k - 1   \* one packed stream per folder

FirstPack(folders, k) == Total(Map(LAMBDA f : f.packed_streams, SubSeq(folders, 1, k - 1)))

Drafts(unpack) ==
    [k \in DOMAIN unpack.folders |->
        LET f == unpack.folders[k]
        IN  [coders |-> f.coders, binds |-> f.binds, packed |-> f.packed,
             sizes |-> Map(Optional, f.sizes), root |-> Optional(f.sizes[GraphRoot(f)]),
             crc |-> FolderCrc(unpack.crcs, k), first_pack |-> FirstPack(unpack.folders, k),
             packed_streams |-> f.packed_streams, members |-> <<>>]]

ValidateFolders ==
    LET unpack  == Raw.unpack[1]
        folders == unpack.folders
        refused == {k \in DOMAIN folders : FolderVerdict(folders[k]) # "Ok"}
        verdict == IF refused # {} THEN FolderVerdict(folders[Min(refused)])
                   ELSE IF FirstPack(folders, Len(folders) + 1) # Len(packs) THEN "Format"
                   ELSE "Ok"
    IN  /\ pc = "folders"
        /\ Validates(verdict,
              /\ drafts' = Drafts(unpack) /\ pc' = "substreams"
              /\ built' = <<>> /\ size_cursor' = 0 /\ crc_cursor' = 0
              /\ UNCHANGED <<section, ranges, packs, model, applied>>)

(***************************************************************************)
(* build_substreams: the members of one folder, from where the folders     *)
(* before it left the vectors of sizes and CRCs.                           *)
(***************************************************************************)
Counts == IF Raw.substreams = None THEN [k \in DOMAIN drafts |-> 1]
          ELSE Raw.substreams[1].counts

ExplicitSizes == IF Raw.substreams = None THEN None ELSE Raw.substreams[1].sizes
ExplicitCrcs  == IF Raw.substreams = None THEN None ELSE Raw.substreams[1].crcs

\* The sizes of a folder's members but the last, and the last one's.
LeadingSizes(count) ==
    IF count = 0 THEN <<>>
    ELSE IF ExplicitSizes = None THEN [k \in 1..(count - 1) |-> Unknown]
    ELSE [k \in 1..(count - 1) |-> Optional(At(ExplicitSizes[1], size_cursor + k))]

\* The last size is what the others leave of the folder's.
Derived(draft, leading) ==
    draft.root # Unknown /\ ExplicitSizes # None /\ ~Contains(leading, Unknown)

FinalSize(draft, leading) ==
    IF Derived(draft, leading) THEN draft.root - Total(leading) ELSE Unknown

MemberCrc(draft, count, k) ==
    IF Inherits(count, draft.crc) THEN draft.crc
    ELSE IF ExplicitCrcs = None THEN NoCrc
    ELSE ExplicitCrcs[1][crc_cursor + k]

SizesTaken(count) == IF count > 1 /\ ExplicitSizes # None THEN count - 1 ELSE 0

CrcsTaken(draft, count) ==
    IF Inherits(count, draft.crc) \/ ExplicitCrcs = None THEN 0 ELSE count

BuildSubstreams ==
    LET k       == Len(built) + 1
        draft   == drafts[k]
        count   == Counts[k]
        leading == LeadingSizes(count)
        known   == Total(SelectSeq(leading, LAMBDA s : s # Unknown))
        sizes   == IF count = 0 THEN <<>>
                   ELSE IF count = 1 THEN <<draft.root>>
                   ELSE Append(leading, FinalSize(draft, leading))
        verdict ==
            Verdict(<< <<Total(SubSeq(Counts, 1, k)) > Limits.substreams, "LimitExceeded">>,
                       <<size_cursor + SizesTaken(count) > Len(FlattenSeq(ExplicitSizes)), Internal>>,
                       <<known > U64Max, "Format">>,
                       <<count > 1 /\ Derived(draft, leading) /\ known > draft.root, "Format">>,
                       <<crc_cursor + CrcsTaken(draft, count) > Len(FlattenSeq(ExplicitCrcs)),
                         Internal>> >>)
        members == [m \in 1..count |-> [size |-> sizes[m], crc |-> MemberCrc(draft, count, m)]]
    IN  /\ pc = "substreams" /\ Len(built) < Len(drafts)
        /\ Validates(verdict,
              /\ built' = Append(built, [draft EXCEPT !.members = members])
              /\ size_cursor' = size_cursor + SizesTaken(count)
              /\ crc_cursor' = crc_cursor + CrcsTaken(draft, count)
              /\ UNCHANGED <<pc, section, ranges, packs, drafts, model, applied>>)

StreamsValidated ==
    LET verdict == IF \/ ExplicitSizes # None /\ size_cursor # Len(ExplicitSizes[1])
                      \/ ExplicitCrcs # None /\ crc_cursor # Len(ExplicitCrcs[1])
                   THEN Internal ELSE "Ok"
    IN  /\ pc = "substreams" /\ Len(built) = Len(drafts)
        /\ Validates(verdict,
              /\ model' = WithSection([position |-> Raw.pack[1].position, packs |-> packs,
                                       folders |-> built])
              /\ section' = section + 1 /\ pc' = "validate"
              /\ UNCHANGED <<ranges, packs, drafts, size_cursor, crc_cursor, built, applied>>)

-----------------------------------------------------------------------------
\* check_non_overlapping_ranges: sorted by start, each begins after the last.
OverlapMutant(all) == FALSE   \* sections are not compared

Overlap(all) == \E i, j \in DOMAIN all : i # j /\ all[i][1] <= all[j][1] /\ all[j][1] < all[i][2]

AdditionalCount == IF model.additional = None THEN 0 ELSE Len(model.additional[1].folders)

(***************************************************************************)
(* The header whose folders are external: its packed streams and the index *)
(* are checked, then the parser runs again with the decoded stream.        *)
(***************************************************************************)
ValidatePending ==
    LET pending == raw.pending[1]
        verdict == IF pending.pack = None THEN "Format"
                   ELSE IF PackVerdict(pending.pack[1]) # "Ok" THEN PackVerdict(pending.pack[1])
                   ELSE IF \/ Overlap(ranges \o PackRange(pending.pack[1]))
                           \/ pending.index >= AdditionalCount
                           \/ pending.index >= Len(input.streams)
                   THEN "Format" ELSE "Ok"
    IN  /\ pc = "validate" /\ section = Len(Sections) /\ raw.kind = "pending"
        /\ Validates(verdict, pc' = "resolve" /\ UNCHANGED validateVars)

ResolveFoldersMutant ==   \* the second pass is not given the folders
    /\ pc = "resolve"
    /\ pc' = "kind" /\ UNCHANGED external
    /\ section' = 0 /\ ranges' = <<>> /\ model' = NoModel
    /\ UNCHANGED <<input, result, cursor, stage, streams, totals, raw, packs, drafts,
                   size_cursor, crc_cursor, built, applied>>

ResolveFolders ==
    LET index == raw.pending[1].index
    IN  /\ pc = "resolve"
        /\ external' = Some([index |-> index, data |-> input.streams[index + 1]])
        /\ pc' = "kind"
        /\ section' = 0 /\ ranges' = <<>> /\ model' = NoModel
        /\ UNCHANGED <<input, result, cursor, stage, streams, totals, raw, packs, drafts,
                       size_cursor, crc_cursor, built, applied>>

CheckRanges ==
    /\ pc = "validate" /\ section = Len(Sections) /\ raw.kind # "pending"
    /\ Validates(IF Overlap(ranges) THEN "Format" ELSE "Ok",
          /\ pc' = IF raw.files = None THEN "finish" ELSE "files"
          /\ model' = [model EXCEPT !.kind = raw.kind, !.properties = raw.properties]
          /\ UNCHANGED <<section, ranges, packs, drafts, size_cursor, crc_cursor, built, applied>>)

-----------------------------------------------------------------------------
(***************************************************************************)
(* validate_files.  A property occurs at most once and is consumed         *)
(* exactly; EmptyFile and Anti have a bit per entry without a stream.      *)
(***************************************************************************)
Files       == raw.files[1]
PropertiesWith(id) == SelectSeq(Files.properties, LAMBDA p : p.id = id)
Data(id)    == PropertiesWith(id)[1].data
Has(id)     == PropertiesWith(id) # <<>>

KnownIds == {ID_EMPTY_STREAM, ID_EMPTY_FILE, ID_ANTI, ID_NAME} \cup Range(ValueIds)

PropertiesValid ==
    /\ \A id \in KnownIds : Len(PropertiesWith(id)) <= 1
    /\ \A i \in DOMAIN PropertiesWith(ID_DUMMY) : Range(PropertiesWith(ID_DUMMY)[i].data) \subseteq {0}

\* parse_plain_bits
PlainBits(id, count) == IF Has(id) THEN Bits(Data(id), 1, count) ELSE [k \in 1..count |-> FALSE]
PlainExact(id, count) == Has(id) => Len(Data(id)) = BitBytes(count)

EmptyStreamBits == PlainBits(ID_EMPTY_STREAM, Files.count)
EmptyCount    == CountTrue(EmptyStreamBits, Files.count)

BitsValid == /\ PlainExact(ID_EMPTY_STREAM, Files.count)
             /\ PlainExact(ID_EMPTY_FILE, EmptyCount)
             /\ PlainExact(ID_ANTI, EmptyCount)

(***************************************************************************)
(* parse_names: zero-terminated, one per entry, two bytes per unit.  The   *)
(* limits are met while scanning, also by a name that is cut off.          *)
(***************************************************************************)
Terminators(data, from) == SetToSortSeq({i \in from..Len(data) : data[i] = 0}, <)

NameAt(data, from, k) ==
    LET ends  == Terminators(data, from)
        begin == IF k = 1 THEN from ELSE ends[k - 1] + 1
    IN  SubSeq(data, begin, IF k <= Len(ends) THEN ends[k] - 1 ELSE Len(data))

\* The names scanned of count wanted, the last perhaps without its end.
NamesIn(data, from, count) ==
    LET ends == Len(Terminators(data, from))
    IN  [k \in 1..(IF count <= ends THEN count ELSE ends + 1) |-> NameAt(data, from, k)]

NameVerdict(data, from, count) ==
    LET names == NamesIn(data, from, count)
        bytes == Map(LAMBDA n : 2 * Len(n), names)
        ends  == Terminators(data, from)
        whole == Len(ends) >= count
        after == IF count = 0 THEN from ELSE ends[count] + 1
    IN  Verdict(<< <<\E k \in DOMAIN bytes : bytes[k] > Limits.name_bytes, "LimitExceeded">>,
                   <<Total(SubSeq(bytes, 1, IF whole THEN count ELSE Len(ends)))
                         > Limits.total_name_bytes, "LimitExceeded">>,
                   <<~whole, "Format">>,
                   <<whole /\ after # Len(data) + 1, "Format">> >>)

\* A property whose values are in an additional stream: a flag, an index.
ExternalAt(data, i) == At(data, i) # 0

\* parse_defined_values
Defined(id)     == OptionalBits(Data(id), 1, Files.count)
ValueFlag(id)   == Defined(id).next
ValuesOutside(id) == ExternalAt(Data(id), ValueFlag(id))
ValuesExact(id) ==
    Len(Data(id)) = ValueFlag(id) + IF ValuesOutside(id) THEN 1
                                    ELSE CountTrue(Defined(id).bits, Files.count)
InlineValues(id) == DefinedFields(Data(id), ValueFlag(id) + 1, Defined(id).bits)

NamesOutside == Has(ID_NAME) /\ ExternalAt(Data(ID_NAME), 1)

\* validate_data_index for each external property, in the order they are read.
External ==
    (IF NamesOutside
     THEN <<[id |-> ID_NAME, index |-> At(Data(ID_NAME), 2), defined |-> [k \in 1..Files.count |-> TRUE]]>>
     ELSE <<>>)
    \o FlattenSeq(Map(LAMBDA id : IF Has(id) /\ ValuesOutside(id)
                                  THEN <<[id |-> id, index |-> At(Data(id), ValueFlag(id) + 1),
                                          defined |-> Defined(id).bits]>>
                                  ELSE <<>>, ValueIds))

\* collect_stream_mappings: every member of every folder, in order.
Mappings ==
    IF model.main = None THEN <<>>
    ELSE FlattenSeq([f \in DOMAIN model.main[1].folders |->
            LET members == model.main[1].folders[f].members
            IN  [m \in DOMAIN members |-> [folder |-> f, substream |-> m, size |-> members[m].size,
                                           crc |-> members[m].crc]]])

EntryAt(k) ==
    LET streamless == EmptyStreamBits[k]
        empty      == CountTrue(EmptyStreamBits, k)
        name       == IF Has(ID_NAME) /\ ~NamesOutside
                      THEN Some(NameAt(Data(ID_NAME), 2, k)) ELSE None
        Value(id)  == IF Has(id) /\ ~ValuesOutside(id) /\ Defined(id).bits[k]
                      THEN Some(InlineValues(id)[k]) ELSE None
    IN  [has_stream |-> ~streamless,
         empty_file |-> streamless /\ PlainBits(ID_EMPTY_FILE, EmptyCount)[empty],
         anti_item  |-> streamless /\ PlainBits(ID_ANTI, EmptyCount)[empty],
         name |-> name, values |-> [id \in Range(ValueIds) |-> Value(id)],
         stream |-> IF streamless THEN None ELSE Some(Mappings[k - empty])]

ValidateFiles ==
    LET names   == IF ~Has(ID_NAME) THEN "Ok"
                   ELSE IF NamesOutside THEN IF Len(Data(ID_NAME)) = 2 THEN "Ok" ELSE "Format"
                   ELSE NameVerdict(Data(ID_NAME), 2, Files.count)
        verdict ==
            IF ~PropertiesValid \/ ~BitsValid THEN "Format"
            ELSE IF names # "Ok" THEN names
            ELSE IF \/ \E id \in Range(ValueIds) : Has(id) /\ ~ValuesExact(id)
                    \/ \E i \in DOMAIN External : External[i].index >= AdditionalCount
                    \/ Len(Mappings) # Files.count - EmptyCount
            THEN "Format" ELSE "Ok"
    IN  /\ pc = "files"
        /\ Validates(verdict,
              /\ pc' = "apply"
              /\ model' = [model EXCEPT
                     !.files = Some([k \in 1..Files.count |-> EntryAt(k)]),
                     !.external = External,
                     !.unknown = SelectSeq(Files.properties,
                                           LAMBDA p : p.id \notin KnownIds \cup {ID_DUMMY})]
              /\ UNCHANGED <<section, ranges, packs, drafts, size_cursor, crc_cursor, built, applied>>)

-----------------------------------------------------------------------------
(***************************************************************************)
(* apply_external_properties: names or values of the defined entries from  *)
(* the decoded stream, which must be consumed exactly.                     *)
(***************************************************************************)
ApplyProperty ==
    LET property == model.external[applied + 1]
        data     == input.streams[property.index + 1]
        entries  == model.files[1]
        verdict  == IF property.index >= Len(input.streams) THEN "Format"
                    ELSE IF property.id = ID_NAME THEN NameVerdict(data, 1, Len(entries))
                    ELSE IF CountTrue(property.defined, Len(entries)) # Len(data) THEN "Format"
                    ELSE "Ok"
        values   == DefinedFields(data, 1, property.defined)
        Applied(k) ==
            IF property.id = ID_NAME
            THEN [entries[k] EXCEPT !.name = Some(NameAt(data, 1, k))]
            ELSE IF property.defined[k]
            THEN [entries[k] EXCEPT !.values[property.id] = Some(values[k])]
            ELSE entries[k]
    IN  /\ pc = "apply" /\ applied < Len(model.external)
        /\ Validates(verdict,
              /\ model' = [model EXCEPT !.files = Some([k \in DOMAIN entries |-> Applied(k)])]
              /\ applied' = applied + 1
              /\ UNCHANGED <<pc, section, ranges, packs, drafts, size_cursor, crc_cursor, built>>)

FinishHeader ==
    /\ \/ pc = "apply" /\ applied = Len(model.external)
       \/ pc = "finish"
    /\ Fails("Ok")

Next == \/ ParseStep /\ UNCHANGED validateVars
        \/ ValidatePack \/ ValidateFolders \/ BuildSubstreams \/ StreamsValidated
        \/ ValidatePending \/ ResolveFolders \/ CheckRanges
        \/ ValidateFiles \/ ApplyProperty \/ FinishHeader

Spec == Init /\ [][Next]_vars

\* The thread that opens the archive keeps running.
FairSpec == Spec /\ WF_vars(Next)
=============================================================================
