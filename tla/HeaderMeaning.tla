---------------------------- MODULE HeaderMeaning ----------------------------
(***************************************************************************)
(* What a header means, stated from its description (HeaderFormat) and not *)
(* from its tokens, and what the parser and the validator owe: a header is *)
(* accepted exactly when it is valid and then read as it was meant, and    *)
(* from any tokens, whatever wrote them, only a sound model is accepted.   *)
(***************************************************************************)
EXTENDS HeaderValidation

Solid == INSTANCE SolidArchive WITH ControlChunk <- 1, MaxTotalOutput <- U64Max,
                                    MaxEntryOutput <- U64Max

AllStreams(h) == h.encoded \o h.additional \o h.main
AllFolders(h) == FlattenSeq(Map(LAMBDA s : s.folders, AllStreams(h)))
AllPacks(h)   == FlattenSeq(Map(LAMBDA s : s.packs, AllStreams(h)))
MainFolders(h) == FlattenSeq(Map(LAMBDA s : s.folders, h.main))
AdditionalFolders(h) == FlattenSeq(Map(LAMBDA s : s.folders, h.additional))
Entries(h)    == FlattenSeq(h.files)

Ports(f) == Total(Map(LAMBDA c : CoderOf(c).inputs + CoderOf(c).outputs, f.coders))

\* The properties that a record of the files is written with.
PropertyIds(h, verbose) ==
    {id \in Range(ValueIds) : ValuesOf(Entries(h), id) # <<>>}
    \cup UNION {IF Entries(h)[k].name # None THEN {ID_NAME} ELSE {} : k \in DOMAIN Entries(h)}
    \cup UNION {IF Entries(h)[k].has_stream THEN {} ELSE {ID_EMPTY_STREAM} : k \in DOMAIN Entries(h)}
    \cup UNION {IF Entries(h)[k].empty_file THEN {ID_EMPTY_FILE} ELSE {} : k \in DOMAIN Entries(h)}
    \cup UNION {IF Entries(h)[k].anti_item THEN {ID_ANTI} ELSE {} : k \in DOMAIN Entries(h)}
    \cup IF verbose /\ h.files # None THEN {ID_DUMMY} ELSE {}

WithinLimits(h, verbose) ==
    /\ Len(Entries(h)) <= Limits.files
    /\ Len(h.properties) + Cardinality(PropertyIds(h, verbose)) <= Limits.properties
    /\ Len(AllPacks(h)) <= Limits.streams
    /\ Len(AllFolders(h)) <= Limits.folders
    /\ Total(Map(LAMBDA f : Len(f.coders), AllFolders(h))) <= Limits.coders
    /\ Total(Map(Ports, AllFolders(h))) <= Limits.streams
    /\ Total(Map(LAMBDA f : Len(f.members), AllFolders(h))) <= Limits.substreams
    /\ \A k \in DOMAIN AllFolders(h) :
          LET f == AllFolders(h)[k]
          IN  /\ Len(f.coders) <= Limits.coders_per_folder
              /\ Ports(f) <= Limits.streams_per_folder
              /\ Total(Map(LAMBDA c : CoderOf(c).dictionary, f.coders)) <= Limits.dictionary
    /\ \A k \in DOMAIN Entries(h) :
          2 * Len(FlattenSeq(Entries(h)[k].name)) <= Limits.name_bytes
    /\ 2 * Total(Map(LAMBDA e : Len(FlattenSeq(e.name)), Entries(h))) <= Limits.total_name_bytes

\* The bytes of the archive that packed streams occupy, one set per section.
Occupied(s) ==
    LET begin == DataStart + s.position
    IN  begin..(begin + Total(Map(LAMBDA p : p.size, s.packs)) - 1)

PackedInPlace(h) ==
    /\ \A k \in DOMAIN AllStreams(h) :
          LET s == AllStreams(h)[k]
          IN  s.folders # <<>> =>
                 /\ \A p \in DOMAIN s.packs : s.packs[p].size < U64Max
                 /\ DataStart + s.position + Total(Map(LAMBDA p : p.size, s.packs)) <= NextHeaderOffset
                 /\ Total(Map(LAMBDA f : Len(f.packed), s.folders)) = Len(s.packs)
    /\ \A j, k \in DOMAIN AllStreams(h) :
          j # k => Occupied(AllStreams(h)[j]) \cap Occupied(AllStreams(h)[k]) = {}

FoldersDecodable(h) ==
    \A k \in DOMAIN AllFolders(h) :
        /\ \A c \in Range(AllFolders(h)[k].coders) :
              CoderOf(c).parse = "Ok" /\ CoderOf(c).properties = "Ok"
        /\ GraphRoot(AllFolders(h)[k]) # 0

ReferencesResolve(h) ==
    LET n == Len(AdditionalFolders(h))
    IN  /\ MainFolders(h) # <<>> => h.where.folders <= n
        /\ ID_NAME \in PropertyIds(h, FALSE) => h.where.names <= n
        /\ PropertyIds(h, FALSE) \cap Range(ValueIds) # {} => h.where.values <= n

Valid(h, verbose) ==
    /\ WithinLimits(h, verbose) /\ PackedInPlace(h) /\ FoldersDecodable(h) /\ ReferencesResolve(h)
    /\ h.files # None =>
          Len(SelectSeq(Entries(h), LAMBDA e : e.has_stream))
             = Total(Map(LAMBDA f : Len(f.members), MainFolders(h)))

\* The model of valid streams: packed streams placed, folders given theirs.
MeaningOfStreams(s) ==
    [position |-> IF s.folders = <<>> THEN 0 ELSE s.position,
     packs |-> [k \in DOMAIN s.packs |->
                  [offset |-> Total(Map(LAMBDA p : p.size, SubSeq(s.packs, 1, k - 1)))
                              + s.position + DataStart] @@ s.packs[k]],
     folders |-> [k \in DOMAIN s.folders |->
                    LET f == s.folders[k]
                    IN  [f EXCEPT !.packed = IF Len(@) = 1 THEN <<>> ELSE @]
                        @@ [root |-> f.sizes[GraphRoot(f)], packed_streams |-> Len(f.packed),
                            first_pack |-> Len(FlattenSeq(Map(LAMBDA g : g.packed,
                                                              SubSeq(s.folders, 1, k - 1))))]]]

\* The member that holds the data of the n-th entry that has any.
MemberOf(h, n) ==
    LET folders   == MainFolders(h)
        Before(f) == Total(Map(LAMBDA g : Len(g.members), SubSeq(folders, 1, f - 1)))
        f         == CHOOSE f \in DOMAIN folders : n \in (Before(f) + 1)..Before(f + 1)
    IN  [folder |-> f, substream |-> n - Before(f)] @@ folders[f].members[n - Before(f)]

MeaningOfEntry(h, k) ==
    LET e == Entries(h)[k]
        n == Cardinality({i \in 1..k : Entries(h)[i].has_stream})
    IN  e @@ [stream |-> IF e.has_stream THEN Some(MemberOf(h, n)) ELSE None]

\* The archive model is the declared header's.
IsMeaningOf(h) ==
    /\ model.kind = IF h.encoded # None THEN "encoded" ELSE "plain"
    /\ model.properties = h.properties
    /\ model.additional = Map(MeaningOfStreams, h.additional)
    /\ model.main = Map(MeaningOfStreams, h.encoded \o h.main)
    /\ model.files = Map(LAMBDA entries : [k \in DOMAIN entries |-> MeaningOfEntry(h, k)], h.files)

-----------------------------------------------------------------------------
(***************************************************************************)
(* parse_next_header, validate_next_header and apply_external_properties   *)
(* together: a header written for some archive, in any of the forms the    *)
(* format allows, is accepted if and only if it is valid, and every packed *)
(* range, folder, member, size, CRC and entry is then the one meant.       *)
(***************************************************************************)
DeclaredIsParsed ==
    \A d \in Range(input.declared) :
        result \notin {"none", "Interrupted"} =>
            IF Valid(d.header, d.verbose) THEN result = "Ok" /\ IsMeaningOf(d.header)
            ELSE result # "Ok"

PacksDisjoint ==
    LET all == FlattenSeq(Map(LAMBDA s : s.packs, model.additional \o model.main))
        Bytes(k) == all[k].offset..(all[k].offset + all[k].size - 1)
    IN  /\ \A k \in DOMAIN all : Bytes(k) \subseteq DataStart..(NextHeaderOffset - 1)
        /\ \A j, k \in DOMAIN all : j # k => Bytes(j) \cap Bytes(k) = {}

PacksDealtOut(s) ==
    LET Taken(f) == f.first_pack..(f.first_pack + f.packed_streams - 1)
    IN  /\ UNION {Taken(f) : f \in Range(s.folders)} = 0..(Len(s.packs) - 1)
        /\ \A j, k \in DOMAIN s.folders : j # k => Taken(s.folders[j]) \cap Taken(s.folders[k]) = {}

MembersFill(f) ==
    (f.members # <<>> /\ \A m \in DOMAIN f.members : f.members[m].size # Unknown)
        => f.root = Total(Map(LAMBDA m : m.size, f.members))

EntriesMapped(entries) ==
    Solid!MappedInOrder(
        [folders |-> Map(LAMBDA f : [substreams |-> f.members],
                         FlattenSeq(Map(LAMBDA s : s.folders, model.main))),
         entries |-> Map(LAMBDA e : IF e.has_stream
                                    THEN [kind |-> "file", folder |-> e.stream[1].folder,
                                          substream |-> e.stream[1].substream]
                                    ELSE [kind |-> "empty"], entries)])

(***************************************************************************)
(* validate_next_header, whatever the tokens: an accepted model is one the *)
(* decoders may rely on.  Packed streams are inside the archive's data and *)
(* disjoint, and dealt out to the folders without gap or repetition; the   *)
(* sizes of members, when known, fill the folder; the entries with data    *)
(* are mapped to all members in order.                                     *)
(***************************************************************************)
ModelSound ==
    result = "Ok" =>
        /\ PacksDisjoint
        /\ \A s \in Range(model.additional \o model.main) :
              PacksDealtOut(s) /\ \A f \in Range(s.folders) : MembersFill(f)
        /\ \A entries \in Range(model.files) : EntriesMapped(entries)

(***************************************************************************)
(* The parser and the validator count explicit sizes and CRCs each in      *)
(* their own loops (parse_substreams_info, build_substreams): the vectors  *)
(* one read are never too short or too long for the other.                 *)
(***************************************************************************)
CountsAgree == result # Internal

\* The second pass never finds external folders unresolved again, so opening
\* returns whatever the tokens say.
ParseReturns == <>(pc = "done")
=============================================================================
