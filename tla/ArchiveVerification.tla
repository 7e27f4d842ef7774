------------------------ MODULE ArchiveVerification ------------------------
(***************************************************************************)
(* The other two ways into an open archive (archive.rs): Archive::verify,  *)
(* which decodes every additional and every main folder and checks all     *)
(* stored CRCs without delivering a byte, and Archive::open_member, which  *)
(* decodes one member's folder and cuts the member out for a MemberReader. *)
(* The token may be set at any time and the work budget may run out at any *)
(* checkpoint.                                                             *)
(***************************************************************************)
EXTENDS SolidArchive

CONSTANTS
    Archives,         \* validated archives
    MaxHeader         \* limits.max_header_bytes()

ASSUME VerificationAssumption ==
    (\A a \in Archives : IsArchive(a)) /\ MaxHeader \in Nat

VARIABLES
    archive,
    cancelled,        \* the shared token
    operation,        \* 0: verify; otherwise the entry open_member is given
    pc,               \* "additional" | "folder" | "decode" | "members"
                      \* | "checksum" | "open" | "bounds" | "done"
    part,             \* which folders verify is at: "additional" | "main"
    folder,           \* index of the folder, from 1
    maximum_output,   \* what decode_folder may yield
    total_output,
    substream,        \* substreams of the folder verified
    start,            \* bytes of the folder they take
    end,              \* where the substream being verified ends
    streamed,         \* the last entry taken from streamed_entries
    reader,           \* what open_member hands to MemberReader::new
    result            \* "none" while running

vars == <<archive, cancelled, operation, pc, part, folder, maximum_output,
          total_output, substream, start, end, streamed, reader, result>>

place == <<part, folder, maximum_output, total_output>>
cut   == <<substream, start, end, streamed>>
fixed == <<archive, operation>>

Folders == IF part = "additional" THEN archive.additional ELSE archive.folders
Folder  == Folders[folder]

NoReader == [start |-> 0, end |-> 0, expected |-> "None",
             folder_crc_mismatch |-> FALSE, encrypted |-> FALSE]

Init ==
    /\ archive \in Archives
    /\ cancelled \in BOOLEAN
    /\ operation \in {0} \cup DOMAIN archive.entries
    /\ pc = IF operation = 0 THEN "additional" ELSE "open"
    /\ part = IF operation = 0 THEN "additional" ELSE "main"
    /\ folder = 1 /\ maximum_output = 0 /\ total_output = 0
    /\ substream = 0 /\ start = 0 /\ end = 0 /\ streamed = 0
    /\ reader = NoReader
    /\ result = "none"

Returns(outcome) == pc' = "done" /\ result' = outcome

Fails(error) == Returns(error) /\ UNCHANGED <<fixed, cancelled, place, cut, reader>>

\* control.checkpoint(units)?
Checkpoint(Continue) ==
    \/ cancelled /\ Fails("Cancelled")
    \/ ~cancelled /\ (Fails("WorkUnits") \/ Continue)

Cancel ==
    /\ ~cancelled /\ pc # "done"
    /\ cancelled' = TRUE
    /\ UNCHANGED <<fixed, pc, place, cut, reader, result>>

Smaller(a, b) == IF a <= b THEN a ELSE b

-----------------------------------------------------------------------------
\* process_additional_streams: allowed what the header and total limits leave.
AdditionalMaximum == Smaller(MaxHeader - total_output, MaxTotalOutput - total_output)

NextAdditional ==
    /\ pc = "additional" /\ folder <= Len(Folders)
    /\ Checkpoint(/\ pc' = "decode"
                  /\ maximum_output' = AdditionalMaximum
                  /\ UNCHANGED <<fixed, cancelled, part, folder, total_output,
                                 cut, reader, result>>)

AdditionalDone ==
    /\ pc = "additional" /\ folder > Len(Folders)
    /\ pc' = "folder" /\ part' = "main" /\ folder' = 1
    /\ UNCHANGED <<fixed, cancelled, maximum_output, total_output, cut, reader, result>>

(***************************************************************************)
(* The loop of verify: the token, then the folder's preflight against what *)
(* additional and earlier folders have left of the output limit.           *)
(***************************************************************************)
RemainingTotal == MaxTotalOutput - total_output

\* folder_decode_maximum(folder, remaining)? and the fields it decides.
Preflighted(f, remaining, Admit(_)) ==
    LET preflight == Preflight(f, remaining)
        Judge == IF preflight # "Ok" THEN Fails(preflight)
                 ELSE Admit(Permitted(f, remaining))
    IN  IF PreflightCheckpoints(f, remaining) THEN Checkpoint(Judge) ELSE Judge

EnterFolder ==
    LET Admit(maximum) ==
            /\ pc' = "decode" /\ maximum_output' = maximum
            /\ UNCHANGED <<fixed, cancelled, part, folder, total_output, cut,
                           reader, result>>
    IN  /\ pc = "folder" /\ folder <= Len(Folders)
        /\ \/ cancelled /\ Fails("Cancelled")
           \/ ~cancelled /\ Preflighted(Folder, RemainingTotal, Admit)

(***************************************************************************)
(* decode_folder: it may fail for reasons of its own, always passes a      *)
(* checkpoint before it succeeds and never yields more than it may.  An    *)
(* additional folder with a CRC mismatch is refused before its streams are *)
(* looked at, a main one after.                                            *)
(***************************************************************************)
AdditionalRefusedMutant ==   \* a main folder's CRC comes before its members' too
    Folder.crc_mismatch

AdditionalRefused == part = "additional" /\ Folder.crc_mismatch

DecodeFolder ==
    /\ pc = "decode"
    /\ \/ Fails("Decode")
       \/ cancelled /\ Fails("Cancelled")
       \/ Folder.actual > maximum_output /\ Fails("TotalOutputBytes")
       \/ /\ ~cancelled /\ Folder.actual <= maximum_output
          /\ substream' = 0 /\ start' = 0 /\ end' = 0
          /\ total_output' = IF operation = 0 THEN total_output + Folder.actual
                             ELSE total_output
          /\ IF AdditionalRefused
             THEN Returns(Integrity(Folder, "FolderChecksum"))
             ELSE /\ pc' = IF operation = 0 THEN "members" ELSE "bounds"
                  /\ UNCHANGED result
          /\ UNCHANGED <<fixed, cancelled, part, folder, maximum_output, streamed, reader>>

(***************************************************************************)
(* verify_decoded_additional_folder and verify_folder_members: one         *)
(* substream.  The latter takes the next streamed entry, which must be the *)
(* one mapped to this substream.                                           *)
(***************************************************************************)
NextStreamed == {e \in Streamed(archive) : e > streamed}

FirstOf(S) == CHOOSE e \in S : \A d \in S : e <= d

SubstreamEnd ==
    IF SizeOf(Folder, substream + 1) = Unknown THEN Folder.actual
    ELSE start + SizeOf(Folder, substream + 1)

NextSubstream ==
    LET Judge ==
            IF part = "main" /\ NextStreamed = {}
            THEN Fails("internal: no mapped member")
            ELSE IF part = "main"
                    /\ SlotOf(archive, FirstOf(NextStreamed)) # <<folder, substream + 1>>
            THEN Fails("internal: mapping out of order")
            ELSE IF SizeOf(Folder, substream + 1) = Unknown /\ substream + 1 < Last(Folder)
            THEN Fails("Unsupported")
            ELSE IF SubstreamEnd > Folder.actual
            THEN Fails("Format")
            ELSE /\ pc' = "checksum"
                 /\ end' = SubstreamEnd
                 /\ streamed' = IF part = "main" THEN FirstOf(NextStreamed) ELSE streamed
                 /\ UNCHANGED <<fixed, cancelled, place, substream, start, reader, result>>
    IN  pc = "members" /\ substream < Last(Folder) /\ Checkpoint(Judge)

\* The CRC of the substream's bytes, a checkpoint per chunk of them; nothing
\* is hashed when no CRC is stored.
ChecksumSubstream ==
    LET crc   == Folder.substreams[substream + 1].crc
        scope == IF part = "main" THEN "MemberChecksum" ELSE "AdditionalChecksum"
        Judge == IF crc = "Other" THEN Fails(Integrity(Folder, scope))
                 ELSE /\ pc' = "members"
                      /\ substream' = substream + 1 /\ start' = end
                      /\ UNCHANGED <<fixed, cancelled, place, end, streamed, reader, result>>
    IN  /\ pc = "checksum"
        /\ IF crc # "None" /\ end > start THEN Checkpoint(Judge) ELSE Judge

\* Additional streams must consume their folder exactly.
AdditionalVerified == IF start # Folder.actual THEN "Format" ELSE "Ok"

FolderVerifiedMutant ==   \* the folder's own CRC is not looked at
    IF part = "additional" THEN AdditionalVerified ELSE "Ok"

FolderVerified ==
    IF part = "additional" THEN AdditionalVerified
    ELSE IF Folder.crc_mismatch THEN Integrity(Folder, "FolderChecksum") ELSE "Ok"

FolderDone ==
    /\ pc = "members" /\ substream = Last(Folder)
    /\ IF FolderVerified # "Ok" THEN Fails(FolderVerified)
       ELSE /\ folder' = folder + 1
            /\ pc' = IF part = "additional" THEN "additional" ELSE "folder"
            /\ UNCHANGED <<fixed, cancelled, part, maximum_output, total_output, cut,
                           reader, result>>

VerifyDone ==
    /\ pc = "folder" /\ folder > Len(Folders)
    /\ IF NextStreamed # {} THEN Fails("internal: mapping exceeds the folders")
       ELSE Fails("Ok")

-----------------------------------------------------------------------------
(***************************************************************************)
(* open_member: what has no bytes, the entry limit on a declared size, the *)
(* preflight of the member's folder against the whole output limit.        *)
(***************************************************************************)
Entry == archive.entries[operation]

OpenStreamless ==
    /\ pc = "open" /\ Entry.kind # "file"
    /\ Fails(IF Entry.kind = "empty" THEN "Opened" ELSE "Unsupported")

OpenStreamed ==
    LET f == archive.folders[Entry.folder]
        Admit(maximum) ==
            /\ pc' = "decode" /\ folder' = Entry.folder /\ maximum_output' = maximum
            /\ UNCHANGED <<fixed, cancelled, part, total_output, cut, reader, result>>
    IN  /\ pc = "open" /\ Entry.kind = "file"
        /\ IF SizeOf(f, Entry.substream) > MaxEntryOutput THEN Fails("EntryOutputBytes")
           ELSE Preflighted(f, MaxTotalOutput, Admit)

(***************************************************************************)
(* member_bounds: the sizes before the member add up to its start.  Then   *)
(* its length against the entry limit, and the reader.                     *)
(***************************************************************************)
PrecedingMutant == KnownSum(Folder, Entry.substream)   \* one substream too far

Preceding == KnownSum(Folder, Entry.substream - 1)

\* What MemberReader::new is given for bytes first..last of the folder.
Reader(first, last) ==
    [start |-> first, end |-> last,
     expected |-> Folder.substreams[Entry.substream].crc,
     folder_crc_mismatch |-> Folder.crc_mismatch, encrypted |-> Folder.encrypted]

MemberBounds ==
    LET size  == SizeOf(Folder, Entry.substream)
        ends  == IF size = Unknown THEN Folder.actual ELSE Preceding + size
        Judge ==
            IF \/ \E s \in 1..(Entry.substream - 1) : SizeOf(Folder, s) = Unknown
               \/ size = Unknown /\ Entry.substream < Last(Folder)
            THEN Fails("Unsupported")
            ELSE IF ends > Folder.actual \/ ends < Preceding THEN Fails("Format")
            ELSE IF ends - Preceding > MaxEntryOutput THEN Fails("EntryOutputBytes")
            ELSE /\ Returns("Opened")
                 /\ reader' = Reader(Preceding, ends)
                 /\ UNCHANGED <<fixed, cancelled, place, cut>>
    IN  pc = "bounds" /\ Checkpoint(Judge)

Step == \/ NextAdditional \/ AdditionalDone \/ EnterFolder \/ DecodeFolder
        \/ NextSubstream \/ ChecksumSubstream \/ FolderDone \/ VerifyDone
        \/ OpenStreamless \/ OpenStreamed \/ MemberBounds

Next == Step \/ Cancel

Spec == Init /\ [][Next]_vars

-----------------------------------------------------------------------------
Internal == {"internal: no mapped member", "internal: mapping out of order",
             "internal: mapping exceeds the folders"}

(***************************************************************************)
(* What verify accepts, of the archive alone.  Every folder, used or not,  *)
(* is filled by its streams and within the limits ...                      *)
(***************************************************************************)
Filled(f) ==
    /\ \A s \in 1..Last(f) : /\ SizeOf(f, s) = Unknown => s = Last(f)
                             /\ LastByte(f, s) <= f.actual
    /\ f.actual = IF Last(f) = 0 THEN 0 ELSE LastByte(f, Last(f))

Fits(a) ==
    LET additional == OutputOf(a.additional, DOMAIN a.additional)
    IN  /\ \A f \in DOMAIN a.additional : Filled(a.additional[f])
        /\ \A f \in DOMAIN a.folders : Tiled(a.folders[f])
        /\ additional <= MaxHeader
        /\ additional + OutputOf(a.folders, DOMAIN a.folders) <= MaxTotalOutput

\* ... and nothing that is stored about it is wrong.
VerifySucceeds(a) ==
    /\ Fits(a)
    /\ \A f \in DOMAIN a.additional : Sound(a.additional[f])
    /\ \A f \in DOMAIN a.folders : Sound(a.folders[f])

(***************************************************************************)
(* The CRCs of an archive that are wrong, in the order in which they are   *)
(* promised: additional folders before main ones, folders and substreams   *)
(* by their index; an additional folder's own CRC before its streams', a   *)
(* main folder's after its members'.                                       *)
(***************************************************************************)
FaultsOf(p, f) ==
    LET own == IF p = "additional" THEN 0 ELSE Last(f) + 1
    IN  {s \in 1..Last(f) : f.substreams[s].crc = "Other"}
        \cup (IF f.crc_mismatch THEN {own} ELSE {})

FaultsIn(p, folders) ==
    UNION {{[part |-> p, folder |-> f, at |-> n] : n \in FaultsOf(p, folders[f])}
             : f \in DOMAIN folders}

Faults(a) == FaultsIn("additional", a.additional) \cup FaultsIn("main", a.folders)

Precedes(x, y) ==
    \/ x.part = "additional" /\ y.part = "main"
    \/ x.part = y.part /\ x.folder < y.folder
    \/ x.part = y.part /\ x.folder = y.folder /\ x.at < y.at

IsFirstFault(a, x) == x \in Faults(a) /\ \A y \in Faults(a) : y = x \/ Precedes(x, y)

\* How a fault is reported.
ReportOf(a, x) ==
    LET f == (IF x.part = "additional" THEN a.additional ELSE a.folders)[x.folder]
    IN  Integrity(f, IF x.at \notin 1..Last(f) THEN "FolderChecksum"
                     ELSE IF x.part = "additional" THEN "AdditionalChecksum"
                     ELSE "MemberChecksum")

Corruptions == {"FolderChecksum", "MemberChecksum", "AdditionalChecksum", "WrongPasswordOrCorrupt"}

Undisturbed == result \notin {"none", "Cancelled", "WorkUnits", "Decode"}

(***************************************************************************)
(* Undisturbed, verify succeeds exactly on the archives all of whose       *)
(* folders are sound, tiled and within the limits together; and what it    *)
(* accepts can be extracted, although extract_entries_to counts, decodes   *)
(* and checks along other paths.  Disturbed or not, what it has decoded    *)
(* stays within the limit that additional and main folders share, and what *)
(* additional ones decode within the header limit too.                     *)
(***************************************************************************)
VerifyVerdict ==
    /\ operation = 0 /\ Undisturbed =>
          /\ (result = "Ok") <=> VerifySucceeds(archive)
          /\ result = "Ok" => ExtractionSucceeds(archive)
    /\ total_output <= MaxTotalOutput
    /\ part = "additional" => total_output <= MaxHeader

(***************************************************************************)
(* "Returns the first ... failure": an integrity error of verify is the    *)
(* report of the first wrong CRC of the whole archive, with the member     *)
(* whose it is (streamed, the error's member_index) and, when the folder   *)
(* is not encrypted, apart from a wrong password.  (An encrypted folder    *)
(* that does not even decode is the outcome "Decode".)  Where nothing else *)
(* is wrong, no other error hides it.  And the internal checks of the      *)
(* member mapping never fire on a validated archive.                       *)
(***************************************************************************)
FirstCorruptionReported ==
    operation = 0 =>
        /\ result \in Corruptions =>
               \E x \in Faults(archive) :
                   /\ IsFirstFault(archive, x) /\ result = ReportOf(archive, x)
                   /\ result = "MemberChecksum" =>
                          SlotOf(archive, streamed) = <<x.folder, x.at>>
        /\ Undisturbed /\ Fits(archive) /\ Faults(archive) # {} => result \in Corruptions
        /\ result \notin Internal

(***************************************************************************)
(* The reader of a member covers exactly the member's bytes, within the    *)
(* entry limit, and carries its CRC and its folder's verdict; and if the   *)
(* whole archive can be extracted then each of its files can be opened.    *)
(***************************************************************************)
OpenedIsItsSlice ==
    operation # 0 /\ Undisturbed =>
        /\ result = "Opened" /\ Entry.kind = "file" =>
               LET f == archive.folders[Entry.folder]
               IN  /\ reader.start = FirstByte(f, Entry.substream)
                   /\ reader.end = LastByte(f, Entry.substream)
                   /\ reader.end - reader.start \in 0..MaxEntryOutput
                   /\ reader.end <= f.actual
                   /\ reader.expected = f.substreams[Entry.substream].crc
                   /\ reader.folder_crc_mismatch = f.crc_mismatch
        /\ ExtractionSucceeds(archive) =>
               ((result = "Opened") <=> (Entry.kind \in {"file", "empty"}))
=============================================================================
