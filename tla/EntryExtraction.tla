-------------------------- MODULE EntryExtraction --------------------------
(***************************************************************************)
(* Archive::extract_entries_to (archive.rs): the natural-order pass over   *)
(* the entries of an archive that decodes each solid folder once, slices   *)
(* the decoded bytes into members, and drives a caller's EntrySink.        *)
(* folder_decode_maximum is its preflight.  The sink may fail any call;    *)
(* the token may be set at any time by another thread or by the sink       *)
(* itself; the work budget may run out at any checkpoint.                  *)
(***************************************************************************)
EXTENDS SolidArchive

CONSTANT Archives     \* validated archives

ASSUME ExtractionAssumption == \A a \in Archives : IsArchive(a)

VARIABLES
    archive,
    cancelled,            \* the shared token
    pc,                   \* "entry" | "folder" | "decode" | "member" | "chunk"
                          \* | "write" | "finish" | "emptybegin" | "emptyfinish"
                          \* | "done"
    entry,                \* the entry the loop is at, from 1
    current_folder,       \* 0 stands for None
    maximum_output,       \* folder_decode_maximum of the folder to decode
    next_substream,       \* substreams of current_folder delivered
    folder_offset,        \* bytes of current_folder delivered
    total_folder_output,
    delivered,
    written,              \* bytes of the current member written to the sink
    end,                  \* where the current member ends in the folder
    result,               \* "none" while running
    sink,                 \* what the sink saw: the member open, its bytes, what is finished
    decodes,              \* history: how often each folder was decoded
    late                  \* history: sink calls begun with the token set

vars == <<archive, cancelled, pc, entry, current_folder, maximum_output,
          next_substream, folder_offset, total_folder_output, delivered,
          written, end, result, sink, decodes, late>>

loop   == <<current_folder, maximum_output, next_substream, folder_offset,
            total_folder_output>>
member == <<written, end>>

Entry      == archive.entries[entry]
Folder(f)  == archive.folders[f]
Substreams == Folder(current_folder).substreams

\* The member being delivered is substream next_substream + 1.
Substream == Substreams[next_substream + 1]

-----------------------------------------------------------------------------
Init ==
    /\ archive \in Archives
    /\ cancelled \in BOOLEAN
    /\ pc = "entry" /\ entry = 1
    /\ current_folder = 0 /\ maximum_output = 0
    /\ next_substream = 0 /\ folder_offset = 0
    /\ total_folder_output = 0 /\ delivered = 0
    /\ written = 0 /\ end = 0
    /\ result = "none"
    /\ sink = [open |-> 0, announced |-> 0, received |-> 0, start |-> 0,
               last |-> 0, finished |-> {}]
    /\ decodes = [f \in DOMAIN archive.folders |-> 0]
    /\ late = 0

Returns(outcome) == pc' = "done" /\ result' = outcome

Fails(error) ==
    /\ Returns(error)
    /\ UNCHANGED <<archive, cancelled, entry, loop, delivered, member, sink,
                   decodes, late>>

(***************************************************************************)
(* control.checkpoint(units)?: Cancelled when the token is set, WorkUnits  *)
(* when the budget happens to be exhausted, otherwise Continue.            *)
(***************************************************************************)
CheckpointMutant(Continue) == Fails("WorkUnits") \/ Continue   \* no token

Checkpoint(Continue) ==
    \/ cancelled /\ Fails("Cancelled")
    \/ ~cancelled /\ (Fails("WorkUnits") \/ Continue)

(***************************************************************************)
(* One call of the sink.  The sink may set the token itself, and it may    *)
(* fail, in which case the loop returns before it takes the call into      *)
(* account.                                                                *)
(***************************************************************************)
SinkCall(Accepted) ==
    /\ cancelled' \in {cancelled, TRUE}
    /\ late' = IF cancelled THEN late + 1 ELSE late
    /\ \/ Accepted /\ UNCHANGED result
       \/ Returns("Sink") /\ UNCHANGED <<entry, loop, delivered, member, sink>>
    /\ UNCHANGED <<archive, decodes>>

Begun(size, start) ==
    [sink EXCEPT !.open = entry, !.last = entry, !.announced = size,
                 !.received = 0, !.start = start]

Finished == [sink EXCEPT !.open = 0, !.finished = @ \cup {entry}]

\* CancellationToken::cancel from another thread.
Cancel ==
    /\ ~cancelled /\ pc # "done"
    /\ cancelled' = TRUE
    /\ UNCHANGED <<archive, pc, entry, loop, delivered, member, result, sink,
                   decodes, late>>

(***************************************************************************)
(* The head of the loop: after the checkpoint, entries without a stream    *)
(* are skipped or begun as empty files, and a streamed entry of another    *)
(* folder first moves to that folder.                                      *)
(***************************************************************************)
EnterStreamlessMutant ==   \* a directory is not stepped over
    /\ Entry.kind # "file"
    /\ pc' = IF Entry.kind = "empty" THEN "emptybegin" ELSE pc
    /\ UNCHANGED <<archive, cancelled, entry, loop, delivered, member, result,
                   sink, decodes, late>>

EnterStreamless ==
    /\ Entry.kind # "file"
    /\ IF Entry.kind = "empty"
       THEN pc' = "emptybegin" /\ UNCHANGED entry
       ELSE entry' = entry + 1 /\ UNCHANGED pc
    /\ UNCHANGED <<archive, cancelled, loop, delivered, member, result, sink,
                   decodes, late>>

EnterStreamed ==
    /\ Entry.kind = "file"
    /\ pc' = IF Entry.folder = current_folder THEN "member" ELSE "folder"
    /\ UNCHANGED <<archive, cancelled, entry, loop, delivered, member, result,
                   sink, decodes, late>>

NextEntry ==
    /\ pc = "entry" /\ entry <= Len(archive.entries)
    /\ Checkpoint(EnterStreamless \/ EnterStreamed)

\* An empty file: begin_entry(0) and finish_entry with nothing in between.
BeginEmptyEntry ==
    /\ pc = "emptybegin"
    /\ SinkCall(/\ sink' = Begun(0, 0) /\ pc' = "emptyfinish"
                /\ UNCHANGED <<entry, loop, delivered, member>>)

FinishEmptyEntry ==
    /\ pc = "emptyfinish"
    /\ SinkCall(/\ sink' = Finished /\ pc' = "entry"
                /\ entry' = entry + 1
                /\ UNCHANGED <<loop, delivered, member>>)

(***************************************************************************)
(* Moving to another folder: the previous one must have been delivered     *)
(* completely; then the preflight of the new one.                          *)
(***************************************************************************)
EnterFolder ==
    LET f         == Folder(Entry.folder)
        remaining == MaxTotalOutput - total_folder_output
        preflight == Preflight(f, remaining)
        Admit     == IF preflight # "Ok" THEN Fails(preflight)
                     ELSE /\ pc' = "decode"
                          /\ maximum_output' = Permitted(f, remaining)
                          /\ UNCHANGED <<archive, cancelled, entry, current_folder,
                                         next_substream, folder_offset,
                                         total_folder_output, delivered, member,
                                         result, sink, decodes, late>>
    IN  /\ pc = "folder"
        /\ IF current_folder # 0 /\ next_substream # Last(Folder(current_folder))
           THEN Fails("internal: substreams unmapped")
           ELSE IF PreflightCheckpoints(f, remaining) THEN Checkpoint(Admit) ELSE Admit

(***************************************************************************)
(* decode_folder, which may fail for reasons of its own (and checkpoints), *)
(* never returns more than maximum_output bytes, and reports a CRC         *)
(* mismatch as a flag that ends the operation before any member of the     *)
(* folder is begun.                                                        *)
(***************************************************************************)
DecodeFolder ==
    /\ pc = "decode"
    /\ LET f     == Entry.folder
           total == total_folder_output + Folder(f).actual
       IN  \/ Fails("Decode")
           \/ cancelled /\ Fails("Cancelled")
           \/ Folder(f).actual > maximum_output /\ Fails("TotalOutputBytes")
           \/ /\ ~cancelled /\ Folder(f).actual <= maximum_output
              /\ decodes' = [decodes EXCEPT ![f] = @ + 1]
              /\ total_folder_output' = total
              /\ IF total > MaxTotalOutput
                 THEN /\ Returns("TotalOutputBytes")
                      /\ UNCHANGED <<current_folder, next_substream, folder_offset>>
                 ELSE IF Folder(f).crc_mismatch
                 THEN /\ Returns(Integrity(Folder(f), "FolderChecksum"))
                      /\ UNCHANGED <<current_folder, next_substream, folder_offset>>
                 ELSE /\ pc' = "member" /\ UNCHANGED result
                      /\ current_folder' = f
                      /\ next_substream' = 0 /\ folder_offset' = 0
              /\ UNCHANGED <<archive, cancelled, entry, maximum_output,
                             delivered, member, sink, late>>

(***************************************************************************)
(* The member's range: the next substream of the folder, from where the    *)
(* last one ended.  begin_entry is called once the range has been checked. *)
(***************************************************************************)
MemberEnd ==
    IF Substream.size # Unknown THEN folder_offset + Substream.size
    ELSE Folder(current_folder).actual

BeginMember ==
    /\ pc = "member"
    /\ IF Entry.substream # next_substream + 1
       THEN Fails("internal: mapping out of order")
       ELSE IF Substream.size = Unknown /\ next_substream + 1 # Last(Folder(current_folder))
       THEN Fails("Unsupported")
       ELSE IF MemberEnd > Folder(current_folder).actual
       THEN Fails("Format")
       ELSE IF MemberEnd - folder_offset > MaxEntryOutput
       THEN Fails("EntryOutputBytes")
       ELSE SinkCall(/\ sink' = Begun(MemberEnd - folder_offset, folder_offset)
                     /\ pc' = "chunk"
                     /\ end' = MemberEnd /\ written' = 0
                     /\ UNCHANGED <<entry, loop, delivered>>)

(***************************************************************************)
(* One control chunk: checkpoint(len)?, CRC update, write_entry(chunk)?.   *)
(***************************************************************************)
ChunkLength ==
    IF end - folder_offset - written < ControlChunk
    THEN end - folder_offset - written ELSE ControlChunk

CheckpointChunk ==
    /\ pc = "chunk" /\ written < end - folder_offset
    /\ Checkpoint(/\ pc' = "write"
                  /\ UNCHANGED <<archive, cancelled, entry, loop, delivered,
                                 member, result, sink, decodes, late>>)

WriteChunk ==
    /\ pc = "write"
    /\ SinkCall(/\ sink' = [sink EXCEPT !.received = @ + ChunkLength]
                /\ pc' = "chunk"
                /\ written' = written + ChunkLength
                /\ UNCHANGED <<entry, loop, delivered, end>>)

\* The member CRC, compared before finish_entry.
VerifyMemberMutant ==   \* finish_entry comes before the comparison
    /\ pc = "chunk" /\ written = end - folder_offset
    /\ pc' = "finish"
    /\ UNCHANGED <<archive, cancelled, entry, loop, delivered, member, result,
                   sink, decodes, late>>

VerifyMember ==
    /\ pc = "chunk" /\ written = end - folder_offset
    /\ IF Substream.crc = "Other"
       THEN Fails(Integrity(Folder(current_folder), "MemberChecksum"))
       ELSE /\ pc' = "finish"
            /\ UNCHANGED <<archive, cancelled, entry, loop, delivered, member,
                           result, sink, decodes, late>>

\* finish_entry, then the accounting that moves to the next substream.
FinishMemberMutant ==   \* the next member's offset is not moved
    /\ pc = "finish"
    /\ SinkCall(/\ sink' = Finished /\ pc' = "entry"
                /\ entry' = entry + 1
                /\ delivered' = delivered + (end - folder_offset)
                /\ next_substream' = next_substream + 1
                /\ UNCHANGED <<current_folder, maximum_output, folder_offset,
                               total_folder_output, member>>)

FinishMember ==
    /\ pc = "finish"
    /\ SinkCall(/\ sink' = Finished /\ pc' = "entry"
                /\ entry' = entry + 1
                /\ delivered' = delivered + (end - folder_offset)
                /\ folder_offset' = end
                /\ next_substream' = next_substream + 1
                /\ UNCHANGED <<current_folder, maximum_output,
                               total_folder_output, member>>)

\* After the last entry: the last folder must have been delivered, too.
ReturnDelivered ==
    /\ pc = "entry" /\ entry > Len(archive.entries)
    /\ IF current_folder # 0 /\ next_substream # Last(Folder(current_folder))
       THEN Fails("internal: substreams unmapped")
       ELSE /\ Returns("Ok")
            /\ UNCHANGED <<archive, cancelled, entry, loop, delivered, member,
                           sink, decodes, late>>

Step == \/ NextEntry \/ BeginEmptyEntry \/ FinishEmptyEntry \/ EnterFolder
        \/ DecodeFolder \/ BeginMember \/ CheckpointChunk \/ WriteChunk
        \/ VerifyMember \/ FinishMember \/ ReturnDelivered

Next == Step \/ Cancel

Spec == Init /\ [][Next]_vars

(***************************************************************************)
(* One thread runs the loop and the sink's calls return; that the budget,  *)
(* the decoder or the sink fails is possible but never relied on.          *)
(***************************************************************************)
Progress == Step /\ result' \notin {"WorkUnits", "Decode", "Sink"}

FairSpec == Spec /\ WF_vars(Progress)

-----------------------------------------------------------------------------
Extractable == {e \in DOMAIN archive.entries :
                    archive.entries[e].kind \in {"file", "empty"}}

IntactSlot(x) ==
    /\ Folder(x[1]).substreams[x[2]].crc # "Other"
    /\ ~Folder(x[1]).crc_mismatch

Intact == {e \in Extractable :
              archive.entries[e].kind = "file" => IntactSlot(SlotOf(archive, e))}

Protocol == INSTANCE EntrySinkProtocol WITH
    extractable <- Extractable, intact <- Intact,
    open <- sink.open, announced <- sink.announced, received <- sink.received,
    last <- sink.last, finished <- sink.finished,
    returned <- IF result = "none" THEN "running"
                ELSE IF result = "Ok" THEN "Ok" ELSE "Err"

(***************************************************************************)
(* extract_entries_to implements the sink protocol: order, completeness,   *)
(* verification before finish_entry, and silence after an error.           *)
(***************************************************************************)
ImplementsSinkProtocol == Protocol!Spec

(***************************************************************************)
(* A member is delivered the bytes that are its own by the folder's layout *)
(* (the substreams' sizes add up from the folder's start), and a completed *)
(* pass delivered every decoded byte to exactly one member, "decoding each *)
(* solid folder at most once"; the run-time checks of the member mapping   *)
(* never fire on a validated archive.                                      *)
(***************************************************************************)
MembersGetTheirBytes ==
    /\ sink.open # 0 /\ archive.entries[sink.open].kind = "file" =>
           LET slot == SlotOf(archive, sink.open)
           IN  /\ sink.start = FirstByte(Folder(slot[1]), slot[2])
               /\ sink.start + sink.announced = LastByte(Folder(slot[1]), slot[2])
    /\ result = "Ok" => delivered = total_folder_output
    /\ \A f \in DOMAIN decodes : decodes[f] <= 1
    /\ result = "Ok" => \A f \in DOMAIN decodes : (decodes[f] = 1) <=> (Last(Folder(f)) > 0)
    /\ result \notin {"internal: substreams unmapped", "internal: mapping out of order"}

(***************************************************************************)
(* The limits hold across the pass: the output of all folders decoded so   *)
(* far, and every announced member.                                        *)
(***************************************************************************)
LimitsRespected ==
    /\ total_folder_output <= MaxTotalOutput
    /\ sink.announced <= MaxEntryOutput
    /\ delivered + sink.received * (IF sink.open = 0 THEN 0 ELSE 1)
          <= total_folder_output

(***************************************************************************)
(* Cancellation is prompt: once the token is set, the sink sees at most    *)
(* two more calls (the begin and finish of a member without bytes, or a    *)
(* last chunk and its finish).                                             *)
(***************************************************************************)
CancellationIsPrompt == late <= 2

(***************************************************************************)
(* Undisturbed, the pass succeeds exactly on the archives whose folders    *)
(* with members are sound, tiled by their members and within the limits:   *)
(* the incremental checks refuse nothing else and let nothing else through *)
(* (folder_decode_maximum and the member loop together).                   *)
(***************************************************************************)
ExtractionVerdict ==
    result \notin {"none", "Cancelled", "WorkUnits", "Sink", "Decode"} =>
        ((result = "Ok") <=> ExtractionSucceeds(archive))

\* The pass returns.
ExtractionReturns == <>(pc = "done")
=============================================================================
