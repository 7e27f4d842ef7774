----------------------- MODULE EntryExtractionProofs -----------------------
(***************************************************************************)
(* Proofs about extract_entries_to, for all validated archives and limits: *)
(* it implements the sink protocol, gives every member its own bytes,      *)
(* stays within the limits, stops promptly when cancelled, and undisturbed *)
(* succeeds exactly on the archives it can deliver.                        *)
(***************************************************************************)
EXTENDS EntryExtraction, SolidArchiveProofs

InMember == {"chunk", "write", "finish"}

\* Folders up to c that have members.
UsedUpTo(c) == {f \in 1..c : Last(Folder(f)) > 0}

Typed ==
    /\ archive \in Archives
    /\ cancelled \in BOOLEAN
    /\ pc \in {"entry", "folder", "decode", "member", "chunk", "write", "finish",
               "emptybegin", "emptyfinish", "done"}
    /\ (pc = "done") <=> (result # "none")
    /\ late \in Nat

\* Calls that can still be made with the token set, counted back from two.
Prompt ==
    /\ ~cancelled => late = 0
    /\ pc \in {"folder", "decode", "member", "emptybegin", "write"} => late = 0
    /\ pc \in {"emptyfinish", "chunk", "finish"} => late <= 1
    /\ late <= 2

\* Where the pass is among the entries and the folders.
Position ==
    /\ entry \in 1..(Len(archive.entries) + 1)
    /\ pc # "entry" => entry \in DOMAIN archive.entries
    /\ Placed(archive, entry, current_folder, next_substream)
    /\ pc \in {"emptybegin", "emptyfinish"} => Entry.kind = "empty"
    /\ pc \in {"folder", "decode"} => Entry.kind = "file" /\ Entry.folder # current_folder
    /\ pc \in {"member"} \cup InMember => Entry.kind = "file" /\ Entry.folder = current_folder

\* Substream s of folder f was delivered.
Given(f, s) == /\ f.substreams[s].crc # "Other"
               /\ LastByte(f, s) - FirstByte(f, s) \in 0..MaxEntryOutput

\* The current folder was admitted and is delivered up to folder_offset.
Delivering ==
    /\ current_folder = 0 => folder_offset = 0
    /\ current_folder # 0 =>
           /\ Admitted(Folder(current_folder)) /\ ~Folder(current_folder).crc_mismatch
           /\ Last(Folder(current_folder)) > 0
           /\ folder_offset = IF next_substream = 0 THEN 0
                              ELSE LastByte(Folder(current_folder), next_substream)
           /\ folder_offset \in 0..Folder(current_folder).actual
           /\ \A s \in 1..next_substream : Given(Folder(current_folder), s)
    /\ \A f \in 1..(current_folder - 1) :
           Last(Folder(f)) > 0 => Tiled(Folder(f)) /\ Sound(Folder(f))

\* What was decoded and what was delivered, added up.
Totals ==
    /\ total_folder_output = OutputOf(archive.folders, UsedUpTo(current_folder))
    /\ total_folder_output \in 0..MaxTotalOutput
    /\ delivered = total_folder_output - (IF current_folder = 0 THEN 0
                                          ELSE Folder(current_folder).actual - folder_offset)
    /\ decodes = [f \in DOMAIN archive.folders |-> IF f \in UsedUpTo(current_folder) THEN 1 ELSE 0]
    /\ pc = "decode" =>
          /\ Admitted(Folder(Entry.folder))
          /\ maximum_output = Permitted(Folder(Entry.folder), MaxTotalOutput - total_folder_output)

SinkTyped ==
    sink \in [open : Nat, announced : Nat, received : Nat, start : Nat, last : Nat, finished : SUBSET Nat]

\* What the sink saw, and the member in progress.
Seen ==
    /\ SinkTyped
    /\ sink.finished = {e \in Extractable : e < entry}
    /\ sink.announced <= MaxEntryOutput
    /\ IF pc \in {"emptyfinish"} \cup InMember
       THEN sink.open = entry /\ sink.last = entry
       ELSE sink.open = 0 /\ sink.last < entry
    /\ pc = "emptyfinish" => sink.announced = 0 /\ sink.received = 0
    /\ pc \in InMember =>
          /\ end = LastByte(Folder(current_folder), next_substream + 1)
          /\ folder_offset = FirstByte(Folder(current_folder), next_substream + 1)
          /\ end <= Folder(current_folder).actual
          /\ end - folder_offset \in 0..MaxEntryOutput
          /\ written \in 0..(end - folder_offset)
          /\ sink.start = folder_offset /\ sink.announced = end - folder_offset
          /\ sink.received = written
    /\ pc = "write" => written < end - folder_offset
    /\ pc = "finish" => /\ written = end - folder_offset
                        /\ Substream.crc # "Other"

Running == Position /\ Delivering /\ Totals /\ Seen

Inv ==
    /\ Typed /\ Prompt
    /\ pc # "done" => Running
    /\ MembersGetTheirBytes /\ LimitsRespected /\ ExtractionVerdict

-----------------------------------------------------------------------------
\* What validation guarantees of the archive being extracted.
LEMMA Validated ==
    ASSUME Typed
    PROVE  /\ IsArchive(archive)
           /\ archive.folders \in Seq(FolderRecords)
           /\ Len(archive.entries) \in Nat /\ DOMAIN archive.entries = 1..Len(archive.entries)
           /\ Len(archive.folders) \in Nat /\ DOMAIN archive.folders = 1..Len(archive.folders)
           /\ \A f \in 1..Len(archive.folders) :
                  /\ Folder(f) = archive.folders[f] /\ Folder(f) \in FolderRecords
                  /\ Last(Folder(f)) \in Nat /\ Folder(f).actual \in Nat
           /\ \A e \in 1..Len(archive.entries) :
                  /\ archive.entries[e].kind \in {"file", "empty", "anti", "directory"}
                  /\ (archive.entries[e].kind = "file") <=> (e \in Streamed(archive))
           /\ MaxTotalOutput \in Nat /\ MaxEntryOutput \in Nat /\ ControlChunk \in Nat \ {0}
  <1>1. IsArchive(archive)
    BY ExtractionAssumption DEF Typed
  <1>2. archive.folders \in Seq(FolderRecords)
    BY <1>1 DEF IsArchive
  <1>3. \A f \in 1..Len(archive.folders) : Folder(f) = archive.folders[f] /\ Folder(f) \in FolderRecords
    BY <1>1, ArchiveFacts DEF Folder
  <1>4. \A f \in 1..Len(archive.folders) : Last(Folder(f)) \in Nat /\ Folder(f).actual \in Nat
    BY <1>3, FolderFacts
  <1> QED BY <1>1, <1>2, <1>3, <1>4, ArchiveFacts, LimitsAssumption

\* The member in progress is substream next_substream + 1 of the current folder.
LEMMA CurrentMember ==
    ASSUME Typed, Position, pc \in {"member"} \cup InMember
    PROVE  /\ entry \in Streamed(archive) /\ entry \in Nat
           /\ current_folder \in 1..Len(archive.folders)
           /\ Folder(current_folder) \in FolderRecords
           /\ Entry.folder = current_folder /\ Entry.substream = next_substream + 1
           /\ next_substream \in Nat
           /\ next_substream + 1 \in 1..Last(Folder(current_folder))
           /\ SlotOf(archive, entry) = <<current_folder, next_substream + 1>>
           /\ Placed(archive, entry + 1, current_folder, next_substream + 1)
  <1>1. /\ entry \in 1..Len(archive.entries) /\ Entry.kind = "file" /\ Entry.folder = current_folder
        /\ Placed(archive, entry, current_folder, next_substream)
    BY Validated DEF Position, InMember, Typed
  <1>2. entry \in Streamed(archive)
    BY <1>1, Validated DEF Entry
  <1>3. archive.entries[entry].substream = next_substream + 1
    BY <1>1, <1>2, Validated, NextInFolder DEF Entry
  <1>4. /\ Placed(archive, entry + 1, current_folder, next_substream + 1)
        /\ next_substream + 1 \in 1..Last(archive.folders[current_folder])
        /\ current_folder \in 1..Len(archive.folders)
    BY <1>1, <1>2, Validated, StepMember DEF Entry
  <1>5. entry \in Nat /\ next_substream \in Nat
    BY <1>1, Validated DEF Placed
  <1>6. Folder(current_folder) = archive.folders[current_folder] /\ Folder(current_folder) \in FolderRecords
    BY <1>4, Validated
  <1> QED BY <1>1, <1>2, <1>3, <1>4, <1>5, <1>6 DEF Entry, SlotOf

\* While the pass runs, the invariant implies the properties.
LEMMA DeliveredBounded ==
    ASSUME Typed, Running
    PROVE  delivered \in Int /\ delivered <= total_folder_output /\ total_folder_output \in Nat
  <1>1. total_folder_output \in Nat
    BY Validated DEF Running, Totals
  <1>2. CASE current_folder = 0
    BY <1>1, <1>2 DEF Running, Totals
  <1>3. CASE current_folder # 0
    <2>1. folder_offset \in 0..Folder(current_folder).actual
      BY <1>3 DEF Running, Delivering
    <2>2. Folder(current_folder).actual \in Nat
      BY <1>3, Validated DEF Running, Position, Placed
    <2> QED BY <1>1, <1>3, <2>1, <2>2 DEF Running, Totals
  <1> QED BY <1>2, <1>3

\* While the call runs, the three properties follow from the invariant.
LEMMA RunningIsGood ==
    Typed /\ Running /\ result = "none" => MembersGetTheirBytes /\ LimitsRespected /\ ExtractionVerdict
  <1> SUFFICES ASSUME Typed, Running, result = "none"
               PROVE  MembersGetTheirBytes /\ LimitsRespected /\ ExtractionVerdict
    OBVIOUS
  <1>1. Position /\ Delivering /\ Totals /\ Seen
    BY DEF Running
  <1>2. ASSUME sink.open # 0, archive.entries[sink.open].kind = "file"
        PROVE  LET slot == SlotOf(archive, sink.open)
               IN  /\ sink.start = FirstByte(Folder(slot[1]), slot[2])
                   /\ sink.start + sink.announced = LastByte(Folder(slot[1]), slot[2])
    <2>1. pc \in InMember /\ sink.open = entry
      BY <1>1, <1>2 DEF Seen, Position, Entry
    <2>2. SlotOf(archive, entry) = <<current_folder, next_substream + 1>>
          /\ Folder(current_folder) \in FolderRecords
          /\ next_substream + 1 \in 1..Last(Folder(current_folder))
      BY <1>1, <2>1, CurrentMember
    <2>3. /\ sink.start = FirstByte(Folder(current_folder), next_substream + 1)
          /\ sink.announced = end - folder_offset /\ sink.start = folder_offset
          /\ end = LastByte(Folder(current_folder), next_substream + 1)
      BY <1>1, <2>1 DEF Seen
    <2>4. sink.start \in Nat /\ end \in Nat
      BY <2>2, <2>3, ByteFacts
    <2> QED BY <2>1, <2>2, <2>3, <2>4
  <1>3. \A f \in DOMAIN decodes : decodes[f] <= 1
    BY <1>1 DEF Totals
  <1>4. MembersGetTheirBytes
    BY <1>2, <1>3 DEF MembersGetTheirBytes
  <1>5. delivered \in Int /\ delivered <= total_folder_output /\ total_folder_output \in Nat
    BY DeliveredBounded
  <1>6. total_folder_output <= MaxTotalOutput /\ sink.announced <= MaxEntryOutput
    BY <1>1, Validated DEF Totals, Seen
  <1>7. delivered + sink.received * (IF sink.open = 0 THEN 0 ELSE 1) <= total_folder_output
    <2>1. CASE sink.open = 0
      <3>1. sink.received \in Nat
        BY <1>1 DEF Seen, SinkTyped
      <3> QED BY <1>5, <2>1, <3>1
    <2>2. CASE pc = "emptyfinish"
      <3>1. sink.received = 0
        BY <1>1, <2>2 DEF Seen
      <3> QED BY <1>5, <3>1
    <2>3. CASE pc \in InMember
      <3>1. /\ current_folder \in 1..Len(archive.folders) /\ current_folder # 0
            /\ Folder(current_folder) \in FolderRecords
            /\ next_substream + 1 \in 1..Last(Folder(current_folder))
        BY <1>1, <2>3, Validated, CurrentMember
      <3>2. /\ delivered = total_folder_output - (Folder(current_folder).actual - folder_offset)
            /\ folder_offset \in 0..Folder(current_folder).actual
        BY <1>1, <3>1 DEF Totals, Delivering
      <3>3. /\ sink.received \in 0..(end - folder_offset) /\ end <= Folder(current_folder).actual
            /\ end = LastByte(Folder(current_folder), next_substream + 1)
        BY <1>1, <2>3 DEF Seen
      <3>4. end \in Nat /\ Folder(current_folder).actual \in Nat
        BY <3>1, <3>3, Validated, ByteFacts
      <3>5. delivered + sink.received <= total_folder_output
        BY <1>5, <3>2, <3>3, <3>4
      <3>6. CASE sink.open # 0
        <4>1. sink.received * 1 = sink.received
          BY <3>3, <3>4, <3>2
        <4> QED BY <3>5, <3>6, <4>1
      <3> QED BY <2>1, <3>6
    <2> QED BY <1>1, <2>1, <2>2, <2>3 DEF Seen
  <1>8. LimitsRespected
    BY <1>6, <1>7 DEF LimitsRespected
  <1> QED BY <1>4, <1>8 DEF ExtractionVerdict

\* The same of the state after a step.
LEMMA StillRunning ==
    ASSUME Typed', Prompt', Running', result' = "none"
    PROVE  Inv'
  <1>1. Typed' /\ Running' /\ (result = "none")' => (MembersGetTheirBytes /\ LimitsRespected /\ ExtractionVerdict)'
    BY RunningIsGood, PTL
  <1> QED BY <1>1 DEF Inv

Disturbances == {"Cancelled", "WorkUnits", "Sink", "Decode"}

(***************************************************************************)
(* An error: nothing else changes, and unless the pass was disturbed the   *)
(* archive cannot be extracted.                                            *)
(***************************************************************************)
LEMMA ErrorPreserves ==
    ASSUME Inv, pc # "done", NEW error, Returns(error),
           error \notin {"none", "Ok", "internal: substreams unmapped", "internal: mapping out of order"},
           error \in Disturbances \/ ~ExtractionSucceeds(archive),
           cancelled' \in BOOLEAN, late' \in Nat, late' <= 2, ~cancelled' => late' = 0,
           UNCHANGED <<archive, entry, loop, delivered, member, sink, decodes>>
    PROVE  Inv'
  <1>1. /\ archive' = archive /\ sink' = sink /\ decodes' = decodes /\ delivered' = delivered
        /\ total_folder_output' = total_folder_output /\ pc' = "done" /\ result' = error
    BY DEF Returns, loop
  <1>2. Typed' /\ Prompt'
    BY <1>1 DEF Inv, Typed, Prompt
  <1>3. MembersGetTheirBytes'
    <2>1. MembersGetTheirBytes
      BY DEF Inv
    <2>2. \A f : Folder(f)' = Folder(f)
      BY <1>1 DEF Folder
    <2> QED BY <1>1, <2>1, <2>2 DEF MembersGetTheirBytes
  <1>4. LimitsRespected'
    BY <1>1 DEF Inv, LimitsRespected
  <1>5. ExtractionVerdict'
    BY <1>1 DEF ExtractionVerdict, Disturbances
  <1> QED BY <1>1, <1>2, <1>3, <1>4, <1>5 DEF Inv

\* A call that fails for a reason of the archive or from outside keeps the
\* invariant.
LEMMA FailsPreserves ==
    ASSUME Inv, pc # "done", NEW error, Fails(error),
           error \notin {"none", "Ok", "internal: substreams unmapped", "internal: mapping out of order"},
           error \in Disturbances \/ ~ExtractionSucceeds(archive)
    PROVE  Inv'
  <1>1. cancelled' = cancelled /\ late' = late /\ Returns(error)
        /\ UNCHANGED <<archive, entry, loop, delivered, member, sink, decodes>>
    BY DEF Fails
  <1>2. cancelled \in BOOLEAN /\ late \in Nat /\ late <= 2 /\ (~cancelled => late = 0)
    BY DEF Inv, Typed, Prompt
  <1> QED BY <1>1, <1>2, ErrorPreserves

-----------------------------------------------------------------------------
(***************************************************************************)
(* What the steps that deliver nothing leave alone.                        *)
(***************************************************************************)
LEMMA DeliveringKept ==
    ASSUME Delivering, UNCHANGED <<archive, current_folder, next_substream, folder_offset>>
    PROVE  Delivering'
  <1>1. \A f : Folder(f)' = Folder(f)
    BY DEF Folder
  <1> QED BY <1>1 DEF Delivering

\* Steps that decode nothing keep the totals.
LEMMA TotalsKept ==
    ASSUME Totals, UNCHANGED <<archive, current_folder, folder_offset, total_folder_output, delivered, decodes>>,
           pc' # "decode"
    PROVE  Totals'
  <1>1. \A f : Folder(f)' = Folder(f)
    BY DEF Folder
  <1>2. \A c : UsedUpTo(c)' = UsedUpTo(c)
    BY <1>1 DEF UsedUpTo
  <1>3. UsedUpTo(current_folder)' = UsedUpTo(current_folder)
    BY <1>2
  <1> QED BY <1>1, <1>3 DEF Totals

\* The token and the count of late calls after a call of the sink.
SinkCalled ==
    /\ cancelled' \in {cancelled, TRUE}
    /\ late' = IF cancelled THEN late + 1 ELSE late

\* One call of the sink adds at most one after the token is set.
LEMMA LateCalls ==
    ASSUME Typed, Prompt, SinkCalled
    PROVE  /\ cancelled' \in BOOLEAN /\ late' \in Nat
           /\ ~cancelled' => late' = 0
           /\ late' <= late + 1
  <1>1. cancelled \in BOOLEAN /\ late \in Nat /\ (~cancelled => late = 0)
    BY DEF Typed, Prompt
  <1>2. CASE cancelled
    <2>1. late' = late + 1
      BY <1>2 DEF SinkCalled
    <2>2. cancelled' = cancelled \/ cancelled' = TRUE
      BY DEF SinkCalled
    <2>3. cancelled' /\ cancelled' \in BOOLEAN
      BY <1>1, <1>2, <2>2
    <2> QED BY <1>1, <2>1, <2>3
  <1>3. CASE ~cancelled
    <2>1. late' = 0 /\ late = 0
      BY <1>1, <1>3 DEF SinkCalled
    <2>2. cancelled' = cancelled \/ cancelled' = TRUE
      BY DEF SinkCalled
    <2>3. cancelled' \in BOOLEAN
      BY <1>1, <2>2
    <2> QED BY <2>1, <2>3
  <1> QED BY <1>2, <1>3

\* A sink that refuses a call ends the extraction.
LEMMA SinkFailurePreserves ==
    ASSUME Inv, pc # "done", late <= 1, SinkCalled, Returns("Sink"),
           UNCHANGED <<archive, entry, loop, delivered, member, sink, decodes>>
    PROVE  Inv'
  <1>1. Typed /\ Prompt /\ late \in Nat
    BY DEF Inv, Typed
  <1>2. cancelled' \in BOOLEAN /\ late' \in Nat /\ (~cancelled' => late' = 0) /\ late' <= 2
    BY <1>1, LateCalls
  <1> QED BY <1>2, ErrorPreserves DEF Disturbances

\* What holds while a call runs.
LEMMA RunningState ==
    ASSUME Inv, pc # "done"
    PROVE  Typed /\ Prompt /\ Position /\ Delivering /\ Totals /\ Seen /\ result = "none"
  BY DEF Inv, Typed, Running

-----------------------------------------------------------------------------
\* A call begins before the first entry.
LEMMA InitEstablishes == Init => Inv
  <1> SUFFICES ASSUME Init
               PROVE  Inv
    OBVIOUS
  <1>1. Typed /\ Prompt
    BY DEF Init, Typed, Prompt
  <1>2. IsArchive(archive) /\ Len(archive.entries) \in Nat /\ Len(archive.folders) \in Nat
        /\ archive.folders \in Seq(FolderRecords) /\ DOMAIN archive.entries = 1..Len(archive.entries)
        /\ MaxTotalOutput \in Nat /\ MaxEntryOutput \in Nat
    BY <1>1, Validated
  <1>3. Position
    <2>1. \A d \in Streamed(archive) : d \in 1..Len(archive.entries) /\ archive.entries[d].folder \in 1..Len(archive.folders)
      BY <1>2, MappingFacts
    <2>2. Placed(archive, 1, 0, 0)
      BY <1>2, <2>1 DEF Placed, Behind
    <2> QED BY <1>2, <2>2 DEF Init, Position, InMember
  <1>4. Delivering
    BY DEF Init, Delivering
  <1>5. Totals
    <2>1. UsedUpTo(0) = {}
      BY DEF UsedUpTo
    <2>2. OutputOf(archive.folders, {}) = 0
      BY <1>2, NoOutput
    <2>3. decodes = [f \in DOMAIN archive.folders |-> IF f \in UsedUpTo(0) THEN 1 ELSE 0]
      BY <2>1 DEF Init
    <2>4. total_folder_output = OutputOf(archive.folders, UsedUpTo(0))
      BY <2>1, <2>2 DEF Init
    <2> HIDE <2>2
    <2> QED BY <1>2, <2>3, <2>4 DEF Init, Totals
  <1>6. Seen
    <2>1. {e \in Extractable : e < 1} = {}
      BY <1>2 DEF Extractable
    <2> QED BY <1>2, <2>1 DEF Init, Seen, SinkTyped, InMember
  <1>7. result = "none"
    BY DEF Init
  <1> QED BY <1>1, <1>3, <1>4, <1>5, <1>6, <1>7, RunningIsGood DEF Inv, Running

\* The token may be set at any time.
LEMMA CancelPreserves ==
    ASSUME Inv, Cancel
    PROVE  Inv'
  <1>1. pc # "done" /\ ~cancelled /\ cancelled' = TRUE
        /\ UNCHANGED <<archive, pc, entry, loop, delivered, member, result, sink, decodes, late>>
    BY DEF Cancel
  <1>2. Typed /\ Prompt /\ Position /\ Delivering /\ Totals /\ Seen /\ result = "none"
    BY <1>1, RunningState
  <1>3. Typed' /\ Prompt'
    BY <1>1, <1>2 DEF Typed, Prompt
  <1>4. \A f : Folder(f)' = Folder(f)
    BY <1>1 DEF Folder
  <1>5. Position'
    BY <1>1, <1>2 DEF Position, Entry, loop
  <1>6. Delivering'
    BY <1>1, <1>2, DeliveringKept DEF loop
  <1>7. Totals'
    <2>1. UsedUpTo(current_folder)' = UsedUpTo(current_folder)
      BY <1>1, <1>4 DEF UsedUpTo, loop
    <2> QED BY <1>1, <1>2, <1>4, <2>1 DEF Totals, Entry, loop
  <1>8. Seen'
    <2>1. Extractable' = Extractable
      BY <1>1 DEF Extractable
    <2>2. Substream' = Substream
      BY <1>1, <1>4 DEF Substream, Substreams, loop
    <2> QED BY <1>1, <1>2, <1>4, <2>1, <2>2 DEF Seen, SinkTyped, loop, member
  <1> QED BY <1>1, <1>2, <1>3, <1>5, <1>6, <1>7, <1>8, StillRunning DEF Running

-----------------------------------------------------------------------------
(***************************************************************************)
(* The entries that were finished when the loop moves on.                  *)
(***************************************************************************)
LEMMA EarlierEntries ==
    ASSUME Typed, entry \in DOMAIN archive.entries
    PROVE  /\ entry \in Nat /\ Extractable \subseteq Nat
           /\ entry + 1 \in 1..(Len(archive.entries) + 1)
           /\ entry \in Extractable =>
                  {e \in Extractable : e < entry + 1} = {e \in Extractable : e < entry} \cup {entry}
           /\ entry \notin Extractable =>
                  {e \in Extractable : e < entry + 1} = {e \in Extractable : e < entry}
           /\ (entry \in Extractable) <=> (Entry.kind \in {"file", "empty"})
  <1>1. DOMAIN archive.entries = 1..Len(archive.entries) /\ Len(archive.entries) \in Nat
    BY Validated
  <1>2. Extractable \subseteq Nat /\ entry \in Nat
    BY <1>1 DEF Extractable
  <1>3. (entry \in Extractable) <=> (Entry.kind \in {"file", "empty"})
    BY DEF Extractable, Entry
  <1>4. ASSUME NEW e \in Extractable
        PROVE  (e < entry + 1) <=> (e < entry \/ e = entry)
    <2>1. e \in Nat
      BY <1>2
    <2> QED BY <1>2, <2>1
  <1>5. entry + 1 \in 1..(Len(archive.entries) + 1)
    BY <1>1
  <1>6. {e \in Extractable : e < entry + 1} = {e \in Extractable : e < entry \/ e = entry}
    BY <1>4
  <1>7. entry \in Extractable =>
            {e \in Extractable : e < entry \/ e = entry} = {e \in Extractable : e < entry} \cup {entry}
    OBVIOUS
  <1>8. entry \notin Extractable =>
            {e \in Extractable : e < entry \/ e = entry} = {e \in Extractable : e < entry}
    OBVIOUS
  <1> QED BY <1>2, <1>3, <1>5, <1>6, <1>7, <1>8

\* The next entry is looked at, or the entries are all done.
LEMMA NextEntryPreserves ==
    ASSUME Inv, NextEntry
    PROVE  Inv'
  <1>1. pc = "entry" /\ pc # "done" /\ entry <= Len(archive.entries)
        /\ Checkpoint(EnterStreamless \/ EnterStreamed)
    BY DEF NextEntry
  <1>2. Typed /\ Prompt /\ Position /\ Delivering /\ Totals /\ Seen /\ result = "none"
    BY <1>1, RunningState
  <1>3. entry \in DOMAIN archive.entries /\ entry \in 1..Len(archive.entries)
        /\ Placed(archive, entry, current_folder, next_substream) /\ IsArchive(archive)
    BY <1>1, <1>2, Validated DEF Position
  <1>4. CASE Fails("Cancelled") \/ Fails("WorkUnits")
    BY <1>1, <1>4, FailsPreserves DEF Disturbances
  <1>5. CASE ~cancelled /\ EnterStreamless
    <2>1. /\ UNCHANGED <<archive, cancelled, loop, delivered, member, result, sink, decodes, late>>
          /\ Entry.kind # "file"
          /\ IF Entry.kind = "empty" THEN pc' = "emptybegin" /\ UNCHANGED entry
             ELSE entry' = entry + 1 /\ UNCHANGED pc
      BY <1>5 DEF EnterStreamless
    <2>2. UNCHANGED <<archive, cancelled, current_folder, next_substream, folder_offset, total_folder_output,
                      delivered, decodes, late, result, sink>>
          /\ pc' \in {"emptybegin", "entry"}
      BY <1>1, <2>1 DEF loop
    <2>3. Typed' /\ Prompt'
      BY <1>1, <1>2, <1>5, <2>2 DEF Typed, Prompt
    <2>4. Delivering' /\ Totals'
      BY <1>2, <2>2, DeliveringKept, TotalsKept
    <2>5. Extractable' = Extractable
      BY <2>2 DEF Extractable
    <2>6. CASE Entry.kind = "empty"
      <3>1. pc' = "emptybegin" /\ entry' = entry
        BY <2>1, <2>6
      <3>2. Entry' = Entry
        BY <2>2, <3>1 DEF Entry
      <3>3. Position'
        BY <1>2, <1>3, <2>2, <2>6, <3>1, <3>2 DEF Position, InMember
      <3>4. Seen'
        BY <1>1, <1>2, <2>2, <2>5, <3>1 DEF Seen, SinkTyped, InMember
      <3> QED BY <1>2, <2>2, <2>3, <2>4, <3>3, <3>4, StillRunning DEF Running
    <2>7. CASE Entry.kind # "empty"
      <3>1. pc' = "entry" /\ entry' = entry + 1
        BY <1>1, <2>1, <2>7
      <3>2. entry \notin Streamed(archive) /\ entry \in Nat
        BY <1>2, <1>3, <2>1, Validated DEF Entry
      <3>3. Placed(archive, entry + 1, current_folder, next_substream)
        BY <1>3, <3>2, StepStreamless
      <3>4. /\ entry + 1 \in 1..(Len(archive.entries) + 1)
            /\ {e \in Extractable : e < entry + 1} = {e \in Extractable : e < entry}
        BY <1>2, <1>3, <2>1, <2>7, EarlierEntries
      <3>5. Position'
        BY <2>2, <3>1, <3>3, <3>4 DEF Position, InMember
      <3>6. sink.open = 0 /\ sink.last < entry /\ sink.last \in Nat /\ SinkTyped /\ sink.announced <= MaxEntryOutput
            /\ sink.finished = {e \in Extractable : e < entry}
        BY <1>1, <1>2 DEF Seen, SinkTyped, InMember
      <3>7. sink.last < entry + 1
        BY <3>2, <3>6
      <3>8. Seen'
        BY <2>2, <2>5, <3>1, <3>4, <3>6, <3>7 DEF Seen, SinkTyped, InMember
      <3> QED BY <1>2, <2>2, <2>3, <2>4, <3>5, <3>8, StillRunning DEF Running
    <2> QED BY <2>6, <2>7
  <1>6. CASE ~cancelled /\ EnterStreamed
    <2>1. /\ UNCHANGED <<archive, cancelled, entry, current_folder, next_substream, folder_offset,
                         total_folder_output, delivered, member, result, sink, decodes, late>>
          /\ Entry.kind = "file"
          /\ pc' = IF Entry.folder = current_folder THEN "member" ELSE "folder"
      BY <1>6 DEF EnterStreamed, loop
    <2>2. Typed' /\ Prompt'
      BY <1>1, <1>2, <1>6, <2>1 DEF Typed, Prompt
    <2>3. Delivering' /\ Totals'
      BY <1>2, <2>1, DeliveringKept, TotalsKept
    <2>4. Extractable' = Extractable /\ Entry' = Entry
      BY <2>1 DEF Extractable, Entry
    <2>5. Position'
      BY <1>2, <1>3, <2>1, <2>4 DEF Position, InMember
    <2>6. Seen'
      BY <1>1, <1>2, <2>1, <2>4 DEF Seen, SinkTyped, InMember
    <2> QED BY <1>2, <2>1, <2>2, <2>3, <2>5, <2>6, StillRunning DEF Running
  <1> QED BY <1>1, <1>4, <1>5, <1>6 DEF Checkpoint

\* What the sink knows after a call of it.
LEMMA SinkUpdates ==
    ASSUME SinkTyped, entry \in Nat
    PROVE  /\ \A size, start \in Nat :
                  /\ Begun(size, start) \in [open : Nat, announced : Nat, received : Nat, start : Nat,
                                             last : Nat, finished : SUBSET Nat]
                  /\ Begun(size, start).open = entry /\ Begun(size, start).last = entry
                  /\ Begun(size, start).announced = size /\ Begun(size, start).start = start
                  /\ Begun(size, start).received = 0 /\ Begun(size, start).finished = sink.finished
           /\ Finished \in [open : Nat, announced : Nat, received : Nat, start : Nat,
                            last : Nat, finished : SUBSET Nat]
           /\ Finished.finished = sink.finished \cup {entry}
           /\ Finished.open = 0 /\ Finished.last = sink.last
           /\ Finished.announced = sink.announced /\ Finished.received = sink.received
  BY DEF SinkTyped, Begun, Finished

\* An entry without a stream is begun.
LEMMA BeginEmptyEntryPreserves ==
    ASSUME Inv, BeginEmptyEntry
    PROVE  Inv'
  <1>1. /\ pc = "emptybegin" /\ pc # "done" /\ SinkCalled /\ UNCHANGED <<archive, decodes>>
        /\ \/ /\ sink' = Begun(0, 0) /\ pc' = "emptyfinish"
              /\ UNCHANGED <<entry, loop, delivered, member, result>>
           \/ Returns("Sink") /\ UNCHANGED <<entry, loop, delivered, member, sink>>
    BY DEF BeginEmptyEntry, SinkCall, SinkCalled
  <1>2. Typed /\ Prompt /\ Position /\ Delivering /\ Totals /\ Seen /\ result = "none"
    BY <1>1, RunningState
  <1>3. late = 0 /\ late <= 1
    BY <1>1, <1>2 DEF Prompt
  <1>4. CASE Returns("Sink") /\ UNCHANGED <<entry, loop, delivered, member, sink>>
    BY <1>1, <1>3, <1>4, SinkFailurePreserves
  <1>5. CASE sink' = Begun(0, 0) /\ pc' = "emptyfinish" /\ UNCHANGED <<entry, loop, delivered, member, result>>
    <2>1. UNCHANGED <<archive, entry, current_folder, next_substream, folder_offset, total_folder_output,
                      delivered, decodes, result>>
      BY <1>1, <1>5 DEF loop
    <2>2. cancelled' \in BOOLEAN /\ late' \in Nat /\ (~cancelled' => late' = 0) /\ late' <= 1
      BY <1>1, <1>2, <1>3, LateCalls
    <2>3. Typed' /\ Prompt'
      BY <1>2, <1>5, <2>1, <2>2 DEF Typed, Prompt
    <2>4. Delivering' /\ Totals'
      BY <1>2, <1>5, <2>1, DeliveringKept, TotalsKept
    <2>5. Extractable' = Extractable /\ Entry' = Entry
      BY <2>1 DEF Extractable, Entry
    <2>6. Position'
      BY <1>1, <1>2, <1>5, <2>1, <2>5 DEF Position, InMember
    <2>7. entry \in Nat /\ MaxEntryOutput \in Nat
      BY <1>2, Validated DEF Position
    <2>8. /\ sink' \in [open : Nat, announced : Nat, received : Nat, start : Nat, last : Nat, finished : SUBSET Nat]
          /\ sink'.open = entry /\ sink'.last = entry /\ sink'.announced = 0 /\ sink'.received = 0
          /\ sink'.finished = {e \in Extractable : e < entry}
      BY <1>2, <1>5, <2>7, SinkUpdates DEF Seen
    <2>9. Seen'
      BY <1>5, <2>1, <2>5, <2>7, <2>8 DEF Seen, SinkTyped, InMember
    <2> QED BY <1>2, <2>1, <2>3, <2>4, <2>6, <2>9, StillRunning DEF Running
  <1> QED BY <1>1, <1>4, <1>5

\* An entry without a stream is finished.
LEMMA FinishEmptyEntryPreserves ==
    ASSUME Inv, FinishEmptyEntry
    PROVE  Inv'
  <1>1. /\ pc = "emptyfinish" /\ pc # "done" /\ SinkCalled /\ UNCHANGED <<archive, decodes>>
        /\ \/ /\ sink' = Finished /\ pc' = "entry" /\ entry' = entry + 1
              /\ UNCHANGED <<loop, delivered, member, result>>
           \/ Returns("Sink") /\ UNCHANGED <<entry, loop, delivered, member, sink>>
    BY DEF FinishEmptyEntry, SinkCall, SinkCalled
  <1>2. Typed /\ Prompt /\ Position /\ Delivering /\ Totals /\ Seen /\ result = "none"
    BY <1>1, RunningState
  <1>3. late \in Nat /\ late <= 1
    BY <1>1, <1>2 DEF Prompt, Typed
  <1>4. CASE Returns("Sink") /\ UNCHANGED <<entry, loop, delivered, member, sink>>
    BY <1>1, <1>3, <1>4, SinkFailurePreserves
  <1>5. CASE sink' = Finished /\ pc' = "entry" /\ entry' = entry + 1 /\ UNCHANGED <<loop, delivered, member, result>>
    <2>1. UNCHANGED <<archive, current_folder, next_substream, folder_offset, total_folder_output,
                      delivered, decodes, result>>
      BY <1>1, <1>5 DEF loop
    <2>2. cancelled' \in BOOLEAN /\ late' \in Nat /\ (~cancelled' => late' = 0) /\ late' <= 2
      BY <1>1, <1>2, <1>3, LateCalls
    <2>3. Typed' /\ Prompt'
      BY <1>2, <1>5, <2>1, <2>2 DEF Typed, Prompt
    <2>4. Delivering' /\ Totals'
      BY <1>2, <1>5, <2>1, DeliveringKept, TotalsKept
    <2>5. entry \in DOMAIN archive.entries /\ Entry.kind = "empty"
          /\ Placed(archive, entry, current_folder, next_substream)
      BY <1>1, <1>2 DEF Position
    <2>6. entry \notin Streamed(archive) /\ IsArchive(archive)
      BY <1>2, <2>5, Validated DEF Entry
    <2>7. /\ entry \in Nat /\ entry + 1 \in 1..(Len(archive.entries) + 1)
          /\ {e \in Extractable : e < entry + 1} = {e \in Extractable : e < entry} \cup {entry}
      BY <1>2, <2>5, EarlierEntries
    <2>8. Placed(archive, entry + 1, current_folder, next_substream)
      BY <2>5, <2>6, <2>7, StepStreamless
    <2>9. Position'
      BY <1>5, <2>1, <2>7, <2>8 DEF Position, InMember
    <2>10. Extractable' = Extractable
      BY <2>1 DEF Extractable
    <2>11. /\ SinkTyped /\ sink.open = entry /\ sink.last = entry /\ sink.announced <= MaxEntryOutput
           /\ sink.finished = {e \in Extractable : e < entry}
      BY <1>1, <1>2 DEF Seen
    <2>12. /\ sink'.finished = sink.finished \cup {entry} /\ sink'.open = 0
           /\ sink'.last = entry /\ sink'.announced = sink.announced
           /\ sink' \in [open : Nat, announced : Nat, received : Nat, start : Nat, last : Nat, finished : SUBSET Nat]
      BY <1>5, <2>7, <2>11, SinkUpdates
    <2>13. Seen'
      BY <1>5, <2>7, <2>10, <2>11, <2>12 DEF Seen, SinkTyped, InMember
    <2> QED BY <1>2, <2>1, <2>3, <2>4, <2>9, <2>13, StillRunning DEF Running
  <1> QED BY <1>1, <1>4, <1>5

-----------------------------------------------------------------------------
(***************************************************************************)
(* The folder to decode next: the one before it is delivered, and only     *)
(* folders without members lie between.                                    *)
(***************************************************************************)
LEMMA FolderAhead ==
    ASSUME Typed, Position, pc \in {"folder", "decode"}
    PROVE  /\ entry \in Streamed(archive) /\ Entry.folder \in 1..Len(archive.folders)
           /\ Folder(Entry.folder) \in FolderRecords
           /\ current_folder \in 0..Len(archive.folders) /\ Entry.folder > current_folder
           /\ current_folder # 0 => next_substream = Last(Folder(current_folder))
           /\ Last(Folder(Entry.folder)) > 0
           /\ Placed(archive, entry, Entry.folder, 0)
           /\ Entry.folder \notin UsedUpTo(current_folder)
           /\ UsedUpTo(Entry.folder) = UsedUpTo(current_folder) \cup {Entry.folder}
           /\ \A h \in (current_folder + 1)..(Entry.folder - 1) : Last(Folder(h)) = 0
  <1>1. /\ entry \in DOMAIN archive.entries /\ Entry.kind = "file" /\ Entry.folder # current_folder
        /\ Placed(archive, entry, current_folder, next_substream)
    BY DEF Position
  <1>2. IsArchive(archive) /\ entry \in Streamed(archive)
    BY <1>1, Validated DEF Entry
  <1>3. Entry.folder \in 1..Len(archive.folders) /\ Len(archive.folders) \in Nat
    BY <1>2, MappingFacts, Validated DEF Entry
  <1>4. /\ Entry.folder > current_folder
        /\ current_folder # 0 => next_substream = Last(Folder(current_folder))
        /\ \A h \in (current_folder + 1)..(Entry.folder - 1) : Last(Folder(h)) = 0
        /\ Last(Folder(Entry.folder)) > 0
        /\ Placed(archive, entry, Entry.folder, 0)
    BY <1>1, <1>2, NextFolder DEF Entry, Folder
  <1>5. current_folder \in 0..Len(archive.folders)
    BY <1>1 DEF Placed
  <1>6. Entry.folder \notin UsedUpTo(current_folder)
    BY <1>3, <1>4, <1>5 DEF UsedUpTo
  <1>7. UsedUpTo(Entry.folder) = UsedUpTo(current_folder) \cup {Entry.folder}
    <2>1. ASSUME NEW f \in 1..Entry.folder, Last(Folder(f)) > 0
          PROVE  f = Entry.folder \/ f \in 1..current_folder
      <3>1. f \in (current_folder + 1)..(Entry.folder - 1) => Last(Folder(f)) = 0
        BY <1>4
      <3> QED BY <1>3, <1>5, <2>1, <3>1
    <2>2. ASSUME NEW f \in 1..current_folder
          PROVE  f \in 1..Entry.folder
      BY <1>3, <1>4, <1>5
    <2>3. Entry.folder \in 1..Entry.folder
      BY <1>3
    <2> QED BY <1>4, <2>1, <2>2, <2>3 DEF UsedUpTo
  <1> QED BY <1>2, <1>3, <1>4, <1>5, <1>6, <1>7, Validated

\* A folder that cannot be tiled, is corrupt or too large fails the archive.
LEMMA FolderUndeliverable ==
    ASSUME Typed, Position, Totals, pc \in {"folder", "decode"},
           \/ ~Tiled(Folder(Entry.folder)) \/ ~Sound(Folder(Entry.folder))
           \/ Folder(Entry.folder).actual > MaxTotalOutput - total_folder_output
    PROVE  ~ExtractionSucceeds(archive)
  <1> SUFFICES ASSUME ExtractionSucceeds(archive)
               PROVE  FALSE
    OBVIOUS
  <1> DEFINE used == {f \in DOMAIN archive.folders : Last(archive.folders[f]) > 0}
             g == Entry.folder
  <1>1. /\ \A f \in used : Tiled(archive.folders[f]) /\ Sound(archive.folders[f])
        /\ OutputOf(archive.folders, used) <= MaxTotalOutput
    BY DEF ExtractionSucceeds
  <1>2. /\ g \in 1..Len(archive.folders) /\ g \in DOMAIN archive.folders /\ Last(Folder(g)) > 0
        /\ g \notin UsedUpTo(current_folder) /\ current_folder \in 0..Len(archive.folders)
    BY FolderAhead, Validated
  <1>3. Folder(g) = archive.folders[g] /\ Folder(g).actual \in Nat
    BY <1>2, Validated
  <1>4. g \in used
    BY <1>2, <1>3
  <1>5. Folder(g).actual > MaxTotalOutput - total_folder_output
    BY <1>1, <1>3, <1>4
  <1>6. UsedUpTo(current_folder) \cup {g} \subseteq used
    <2>1. \A f \in 1..current_folder : f \in 1..Len(archive.folders)
      BY <1>2, Validated
    <2> QED BY <1>4, <2>1, Validated DEF UsedUpTo, Folder
  <1>7. /\ archive.folders \in Seq(FolderRecords)
        /\ total_folder_output = OutputOf(archive.folders, UsedUpTo(current_folder))
    BY Validated DEF Totals
  <1> HIDE DEF used, g
  <1>8. OutputOf(archive.folders, UsedUpTo(current_folder) \cup {g})
            = OutputOf(archive.folders, UsedUpTo(current_folder)) + archive.folders[g].actual
    BY <1>2, <1>7, OutputFacts
  <1>9. OutputOf(archive.folders, UsedUpTo(current_folder) \cup {g}) <= OutputOf(archive.folders, used)
    BY <1>6, <1>7, OutputGrows
  <1>10. OutputOf(archive.folders, used) \in Nat /\ total_folder_output \in Nat /\ MaxTotalOutput \in Nat
    BY <1>7, OutputFacts, Validated
  <1>11. OutputOf(archive.folders, UsedUpTo(current_folder) \cup {g}) = total_folder_output + Folder(g).actual
    BY <1>3, <1>7, <1>8
  <1> QED BY <1>1, <1>3, <1>5, <1>9, <1>10, <1>11

\* A folder is entered, preflighted, and follows the one before it.
LEMMA EnterFolderPreserves ==
    ASSUME Inv, EnterFolder
    PROVE  Inv'
  <1> DEFINE f == Folder(Entry.folder)
             remaining == MaxTotalOutput - total_folder_output
             Admit == IF Preflight(f, remaining) # "Ok" THEN Fails(Preflight(f, remaining))
                      ELSE /\ pc' = "decode"
                           /\ maximum_output' = Permitted(f, remaining)
                           /\ UNCHANGED <<archive, cancelled, entry, current_folder,
                                          next_substream, folder_offset,
                                          total_folder_output, delivered, member,
                                          result, sink, decodes, late>>
  <1>1. pc = "folder" /\ pc # "done" /\ pc \in {"folder", "decode"}
    BY DEF EnterFolder
  <1>2. Typed /\ Prompt /\ Position /\ Delivering /\ Totals /\ Seen /\ result = "none"
    BY <1>1, RunningState
  <1>3. current_folder # 0 => next_substream = Last(Folder(current_folder))
    BY <1>1, <1>2, FolderAhead
  <1>4. IF PreflightCheckpoints(f, remaining) THEN Checkpoint(Admit) ELSE Admit
    BY <1>3 DEF EnterFolder
  <1>5. Admit \/ Fails("Cancelled") \/ Fails("WorkUnits")
    BY <1>4 DEF Checkpoint
  <1>6. CASE Fails("Cancelled") \/ Fails("WorkUnits")
    BY <1>1, <1>6, FailsPreserves DEF Disturbances
  <1>7. f \in FolderRecords /\ remaining \in Nat
    BY <1>1, <1>2, FolderAhead, Validated DEF Totals
  <1>8. CASE Preflight(f, remaining) # "Ok" /\ Fails(Preflight(f, remaining))
    <2>1. Preflight(f, remaining) \in PreflightErrors /\ (~Tiled(f) \/ f.actual > remaining)
      BY <1>7, <1>8, PreflightFacts
    <2>2. ~ExtractionSucceeds(archive)
      BY <1>1, <1>2, <2>1, FolderUndeliverable
    <2>3. Preflight(f, remaining) \notin {"none", "Ok", "internal: substreams unmapped", "internal: mapping out of order"}
      BY <2>1 DEF PreflightErrors
    <2> HIDE DEF f, remaining
    <2> QED BY <1>1, <1>8, <2>2, <2>3, FailsPreserves
  <1>9. CASE Preflight(f, remaining) = "Ok" /\ Admit
    <2>1. /\ pc' = "decode" /\ maximum_output' = Permitted(f, remaining)
          /\ UNCHANGED <<archive, cancelled, entry, current_folder, next_substream, folder_offset,
                         total_folder_output, delivered, member, result, sink, decodes, late>>
      BY <1>9
    <2>2. Admitted(f)
      BY <1>7, <1>9, PreflightFacts
    <2>3. Typed' /\ Prompt'
      BY <1>1, <1>2, <2>1 DEF Typed, Prompt
    <2>4. Entry' = Entry /\ Extractable' = Extractable
      BY <2>1 DEF Entry, Extractable
    <2>5. Position'
      BY <1>1, <1>2, <2>1, <2>4 DEF Position, InMember
    <2>6. Delivering'
      BY <1>2, <2>1, DeliveringKept
    <2>7. Totals'
      <3>1. \A h : Folder(h)' = Folder(h)
        BY <2>1 DEF Folder
      <3>2. UsedUpTo(current_folder)' = UsedUpTo(current_folder)
        BY <2>1, <3>1 DEF UsedUpTo
      <3>3. Folder(Entry.folder)' = f
        BY <2>4, <3>1, <2>1 DEF Folder
      <3>4. Admitted(Folder(Entry.folder))'
        BY <2>2, <3>3
      <3>5. maximum_output' = Permitted(Folder(Entry.folder)', MaxTotalOutput - total_folder_output')
        BY <2>1, <3>3
      <3> HIDE DEF f, remaining
      <3> QED BY <1>2, <2>1, <3>1, <3>2, <3>4, <3>5 DEF Totals
    <2>8. Seen'
      BY <1>1, <1>2, <2>1, <2>4 DEF Seen, SinkTyped, InMember
    <2> QED BY <1>2, <2>1, <2>3, <2>5, <2>6, <2>7, <2>8, StillRunning DEF Running
  <1> QED BY <1>5, <1>6, <1>8, <1>9

\* When the pass moves on, the folder it leaves was sound and tiled.
LEMMA FolderDelivered ==
    ASSUME Typed, Position, Delivering, Totals, current_folder # 0,
           next_substream = Last(Folder(current_folder))
    PROVE  /\ Tiled(Folder(current_folder)) /\ Sound(Folder(current_folder))
           /\ folder_offset = Folder(current_folder).actual
           /\ delivered = total_folder_output
  <1> DEFINE f == Folder(current_folder)
  <1>1. f \in FolderRecords /\ f.actual \in Nat /\ total_folder_output \in Nat /\ Last(f) \in Nat
    BY Validated DEF Position, Placed, Totals
  <1>2. /\ Admitted(f) /\ ~f.crc_mismatch /\ Last(f) > 0
        /\ folder_offset = LastByte(f, Last(f))
        /\ \A s \in 1..Last(f) : Given(f, s)
    BY DEF Delivering
  <1>3. delivered = total_folder_output - (f.actual - folder_offset)
    BY DEF Totals
  <1> HIDE DEF f
  <1>4. folder_offset = f.actual
    BY <1>1, <1>2, AdmittedFacts
  <1>5. Tiled(f)
    <2>1. \A s \in 1..Last(f) : LastByte(f, s) - FirstByte(f, s) \in 0..MaxEntryOutput
      BY <1>2 DEF Given
    <2> QED BY <1>1, <1>2, <2>1, DeliveredIsTiled
  <1>6. Sound(f)
    BY <1>2 DEF Sound, Given
  <1>7. delivered = total_folder_output
    BY <1>1, <1>3, <1>4
  <1> QED BY <1>4, <1>5, <1>6, <1>7 DEF f

\* The folder was decoded, within what remained.
LEMMA Decoded ==
    ASSUME Typed, Position, Totals, pc = "decode", Folder(Entry.folder).actual <= maximum_output
    PROVE  /\ total_folder_output + Folder(Entry.folder).actual \in 0..MaxTotalOutput
           /\ total_folder_output + Folder(Entry.folder).actual
                = OutputOf(archive.folders, UsedUpTo(Entry.folder))
           /\ [decodes EXCEPT ![Entry.folder] = @ + 1]
                = [f \in DOMAIN archive.folders |-> IF f \in UsedUpTo(Entry.folder) THEN 1 ELSE 0]
  <1> DEFINE g == Entry.folder
  <1>1. /\ g \in 1..Len(archive.folders) /\ Folder(g) \in FolderRecords
        /\ g \notin UsedUpTo(current_folder) /\ UsedUpTo(g) = UsedUpTo(current_folder) \cup {g}
    BY FolderAhead
  <1>2. /\ Folder(g).actual \in Nat /\ Folder(g) = archive.folders[g] /\ MaxTotalOutput \in Nat
        /\ archive.folders \in Seq(FolderRecords) /\ DOMAIN archive.folders = 1..Len(archive.folders)
    BY <1>1, Validated
  <1>3. /\ total_folder_output \in 0..MaxTotalOutput
        /\ total_folder_output = OutputOf(archive.folders, UsedUpTo(current_folder))
        /\ decodes = [f \in DOMAIN archive.folders |-> IF f \in UsedUpTo(current_folder) THEN 1 ELSE 0]
        /\ maximum_output = Permitted(Folder(g), MaxTotalOutput - total_folder_output)
    BY DEF Totals
  <1>4. Folder(g).actual <= maximum_output
    OBVIOUS
  <1> HIDE DEF g
  <1>5. MaxTotalOutput - total_folder_output \in Nat
    BY <1>2, <1>3
  <1>6. maximum_output \in Nat /\ maximum_output <= MaxTotalOutput - total_folder_output
    BY <1>1, <1>3, <1>5, PermittedFacts
  <1>7. total_folder_output + Folder(g).actual \in 0..MaxTotalOutput
    BY <1>2, <1>3, <1>4, <1>6
  <1>8. OutputOf(archive.folders, UsedUpTo(g)) = total_folder_output + Folder(g).actual
    BY <1>1, <1>2, <1>3, OutputFacts
  <1>9. [decodes EXCEPT ![g] = @ + 1] = [f \in DOMAIN archive.folders |-> IF f \in UsedUpTo(g) THEN 1 ELSE 0]
    <2>1. decodes[g] = 0 /\ g \in DOMAIN archive.folders
      BY <1>1, <1>2, <1>3
    <2>2. decodes[g] + 1 = 1
      BY <2>1
    <2> QED BY <1>1, <1>3, <2>1, <2>2
  <1> QED BY <1>7, <1>8, <1>9 DEF g

\* A folder is decoded, and its output counted.
LEMMA DecodeFolderPreserves ==
    ASSUME Inv, DecodeFolder
    PROVE  Inv'
  <1> DEFINE g == Entry.folder
             total == total_folder_output + Folder(g).actual
  <1>1. pc = "decode" /\ pc # "done" /\ pc \in {"folder", "decode"}
    BY DEF DecodeFolder
  <1>2. Typed /\ Prompt /\ Position /\ Delivering /\ Totals /\ Seen /\ result = "none"
    BY <1>1, RunningState
  <1>3. /\ entry \in Streamed(archive) /\ g \in 1..Len(archive.folders)
        /\ Folder(g) \in FolderRecords /\ Folder(g).actual \in Nat
        /\ current_folder \in 0..Len(archive.folders) /\ g > current_folder
        /\ current_folder # 0 => next_substream = Last(Folder(current_folder))
        /\ Last(Folder(g)) > 0 /\ Placed(archive, entry, g, 0)
        /\ \A h \in (current_folder + 1)..(g - 1) : Last(Folder(h)) = 0
    BY <1>1, <1>2, FolderAhead, Validated
  <1>4. /\ Admitted(Folder(g)) /\ total_folder_output \in 0..MaxTotalOutput /\ MaxTotalOutput \in Nat
        /\ maximum_output = Permitted(Folder(g), MaxTotalOutput - total_folder_output)
    BY <1>1, <1>2, Validated DEF Totals
  <1>5. CASE Fails("Decode") \/ Fails("Cancelled")
    BY <1>1, <1>5, FailsPreserves DEF Disturbances
  <1>6. CASE Folder(g).actual > maximum_output /\ Fails("TotalOutputBytes")
    <2>1. MaxTotalOutput - total_folder_output \in Nat
      BY <1>4
    <2>2. Permitted(Folder(g), MaxTotalOutput - total_folder_output) \in Nat
      BY <1>3, <2>1, PermittedFacts
    <2>3. Permitted(Folder(g), MaxTotalOutput - total_folder_output) < Folder(g).actual
      BY <1>3, <1>4, <1>6, <2>2
    <2>4. ~Tiled(Folder(g)) \/ Folder(g).actual > MaxTotalOutput - total_folder_output
      BY <1>3, <1>4, <2>1, <2>3, PermittedFacts
    <2>5. ~ExtractionSucceeds(archive)
      BY <1>1, <1>2, <2>4, FolderUndeliverable
    <2> QED BY <1>1, <1>6, <2>5, FailsPreserves
  <1>7. CASE /\ ~cancelled /\ Folder(g).actual <= maximum_output
             /\ decodes' = [decodes EXCEPT ![g] = @ + 1]
             /\ total_folder_output' = total
             /\ IF total > MaxTotalOutput
                THEN /\ Returns("TotalOutputBytes")
                     /\ UNCHANGED <<current_folder, next_substream, folder_offset>>
                ELSE IF Folder(g).crc_mismatch
                THEN /\ Returns(Integrity(Folder(g), "FolderChecksum"))
                     /\ UNCHANGED <<current_folder, next_substream, folder_offset>>
                ELSE /\ pc' = "member" /\ UNCHANGED result
                     /\ current_folder' = g
                     /\ next_substream' = 0 /\ folder_offset' = 0
             /\ UNCHANGED <<archive, cancelled, entry, maximum_output, delivered, member, sink, late>>
    <2>1. /\ total \in 0..MaxTotalOutput
          /\ total = OutputOf(archive.folders, UsedUpTo(g))
          /\ decodes' = [f \in DOMAIN archive.folders |-> IF f \in UsedUpTo(g) THEN 1 ELSE 0]
      BY <1>1, <1>2, <1>7, Decoded
    <2>2. ~(total > MaxTotalOutput)
      BY <1>4, <2>1
    <2>3. \A h : Folder(h)' = Folder(h)
      BY <1>7 DEF Folder
    <2>4. sink.open = 0 /\ sink.announced <= MaxEntryOutput /\ sink.received \in Nat
      BY <1>1, <1>2 DEF Seen, InMember, SinkTyped
    <2>5. CASE Folder(g).crc_mismatch
      <3>1. /\ Returns(Integrity(Folder(g), "FolderChecksum"))
            /\ UNCHANGED <<archive, cancelled, current_folder, sink, late, delivered>>
        BY <1>7, <2>2, <2>5
      <3>2. result' \in {"WrongPasswordOrCorrupt", "FolderChecksum"} /\ pc' = "done"
        BY <3>1 DEF Returns, Integrity
      <3>3. ~ExtractionSucceeds(archive)
        <4>1. ~Sound(Folder(g))
          BY <2>5 DEF Sound
        <4> QED BY <1>1, <1>2, <4>1, FolderUndeliverable
      <3>4. Typed' /\ Prompt'
        BY <1>2, <3>1, <3>2 DEF Typed, Prompt
      <3>5. MembersGetTheirBytes'
        <4>1. \A f \in DOMAIN decodes' : decodes'[f] <= 1
          BY <2>1
        <4> QED BY <2>4, <3>1, <3>2, <4>1 DEF MembersGetTheirBytes
      <3>6. LimitsRespected'
        <4>1. delivered \in Int /\ delivered <= total_folder_output /\ total_folder_output \in Nat
          BY <1>2, DeliveredBounded DEF Running
        <4>2. total_folder_output' <= MaxTotalOutput /\ delivered <= total_folder_output'
          BY <1>3, <1>4, <1>7, <2>1, <4>1
        <4>3. delivered' + sink'.received * 0 = delivered
          BY <2>4, <3>1, <4>1
        <4> QED BY <2>4, <3>1, <4>2, <4>3 DEF LimitsRespected
      <3>7. ExtractionVerdict'
        BY <3>1, <3>2, <3>3 DEF ExtractionVerdict
      <3> QED BY <3>2, <3>4, <3>5, <3>6, <3>7 DEF Inv
    <2>6. CASE ~Folder(g).crc_mismatch
      <3>1. /\ pc' = "member" /\ current_folder' = g /\ next_substream' = 0 /\ folder_offset' = 0
            /\ UNCHANGED <<archive, cancelled, entry, delivered, member, sink, late, result>>
        BY <1>7, <2>2, <2>6
      <3>2. Entry' = Entry /\ Extractable' = Extractable
        BY <3>1 DEF Entry, Extractable
      <3>3. Typed' /\ Prompt'
        BY <1>1, <1>2, <3>1 DEF Typed, Prompt
      <3>4. Position'
        <4>1. Entry'.kind = "file" /\ Entry'.folder = current_folder'
          BY <1>1, <1>2, <3>1, <3>2 DEF Position
        <4>2. Placed(archive, entry, g, 0)'
          BY <1>3, <3>1, <3>2
        <4> QED BY <1>1, <1>2, <3>1, <4>1, <4>2 DEF Position, InMember
      <3>5. Delivering'
        <4>1. ASSUME NEW f \in 1..(g - 1), Last(Folder(f)) > 0
              PROVE  Tiled(Folder(f)) /\ Sound(Folder(f))
          <5>1. CASE f \in 1..(current_folder - 1)
            BY <1>2, <4>1, <5>1 DEF Delivering
          <5>2. CASE f = current_folder
            BY <1>2, <1>3, <5>2, FolderDelivered
          <5>3. CASE f \in (current_folder + 1)..(g - 1)
            BY <1>3, <4>1, <5>3
          <5> QED BY <1>3, <5>1, <5>2, <5>3
        <4>2. \A f \in 1..(current_folder' - 1) :
                 Last(Folder(f)') > 0 => Tiled(Folder(f)') /\ Sound(Folder(f)')
          BY <2>3, <3>1, <4>1
        <4>3. Folder(current_folder)' = Folder(g)
          BY <3>1 DEF Folder
        <4>4. /\ Admitted(Folder(g)) /\ ~Folder(g).crc_mismatch /\ Last(Folder(g)) > 0
              /\ 0 \in 0..Folder(g).actual
          BY <1>3, <1>4, <2>6
        <4> HIDE DEF g
        <4>5. current_folder' # 0 =>
                 /\ Admitted(Folder(current_folder)') /\ ~Folder(current_folder)'.crc_mismatch
                 /\ Last(Folder(current_folder)') > 0
                 /\ folder_offset' = IF next_substream' = 0 THEN 0
                                     ELSE LastByte(Folder(current_folder)', next_substream')
                 /\ folder_offset' \in 0..Folder(current_folder)'.actual
                 /\ \A s \in 1..next_substream' : Given(Folder(current_folder)', s)
          BY <3>1, <4>3, <4>4
        <4>6. current_folder' = 0 => folder_offset' = 0
          BY <3>1
        <4> QED BY <4>2, <4>5, <4>6 DEF Delivering
      <3>6. Totals'
        <4>1. delivered = total_folder_output
          <5>1. CASE current_folder = 0
            BY <1>2, <1>4, <5>1 DEF Totals
          <5>2. CASE current_folder # 0
            BY <1>2, <1>3, <5>2, FolderDelivered
          <5> QED BY <5>1, <5>2
        <4>2. current_folder' # 0 /\ Folder(current_folder)' = Folder(g)
          BY <1>3, <3>1 DEF Folder
        <4>3. delivered' = total_folder_output' - (Folder(current_folder)'.actual - folder_offset')
          BY <1>3, <1>4, <1>7, <3>1, <4>1, <4>2
        <4>4. UsedUpTo(current_folder)' = UsedUpTo(g)
          BY <2>3, <3>1 DEF UsedUpTo
        <4>5. total_folder_output' = total
          BY <1>7
        <4> HIDE DEF g, total
        <4> QED BY <2>1, <3>1, <4>2, <4>3, <4>4, <4>5 DEF Totals
      <3>7. Seen'
        BY <1>1, <1>2, <3>1, <3>2 DEF Seen, SinkTyped, InMember
      <3> QED BY <1>2, <3>1, <3>3, <3>4, <3>5, <3>6, <3>7, StillRunning DEF Running
    <2> QED BY <2>5, <2>6
  <1> QED BY <1>1, <1>5, <1>6, <1>7 DEF DecodeFolder

-----------------------------------------------------------------------------
(***************************************************************************)
(* The member in progress.                                                 *)
(***************************************************************************)
LEMMA MemberBytes ==
    ASSUME Typed, Position, Delivering, pc \in {"member"} \cup InMember
    PROVE  LET f == Folder(current_folder)
               s == next_substream + 1
           IN  /\ f \in FolderRecords /\ s \in 1..Last(f) /\ current_folder # 0
               /\ Admitted(f) /\ f.actual \in Nat
               /\ folder_offset = FirstByte(f, s) /\ folder_offset \in 0..f.actual
               /\ MemberEnd = LastByte(f, s) /\ MemberEnd \in Nat
               /\ SizeOf(f, s) = Unknown => s = Last(f)
               /\ MemberEnd >= folder_offset
  <1> DEFINE f == Folder(current_folder)
             s == next_substream + 1
  <1>1. /\ f \in FolderRecords /\ s \in 1..Last(f) /\ current_folder # 0 /\ next_substream \in Nat
        /\ current_folder \in 1..Len(archive.folders) /\ f.actual \in Nat
    BY CurrentMember, Validated
  <1>2. /\ Admitted(f) /\ folder_offset \in 0..f.actual
        /\ folder_offset = IF next_substream = 0 THEN 0 ELSE LastByte(f, next_substream)
    BY <1>1 DEF Delivering
  <1>3. SizeOf(f, s) = Substream.size
    BY DEF SizeOf, Substream, Substreams
  <1>4. MemberEnd = IF SizeOf(f, s) # Unknown THEN folder_offset + SizeOf(f, s) ELSE f.actual
    BY <1>3 DEF MemberEnd
  <1>5. Last(f) \in Nat
    BY <1>1, FolderFacts
  <1> HIDE DEF f
  <1>6. folder_offset = FirstByte(f, s)
    <2>1. CASE next_substream = 0
      <3>1. s - 1 = 0
        BY <2>1
      <3>2. FirstByte(f, s) = KnownSum(f, 0)
        BY <3>1 DEF FirstByte
      <3> QED BY <1>1, <1>2, <2>1, <3>2, KnownSumFacts
    <2>2. CASE next_substream # 0
      <3>1. next_substream \in 1..Last(f) /\ next_substream < Last(f)
        BY <1>1, <1>5, <2>2
      <3>2. FirstByte(f, next_substream + 1) = LastByte(f, next_substream)
        BY <1>1, <1>2, <3>1, AdmittedFacts
      <3> QED BY <1>2, <2>2, <3>2
    <2> QED BY <2>1, <2>2
  <1> HIDE DEF s
  <1>7. MemberEnd = LastByte(f, s)
    BY <1>4, <1>6 DEF LastByte
  <1>8. SizeOf(f, s) = Unknown => s = Last(f)
    BY <1>1, <1>2, AdmittedFacts
  <1>9. MemberEnd \in Nat /\ (SizeOf(f, s) # Unknown => SizeOf(f, s) \in Nat)
    BY <1>1, <1>7, ByteFacts
  <1>10. MemberEnd >= folder_offset
    BY <1>1, <1>2, <1>4, <1>9
  <1> QED BY <1>1, <1>2, <1>6, <1>7, <1>8, <1>9, <1>10 DEF f, s

\* So does the folder whose members are being delivered.
LEMMA CurrentUndeliverable ==
    ASSUME Typed, Position, pc \in {"member"} \cup InMember,
           ~Tiled(Folder(current_folder)) \/ ~Sound(Folder(current_folder))
    PROVE  ~ExtractionSucceeds(archive)
  <1>1. /\ current_folder \in 1..Len(archive.folders)
        /\ next_substream + 1 \in 1..Last(Folder(current_folder))
        /\ Folder(current_folder) = archive.folders[current_folder]
        /\ Last(Folder(current_folder)) \in Nat
    BY CurrentMember, Validated
  <1>2. current_folder \in DOMAIN archive.folders /\ Last(archive.folders[current_folder]) > 0
    BY <1>1, Validated
  <1> QED BY <1>1, <1>2 DEF ExtractionSucceeds

\* A member's bounds are computed and the sink told of it.
LEMMA BeginMemberPreserves ==
    ASSUME Inv, BeginMember
    PROVE  Inv'
  <1> DEFINE f == Folder(current_folder)
             s == next_substream + 1
             Begin == /\ sink' = Begun(MemberEnd - folder_offset, folder_offset)
                      /\ pc' = "chunk" /\ end' = MemberEnd /\ written' = 0
                      /\ UNCHANGED <<entry, loop, delivered>>
  <1>1. pc = "member" /\ pc # "done" /\ pc \in {"member"} \cup InMember
    BY DEF BeginMember
  <1>2. Typed /\ Prompt /\ Position /\ Delivering /\ Totals /\ Seen /\ result = "none"
    BY <1>1, RunningState
  <1>3. /\ f \in FolderRecords /\ s \in 1..Last(f) /\ current_folder # 0
        /\ Admitted(f) /\ f.actual \in Nat
        /\ folder_offset = FirstByte(f, s) /\ folder_offset \in 0..f.actual
        /\ MemberEnd = LastByte(f, s) /\ MemberEnd \in Nat
        /\ SizeOf(f, s) = Unknown => s = Last(f)
        /\ MemberEnd >= folder_offset
    BY <1>1, <1>2, MemberBytes
  <1>4. Entry.substream = next_substream + 1
    BY <1>1, <1>2, CurrentMember
  <1>5. ~(Substream.size = Unknown /\ next_substream + 1 # Last(Folder(current_folder)))
    BY <1>3 DEF SizeOf, Substream, Substreams
  <1>6. IF MemberEnd > f.actual THEN Fails("Format")
        ELSE IF MemberEnd - folder_offset > MaxEntryOutput THEN Fails("EntryOutputBytes")
        ELSE SinkCall(Begin)
    BY <1>4, <1>5 DEF BeginMember
  <1>7. CASE MemberEnd > f.actual \/ MemberEnd - folder_offset > MaxEntryOutput
    <2>1. ~Tiled(f)
      <3> HIDE DEF f, s
      <3> QED BY <1>3, <1>7, OverrunIsNotTiled
    <2>2. ~ExtractionSucceeds(archive)
      BY <1>1, <1>2, <2>1, CurrentUndeliverable
    <2> HIDE DEF f, s
    <2>3. Fails("Format") \/ Fails("EntryOutputBytes")
      BY <1>6, <1>7
    <2> QED BY <1>1, <2>2, <2>3, FailsPreserves
  <1>8. CASE ~(MemberEnd > f.actual) /\ ~(MemberEnd - folder_offset > MaxEntryOutput)
    <2>1. SinkCall(Begin)
      BY <1>6, <1>8
    <2>2. /\ SinkCalled /\ UNCHANGED <<archive, decodes>>
          /\ \/ Begin /\ UNCHANGED result
             \/ Returns("Sink") /\ UNCHANGED <<entry, loop, delivered, member, sink>>
      BY <2>1 DEF SinkCall, SinkCalled
    <2>3. late = 0 /\ late <= 1
      BY <1>1, <1>2 DEF Prompt
    <2>4. CASE Returns("Sink") /\ UNCHANGED <<entry, loop, delivered, member, sink>>
      BY <1>1, <2>2, <2>3, <2>4, SinkFailurePreserves
    <2>5. CASE Begin /\ UNCHANGED result
      <3>1. /\ UNCHANGED <<archive, entry, current_folder, next_substream, folder_offset, total_folder_output,
                           delivered, decodes, result>>
            /\ pc' = "chunk" /\ end' = MemberEnd /\ written' = 0
            /\ sink' = Begun(MemberEnd - folder_offset, folder_offset)
        BY <2>2, <2>5 DEF loop
      <3>2. cancelled' \in BOOLEAN /\ late' \in Nat /\ (~cancelled' => late' = 0) /\ late' <= 1
        BY <1>2, <2>2, <2>3, LateCalls
      <3>3. Typed' /\ Prompt'
        BY <1>2, <3>1, <3>2 DEF Typed, Prompt
      <3>4. Delivering' /\ Totals'
        BY <1>2, <3>1, DeliveringKept, TotalsKept
      <3>5. Extractable' = Extractable /\ Entry' = Entry
        BY <3>1 DEF Extractable, Entry
      <3>6. Position'
        BY <1>1, <1>2, <3>1, <3>5 DEF Position, InMember
      <3>7. /\ entry \in Nat /\ MaxEntryOutput \in Nat
            /\ MemberEnd - folder_offset \in 0..MaxEntryOutput /\ MemberEnd - folder_offset \in Nat
            /\ folder_offset \in Nat /\ MemberEnd <= f.actual
        <4>1. entry \in Nat /\ MaxEntryOutput \in Nat
          BY <1>2, Validated DEF Position
        <4>2. folder_offset \in Nat /\ MemberEnd \in Nat /\ f.actual \in Nat /\ MemberEnd >= folder_offset
          BY <1>3
        <4> HIDE DEF f, s, Begin
        <4> QED BY <4>1, <4>2, <1>8
      <3>8. /\ sink' \in [open : Nat, announced : Nat, received : Nat, start : Nat, last : Nat, finished : SUBSET Nat]
            /\ sink'.open = entry /\ sink'.last = entry /\ sink'.received = 0
            /\ sink'.announced = MemberEnd - folder_offset /\ sink'.start = folder_offset
            /\ sink'.finished = {e \in Extractable : e < entry}
        <4> DEFINE size == MemberEnd - folder_offset
        <4>1. SinkTyped /\ sink.finished = {e \in Extractable : e < entry}
          BY <1>2 DEF Seen
        <4>2. size \in Nat /\ folder_offset \in Nat /\ entry \in Nat /\ sink' = Begun(size, folder_offset)
          BY <3>1, <3>7
        <4> HIDE DEF f, s, Begin, size
        <4>3. /\ Begun(size, folder_offset) \in [open : Nat, announced : Nat, received : Nat, start : Nat,
                                                  last : Nat, finished : SUBSET Nat]
              /\ Begun(size, folder_offset).open = entry /\ Begun(size, folder_offset).last = entry
              /\ Begun(size, folder_offset).announced = size /\ Begun(size, folder_offset).start = folder_offset
              /\ Begun(size, folder_offset).received = 0 /\ Begun(size, folder_offset).finished = sink.finished
          BY <4>1, <4>2 DEF SinkTyped, Begun
        <4> QED BY <4>1, <4>2, <4>3, Zenon DEF size
      <3>9. Folder(current_folder)' = f
        BY <3>1 DEF Folder
      <3>10. /\ end' = LastByte(Folder(current_folder)', next_substream' + 1)
             /\ folder_offset' = FirstByte(Folder(current_folder)', next_substream' + 1)
             /\ end' <= Folder(current_folder)'.actual
             /\ end' - folder_offset' \in 0..MaxEntryOutput
             /\ written' \in 0..(end' - folder_offset')
             /\ sink'.start = folder_offset' /\ sink'.announced = end' - folder_offset'
             /\ sink'.received = written'
        BY <1>3, <3>1, <3>7, <3>8, <3>9
      <3>11. Seen'
        <4>1. sink'.announced <= MaxEntryOutput
          BY <3>7, <3>8
        <4> HIDE DEF f, s, Begin
        <4> QED BY <3>1, <3>5, <3>8, <3>10, <4>1 DEF Seen, SinkTyped, InMember
      <3> QED BY <1>2, <3>1, <3>3, <3>4, <3>6, <3>11, StillRunning DEF Running
    <2> QED BY <2>2, <2>4, <2>5
  <1> QED BY <1>7, <1>8

\* A step within the member leaves the rest of the state alone.
LEMMA WithinMember ==
    ASSUME Inv, pc \in InMember, pc' \in InMember, result' = result,
           UNCHANGED <<archive, entry, loop, delivered, end, decodes>>,
           Typed', Prompt', Seen'
    PROVE  Inv'
  <1>1. Typed /\ Prompt /\ Position /\ Delivering /\ Totals /\ Seen /\ result = "none"
    BY RunningState DEF InMember
  <1>2. UNCHANGED <<archive, entry, current_folder, next_substream, folder_offset, total_folder_output,
                    delivered, decodes>> /\ pc' # "decode"
    BY DEF loop, InMember
  <1>3. Delivering' /\ Totals'
    BY <1>1, <1>2, DeliveringKept, TotalsKept
  <1>4. Entry' = Entry
    BY <1>2 DEF Entry
  <1>5. Position'
    BY <1>1, <1>2, <1>4 DEF Position, InMember
  <1> QED BY <1>1, <1>3, <1>5, StillRunning DEF Running

\* A chunk passes its checkpoint, or the call ends.
LEMMA CheckpointChunkPreserves ==
    ASSUME Inv, CheckpointChunk
    PROVE  Inv'
  <1>1. /\ pc = "chunk" /\ pc # "done" /\ written < end - folder_offset
        /\ \/ Fails("Cancelled") \/ Fails("WorkUnits")
           \/ /\ ~cancelled /\ pc' = "write"
              /\ UNCHANGED <<archive, cancelled, entry, loop, delivered, member, result, sink, decodes, late>>
    BY DEF CheckpointChunk, Checkpoint
  <1>2. Typed /\ Prompt /\ Position /\ Delivering /\ Totals /\ Seen /\ result = "none"
    BY <1>1, RunningState
  <1>3. CASE Fails("Cancelled") \/ Fails("WorkUnits")
    BY <1>1, <1>3, FailsPreserves DEF Disturbances
  <1>4. CASE /\ ~cancelled /\ pc' = "write"
             /\ UNCHANGED <<archive, cancelled, entry, loop, delivered, member, result, sink, decodes, late>>
    <2>1. Typed' /\ Prompt'
      BY <1>1, <1>2, <1>4 DEF Typed, Prompt
    <2>2. Extractable' = Extractable /\ Folder(current_folder)' = Folder(current_folder)
      BY <1>4 DEF Extractable, Folder, loop
    <2>3. Seen'
      BY <1>1, <1>2, <1>4, <2>2 DEF Seen, SinkTyped, InMember, loop, member
    <2>4. pc \in InMember /\ pc' \in InMember /\ UNCHANGED end
      BY <1>1, <1>4 DEF InMember, member
    <2> QED BY <1>4, <2>1, <2>3, <2>4, WithinMember
  <1> QED BY <1>1, <1>3, <1>4

\* A chunk is written after what was written before.
LEMMA WriteChunkPreserves ==
    ASSUME Inv, WriteChunk
    PROVE  Inv'
  <1> DEFINE Write == /\ sink' = [sink EXCEPT !.received = @ + ChunkLength]
                      /\ pc' = "chunk" /\ written' = written + ChunkLength
                      /\ UNCHANGED <<entry, loop, delivered, end>>
  <1>1. /\ pc = "write" /\ pc # "done" /\ SinkCalled /\ UNCHANGED <<archive, decodes>>
        /\ \/ Write /\ UNCHANGED result
           \/ Returns("Sink") /\ UNCHANGED <<entry, loop, delivered, member, sink>>
    BY DEF WriteChunk, SinkCall, SinkCalled
  <1>2. Typed /\ Prompt /\ Position /\ Delivering /\ Totals /\ Seen /\ result = "none"
    BY <1>1, RunningState
  <1>3. late = 0 /\ late <= 1
    BY <1>1, <1>2 DEF Prompt
  <1>4. CASE Returns("Sink") /\ UNCHANGED <<entry, loop, delivered, member, sink>>
    BY <1>1, <1>3, <1>4, SinkFailurePreserves
  <1>5. CASE Write /\ UNCHANGED result
    <2>1. cancelled' \in BOOLEAN /\ late' \in Nat /\ (~cancelled' => late' = 0) /\ late' <= 1
      BY <1>1, <1>2, <1>3, LateCalls
    <2>2. Typed' /\ Prompt'
      BY <1>1, <1>2, <1>5, <2>1 DEF Typed, Prompt
    <2>3. Extractable' = Extractable /\ Folder(current_folder)' = Folder(current_folder)
      BY <1>1, <1>5 DEF Extractable, Folder, loop
    <2>4. ControlChunk \in Nat \ {0} /\ MaxEntryOutput \in Nat
      BY <1>2, Validated
    <2>5. /\ written \in Nat /\ end - folder_offset \in Nat /\ written < end - folder_offset
          /\ folder_offset \in Nat /\ end \in Nat
      <3>1. folder_offset \in Nat /\ Folder(current_folder).actual \in Nat
        BY <1>1, <1>2, MemberBytes DEF InMember
      <3>2. /\ written \in 0..(end - folder_offset) /\ end - folder_offset \in 0..MaxEntryOutput
            /\ written < end - folder_offset
            /\ end = LastByte(Folder(current_folder), next_substream + 1)
        BY <1>1, <1>2 DEF Seen, InMember
      <3>3. end \in Nat
        BY <1>1, <1>2, <3>2, MemberBytes DEF InMember
      <3> QED BY <2>4, <3>1, <3>2, <3>3
    <2>6. written + ChunkLength \in 0..(end - folder_offset) /\ ChunkLength \in Nat
      BY <2>4, <2>5 DEF ChunkLength
    <2>7. sink.received = written /\ SinkTyped
      BY <1>1, <1>2 DEF Seen, InMember
    <2>8. /\ sink' \in [open : Nat, announced : Nat, received : Nat, start : Nat, last : Nat, finished : SUBSET Nat]
          /\ sink'.received = written' /\ sink'.open = sink.open /\ sink'.last = sink.last
          /\ sink'.announced = sink.announced /\ sink'.start = sink.start /\ sink'.finished = sink.finished
      BY <1>5, <2>5, <2>6, <2>7 DEF SinkTyped
    <2>9. UNCHANGED <<entry, current_folder, next_substream, folder_offset, end>> /\ pc' = "chunk"
          /\ written' \in 0..(end - folder_offset)
      BY <1>5, <2>6 DEF loop
    <2>10. Seen'
      BY <1>1, <1>2, <2>3, <2>8, <2>9 DEF Seen, SinkTyped, InMember
    <2>11. pc \in InMember /\ pc' \in InMember
      BY <1>1, <1>5 DEF InMember
    <2> QED BY <1>1, <1>5, <2>2, <2>10, <2>11, WithinMember
  <1> QED BY <1>1, <1>4, <1>5

\* A member's checksum is compared after its last chunk.
LEMMA VerifyMemberPreserves ==
    ASSUME Inv, VerifyMember
    PROVE  Inv'
  <1>1. pc = "chunk" /\ pc # "done" /\ pc \in InMember /\ written = end - folder_offset
    BY DEF VerifyMember, InMember
  <1>2. Typed /\ Prompt /\ Position /\ Delivering /\ Totals /\ Seen /\ result = "none"
    BY <1>1, RunningState
  <1>3. CASE Substream.crc = "Other"
    <2>1. Fails(Integrity(Folder(current_folder), "MemberChecksum"))
      BY <1>3 DEF VerifyMember
    <2>2. next_substream + 1 \in 1..Last(Folder(current_folder))
      BY <1>1, <1>2, CurrentMember
    <2>3. ~Sound(Folder(current_folder))
      BY <1>3, <2>2 DEF Sound, Substream, Substreams
    <2>4. ~ExtractionSucceeds(archive)
      BY <1>1, <1>2, <2>3, CurrentUndeliverable
    <2>5. Integrity(Folder(current_folder), "MemberChecksum")
             \notin {"none", "Ok", "internal: substreams unmapped", "internal: mapping out of order"}
      BY DEF Integrity
    <2> QED BY <1>1, <2>1, <2>4, <2>5, FailsPreserves
  <1>4. CASE Substream.crc # "Other"
    <2>1. /\ pc' = "finish"
          /\ UNCHANGED <<archive, cancelled, entry, loop, delivered, member, result, sink, decodes, late>>
      BY <1>4 DEF VerifyMember
    <2>2. Typed' /\ Prompt'
      BY <1>1, <1>2, <2>1 DEF Typed, Prompt
    <2>3. Extractable' = Extractable /\ Folder(current_folder)' = Folder(current_folder) /\ Substream' = Substream
      BY <2>1 DEF Extractable, Folder, Substream, Substreams, loop
    <2>4. Seen'
      BY <1>1, <1>2, <1>4, <2>1, <2>3 DEF Seen, SinkTyped, InMember, loop, member
    <2>5. pc' \in InMember /\ UNCHANGED end
      BY <2>1 DEF InMember, member
    <2> QED BY <1>1, <2>1, <2>2, <2>4, <2>5, WithinMember
  <1> QED BY <1>3, <1>4

\* A member is finished, and the next one begins behind it.
LEMMA FinishMemberPreserves ==
    ASSUME Inv, FinishMember
    PROVE  Inv'
  <1> DEFINE f == Folder(current_folder)
             s == next_substream + 1
             Finish == /\ sink' = Finished /\ pc' = "entry" /\ entry' = entry + 1
                       /\ delivered' = delivered + (end - folder_offset)
                       /\ folder_offset' = end /\ next_substream' = next_substream + 1
                       /\ UNCHANGED <<current_folder, maximum_output, total_folder_output, member>>
  <1>1. /\ pc = "finish" /\ pc # "done" /\ pc \in InMember /\ SinkCalled /\ UNCHANGED <<archive, decodes>>
        /\ \/ Finish /\ UNCHANGED result
           \/ Returns("Sink") /\ UNCHANGED <<entry, loop, delivered, member, sink>>
    BY DEF FinishMember, SinkCall, SinkCalled, InMember
  <1>2. Typed /\ Prompt /\ Position /\ Delivering /\ Totals /\ Seen /\ result = "none"
    BY <1>1, RunningState
  <1>3. late \in Nat /\ late <= 1
    BY <1>1, <1>2 DEF Prompt, Typed
  <1>4. CASE Returns("Sink") /\ UNCHANGED <<entry, loop, delivered, member, sink>>
    BY <1>1, <1>3, <1>4, SinkFailurePreserves
  <1>5. CASE Finish /\ UNCHANGED result
    <2>1. /\ UNCHANGED <<archive, current_folder, total_folder_output, decodes, result>>
          /\ sink' = Finished /\ pc' = "entry" /\ entry' = entry + 1
          /\ delivered' = delivered + (end - folder_offset)
          /\ folder_offset' = end /\ next_substream' = s
      BY <1>1, <1>5
    <2>2. cancelled' \in BOOLEAN /\ late' \in Nat /\ (~cancelled' => late' = 0) /\ late' <= 2
      BY <1>1, <1>2, <1>3, LateCalls
    <2>3. Typed' /\ Prompt'
      BY <1>2, <2>1, <2>2 DEF Typed, Prompt
    <2>4. /\ entry \in Streamed(archive) /\ entry \in Nat /\ next_substream \in Nat
          /\ Placed(archive, entry + 1, current_folder, s)
          /\ f \in FolderRecords /\ s \in 1..Last(f)
      BY <1>1, <1>2, CurrentMember
    <2>5. entry \in DOMAIN archive.entries /\ Entry.kind = "file"
      BY <1>1, <1>2 DEF Position
    <2>6. /\ entry + 1 \in 1..(Len(archive.entries) + 1)
          /\ {e \in Extractable : e < entry + 1} = {e \in Extractable : e < entry} \cup {entry}
      BY <1>2, <2>5, EarlierEntries
    <2>7. Position'
      BY <2>1, <2>4, <2>6 DEF Position, InMember
    <2>8. /\ current_folder # 0 /\ Admitted(f) /\ f.actual \in Nat
          /\ folder_offset \in 0..f.actual /\ folder_offset = FirstByte(f, s)
      BY <1>1, <1>2, MemberBytes
    <2>9. /\ end = LastByte(f, s) /\ end <= f.actual /\ end - folder_offset \in 0..MaxEntryOutput
          /\ Substream.crc # "Other"
      BY <1>1, <1>2 DEF Seen
    <2>10. end \in Nat
      BY <2>4, <2>9, ByteFacts
    <2>11. \A h : Folder(h)' = Folder(h)
      BY <2>1 DEF Folder
    <2>12. Folder(current_folder)' = f
      BY <2>1 DEF Folder
    <2>13. Delivering'
      <3>1. Given(f, s)
        BY <2>8, <2>9 DEF Given, Substream, Substreams
      <3>2. \A t \in 1..next_substream : Given(f, t)
        BY <1>2, <2>8 DEF Delivering
      <3>3. \A t \in 1..next_substream' : Given(f, t)
        <4>1. \A t \in 1..s : t = s \/ t \in 1..next_substream
          BY <2>4
        <4> QED BY <2>1, <3>1, <3>2, <4>1
      <3>4. folder_offset' \in 0..f.actual
        BY <2>1, <2>8, <2>9, <2>10
      <3>5. folder_offset' = IF next_substream' = 0 THEN 0 ELSE LastByte(f, next_substream')
        BY <2>1, <2>4, <2>9
      <3>6. ~f.crc_mismatch /\ Last(f) > 0
        BY <1>2, <2>8 DEF Delivering
      <3>7. \A h \in 1..(current_folder' - 1) :
               Last(Folder(h)') > 0 => Tiled(Folder(h)') /\ Sound(Folder(h)')
        BY <1>2, <2>1, <2>11 DEF Delivering
      <3> HIDE DEF f, s
      <3> QED BY <2>1, <2>8, <2>12, <3>3, <3>4, <3>5, <3>6, <3>7 DEF Delivering
    <2>14. Totals'
      <3>1. delivered = total_folder_output - (f.actual - folder_offset) /\ total_folder_output \in Nat
        BY <1>2, <2>8, Validated DEF Totals
      <3>2. delivered' = total_folder_output' - (f.actual - folder_offset')
        BY <2>1, <2>8, <2>10, <3>1
      <3>3. UsedUpTo(current_folder)' = UsedUpTo(current_folder)
        BY <2>1, <2>11 DEF UsedUpTo
      <3> HIDE DEF f, s
      <3> QED BY <1>2, <2>1, <2>8, <2>12, <3>2, <3>3 DEF Totals
    <2>15. Seen'
      <3>1. Extractable' = Extractable
        BY <2>1 DEF Extractable
      <3>2. /\ SinkTyped /\ sink.open = entry /\ sink.last = entry /\ sink.announced <= MaxEntryOutput
            /\ sink.finished = {e \in Extractable : e < entry}
        BY <1>1, <1>2 DEF Seen, InMember
      <3>3. /\ sink'.finished = sink.finished \cup {entry} /\ sink'.open = 0
            /\ sink'.last = entry /\ sink'.announced = sink.announced
            /\ sink' \in [open : Nat, announced : Nat, received : Nat, start : Nat, last : Nat, finished : SUBSET Nat]
        BY <2>1, <2>4, <3>2, SinkUpdates
      <3> QED BY <2>1, <2>4, <2>6, <3>1, <3>2, <3>3 DEF Seen, SinkTyped, InMember
    <2> QED BY <1>2, <2>1, <2>3, <2>7, <2>13, <2>14, <2>15, StillRunning DEF Running
  <1> QED BY <1>1, <1>4, <1>5

\* Past the last entry everything was delivered.
LEMMA ReturnDeliveredPreserves ==
    ASSUME Inv, ReturnDelivered
    PROVE  Inv'
  <1>1. pc = "entry" /\ pc # "done" /\ entry > Len(archive.entries)
    BY DEF ReturnDelivered
  <1>2. Typed /\ Prompt /\ Position /\ Delivering /\ Totals /\ Seen /\ result = "none"
    BY <1>1, RunningState
  <1>3. /\ IsArchive(archive) /\ Len(archive.entries) \in Nat /\ entry \in Nat
        /\ Placed(archive, entry, current_folder, next_substream)
        /\ DOMAIN archive.folders = 1..Len(archive.folders) /\ Len(archive.folders) \in Nat
        /\ current_folder \in 0..Len(archive.folders)
    BY <1>2, Validated DEF Position, Placed
  <1>4. \A d \in Streamed(archive) : d < entry
    <2>1. \A d \in Streamed(archive) : d \in 1..Len(archive.entries)
      BY <1>3, MappingFacts
    <2> QED BY <1>1, <1>3, <2>1
  <1>5. /\ current_folder # 0 => next_substream = Last(Folder(current_folder))
        /\ \A h \in (current_folder + 1)..Len(archive.folders) : Last(Folder(h)) = 0
    BY <1>3, <1>4, AllBehind DEF Folder
  <1>6. Returns("Ok") /\ UNCHANGED <<archive, cancelled, entry, loop, delivered, member, sink, decodes, late>>
    BY <1>5 DEF ReturnDelivered
  <1>7. delivered = total_folder_output
    <2>1. CASE current_folder = 0
      BY <1>2, <2>1 DEF Totals
    <2>2. CASE current_folder # 0
      BY <1>2, <1>5, <2>2, FolderDelivered
    <2> QED BY <2>1, <2>2
  <1>8. ASSUME NEW f \in DOMAIN archive.folders, Last(Folder(f)) > 0
        PROVE  Tiled(Folder(f)) /\ Sound(Folder(f)) /\ f \in 1..current_folder
    <2>1. f \in 1..current_folder
      BY <1>3, <1>5, <1>8
    <2>2. CASE f = current_folder
      BY <1>2, <1>3, <1>5, <2>1, <2>2, FolderDelivered
    <2>3. CASE f # current_folder
      <3>1. f \in 1..(current_folder - 1)
        BY <1>3, <2>1, <2>3
      <3> QED BY <1>2, <1>8, <2>1, <3>1 DEF Delivering
    <2> QED BY <2>1, <2>2, <2>3
  <1>9. UsedUpTo(current_folder) = {f \in DOMAIN archive.folders : Last(Folder(f)) > 0}
    <2>1. \A f \in 1..current_folder : f \in DOMAIN archive.folders
      BY <1>3
    <2> QED BY <1>8, <2>1 DEF UsedUpTo
  <1>10. ExtractionSucceeds(archive)
    <2>1. OutputOf(archive.folders, {f \in DOMAIN archive.folders : Last(archive.folders[f]) > 0}) <= MaxTotalOutput
      <3>1. {f \in DOMAIN archive.folders : Last(archive.folders[f]) > 0} = UsedUpTo(current_folder)
        BY <1>9 DEF Folder
      <3>2. total_folder_output <= MaxTotalOutput
        BY <1>2, Validated DEF Totals
      <3> QED BY <1>2, <3>1, <3>2 DEF Totals
    <2>2. \A f \in DOMAIN archive.folders :
              Last(archive.folders[f]) > 0 => Tiled(archive.folders[f]) /\ Sound(archive.folders[f])
      BY <1>8 DEF Folder
    <2> QED BY <2>1, <2>2 DEF ExtractionSucceeds
  <1>11. /\ archive' = archive /\ sink' = sink /\ decodes' = decodes /\ delivered' = delivered
         /\ total_folder_output' = total_folder_output /\ pc' = "done" /\ result' = "Ok"
         /\ cancelled' = cancelled /\ late' = late
    BY <1>6 DEF Returns, loop
  <1>12. Typed' /\ Prompt'
    BY <1>2, <1>11 DEF Typed, Prompt
  <1>13. sink.open = 0 /\ LimitsRespected
    BY <1>1, <1>2 DEF Seen, InMember, Inv
  <1>14. MembersGetTheirBytes'
    <2>1. decodes = [f \in DOMAIN archive.folders |-> IF f \in UsedUpTo(current_folder) THEN 1 ELSE 0]
      BY <1>2 DEF Totals
    <2>2. \A f \in DOMAIN decodes : decodes[f] <= 1
      BY <2>1
    <2>3. \A f \in DOMAIN decodes : (decodes[f] = 1) <=> (Last(Folder(f)) > 0)
      BY <1>9, <2>1
    <2>4. \A f : Folder(f)' = Folder(f)
      BY <1>11 DEF Folder
    <2> QED BY <1>7, <1>11, <1>13, <2>2, <2>3, <2>4 DEF MembersGetTheirBytes
  <1>15. LimitsRespected'
    BY <1>11, <1>13 DEF LimitsRespected
  <1>16. ExtractionVerdict'
    BY <1>10, <1>11 DEF ExtractionVerdict
  <1> QED BY <1>11, <1>12, <1>14, <1>15, <1>16 DEF Inv

-----------------------------------------------------------------------------
\* Every step keeps the invariant.
LEMMA StepPreserves == Inv /\ [Next]_vars => Inv'
  <1> SUFFICES ASSUME Inv, [Next]_vars
               PROVE  Inv'
    OBVIOUS
  <1>1. CASE UNCHANGED vars
    <2>1. \A f : Folder(f)' = Folder(f)
      BY <1>1 DEF Folder, vars
    <2>2. archive' = archive /\ pc' = pc /\ result' = result
      BY <1>1 DEF vars
    <2>3. Typed' /\ Prompt'
      BY <1>1 DEF vars, Inv, Typed, Prompt
    <2>4. MembersGetTheirBytes' /\ LimitsRespected' /\ ExtractionVerdict'
      BY <1>1, <2>1 DEF vars, Inv, MembersGetTheirBytes, LimitsRespected, ExtractionVerdict
    <2>5. ASSUME pc # "done"
          PROVE  Running'
      <3>1. Typed /\ Prompt /\ Position /\ Delivering /\ Totals /\ Seen
        BY <2>5, RunningState
      <3>2. UNCHANGED <<pc, entry, current_folder, maximum_output, next_substream, folder_offset,
                        total_folder_output, delivered, written, end, sink, decodes>>
        BY <1>1 DEF vars
      <3>3. Entry' = Entry /\ Extractable' = Extractable /\ Substream' = Substream
        BY <2>2, <3>2 DEF Entry, Extractable, Substream, Substreams, Folder
      <3>4. UsedUpTo(current_folder)' = UsedUpTo(current_folder)
        BY <2>1, <3>2 DEF UsedUpTo
      <3>5. Position'
        BY <2>2, <3>1, <3>2, <3>3 DEF Position
      <3>6. Delivering'
        BY <2>2, <3>1, <3>2, DeliveringKept
      <3>7. Totals'
        BY <2>1, <2>2, <3>1, <3>2, <3>3, <3>4 DEF Totals
      <3>8. Seen'
        BY <2>1, <3>1, <3>2, <3>3 DEF Seen, SinkTyped
      <3> QED BY <3>5, <3>6, <3>7, <3>8 DEF Running
    <2> QED BY <2>2, <2>3, <2>4, <2>5 DEF Inv
  <1> QED BY <1>1, NextEntryPreserves, BeginEmptyEntryPreserves, FinishEmptyEntryPreserves, EnterFolderPreserves,
             DecodeFolderPreserves, BeginMemberPreserves, CheckpointChunkPreserves, WriteChunkPreserves,
             VerifyMemberPreserves, FinishMemberPreserves, ReturnDeliveredPreserves, CancelPreserves
          DEF Next, Step

\* The invariant holds in every state of every run.
LEMMA AlwaysInv == Spec => []Inv
  BY InitEstablishes, StepPreserves, PTL DEF Spec

(***************************************************************************)
(* Every member gets exactly its own bytes, a completed pass delivered     *)
(* every decoded byte, no folder is decoded twice, and the run-time checks *)
(* of the member mapping never fire (archive.rs, extract_entries_to).      *)
(***************************************************************************)
THEOREM MembersServed == Spec => []MembersGetTheirBytes
  <1>1. Inv => MembersGetTheirBytes
    BY DEF Inv
  <1> QED BY <1>1, AlwaysInv, PTL

\* The pass never decodes or announces more than the limits allow.
THEOREM LimitsHold == Spec => []LimitsRespected
  <1>1. Inv => LimitsRespected
    BY DEF Inv
  <1> QED BY <1>1, AlwaysInv, PTL

\* With the token set the sink sees at most two more calls.
THEOREM PromptCancellation == Spec => []CancellationIsPrompt
  <1>1. Inv => CancellationIsPrompt
    BY DEF Inv, Prompt, CancellationIsPrompt
  <1> QED BY <1>1, AlwaysInv, PTL

(***************************************************************************)
(* Undisturbed, the pass returns Ok on exactly the archives whose folders  *)
(* with members are sound, tiled and together within the limits: neither   *)
(* folder_decode_maximum nor the member loop refuses any other.            *)
(***************************************************************************)
THEOREM VerdictExact == Spec => []ExtractionVerdict
  <1>1. Inv => ExtractionVerdict
    BY DEF Inv
  <1> QED BY <1>1, AlwaysInv, PTL

-----------------------------------------------------------------------------
(***************************************************************************)
(* The sink protocol.  A step that calls no sink is a stutter or an error  *)
(* return of the protocol.                                                 *)
(***************************************************************************)
LEMMA SilentStep ==
    ASSUME result = "none", archive' = archive, sink' = sink, result' # "Ok"
    PROVE  [Protocol!Next]_(Protocol!vars)
  <1>1. Extractable' = Extractable
    BY DEF Extractable
  <1>2. Intact' = Intact
    BY <1>1 DEF Intact, IntactSlot, Folder
  <1>3. CASE result' = "none"
    BY <1>1, <1>2, <1>3 DEF Protocol!vars
  <1>4. CASE result' # "none"
    BY <1>1, <1>2, <1>4 DEF Protocol!Next, Protocol!ReturnErr
  <1> QED BY <1>3, <1>4

\* Beginning an entry is a step of the protocol.
LEMMA BeginStep ==
    ASSUME Inv, pc \in {"emptybegin", "member"}, NEW size \in Nat, NEW start \in Nat,
           sink' = Begun(size, start), archive' = archive, result' = result
    PROVE  Protocol!Next
  <1>1. Typed /\ Position /\ Seen /\ result = "none" /\ pc \notin {"entry", "emptyfinish", "chunk", "write", "finish"}
    BY RunningState
  <1>2. /\ entry \in DOMAIN archive.entries /\ Entry.kind \in {"file", "empty"}
        /\ SinkTyped /\ sink.open = 0 /\ sink.last < entry /\ sink.finished = {e \in Extractable : e < entry}
    BY <1>1 DEF Position, Seen, InMember
  <1>3. entry \in Extractable /\ entry \in Nat
    BY <1>1, <1>2, EarlierEntries
  <1>4. Extractable' = Extractable
    BY DEF Extractable
  <1>5. Intact' = Intact
    BY <1>4 DEF Intact, IntactSlot, Folder
  <1>6. /\ sink'.open = entry /\ sink'.last = entry /\ sink'.announced = size /\ sink'.received = 0
        /\ sink'.finished = sink.finished
    <2>1. /\ Begun(size, start).open = entry /\ Begun(size, start).last = entry
          /\ Begun(size, start).announced = size /\ Begun(size, start).received = 0
          /\ Begun(size, start).finished = sink.finished
      BY <1>2, <1>3 DEF SinkTyped, Begun
    <2> QED BY <2>1
  <1>7. Protocol!Begin(entry)
    BY <1>1, <1>2, <1>3, <1>4, <1>5, <1>6 DEF Protocol!Begin
  <1> QED BY <1>3, <1>7 DEF Protocol!Next

\* Finishing an entry is a step of the protocol.
LEMMA FinishStep ==
    ASSUME Inv, pc \in {"emptyfinish", "finish"}, sink' = Finished, archive' = archive, result' = result
    PROVE  Protocol!Next
  <1>1. Typed /\ Position /\ Delivering /\ Seen /\ result = "none"
    BY RunningState
  <1>2. /\ entry \in DOMAIN archive.entries /\ Entry.kind \in {"file", "empty"}
        /\ SinkTyped /\ sink.open = entry /\ sink.received = sink.announced
    BY <1>1 DEF Position, Seen, InMember
  <1>3. entry \in Extractable /\ entry \in Nat /\ entry # 0
    BY <1>1, <1>2, EarlierEntries, Validated
  <1>4. entry \in Intact
    <2>1. CASE pc = "emptyfinish"
      BY <1>1, <1>3, <2>1 DEF Intact, Position, Entry
    <2>2. CASE pc = "finish"
      <3>1. SlotOf(archive, entry) = <<current_folder, next_substream + 1>> /\ current_folder # 0
        BY <1>1, <2>2, CurrentMember, Validated DEF InMember
      <3>2. Folder(current_folder).substreams[next_substream + 1].crc # "Other"
        BY <1>1, <2>2 DEF Seen, Substream, Substreams
      <3>3. ~Folder(current_folder).crc_mismatch
        BY <1>1, <3>1 DEF Delivering
      <3> QED BY <1>3, <3>1, <3>2, <3>3 DEF Intact, IntactSlot
    <2> QED BY <2>1, <2>2
  <1>5. Extractable' = Extractable
    BY DEF Extractable
  <1>6. Intact' = Intact
    BY <1>5 DEF Intact, IntactSlot, Folder
  <1>7. /\ sink'.finished = sink.finished \cup {entry} /\ sink'.open = 0 /\ sink'.last = sink.last
        /\ sink'.announced = sink.announced /\ sink'.received = sink.received
    BY <1>2, <1>3, SinkUpdates
  <1>8. Protocol!Finish
    BY <1>1, <1>2, <1>3, <1>4, <1>5, <1>6, <1>7 DEF Protocol!Finish
  <1> QED BY <1>8 DEF Protocol!Next

\* Writing a chunk is a step of the protocol, or changes nothing the protocol
\* sees.
LEMMA WriteStep ==
    ASSUME Inv, WriteChunk
    PROVE  [Protocol!Next]_(Protocol!vars)
  <1>1. pc = "write" /\ pc # "done" /\ pc \in InMember /\ archive' = archive
    BY DEF WriteChunk, SinkCall, InMember
  <1>2. Typed /\ Position /\ Delivering /\ Seen /\ result = "none"
    BY <1>1, RunningState
  <1>3. CASE Returns("Sink") /\ sink' = sink
    BY <1>1, <1>2, <1>3, SilentStep DEF Returns
  <1>4. CASE sink' = [sink EXCEPT !.received = @ + ChunkLength] /\ result' = result
    <2>1. /\ SinkTyped /\ sink.open = entry /\ sink.received = written /\ sink.announced = end - folder_offset
          /\ written \in 0..(end - folder_offset) /\ written < end - folder_offset
          /\ end = LastByte(Folder(current_folder), next_substream + 1)
      BY <1>1, <1>2 DEF Seen
    <2>2. ControlChunk \in Nat \ {0} /\ folder_offset \in Nat /\ end \in Nat /\ entry \in Nat /\ entry # 0
      BY <1>1, <1>2, <2>1, MemberBytes, CurrentMember, Validated DEF Position
    <2>3. written \in Nat /\ ChunkLength \in Nat /\ written + ChunkLength \in (written + 1)..(end - folder_offset)
      BY <2>1, <2>2 DEF ChunkLength
    <2>4. /\ sink'.received = written + ChunkLength /\ sink'.open = sink.open /\ sink'.last = sink.last
          /\ sink'.announced = sink.announced /\ sink'.finished = sink.finished
      BY <1>4, <2>1 DEF SinkTyped
    <2>5. Extractable' = Extractable
      BY <1>1 DEF Extractable
    <2>6. Intact' = Intact
      BY <1>1, <2>5 DEF Intact, IntactSlot, Folder
    <2>7. Protocol!Write
      BY <1>2, <1>4, <2>1, <2>2, <2>3, <2>4, <2>5, <2>6 DEF Protocol!Write
    <2> QED BY <2>7 DEF Protocol!Next
  <1> QED BY <1>3, <1>4 DEF WriteChunk, SinkCall

\* Returning is a step of the protocol.
LEMMA ReturnStep ==
    ASSUME Inv, ReturnDelivered
    PROVE  [Protocol!Next]_(Protocol!vars)
  <1>1. pc = "entry" /\ pc # "done" /\ entry > Len(archive.entries) /\ archive' = archive /\ sink' = sink
    BY DEF ReturnDelivered, Fails
  <1>2. Typed /\ Position /\ Seen /\ result = "none"
    BY <1>1, RunningState
  <1>3. CASE result' # "Ok"
    BY <1>1, <1>2, <1>3, SilentStep
  <1>4. CASE result' = "Ok"
    <2>1. sink.open = 0 /\ sink.finished = {e \in Extractable : e < entry}
      BY <1>1, <1>2 DEF Seen, InMember
    <2>2. \A e \in Extractable : e < entry
      BY <1>1, <1>2, Validated DEF Extractable, Position
    <2>3. sink.finished = Extractable
      BY <2>1, <2>2
    <2>4. Extractable' = Extractable
      BY <1>1 DEF Extractable
    <2>5. Intact' = Intact
      BY <1>1, <2>4 DEF Intact, IntactSlot, Folder
    <2>6. Protocol!ReturnOk
      BY <1>1, <1>2, <1>4, <2>1, <2>3, <2>4, <2>5 DEF Protocol!ReturnOk
    <2> QED BY <2>6 DEF Protocol!Next
  <1> QED BY <1>3, <1>4

\* Every step is a step of the protocol or changes nothing it sees.
LEMMA StepImplements == Inv /\ [Next]_vars => [Protocol!Next]_(Protocol!vars)
  <1> SUFFICES ASSUME Inv, [Next]_vars
               PROVE  [Protocol!Next]_(Protocol!vars)
    OBVIOUS
  <1>1. CASE UNCHANGED vars
    <2>1. archive' = archive /\ sink' = sink /\ result' = result
      BY <1>1 DEF vars
    <2>2. Extractable' = Extractable
      BY <2>1 DEF Extractable
    <2>3. Intact' = Intact
      BY <2>1, <2>2 DEF Intact, IntactSlot, Folder
    <2> QED BY <2>1, <2>2, <2>3 DEF Protocol!vars
  <1>2. CASE Cancel \/ NextEntry \/ CheckpointChunk \/ VerifyMember
    <2>1. archive' = archive /\ sink' = sink /\ pc # "done"
          /\ (result' = result \/ result' \in {"Cancelled", "WorkUnits", "WrongPasswordOrCorrupt", "MemberChecksum"})
      BY <1>2 DEF Cancel, NextEntry, EnterStreamless, EnterStreamed, CheckpointChunk, VerifyMember, Checkpoint,
                  Fails, Returns, Integrity
    <2>2. result = "none"
      BY <2>1, RunningState
    <2> QED BY <2>1, <2>2, SilentStep
  <1>3. CASE EnterFolder
    <2>1. archive' = archive /\ sink' = sink /\ pc # "done" /\ (result' = result \/ result' # "Ok")
      BY <1>3 DEF EnterFolder, Checkpoint, Fails, Returns
    <2>2. result = "none"
      BY <2>1, RunningState
    <2> QED BY <2>1, <2>2, SilentStep
  <1>4. CASE DecodeFolder
    <2>1. archive' = archive /\ sink' = sink /\ pc # "done" /\ (result' = result \/ result' # "Ok")
      BY <1>4 DEF DecodeFolder, Fails, Returns, Integrity
    <2>2. result = "none"
      BY <2>1, RunningState
    <2> QED BY <2>1, <2>2, SilentStep
  <1>5. CASE BeginEmptyEntry
    <2>1. /\ pc = "emptybegin" /\ pc # "done" /\ archive' = archive
          /\ \/ sink' = Begun(0, 0) /\ result' = result
             \/ sink' = sink /\ result' = "Sink"
      BY <1>5 DEF BeginEmptyEntry, SinkCall, Returns
    <2>2. result = "none"
      BY <2>1, RunningState
    <2> QED BY <2>1, <2>2, SilentStep, BeginStep
  <1>6. CASE BeginMember
    <2>1. /\ pc = "member" /\ pc # "done" /\ archive' = archive
          /\ \/ sink' = Begun(MemberEnd - folder_offset, folder_offset) /\ result' = result
             \/ sink' = sink /\ result' # "Ok"
      BY <1>6 DEF BeginMember, SinkCall, Returns, Fails
    <2>2. Typed /\ Position /\ Delivering /\ result = "none"
      BY <2>1, RunningState
    <2>3. MemberEnd - folder_offset \in Nat /\ folder_offset \in Nat
      BY <2>1, <2>2, MemberBytes
    <2> QED BY <2>1, <2>2, <2>3, SilentStep, BeginStep
  <1>7. CASE FinishEmptyEntry \/ FinishMember
    <2>1. /\ pc \in {"emptyfinish", "finish"} /\ pc # "done" /\ archive' = archive
          /\ \/ sink' = Finished /\ result' = result
             \/ sink' = sink /\ result' = "Sink"
      BY <1>7 DEF FinishEmptyEntry, FinishMember, SinkCall, Returns
    <2>2. result = "none"
      BY <2>1, RunningState
    <2> QED BY <2>1, <2>2, SilentStep, FinishStep
  <1>8. CASE WriteChunk
    BY <1>8, WriteStep
  <1>9. CASE ReturnDelivered
    BY <1>9, ReturnStep
  <1> QED BY <1>1, <1>2, <1>3, <1>4, <1>5, <1>6, <1>7, <1>8, <1>9 DEF Next, Step

(***************************************************************************)
(* extract_entries_to implements the sink protocol, for every archive and  *)
(* whatever the limits, the token and the sink do: members in archive      *)
(* order and none skipped, chunks that add up to the announced size,       *)
(* finish_entry only for a complete and intact member, nothing after an    *)
(* error, and Ok only when every member was finished.                      *)
(***************************************************************************)
THEOREM SinkProtocolImplemented == Spec => ImplementsSinkProtocol
  <1>1. Init => Protocol!Init
    <2> SUFFICES ASSUME Init
                 PROVE  Protocol!Init
      OBVIOUS
    <2>1. IsArchive(archive)
      BY ExtractionAssumption DEF Init
    <2>2. Extractable \subseteq Nat \ {0}
      BY <2>1, ArchiveFacts DEF Extractable
    <2>3. Intact \subseteq Extractable
      BY DEF Intact
    <2> QED BY <2>2, <2>3 DEF Init, Protocol!Init
  <1> QED BY <1>1, StepImplements, AlwaysInv, PTL DEF Spec, ImplementsSinkProtocol, Protocol!Spec
=============================================================================
