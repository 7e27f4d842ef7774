--------------------- MODULE ArchiveVerificationProofs ---------------------
(***************************************************************************)
(* Proofs about Archive::verify and Archive::open_member, for all          *)
(* validated archives and limits: verify accepts exactly the archives that *)
(* are sound throughout and names the first corruption it meets, and the   *)
(* reader of a member covers exactly the member's bytes.                   *)
(***************************************************************************)
EXTENDS ArchiveVerification, SolidArchiveProofs

Typed ==
    /\ archive \in Archives
    /\ cancelled \in BOOLEAN
    /\ operation \in {0} \cup DOMAIN archive.entries
    /\ part \in {"additional", "main"}
    /\ pc \in {"additional", "folder", "decode", "members", "checksum", "open", "bounds", "done"}
    /\ (pc = "done") <=> (result # "none")

-----------------------------------------------------------------------------
\* open_member: the member's folder was admitted by the preflight.
Opening ==
    /\ pc \in {"open", "decode", "bounds"}
    /\ part = "main" /\ total_output = 0
    /\ pc \in {"decode", "bounds"} =>
          /\ Entry.kind = "file" /\ folder = Entry.folder
          /\ Admitted(Folder)
          /\ maximum_output = Permitted(Folder, MaxTotalOutput)

-----------------------------------------------------------------------------
\* What verify demands of a folder: its CRCs, and that its streams fill it.
AdditionalSound(f) == Sound(f) /\ Filled(f)

Fitting(f) == IF part = "additional" THEN Filled(f) ELSE Tiled(f)

Good(f) == IF part = "additional" THEN AdditionalSound(f) ELSE Tiled(f) /\ Sound(f)

Decoded == pc \in {"members", "checksum"}

\* Which folder verify is at, and what it has established of those before.
Reached ==
    /\ pc \in {"additional", "folder", "decode", "members", "checksum"}
    /\ pc = "additional" => part = "additional"
    /\ pc = "folder" => part = "main"
    /\ folder \in 1..(Len(Folders) + 1)
    /\ pc \in {"decode", "members", "checksum"} => folder \in DOMAIN Folders
    /\ \A f \in 1..(folder - 1) : Good(Folders[f])
    /\ part = "main" =>
          /\ \A f \in DOMAIN archive.additional : AdditionalSound(archive.additional[f])
          /\ OutputOf(archive.additional, DOMAIN archive.additional) <= MaxHeader

\* What the folders decoded to, added up against the limits.
Before == IF part = "main" THEN OutputOf(archive.additional, DOMAIN archive.additional) ELSE 0

Counted ==
    /\ total_output = Before + OutputOf(Folders, 1..(IF Decoded THEN folder ELSE folder - 1))
    /\ total_output \in 0..MaxTotalOutput
    /\ part = "additional" => total_output <= MaxHeader
    /\ pc = "decode" => maximum_output = IF part = "additional" THEN AdditionalMaximum
                                         ELSE Permitted(Folder, RemainingTotal)

\* Substream s of folder f ends where its size says, and its CRC agrees.
Checked(f, s) ==
    /\ f.substreams[s].crc # "Other"
    /\ SizeOf(f, s) = Unknown => s = Last(f)
    /\ LastByte(f, s) <= f.actual

\* The folder that is being verified, up to substream.
Verified ==
    /\ part = "main" /\ (pc = "decode" \/ Decoded) => Admitted(Folder)
    /\ Decoded =>
          /\ part = "additional" => ~Folder.crc_mismatch
          /\ part = "main" /\ UnknownFinal(Folder) =>
                Folder.actual <= KnownSum(Folder, Last(Folder)) + MaxEntryOutput
          /\ substream \in 0..Last(Folder)
          /\ start = IF substream = 0 THEN 0 ELSE LastByte(Folder, substream)
          /\ start \in 0..Folder.actual
          /\ \A s \in 1..substream : Checked(Folder, s)
    /\ pc = "checksum" =>
          /\ substream < Last(Folder)
          /\ end = LastByte(Folder, substream + 1) /\ end <= Folder.actual
          /\ SizeOf(Folder, substream + 1) = Unknown => substream + 1 = Last(Folder)

\* The streamed entries that were taken: those of substreams before n of folder c.
Taken(c, n) == \A d \in Streamed(archive) : (d <= streamed) <=> Behind(archive, d, c, n)

Mapped ==
    /\ streamed \in Nat
    /\ part = "additional" => streamed = 0
    /\ part = "main" => Taken(folder, IF pc = "members" THEN substream
                                      ELSE IF pc = "checksum" THEN substream + 1 ELSE 0)
    /\ part = "main" /\ pc = "checksum" => SlotOf(archive, streamed) = <<folder, substream + 1>>

Verifying == Reached /\ Counted /\ Verified /\ Mapped

Running == IF operation = 0 THEN Verifying ELSE Opening

Inv ==
    /\ Typed
    /\ pc # "done" => Running
    /\ VerifyVerdict /\ FirstCorruptionReported /\ OpenedIsItsSlice

-----------------------------------------------------------------------------
\* What validation guarantees of the folders being verified.
LEMMA Validated ==
    ASSUME Typed
    PROVE  /\ IsArchive(archive)
           /\ archive.folders \in Seq(FolderRecords) /\ archive.additional \in Seq(FolderRecords)
           /\ Folders \in Seq(FolderRecords)
           /\ Len(Folders) \in Nat /\ DOMAIN Folders = 1..Len(Folders)
           /\ \A f \in DOMAIN Folders : /\ Folders[f] \in FolderRecords /\ Folders[f].actual \in Nat
                                        /\ Last(Folders[f]) \in Nat
           /\ part = "additional" => Folders = archive.additional
           /\ part = "main" => Folders = archive.folders
           /\ MaxTotalOutput \in Nat /\ MaxEntryOutput \in Nat /\ MaxHeader \in Nat
  <1>1. IsArchive(archive)
    BY VerificationAssumption DEF Typed
  <1>2. archive.folders \in Seq(FolderRecords) /\ archive.additional \in Seq(FolderRecords)
    BY <1>1 DEF IsArchive
  <1>3. /\ part = "additional" => Folders = archive.additional
        /\ part = "main" => Folders = archive.folders
    BY DEF Folders
  <1>4. Folders \in Seq(FolderRecords)
    BY <1>2 DEF Folders
  <1>5. Len(Folders) \in Nat /\ DOMAIN Folders = 1..Len(Folders)
    BY <1>4
  <1>6. \A f \in DOMAIN Folders : Folders[f] \in FolderRecords
    BY <1>4
  <1>7. \A f \in DOMAIN Folders : Folders[f].actual \in Nat /\ Last(Folders[f]) \in Nat
    BY <1>6, FolderFacts
  <1> QED BY <1>1, <1>2, <1>3, <1>4, <1>5, <1>6, <1>7, LimitsAssumption, VerificationAssumption

\* What holds while a call runs.
LEMMA RunningState ==
    ASSUME Inv, pc # "done"
    PROVE  /\ Typed /\ result = "none"
           /\ operation = 0 => Reached /\ Counted /\ Verified /\ Mapped
           /\ operation # 0 => Opening
  BY DEF Inv, Typed, Running, Verifying

\* While an operation runs, the invariant implies the properties.
LEMMA RunningIsGood ==
    Typed /\ Running /\ result = "none" => VerifyVerdict /\ FirstCorruptionReported /\ OpenedIsItsSlice
  <1> SUFFICES ASSUME Typed, Running, result = "none"
               PROVE  VerifyVerdict /\ FirstCorruptionReported /\ OpenedIsItsSlice
    OBVIOUS
  <1>1. total_output <= MaxTotalOutput /\ (part = "additional" => total_output <= MaxHeader)
    <2>1. CASE operation = 0
      BY <2>1, Validated DEF Running, Verifying, Counted
    <2>2. CASE operation # 0
      BY <2>2, Validated DEF Running, Opening
    <2> QED BY <2>1, <2>2
  <1> QED BY <1>1 DEF VerifyVerdict, FirstCorruptionReported, OpenedIsItsSlice, Undisturbed, Internal, Corruptions

\* A call that goes on has no verdict to answer for.
LEMMA StillRunning ==
    ASSUME Typed', Running', result' = "none"
    PROVE  Inv'
  <1>1. Typed' /\ Running' /\ (result = "none")' => (VerifyVerdict /\ FirstCorruptionReported /\ OpenedIsItsSlice)'
    BY RunningIsGood, PTL
  <1> QED BY <1>1 DEF Inv

-----------------------------------------------------------------------------
(***************************************************************************)
(* Returning.  What verify accepts can be extracted.                       *)
(***************************************************************************)
Disturbances == {"Cancelled", "WorkUnits", "Decode"}

(***************************************************************************)
(* The first wrong CRC.                                                    *)
(***************************************************************************)
\* A fault lies in a folder, and a sound folder has none.
LEMMA FaultFacts ==
    /\ \A x \in Faults(archive) :
           \/ /\ x.part = "additional" /\ x.folder \in DOMAIN archive.additional
              /\ x.at \in FaultsOf("additional", archive.additional[x.folder])
              /\ x = [part |-> "additional", folder |-> x.folder, at |-> x.at]
           \/ /\ x.part = "main" /\ x.folder \in DOMAIN archive.folders
              /\ x.at \in FaultsOf("main", archive.folders[x.folder])
              /\ x = [part |-> "main", folder |-> x.folder, at |-> x.at]
    /\ \A f \in DOMAIN archive.additional : \A n \in FaultsOf("additional", archive.additional[f]) :
           [part |-> "additional", folder |-> f, at |-> n] \in Faults(archive)
    /\ \A f \in DOMAIN archive.folders : \A n \in FaultsOf("main", archive.folders[f]) :
           [part |-> "main", folder |-> f, at |-> n] \in Faults(archive)
    /\ \A p, f : Sound(f) => FaultsOf(p, f) = {}
  <1>1. ASSUME NEW p, NEW folders, NEW x \in FaultsIn(p, folders)
        PROVE  /\ x.part = p /\ x.folder \in DOMAIN folders /\ x.at \in FaultsOf(p, folders[x.folder])
               /\ x = [part |-> p, folder |-> x.folder, at |-> x.at]
    <2>1. PICK f \in DOMAIN folders :
              x \in {[part |-> p, folder |-> f, at |-> n] : n \in FaultsOf(p, folders[f])}
      BY <1>1 DEF FaultsIn
    <2>2. PICK n \in FaultsOf(p, folders[f]) : x = [part |-> p, folder |-> f, at |-> n]
      BY <2>1
    <2> QED BY <2>2
  <1>2. ASSUME NEW p, NEW folders, NEW f \in DOMAIN folders, NEW n \in FaultsOf(p, folders[f])
        PROVE  [part |-> p, folder |-> f, at |-> n] \in FaultsIn(p, folders)
    BY <1>2 DEF FaultsIn
  <1>3. ASSUME NEW p, NEW f, Sound(f)
        PROVE  FaultsOf(p, f) = {}
    BY <1>3 DEF Sound, FaultsOf
  <1>4. Faults(archive) = FaultsIn("additional", archive.additional) \cup FaultsIn("main", archive.folders)
    BY DEF Faults
  <1>5. ASSUME NEW x \in Faults(archive)
        PROVE  \/ /\ x.part = "additional" /\ x.folder \in DOMAIN archive.additional
                  /\ x.at \in FaultsOf("additional", archive.additional[x.folder])
                  /\ x = [part |-> "additional", folder |-> x.folder, at |-> x.at]
               \/ /\ x.part = "main" /\ x.folder \in DOMAIN archive.folders
                  /\ x.at \in FaultsOf("main", archive.folders[x.folder])
                  /\ x = [part |-> "main", folder |-> x.folder, at |-> x.at]
    <2>1. CASE x \in FaultsIn("additional", archive.additional)
      BY <1>1, <2>1
    <2>2. CASE x \in FaultsIn("main", archive.folders)
      BY <1>1, <2>2
    <2> QED BY <1>4, <2>1, <2>2
  <1> QED BY <1>2, <1>3, <1>4, <1>5

\* An archive is sound exactly if it has no fault.
LEMMA SoundIsFaultless ==
    Faults(archive) = {} <=> /\ \A f \in DOMAIN archive.additional : Sound(archive.additional[f])
                             /\ \A f \in DOMAIN archive.folders : Sound(archive.folders[f])
  <1>1. ASSUME NEW p, NEW f, FaultsOf(p, f) = {}
        PROVE  Sound(f)
    <2>1. ~f.crc_mismatch
      BY <1>1 DEF FaultsOf
    <2>2. \A s \in 1..Last(f) : f.substreams[s].crc # "Other"
      BY <1>1 DEF FaultsOf
    <2> QED BY <2>1, <2>2 DEF Sound
  <1>2. ASSUME Faults(archive) = {}
        PROVE  /\ \A f \in DOMAIN archive.additional : Sound(archive.additional[f])
               /\ \A f \in DOMAIN archive.folders : Sound(archive.folders[f])
    <2>1. /\ \A f \in DOMAIN archive.additional : FaultsOf("additional", archive.additional[f]) = {}
          /\ \A f \in DOMAIN archive.folders : FaultsOf("main", archive.folders[f]) = {}
      BY <1>2, FaultFacts
    <2> QED BY <1>1, <2>1
  <1>3. ASSUME /\ \A f \in DOMAIN archive.additional : Sound(archive.additional[f])
               /\ \A f \in DOMAIN archive.folders : Sound(archive.folders[f])
        PROVE  Faults(archive) = {}
    <2>1. \A x \in Faults(archive) : FALSE
      BY <1>3, FaultFacts
    <2> QED BY <2>1
  <1> QED BY <1>2, <1>3

\* The first fault of the folder verify has reached is the archive's first.
LEMMA FirstOfFolder ==
    ASSUME Typed, Reached, folder \in DOMAIN Folders,
           NEW n \in FaultsOf(part, Folder), n \in Nat,
           \A m \in FaultsOf(part, Folder) : m = n \/ n < m
    PROVE  LET x == [part |-> part, folder |-> folder, at |-> n]
           IN  x \in Faults(archive) /\ IsFirstFault(archive, x)
  <1> DEFINE x == [part |-> part, folder |-> folder, at |-> n]
  <1>1. /\ part = "additional" => Folders = archive.additional
        /\ part = "main" => Folders = archive.folders
        /\ DOMAIN Folders = 1..Len(Folders) /\ Len(Folders) \in Nat
        /\ part \in {"additional", "main"}
    BY Validated DEF Typed
  <1>2. x \in Faults(archive)
    <2>1. CASE part = "additional"
      BY <1>1, <2>1, FaultFacts DEF Folder
    <2>2. CASE part = "main"
      BY <1>1, <2>2, FaultFacts DEF Folder
    <2> QED BY <1>1, <2>1, <2>2
  <1>3. \A f \in 1..(folder - 1) : FaultsOf(part, Folders[f]) = {}
    BY FaultFacts DEF Reached, Good, AdditionalSound
  <1>4. part = "main" => \A f \in DOMAIN archive.additional :
                             FaultsOf("additional", archive.additional[f]) = {}
    BY FaultFacts DEF Reached, AdditionalSound
  <1>5. x.part = part /\ x.folder = folder /\ x.at = n
    OBVIOUS
  <1>6. ASSUME NEW y \in Faults(archive), y.part = part
        PROVE  y = x \/ Precedes(x, y)
    <2>1. /\ y.folder \in DOMAIN Folders /\ y.at \in FaultsOf(part, Folders[y.folder])
          /\ y = [part |-> part, folder |-> y.folder, at |-> y.at]
      <3>1. CASE part = "additional"
        BY <1>1, <1>6, <3>1, FaultFacts
      <3>2. CASE part = "main"
        BY <1>1, <1>6, <3>2, FaultFacts
      <3> QED BY <1>1, <3>1, <3>2
    <2>2. y.folder \notin 1..(folder - 1)
      BY <1>3, <2>1
    <2>3. y.folder = folder \/ folder < y.folder
      BY <1>1, <2>1, <2>2
    <2>4. CASE folder < y.folder
      BY <1>5, <1>6, <2>4 DEF Precedes
    <2>5. CASE y.folder = folder
      <3>1. y.at = n \/ n < y.at
        BY <2>1, <2>5 DEF Folder
      <3>2. CASE y.at = n
        BY <2>1, <2>5, <3>2
      <3>3. CASE n < y.at
        BY <1>5, <1>6, <2>5, <3>3 DEF Precedes
      <3> QED BY <3>1, <3>2, <3>3
    <2> QED BY <2>3, <2>4, <2>5
  <1>7. ASSUME NEW y \in Faults(archive), y.part # part
        PROVE  Precedes(x, y)
    <2>1. CASE part = "additional"
      <3>1. y.part = "main"
        BY <1>7, <2>1, FaultFacts
      <3> QED BY <1>5, <2>1, <3>1 DEF Precedes
    <2>2. CASE part = "main"
      <3>1. y.folder \in DOMAIN archive.additional
            /\ y.at \in FaultsOf("additional", archive.additional[y.folder])
        BY <1>7, <2>2, FaultFacts
      <3> QED BY <1>4, <2>2, <3>1
    <2> QED BY <1>1, <2>1, <2>2
  <1> HIDE DEF x
  <1>8. IsFirstFault(archive, x)
    BY <1>2, <1>6, <1>7 DEF IsFirstFault
  <1> QED BY <1>2, <1>8 DEF x

\* Verification checks all that extraction needs.
LEMMA VerifiedIsExtractable ==
    ASSUME Typed, VerifySucceeds(archive)
    PROVE  ExtractionSucceeds(archive)
  <1> DEFINE used == {f \in DOMAIN archive.folders : Last(archive.folders[f]) > 0}
  <1>1. /\ \A f \in DOMAIN archive.folders : Tiled(archive.folders[f]) /\ Sound(archive.folders[f])
        /\ OutputOf(archive.additional, DOMAIN archive.additional)
             + OutputOf(archive.folders, DOMAIN archive.folders) <= MaxTotalOutput
    BY DEF VerifySucceeds, Fits
  <1>2. archive.folders \in Seq(FolderRecords) /\ archive.additional \in Seq(FolderRecords) /\ MaxTotalOutput \in Nat
    BY Validated
  <1>3. used \subseteq DOMAIN archive.folders
    OBVIOUS
  <1> HIDE DEF used
  <1>4. OutputOf(archive.folders, used) <= OutputOf(archive.folders, DOMAIN archive.folders)
    BY <1>2, <1>3, OutputGrows
  <1>5. /\ OutputOf(archive.folders, used) \in Nat
        /\ OutputOf(archive.folders, DOMAIN archive.folders) \in Nat
        /\ OutputOf(archive.additional, DOMAIN archive.additional) \in Nat
    BY <1>2, OutputFacts
  <1>6. OutputOf(archive.folders, used) <= MaxTotalOutput
    BY <1>1, <1>2, <1>4, <1>5
  <1> QED BY <1>1, <1>6 DEF ExtractionSucceeds, used

\* What verify may return: what it was disturbed by, success if it is due,
\* the first fault, or another error if something else is wrong.
IsReported(error) ==
    \E x \in Faults(archive) :
        /\ IsFirstFault(archive, x) /\ error = ReportOf(archive, x)
        /\ error = "MemberChecksum" => SlotOf(archive, streamed) = <<x.folder, x.at>>

Answers(error) ==
    \/ error \in Disturbances
    \/ error = "Ok" /\ VerifySucceeds(archive)
    \/ error \in Corruptions /\ IsReported(error)
    \/ error \notin Corruptions \cup Disturbances \cup Internal \cup {"Ok", "none"} /\ ~Fits(archive)

\* A verification that returns the right verdict keeps the invariant.
LEMMA VerifyReturns ==
    ASSUME Typed, operation = 0, NEW error, Returns(error),
           UNCHANGED <<archive, operation, cancelled, part, streamed>>,
           total_output' <= MaxTotalOutput, part = "additional" => total_output' <= MaxHeader,
           Answers(error)
    PROVE  Inv'
  <1>1. pc' = "done" /\ result' = error
    BY DEF Returns
  <1>2. error # "none" /\ error \notin Internal
    BY DEF Answers, Disturbances, Corruptions, Internal
  <1>3. Typed'
    BY <1>1, <1>2 DEF Typed
  <1>4. Faults(archive) # {} => ~VerifySucceeds(archive)
    BY SoundIsFaultless DEF VerifySucceeds
  <1>5. error \in Corruptions => IsReported(error)
    BY DEF Answers, Disturbances, Corruptions
  <1>6. ASSUME error \notin Disturbances
        PROVE  (error = "Ok") <=> VerifySucceeds(archive)
    <2>1. error \in Corruptions => error # "Ok" /\ Faults(archive) # {}
      BY <1>5 DEF Corruptions, IsReported
    <2>2. VerifySucceeds(archive) => Fits(archive)
      BY DEF VerifySucceeds
    <2> QED BY <1>4, <1>6, <2>1, <2>2 DEF Answers
  <1>7. ASSUME error \notin Disturbances, Fits(archive), Faults(archive) # {}
        PROVE  error \in Corruptions
    BY <1>4, <1>7 DEF Answers
  <1>8. VerifyVerdict'
    BY <1>1, <1>6, VerifiedIsExtractable DEF VerifyVerdict, Undisturbed, Disturbances
  <1>9. FirstCorruptionReported'
    BY <1>1, <1>2, <1>5, <1>7 DEF FirstCorruptionReported, Undisturbed, Disturbances, IsReported
  <1>10. OpenedIsItsSlice'
    BY DEF OpenedIsItsSlice
  <1> QED BY <1>1, <1>3, <1>8, <1>9, <1>10 DEF Inv

\* So does one that fails for a reason of the archive or from outside.
LEMMA VerifyFails ==
    ASSUME Inv, pc # "done", operation = 0, NEW error, Fails(error), Answers(error)
    PROVE  Inv'
  <1>1. Typed /\ Counted
    BY RunningState
  <1>2. total_output <= MaxTotalOutput /\ (part = "additional" => total_output <= MaxHeader)
    BY <1>1, Validated DEF Counted
  <1>3. /\ Returns(error) /\ total_output' = total_output
        /\ UNCHANGED <<archive, operation, cancelled, part, streamed>>
    BY DEF Fails, fixed, place, cut
  <1> QED BY <1>1, <1>2, <1>3, VerifyReturns

\* A folder that its streams do not fill, or too much output, is misfitting.
LEMMA Misfits ==
    ASSUME Typed, Reached, folder \in DOMAIN Folders, ~Fitting(Folder)
    PROVE  ~Fits(archive)
  BY Validated DEF Fitting, Folder, Fits, Typed

\* A folder that passes what is left of the limits fails the archive.
LEMMA TooMuch ==
    ASSUME Typed, Reached, Counted, ~Decoded, folder \in DOMAIN Folders,
           \/ Folder.actual > MaxTotalOutput - total_output
           \/ part = "additional" /\ Folder.actual > MaxHeader - total_output
    PROVE  ~Fits(archive)
  <1> SUFFICES ASSUME Fits(archive)
               PROVE  FALSE
    OBVIOUS
  <1> DEFINE S == 1..(folder - 1)
             all == DOMAIN Folders
  <1>1. /\ Folders \in Seq(FolderRecords) /\ archive.additional \in Seq(FolderRecords)
        /\ archive.folders \in Seq(FolderRecords)
        /\ all = 1..Len(Folders) /\ Len(Folders) \in Nat
        /\ Folder.actual \in Nat /\ Folders[folder] = Folder
        /\ MaxTotalOutput \in Nat /\ MaxHeader \in Nat
    BY Validated DEF Folder
  <1>2. folder \notin S /\ S \cup {folder} \subseteq all /\ folder \in 1..Len(Folders)
    BY <1>1
  <1>3. total_output = Before + OutputOf(Folders, S)
    BY DEF Counted
  <1> HIDE DEF S, all
  <1>4. OutputOf(Folders, S \cup {folder}) = OutputOf(Folders, S) + Folder.actual
    BY <1>1, <1>2, OutputFacts
  <1>5. OutputOf(Folders, S \cup {folder}) <= OutputOf(Folders, all)
    BY <1>1, <1>2, OutputGrows
  <1>6. OutputOf(Folders, S) \in Nat /\ OutputOf(Folders, all) \in Nat
    BY <1>1, OutputFacts
  <1>7. /\ OutputOf(archive.additional, DOMAIN archive.additional) \in Nat
        /\ OutputOf(archive.folders, DOMAIN archive.folders) \in Nat
    BY <1>1, OutputFacts
  <1>8. /\ OutputOf(archive.additional, DOMAIN archive.additional) <= MaxHeader
        /\ OutputOf(archive.additional, DOMAIN archive.additional)
             + OutputOf(archive.folders, DOMAIN archive.folders) <= MaxTotalOutput
    BY DEF Fits
  <1>9. CASE part = "main"
    <2>1. Before = OutputOf(archive.additional, DOMAIN archive.additional)
      BY <1>9 DEF Before
    <2>2. OutputOf(Folders, all) = OutputOf(archive.folders, DOMAIN archive.folders)
      BY <1>9, Validated DEF all
    <2>3. Folder.actual > MaxTotalOutput - total_output
      BY <1>9
    <2> QED BY <1>1, <1>3, <1>4, <1>5, <1>6, <1>7, <1>8, <2>1, <2>2, <2>3
  <1>10. CASE part = "additional"
    <2>1. Before = 0
      BY <1>10 DEF Before
    <2>2. OutputOf(Folders, all) = OutputOf(archive.additional, DOMAIN archive.additional)
      BY <1>10, Validated DEF all
    <2> QED BY <1>1, <1>3, <1>4, <1>5, <1>6, <1>7, <1>8, <2>1, <2>2
  <1> QED BY <1>9, <1>10 DEF Typed

\* A step that stays at the folder.
LEMMA SameFolder ==
    ASSUME UNCHANGED <<archive, part, folder>>
    PROVE  /\ Folders' = Folders /\ Folder' = Folder /\ Before' = Before
           /\ \A f : Good(f)' <=> Good(f)
  <1>1. Folders' = Folders /\ Before' = Before
    BY DEF Folders, Before
  <1>2. \A f : Good(f)' <=> Good(f)
    BY DEF Good
  <1> QED BY <1>1, <1>2 DEF Folder

\* Steps within a folder keep its place in the order of folders.
LEMMA ReachedKept ==
    ASSUME Reached, UNCHANGED <<archive, part, folder>>, folder \in DOMAIN Folders,
           pc' \in {"decode", "members", "checksum"}
    PROVE  Reached'
  <1>1. Folders' = Folders /\ \A f : Good(f)' <=> Good(f)
    BY SameFolder
  <1>2. \A f \in 1..(folder - 1) : Good(Folders[f])
    BY DEF Reached
  <1>3. \A f \in 1..(folder' - 1) : Good(Folders[f])'
    BY <1>1, <1>2 DEF Good
  <1> QED BY <1>1, <1>3 DEF Reached

-----------------------------------------------------------------------------
\* A call begins before the first folder.
LEMMA InitEstablishes == Init => Inv
  <1> SUFFICES ASSUME Init
               PROVE  Inv
    OBVIOUS
  <1>1. Typed /\ result = "none"
    BY DEF Init, Typed
  <1>2. CASE operation = 0
    <2>1. part = "additional" /\ pc = "additional" /\ folder = 1 /\ total_output = 0 /\ streamed = 0
      BY <1>2 DEF Init
    <2>2. Folders \in Seq(FolderRecords) /\ Len(Folders) \in Nat /\ MaxTotalOutput \in Nat /\ MaxHeader \in Nat
      BY <1>1, Validated
    <2>3. Reached
      BY <2>1, <2>2 DEF Reached
    <2>4. Counted
      <3>1. OutputOf(Folders, {}) = 0 /\ 1..0 = {}
        BY <2>2, NoOutput
      <3>2. ~Decoded /\ Before = 0 /\ folder - 1 = 0
        BY <2>1 DEF Decoded, Before
      <3>3. total_output = Before + OutputOf(Folders, 1..(IF Decoded THEN folder ELSE folder - 1))
        BY <2>1, <3>1, <3>2
      <3> QED BY <2>1, <2>2, <3>3 DEF Counted
    <2>5. Verified /\ Mapped
      BY <2>1 DEF Verified, Mapped, Decoded
    <2> QED BY <1>1, <1>2, <2>3, <2>4, <2>5, RunningIsGood DEF Inv, Running, Verifying
  <1>3. CASE operation # 0
    <2>1. Opening
      BY <1>3 DEF Init, Opening
    <2> QED BY <1>1, <1>3, <2>1, RunningIsGood DEF Inv, Running
  <1> QED BY <1>2, <1>3

\* Nothing but the token changes.
LEMMA TokenPreserves ==
    ASSUME Inv, cancelled' \in BOOLEAN, UNCHANGED <<fixed, pc, place, cut, reader, result>>
    PROVE  Inv'
  <1>1. UNCHANGED <<archive, operation, pc, part, folder, maximum_output, total_output, substream, start, end,
                    streamed, reader, result>>
    BY DEF fixed, place, cut
  <1>2. Folders' = Folders /\ Folder' = Folder /\ Before' = Before
    BY <1>1, SameFolder
  <1>3. Typed'
    BY <1>1 DEF Inv, Typed
  <1>4. Entry' = Entry
    BY <1>1 DEF Entry
  <1>5. VerifyVerdict' /\ FirstCorruptionReported' /\ OpenedIsItsSlice'
    <2>1. VerifyVerdict'
      BY <1>1 DEF Inv, VerifyVerdict, Undisturbed
    <2>2. FirstCorruptionReported'
      BY <1>1, <1>2 DEF Inv, FirstCorruptionReported, Undisturbed
    <2>3. OpenedIsItsSlice'
      BY <1>1, <1>4 DEF Inv, OpenedIsItsSlice, Undisturbed
    <2> QED BY <2>1, <2>2, <2>3
  <1>6. ASSUME pc # "done"
        PROVE  Running'
    <2>1. CASE operation = 0
      <3>1. Reached /\ Counted /\ Verified /\ Mapped
        BY <1>6, <2>1, RunningState
      <3>2. Decoded' = Decoded
        BY <1>1 DEF Decoded
      <3>3. Reached'
        BY <1>1, <1>2, <3>1 DEF Reached, Good
      <3>4. Counted'
        BY <1>1, <1>2, <3>1, <3>2 DEF Counted, AdditionalMaximum, RemainingTotal
      <3>5. Verified'
        BY <1>1, <1>2, <3>1, <3>2 DEF Verified
      <3>6. Mapped'
        BY <1>1, <3>1 DEF Mapped, Taken
      <3> QED BY <1>1, <2>1, <3>3, <3>4, <3>5, <3>6 DEF Running, Verifying
    <2>2. CASE operation # 0
      <3>1. Opening
        BY <1>6, <2>2, RunningState
      <3>2. Opening'
        BY <1>1, <1>2, <1>4, <3>1 DEF Opening
      <3> QED BY <1>1, <2>2, <3>2 DEF Running
    <2> QED BY <2>1, <2>2
  <1> QED BY <1>1, <1>3, <1>5, <1>6 DEF Inv

\* The next additional stream is taken up.
LEMMA NextAdditionalPreserves ==
    ASSUME Inv, NextAdditional
    PROVE  Inv'
  <1>1. /\ pc = "additional" /\ pc # "done" /\ folder <= Len(Folders)
        /\ \/ Fails("Cancelled") \/ Fails("WorkUnits")
           \/ /\ pc' = "decode" /\ maximum_output' = AdditionalMaximum
              /\ UNCHANGED <<fixed, cancelled, part, folder, total_output, cut, reader, result>>
    BY DEF NextAdditional, Checkpoint
  <1>2. operation = 0
    BY <1>1, RunningState DEF Opening
  <1>3. Typed /\ result = "none" /\ Reached /\ Counted /\ Verified /\ Mapped
    BY <1>1, <1>2, RunningState
  <1>4. CASE Fails("Cancelled") \/ Fails("WorkUnits")
    BY <1>1, <1>2, <1>4, VerifyFails DEF Answers, Disturbances
  <1>5. CASE /\ pc' = "decode" /\ maximum_output' = AdditionalMaximum
             /\ UNCHANGED <<fixed, cancelled, part, folder, total_output, cut, reader, result>>
    <2>1. UNCHANGED <<archive, operation, cancelled, part, folder, total_output, substream, start, end, streamed, result>>
      BY <1>5 DEF fixed, cut
    <2>2. Folders' = Folders /\ Folder' = Folder /\ Before' = Before
      BY <2>1, SameFolder
    <2>3. Typed'
      BY <1>1, <1>3, <1>5, <2>1 DEF Typed
    <2>4. folder \in DOMAIN Folders /\ part = "additional"
      BY <1>1, <1>3, Validated DEF Reached
    <2>5. Reached'
      BY <1>3, <1>5, <2>1, <2>4, ReachedKept
    <2>6. Counted'
      <3>1. ~Decoded /\ ~Decoded'
        BY <1>1, <1>5 DEF Decoded
      <3>2. maximum_output' = AdditionalMaximum'
        BY <1>5, <2>1 DEF AdditionalMaximum
      <3> QED BY <1>3, <2>1, <2>2, <2>4, <3>1, <3>2 DEF Counted
    <2>7. Verified' /\ Mapped'
      BY <1>3, <1>5, <2>1, <2>4 DEF Verified, Mapped, Decoded
    <2> QED BY <1>2, <1>3, <2>1, <2>3, <2>5, <2>6, <2>7, StillRunning DEF Running, Verifying
  <1> QED BY <1>1, <1>4, <1>5

\* All additional streams are verified, and the folders begin.
LEMMA AdditionalDonePreserves ==
    ASSUME Inv, AdditionalDone
    PROVE  Inv'
  <1>1. /\ pc = "additional" /\ pc # "done" /\ folder > Len(Folders)
        /\ pc' = "folder" /\ part' = "main" /\ folder' = 1
        /\ UNCHANGED <<archive, operation, cancelled, total_output, streamed, result>>
    BY DEF AdditionalDone, fixed, cut
  <1>2. operation = 0
    BY <1>1, RunningState DEF Opening
  <1>3. Typed /\ result = "none" /\ Reached /\ Counted /\ Verified /\ Mapped
    BY <1>1, <1>2, RunningState
  <1>4. /\ part = "additional" /\ Folders = archive.additional /\ folder = Len(Folders) + 1
        /\ Len(Folders) \in Nat /\ DOMAIN Folders = 1..Len(Folders) /\ IsArchive(archive)
        /\ archive.additional \in Seq(FolderRecords) /\ archive.folders \in Seq(FolderRecords)
    BY <1>1, <1>3, Validated DEF Reached
  <1>5. folder - 1 = Len(Folders)
    BY <1>4
  <1>6. total_output = OutputOf(archive.additional, DOMAIN archive.additional)
        /\ total_output \in 0..MaxTotalOutput /\ total_output <= MaxHeader
    <2>1. ~Decoded /\ Before = 0
      BY <1>1, <1>4 DEF Decoded, Before
    <2>2. OutputOf(archive.additional, DOMAIN archive.additional) \in Nat
      BY <1>4, OutputFacts
    <2> QED BY <1>3, <1>4, <1>5, <2>1, <2>2 DEF Counted
  <1>7. Typed'
    BY <1>1, <1>3 DEF Typed
  <1>8. Reached'
    <2>1. \A f \in DOMAIN archive.additional : AdditionalSound(archive.additional[f])
      BY <1>3, <1>4, <1>5 DEF Reached, Good
    <2>2. Folders' = archive.folders /\ Len(archive.folders) \in Nat
      BY <1>1, <1>4 DEF Folders
    <2> QED BY <1>1, <1>6, <2>1, <2>2 DEF Reached
  <1>9. Counted'
    <2>1. ~Decoded' /\ Before' = total_output /\ Folders' = archive.folders /\ 1..0 = {}
      BY <1>1, <1>6 DEF Decoded, Before, Folders
    <2>2. OutputOf(archive.folders, {}) = 0
      BY <1>4, NoOutput
    <2>3. folder' - 1 = 0 /\ total_output \in Nat
      BY <1>1, <1>3, Validated DEF Counted
    <2>4. total_output' = Before' + OutputOf(Folders', 1..(IF Decoded' THEN folder' ELSE folder' - 1))
      BY <1>1, <2>1, <2>2, <2>3
    <2> QED BY <1>1, <1>6, <2>4 DEF Counted
  <1>10. Verified'
    BY <1>1 DEF Verified, Decoded
  <1>11. Mapped'
    <2>1. \A d \in Streamed(archive) :
              /\ d \in 1..Len(archive.entries) /\ archive.entries[d].folder \in 1..Len(archive.folders)
              /\ archive.entries[d].substream \in Nat
              /\ archive.entries[d].substream \in 1..Last(archive.folders[archive.entries[d].folder])
      BY <1>4, MappingFacts
    <2>2. streamed = 0
      BY <1>3, <1>4 DEF Mapped
    <2>3. \A d \in Streamed(archive) : ~(d <= 0) /\ ~Behind(archive, d, 1, 0)
      BY <2>1 DEF Behind
    <2> QED BY <1>1, <2>2, <2>3 DEF Mapped, Taken
  <1> QED BY <1>1, <1>2, <1>3, <1>7, <1>8, <1>9, <1>10, <1>11, StillRunning DEF Running, Verifying

\* A folder is entered after its preflight.
LEMMA EnterFolderPreserves ==
    ASSUME Inv, EnterFolder
    PROVE  Inv'
  <1> DEFINE preflight == Preflight(Folder, RemainingTotal)
  <1>1. /\ pc = "folder" /\ pc # "done" /\ folder <= Len(Folders)
        /\ \/ Fails("Cancelled") \/ Fails("WorkUnits")
           \/ preflight # "Ok" /\ Fails(preflight)
           \/ /\ preflight = "Ok"
              /\ pc' = "decode" /\ maximum_output' = Permitted(Folder, RemainingTotal)
              /\ UNCHANGED <<fixed, cancelled, part, folder, total_output, cut, reader, result>>
    BY DEF EnterFolder, Preflighted, Checkpoint
  <1>2. operation = 0
    BY <1>1, RunningState DEF Opening
  <1>3. Typed /\ result = "none" /\ Reached /\ Counted /\ Verified /\ Mapped
    BY <1>1, <1>2, RunningState
  <1>4. /\ folder \in DOMAIN Folders /\ part = "main" /\ Folder \in FolderRecords
        /\ RemainingTotal \in Nat /\ ~Decoded
    BY <1>1, <1>3, Validated DEF Reached, Folder, RemainingTotal, Counted, Decoded
  <1>5. CASE Fails("Cancelled") \/ Fails("WorkUnits")
    BY <1>1, <1>2, <1>5, VerifyFails DEF Answers, Disturbances
  <1>6. CASE preflight # "Ok" /\ Fails(preflight)
    <2>1. preflight \in PreflightErrors /\ (~Tiled(Folder) \/ Folder.actual > RemainingTotal)
      BY <1>4, <1>6, PreflightFacts
    <2>2. ~Fits(archive)
      BY <1>3, <1>4, <2>1, Misfits, TooMuch DEF Fitting, RemainingTotal
    <2> HIDE DEF preflight
    <2>3. Answers(preflight)
      BY <2>1, <2>2 DEF Answers, PreflightErrors, Internal, Corruptions, Disturbances
    <2> QED BY <1>1, <1>2, <1>6, <2>3, VerifyFails
  <1>7. CASE /\ preflight = "Ok"
             /\ pc' = "decode" /\ maximum_output' = Permitted(Folder, RemainingTotal)
             /\ UNCHANGED <<fixed, cancelled, part, folder, total_output, cut, reader, result>>
    <2>1. UNCHANGED <<archive, operation, cancelled, part, folder, total_output, substream, start, end, streamed, result>>
      BY <1>7 DEF fixed, cut
    <2>2. Folders' = Folders /\ Folder' = Folder /\ Before' = Before
      BY <2>1, SameFolder
    <2>3. Typed'
      BY <1>1, <1>3, <1>7, <2>1 DEF Typed
    <2>4. Reached'
      BY <1>3, <1>4, <1>7, <2>1, ReachedKept
    <2>5. Counted'
      <3>1. ~Decoded'
        BY <1>7 DEF Decoded
      <3>2. maximum_output' = Permitted(Folder', RemainingTotal')
        BY <1>7, <2>1, <2>2 DEF RemainingTotal
      <3> QED BY <1>3, <1>4, <2>1, <2>2, <3>1, <3>2 DEF Counted
    <2>6. Verified'
      <3>1. Admitted(Folder)
        BY <1>4, <1>7, PreflightFacts
      <3> QED BY <1>7, <2>2, <3>1 DEF Verified, Decoded
    <2>7. Mapped'
      BY <1>1, <1>3, <1>7, <2>1 DEF Mapped, Taken
    <2> QED BY <1>2, <1>3, <2>1, <2>3, <2>4, <2>5, <2>6, <2>7, StillRunning DEF Running, Verifying
  <1> QED BY <1>1, <1>5, <1>6, <1>7

-----------------------------------------------------------------------------
(***************************************************************************)
(* decode_folder of verify.                                                *)
(***************************************************************************)
LEMMA VerifyMaximum ==
    ASSUME Typed, Reached, Counted, Verified, pc = "decode"
    PROVE  /\ folder \in DOMAIN Folders /\ Folder \in FolderRecords /\ Folder.actual \in Nat
           /\ Last(Folder) \in Nat
           /\ Folder.actual <= maximum_output =>
                 /\ total_output + Folder.actual \in 0..MaxTotalOutput
                 /\ part = "additional" => total_output + Folder.actual <= MaxHeader
                 /\ part = "main" /\ UnknownFinal(Folder) =>
                       Folder.actual <= KnownSum(Folder, Last(Folder)) + MaxEntryOutput
           /\ Folder.actual > maximum_output => ~Fits(archive)
  <1>1. folder \in DOMAIN Folders /\ Folder \in FolderRecords /\ Folder.actual \in Nat /\ Last(Folder) \in Nat
    BY Validated DEF Reached, Folder
  <1>2. /\ MaxTotalOutput \in Nat /\ MaxHeader \in Nat /\ MaxEntryOutput \in Nat
        /\ total_output \in 0..MaxTotalOutput /\ ~Decoded
    BY Validated DEF Counted, Decoded
  <1>3. CASE part = "additional"
    <2>1. maximum_output = AdditionalMaximum /\ total_output <= MaxHeader
      BY <1>3 DEF Counted
    <2>2. /\ maximum_output \in Nat
          /\ maximum_output <= MaxTotalOutput - total_output /\ maximum_output <= MaxHeader - total_output
          /\ maximum_output = MaxTotalOutput - total_output \/ maximum_output = MaxHeader - total_output
      BY <1>2, <2>1 DEF AdditionalMaximum, Smaller
    <2>3. ASSUME Folder.actual > maximum_output
          PROVE  ~Fits(archive)
      <3>1. Folder.actual > MaxTotalOutput - total_output \/ Folder.actual > MaxHeader - total_output
        BY <2>2, <2>3
      <3> QED BY <1>1, <1>2, <1>3, <3>1, TooMuch
    <2>4. Folder.actual <= maximum_output =>
              total_output + Folder.actual \in 0..MaxTotalOutput /\ total_output + Folder.actual <= MaxHeader
      BY <1>1, <1>2, <2>2
    <2> QED BY <1>1, <1>3, <2>3, <2>4
  <1>4. CASE part = "main"
    <2>1. /\ maximum_output = Permitted(Folder, RemainingTotal) /\ Admitted(Folder)
          /\ RemainingTotal = MaxTotalOutput - total_output
      BY <1>4 DEF Counted, Verified, RemainingTotal
    <2>2. RemainingTotal \in Nat
      BY <1>2, <2>1
    <2>3. maximum_output \in Nat /\ maximum_output <= RemainingTotal
      BY <1>1, <2>1, <2>2, PermittedFacts
    <2>4. ASSUME Folder.actual > maximum_output
          PROVE  ~Fits(archive)
      <3>1. Permitted(Folder, RemainingTotal) < Folder.actual
        BY <1>1, <2>1, <2>3, <2>4
      <3>2. ~Tiled(Folder) \/ Folder.actual > RemainingTotal
        BY <1>1, <2>1, <2>2, <3>1, PermittedFacts
      <3> QED BY <1>1, <1>2, <1>4, <2>1, <3>2, Misfits, TooMuch DEF Fitting
    <2>5. Folder.actual <= maximum_output => total_output + Folder.actual \in 0..MaxTotalOutput
      BY <1>1, <1>2, <2>1, <2>3
    <2>6. ASSUME Folder.actual <= maximum_output, UnknownFinal(Folder)
          PROVE  Folder.actual <= KnownSum(Folder, Last(Folder)) + MaxEntryOutput
      <3>1. Last(Folder) > 0 /\ Last(Folder) \in 0..Last(Folder)
        BY <1>1, <2>6 DEF UnknownFinal
      <3>2. KnownSum(Folder, Last(Folder)) \in Nat
        BY <1>1, <3>1, KnownSumFacts
      <3>3. Permitted(Folder, RemainingTotal) <= KnownSum(Folder, Last(Folder)) + MaxEntryOutput
        BY <1>2, <2>2, <2>6, <3>1, <3>2 DEF Permitted
      <3> QED BY <1>1, <1>2, <2>1, <2>3, <2>6, <3>2, <3>3
    <2> QED BY <1>1, <1>4, <2>4, <2>5, <2>6
  <1> QED BY <1>3, <1>4 DEF Typed

\* A folder is decoded by verification.
LEMMA DecodeVerifiedFolder ==
    ASSUME Inv, DecodeFolder, operation = 0
    PROVE  Inv'
  <1> DEFINE total == total_output + Folder.actual
  <1>1. pc = "decode" /\ pc # "done"
    BY DEF DecodeFolder
  <1>2. Typed /\ result = "none" /\ Reached /\ Counted /\ Verified /\ Mapped
    BY <1>1, RunningState
  <1>3. /\ folder \in DOMAIN Folders /\ Folder \in FolderRecords /\ Folder.actual \in Nat
        /\ Last(Folder) \in Nat
        /\ Folder.actual <= maximum_output =>
              /\ total \in 0..MaxTotalOutput
              /\ part = "additional" => total <= MaxHeader
              /\ part = "main" /\ UnknownFinal(Folder) =>
                    Folder.actual <= KnownSum(Folder, Last(Folder)) + MaxEntryOutput
        /\ Folder.actual > maximum_output => ~Fits(archive)
    BY <1>1, <1>2, VerifyMaximum
  <1>4. CASE Fails("Decode") \/ Fails("Cancelled")
    BY <1>1, <1>4, VerifyFails DEF Answers, Disturbances
  <1>5. CASE Folder.actual > maximum_output /\ Fails("TotalOutputBytes")
    BY <1>1, <1>3, <1>5, VerifyFails DEF Answers, Internal, Corruptions, Disturbances
  <1>6. CASE /\ Folder.actual <= maximum_output
             /\ substream' = 0 /\ start' = 0 /\ end' = 0
             /\ total_output' = total
             /\ IF AdditionalRefused
                THEN Returns(Integrity(Folder, "FolderChecksum"))
                ELSE pc' = "members" /\ UNCHANGED result
             /\ UNCHANGED <<fixed, cancelled, part, folder, maximum_output, streamed, reader>>
    <2>1. /\ total_output' = total /\ total \in 0..MaxTotalOutput
          /\ part = "additional" => total <= MaxHeader
          /\ substream' = 0 /\ start' = 0
          /\ UNCHANGED <<archive, operation, cancelled, part, folder, streamed>>
      BY <1>3, <1>6 DEF fixed
    <2>2. CASE AdditionalRefused
      <3>1. Folder.crc_mismatch /\ part = "additional"
        BY <2>2 DEF AdditionalRefused
      <3>2. /\ 0 \in FaultsOf(part, Folder)
            /\ \A m \in FaultsOf(part, Folder) : m = 0 \/ 0 < m
        BY <1>3, <3>1 DEF FaultsOf
      <3>3. LET x == [part |-> part, folder |-> folder, at |-> 0]
            IN  x \in Faults(archive) /\ IsFirstFault(archive, x)
        BY <1>2, <1>3, <3>2, FirstOfFolder
      <3>4. ReportOf(archive, [part |-> part, folder |-> folder, at |-> 0]) = Integrity(Folder, "FolderChecksum")
        BY <1>3, <3>1, Validated DEF ReportOf, Folder, Folders
      <3>5. Integrity(Folder, "FolderChecksum") \in {"FolderChecksum", "WrongPasswordOrCorrupt"}
        BY DEF Integrity
      <3>6. Answers(Integrity(Folder, "FolderChecksum"))
        BY <3>3, <3>4, <3>5 DEF Answers, IsReported, Corruptions
      <3>7. Returns(Integrity(Folder, "FolderChecksum"))
        BY <1>6, <2>2
      <3>8. total_output' <= MaxTotalOutput /\ (part = "additional" => total_output' <= MaxHeader)
        BY <1>2, <2>1, Validated
      <3> QED BY <1>2, <2>1, <3>6, <3>7, <3>8, VerifyReturns
    <2>3. CASE ~AdditionalRefused
      <3>1. pc' = "members" /\ result' = result
        BY <1>6, <2>3
      <3>2. Folders' = Folders /\ Folder' = Folder /\ Before' = Before
        BY <2>1, SameFolder
      <3>3. Typed'
        BY <1>1, <1>2, <2>1, <3>1 DEF Typed
      <3>4. Reached'
        BY <1>2, <1>3, <2>1, <3>1, ReachedKept
      <3>5. Counted'
        <4>1. folder \in 1..Len(Folders) /\ Len(Folders) \in Nat /\ Folders \in Seq(FolderRecords)
          BY <1>2, <1>3, Validated
        <4>2. folder \notin 1..(folder - 1) /\ 1..folder = (1..(folder - 1)) \cup {folder}
          BY <4>1
        <4>3. OutputOf(Folders, 1..folder) = OutputOf(Folders, 1..(folder - 1)) + Folders[folder].actual
          BY <4>1, <4>2, OutputFacts
        <4>4. total_output = Before + OutputOf(Folders, 1..(folder - 1))
          BY <1>1, <1>2 DEF Counted, Decoded
        <4>5. Before \in Nat /\ OutputOf(Folders, 1..(folder - 1)) \in Nat
          BY <1>2, <4>1, OutputFacts, Validated DEF Before
        <4>6. total = Before + OutputOf(Folders, 1..folder)
          BY <1>3, <4>3, <4>4, <4>5 DEF Folder
        <4>7. Decoded' /\ pc' # "decode"
          BY <3>1 DEF Decoded
        <4> HIDE DEF total
        <4> QED BY <2>1, <3>2, <4>6, <4>7 DEF Counted
      <3>6. Verified'
        <4>1. /\ part = "main" => Admitted(Folder)
              /\ part = "additional" => ~Folder.crc_mismatch
          BY <1>1, <1>2, <2>3 DEF Verified, AdditionalRefused
        <4>2. 0 \in 0..Last(Folder) /\ 0 \in 0..Folder.actual
          BY <1>3
        <4> QED BY <1>3, <1>6, <2>1, <3>1, <3>2, <4>1, <4>2 DEF Verified
      <3>7. Mapped'
        BY <1>1, <1>2, <2>1, <3>1 DEF Mapped, Taken
      <3> QED BY <1>2, <2>1, <3>1, <3>3, <3>4, <3>5, <3>6, <3>7, StillRunning DEF Running, Verifying
    <2> QED BY <2>2, <2>3
  <1> QED BY <1>4, <1>5, <1>6 DEF DecodeFolder

-----------------------------------------------------------------------------
(***************************************************************************)
(* The substreams of the folder, and the entries they are mapped to.       *)
(***************************************************************************)
LEMMA NextTaken ==
    ASSUME IsArchive(archive), NEW c \in 1..Len(archive.folders), NEW n \in Nat,
           n < Last(archive.folders[c]), Last(archive.folders[c]) \in Nat,
           streamed \in Nat, Taken(c, n)
    PROVE  /\ NextStreamed # {}
           /\ SlotOf(archive, FirstOf(NextStreamed)) = <<c, n + 1>>
           /\ FirstOf(NextStreamed) \in Nat
           /\ \A d \in Streamed(archive) : (d <= FirstOf(NextStreamed)) <=> Behind(archive, d, c, n + 1)
  <1>1. n + 1 \in 1..Last(archive.folders[c])
    OBVIOUS
  <1>2. PICK t \in Streamed(archive) : archive.entries[t].folder = c /\ archive.entries[t].substream = n + 1
    <2>1. \A f \in 1..Len(archive.folders) : \A s \in 1..Last(archive.folders[f]) :
              \E e \in Streamed(archive) : archive.entries[e].folder = f /\ archive.entries[e].substream = s
      BY MappingFacts, Zenon
    <2> QED BY <1>1, <2>1, Zenon
  <1>3. \A d \in Streamed(archive) : /\ d \in Nat /\ archive.entries[d].folder \in Nat
                                     /\ archive.entries[d].substream \in Nat
    BY MappingFacts, ArchiveFacts
  <1>4. \A d, e \in Streamed(archive) : d < e =>
            \/ archive.entries[d].folder < archive.entries[e].folder
            \/ /\ archive.entries[d].folder = archive.entries[e].folder
               /\ archive.entries[d].substream < archive.entries[e].substream
    BY MappingFacts
  <1>5. \A d \in Streamed(archive) : (d <= streamed) <=> Behind(archive, d, c, n)
    BY DEF Taken
  <1>6. ~Behind(archive, t, c, n)
    BY <1>2 DEF Behind
  <1>7. t \in NextStreamed /\ t \in Nat
    BY <1>2, <1>3, <1>5, <1>6 DEF NextStreamed
  <1>8. ASSUME NEW d \in NextStreamed
        PROVE  t <= d
    <2>1. d \in Streamed(archive) /\ d \in Nat /\ d > streamed
      BY <1>3, <1>8 DEF NextStreamed
    <2>2. ~Behind(archive, d, c, n)
      BY <1>5, <2>1
    <2>3. SUFFICES ASSUME d < t
                   PROVE  FALSE
      BY <1>7, <2>1
    <2>4. \/ archive.entries[d].folder < c
          \/ archive.entries[d].folder = c /\ archive.entries[d].substream < n + 1
      <3>1. \/ archive.entries[d].folder < archive.entries[t].folder
            \/ /\ archive.entries[d].folder = archive.entries[t].folder
               /\ archive.entries[d].substream < archive.entries[t].substream
        BY <1>2, <1>4, <2>1, <2>3
      <3>2. archive.entries[t].folder = c /\ archive.entries[t].substream = n + 1
        BY <1>2
      <3> QED BY <3>1, <3>2
    <2>5. archive.entries[d].substream \in Nat
      BY <1>3, <2>1
    <2> QED BY <2>2, <2>4, <2>5 DEF Behind
  <1>9. FirstOf(NextStreamed) = t
    <2>1. \A d \in NextStreamed : d \in Nat
      BY <1>3 DEF NextStreamed
    <2>2. ASSUME NEW e \in NextStreamed, \A d \in NextStreamed : e <= d
          PROVE  e = t
      <3>1. e <= t /\ t <= e /\ e \in Nat /\ t \in Nat
        BY <1>7, <1>8, <2>1, <2>2, Zenon
      <3> QED BY <3>1
    <2> QED BY <1>7, <1>8, <2>2 DEF FirstOf
  <1>10. ASSUME NEW d \in Streamed(archive)
         PROVE  (d <= t) <=> Behind(archive, d, c, n + 1)
    <2>1. d \in Nat /\ archive.entries[d].folder \in Nat /\ archive.entries[d].substream \in Nat
      BY <1>3, <1>10
    <2>2. CASE d < t
      <3>1. \/ archive.entries[d].folder < archive.entries[t].folder
            \/ /\ archive.entries[d].folder = archive.entries[t].folder
               /\ archive.entries[d].substream < archive.entries[t].substream
        BY <1>4, <1>10, <2>2
      <3>2. Behind(archive, d, c, n + 1)
        BY <1>2, <2>1, <3>1 DEF Behind
      <3> QED BY <1>7, <2>1, <2>2, <3>2
    <2>3. CASE d = t
      BY <1>2, <1>7, <2>3 DEF Behind
    <2>4. CASE t < d
      <3>1. \/ c < archive.entries[d].folder
            \/ c = archive.entries[d].folder /\ n + 1 < archive.entries[d].substream
        BY <1>2, <1>4, <1>10, <2>4
      <3> QED BY <1>7, <2>1, <2>4, <3>1 DEF Behind
    <2> QED BY <1>7, <2>1, <2>2, <2>3, <2>4
  <1> QED BY <1>2, <1>7, <1>9, <1>10 DEF SlotOf

\* Past the last substream of a folder the next one begins.
LEMMA FolderTaken ==
    ASSUME IsArchive(archive), NEW c \in 1..Len(archive.folders), streamed \in Nat,
           Taken(c, Last(archive.folders[c]))
    PROVE  Taken(c + 1, 0)
  <1>1. ASSUME NEW d \in Streamed(archive)
        PROVE  Behind(archive, d, c, Last(archive.folders[c])) <=> Behind(archive, d, c + 1, 0)
    <2>1. /\ archive.entries[d].folder \in Nat /\ archive.entries[d].substream \in Nat
          /\ archive.entries[d].folder \in 1..Len(archive.folders) /\ Len(archive.folders) \in Nat
          /\ archive.entries[d].substream \in 1..Last(archive.folders[archive.entries[d].folder])
      BY <1>1, MappingFacts, ArchiveFacts
    <2>2. Last(archive.folders[c]) \in Nat
      BY ArchiveFacts, FolderFacts
    <2>3. archive.entries[d].substream >= 1
      <3>1. Last(archive.folders[archive.entries[d].folder]) \in Nat
        BY <2>1, ArchiveFacts, FolderFacts
      <3> QED BY <2>1, <3>1
    <2>4. archive.entries[d].folder = c => archive.entries[d].substream <= Last(archive.folders[c])
      BY <2>1, <2>2
    <2>5. Behind(archive, d, c, Last(archive.folders[c])) <=> (archive.entries[d].folder <= c)
      BY <2>1, <2>4 DEF Behind
    <2>6. Behind(archive, d, c + 1, 0) <=> (archive.entries[d].folder < c + 1)
      BY <2>1, <2>3 DEF Behind
    <2> QED BY <2>1, <2>5, <2>6
  <1> QED BY <1>1 DEF Taken

\* The substream to be hashed begins where the one before it ended.
LEMMA SubstreamBytes ==
    ASSUME Typed, Reached, Verified, Decoded, substream < Last(Folder)
    PROVE  /\ folder \in DOMAIN Folders /\ Folder \in FolderRecords /\ Folder.actual \in Nat
           /\ Last(Folder) \in Nat /\ substream \in Nat /\ substream + 1 \in 1..Last(Folder)
           /\ start = FirstByte(Folder, substream + 1) /\ start \in 0..Folder.actual
           /\ SubstreamEnd = LastByte(Folder, substream + 1) /\ SubstreamEnd \in Nat
  <1>1. folder \in DOMAIN Folders /\ Folder \in FolderRecords /\ Folder.actual \in Nat /\ Last(Folder) \in Nat
    BY Validated DEF Reached, Folder, Decoded
  <1>2. /\ substream \in 0..Last(Folder) /\ start \in 0..Folder.actual
        /\ start = IF substream = 0 THEN 0 ELSE LastByte(Folder, substream)
        /\ \A s \in 1..substream : Checked(Folder, s)
    BY DEF Verified
  <1>3. substream \in Nat /\ substream + 1 \in 1..Last(Folder)
    BY <1>1, <1>2
  <1>4. start = KnownSum(Folder, substream)
    <2>1. CASE substream = 0
      BY <1>1, <1>2, <2>1, KnownSumFacts
    <2>2. CASE substream # 0
      <3>1. substream \in 1..substream /\ substream \in 1..Last(Folder) /\ substream # Last(Folder)
        BY <1>1, <1>3, <2>2
      <3>2. SizeOf(Folder, substream) # Unknown
        BY <1>2, <3>1 DEF Checked
      <3>3. LastByte(Folder, substream) = KnownSum(Folder, substream)
        BY <1>1, <3>1, <3>2, ByteFacts
      <3> QED BY <1>2, <2>2, <3>3
    <2> QED BY <2>1, <2>2
  <1>5. (substream + 1) - 1 = substream
    BY <1>3
  <1>6. start = FirstByte(Folder, substream + 1)
    BY <1>4, <1>5 DEF FirstByte
  <1>7. SubstreamEnd = LastByte(Folder, substream + 1)
    BY <1>6 DEF SubstreamEnd, LastByte
  <1>8. SubstreamEnd \in Nat
    BY <1>1, <1>3, <1>7, ByteFacts
  <1> QED BY <1>1, <1>2, <1>3, <1>6, <1>7, <1>8

\* A substream's bounds are computed and checked.
LEMMA NextSubstreamPreserves ==
    ASSUME Inv, NextSubstream
    PROVE  Inv'
  <1>1. pc = "members" /\ pc # "done" /\ substream < Last(Folder) /\ Decoded
    BY DEF NextSubstream, Decoded
  <1>2. operation = 0
    BY <1>1, RunningState DEF Opening
  <1>3. Typed /\ result = "none" /\ Reached /\ Counted /\ Verified /\ Mapped
    BY <1>1, <1>2, RunningState
  <1>4. /\ folder \in DOMAIN Folders /\ Folder \in FolderRecords /\ Folder.actual \in Nat
        /\ Last(Folder) \in Nat /\ substream \in Nat /\ substream + 1 \in 1..Last(Folder)
        /\ start = FirstByte(Folder, substream + 1) /\ start \in 0..Folder.actual
        /\ SubstreamEnd = LastByte(Folder, substream + 1) /\ SubstreamEnd \in Nat
    BY <1>1, <1>3, SubstreamBytes
  <1>5. part = "main" =>
           /\ NextStreamed # {} /\ FirstOf(NextStreamed) \in Nat
           /\ SlotOf(archive, FirstOf(NextStreamed)) = <<folder, substream + 1>>
           /\ \A d \in Streamed(archive) :
                  (d <= FirstOf(NextStreamed)) <=> Behind(archive, d, folder, substream + 1)
    <2> SUFFICES ASSUME part = "main"
                 PROVE  /\ NextStreamed # {} /\ FirstOf(NextStreamed) \in Nat
                        /\ SlotOf(archive, FirstOf(NextStreamed)) = <<folder, substream + 1>>
                        /\ \A d \in Streamed(archive) :
                               (d <= FirstOf(NextStreamed)) <=> Behind(archive, d, folder, substream + 1)
      OBVIOUS
    <2>1. /\ IsArchive(archive) /\ folder \in 1..Len(archive.folders) /\ Folder = archive.folders[folder]
          /\ streamed \in Nat /\ Taken(folder, substream)
      BY <1>1, <1>3, <1>4, Validated DEF Mapped, Folder
    <2>2. substream < Last(archive.folders[folder]) /\ Last(archive.folders[folder]) \in Nat
      BY <1>1, <1>4, <2>1
    <2> QED BY <1>4, <2>1, <2>2, NextTaken
  <1>6. \/ Fails("Cancelled") \/ Fails("WorkUnits")
        \/ SizeOf(Folder, substream + 1) = Unknown /\ substream + 1 < Last(Folder) /\ Fails("Unsupported")
        \/ SubstreamEnd > Folder.actual /\ Fails("Format")
        \/ /\ ~(SizeOf(Folder, substream + 1) = Unknown /\ substream + 1 < Last(Folder))
           /\ ~(SubstreamEnd > Folder.actual)
           /\ pc' = "checksum" /\ end' = SubstreamEnd
           /\ streamed' = IF part = "main" THEN FirstOf(NextStreamed) ELSE streamed
           /\ UNCHANGED <<fixed, cancelled, place, substream, start, reader, result>>
    BY <1>5 DEF NextSubstream, Checkpoint
  <1>7. CASE Fails("Cancelled") \/ Fails("WorkUnits")
    BY <1>1, <1>2, <1>7, VerifyFails DEF Answers, Disturbances
  <1>8. CASE SizeOf(Folder, substream + 1) = Unknown /\ substream + 1 < Last(Folder) /\ Fails("Unsupported")
    <2>1. substream + 1 # Last(Folder)
      BY <1>4, <1>8
    <2>2. ~Fitting(Folder)
      BY <1>4, <1>8, <2>1 DEF Fitting, Filled, Tiled
    <2>3. ~Fits(archive)
      BY <1>3, <1>4, <2>2, Misfits
    <2> QED BY <1>1, <1>2, <1>8, <2>3, VerifyFails DEF Answers, Internal, Corruptions, Disturbances
  <1>9. CASE SubstreamEnd > Folder.actual /\ Fails("Format")
    <2>1. LastByte(Folder, substream + 1) > Folder.actual /\ ~(LastByte(Folder, substream + 1) <= Folder.actual)
      BY <1>4, <1>9
    <2>2. part = "main" => ~Tiled(Folder)
      BY <1>1, <1>3, <1>4, <2>1, OverrunIsNotTiled DEF Verified
    <2>3. ~Fitting(Folder)
      BY <1>3, <1>4, <2>1, <2>2 DEF Fitting, Filled, Typed
    <2>4. ~Fits(archive)
      BY <1>3, <1>4, <2>3, Misfits
    <2> QED BY <1>1, <1>2, <1>9, <2>4, VerifyFails DEF Answers, Internal, Corruptions, Disturbances
  <1>10. CASE /\ ~(SizeOf(Folder, substream + 1) = Unknown /\ substream + 1 < Last(Folder))
              /\ ~(SubstreamEnd > Folder.actual)
              /\ pc' = "checksum" /\ end' = SubstreamEnd
              /\ streamed' = IF part = "main" THEN FirstOf(NextStreamed) ELSE streamed
              /\ UNCHANGED <<fixed, cancelled, place, substream, start, reader, result>>
    <2>1. UNCHANGED <<archive, operation, cancelled, part, folder, maximum_output, total_output, substream, start, result>>
      BY <1>10 DEF fixed, place
    <2>2. Folders' = Folders /\ Folder' = Folder /\ Before' = Before
      BY <2>1, SameFolder
    <2>3. Typed'
      BY <1>1, <1>3, <1>10, <2>1 DEF Typed
    <2>4. Reached'
      BY <1>3, <1>4, <1>10, <2>1, ReachedKept
    <2>5. Counted'
      <3>1. Decoded' /\ pc' # "decode"
        BY <1>10 DEF Decoded
      <3> QED BY <1>1, <1>3, <2>1, <2>2, <3>1 DEF Counted
    <2>6. Verified'
      <3>1. /\ SizeOf(Folder, substream + 1) = Unknown => substream + 1 = Last(Folder)
            /\ SubstreamEnd <= Folder.actual
        BY <1>4, <1>10
      <3>2. Decoded'
        BY <1>10 DEF Decoded
      <3> QED BY <1>1, <1>3, <1>4, <1>10, <2>1, <2>2, <3>1, <3>2 DEF Verified
    <2>7. Mapped'
      BY <1>3, <1>5, <1>10, <2>1 DEF Mapped, Taken
    <2> QED BY <1>2, <1>3, <2>1, <2>3, <2>4, <2>5, <2>6, <2>7, StillRunning DEF Running, Verifying
  <1> QED BY <1>6, <1>7, <1>8, <1>9, <1>10

\* A substream's checksum is compared.
LEMMA ChecksumSubstreamPreserves ==
    ASSUME Inv, ChecksumSubstream
    PROVE  Inv'
  <1> DEFINE crc == Folder.substreams[substream + 1].crc
             scope == IF part = "main" THEN "MemberChecksum" ELSE "AdditionalChecksum"
  <1>1. /\ pc = "checksum" /\ pc # "done" /\ Decoded
        /\ \/ Fails("Cancelled") \/ Fails("WorkUnits")
           \/ crc = "Other" /\ Fails(Integrity(Folder, scope))
           \/ /\ crc # "Other"
              /\ pc' = "members" /\ substream' = substream + 1 /\ start' = end
              /\ UNCHANGED <<fixed, cancelled, place, end, streamed, reader, result>>
    BY DEF ChecksumSubstream, Checkpoint, Decoded
  <1>2. operation = 0
    BY <1>1, RunningState DEF Opening
  <1>3. Typed /\ result = "none" /\ Reached /\ Counted /\ Verified /\ Mapped
    BY <1>1, <1>2, RunningState
  <1>4. /\ substream < Last(Folder)
        /\ end = LastByte(Folder, substream + 1) /\ end <= Folder.actual
        /\ SizeOf(Folder, substream + 1) = Unknown => substream + 1 = Last(Folder)
        /\ \A s \in 1..substream : Checked(Folder, s)
    BY <1>1, <1>3 DEF Verified
  <1>5. /\ folder \in DOMAIN Folders /\ Folder \in FolderRecords /\ Folder.actual \in Nat
        /\ Last(Folder) \in Nat /\ substream \in Nat /\ substream + 1 \in 1..Last(Folder)
    BY <1>1, <1>3, <1>4, SubstreamBytes
  <1>6. CASE Fails("Cancelled") \/ Fails("WorkUnits")
    BY <1>1, <1>2, <1>6, VerifyFails DEF Answers, Disturbances
  <1>7. CASE crc = "Other" /\ Fails(Integrity(Folder, scope))
    <2>1. substream + 1 \in FaultsOf(part, Folder)
      BY <1>5, <1>7 DEF FaultsOf
    <2>2. ASSUME NEW m \in FaultsOf(part, Folder)
          PROVE  m = substream + 1 \/ substream + 1 < m
      <3>1. CASE m \in 1..Last(Folder)
        <4>1. CASE m = 0 \/ m = Last(Folder) + 1
          BY <1>5, <3>1, <4>1
        <4>2. CASE ~(m = 0 \/ m = Last(Folder) + 1)
          <5>1. Folder.substreams[m].crc = "Other"
            BY <2>2, <4>2 DEF FaultsOf
          <5>2. m \notin 1..substream
            BY <1>4, <5>1 DEF Checked
          <5> QED BY <1>5, <3>1, <5>2
        <4> QED BY <4>1, <4>2
      <3>2. CASE m \notin 1..Last(Folder)
        <4>1. Folder.crc_mismatch /\ m = IF part = "additional" THEN 0 ELSE Last(Folder) + 1
          BY <2>2, <3>2 DEF FaultsOf
        <4>2. part # "additional"
          BY <1>1, <1>3, <4>1 DEF Verified
        <4> QED BY <1>5, <4>1, <4>2
      <3> QED BY <3>1, <3>2
    <2>3. LET x == [part |-> part, folder |-> folder, at |-> substream + 1]
          IN  x \in Faults(archive) /\ IsFirstFault(archive, x)
      BY <1>3, <1>5, <2>1, <2>2, FirstOfFolder
    <2>4. ReportOf(archive, [part |-> part, folder |-> folder, at |-> substream + 1]) = Integrity(Folder, scope)
      BY <1>3, <1>5 DEF ReportOf, Folder, Folders, Typed
    <2>5. Integrity(Folder, scope) = "MemberChecksum" =>
              SlotOf(archive, streamed) = <<folder, substream + 1>>
      BY <1>1, <1>3 DEF Integrity, Mapped
    <2>6. Integrity(Folder, scope) \in Corruptions
      BY DEF Integrity, Corruptions
    <2> HIDE DEF scope
    <2>7. Answers(Integrity(Folder, scope))
      BY <2>3, <2>4, <2>5, <2>6 DEF Answers, IsReported
    <2> QED BY <1>1, <1>2, <1>7, <2>7, VerifyFails
  <1>8. CASE /\ crc # "Other"
             /\ pc' = "members" /\ substream' = substream + 1 /\ start' = end
             /\ UNCHANGED <<fixed, cancelled, place, end, streamed, reader, result>>
    <2>1. UNCHANGED <<archive, operation, cancelled, part, folder, maximum_output, total_output, streamed, result>>
      BY <1>8 DEF fixed, place
    <2>2. Folders' = Folders /\ Folder' = Folder /\ Before' = Before
      BY <2>1, SameFolder
    <2>3. Typed'
      BY <1>1, <1>3, <1>8, <2>1 DEF Typed
    <2>4. Reached'
      BY <1>3, <1>5, <1>8, <2>1, ReachedKept
    <2>5. Decoded' /\ pc' # "decode" /\ pc' # "checksum"
      BY <1>8 DEF Decoded
    <2>6. Counted'
      BY <1>1, <1>3, <2>1, <2>2, <2>5 DEF Counted
    <2>7. Verified'
      <3>1. Checked(Folder, substream + 1)
        BY <1>4, <1>8 DEF Checked
      <3>2. \A s \in 1..(substream + 1) : Checked(Folder, s)
        <4>1. \A s \in 1..(substream + 1) : s = substream + 1 \/ s \in 1..substream
          BY <1>5
        <4> QED BY <1>4, <3>1, <4>1
      <3>3. end \in 0..Folder.actual
        <4>1. end \in Nat
          BY <1>4, <1>5, ByteFacts
        <4> QED BY <1>4, <1>5, <4>1
      <3>4. substream' \in 0..Last(Folder) /\ substream' # 0
        BY <1>5, <1>8
      <3>5. start' = LastByte(Folder, substream')
        BY <1>4, <1>8
      <3>6. /\ part = "main" => Admitted(Folder)
            /\ part = "additional" => ~Folder.crc_mismatch
            /\ part = "main" /\ UnknownFinal(Folder) =>
                  Folder.actual <= KnownSum(Folder, Last(Folder)) + MaxEntryOutput
        BY <1>1, <1>3 DEF Verified
      <3> QED BY <1>8, <2>1, <2>2, <2>5, <3>2, <3>3, <3>4, <3>5, <3>6 DEF Verified
    <2>8. Mapped'
      BY <1>1, <1>3, <1>8, <2>1 DEF Mapped, Taken
    <2> QED BY <1>2, <1>3, <2>1, <2>3, <2>4, <2>6, <2>7, <2>8, StillRunning DEF Running, Verifying
  <1> QED BY <1>1, <1>6, <1>7, <1>8

\* A folder whose substreams were all checked and that is accepted is good.
LEMMA AcceptedIsGood ==
    ASSUME Typed, Reached, Verified, Decoded, substream = Last(Folder), FolderVerified = "Ok"
    PROVE  Good(Folder)
  <1>1. folder \in DOMAIN Folders /\ Folder \in FolderRecords /\ Folder.actual \in Nat /\ Last(Folder) \in Nat
        /\ MaxEntryOutput \in Nat
    BY Validated DEF Reached, Folder, Decoded
  <1>2. /\ start = IF Last(Folder) = 0 THEN 0 ELSE LastByte(Folder, Last(Folder))
        /\ \A s \in 1..Last(Folder) : Checked(Folder, s)
    BY DEF Verified
  <1>3. CASE part = "additional"
    <2>1. start = Folder.actual
      BY <1>3 DEF FolderVerified, AdditionalVerified
    <2>2. ~Folder.crc_mismatch
      BY <1>3 DEF Verified
    <2>3. Sound(Folder)
      BY <1>2, <2>2 DEF Sound, Checked
    <2>4. \A s \in 1..Last(Folder) : /\ SizeOf(Folder, s) = Unknown => s = Last(Folder)
                                     /\ LastByte(Folder, s) <= Folder.actual
      BY <1>2 DEF Checked
    <2>5. Folder.actual = IF Last(Folder) = 0 THEN 0 ELSE LastByte(Folder, Last(Folder))
      BY <1>2, <2>1
    <2> QED BY <1>3, <2>3, <2>4, <2>5 DEF Good, AdditionalSound, Filled
  <1>4. CASE part = "main"
    <2>1. /\ Admitted(Folder)
          /\ UnknownFinal(Folder) => Folder.actual <= KnownSum(Folder, Last(Folder)) + MaxEntryOutput
      BY <1>4 DEF Verified
    <2>2. ~Folder.crc_mismatch
      BY <1>4 DEF FolderVerified, Integrity
    <2>3. Sound(Folder)
      BY <1>2, <2>2 DEF Sound, Checked
    <2>4. ASSUME NEW s \in 1..Last(Folder)
          PROVE  LastByte(Folder, s) - FirstByte(Folder, s) \in 0..MaxEntryOutput
      <3>1. FirstByte(Folder, s) \in Nat /\ LastByte(Folder, s) \in Nat
        BY <1>1, <2>4, ByteFacts
      <3>2. CASE SizeOf(Folder, s) # Unknown
        <4>1. SizeOf(Folder, s) \in Nat /\ LastByte(Folder, s) = FirstByte(Folder, s) + SizeOf(Folder, s)
          BY <1>1, <2>4, <3>2, ByteFacts
        <4>2. SizeOf(Folder, s) <= MaxEntryOutput
          BY <1>1, <2>1, <2>4, AdmittedFacts
        <4> QED BY <1>1, <3>1, <4>1, <4>2
      <3>3. CASE SizeOf(Folder, s) = Unknown
        <4>1. s = Last(Folder) /\ Last(Folder) > 0
          BY <1>1, <2>1, <2>4, <3>3, AdmittedFacts
        <4>2. UnknownFinal(Folder)
          BY <3>3, <4>1 DEF UnknownFinal
        <4>3. LastByte(Folder, s) = Folder.actual /\ KnownSum(Folder, s) = FirstByte(Folder, s)
          BY <1>1, <2>4, <3>3, ByteFacts
        <4>4. FirstByte(Folder, s) <= Folder.actual
          <5>1. CASE s = 1
            <6>1. FirstByte(Folder, s) = KnownSum(Folder, 0)
              BY <5>1 DEF FirstByte
            <6> QED BY <1>1, <6>1, KnownSumFacts
          <5>2. CASE s # 1
            <6>1. s - 1 \in 1..Last(Folder) /\ s - 1 < Last(Folder) /\ (s - 1) + 1 = s
              BY <1>1, <2>4, <4>1, <5>2
            <6>2. FirstByte(Folder, (s - 1) + 1) = LastByte(Folder, s - 1)
              BY <1>1, <2>1, <6>1, AdmittedFacts
            <6>3. LastByte(Folder, s - 1) <= Folder.actual
              BY <1>2, <6>1 DEF Checked
            <6> QED BY <6>1, <6>2, <6>3
          <5> QED BY <5>1, <5>2
        <4>5. Folder.actual <= FirstByte(Folder, s) + MaxEntryOutput
          BY <2>1, <4>1, <4>2, <4>3
        <4> QED BY <1>1, <3>1, <4>3, <4>4, <4>5
      <3> QED BY <3>2, <3>3
    <2>5. Tiled(Folder)
      BY <1>1, <2>1, <2>4, DeliveredIsTiled
    <2> QED BY <1>4, <2>3, <2>5 DEF Good
  <1> QED BY <1>3, <1>4 DEF Typed

\* A folder is verified when all its substreams are and they fill it.
LEMMA FolderDonePreserves ==
    ASSUME Inv, FolderDone
    PROVE  Inv'
  <1>1. pc = "members" /\ pc # "done" /\ substream = Last(Folder) /\ Decoded
    BY DEF FolderDone, Decoded
  <1>2. operation = 0
    BY <1>1, RunningState DEF Opening
  <1>3. Typed /\ result = "none" /\ Reached /\ Counted /\ Verified /\ Mapped
    BY <1>1, <1>2, RunningState
  <1>4. /\ folder \in DOMAIN Folders /\ folder \in 1..Len(Folders) /\ Len(Folders) \in Nat
        /\ Folder \in FolderRecords /\ Last(Folder) \in Nat
    BY <1>1, <1>3, Validated DEF Reached, Folder
  <1>5. CASE FolderVerified # "Ok"
    <2>1. Fails(FolderVerified)
      BY <1>5 DEF FolderDone
    <2>2. CASE part = "additional"
      <3>1. FolderVerified = "Format" /\ start # Folder.actual
        BY <1>5, <2>2 DEF FolderVerified, AdditionalVerified
      <3>2. start = IF Last(Folder) = 0 THEN 0 ELSE LastByte(Folder, Last(Folder))
        BY <1>1, <1>3 DEF Verified
      <3>3. ~Fitting(Folder)
        BY <2>2, <3>1, <3>2 DEF Fitting, Filled
      <3>4. ~Fits(archive)
        BY <1>3, <1>4, <3>3, Misfits
      <3>5. Answers(FolderVerified)
        BY <3>1, <3>4 DEF Answers, Internal, Corruptions, Disturbances
      <3> QED BY <1>1, <1>2, <2>1, <3>5, VerifyFails
    <2>3. CASE part # "additional"
      <3>1. Folder.crc_mismatch /\ FolderVerified = Integrity(Folder, "FolderChecksum") /\ part = "main"
        BY <1>3, <1>5, <2>3 DEF FolderVerified, Typed
      <3>2. Last(Folder) + 1 \in FaultsOf(part, Folder)
        BY <2>3, <3>1 DEF FaultsOf
      <3>3. ASSUME NEW m \in FaultsOf(part, Folder)
            PROVE  m = Last(Folder) + 1
        <4>1. m \notin 1..Last(Folder) \/ Folder.substreams[m].crc # "Other"
          BY <1>1, <1>3 DEF Verified, Checked
        <4> QED BY <2>3, <3>3, <4>1 DEF FaultsOf
      <3>4. LET x == [part |-> part, folder |-> folder, at |-> Last(Folder) + 1]
            IN  x \in Faults(archive) /\ IsFirstFault(archive, x)
        BY <1>3, <1>4, <3>2, <3>3, FirstOfFolder
      <3>5. ReportOf(archive, [part |-> part, folder |-> folder, at |-> Last(Folder) + 1]) = FolderVerified
        <4>1. Last(Folder) + 1 \notin 1..Last(Folder)
          BY <1>4
        <4>2. Folder = archive.folders[folder]
          BY <3>1 DEF Folder, Folders
        <4> QED BY <3>1, <4>1, <4>2 DEF ReportOf
      <3>6. FolderVerified \in {"FolderChecksum", "WrongPasswordOrCorrupt"}
        BY <3>1 DEF Integrity
      <3>7. Answers(FolderVerified)
        BY <3>4, <3>5, <3>6 DEF Answers, IsReported, Corruptions
      <3> QED BY <1>1, <1>2, <2>1, <3>7, VerifyFails
    <2> QED BY <2>2, <2>3
  <1>6. CASE FolderVerified = "Ok"
    <2>1. /\ folder' = folder + 1
          /\ pc' = IF part = "additional" THEN "additional" ELSE "folder"
          /\ UNCHANGED <<archive, operation, cancelled, part, maximum_output, total_output, streamed, result>>
      BY <1>6 DEF FolderDone, fixed, cut
    <2>2. Folders' = Folders /\ Before' = Before
      BY <2>1 DEF Folders, Before
    <2>3. Typed'
      BY <1>1, <1>3, <2>1 DEF Typed
    <2>4. Reached'
      <3>1. Good(Folders[folder])
        BY <1>1, <1>3, <1>6, AcceptedIsGood DEF Folder
      <3>2. \A f \in 1..(folder - 1) : Good(Folders[f])
        BY <1>3 DEF Reached
      <3>3. \A f \in 1..folder : f = folder \/ f \in 1..(folder - 1)
        BY <1>4
      <3>4. \A f \in 1..folder : Good(Folders[f])
        BY <3>1, <3>2, <3>3
      <3>5. folder' - 1 = folder /\ folder' \in 1..(Len(Folders) + 1)
        BY <1>4, <2>1
      <3>6. \A f \in 1..(folder' - 1) : Good(Folders[f])'
        BY <2>1, <2>2, <3>4, <3>5 DEF Good
      <3> QED BY <1>3, <2>1, <2>2, <3>5, <3>6 DEF Reached, Typed
    <2>5. Counted'
      <3>1. ~Decoded' /\ pc' # "decode" /\ folder' - 1 = folder
        BY <1>4, <2>1 DEF Decoded
      <3> QED BY <1>1, <1>3, <2>1, <2>2, <3>1 DEF Counted
    <2>6. Verified'
      BY <2>1 DEF Verified, Decoded
    <2>7. Mapped'
      <3>1. streamed \in Nat /\ (part = "additional" => streamed = 0)
        BY <1>3 DEF Mapped
      <3>2. ASSUME part = "main"
            PROVE  Taken(folder + 1, 0)
        <4>1. /\ IsArchive(archive) /\ folder \in 1..Len(archive.folders) /\ Folder = archive.folders[folder]
              /\ Taken(folder, substream)
          BY <1>1, <1>3, <1>4, <3>2, Validated DEF Mapped, Folder
        <4>2. Taken(folder, Last(archive.folders[folder]))
          BY <1>1, <4>1
        <4> QED BY <3>1, <4>1, <4>2, FolderTaken
      <3> QED BY <2>1, <3>1, <3>2 DEF Mapped, Taken
    <2> QED BY <1>2, <1>3, <2>1, <2>3, <2>4, <2>5, <2>6, <2>7, StillRunning DEF Running, Verifying
  <1> QED BY <1>5, <1>6

\* Verification succeeds when every folder is verified.
LEMMA VerifyDonePreserves ==
    ASSUME Inv, VerifyDone
    PROVE  Inv'
  <1>1. pc = "folder" /\ pc # "done" /\ folder > Len(Folders)
    BY DEF VerifyDone
  <1>2. operation = 0
    BY <1>1, RunningState DEF Opening
  <1>3. Typed /\ result = "none" /\ Reached /\ Counted /\ Verified /\ Mapped
    BY <1>1, <1>2, RunningState
  <1>4. /\ part = "main" /\ Folders = archive.folders /\ folder = Len(archive.folders) + 1
        /\ Len(archive.folders) \in Nat /\ DOMAIN archive.folders = 1..Len(archive.folders)
        /\ IsArchive(archive) /\ folder - 1 = Len(archive.folders)
        /\ archive.additional \in Seq(FolderRecords) /\ archive.folders \in Seq(FolderRecords)
    BY <1>1, <1>3, Validated DEF Reached
  <1>5. NextStreamed = {}
    <2>1. ASSUME NEW d \in Streamed(archive)
          PROVE  ~(d > streamed)
      <3>1. d \in Nat /\ streamed \in Nat /\ archive.entries[d].folder < folder
        BY <1>3, <1>4, <2>1, MappingFacts, ArchiveFacts DEF Mapped
      <3>2. Behind(archive, d, folder, 0)
        BY <3>1 DEF Behind
      <3>3. d <= streamed
        BY <1>1, <1>3, <1>4, <2>1, <3>2 DEF Mapped, Taken
      <3> QED BY <3>1, <3>3
    <2> QED BY <2>1 DEF NextStreamed
  <1>6. Fails("Ok")
    BY <1>5 DEF VerifyDone
  <1>7. VerifySucceeds(archive)
    <2>1. /\ \A f \in DOMAIN archive.additional : AdditionalSound(archive.additional[f])
          /\ OutputOf(archive.additional, DOMAIN archive.additional) <= MaxHeader
          /\ \A f \in DOMAIN archive.folders : Tiled(archive.folders[f]) /\ Sound(archive.folders[f])
      BY <1>3, <1>4 DEF Reached, Good
    <2>2. /\ total_output = OutputOf(archive.additional, DOMAIN archive.additional)
                            + OutputOf(archive.folders, DOMAIN archive.folders)
          /\ total_output <= MaxTotalOutput
      BY <1>1, <1>3, <1>4, Validated DEF Counted, Decoded, Before
    <2>3. \A f \in DOMAIN archive.additional : Filled(archive.additional[f]) /\ Sound(archive.additional[f])
      BY <2>1 DEF AdditionalSound
    <2> QED BY <2>1, <2>2, <2>3 DEF VerifySucceeds, Fits
  <1> QED BY <1>1, <1>2, <1>6, <1>7, VerifyFails DEF Answers

-----------------------------------------------------------------------------
(***************************************************************************)
(* open_member.                                                            *)
(***************************************************************************)
LEMMA OpenReturns ==
    ASSUME Inv, pc # "done", operation # 0, NEW error, Returns(error), error # "none",
           UNCHANGED <<fixed, cancelled, place, cut>>,
           \/ error \in Disturbances
           \/ error # "Opened" /\ (Entry.kind \in {"file", "empty"} => ~ExtractionSucceeds(archive))
           \/ /\ error = "Opened" /\ Entry.kind \in {"file", "empty"}
              /\ Entry.kind = "file" =>
                    LET f == archive.folders[Entry.folder]
                    IN  /\ reader'.start = FirstByte(f, Entry.substream)
                        /\ reader'.end = LastByte(f, Entry.substream)
                        /\ reader'.end - reader'.start \in 0..MaxEntryOutput
                        /\ reader'.end <= f.actual
                        /\ reader'.expected = f.substreams[Entry.substream].crc
                        /\ reader'.folder_crc_mismatch = f.crc_mismatch
    PROVE  Inv'
  <1>1. /\ pc' = "done" /\ result' = error
        /\ UNCHANGED <<archive, operation, cancelled, part, total_output>>
    BY DEF Returns, fixed, place
  <1>2. Typed /\ part = "main" /\ total_output = 0 /\ MaxTotalOutput \in Nat
    BY RunningState, Validated DEF Opening
  <1>3. Typed'
    BY <1>1, <1>2 DEF Typed
  <1>4. VerifyVerdict' /\ FirstCorruptionReported'
    BY <1>1, <1>2 DEF VerifyVerdict, FirstCorruptionReported
  <1>5. Entry' = Entry
    BY <1>1 DEF Entry
  <1>6. OpenedIsItsSlice'
    <2>1. CASE error \in Disturbances
      BY <1>1, <2>1 DEF OpenedIsItsSlice, Undisturbed, Disturbances
    <2>2. CASE error # "Opened" /\ (Entry.kind \in {"file", "empty"} => ~ExtractionSucceeds(archive))
      BY <1>1, <1>5, <2>2 DEF OpenedIsItsSlice
    <2>3. CASE error = "Opened" /\ error \notin Disturbances
      BY <1>1, <1>5, <2>3 DEF OpenedIsItsSlice
    <2> QED BY <2>1, <2>2, <2>3
  <1> QED BY <1>1, <1>3, <1>4, <1>6 DEF Inv

\* An open_member that fails as it may keeps the invariant.
LEMMA OpenFails ==
    ASSUME Inv, pc # "done", operation # 0, NEW error, Fails(error), error # "none",
           \/ error \in Disturbances
           \/ error # "Opened" /\ (Entry.kind \in {"file", "empty"} => ~ExtractionSucceeds(archive))
           \/ error = "Opened" /\ Entry.kind = "empty"
    PROVE  Inv'
  <1>1. Returns(error) /\ UNCHANGED <<fixed, cancelled, place, cut>>
    BY DEF Fails
  <1>2. CASE error \in Disturbances
    BY <1>1, <1>2, OpenReturns
  <1>3. CASE error # "Opened" /\ (Entry.kind \in {"file", "empty"} => ~ExtractionSucceeds(archive))
    BY <1>1, <1>3, OpenReturns
  <1>4. CASE error = "Opened" /\ Entry.kind = "empty"
    <2>1. Entry.kind # "file" /\ Entry.kind \in {"file", "empty"}
      BY <1>4
    <2> QED BY <1>1, <1>4, <2>1, OpenReturns
  <1> QED BY <1>2, <1>3, <1>4

\* The folder of the member that is opened.
LEMMA MemberFolder ==
    ASSUME Typed, operation # 0, Entry.kind = "file"
    PROVE  LET f == archive.folders[Entry.folder]
           IN  /\ Entry.folder \in DOMAIN archive.folders /\ f \in FolderRecords
               /\ f.actual \in Nat /\ Last(f) \in Nat /\ Entry.substream \in 1..Last(f)
               /\ ~Tiled(f) \/ f.actual > MaxTotalOutput => ~ExtractionSucceeds(archive)
  <1> DEFINE g == Entry.folder
             f == archive.folders[g]
             used == {h \in DOMAIN archive.folders : Last(archive.folders[h]) > 0}
  <1>1. /\ IsArchive(archive) /\ archive.folders \in Seq(FolderRecords) /\ operation \in DOMAIN archive.entries
        /\ MaxTotalOutput \in Nat
    BY Validated DEF Typed
  <1>2. operation \in Streamed(archive)
    BY <1>1 DEF Streamed, Entry
  <1>3. g \in 1..Len(archive.folders) /\ Entry.substream \in 1..Last(f)
    BY <1>1, <1>2, MappingFacts DEF Entry
  <1>4. g \in DOMAIN archive.folders /\ f \in FolderRecords
    BY <1>1, <1>3, ArchiveFacts
  <1>5. f.actual \in Nat /\ Last(f) \in Nat
    BY <1>4, FolderFacts
  <1>6. g \in used
    BY <1>3, <1>4, <1>5
  <1>7. ASSUME ExtractionSucceeds(archive)
        PROVE  Tiled(f) /\ ~(f.actual > MaxTotalOutput)
    <2>1. Tiled(f) /\ OutputOf(archive.folders, used) <= MaxTotalOutput
      BY <1>6, <1>7 DEF ExtractionSucceeds
    <2> HIDE DEF g, used
    <2>2. OutputOf(archive.folders, {}) = 0
      BY <1>1, NoOutput
    <2>3. OutputOf(archive.folders, {} \cup {g}) = OutputOf(archive.folders, {}) + archive.folders[g].actual
      BY <1>1, <1>3, OutputFacts
    <2>4. {} \cup {g} \subseteq used
      BY <1>6
    <2>5. OutputOf(archive.folders, {} \cup {g}) <= OutputOf(archive.folders, used)
      BY <1>1, <2>4, OutputGrows
    <2>6. OutputOf(archive.folders, used) \in Nat
      BY <1>1, OutputFacts
    <2> QED BY <1>1, <1>5, <2>1, <2>2, <2>3, <2>5, <2>6
  <1> QED BY <1>3, <1>4, <1>5, <1>7

\* A member without a stream opens empty, or is refused by its kind.
LEMMA OpenStreamlessPreserves ==
    ASSUME Inv, OpenStreamless
    PROVE  Inv'
  <1>1. /\ pc = "open" /\ pc # "done" /\ Entry.kind # "file"
        /\ Fails(IF Entry.kind = "empty" THEN "Opened" ELSE "Unsupported")
    BY DEF OpenStreamless
  <1>2. operation # 0
    BY <1>1, RunningState DEF Reached
  <1>3. CASE Entry.kind = "empty"
    BY <1>1, <1>2, <1>3, OpenFails
  <1>4. CASE Entry.kind # "empty"
    BY <1>1, <1>2, <1>4, OpenFails
  <1> QED BY <1>3, <1>4

\* A member with a stream has its folder preflighted.
LEMMA OpenStreamedPreserves ==
    ASSUME Inv, OpenStreamed
    PROVE  Inv'
  <1> DEFINE f == archive.folders[Entry.folder]
             preflight == Preflight(f, MaxTotalOutput)
  <1>1. /\ pc = "open" /\ pc # "done" /\ Entry.kind = "file"
        /\ \/ Fails("Cancelled") \/ Fails("WorkUnits")
           \/ SizeOf(f, Entry.substream) > MaxEntryOutput /\ Fails("EntryOutputBytes")
           \/ preflight # "Ok" /\ Fails(preflight)
           \/ /\ preflight = "Ok" /\ pc' = "decode" /\ folder' = Entry.folder
              /\ maximum_output' = Permitted(f, MaxTotalOutput)
              /\ UNCHANGED <<fixed, cancelled, part, total_output, cut, reader, result>>
    BY DEF OpenStreamed, Preflighted, Checkpoint
  <1>2. operation # 0
    BY <1>1, RunningState DEF Reached
  <1>3. Typed /\ result = "none" /\ Opening /\ MaxTotalOutput \in Nat
    BY <1>1, <1>2, RunningState, Validated
  <1>4. /\ f \in FolderRecords /\ Entry.substream \in 1..Last(f)
        /\ ~Tiled(f) \/ f.actual > MaxTotalOutput => ~ExtractionSucceeds(archive)
    BY <1>1, <1>2, <1>3, MemberFolder
  <1>5. CASE Fails("Cancelled") \/ Fails("WorkUnits")
    BY <1>1, <1>2, <1>5, OpenFails DEF Disturbances
  <1>6. CASE SizeOf(f, Entry.substream) > MaxEntryOutput /\ Fails("EntryOutputBytes")
    <2>1. Entry.substream \in Refused(f)
      BY <1>4, <1>6 DEF Refused
    <2> HIDE DEF f
    <2>2. ~Tiled(f)
      BY <1>4, <2>1, RefusedIsNotTiled
    <2> QED BY <1>1, <1>2, <1>4, <1>6, <2>2, OpenFails
  <1>7. CASE preflight # "Ok" /\ Fails(preflight)
    <2>1. preflight \in PreflightErrors /\ (~Tiled(f) \/ f.actual > MaxTotalOutput)
      BY <1>3, <1>4, <1>7, PreflightFacts
    <2>2. preflight # "none" /\ preflight # "Opened"
      BY <2>1 DEF PreflightErrors
    <2> HIDE DEF f, preflight
    <2> QED BY <1>1, <1>2, <1>4, <1>7, <2>1, <2>2, OpenFails
  <1>8. CASE /\ preflight = "Ok" /\ pc' = "decode" /\ folder' = Entry.folder
             /\ maximum_output' = Permitted(f, MaxTotalOutput)
             /\ UNCHANGED <<fixed, cancelled, part, total_output, cut, reader, result>>
    <2>1. UNCHANGED <<archive, operation, cancelled, part, total_output, result>>
      BY <1>8 DEF fixed
    <2>2. Admitted(f)
      BY <1>3, <1>4, <1>8, PreflightFacts
    <2>3. Typed'
      BY <1>3, <1>8, <2>1 DEF Typed
    <2>4. Entry' = Entry /\ Folders' = archive.folders
      BY <1>3, <2>1 DEF Entry, Folders, Opening
    <2>5. Folder' = f
      BY <1>8, <2>4 DEF Folder
    <2> HIDE DEF f
    <2>6. Opening'
      BY <1>1, <1>3, <1>8, <2>1, <2>2, <2>4, <2>5 DEF Opening
    <2> QED BY <1>2, <1>3, <2>1, <2>3, <2>6, StillRunning DEF Running
  <1> QED BY <1>1, <1>5, <1>6, <1>7, <1>8

\* The folder decode_folder works on is the member's.
LEMMA OpenedFolder ==
    ASSUME Typed, Opening, operation # 0, pc \in {"decode", "bounds"}
    PROVE  /\ Entry.kind = "file" /\ Folder = archive.folders[Entry.folder] /\ part = "main"
           /\ Folder \in FolderRecords /\ Admitted(Folder)
           /\ Folder.actual \in Nat /\ Last(Folder) \in Nat /\ Entry.substream \in 1..Last(Folder)
           /\ ~Tiled(Folder) \/ Folder.actual > MaxTotalOutput => ~ExtractionSucceeds(archive)
  <1>1. Entry.kind = "file" /\ folder = Entry.folder /\ Admitted(Folder) /\ part = "main"
    BY DEF Opening
  <1>2. Folder = archive.folders[Entry.folder]
    BY <1>1 DEF Folder, Folders
  <1> QED BY <1>1, <1>2, MemberFolder

\* The folder of the opened member is decoded.
LEMMA DecodeOpenedFolder ==
    ASSUME Inv, DecodeFolder, operation # 0
    PROVE  Inv'
  <1>1. pc = "decode" /\ pc # "done"
    BY DEF DecodeFolder
  <1>2. Typed /\ result = "none" /\ Opening /\ MaxTotalOutput \in Nat
    BY <1>1, RunningState, Validated
  <1>3. /\ Entry.kind = "file" /\ part = "main" /\ Folder \in FolderRecords /\ Admitted(Folder)
        /\ Folder.actual \in Nat
        /\ ~Tiled(Folder) \/ Folder.actual > MaxTotalOutput => ~ExtractionSucceeds(archive)
        /\ maximum_output = Permitted(Folder, MaxTotalOutput)
    BY <1>1, <1>2, OpenedFolder DEF Opening
  <1>4. CASE Fails("Decode") \/ Fails("Cancelled")
    BY <1>1, <1>4, OpenFails DEF Disturbances
  <1>5. CASE Folder.actual > maximum_output /\ Fails("TotalOutputBytes")
    <2>1. Permitted(Folder, MaxTotalOutput) \in Nat
      BY <1>2, <1>3, PermittedFacts
    <2>2. Permitted(Folder, MaxTotalOutput) < Folder.actual
      BY <1>3, <1>5, <2>1
    <2>3. ~Tiled(Folder) \/ Folder.actual > MaxTotalOutput
      BY <1>2, <1>3, <2>2, PermittedFacts
    <2> QED BY <1>1, <1>3, <1>5, <2>3, OpenFails
  <1>6. CASE /\ total_output' = total_output
             /\ pc' = "bounds" /\ UNCHANGED result
             /\ UNCHANGED <<fixed, cancelled, part, folder, maximum_output, streamed, reader>>
    <2>1. UNCHANGED <<archive, operation, cancelled, part, folder, maximum_output, total_output, result>>
      BY <1>6 DEF fixed
    <2>2. Folder' = Folder /\ Entry' = Entry
      BY <2>1, SameFolder DEF Entry
    <2>3. Typed'
      BY <1>2, <1>6, <2>1 DEF Typed
    <2>4. Opening'
      BY <1>1, <1>2, <1>6, <2>1, <2>2 DEF Opening
    <2> QED BY <1>2, <2>1, <2>3, <2>4, StillRunning DEF Running
  <1>7. ~AdditionalRefused
    BY <1>3 DEF AdditionalRefused
  <1> QED BY <1>4, <1>5, <1>6, <1>7 DEF DecodeFolder

\* The opened member is the slice its substream says.
LEMMA MemberBoundsPreserves ==
    ASSUME Inv, MemberBounds
    PROVE  Inv'
  <1> DEFINE size == SizeOf(Folder, Entry.substream)
             ends == IF size = Unknown THEN Folder.actual ELSE Preceding + size
  <1>1. pc = "bounds" /\ pc # "done"
    BY DEF MemberBounds
  <1>2. operation # 0
    BY <1>1, RunningState DEF Reached
  <1>3. Typed /\ result = "none" /\ Opening /\ MaxTotalOutput \in Nat /\ MaxEntryOutput \in Nat
    BY <1>1, <1>2, RunningState, Validated
  <1>4. /\ Entry.kind = "file" /\ Folder = archive.folders[Entry.folder]
        /\ Folder \in FolderRecords /\ Admitted(Folder) /\ Folder.actual \in Nat
        /\ Last(Folder) \in Nat /\ Entry.substream \in 1..Last(Folder)
        /\ ~Tiled(Folder) \/ Folder.actual > MaxTotalOutput => ~ExtractionSucceeds(archive)
    BY <1>1, <1>2, <1>3, OpenedFolder
  <1>5. \A s \in 1..Last(Folder) : SizeOf(Folder, s) = Unknown => s = Last(Folder)
    BY <1>4, AdmittedFacts
  <1>6. ~(\E s \in 1..(Entry.substream - 1) : SizeOf(Folder, s) = Unknown)
    <2>1. \A s \in 1..(Entry.substream - 1) : s \in 1..Last(Folder) /\ s # Last(Folder)
      BY <1>4
    <2> QED BY <1>5, <2>1
  <1>7. ~(size = Unknown /\ Entry.substream < Last(Folder))
    BY <1>4, <1>5
  <1>8. \/ Fails("Cancelled") \/ Fails("WorkUnits")
        \/ (ends > Folder.actual \/ ends < Preceding) /\ Fails("Format")
        \/ ends - Preceding > MaxEntryOutput /\ Fails("EntryOutputBytes")
        \/ /\ ~(ends > Folder.actual \/ ends < Preceding) /\ ~(ends - Preceding > MaxEntryOutput)
           /\ Returns("Opened") /\ reader' = Reader(Preceding, ends)
           /\ UNCHANGED <<fixed, cancelled, place, cut>>
    BY <1>6, <1>7 DEF MemberBounds, Checkpoint
  <1>9. Preceding = FirstByte(Folder, Entry.substream)
    BY DEF Preceding, FirstByte
  <1>10. ends = LastByte(Folder, Entry.substream)
    BY <1>9 DEF LastByte
  <1>11. Preceding \in Nat /\ ends \in Nat
    BY <1>4, <1>9, <1>10, ByteFacts
  <1> HIDE DEF size, ends
  <1>12. CASE Fails("Cancelled") \/ Fails("WorkUnits")
    BY <1>1, <1>2, <1>12, OpenFails DEF Disturbances
  <1>13. CASE \/ (ends > Folder.actual \/ ends < Preceding) /\ Fails("Format")
              \/ ends - Preceding > MaxEntryOutput /\ Fails("EntryOutputBytes")
    <2>1. ~Tiled(Folder)
      BY <1>4, <1>9, <1>10, <1>13, OverrunIsNotTiled
    <2> QED BY <1>1, <1>2, <1>4, <1>13, <2>1, OpenFails
  <1>14. CASE /\ ~(ends > Folder.actual \/ ends < Preceding) /\ ~(ends - Preceding > MaxEntryOutput)
              /\ Returns("Opened") /\ reader' = Reader(Preceding, ends)
              /\ UNCHANGED <<fixed, cancelled, place, cut>>
    <2>1. /\ reader'.start = Preceding /\ reader'.end = ends
          /\ reader'.expected = Folder.substreams[Entry.substream].crc
          /\ reader'.folder_crc_mismatch = Folder.crc_mismatch
      BY <1>14 DEF Reader
    <2>2. ends - Preceding \in 0..MaxEntryOutput /\ ends <= Folder.actual
      BY <1>3, <1>4, <1>11, <1>14
    <2>3. LET f == archive.folders[Entry.folder]
          IN  /\ reader'.start = FirstByte(f, Entry.substream)
              /\ reader'.end = LastByte(f, Entry.substream)
              /\ reader'.end - reader'.start \in 0..MaxEntryOutput
              /\ reader'.end <= f.actual
              /\ reader'.expected = f.substreams[Entry.substream].crc
              /\ reader'.folder_crc_mismatch = f.crc_mismatch
      BY <1>4, <1>9, <1>10, <2>1, <2>2
    <2> QED BY <1>1, <1>2, <1>4, <1>14, <2>3, OpenReturns
  <1> QED BY <1>8, <1>12, <1>13, <1>14

-----------------------------------------------------------------------------
\* Every step keeps the invariant.
LEMMA StepPreserves == Inv /\ [Next]_vars => Inv'
  <1> SUFFICES ASSUME Inv, [Next]_vars
               PROVE  Inv'
    OBVIOUS
  <1>1. CASE UNCHANGED vars
    <2>1. cancelled' \in BOOLEAN /\ UNCHANGED <<fixed, pc, place, cut, reader, result>>
      BY <1>1 DEF vars, fixed, place, cut, Inv, Typed
    <2> QED BY <2>1, TokenPreserves
  <1>2. CASE Cancel
    <2>1. cancelled' \in BOOLEAN /\ UNCHANGED <<fixed, pc, place, cut, reader, result>>
      BY <1>2 DEF Cancel
    <2> QED BY <2>1, TokenPreserves
  <1> QED BY <1>1, <1>2, NextAdditionalPreserves, AdditionalDonePreserves, EnterFolderPreserves,
             DecodeVerifiedFolder, DecodeOpenedFolder, NextSubstreamPreserves, ChecksumSubstreamPreserves,
             FolderDonePreserves, VerifyDonePreserves, OpenStreamlessPreserves, OpenStreamedPreserves,
             MemberBoundsPreserves
          DEF Next, Step

\* The invariant holds in every state of every run.
LEMMA AlwaysInv == Spec => []Inv
  BY InitEstablishes, StepPreserves, PTL DEF Spec

(***************************************************************************)
(* Undisturbed, Archive::verify accepts exactly the archives that are      *)
(* sound, tiled and within the limits throughout, and those can also be    *)
(* extracted; what it decodes stays within the limits in any case.         *)
(***************************************************************************)
THEOREM VerifyVerdictExact == Spec => []VerifyVerdict
  <1>1. Inv => VerifyVerdict
    BY DEF Inv
  <1> QED BY <1>1, AlwaysInv, PTL

(***************************************************************************)
(* An integrity error of verify is the report of the archive's first wrong *)
(* CRC, which nothing hides in an archive that fits, and its checks of the *)
(* member mapping never fire.                                              *)
(***************************************************************************)
THEOREM FirstCorruption == Spec => []FirstCorruptionReported
  <1>1. Inv => FirstCorruptionReported
    BY DEF Inv
  <1> QED BY <1>1, AlwaysInv, PTL

(***************************************************************************)
(* The reader open_member hands out covers exactly the member's bytes, and *)
(* every file of an archive that can be extracted can be opened.           *)
(***************************************************************************)
THEOREM OpenedSlice == Spec => []OpenedIsItsSlice
  <1>1. Inv => OpenedIsItsSlice
    BY DEF Inv
  <1> QED BY <1>1, AlwaysInv, PTL
=============================================================================
