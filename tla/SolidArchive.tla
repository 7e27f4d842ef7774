---------------------------- MODULE SolidArchive ----------------------------
(***************************************************************************)
(* The validated archive that the operations on an open archive work from  *)
(* (model.rs), and folder_decode_maximum, the preflight they share.  Bytes *)
(* are offsets into a folder's output, so slicing the wrong range shows; a *)
(* stored CRC is absent, equal to that of the bytes, or another.           *)
(***************************************************************************)
EXTENDS Integers, Sequences, FiniteSets

CONSTANTS
    ControlChunk,     \* CONTROL_CHUNK_SIZE
    MaxTotalOutput,   \* limits.max_total_output_bytes()
    MaxEntryOutput    \* limits.max_entry_output_bytes()

ASSUME LimitsAssumption ==
    /\ ControlChunk \in Nat \ {0}
    /\ MaxTotalOutput \in Nat /\ MaxEntryOutput \in Nat

Unknown == -1   \* a size of None

(***************************************************************************)
(* A folder: the declared size of its root output, the number of bytes     *)
(* decoding it yields (the declared size when there is one: decode_coder   *)
(* rejects anything else), whether its CRC mismatches, whether a coder is  *)
(* AES, and its substreams.  An entry: "file" with a mapping to a          *)
(* substream, "empty" file, "anti" item or "directory".                    *)
(***************************************************************************)
FolderRecords ==
    {f \in [root : Nat \cup {Unknown}, actual : Nat,
            crc_mismatch : BOOLEAN, encrypted : BOOLEAN,
            substreams : Seq([size : Nat \cup {Unknown}, crc : {"None", "Same", "Other"}])] :
        f.root # Unknown => f.actual = f.root}

(***************************************************************************)
(* collect_stream_mappings and validate_files: the streamed entries, in    *)
(* archive order, are the substreams of all folders, in folder order.      *)
(***************************************************************************)
Streamed(a) == {e \in DOMAIN a.entries : a.entries[e].kind = "file"}

Slots(a) == UNION {{<<f, s>> : s \in DOMAIN a.folders[f].substreams}
                     : f \in DOMAIN a.folders}

SlotBefore(x, y) == x[1] < y[1] \/ (x[1] = y[1] /\ x[2] < y[2])

SlotOf(a, e) == <<a.entries[e].folder, a.entries[e].substream>>

MappedInOrder(a) ==
    /\ {SlotOf(a, e) : e \in Streamed(a)} = Slots(a)
    /\ \A d, e \in Streamed(a) : d < e => SlotBefore(SlotOf(a, d), SlotOf(a, e))

IsArchive(a) ==
    /\ a.folders \in Seq(FolderRecords) /\ a.additional \in Seq(FolderRecords)
    /\ a.entries \in Seq([kind : {"file", "empty", "anti", "directory"},
                          folder : Nat, substream : Nat])
    /\ MappedInOrder(a)

\* A failed integrity check: the scope's error, or in an encrypted folder one
\* that does not tell corruption from a wrong password.
Integrity(f, error) == IF f.encrypted THEN "WrongPasswordOrCorrupt" ELSE error

-----------------------------------------------------------------------------
(***************************************************************************)
(* folder_decode_maximum: every known substream is within the entry limit, *)
(* only the last may be unknown, and without an unknown one the sizes add  *)
(* up to the declared root.                                                *)
(***************************************************************************)
SizeOf(f, s) == f.substreams[s].size
Last(f)      == Len(f.substreams)

\* Sum of the known sizes among the first n substreams of folder f.
KnownSum(f, n) ==
    LET sum[m \in 0..n] ==
            IF m = 0 THEN 0
            ELSE sum[m - 1] + IF SizeOf(f, m) = Unknown THEN 0 ELSE SizeOf(f, m)
    IN  sum[n]

UnknownFinal(f) == Last(f) > 0 /\ SizeOf(f, Last(f)) = Unknown

\* The substreams the loop refuses; the first of them names the error.
Refused(f) == {s \in 1..Last(f) : \/ SizeOf(f, s) > MaxEntryOutput
                                  \/ SizeOf(f, s) = Unknown /\ s < Last(f)}

RootAdmitted(f, remaining) == f.root = Unknown \/ f.root <= remaining

PreflightMutant(f, remaining) ==   \* the sizes need not add up to the root
    IF ~RootAdmitted(f, remaining) THEN "TotalOutputBytes"
    ELSE IF Refused(f) = {} THEN "Ok"
    ELSE IF SizeOf(f, CHOOSE s \in Refused(f) : \A t \in Refused(f) : s <= t) = Unknown
         THEN "Unsupported" ELSE "EntryOutputBytes"

Preflight(f, remaining) ==
    IF ~RootAdmitted(f, remaining) THEN "TotalOutputBytes"
    ELSE IF Refused(f) # {}
    THEN IF SizeOf(f, CHOOSE s \in Refused(f) : \A t \in Refused(f) : s <= t) = Unknown
         THEN "Unsupported" ELSE "EntryOutputBytes"
    ELSE IF Last(f) > 0 /\ ~UnknownFinal(f) /\ f.root # KnownSum(f, Last(f))
    THEN "Format"
    ELSE "Ok"

\* Whether the preflight passes a checkpoint: one follows each substream that
\* is not refused.
PreflightCheckpoints(f, remaining) ==
    RootAdmitted(f, remaining) /\ Last(f) > 0 /\ 1 \notin Refused(f)

PermittedMutant(f, remaining) ==   \* the folder alone, not the whole pass
    KnownSum(f, Last(f)) + IF UnknownFinal(f) THEN MaxEntryOutput ELSE 0

Permitted(f, remaining) ==
    LET sum == KnownSum(f, Last(f)) + IF UnknownFinal(f) THEN MaxEntryOutput ELSE 0
    IN  IF Last(f) = 0 \/ remaining < sum THEN remaining ELSE sum

-----------------------------------------------------------------------------
(***************************************************************************)
(* Reference definitions, of the archive alone.  Where a member's bytes    *)
(* lie in its folder; whether the members tile what the folder decodes to  *)
(* and are all admissible; whether all that is stored about it is right.   *)
(***************************************************************************)
FirstByte(f, s) == KnownSum(f, s - 1)

LastByte(f, s) == IF SizeOf(f, s) = Unknown THEN f.actual
                  ELSE FirstByte(f, s) + SizeOf(f, s)

Tiled(f) ==
    /\ \A s \in 1..Last(f) :
           /\ SizeOf(f, s) = Unknown => s = Last(f)
           /\ LastByte(f, s) - FirstByte(f, s) \in 0..MaxEntryOutput
    /\ Last(f) > 0 => LastByte(f, Last(f)) = f.actual
    /\ Last(f) > 0 => UnknownFinal(f) \/ f.root # Unknown

Sound(f) == ~f.crc_mismatch /\ \A s \in 1..Last(f) : f.substreams[s].crc # "Other"

\* What the folders with an index in S decode to, together.
OutputOf(folders, S) ==
    LET sum[n \in 0..Len(folders)] ==
            IF n = 0 THEN 0
            ELSE sum[n - 1] + IF n \in S THEN folders[n].actual ELSE 0
    IN  sum[Len(folders)]

\* extract_entries_to can deliver everything: only folders with members count.
ExtractionSucceeds(a) ==
    LET used == {f \in DOMAIN a.folders : Last(a.folders[f]) > 0}
    IN  /\ \A f \in used : Tiled(a.folders[f]) /\ Sound(a.folders[f])
        /\ OutputOf(a.folders, used) <= MaxTotalOutput
=============================================================================
