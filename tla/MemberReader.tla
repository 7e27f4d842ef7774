---------------------------- MODULE MemberReader ----------------------------
(***************************************************************************)
(* MemberReader (archive.rs): the bounded stream over one member of a      *)
(* decoded folder, and the three ways the library drives it: a caller of   *)
(* the public API that reads with buffers of its own choosing, retries     *)
(* after errors and finishes when it likes; extract_entry; and             *)
(* extract_entry_to.  Another thread may set the cancellation token at any *)
(* point, in particular between two control chunks of one read_chunk.      *)
(*                                                                         *)
(* Data.  A byte is its offset in the member.  A CRC-32 digest is the      *)
(* number of bytes fed to it and whether those bytes were the member's     *)
(* leading bytes, once each and in order: two different byte strings are   *)
(* taken to have different CRCs.                                           *)
(***************************************************************************)
EXTENDS OperationControl

CONSTANTS
    ControlChunk,     \* CONTROL_CHUNK_SIZE
    LoopBuffer,       \* the 8192-byte buffer of extract_entry(_to) and finish
    CallerBuffers,    \* buffer lengths a caller of read_chunk passes
    Members,          \* the members a reader is opened on
    InitialBudgets    \* the budget as open_member leaves it

(***************************************************************************)
(* expected is expected_crc: None, or the CRC of the member's bytes, or    *)
(* another value.                                                          *)
(***************************************************************************)
MemberType == [length : Nat, expected : {"None", "Same", "Other"},
               folder_crc_mismatch : BOOLEAN, encrypted : BOOLEAN]

ASSUME MemberReaderAssumption ==
    /\ ControlChunk \in Nat \ {0}
    /\ LoopBuffer \in Nat \ {0}
    /\ CallerBuffers \subseteq Nat
    /\ Members \subseteq MemberType
    /\ InitialBudgets \subseteq Budget

VARIABLES
    cancelled,   \* the shared AtomicBool of the token
    budget,      \* the WorkBudget the reader borrows
    member,      \* start, end, expected_crc, folder_crc_mismatch, encrypted
    position,    \* bytes handed out by successful reads
    checksum,    \* the running Crc32
    driver,      \* who calls: "caller" | "extract_entry" | "extract_entry_to"
    pc,          \* "idle" | "read" | "write" | "finish" | "done"
    count,       \* bytes the read in progress will return
    scanned,     \* bytes of it already charged and hashed
    finishing,   \* finish(self) has consumed the reader
    written,     \* bytes in the writer, or in extract_entry's output
    result,      \* what the operation returned, "None" while it runs
    failed,      \* history: some read_chunk returned an error
    charged0     \* history: consumed() when the reader was opened

vars == <<cancelled, budget, member, position, checksum, driver, pc, count,
          scanned, finishing, written, result, failed, charged0>>

control == <<cancelled, budget>>
fixed   == <<member, driver, charged0>>

Results == {"None", "Ok", "Cancelled", "WorkUnits", "Io", "MemberChecksum",
            "FolderChecksum", "WrongPasswordOrCorrupt", "Dropped"}

Minimum(a, b) == IF a <= b THEN a ELSE b

(***************************************************************************)
(* Crc32::update with the bytes of the member from offset at on, and       *)
(* whether finalize() equals the expected CRC.                             *)
(***************************************************************************)
EmptyChecksum == [length |-> 0, prefix |-> TRUE]

Update(digest, at, bytes) ==
    [length |-> digest.length + bytes,
     prefix |-> digest.prefix /\ digest.length = at]

CoversMember(digest) == digest.prefix /\ digest.length = member.length

Mismatch(digest) ==
    \/ member.expected = "Other"
    \/ member.expected = "Same" /\ ~CoversMember(digest)

-----------------------------------------------------------------------------
(***************************************************************************)
(* MemberReader::new, as the last step of open_member.  The token may have *)
(* been set before the call and the budget has been charged for decoding.  *)
(***************************************************************************)
Init ==
    /\ cancelled \in BOOLEAN
    /\ budget \in InitialBudgets
    /\ member \in Members
    /\ position = 0
    /\ checksum = EmptyChecksum
    /\ driver \in {"caller", "extract_entry", "extract_entry_to"}
    /\ pc = "idle"
    /\ count = 0
    /\ scanned = 0
    /\ finishing = FALSE
    /\ written = 0
    /\ result = "None"
    /\ failed = FALSE
    /\ charged0 = budget.consumed

\* CancellationToken::cancel, from any thread that holds a clone.
Cancel ==
    /\ cancelled' = TRUE
    /\ UNCHANGED <<budget, position, checksum, pc, count, scanned, finishing,
                   written, result, failed, fixed>>

(***************************************************************************)
(* A read_chunk that returns an error.  Inside finish or one of the        *)
(* extract loops the `?` ends the operation; a caller keeps its reader.    *)
(***************************************************************************)
ReadFailsRetriedMutant(error) ==   \* the loops retry instead of returning
    failed' = TRUE /\ pc' = "idle" /\ result' = result

ReadFails(error) ==
    /\ failed' = TRUE
    /\ IF driver = "caller" /\ ~finishing
       THEN pc' = "idle" /\ result' = result
       ELSE pc' = "done" /\ result' = error

\* let count = remaining.min(output.len())
ReadCountMutant(length) == length   \* the member's end is forgotten

ReadCount(length) == Minimum(member.length - position, length)

(***************************************************************************)
(* Entry of read_chunk with a non-empty buffer and unread bytes: fix the   *)
(* source range, enter the loop over control chunks.                       *)
(***************************************************************************)
StartRead(length) ==
    /\ length > 0 /\ position < member.length
    /\ count' = ReadCount(length)
    /\ scanned' = 0
    /\ pc' = "read"
    /\ UNCHANGED <<position, checksum, finishing, written, result, failed,
                   control, fixed>>

(***************************************************************************)
(* read_chunk with an empty buffer or an exhausted member: only the token  *)
(* is consulted.  A returned zero ends the loops of the extract functions  *)
(* and of finish.                                                          *)
(***************************************************************************)
ReadNothing(length) ==
    /\ length = 0 \/ position >= member.length
    /\ IF cancelled
       THEN ReadFails("Cancelled") /\ UNCHANGED finishing
       ELSE /\ finishing' = (finishing \/ driver # "caller")
            /\ pc' = IF finishing THEN "finish" ELSE "idle"
            /\ UNCHANGED <<result, failed>>
    /\ UNCHANGED <<position, checksum, count, scanned, written, control, fixed>>

\* Who calls read_chunk next, and with which buffer.
CallRead ==
    /\ pc = "idle"
    /\ \E length \in IF driver = "caller" /\ ~finishing
                     THEN CallerBuffers ELSE {LoopBuffer} :
            StartRead(length) \/ ReadNothing(length)

\* cancellation.check()? and budget.charge(len)? of one control chunk.
ChunkOutcomeUncheckedMutant(length) ==   \* the token is not consulted
    Checkpoint(FALSE, budget, length)

ChunkOutcomeFreeFinishMutant(length) ==  \* finish drains without charging
    IF finishing THEN "Ok" ELSE Checkpoint(cancelled, budget, length)

ChunkOutcome(length) == Checkpoint(cancelled, budget, length)

ReadControlChunkMutant ==   \* the chunk is hashed before it is paid for
    /\ pc = "read" /\ scanned < count
    /\ LET length  == Minimum(ControlChunk, count - scanned)
           outcome == ChunkOutcome(length)
       IN  /\ checksum' = Update(checksum, position + scanned, length)
           /\ IF outcome = "Ok"
              THEN /\ budget' = Charged(budget, length)
                   /\ scanned' = scanned + length
                   /\ UNCHANGED <<pc, result, failed>>
              ELSE ReadFails(outcome) /\ UNCHANGED <<budget, scanned>>
    /\ UNCHANGED <<cancelled, position, count, finishing, written, fixed>>

(***************************************************************************)
(* One iteration of the loop over source.chunks(CONTROL_CHUNK_SIZE):       *)
(* cancellation.check()?, budget.charge(len)?, checksum.update(chunk).  An *)
(* error leaves the digest ahead of position, which moves only after the   *)
(* last chunk.                                                             *)
(***************************************************************************)
ReadControlChunk ==
    /\ pc = "read" /\ scanned < count
    /\ LET length  == Minimum(ControlChunk, count - scanned)
           outcome == ChunkOutcome(length)
       IN  IF outcome = "Ok"
           THEN /\ budget' = Charged(budget, length)
                /\ checksum' = Update(checksum, position + scanned, length)
                /\ scanned' = scanned + length
                /\ UNCHANGED <<pc, result, failed>>
           ELSE ReadFails(outcome) /\ UNCHANGED <<budget, checksum, scanned>>
    /\ UNCHANGED <<cancelled, position, count, finishing, written, fixed>>

(***************************************************************************)
(* The end of read_chunk: copy the source out and advance position.        *)
(***************************************************************************)
ReadReturns ==
    /\ pc = "read" /\ scanned = count
    /\ position' = position + count
    /\ pc' = IF driver = "caller" \/ finishing THEN "idle" ELSE "write"
    /\ UNCHANGED <<checksum, count, scanned, finishing, written, result,
                   failed, control, fixed>>

(***************************************************************************)
(* extract_entry_to: writer.write_all(bytes)?; extract_entry: extend a     *)
(* vector, which cannot fail.                                              *)
(***************************************************************************)
WriteBytes ==
    /\ pc = "write"
    /\ \/ /\ written' = written + count
          /\ pc' = "idle"
          /\ UNCHANGED result
       \/ /\ driver = "extract_entry_to"
          /\ pc' = "done" /\ result' = "Io"
          /\ UNCHANGED written
    /\ UNCHANGED <<position, checksum, count, scanned, finishing, failed,
                   control, fixed>>

\* A caller hands its reader to finish, at any time; or drops it.
CallerFinishes ==
    /\ driver = "caller" /\ pc = "idle" /\ ~finishing
    /\ \/ finishing' = TRUE /\ UNCHANGED <<pc, result>>
       \/ pc' = "done" /\ result' = "Dropped" /\ UNCHANGED finishing
    /\ UNCHANGED <<position, checksum, count, scanned, written, failed,
                   control, fixed>>

(***************************************************************************)
(* The checks of finish once its read loop has seen zero: member CRC       *)
(* before folder CRC, either one reported as a password failure when the   *)
(* folder is encrypted.                                                    *)
(***************************************************************************)
FinishResultMutant ==   \* the folder's mismatch flag is forgotten
    IF Mismatch(checksum) THEN "MemberChecksum" ELSE "Ok"

FinishResult ==
    LET integrity(error) ==
            IF member.encrypted THEN "WrongPasswordOrCorrupt" ELSE error
    IN  IF Mismatch(checksum) THEN integrity("MemberChecksum")
        ELSE IF member.folder_crc_mismatch THEN integrity("FolderChecksum")
        ELSE "Ok"

FinishVerifies ==
    /\ pc = "finish"
    /\ pc' = "done"
    /\ result' = FinishResult
    /\ UNCHANGED <<position, checksum, count, scanned, finishing, written,
                   failed, control, fixed>>

Step == \/ CallRead \/ ReadControlChunk \/ ReadReturns \/ WriteBytes
        \/ CallerFinishes \/ FinishVerifies

Next == Step \/ Cancel

Spec == Init /\ [][Next]_vars

(***************************************************************************)
(* The thread that runs the library's own loops keeps running; nothing is  *)
(* assumed of the canceller, nor of a caller between two of its calls, and *)
(* no failure of the writer is relied on.                                  *)
(***************************************************************************)
LibraryStep ==
    /\ pc # "idle" \/ driver # "caller" \/ finishing
    /\ Step
    /\ result' # "Io"

FairSpec == Spec /\ WF_vars(LibraryStep)

-----------------------------------------------------------------------------
\* Types; the read in progress, and what was written, stay inside the member.
TypeOK ==
    /\ cancelled \in BOOLEAN
    /\ budget \in Budget
    /\ member \in Members
    /\ position \in 0..member.length
    /\ checksum \in [length : Nat, prefix : BOOLEAN]
    /\ driver \in {"caller", "extract_entry", "extract_entry_to"}
    /\ pc \in {"idle", "read", "write", "finish", "done"}
    /\ count \in Nat
    /\ scanned \in 0..count
    /\ finishing \in BOOLEAN
    /\ written \in 0..position
    /\ result \in Results
    /\ failed \in BOOLEAN
    /\ charged0 \in 0..U64Max
    /\ pc = "read" => position + count <= member.length

(***************************************************************************)
(* Success is reported only for a member all of whose bytes went through   *)
(* the CRC exactly once and in order, whose stored CRCs agree, none of     *)
(* whose reads failed, and, for the extract functions, all of whose bytes  *)
(* reached the output (MemberReader::finish, extract_entry_to's count).    *)
(***************************************************************************)
VerifiedSuccess ==
    result = "Ok" =>
        /\ CoversMember(checksum)
        /\ member.expected # "Other" /\ ~member.folder_crc_mismatch
        /\ ~failed
        /\ driver # "caller" => written = member.length

(***************************************************************************)
(* A failed read leaves the running CRC ahead of the read position; the    *)
(* reader must never turn that into a checksum complaint about an intact   *)
(* member, whatever the caller retries (read_chunk, finish).               *)
(***************************************************************************)
NoSpuriousChecksum ==
    /\ result = "MemberChecksum" => member.expected = "Other"
    /\ result = "FolderChecksum" => member.folder_crc_mismatch
    /\ result = "WrongPasswordOrCorrupt" =>
           member.expected = "Other" \/ member.folder_crc_mismatch

\* The three parts of RetrySafe.
HashedBytesAreCharged ==
    budget.consumed = charged0 + checksum.length

ReadSoFar == position + IF pc = "read" THEN scanned ELSE 0

DigestFollowsReads ==
    /\ ReadSoFar <= checksum.length
    /\ ~failed => checksum = [length |-> ReadSoFar, prefix |-> TRUE]

FailureIsPermanent ==
    failed => cancelled \/ Headroom(budget) < member.length - ReadSoFar

(***************************************************************************)
(* Why the two properties above hold: every byte that entered the CRC was  *)
(* charged exactly once, also across failed reads and retries; without a   *)
(* failure the digest is exactly the prefix that was read; and once a read *)
(* has failed the reader can never be driven to its end, because the token *)
(* stays set or the budget no longer covers the unread bytes, however      *)
(* small the buffers of later reads are (read_chunk, WorkBudget::charge).  *)
(***************************************************************************)
RetrySafe ==
    HashedBytesAreCharged /\ DigestFollowsReads /\ FailureIsPermanent

(***************************************************************************)
(* Cancellation stops the work: no step taken after the token was set      *)
(* charges the budget or hands out a byte that was not already hashed.     *)
(***************************************************************************)
CancelledChargesNothing ==
    [][cancelled => budget' = budget /\ checksum' = checksum]_vars

(***************************************************************************)
(* finish, extract_entry and extract_entry_to return, whatever the token   *)
(* and the budget do meanwhile.                                            *)
(***************************************************************************)
OperationReturns ==
    (driver # "caller" \/ finishing) ~> (pc = "done")
=============================================================================
