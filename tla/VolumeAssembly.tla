--------------------------- MODULE VolumeAssembly ---------------------------
(***************************************************************************)
(* How Archive::open_volumes and Archive::open_path collect the bytes of   *)
(* an archive (volume.rs): read_sequential_volumes asks a provider for     *)
(* .001, .002, ... until a part is missing or max_volumes is reached, and  *)
(* append_volume copies each part chunk by chunk under the token, the work *)
(* budget and the total-input limit.  read_single_volume copies one part.  *)
(*                                                                         *)
(* The provider and its volumes are callbacks: opening, measuring, seeking *)
(* and reading may fail, a volume may hold less than its reported length,  *)
(* arrive positioned anywhere, and return more than was asked for.  A byte *)
(* is the pair of its volume's index and its offset there.                 *)
(***************************************************************************)
EXTENDS OperationControl, Sequences

CONSTANTS
    VolumeSets,      \* what a provider may hold, see IsVolumeSet
    Budgets,         \* the work budgets a caller may pass
    ControlChunk,    \* CONTROL_CHUNK_SIZE
    MaxVolumes,      \* limits.max_volumes()
    MaxTotalInput    \* limits.max_total_input_bytes()

(***************************************************************************)
(* The parts a provider holds: the reported length of each and the bytes   *)
(* it really has; whether the first name ends in ".001", without which     *)
(* sequential_name has no second name to offer.                            *)
(***************************************************************************)
IsVolumeSet(v) ==
    /\ v.parts \in Seq([length : Nat, data : Nat])
    /\ v.numbered \in BOOLEAN

ASSUME VolumeAssumption ==
    /\ \A v \in VolumeSets : IsVolumeSet(v)
    /\ Budgets \subseteq Budget
    /\ ControlChunk \in Nat \ {0}
    /\ MaxVolumes \in Nat /\ MaxTotalInput \in Nat

VARIABLES
    volumes,      \* the provider's parts
    mode,         \* "sequential": open_volumes_inner | "single": open_path_inner
    cancelled,    \* the shared token
    budget,       \* the operation's work budget
    pc,           \* "request" | "append" | "read" | "charge" | "assembled", and
                  \* the steps of ArchiveOpen
    index,        \* parts appended so far, the index of the next request
    bytes,        \* the assembled bytes
    remaining,    \* bytes of the current part still to copy
    position,     \* the current part's read position
    read,         \* bytes the last read returned
    termination,  \* "none" | "Missing" | "Limit"
    result,       \* "none" while the operation runs
    opens         \* history: the indices requested from the provider

assemblyVars == <<volumes, mode, cancelled, budget, pc, index, bytes, remaining,
                  position, read, termination, result, opens>>

Minimum(a, b) == IF a < b THEN a ELSE b

Part == volumes.parts[index + 1]

\* Operation inputs; a path without the .001 extension is a single volume.
AssemblyInit ==
    /\ volumes \in VolumeSets
    /\ mode \in {"sequential", "single"}
    /\ cancelled \in BOOLEAN
    /\ budget \in Budgets
    /\ pc = "request"
    /\ index = 0 /\ bytes = <<>>
    /\ remaining = 0 /\ position = 0 /\ read = 0
    /\ termination = "none" /\ result = "none"
    /\ opens = <<>>

-----------------------------------------------------------------------------
Fail(error) == result' = error /\ pc' = "done"

CheckpointFails(units) ==
    /\ Checkpoint(cancelled, budget, units) # "Ok"
    /\ Fail(Checkpoint(cancelled, budget, units))

Passed(units) == Checkpoint(cancelled, budget, units) = "Ok"

\* CancellationToken::cancel, by any holder of the shared token at any time.
CancelToken == ~cancelled /\ cancelled' = TRUE

-----------------------------------------------------------------------------
(***************************************************************************)
(* The head of the loop of read_sequential_volumes.  The limit is checked  *)
(* first; reaching it with bytes in hand ends the assembly instead of      *)
(* failing it.                                                             *)
(***************************************************************************)
BeyondVolumeLimit == index + 1 > MaxVolumes

VolumeLimitReached ==
    /\ pc = "request" /\ BeyondVolumeLimit
    /\ IF mode = "single" \/ bytes = <<>>
       THEN Fail("Volumes") /\ UNCHANGED termination
       ELSE termination' = "Limit" /\ pc' = "assembled" /\ UNCHANGED result
    /\ UNCHANGED <<volumes, mode, cancelled, budget, index, bytes, remaining,
                   position, read, opens>>

\* What stands between the loop's head and the callback; read_single_volume
\* has no checkpoint and needs no second name.
MayRequest ==
    \/ mode = "single"
    \/ Passed(0) /\ (index > 0 => volumes.numbered)

RequestRefused ==
    /\ pc = "request" /\ ~BeyondVolumeLimit
    /\ mode = "sequential"
    /\ \/ CheckpointFails(0)
       \/ Passed(0) /\ index > 0 /\ ~volumes.numbered /\ Fail("Format")
    /\ UNCHANGED <<volumes, mode, cancelled, budget, index, bytes, remaining,
                   position, read, termination, opens>>

(***************************************************************************)
(* provider.open_volume(index).  Only the provider's MissingVolume ends a  *)
(* sequence; any other error is the operation's.                           *)
(***************************************************************************)
OpenVolume ==
    /\ pc = "request" /\ ~BeyondVolumeLimit
    /\ MayRequest
    /\ opens' = Append(opens, index)
    /\ \/ /\ index < Len(volumes.parts)
          /\ position' \in 0..Part.data
          /\ pc' = "append" /\ UNCHANGED <<termination, result>>
       \/ /\ index >= Len(volumes.parts)
          /\ IF mode = "single"
             THEN Fail("MissingVolume") /\ UNCHANGED termination
             ELSE termination' = "Missing" /\ pc' = "assembled" /\ UNCHANGED result
          /\ UNCHANGED position
    /\ UNCHANGED <<volumes, mode, cancelled, budget, index, bytes, remaining, read>>

-----------------------------------------------------------------------------
(***************************************************************************)
(* append_volume: measure and admit the part, rewind it, copy it.          *)
(***************************************************************************)
AdmittedMutant == Part.length <= MaxTotalInput   \* each part for itself

Admitted == Len(bytes) + Part.length <= MaxTotalInput

RewoundMutant == position   \* the provider is trusted to hand out fresh volumes

Rewound == 0

AppendVolume ==
    /\ pc = "append"
    /\ \/ CheckpointFails(0) /\ UNCHANGED <<remaining, position>>
       \/ Passed(0) /\ ~Admitted /\ Fail("TotalInputBytes")
          /\ UNCHANGED <<remaining, position>>
       \/ /\ Passed(0) /\ Admitted
          /\ remaining' = Part.length /\ position' = Rewound
          /\ pc' = "read" /\ UNCHANGED result
    /\ UNCHANGED <<volumes, mode, cancelled, budget, index, bytes, read,
                   termination, opens>>

\* What one read may return: as many bytes as fit and there are, or, from a
\* volume that breaks the contract of Read, one more than it was asked for.
ReadCounts ==
    LET wanted == Minimum(remaining, ControlChunk)
        left   == Part.data - position
    IN  IF left = 0 THEN {0} ELSE 1..Minimum(wanted, left) \cup {wanted + 1}

EmptyReadMutant == UNCHANGED <<pc, result>>   \* try again

EmptyRead == Fail("Io")   \* UnexpectedEof

ReadVolume ==
    /\ pc = "read" /\ remaining # 0
    /\ \/ CheckpointFails(0) /\ UNCHANGED read
       \/ Passed(0) /\ 0 \in ReadCounts /\ EmptyRead /\ UNCHANGED read
       \/ /\ Passed(0)
          /\ read' \in ReadCounts \ {0}
          /\ pc' = "charge" /\ UNCHANGED result
    /\ UNCHANGED <<volumes, mode, cancelled, budget, index, bytes, remaining,
                   position, termination, opens>>

\* The bytes a read of n left in the buffer.
Chunk(n) == [k \in 1..n |-> <<index, position + k>>]

ChunkStepMutant ==      \* append first, pay afterwards
    /\ pc = "charge"
    /\ bytes' = bytes \o Chunk(read)
    /\ remaining' = remaining - read /\ position' = position + read
    /\ IF Passed(read)
       THEN budget' = Charged(budget, read) /\ pc' = "read" /\ UNCHANGED result
       ELSE CheckpointFails(read) /\ UNCHANGED budget
    /\ UNCHANGED <<volumes, mode, cancelled, index, read, termination, opens>>

(***************************************************************************)
(* After the read: the bytes are charged, counted and only then appended.  *)
(* The callback ran in between, so the token may be set by now.            *)
(***************************************************************************)
ChunkStep ==
    /\ pc = "charge"
    /\ \/ CheckpointFails(read) /\ UNCHANGED <<budget, bytes, remaining, position>>
       \/ /\ Passed(read) /\ budget' = Charged(budget, read)
          /\ IF read > Minimum(remaining, ControlChunk)
             THEN Fail("Format") /\ UNCHANGED <<bytes, remaining, position>>
             ELSE /\ bytes' = bytes \o Chunk(read)
                  /\ remaining' = remaining - read
                  /\ position' = position + read
                  /\ pc' = "read" /\ UNCHANGED result
    /\ UNCHANGED <<volumes, mode, cancelled, index, read, termination, opens>>

VolumeAppended ==
    /\ pc = "read" /\ remaining = 0
    /\ index' = index + 1
    /\ pc' = IF mode = "single" THEN "assembled" ELSE "request"
    /\ UNCHANGED <<volumes, mode, cancelled, budget, bytes, remaining, position,
                   read, termination, result, opens>>

\* A callback reports an error of its own: opening, measuring, seeking, reading.
CallbackFails ==
    /\ \/ pc = "request" /\ ~BeyondVolumeLimit /\ MayRequest
          /\ opens' = Append(opens, index)
       \/ pc = "append" /\ Passed(0) /\ UNCHANGED opens
       \/ pc = "read" /\ remaining # 0 /\ Passed(0) /\ UNCHANGED opens
    /\ Fail("Io")
    /\ UNCHANGED <<volumes, mode, cancelled, budget, index, bytes, remaining,
                   position, read, termination>>

AssemblyStep ==
    \/ VolumeLimitReached \/ RequestRefused \/ OpenVolume
    \/ AppendVolume \/ ReadVolume \/ ChunkStep \/ VolumeAppended

-----------------------------------------------------------------------------
\* The first k bytes that part i (from 0) reports to have.
PartBytes(i, k) == [j \in 1..k |-> <<i, j>>]

\* The concatenation of the first n parts, by their reported lengths.
Concatenation(n) ==
    LET upto[i \in 0..n] ==
            IF i = 0 THEN <<>>
            ELSE upto[i - 1] \o PartBytes(i - 1, volumes.parts[i].length)
    IN  upto[n]

(***************************************************************************)
(* The assembled bytes are, at every moment, the whole of every part       *)
(* before the current one, in order, and the copied start of that one; and *)
(* the provider was asked for each index once, in order, none skipped.     *)
(* Guards the rewind, the index arithmetic and the copy of append_volume   *)
(* against short reads and volumes positioned past their start.            *)
(***************************************************************************)
AssembledInOrder ==
    /\ LET partial == IF pc \in {"read", "charge"} THEN Part.length - remaining ELSE 0
       IN  result \in {"none", "Ok"}
           => bytes = Concatenation(index) \o PartBytes(index, partial)
    /\ \A i \in 1..Len(opens) : opens[i] = i - 1
    /\ Len(opens) \in {index, index + 1}

(***************************************************************************)
(* No byte is assembled beyond max_total_input_bytes, no part requested    *)
(* beyond max_volumes, and no byte kept that was not charged, even on the  *)
(* operation's error paths.                                                *)
(***************************************************************************)
AssemblyBounded ==
    /\ Len(bytes) <= MaxTotalInput
    /\ Len(opens) <= MaxVolumes
    /\ budget.consumed >= Len(bytes)

(***************************************************************************)
(* Once the token is set, no part is requested from a sequence any more,   *)
(* no byte is appended and no work is charged, whichever callback set it.  *)
(***************************************************************************)
CancelledAssemblyStops ==
    [][cancelled => /\ UNCHANGED <<bytes, budget>>
                    /\ mode = "sequential" => UNCHANGED opens]_assemblyVars
=============================================================================
