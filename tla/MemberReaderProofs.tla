------------------------- MODULE MemberReaderProofs -------------------------
(***************************************************************************)
(* Proofs about MemberReader for every chunk and buffer size, every member *)
(* and every initial budget.  The inductive invariant adds to RetrySafe    *)
(* where the three drivers are in their loops.                             *)
(***************************************************************************)
EXTENDS MemberReader, TLAPS

(***************************************************************************)
(* Where a driver is: finish reaches its checks only at the member's end   *)
(* with no failed read behind it, and the extract loops have written what  *)
(* they have read.                                                         *)
(***************************************************************************)
Phase ==
    /\ (pc = "done") <=> (result # "None")
    /\ pc = "finish" => position = member.length /\ ~failed
    /\ pc = "write" => driver # "caller" /\ ~finishing
    /\ driver # "caller" =>
           /\ pc \in {"idle", "read", "finish"} => written = position
           /\ pc = "write" => written + count = position
           /\ finishing => position = member.length
           /\ finishing => pc \in {"idle", "finish", "done"}
           /\ finishing => written = position

IInv == TypeOK /\ RetrySafe /\ Phase /\ VerifiedSuccess /\ NoSpuriousChecksum

(***************************************************************************)
(* WorkBudget::charge: a successful charge keeps the budget's type, adds   *)
(* the units to consumed and takes them from the headroom; a charge fails  *)
(* exactly when it exceeds the headroom.                                   *)
(***************************************************************************)
LEMMA ChargeFacts ==
    ASSUME NEW b \in Budget, NEW units \in Nat
    PROVE  /\ Headroom(b) \in Nat
           /\ CanCharge(b, units) <=> units <= Headroom(b)
           /\ CanCharge(b, units) =>
                /\ Charged(b, units) \in Budget
                /\ Charged(b, units).consumed = b.consumed + units
                /\ Headroom(Charged(b, units)) = Headroom(b) - units
  <1>1. /\ b.bounded \in BOOLEAN
        /\ b.remaining \in 0..U64Max
        /\ b.consumed \in 0..U64Max
        /\ U64Max \in Nat
    BY U64MaxAssumption DEF Budget
  <1>2. Headroom(b) \in Nat
    BY <1>1 DEF Headroom
  <1>3. CanCharge(b, units) <=> units <= Headroom(b)
    BY <1>1 DEF CanCharge, Headroom
  <1>4. ASSUME CanCharge(b, units)
        PROVE  /\ Charged(b, units) \in Budget
               /\ Charged(b, units).consumed = b.consumed + units
               /\ Headroom(Charged(b, units)) = Headroom(b) - units
    <2>2. /\ b.bounded => b.remaining - units \in 0..U64Max
          /\ b.consumed + units \in 0..U64Max
      BY <1>1, <1>4 DEF CanCharge
    <2>3. Charged(b, units) \in Budget
      BY <1>1, <2>2 DEF Budget, Charged
    <2>4. Headroom(Charged(b, units)) = Headroom(b) - units
      BY <1>1, <1>4, <2>2 DEF Headroom, CanCharge, Charged
    <2> QED BY <2>3, <2>4 DEF Charged
  <1> QED BY <1>2, <1>3, <1>4

(***************************************************************************)
(* Minimum is a lower bound of its arguments and equals one of them.       *)
(***************************************************************************)
LEMMA MinimumFacts ==
    ASSUME NEW a \in Nat, NEW b \in Nat
    PROVE  /\ Minimum(a, b) \in Nat
           /\ Minimum(a, b) <= a /\ Minimum(a, b) <= b
           /\ Minimum(a, b) \in {a, b}
  BY DEF Minimum

(***************************************************************************)
(* What the type invariant says of the member's fields.                    *)
(***************************************************************************)
LEMMA MemberFacts ==
    ASSUME TypeOK
    PROVE  /\ member.length \in Nat
           /\ member.expected \in {"None", "Same", "Other"}
           /\ member.folder_crc_mismatch \in BOOLEAN
           /\ member.encrypted \in BOOLEAN
           /\ position \in Nat /\ position <= member.length
           /\ count \in Nat /\ scanned \in Nat /\ scanned <= count
           /\ written \in Nat /\ written <= position
  BY MemberReaderAssumption DEF TypeOK, MemberType

\* MemberReader::new leaves a reader that satisfies the invariant.
LEMMA InitEstablishes == Init => IInv
  <1> SUFFICES ASSUME Init PROVE IInv
    OBVIOUS
  <1>1. /\ budget \in Budget /\ budget.consumed \in 0..U64Max
        /\ member.length \in Nat
    BY MemberReaderAssumption DEF Init, Budget, MemberType
  <1>2. TypeOK
    <2>1. checksum \in [length : Nat, prefix : BOOLEAN]
      BY DEF Init, EmptyChecksum
    <2>2. failed \in BOOLEAN /\ finishing \in BOOLEAN /\ result \in Results
      BY DEF Init, Results
    <2> QED BY <1>1, <2>1, <2>2 DEF Init, TypeOK
  <1>3. RetrySafe
    BY <1>1 DEF Init, RetrySafe, HashedBytesAreCharged, DigestFollowsReads,
                FailureIsPermanent, ReadSoFar, EmptyChecksum
  <1>4. Phase /\ VerifiedSuccess /\ NoSpuriousChecksum
    BY DEF Init, Phase, VerifiedSuccess, NoSpuriousChecksum
  <1> QED BY <1>2, <1>3, <1>4 DEF IInv

-----------------------------------------------------------------------------
(***************************************************************************)
(* A step that leaves the reader, its budget and its result alone: another *)
(* thread's cancel(), and stuttering.                                      *)
(***************************************************************************)
LEMMA CancelPreserves == IInv /\ (Cancel \/ UNCHANGED vars) => IInv'
  <1> SUFFICES ASSUME IInv, Cancel \/ UNCHANGED vars PROVE IInv'
    OBVIOUS
  <1>1. /\ UNCHANGED <<budget, position, checksum, pc, count, scanned, finishing,
                       written, result, failed, member, driver, charged0>>
        /\ cancelled' \in BOOLEAN /\ (cancelled => cancelled')
    BY DEF IInv, TypeOK, Cancel, vars, fixed
  <1>2. TypeOK'
    BY <1>1 DEF IInv, TypeOK
  <1>3. RetrySafe'
    BY <1>1 DEF IInv, RetrySafe, HashedBytesAreCharged, DigestFollowsReads,
                FailureIsPermanent, ReadSoFar, Headroom
  <1>4. Phase' /\ VerifiedSuccess' /\ NoSpuriousChecksum'
    BY <1>1 DEF IInv, Phase, VerifiedSuccess, NoSpuriousChecksum, CoversMember
  <1> QED BY <1>2, <1>3, <1>4 DEF IInv

(***************************************************************************)
(* Entering the chunk loop fixes a source range inside the member.         *)
(***************************************************************************)
LEMMA StartReadPreserves ==
    ASSUME IInv, pc = "idle", NEW length \in Nat, StartRead(length)
    PROVE  IInv'
  <1>1. /\ count' \in Nat /\ count' <= member.length - position
        /\ scanned' = 0 /\ pc' = "read" /\ position < member.length
    <2>1. member.length - position \in Nat
      BY MemberFacts DEF IInv
    <2>2. count' = Minimum(member.length - position, length)
      BY DEF StartRead, ReadCount
    <2> QED BY <2>1, <2>2, MinimumFacts DEF StartRead
  <1>2. UNCHANGED <<cancelled, budget, position, checksum, finishing, written,
                    result, failed, member, driver, charged0>>
    BY DEF StartRead, control, fixed
  <1>3. TypeOK'
    BY <1>1, <1>2, MemberFacts DEF IInv, TypeOK
  <1>4. RetrySafe'
    BY <1>1, <1>2, MemberFacts
    DEF IInv, TypeOK, RetrySafe, HashedBytesAreCharged, DigestFollowsReads,
        FailureIsPermanent, ReadSoFar, Headroom
  <1>5. Phase' /\ VerifiedSuccess' /\ NoSpuriousChecksum'
    BY <1>1, <1>2, MemberFacts
    DEF IInv, Phase, VerifiedSuccess, NoSpuriousChecksum, CoversMember
  <1> QED BY <1>3, <1>4, <1>5 DEF IInv

(***************************************************************************)
(* A read that returns nothing.  When finish sees it, no read has failed:  *)
(* a failure would have left the token set, or a headroom below the zero   *)
(* bytes that are left.                                                    *)
(***************************************************************************)
LEMMA ReadNothingPreserves ==
    ASSUME IInv, pc = "idle", NEW length \in Nat, ReadNothing(length),
           driver # "caller" \/ finishing => length > 0
    PROVE  IInv'
  <1>1. UNCHANGED <<cancelled, budget, position, checksum, count, scanned,
                    written, member, driver, charged0>>
    BY DEF ReadNothing, control, fixed
  <1>2. CASE cancelled
    <2>1. /\ UNCHANGED finishing /\ failed' = TRUE
          /\ \/ driver = "caller" /\ ~finishing /\ pc' = "idle" /\ result' = result
             \/ pc' = "done" /\ result' = "Cancelled"
      BY <1>2 DEF ReadNothing, ReadFails
    <2>2. TypeOK'
      BY <1>1, <2>1 DEF IInv, TypeOK, Results
    <2>3. RetrySafe'
      BY <1>1, <1>2, <2>1
      DEF IInv, TypeOK, RetrySafe, HashedBytesAreCharged, DigestFollowsReads,
          FailureIsPermanent, ReadSoFar, Headroom
    <2>4. Phase' /\ VerifiedSuccess' /\ NoSpuriousChecksum'
      BY <1>1, <2>1 DEF IInv, Phase, VerifiedSuccess, NoSpuriousChecksum
    <2> QED BY <2>2, <2>3, <2>4 DEF IInv
  <1>3. CASE ~cancelled
    <2>1. /\ finishing' = (finishing \/ driver # "caller")
          /\ pc' = IF finishing THEN "finish" ELSE "idle"
          /\ UNCHANGED <<result, failed>>
      BY <1>3 DEF ReadNothing
    <2>2. driver # "caller" \/ finishing => position = member.length /\ ~failed
      <3> SUFFICES ASSUME driver # "caller" \/ finishing
                   PROVE  position = member.length /\ ~failed
        OBVIOUS
      <3>1. position = member.length
        BY MemberFacts DEF IInv, ReadNothing
      <3>2. Headroom(budget) \in Nat
        BY ChargeFacts, 0 \in Nat DEF IInv, TypeOK
      <3>3. ~failed
        BY <1>3, <3>1, <3>2, MemberFacts
        DEF IInv, RetrySafe, FailureIsPermanent, ReadSoFar
      <3> QED BY <3>1, <3>3
    <2>3. TypeOK'
      BY <1>1, <2>1 DEF IInv, TypeOK
    <2>4. RetrySafe'
      BY <1>1, <2>1
      DEF IInv, TypeOK, RetrySafe, HashedBytesAreCharged, DigestFollowsReads,
          FailureIsPermanent, ReadSoFar, Headroom
    <2>5. Phase' /\ VerifiedSuccess' /\ NoSpuriousChecksum'
      BY <1>1, <2>1, <2>2
      DEF IInv, TypeOK, Phase, VerifiedSuccess, NoSpuriousChecksum, CoversMember
    <2> QED BY <2>3, <2>4, <2>5 DEF IInv
  <1> QED BY <1>2, <1>3

(***************************************************************************)
(* One control chunk.  A success feeds the bytes that follow the ones read *)
(* so far; a failure means the token is set or the chunk, which lies in    *)
(* the unread part, exceeds the headroom.                                  *)
(***************************************************************************)
LEMMA ReadControlChunkPreserves == IInv /\ ReadControlChunk => IInv'
  <1> SUFFICES ASSUME IInv, ReadControlChunk PROVE IInv'
    OBVIOUS
  <1> DEFINE length  == Minimum(ControlChunk, count - scanned)
             outcome == ChunkOutcome(length)
  <1>1. UNCHANGED <<cancelled, position, count, finishing, written,
                    member, driver, charged0>>
    BY DEF ReadControlChunk, fixed
  <1>2. /\ length \in Nat /\ length <= count - scanned
        /\ scanned + length <= count /\ pc = "read"
        /\ position + count <= member.length
    <2>1. ControlChunk \in Nat /\ count - scanned \in Nat /\ pc = "read"
      BY MemberFacts, MemberReaderAssumption DEF IInv, ReadControlChunk
    <2>2. length \in Nat /\ length <= count - scanned
      BY <2>1, MinimumFacts
    <2> QED BY <2>1, <2>2, MemberFacts DEF IInv, TypeOK
  <1> HIDE DEF length
  <1>3. CASE outcome = "Ok"
    <2>1. CanCharge(budget, length)
      BY <1>3 DEF ChunkOutcome, Checkpoint
    <2>2. /\ budget' = Charged(budget, length)
          /\ checksum' = Update(checksum, position + scanned, length)
          /\ scanned' = scanned + length
          /\ UNCHANGED <<pc, result, failed>>
      BY <1>3 DEF ReadControlChunk, length
    <2>3. /\ budget' \in Budget
          /\ budget'.consumed = budget.consumed + length
          /\ Headroom(budget') = Headroom(budget) - length
          /\ Headroom(budget) \in Nat
      BY <1>2, <2>1, <2>2, ChargeFacts DEF IInv, TypeOK
    <2>4. checksum' \in [length : Nat, prefix : BOOLEAN]
      BY <1>2, <2>2, MemberFacts DEF IInv, TypeOK, Update
    <2>5. TypeOK'
      BY <1>1, <1>2, <2>2, <2>3, <2>4, MemberFacts DEF IInv, TypeOK
    <2>6. HashedBytesAreCharged'
      BY <1>1, <1>2, <2>2, <2>3
      DEF IInv, TypeOK, Budget, RetrySafe, HashedBytesAreCharged, Update
    <2>7. DigestFollowsReads'
      <3>1. ReadSoFar = position + scanned /\ ReadSoFar' = ReadSoFar + length
        BY <1>1, <1>2, <2>2, MemberFacts DEF IInv, ReadSoFar
      <3>2. (ReadSoFar <= checksum.length)'
        BY <1>2, <2>2, <3>1, MemberFacts
        DEF IInv, TypeOK, RetrySafe, DigestFollowsReads, Update
      <3>3. ASSUME ~failed
            PROVE  checksum' = [length |-> ReadSoFar', prefix |-> TRUE]
        <4>1. checksum = [length |-> ReadSoFar, prefix |-> TRUE]
          BY <3>3 DEF IInv, RetrySafe, DigestFollowsReads
        <4>2. checksum.prefix /\ checksum.length = position + scanned
          BY <3>1, <4>1
        <4>3. (checksum.prefix /\ checksum.length = position + scanned) = TRUE
          BY <4>2
        <4> QED BY <2>2, <3>1, <4>2, <4>3 DEF Update
      <3> QED BY <2>2, <3>2, <3>3 DEF DigestFollowsReads
    <2>8. FailureIsPermanent'
      BY <1>1, <1>2, <2>2, <2>3, MemberFacts
      DEF IInv, RetrySafe, FailureIsPermanent, ReadSoFar
    <2>9. Phase' /\ VerifiedSuccess' /\ NoSpuriousChecksum'
      BY <1>1, <1>2, <2>2 DEF IInv, Phase, VerifiedSuccess, NoSpuriousChecksum
    <2> QED BY <2>5, <2>6, <2>7, <2>8, <2>9 DEF IInv, RetrySafe
  <1>4. CASE outcome # "Ok"
    <2>1. /\ UNCHANGED <<budget, checksum, scanned>> /\ failed' = TRUE
          /\ \/ driver = "caller" /\ ~finishing /\ pc' = "idle" /\ result' = result
             \/ pc' = "done" /\ result' = outcome
          /\ outcome \in {"Cancelled", "WorkUnits"}
      BY <1>4 DEF ReadControlChunk, ReadFails, length, ChunkOutcome, Checkpoint
    <2>2. cancelled \/ Headroom(budget) < member.length - position
      <3> SUFFICES ASSUME ~cancelled
                   PROVE  Headroom(budget) < member.length - position
        OBVIOUS
      <3>1. ~CanCharge(budget, length)
        BY <1>4 DEF ChunkOutcome, Checkpoint
      <3>2. Headroom(budget) \in Nat /\ ~(length <= Headroom(budget))
        BY <1>2, <3>1, ChargeFacts DEF IInv, TypeOK
      <3> QED BY <1>2, <3>2, MemberFacts DEF IInv
    <2>3. TypeOK'
      BY <1>1, <2>1 DEF IInv, TypeOK, Results
    <2>4. RetrySafe'
      BY <1>1, <1>2, <2>1, <2>2, MemberFacts
      DEF IInv, TypeOK, RetrySafe, HashedBytesAreCharged, DigestFollowsReads,
          FailureIsPermanent, ReadSoFar, Headroom
    <2>5. Phase' /\ VerifiedSuccess' /\ NoSpuriousChecksum'
      BY <1>1, <1>2, <2>1 DEF IInv, Phase, VerifiedSuccess, NoSpuriousChecksum
    <2> QED BY <2>3, <2>4, <2>5 DEF IInv
  <1> QED BY <1>3, <1>4

(***************************************************************************)
(* The end of a read: position catches up with the digest.                 *)
(***************************************************************************)
LEMMA ReadReturnsPreserves == IInv /\ ReadReturns => IInv'
  <1> SUFFICES ASSUME IInv, ReadReturns PROVE IInv'
    OBVIOUS
  <1>1. /\ UNCHANGED <<cancelled, budget, checksum, count, scanned, finishing,
                       written, result, failed, member, driver, charged0>>
        /\ position' = position + count /\ scanned = count /\ pc = "read"
        /\ pc' = IF driver = "caller" \/ finishing THEN "idle" ELSE "write"
    BY DEF ReadReturns, control, fixed
  <1>2. TypeOK'
    BY <1>1, MemberFacts DEF IInv, TypeOK
  <1>3. HashedBytesAreCharged' /\ DigestFollowsReads'
    BY <1>1, MemberFacts
    DEF IInv, RetrySafe, HashedBytesAreCharged, DigestFollowsReads, ReadSoFar
  <1>4. FailureIsPermanent'
    BY <1>1, MemberFacts
    DEF IInv, RetrySafe, FailureIsPermanent, ReadSoFar, Headroom
  <1>5. Phase' /\ VerifiedSuccess' /\ NoSpuriousChecksum'
    BY <1>1, MemberFacts DEF IInv, TypeOK, Phase, VerifiedSuccess, NoSpuriousChecksum
  <1> QED BY <1>2, <1>3, <1>4, <1>5 DEF IInv, RetrySafe

(***************************************************************************)
(* The extract loops append what was read, or stop on a writer's error.    *)
(***************************************************************************)
LEMMA WriteBytesPreserves == IInv /\ WriteBytes => IInv'
  <1> SUFFICES ASSUME IInv, WriteBytes PROVE IInv'
    OBVIOUS
  <1>1. /\ UNCHANGED <<cancelled, budget, position, checksum, count, scanned,
                       finishing, failed, member, driver, charged0>>
        /\ pc = "write" /\ driver # "caller" /\ ~finishing
        /\ written + count = position
    BY DEF IInv, Phase, WriteBytes, control, fixed
  <1>2. \/ written' = position /\ pc' = "idle" /\ UNCHANGED result
        \/ written' = written /\ pc' = "done" /\ result' = "Io"
    BY <1>1 DEF WriteBytes
  <1>3. TypeOK'
    BY <1>1, <1>2, MemberFacts DEF IInv, TypeOK, Results
  <1>4. RetrySafe'
    BY <1>1, <1>2
    DEF IInv, RetrySafe, HashedBytesAreCharged, DigestFollowsReads,
        FailureIsPermanent, ReadSoFar, Headroom
  <1>5. Phase' /\ VerifiedSuccess' /\ NoSpuriousChecksum'
    BY <1>1, <1>2 DEF IInv, Phase, VerifiedSuccess, NoSpuriousChecksum
  <1> QED BY <1>3, <1>4, <1>5 DEF IInv

\* Handing the reader to finish, or dropping it, keeps the invariant.
LEMMA CallerFinishesPreserves == IInv /\ CallerFinishes => IInv'
  <1> SUFFICES ASSUME IInv, CallerFinishes PROVE IInv'
    OBVIOUS
  <1>1. /\ UNCHANGED <<cancelled, budget, position, checksum, count, scanned,
                       written, failed, member, driver, charged0>>
        /\ driver = "caller" /\ pc = "idle"
        /\ \/ finishing' = TRUE /\ UNCHANGED <<pc, result>>
           \/ pc' = "done" /\ result' = "Dropped" /\ UNCHANGED finishing
    BY DEF CallerFinishes, control, fixed
  <1>2. TypeOK'
    BY <1>1 DEF IInv, TypeOK, Results
  <1>3. RetrySafe'
    BY <1>1
    DEF IInv, RetrySafe, HashedBytesAreCharged, DigestFollowsReads,
        FailureIsPermanent, ReadSoFar, Headroom
  <1>4. Phase' /\ VerifiedSuccess' /\ NoSpuriousChecksum'
    BY <1>1 DEF IInv, Phase, VerifiedSuccess, NoSpuriousChecksum
  <1> QED BY <1>2, <1>3, <1>4 DEF IInv

(***************************************************************************)
(* The verdict of finish: the digest it compares is that of the whole      *)
(* member, so Ok and every checksum complaint are about the stored CRCs.   *)
(***************************************************************************)
LEMMA FinishVerifiesPreserves == IInv /\ FinishVerifies => IInv'
  <1> SUFFICES ASSUME IInv, FinishVerifies PROVE IInv'
    OBVIOUS
  <1>1. /\ UNCHANGED <<cancelled, budget, position, checksum, count, scanned,
                       finishing, written, failed, member, driver, charged0>>
        /\ pc = "finish" /\ pc' = "done" /\ result' = FinishResult
    BY DEF FinishVerifies, control, fixed
  <1>2. /\ position = member.length /\ ~failed
        /\ driver # "caller" => written = member.length
    BY <1>1 DEF IInv, Phase
  <1>3. CoversMember(checksum)
    BY <1>1, <1>2, MemberFacts
    DEF IInv, RetrySafe, DigestFollowsReads, ReadSoFar, CoversMember
  <1>4. /\ FinishResult \in {"Ok", "MemberChecksum", "FolderChecksum",
                             "WrongPasswordOrCorrupt"}
        /\ FinishResult = "Ok" =>
               member.expected # "Other" /\ ~member.folder_crc_mismatch
        /\ FinishResult = "MemberChecksum" => member.expected = "Other"
        /\ FinishResult = "FolderChecksum" => member.folder_crc_mismatch
        /\ FinishResult = "WrongPasswordOrCorrupt" =>
               member.expected = "Other" \/ member.folder_crc_mismatch
    BY <1>3, MemberFacts DEF IInv, FinishResult, Mismatch
  <1>5. TypeOK'
    BY <1>1, <1>4 DEF IInv, TypeOK, Results
  <1>6. RetrySafe'
    BY <1>1
    DEF IInv, RetrySafe, HashedBytesAreCharged, DigestFollowsReads,
        FailureIsPermanent, ReadSoFar, Headroom
  <1>7. Phase' /\ VerifiedSuccess' /\ NoSpuriousChecksum'
    BY <1>1, <1>2, <1>3, <1>4
    DEF IInv, Phase, VerifiedSuccess, NoSpuriousChecksum, CoversMember
  <1> QED BY <1>5, <1>6, <1>7 DEF IInv

-----------------------------------------------------------------------------
(***************************************************************************)
(* IInv is an inductive invariant of MemberReader.                         *)
(***************************************************************************)
THEOREM ReaderInductive == Spec => []IInv
  <1>1. IInv /\ [Next]_vars => IInv'
    <2> SUFFICES ASSUME IInv, [Next]_vars PROVE IInv'
      OBVIOUS
    <2>1. CASE CallRead
      <3>1. PICK length \in IF driver = "caller" /\ ~finishing
                            THEN CallerBuffers ELSE {LoopBuffer} :
                    StartRead(length) \/ ReadNothing(length)
        BY <2>1 DEF CallRead
      <3>2. /\ length \in Nat /\ pc = "idle"
            /\ driver # "caller" \/ finishing => length > 0
        BY <2>1, <3>1, MemberReaderAssumption DEF CallRead
      <3> QED BY <3>1, <3>2, StartReadPreserves, ReadNothingPreserves
    <2>2. CASE Cancel \/ UNCHANGED vars
      BY <2>2, CancelPreserves
    <2> QED
      BY <2>1, <2>2, ReadControlChunkPreserves, ReadReturnsPreserves,
         WriteBytesPreserves, CallerFinishesPreserves, FinishVerifiesPreserves
      DEF Next, Step
  <1> QED BY InitEstablishes, <1>1, PTL DEF Spec

(***************************************************************************)
(* The reader's type invariant, for every instance.                        *)
(***************************************************************************)
THEOREM ReaderTypeCorrect == Spec => []TypeOK
  BY ReaderInductive, PTL DEF IInv

(***************************************************************************)
(* finish, extract_entry and extract_entry_to report success only for a    *)
(* member that was read, hashed and written whole and whose CRCs agree.    *)
(***************************************************************************)
THEOREM ReaderSuccessIsVerified == Spec => []VerifiedSuccess
  BY ReaderInductive, PTL DEF IInv

(***************************************************************************)
(* Retrying after a failed read never yields a checksum complaint about an *)
(* intact member, although the digest is then ahead of the position.       *)
(***************************************************************************)
THEOREM ReaderNoSpuriousChecksum == Spec => []NoSpuriousChecksum
  BY ReaderInductive, PTL DEF IInv

(***************************************************************************)
(* Charging is exact and a failed read is permanent.                       *)
(***************************************************************************)
THEOREM ReaderRetrySafe == Spec => []RetrySafe
  BY ReaderInductive, PTL DEF IInv

(***************************************************************************)
(* No step of a cancelled operation charges work or hashes a byte.         *)
(***************************************************************************)
THEOREM ReaderCancelledChargesNothing == Spec => CancelledChargesNothing
  <1>1. [Next]_vars => [cancelled => budget' = budget /\ checksum' = checksum]_vars
    <2> SUFFICES ASSUME Next, cancelled
                 PROVE  budget' = budget /\ checksum' = checksum
      OBVIOUS
    <2>1. CASE ReadControlChunk
      BY <2>1 DEF ReadControlChunk, ChunkOutcome, Checkpoint
    <2>2. CASE CallRead
      BY <2>2 DEF CallRead, StartRead, ReadNothing, control
    <2> QED
      BY <2>1, <2>2
      DEF Next, Step, Cancel, ReadReturns, WriteBytes, CallerFinishes,
          FinishVerifies, control
  <1> QED BY <1>1, PTL DEF Spec, CancelledChargesNothing
=============================================================================
