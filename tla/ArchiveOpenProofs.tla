------------------------- MODULE ArchiveOpenProofs -------------------------
(***************************************************************************)
(* Proofs about opening an archive, for every set of volumes, every limit  *)
(* and every budget.  First the bounds (OInv): what is assembled and what  *)
(* header resolution decodes stay within the limits, and a set token stops *)
(* the assembly.  Then, on top of them, the meaning (SInv): the bytes are  *)
(* the parts in order, the archive that opens is the first complete one of *)
(* them, and a part is reported missing only if it is needed.              *)
(***************************************************************************)
EXTENDS ArchiveOpen, WellFoundedInduction, SequenceTheorems, TLAPS

\* A set of naturals that is not empty has a least element.
LEMMA LeastNatural ==
    ASSUME NEW S \in SUBSET Nat, S # {}
    PROVE  \E n \in S : \A m \in S : n <= m
  <1> DEFINE R == OpToRel(<, Nat)
  <1>1. IsWellFoundedOn(R, Nat)
    BY NatLessThanWellFounded
  <1>2. \E n \in S : \A m \in S : ~(<<m, n>> \in R)
    <2> HIDE DEF R
    <2> QED BY <1>1, WFMin
  <1>3. \A m, n \in Nat : ~(<<m, n>> \in R) => n <= m
    BY DEF OpToRel
  <1> QED BY <1>2, <1>3

AssemblyPcs  == {"request", "append", "read", "charge"}
CandidatePcs == Stages \cup {"probecandidate"}
HeaderPcs    == {"header", "headerfolder"}

\* Types, without those of outcomes.
Typed ==
    /\ volumes \in VolumeSets
    /\ cancelled \in BOOLEAN
    /\ budget \in Budget
    /\ bytes \in Seq(Nat \X Nat) /\ opens \in Seq(Nat)
    /\ index \in Nat /\ remaining \in Nat /\ position \in Nat /\ read \in Nat
    /\ scan \in Nat /\ layer \in Nat /\ folder \in Nat /\ layer_bytes \in Nat
    /\ depth \in Nat /\ decoded_header_bytes \in Nat

(***************************************************************************)
(* Where the assembly is: how many requests were made for the current      *)
(* index, and that the part being copied was admitted as a whole.          *)
(***************************************************************************)
Assembling ==
    /\ AssemblyBounded
    /\ pc = "request" => Len(opens) = index
    /\ pc \in {"append", "read", "charge"} =>
           /\ Len(opens) = index + 1
           /\ index < Len(volumes.parts)
    /\ pc \in {"read", "charge"} => Len(bytes) + remaining <= MaxTotalInput

\* A candidate is examined only where one is.
Scanning ==
    /\ pc \in AssemblyPcs \cup {"assembled"} => scan = 0
    /\ pc = "search" /\ Anchored => scan = 0
    /\ pc \in CandidatePcs \cup HeaderPcs => \E c \in volumes.candidates : c.offset = scan

\* Header resolution: the layer exists, its folders are counted, and what was
\* decoded so far is within the limits.
Resolving ==
    /\ HeadersBounded
    /\ pc \in AssemblyPcs \cup {"assembled", "probe", "search"} \cup CandidatePcs => layer = 1
    /\ pc \in HeaderPcs => layer \in 1..Len(Layers)
    /\ pc = "headerfolder" => folder <= Len(Current.sizes)

OInv == Typed /\ Assembling /\ Scanning /\ Resolving

(***************************************************************************)
(* The assumptions on the constants, as facts about the current volumes.   *)
(***************************************************************************)
LEMMA VolumeFacts ==
    ASSUME volumes \in VolumeSets
    PROVE  /\ volumes.parts \in Seq([length : Nat, data : Nat])
           /\ \A c \in volumes.candidates : IsCandidate(c)
           /\ MaxVolumes \in Nat /\ MaxTotalInput \in Nat
           /\ ControlChunk \in Nat \ {0}
           /\ MaxHeader \in Nat /\ MaxTotalOutput \in Nat /\ MaxDepth \in Nat
           /\ FixedHeaderSize \in Nat /\ StartHeaderSize \in Nat
  BY VolumeAssumption, OpenAssumption DEF IsVolumeSet

\* The part being copied has a length and a number of bytes.
LEMMA PartFacts ==
    ASSUME volumes \in VolumeSets, index \in Nat, index < Len(volumes.parts)
    PROVE  Part \in [length : Nat, data : Nat] /\ Part.length \in Nat /\ Part.data \in Nat
  <1> DEFINE S == [length : Nat, data : Nat]
  <1>1. volumes.parts \in Seq(S)
    BY VolumeFacts
  <1>2. Len(volumes.parts) \in Nat
    BY <1>1, LenProperties
  <1>3. index + 1 \in 1..Len(volumes.parts)
    BY <1>2
  <1>4. volumes.parts[index + 1] \in S
    <2> HIDE DEF S
    <2> QED BY <1>1, <1>3, ElementOfSeq
  <1> QED BY <1>4 DEF Part

\* The candidate at an offset where there is one.
LEMMA CandidateFacts ==
    ASSUME volumes \in VolumeSets, \E c \in volumes.candidates : c.offset = scan
    PROVE  /\ CandidateAt(scan) \in volumes.candidates
           /\ CandidateAt(scan).next_size \in Nat
           /\ Len(CandidateAt(scan).layers) \in Nat \ {0}
           /\ DOMAIN CandidateAt(scan).layers = 1..Len(CandidateAt(scan).layers)
           /\ \A i \in DOMAIN CandidateAt(scan).layers :
                  /\ IsLayer(CandidateAt(scan).layers[i])
                  /\ (i < Len(CandidateAt(scan).layers))
                        = (CandidateAt(scan).layers[i].kind = "encoded")
  <1>1. CandidateAt(scan) \in volumes.candidates
    BY DEF CandidateAt
  <1>2. IsCandidate(CandidateAt(scan))
    BY <1>1, VolumeFacts
  <1> QED BY <1>1, <1>2 DEF IsCandidate

(***************************************************************************)
(* WorkBudget::charge: a passed checkpoint leaves a budget that has        *)
(* consumed exactly the units more.                                        *)
(***************************************************************************)
LEMMA PaidFacts ==
    ASSUME budget \in Budget, NEW units \in Nat, Passed(units)
    PROVE  /\ Charged(budget, units) \in Budget
           /\ Charged(budget, units).consumed = budget.consumed + units
           /\ ~cancelled
  <1>1. /\ budget.bounded \in BOOLEAN
        /\ budget.remaining \in 0..U64Max
        /\ budget.consumed \in 0..U64Max
        /\ U64Max \in Nat
    BY U64MaxAssumption DEF Budget
  <1>2. CanCharge(budget, units) /\ ~cancelled
    BY DEF Passed, Checkpoint
  <1>3. /\ budget.bounded => budget.remaining - units \in 0..U64Max
        /\ budget.consumed + units \in 0..U64Max
    BY <1>1, <1>2 DEF CanCharge
  <1>4. Charged(budget, units) \in Budget
    BY <1>1, <1>3 DEF Budget, Charged
  <1> QED BY <1>2, <1>4 DEF Charged

\* An operation starts within all limits.
LEMMA InitEstablishes == Init => OInv
  <1> SUFFICES ASSUME Init PROVE OInv
    OBVIOUS
  <1>1. budget \in Budget /\ budget.consumed \in Nat /\ volumes \in VolumeSets
    BY VolumeAssumption, U64MaxAssumption DEF Init, AssemblyInit, Budget
  <1>2. /\ bytes = <<>> /\ opens = <<>> /\ pc = "request" /\ scan = 0 /\ layer = 1
        /\ index = 0 /\ remaining = 0 /\ position = 0 /\ read = 0
        /\ folder = 0 /\ layer_bytes = 0 /\ depth = 0 /\ decoded_header_bytes = 0
        /\ cancelled \in BOOLEAN
    BY DEF Init, AssemblyInit
  <1>3. Typed
    BY <1>1, <1>2 DEF Typed
  <1>4. Assembling
    BY <1>1, <1>2, VolumeFacts DEF Assembling, AssemblyBounded
  <1>5. Scanning
    BY <1>2 DEF Scanning, CandidatePcs, HeaderPcs, Stages
  <1>6. Resolving
    BY <1>1, <1>2, VolumeFacts DEF Resolving, HeadersBounded, HeaderPcs
  <1> QED BY <1>3, <1>4, <1>5, <1>6 DEF OInv

-----------------------------------------------------------------------------
(***************************************************************************)
(* While the assembly runs, the search and the headers are not touched.    *)
(***************************************************************************)
LEMMA AssemblyLeavesTheRest ==
    ASSUME OInv, pc \in AssemblyPcs, pc' \in AssemblyPcs \cup {"assembled", "done"},
           UNCHANGED <<searchVars, headerVars>>
    PROVE  Scanning' /\ Resolving'
  <1>1. Scanning'
    BY DEF OInv, Scanning, AssemblyPcs, CandidatePcs, HeaderPcs, Stages, searchVars
  <1>2. Resolving'
    BY DEF OInv, Resolving, HeadersBounded, AssemblyPcs, HeaderPcs, CandidatePcs,
           Stages, headerVars
  <1> QED BY <1>1, <1>2

(***************************************************************************)
(* The head of the loop and the callback: at most one request per index,   *)
(* and none beyond the limit.                                              *)
(***************************************************************************)
LEMMA RequestPreserves ==
    ASSUME OInv, UNCHANGED <<searchVars, headerVars>>,
           VolumeLimitReached \/ RequestRefused \/ OpenVolume
    PROVE  OInv'
  <1> USE DEF AssemblyPcs
  <1>1. /\ pc = "request" /\ pc' \in {"append", "assembled", "done"}
        /\ UNCHANGED <<volumes, cancelled, budget, index, bytes, remaining, read>>
        /\ scan' = scan /\ layer' = layer /\ folder' = folder
        /\ layer_bytes' = layer_bytes /\ depth' = depth
        /\ decoded_header_bytes' = decoded_header_bytes
    BY DEF VolumeLimitReached, RequestRefused, OpenVolume, CheckpointFails, Fail,
           searchVars, headerVars
  <1>2. Scanning' /\ Resolving'
    BY <1>1, AssemblyLeavesTheRest
  <1>3. CASE VolumeLimitReached \/ RequestRefused
    <2>1. UNCHANGED <<position, opens>> /\ pc' \in {"assembled", "done"}
      BY <1>3 DEF VolumeLimitReached, RequestRefused, CheckpointFails, Fail
    <2>2. Typed' /\ Assembling'
      BY <1>1, <2>1 DEF OInv, Typed, Assembling, AssemblyBounded
    <2> QED BY <1>2, <2>2 DEF OInv
  <1>4. CASE OpenVolume
    <2>1. /\ opens' = Append(opens, index)
          /\ index + 1 <= MaxVolumes
          /\ pc' = "append" => index < Len(volumes.parts)
      BY <1>1, <1>4, VolumeFacts DEF OInv, Typed, OpenVolume, BeyondVolumeLimit, Fail
    <2>2. opens' \in Seq(Nat) /\ Len(opens') = Len(opens) + 1
      BY <2>1 DEF OInv, Typed
    <2>3. position' \in Nat
      <3>1. CASE index < Len(volumes.parts)
        <4>1. Part.data \in Nat
          BY <3>1, PartFacts DEF OInv, Typed
        <4> QED BY <1>4, <3>1, <4>1 DEF OpenVolume, OInv, Typed
      <3>2. CASE ~(index < Len(volumes.parts))
        BY <1>4, <3>2 DEF OpenVolume, OInv, Typed
      <3> QED BY <3>1, <3>2
    <2>4. Typed'
      BY <1>1, <2>2, <2>3 DEF OInv, Typed
    <2>5. Assembling'
      BY <1>1, <2>1, <2>2, VolumeFacts DEF OInv, Typed, Assembling, AssemblyBounded
    <2> QED BY <1>2, <2>4, <2>5 DEF OInv
  <1> QED BY <1>3, <1>4

(***************************************************************************)
(* append_volume up to its loop: a part is admitted as a whole.            *)
(***************************************************************************)
LEMMA AppendPreserves ==
    ASSUME OInv, UNCHANGED <<searchVars, headerVars>>,
           AppendVolume \/ ReadVolume \/ VolumeAppended
    PROVE  OInv'
  <1> USE DEF AssemblyPcs
  <1>0. /\ scan' = scan /\ layer' = layer /\ folder' = folder
        /\ layer_bytes' = layer_bytes /\ depth' = depth
        /\ decoded_header_bytes' = decoded_header_bytes
    BY DEF searchVars, headerVars
  <1>1. /\ UNCHANGED <<volumes, cancelled, budget, bytes, opens>>
        /\ pc \in {"append", "read"}
        /\ pc' \in {"read", "charge", "request", "assembled", "done"}
    BY DEF AppendVolume, ReadVolume, VolumeAppended, CheckpointFails, Fail, EmptyRead
  <1>2. Scanning' /\ Resolving'
    BY <1>1, AssemblyLeavesTheRest
  <1>3. Part.length \in Nat /\ Part.data \in Nat
    BY <1>1, PartFacts DEF OInv, Typed, Assembling
  <1>4. CASE AppendVolume
    <2>1. /\ UNCHANGED <<index, read>>
          /\ pc' \in {"read", "done"}
          /\ remaining' \in Nat /\ position' \in Nat
          /\ pc' = "read" => Len(bytes) + remaining' <= MaxTotalInput
      BY <1>3, <1>4 DEF AppendVolume, CheckpointFails, Fail, Admitted, Rewound, OInv, Typed
    <2>2. Typed'
      BY <1>0, <1>1, <2>1 DEF OInv, Typed
    <2>3. Assembling'
      BY <1>1, <1>4, <2>1 DEF OInv, Typed, Assembling, AssemblyBounded, AppendVolume
    <2> QED BY <1>2, <2>2, <2>3 DEF OInv
  <1>5. CASE ReadVolume
    <2>1. UNCHANGED <<index, remaining, position>> /\ pc = "read"
          /\ pc' \in {"charge", "done"}
      BY <1>5 DEF ReadVolume, CheckpointFails, Fail, EmptyRead
    <2>2. read' \in Nat
      <3>1. Minimum(remaining, ControlChunk) \in Nat
        BY VolumeFacts DEF OInv, Typed, Minimum
      <3>2. Part.data - position \in Int
        BY <1>3 DEF OInv, Typed
      <3>3. ReadCounts \subseteq Nat
        BY <3>1, <3>2 DEF ReadCounts
      <3> QED BY <1>5, <3>3 DEF ReadVolume, OInv, Typed
    <2>3. Typed'
      BY <1>0, <1>1, <2>1, <2>2 DEF OInv, Typed
    <2>4. Assembling'
      BY <1>1, <2>1 DEF OInv, Typed, Assembling, AssemblyBounded
    <2> QED BY <1>2, <2>3, <2>4 DEF OInv
  <1>6. CASE VolumeAppended
    <2>1. UNCHANGED <<remaining, position, read>> /\ pc = "read" /\ index' = index + 1
          /\ pc' \in {"request", "assembled"}
      BY <1>6 DEF VolumeAppended
    <2>2. Typed'
      BY <1>0, <1>1, <2>1 DEF OInv, Typed
    <2>3. Assembling'
      BY <1>1, <2>1 DEF OInv, Typed, Assembling, AssemblyBounded
    <2> QED BY <1>2, <2>2, <2>3 DEF OInv
  <1> QED BY <1>4, <1>5, <1>6

(***************************************************************************)
(* The copied chunk: paid for before it is kept, and never more of it than *)
(* is left of the admitted part.                                           *)
(***************************************************************************)
LEMMA ChunkPreserves ==
    ASSUME OInv, UNCHANGED <<searchVars, headerVars>>, ChunkStep
    PROVE  OInv'
  <1> USE DEF AssemblyPcs
  <1>0. /\ scan' = scan /\ layer' = layer /\ folder' = folder
        /\ layer_bytes' = layer_bytes /\ depth' = depth
        /\ decoded_header_bytes' = decoded_header_bytes
    BY DEF searchVars, headerVars
  <1>1. /\ UNCHANGED <<volumes, cancelled, index, read, opens>>
        /\ pc = "charge" /\ pc' \in {"read", "done"}
    BY DEF ChunkStep, CheckpointFails, Fail
  <1>2. Scanning' /\ Resolving'
    BY <1>1, AssemblyLeavesTheRest
  <1>3. CASE CheckpointFails(read)
    <2>1. UNCHANGED <<budget, bytes, remaining, position>> /\ pc' = "done"
      BY <1>3 DEF ChunkStep, CheckpointFails, Passed, Fail
    <2>2. Typed' /\ Assembling'
      BY <1>0, <1>1, <2>1 DEF OInv, Typed, Assembling, AssemblyBounded
    <2> QED BY <1>2, <2>2 DEF OInv
  <1>4. CASE Passed(read)
    <2>1. /\ budget' = Charged(budget, read)
          /\ budget' \in Budget
          /\ budget'.consumed = budget.consumed + read
      BY <1>4, PaidFacts DEF ChunkStep, CheckpointFails, Passed, OInv, Typed
    <2>2. budget.consumed \in Nat
      BY U64MaxAssumption DEF OInv, Typed, Budget
    <2>3. CASE read > Minimum(remaining, ControlChunk)
      <3>1. UNCHANGED <<bytes, remaining, position>> /\ pc' = "done"
        BY <1>4, <2>3 DEF ChunkStep, CheckpointFails, Passed, Fail
      <3>2. Typed' /\ Assembling'
        BY <1>0, <1>1, <2>1, <2>2, <3>1 DEF OInv, Typed, Assembling, AssemblyBounded
      <3> QED BY <1>2, <3>2 DEF OInv
    <2>4. CASE ~(read > Minimum(remaining, ControlChunk))
      <3>1. /\ bytes' = bytes \o Chunk(read)
            /\ remaining' = remaining - read
            /\ position' = position + read
            /\ pc' = "read"
        BY <1>4, <2>4 DEF ChunkStep, CheckpointFails, Passed
      <3>2. read <= remaining
        BY <2>4, VolumeFacts DEF Minimum, OInv, Typed
      <3>3. Chunk(read) \in Seq(Nat \X Nat) /\ Len(Chunk(read)) = read
        <4>1. Chunk(read) \in [1..read -> Nat \X Nat]
          BY DEF Chunk, OInv, Typed
        <4> QED BY <4>1 DEF OInv, Typed
      <3>4. bytes' \in Seq(Nat \X Nat) /\ Len(bytes') = Len(bytes) + read
        BY <3>1, <3>3, ConcatProperties DEF OInv, Typed
      <3>5. Typed'
        BY <1>0, <1>1, <2>1, <3>1, <3>2, <3>4 DEF OInv, Typed
      <3>6. Len(bytes) \in Nat /\ Len(opens) \in Nat
        BY DEF OInv, Typed
      <3>7. AssemblyBounded'
        <4>1. /\ Len(bytes) + remaining <= MaxTotalInput
              /\ Len(opens) <= MaxVolumes
              /\ budget.consumed >= Len(bytes)
              /\ read \in Nat /\ remaining \in Nat /\ MaxTotalInput \in Nat
          BY <1>1, VolumeFacts DEF OInv, Typed, Assembling, AssemblyBounded
        <4>2. Len(bytes') <= MaxTotalInput
          BY <3>2, <3>4, <3>6, <4>1
        <4>3. budget'.consumed >= Len(bytes')
          BY <2>1, <2>2, <3>4, <3>6, <4>1
        <4> QED BY <1>1, <4>1, <4>2, <4>3 DEF AssemblyBounded
      <3>8. Assembling'
        BY <1>1, <3>1, <3>2, <3>4, <3>6, <3>7, VolumeFacts DEF OInv, Typed, Assembling
      <3> QED BY <1>2, <3>5, <3>8 DEF OInv
    <2> QED BY <2>3, <2>4
  <1> QED BY <1>3, <1>4 DEF ChunkStep

\* A callback's own error, and cancel() from anywhere, change no bound.
LEMMA CallbackPreserves ==
    ASSUME OInv, ProviderFails
    PROVE  OInv'
  <1> USE DEF AssemblyPcs
  <1>1. /\ pc \in {"request", "append", "read"} /\ pc' = "done"
        /\ UNCHANGED <<volumes, cancelled, budget, index, bytes, remaining, position, read,
                       searchVars, headerVars>>
        /\ scan' = scan /\ layer' = layer /\ folder' = folder
        /\ layer_bytes' = layer_bytes /\ depth' = depth
        /\ decoded_header_bytes' = decoded_header_bytes
    BY DEF ProviderFails, CallbackFails, Fail, searchVars, headerVars
  <1>2. Scanning' /\ Resolving'
    BY <1>1, AssemblyLeavesTheRest
  <1>3. CASE pc = "request"
    <2>1. opens' = Append(opens, index) /\ index + 1 <= MaxVolumes
      BY <1>3, VolumeFacts DEF ProviderFails, CallbackFails, BeyondVolumeLimit, OInv, Typed
    <2>2. opens' \in Seq(Nat) /\ Len(opens') = Len(opens) + 1
      BY <2>1 DEF OInv, Typed
    <2>3. Typed' /\ Assembling'
      BY <1>1, <1>3, <2>1, <2>2 DEF OInv, Typed, Assembling, AssemblyBounded
    <2> QED BY <1>2, <2>3 DEF OInv
  <1>4. CASE pc # "request"
    <2>1. opens' = opens
      BY <1>4 DEF ProviderFails, CallbackFails
    <2>2. Typed' /\ Assembling'
      BY <1>1, <2>1 DEF OInv, Typed, Assembling, AssemblyBounded
    <2> QED BY <1>2, <2>2 DEF OInv
  <1> QED BY <1>3, <1>4

-----------------------------------------------------------------------------
\* A step pays for at most one checkpoint.
Paid == \/ budget' = budget
        \/ \E units \in Nat : Passed(units) /\ budget' = Charged(budget, units)

SearchPcs == {"assembled", "probe", "search"} \cup CandidatePcs
EndPcs    == {"verdict", "done"}

\* Nothing after the assembly changes what was assembled or takes work back.
LEMMA AfterAssembly ==
    ASSUME OInv, UNCHANGED assembled, Paid, pc' \notin AssemblyPcs,
           scan' \in Nat, layer' \in Nat, folder' \in Nat, layer_bytes' \in Nat,
           depth' \in Nat, decoded_header_bytes' \in Nat
    PROVE  Typed' /\ Assembling'
  <1>1. budget' \in Budget /\ budget'.consumed >= budget.consumed
    <2>1. budget.consumed \in Nat
      BY U64MaxAssumption DEF OInv, Typed, Budget
    <2>2. CASE budget' = budget
      BY <2>1, <2>2 DEF OInv, Typed
    <2>3. CASE \E units \in Nat : Passed(units) /\ budget' = Charged(budget, units)
      <3>1. PICK units \in Nat : Passed(units) /\ budget' = Charged(budget, units)
        BY <2>3
      <3> QED BY <2>1, <3>1, PaidFacts DEF OInv, Typed
    <2> QED BY <2>2, <2>3 DEF Paid
  <1>2. Typed'
    BY <1>1 DEF OInv, Typed, assembled
  <1>3. budget.consumed \in Nat /\ budget'.consumed \in Nat /\ Len(bytes) \in Nat
    BY <1>1, U64MaxAssumption DEF OInv, Typed, Budget
  <1>4. AssemblyBounded'
    BY <1>1, <1>3 DEF OInv, Assembling, AssemblyBounded, assembled
  <1> QED BY <1>2, <1>4 DEF Assembling, AssemblyPcs

\* Whether the bytes begin with a signature is settled by the assembly.
LEMMA AnchoredIsFixed ==
    ASSUME UNCHANGED assembled
    PROVE  Anchored' <=> Anchored
  BY DEF Anchored, SignatureAt, assembled

(***************************************************************************)
(* A step of the probe or of the search that leads where a candidate is    *)
(* examined only if there is one.                                          *)
(***************************************************************************)
LEMMA SearchPreserves ==
    ASSUME OInv, UNCHANGED assembled, UNCHANGED headerVars, Paid,
           pc \in SearchPcs, pc' \in (SearchPcs \ {"assembled"}) \cup {"header"} \cup EndPcs,
           scan' \in Nat, Scanning'
    PROVE  OInv'
  <1>1. /\ layer' = layer /\ folder' = folder /\ layer_bytes' = layer_bytes
        /\ depth' = depth /\ decoded_header_bytes' = decoded_header_bytes
    BY DEF headerVars
  <1>2. pc' \notin AssemblyPcs /\ pc' # "headerfolder"
    BY DEF SearchPcs, EndPcs, AssemblyPcs, CandidatePcs, Stages
  <1>3. Typed' /\ Assembling'
    BY <1>1, <1>2, AfterAssembly DEF OInv, Typed
  <1>4. layer = 1
    BY DEF OInv, Resolving, SearchPcs
  <1>5. pc' \in HeaderPcs => layer' \in 1..Len(Layers')
    <2> SUFFICES ASSUME pc' \in HeaderPcs PROVE layer' \in 1..Len(Layers')
      OBVIOUS
    <2>1. \E c \in volumes'.candidates : c.offset = scan'
      BY DEF Scanning
    <2>2. volumes' = volumes /\ volumes' \in VolumeSets
      BY <1>3 DEF Typed, assembled
    <2>3. PICK c \in volumes'.candidates :
              c = (CHOOSE d \in volumes'.candidates : d.offset = scan')
      BY <2>1
    <2>4. Layers' = c.layers
      BY <2>3 DEF Layers, CandidateAt
    <2>5. IsCandidate(c)
      BY <2>2, OpenAssumption
    <2>6. Len(c.layers) > 0 /\ Len(c.layers) \in Nat
      BY <2>5 DEF IsCandidate
    <2> QED BY <1>1, <1>4, <2>4, <2>6
  <1>6. Resolving'
    BY <1>1, <1>2, <1>4, <1>5 DEF OInv, Typed, Resolving, HeadersBounded
  <1> QED BY <1>3, <1>6 DEF OInv

\* The probe begins at offset 0, at a signature only if there is one.
LEMMA BeginProbePreserves == ASSUME OInv, BeginProbe PROVE OInv'
  <1>1. /\ UNCHANGED assembled /\ UNCHANGED headerVars /\ Paid /\ pc = "assembled"
        /\ pc' \in {"search", "probe", "probecandidate"} /\ scan' = scan
        /\ pc' = "probecandidate" => Anchored
    BY DEF BeginProbe, Paid
  <1>2. scan = 0 /\ scan \in Nat
    BY <1>1 DEF OInv, Scanning, Typed
  <1>3. Scanning'
    BY <1>1, <1>2, AnchoredIsFixed DEF Scanning, AssemblyPcs, CandidatePcs, HeaderPcs,
       Stages, Anchored, SignatureAt, assembled
  <1> QED BY <1>1, <1>2, <1>3, SearchPreserves
          DEF SearchPcs, EndPcs, CandidatePcs, Stages

\* A failed checkpoint ends the operation or hands its error to the verdict.
LEMMA AbortFacts ==
    ASSUME NEW units, CheckpointAborts(units)
    PROVE  /\ pc' \in EndPcs
           /\ UNCHANGED <<budget, searchVars, headerVars, assembled>>
           /\ scan' = scan
  BY DEF CheckpointAborts, Abort, Fail, Returned, EndPcs, searchVars

\* Nothing is claimed of the search once it is over.
LEMMA NoMoreScanning ==
    ASSUME pc' \in EndPcs
    PROVE  Scanning'
  BY DEF Scanning, EndPcs, AssemblyPcs, CandidatePcs, HeaderPcs, Stages

\* The two scans: a window, and their ends.
LEMMA ScanPreserves == ASSUME OInv, ScanWindow \/ ScanEnds PROVE OInv'
  <1>0. pc \in {"probe", "search"} /\ (pc = "search" => ~Anchored) /\ scan \in Nat
    BY DEF ScanWindow, ScanEnds, OInv, Typed
  <1>1. CASE ScanEnds
    <2>1. /\ UNCHANGED assembled /\ UNCHANGED headerVars /\ Paid
          /\ \/ pc' = "search" /\ scan' = 0
             \/ pc' = "verdict" /\ scan' = scan
      BY <1>1 DEF ScanEnds, Paid, Returned
    <2>2. Scanning'
      BY <2>1 DEF Scanning, AssemblyPcs, CandidatePcs, HeaderPcs, Stages
    <2> QED BY <1>0, <2>1, <2>2, SearchPreserves DEF SearchPcs, EndPcs
  <1>2. CASE ScanWindow /\ CheckpointAborts(1)
    <2>1. pc' \in EndPcs /\ UNCHANGED <<budget, headerVars, assembled>> /\ scan' = scan
      BY <1>2, AbortFacts
    <2> QED BY <1>0, <2>1, NoMoreScanning, SearchPreserves DEF SearchPcs, Paid
  <1>3. CASE ScanWindow /\ ~CheckpointAborts(1)
    <2>1. /\ Pays(1) /\ UNCHANGED assembled /\ UNCHANGED headerVars
          /\ \/ /\ SignatureAt(scan) /\ scan' = scan
                /\ pc' \in {"probecandidate", "fixed"}
             \/ scan' = scan + 1 /\ pc' = pc
      BY <1>3 DEF ScanWindow
    <2>2. Paid
      BY <2>1 DEF Pays, Paid
    <2>3. Scanning'
      BY <1>0, <2>1, AnchoredIsFixed DEF Scanning, AssemblyPcs, CandidatePcs, HeaderPcs,
         Stages, SignatureAt, assembled
    <2> QED BY <1>0, <2>1, <2>2, <2>3, SearchPreserves
            DEF SearchPcs, CandidatePcs, Stages
  <1> QED BY <1>1, <1>2, <1>3

\* A signature at offset 0 is examined without a scan.
LEMMA AnchoredPreserves == ASSUME OInv, SearchAnchored PROVE OInv'
  <1>1. /\ UNCHANGED assembled /\ UNCHANGED headerVars /\ Paid /\ pc = "search" /\ Anchored
        /\ pc' = "fixed" /\ scan' = scan
    BY DEF SearchAnchored, Paid, searchVars
  <1>2. scan = 0
    BY <1>1 DEF OInv, Scanning
  <1>3. Scanning'
    BY <1>1, <1>2 DEF Scanning, AssemblyPcs, CandidatePcs, HeaderPcs, Stages,
       Anchored, SignatureAt, assembled
  <1> QED BY <1>1, <1>2, <1>3, SearchPreserves DEF SearchPcs, CandidatePcs, Stages

\* What the probe concludes from a candidate.
LEMMA ProbePreserves == ASSUME OInv, ProbeCandidate PROVE OInv'
  <1>0. pc = "probecandidate" /\ scan \in Nat /\ StartHeaderSize \in Nat
    BY OpenAssumption DEF ProbeCandidate, OInv, Typed
  <1>1. CASE CheckpointAborts(StartHeaderSize)
    <2>1. pc' \in EndPcs /\ UNCHANGED <<budget, headerVars, assembled>> /\ scan' = scan
      BY <1>1, AbortFacts
    <2> QED BY <1>0, <2>1, NoMoreScanning, SearchPreserves
            DEF SearchPcs, Paid, CandidatePcs
  <1>2. CASE ~CheckpointAborts(StartHeaderSize)
    <2>1. /\ UNCHANGED assembled /\ UNCHANGED headerVars
          /\ budget' = budget \/ Pays(StartHeaderSize)
          /\ \/ pc' = "search" /\ scan' = 0
             \/ pc' = "probe" /\ scan' = scan + 1
             \/ pc' \in EndPcs /\ scan' = scan
      BY <1>0, <1>2 DEF ProbeCandidate, ProbeDecides, Abort, Fail, Returned, EndPcs
    <2>2. Paid
      BY <1>0, <2>1 DEF Pays, Paid
    <2>3. Scanning'
      BY <2>1 DEF Scanning, EndPcs, AssemblyPcs, CandidatePcs, HeaderPcs, Stages
    <2>4. /\ scan' \in Nat
          /\ pc' \in (SearchPcs \ {"assembled"}) \cup {"header"} \cup EndPcs
      BY <1>0, <2>1 DEF SearchPcs
    <2>5. pc \in SearchPcs
      BY <1>0 DEF SearchPcs, CandidatePcs
    <2> QED BY <2>1, <2>2, <2>3, <2>4, <2>5, SearchPreserves
  <1> QED BY <1>1, <1>2

\* The stages of a candidate, its failure, and the header behind the last one.
LEMMA StagePreserves == ASSUME OInv, CandidateStage PROVE OInv'
  <1> DEFINE c == CandidateAt(scan)
  <1>0. pc \in Stages /\ scan \in Nat /\ volumes \in VolumeSets
    BY DEF CandidateStage, OInv, Typed
  <1>1. \E d \in volumes.candidates : d.offset = scan
    BY <1>0 DEF OInv, Scanning, CandidatePcs
  <1>2. StageCost(c) \in Nat
    BY <1>0, <1>1, CandidateFacts, VolumeFacts DEF StageCost, Stages
  <1>3. pc \in SearchPcs
    BY <1>0 DEF SearchPcs, CandidatePcs
  <1>4. CASE CheckpointAborts(StageCost(c))
    <2>1. pc' \in EndPcs /\ UNCHANGED <<budget, headerVars, assembled>> /\ scan' = scan
      BY <1>4, AbortFacts
    <2> QED BY <1>0, <1>3, <2>1, NoMoreScanning, SearchPreserves DEF Paid
  <1>5. CASE ~CheckpointAborts(StageCost(c))
    <2>1. /\ UNCHANGED assembled /\ UNCHANGED headerVars /\ Pays(StageCost(c))
          /\ \/ pc' = NextStage /\ scan' = scan
             \/ pc' = "verdict" /\ scan' = scan
             \/ pc' = "search" /\ scan' = scan + 1 /\ ~Anchored
      BY <1>5 DEF CandidateStage, Returned, searchVars
    <2>2. Paid
      BY <1>2, <2>1 DEF Pays, Paid
    <2>3. NextStage \in {"start", "next", "body", "header"}
      BY <1>0 DEF Stages, NextStage
    <2>4. Scanning'
      BY <1>1, <2>1, <2>3, AnchoredIsFixed
         DEF Scanning, AssemblyPcs, CandidatePcs, HeaderPcs,
         Stages, assembled
    <2>5. /\ scan' \in Nat
          /\ pc' \in (SearchPcs \ {"assembled"}) \cup {"header"} \cup EndPcs
      BY <1>0, <2>1, <2>3 DEF SearchPcs, CandidatePcs, Stages, EndPcs
    <2> QED BY <1>3, <2>1, <2>2, <2>4, <2>5, SearchPreserves
  <1> QED BY <1>4, <1>5

-----------------------------------------------------------------------------
\* The layer being resolved, by the assumption on candidates.
LEMMA LayerFacts ==
    ASSUME OInv, pc \in HeaderPcs
    PROVE  /\ layer \in 1..Len(Layers)
           /\ Current.sizes \in Seq(Nat)
           /\ Current.kind \in {"encoded", "plain", "pending"}
           /\ Current.kind = "encoded" => layer + 1 \in 1..Len(Layers)
           /\ Len(Layers) \in Nat
  <1>1. /\ volumes \in VolumeSets
        /\ \E c \in volumes.candidates : c.offset = scan
        /\ layer \in 1..Len(Layers) /\ layer \in Nat
    BY DEF OInv, Typed, Scanning, Resolving
  <1>2. /\ CandidateAt(scan).layers = Layers
        /\ Len(Layers) \in Nat /\ DOMAIN Layers = 1..Len(Layers)
    BY <1>1, CandidateFacts DEF Layers
  <1>3. /\ IsLayer(Current)
        /\ (layer < Len(Layers)) = (Current.kind = "encoded")
    BY <1>1, <1>2, CandidateFacts DEF Current, Layers
  <1> QED BY <1>1, <1>2, <1>3 DEF IsLayer

\* A layer is entered within the recursion limit, and not yet decoded.
LEMMA EnterLayerPreserves == ASSUME OInv, EnterLayer PROVE OInv'
  <1>1. /\ UNCHANGED assembled /\ Paid /\ pc = "header" /\ scan' = scan
        /\ layer' = layer /\ decoded_header_bytes' = decoded_header_bytes
    BY DEF EnterLayer, Paid, searchVars, headerVars
  <1>2. CASE LayerRefusal # "Ok"
    <2>1. /\ pc' = "verdict" /\ folder' = folder /\ layer_bytes' = layer_bytes
          /\ depth' = depth
      BY <1>2 DEF EnterLayer, Returned, headerVars
    <2>2. Typed' /\ Assembling'
      BY <1>1, <2>1, AfterAssembly DEF OInv, Typed, AssemblyPcs
    <2>3. Scanning'
      BY <2>1, NoMoreScanning DEF EndPcs
    <2>4. Resolving'
      BY <1>1, <2>1 DEF OInv, Typed, Resolving, HeadersBounded, AssemblyPcs,
         CandidatePcs, HeaderPcs, Stages
    <2> QED BY <2>2, <2>3, <2>4 DEF OInv
  <1>3. CASE LayerRefusal = "Ok"
    <2>1. /\ pc' = "headerfolder" /\ folder' = 0 /\ layer_bytes' = 0
          /\ depth' = IF Current.kind = "plain" THEN depth ELSE depth + 1
      BY <1>3 DEF EnterLayer
    <2>2. Current.kind # "plain" => depth + 1 <= MaxDepth
      BY <1>3, VolumeFacts DEF LayerRefusal, OInv, Typed
    <2>3. depth' \in Nat /\ depth' <= MaxDepth
      BY <2>1, <2>2 DEF OInv, Typed, Resolving, HeadersBounded
    <2>4. Typed' /\ Assembling'
      BY <1>1, <2>1, <2>3, AfterAssembly DEF OInv, Typed, AssemblyPcs
    <2>5. Layers' = Layers /\ Current' = Current /\ volumes' = volumes
      BY <1>1 DEF Layers, Current, CandidateAt, assembled
    <2>6. Scanning'
      BY <1>1, <2>1, <2>5 DEF OInv, Scanning, AssemblyPcs, CandidatePcs, HeaderPcs, Stages
    <2>7. Current.sizes \in Seq(Nat) /\ layer \in 1..Len(Layers)
      BY <1>1, LayerFacts DEF HeaderPcs
    <2>8. HeadersBounded'
      BY <1>1, <2>1, <2>3, VolumeFacts DEF OInv, Typed, Resolving, HeadersBounded
    <2>9. Resolving'
      BY <1>1, <2>1, <2>5, <2>7, <2>8 DEF Resolving, AssemblyPcs, CandidatePcs,
         HeaderPcs, Stages
    <2> QED BY <2>4, <2>6, <2>9 DEF OInv
  <1> QED BY <1>2, <1>3

(***************************************************************************)
(* decode_folder is allowed what both limits leave, so that the running    *)
(* totals never pass them.                                                 *)
(***************************************************************************)
LEMMA DecodeHeaderFolderPreserves == ASSUME OInv, DecodeHeaderFolder PROVE OInv'
  <1>0. pc = "headerfolder" /\ folder < Len(Current.sizes) /\ pc \in HeaderPcs
    BY DEF DecodeHeaderFolder, HeaderPcs
  <1>1. CASE CheckpointAborts(1)
    <2>1. pc' \in EndPcs /\ UNCHANGED <<budget, headerVars, assembled>> /\ scan' = scan
          /\ layer' = layer /\ folder' = folder /\ layer_bytes' = layer_bytes
          /\ depth' = depth /\ decoded_header_bytes' = decoded_header_bytes
      BY <1>1, AbortFacts DEF headerVars
    <2>2. Typed' /\ Assembling'
      BY <2>1, AfterAssembly DEF OInv, Typed, AssemblyPcs, EndPcs, Paid
    <2>3. Resolving'
      BY <2>1 DEF OInv, Typed, Resolving, HeadersBounded, AssemblyPcs,
         CandidatePcs, HeaderPcs, Stages, EndPcs
    <2> QED BY <2>1, <2>2, <2>3, NoMoreScanning DEF OInv
  <1>2. CASE ~CheckpointAborts(1)
    <2>1. /\ UNCHANGED assembled /\ Pays(1) /\ scan' = scan /\ layer' = layer
          /\ depth' = depth /\ decoded_header_bytes' = decoded_header_bytes
      BY <1>2 DEF DecodeHeaderFolder, searchVars
    <2>2. Paid
      BY <2>1 DEF Pays, Paid
    <2>3. CASE FolderVerdict # "Ok"
      <3>1. pc' = "verdict" /\ folder' = folder /\ layer_bytes' = layer_bytes
        BY <1>2, <2>3 DEF DecodeHeaderFolder, Returned
      <3>2. Typed' /\ Assembling'
        BY <2>1, <2>2, <3>1, AfterAssembly DEF OInv, Typed, AssemblyPcs
      <3>3. Resolving'
        BY <2>1, <3>1 DEF OInv, Typed, Resolving, HeadersBounded, AssemblyPcs,
           CandidatePcs, HeaderPcs, Stages
      <3> QED BY <3>1, <3>2, <3>3, NoMoreScanning DEF OInv, EndPcs
    <2>4. CASE FolderVerdict = "Ok"
      <3> DEFINE size == Current.sizes[folder + 1]
      <3>1. /\ pc' = "headerfolder" /\ folder' = folder + 1
            /\ layer_bytes' = layer_bytes + size
        BY <1>0, <1>2, <2>4 DEF DecodeHeaderFolder
      <3>2. size \in Nat /\ Len(Current.sizes) \in Nat
        BY <1>0, LayerFacts DEF OInv, Typed
      <3>3. ~(size > Minimum(MaxHeader, RemainingOutput) - layer_bytes)
        BY <2>4 DEF FolderVerdict
      <3>4. /\ layer_bytes + size <= MaxHeader
            /\ decoded_header_bytes + (layer_bytes + size) <= MaxTotalOutput
        <4>1. /\ MaxHeader \in Nat /\ MaxTotalOutput \in Nat
              /\ layer_bytes \in Nat /\ decoded_header_bytes \in Nat
          BY VolumeFacts DEF OInv, Typed
        <4>2. /\ Minimum(MaxHeader, RemainingOutput) <= MaxHeader
              /\ Minimum(MaxHeader, RemainingOutput)
                    <= MaxTotalOutput - decoded_header_bytes
              /\ Minimum(MaxHeader, RemainingOutput) \in Int
          BY <4>1 DEF Minimum, RemainingOutput
        <4> HIDE DEF size
        <4> QED BY <3>2, <3>3, <4>1, <4>2
      <3>5. Typed' /\ Assembling'
        BY <2>1, <2>2, <3>1, <3>2, AfterAssembly DEF OInv, Typed, AssemblyPcs
      <3>6. Layers' = Layers /\ Current' = Current /\ volumes' = volumes
        BY <2>1 DEF Layers, Current, CandidateAt, assembled
      <3>7. Scanning'
        BY <1>0, <2>1, <3>1, <3>6 DEF OInv, Scanning, AssemblyPcs, CandidatePcs,
           HeaderPcs, Stages
      <3>8. HeadersBounded'
        BY <2>1, <3>1, <3>4 DEF OInv, Typed, Resolving, HeadersBounded
      <3>9. Resolving'
        BY <1>0, <2>1, <3>1, <3>2, <3>6, <3>8 DEF OInv, Typed, Resolving, AssemblyPcs,
           CandidatePcs, HeaderPcs, Stages
      <3> QED BY <3>5, <3>7, <3>9 DEF OInv
    <2> QED BY <2>3, <2>4
  <1> QED BY <1>1, <1>2

\* The decoded layer joins the total, and another layer follows only if the
\* candidate has one.
LEMMA FinishLayerPreserves == ASSUME OInv, FinishLayer PROVE OInv'
  <1>1. /\ UNCHANGED assembled /\ Paid /\ pc = "headerfolder" /\ pc \in HeaderPcs
        /\ scan' = scan /\ folder' = folder /\ layer_bytes' = layer_bytes
        /\ depth' = depth
        /\ decoded_header_bytes' = decoded_header_bytes + layer_bytes
        /\ \/ pc' = "verdict" /\ layer' = layer
           \/ pc' = "header" /\ layer' = layer + 1 /\ Current.kind = "encoded"
    BY DEF FinishLayer, Returned, Paid, searchVars, HeaderPcs
  <1>2. Typed' /\ Assembling'
    BY <1>1, AfterAssembly DEF OInv, Typed, AssemblyPcs
  <1>3. Layers' = Layers /\ volumes' = volumes
    BY <1>1 DEF Layers, CandidateAt, assembled
  <1>4. Scanning'
    BY <1>1, <1>3 DEF OInv, Scanning, AssemblyPcs, CandidatePcs, HeaderPcs, Stages
  <1>5. HeadersBounded'
    <2>1. /\ decoded_header_bytes + layer_bytes <= MaxTotalOutput
          /\ depth <= MaxDepth /\ layer_bytes <= MaxHeader
          /\ decoded_header_bytes \in Nat /\ layer_bytes \in Nat
      BY <1>1 DEF OInv, Typed, Resolving, HeadersBounded
    <2>2. pc' # "headerfolder"
      BY <1>1
    <2>3. decoded_header_bytes' <= MaxTotalOutput /\ decoded_header_bytes' \in Nat
      BY <1>1, <2>1
    <2> QED BY <1>1, <2>1, <2>2, <2>3 DEF HeadersBounded
  <1>6. Resolving'
    BY <1>1, <1>3, <1>5, LayerFacts DEF Resolving, AssemblyPcs, CandidatePcs, HeaderPcs,
       Stages
  <1> QED BY <1>2, <1>4, <1>6 DEF OInv

\* The final verdict, a set token and a stuttering step change no bound.
LEMMA QuietPreserves ==
    ASSUME OInv, Conclude \/ Cancel \/ UNCHANGED vars
    PROVE  OInv'
  <1>1. CASE Conclude
    <2>1. /\ UNCHANGED assembled /\ Paid /\ pc' = "done" /\ scan' = scan
          /\ layer' = layer /\ folder' = folder /\ layer_bytes' = layer_bytes
          /\ depth' = depth /\ decoded_header_bytes' = decoded_header_bytes
      BY <1>1 DEF Conclude, Fail, Paid, searchVars, headerVars
    <2>2. Typed' /\ Assembling'
      BY <2>1, AfterAssembly DEF OInv, Typed, AssemblyPcs
    <2>3. Resolving'
      BY <2>1 DEF OInv, Typed, Resolving, HeadersBounded, AssemblyPcs, CandidatePcs,
         HeaderPcs, Stages
    <2> QED BY <2>1, <2>2, <2>3, NoMoreScanning DEF OInv, EndPcs
  <1>2. CASE Cancel \/ UNCHANGED vars
    <2>1. /\ UNCHANGED <<volumes, budget, pc, index, bytes, remaining, position, read, opens>>
          /\ scan' = scan /\ layer' = layer /\ folder' = folder
          /\ layer_bytes' = layer_bytes /\ depth' = depth
          /\ decoded_header_bytes' = decoded_header_bytes
          /\ cancelled' \in {cancelled, TRUE}
      BY <1>2 DEF Cancel, CancelToken, vars, assemblyVars, searchVars, headerVars
    <2>2. Typed' /\ Assembling'
      BY <2>1 DEF OInv, Typed, Assembling, AssemblyBounded
    <2>3. Layers' = Layers /\ Current' = Current /\ (Anchored' <=> Anchored)
      BY <2>1 DEF Layers, Current, CandidateAt, Anchored, SignatureAt
    <2>4. Scanning'
      BY <2>1, <2>3 DEF OInv, Scanning
    <2>5. Resolving'
      BY <2>1, <2>3 DEF OInv, Resolving, HeadersBounded
    <2> QED BY <2>2, <2>4, <2>5 DEF OInv
  <1> QED BY <1>1, <1>2

-----------------------------------------------------------------------------
\* Every step keeps the invariant.
LEMMA NextPreserves == OInv /\ [Next]_vars => OInv'
  <1> SUFFICES ASSUME OInv, [Next]_vars PROVE OInv'
    OBVIOUS
  <1>1. CASE Assemble
    BY <1>1, RequestPreserves, AppendPreserves, ChunkPreserves DEF Assemble, AssemblyStep
  <1>2. CASE BeginProbe \/ ScanEnds \/ ScanWindow \/ SearchAnchored
    BY <1>2, BeginProbePreserves, ScanPreserves, AnchoredPreserves
  <1>3. CASE ProbeCandidate \/ CandidateStage
    BY <1>3, ProbePreserves, StagePreserves
  <1>4. CASE EnterLayer \/ DecodeHeaderFolder \/ FinishLayer
    BY <1>4, EnterLayerPreserves, DecodeHeaderFolderPreserves, FinishLayerPreserves
  <1>5. CASE Conclude \/ Cancel \/ UNCHANGED vars
    BY <1>5, QuietPreserves
  <1>6. CASE ProviderFails
    BY <1>6, CallbackPreserves
  <1> QED BY <1>1, <1>2, <1>3, <1>4, <1>5, <1>6 DEF Next, Work

\* The invariant holds in every state of every run.
LEMMA OpenInvariant == Spec => []OInv
  BY InitEstablishes, NextPreserves, PTL DEF Spec

(***************************************************************************)
(* For every provider and every limit: the assembled bytes stay within     *)
(* max_total_input_bytes and are paid for, and no part beyond max_volumes  *)
(* is requested (read_sequential_volumes, append_volume).                  *)
(***************************************************************************)
THEOREM OpenAssemblyBounded == Spec => []AssemblyBounded
  <1>1. OInv => AssemblyBounded
    BY DEF OInv, Assembling
  <1> QED BY <1>1, OpenInvariant, PTL

(***************************************************************************)
(* For every nesting of encoded headers: recursion, each layer's output    *)
(* and the output of all layers stay within their limits                   *)
(* (open_bytes_inner, decode_encoded_header, process_additional_streams).  *)
(***************************************************************************)
THEOREM OpenHeadersBounded == Spec => []HeadersBounded
  <1>1. OInv => HeadersBounded
    BY DEF OInv, Resolving
  <1> QED BY <1>1, OpenInvariant, PTL

-----------------------------------------------------------------------------
\* What a step may change once the token is set.
Stopped == cancelled => /\ UNCHANGED <<bytes, budget>>
                        /\ mode = "sequential" => UNCHANGED opens

\* A passed checkpoint has seen the token clear.
LEMMA PassedIsNotCancelled == ASSUME NEW units, Passed(units) PROVE ~cancelled
  BY DEF Passed, Checkpoint

\* Every step of the assembly checks the token before it keeps, charges or
\* requests anything.
LEMMA AssemblyStops == AssemblyStep \/ CallbackFails => Stopped
  <1>1. ASSUME VolumeLimitReached \/ RequestRefused \/ AppendVolume \/ ReadVolume
                 \/ VolumeAppended
        PROVE  Stopped
    BY <1>1 DEF VolumeLimitReached, RequestRefused, AppendVolume, ReadVolume,
                VolumeAppended, Stopped
  <1>2. ASSUME OpenVolume PROVE Stopped
    BY <1>2, PassedIsNotCancelled DEF OpenVolume, MayRequest, Stopped
  <1>3. ASSUME ChunkStep PROVE Stopped
    BY <1>3, PassedIsNotCancelled DEF ChunkStep, Stopped
  <1>4. ASSUME CallbackFails PROVE Stopped
    BY <1>4, PassedIsNotCancelled DEF CallbackFails, MayRequest, Stopped
  <1> QED BY <1>1, <1>2, <1>3, <1>4 DEF AssemblyStep

\* So does every later step before it charges anything.
LEMMA SearchStops ==
    BeginProbe \/ ScanEnds \/ ScanWindow \/ SearchAnchored \/ ProbeCandidate
    \/ CandidateStage \/ EnterLayer \/ DecodeHeaderFolder \/ FinishLayer \/ Conclude
    => Stopped
  <1>1. ASSUME BeginProbe \/ ScanEnds \/ SearchAnchored \/ EnterLayer \/ FinishLayer
                 \/ Conclude
        PROVE  Stopped
    BY <1>1 DEF BeginProbe, ScanEnds, SearchAnchored, EnterLayer, FinishLayer, Conclude,
                Stopped, assembled
  <1>2. ASSUME NEW units, CheckpointAborts(units) PROVE Stopped
    BY <1>2 DEF CheckpointAborts, Stopped, assembled
  <1>3. ASSUME NEW units, Pays(units) PROVE ~cancelled
    BY <1>3, PassedIsNotCancelled DEF Pays
  <1>4. ASSUME ScanWindow PROVE Stopped
    BY <1>2, <1>3, <1>4 DEF ScanWindow, Stopped
  <1>5. ASSUME ProbeCandidate PROVE Stopped
    BY <1>2, <1>3, <1>5 DEF ProbeCandidate, Stopped, assembled
  <1>6. ASSUME CandidateStage PROVE Stopped
    BY <1>2, <1>3, <1>6 DEF CandidateStage, Stopped
  <1>7. ASSUME DecodeHeaderFolder PROVE Stopped
    BY <1>2, <1>3, <1>7 DEF DecodeHeaderFolder, Stopped
  <1> QED BY <1>1, <1>4, <1>5, <1>6, <1>7

(***************************************************************************)
(* Whichever callback or thread sets the token: afterwards no byte is      *)
(* appended, no work charged and no further part of a sequence requested.  *)
(***************************************************************************)
THEOREM OpenCancelledStops == Spec => CancelledAssemblyStops
  <1>1. [Next]_vars => [Stopped]_assemblyVars
    <2> SUFFICES ASSUME [Next]_vars PROVE [Stopped]_assemblyVars
      OBVIOUS
    <2>1. CASE Work
      BY <2>1, AssemblyStops, SearchStops DEF Work, Assemble
    <2>2. CASE ProviderFails
      BY <2>2, AssemblyStops DEF ProviderFails
    <2>3. CASE Cancel
      BY <2>3 DEF Cancel, Stopped
    <2>4. CASE UNCHANGED vars
      BY <2>4 DEF vars, assemblyVars
    <2> QED BY <2>1, <2>2, <2>3, <2>4 DEF Next
  <1> QED BY <1>1, PTL DEF Spec, CancelledAssemblyStops, Stopped

-----------------------------------------------------------------------------
(***************************************************************************)
(* The concatenation of parts, as the recursive function defines it: g     *)
(* holds the concatenations of the first 0, ..., n parts.                  *)
(***************************************************************************)
Byte == Nat \X Nat

Prefixes(parts, n, g) ==
    g = [i \in 0..n |-> IF i = 0 THEN <<>> ELSE g[i - 1] \o PartBytes(i - 1, parts[i].length)]

Joined(parts, n) == LET all == CHOOSE g : Prefixes(parts, n, g) IN all[n]

\* The recursive function in Concatenation is the one chosen here.
LEMMA ConcatenationIsJoined == \A n : Concatenation(n) = Joined(volumes.parts, n)
  BY DEF Concatenation, Joined, Prefixes

\* The reported bytes of a part are a sequence of that length.
LEMMA PartBytesFacts ==
    ASSUME NEW i \in Nat, NEW k \in Nat
    PROVE  /\ PartBytes(i, k) \in Seq(Byte) /\ Len(PartBytes(i, k)) = k
           /\ \A j \in 1..k : PartBytes(i, k)[j] = <<i, j>>
  <1>1. PartBytes(i, k) \in [1..k -> Byte]
    BY DEF PartBytes, Byte
  <1>2. PartBytes(i, k) \in Seq(Byte) /\ Len(PartBytes(i, k)) = k
    BY <1>1
  <1> QED BY <1>2 DEF PartBytes

\* A provider's parts report natural lengths.
LEMMA LengthsOfParts ==
    ASSUME NEW v \in VolumeSets
    PROVE  Len(v.parts) \in Nat /\ \A i \in 1..Len(v.parts) : v.parts[i].length \in Nat
  <1> DEFINE S == [length : Nat, data : Nat]
  <1>1. v.parts \in Seq(S)
    BY VolumeAssumption DEF IsVolumeSet
  <1>2. Len(v.parts) \in Nat
    BY <1>1, LenProperties
  <1>3. \A i \in 1..Len(v.parts) : v.parts[i] \in S
    <2> HIDE DEF S
    <2> QED BY <1>1, ElementOfSeq
  <1> QED BY <1>2, <1>3

\* There is such a function for every number of parts that there are: were
\* there none, take the least number without one.
LEMMA PrefixesExist ==
    ASSUME NEW v \in VolumeSets, NEW n \in 0..Len(v.parts)
    PROVE  \E g \in [0..n -> Seq(Byte)] : Prefixes(v.parts, n, g)
  <1> DEFINE parts == v.parts
             Bad   == {m \in 0..Len(parts) :
                          ~\E g \in [0..m -> Seq(Byte)] : Prefixes(parts, m, g)}
  <1>0. Len(parts) \in Nat /\ \A i \in 1..Len(parts) : parts[i].length \in Nat
    BY LengthsOfParts
  <1>00. n \in 0..Len(parts)
    OBVIOUS
  <1> HIDE DEF parts
  <1>1. SUFFICES ASSUME Bad # {} PROVE FALSE
    BY <1>0, <1>00 DEF parts
  <1>2. PICK b \in Bad : \A m \in Bad : b <= m
    <2>1. Bad \in SUBSET Nat
      BY <1>0
    <2> HIDE DEF Bad
    <2> QED BY <2>1, <1>1, LeastNatural
  <1>3. b # 0
    <2> DEFINE z == [i \in 0..0 |-> <<>>]
    <2>1. Prefixes(parts, 0, z) /\ z \in [0..0 -> Seq(Byte)]
      <3>1. \A i \in 0..0 : i = 0
        OBVIOUS
      <3>2. <<>> \in Seq(Byte)
        OBVIOUS
      <3> QED BY <3>1, <3>2 DEF Prefixes
    <2> HIDE DEF z
    <2> QED BY <2>1
  <1>4. b \in 1..Len(parts) /\ b - 1 \in 0..Len(parts) /\ b - 1 \notin Bad
    <2>1. b \in 0..Len(parts)
      OBVIOUS
    <2>2. b \in 1..Len(parts) /\ b - 1 \in 0..Len(parts) /\ ~(b <= b - 1)
      BY <1>0, <1>3, <2>1
    <2> HIDE DEF Bad
    <2> QED BY <1>2, <2>2
  <1>5. PICK g \in [0..(b - 1) -> Seq(Byte)] : Prefixes(parts, b - 1, g)
    BY <1>4
  <1> DEFINE h == [m \in 0..b |->
                      IF m = b THEN g[b - 1] \o PartBytes(b - 1, parts[b].length) ELSE g[m]]
  <1>6. h \in [0..b -> Seq(Byte)]
    <2>1. PartBytes(b - 1, parts[b].length) \in Seq(Byte)
      <3>1. b - 1 \in Nat /\ parts[b].length \in Nat
        BY <1>0, <1>4
      <3> QED BY <3>1, PartBytesFacts
    <2>2. g[b - 1] \o PartBytes(b - 1, parts[b].length) \in Seq(Byte)
      BY <1>4, <2>1, ConcatProperties
    <2>3. \A m \in 0..b : m # b => g[m] \in Seq(Byte)
      BY <1>0, <1>4
    <2> QED BY <2>2, <2>3
  <1>7. Prefixes(parts, b, h)
    <2>1. \A m \in 0..(b - 1) :
              g[m] = IF m = 0 THEN <<>> ELSE g[m - 1] \o PartBytes(m - 1, parts[m].length)
      BY <1>5 DEF Prefixes
    <2>2. ASSUME NEW m \in 0..b
          PROVE  h[m] = IF m = 0 THEN <<>> ELSE h[m - 1] \o PartBytes(m - 1, parts[m].length)
      <3>1. CASE m = b
        <4>1. h[m] = g[b - 1] \o PartBytes(b - 1, parts[b].length)
          BY <3>1
        <4>2. h[m - 1] = g[b - 1] /\ m # 0
          BY <3>1, <1>3, <1>0, <1>4
        <4> HIDE DEF h
        <4> QED BY <3>1, <4>1, <4>2
      <3>2. CASE m # b /\ m # 0
        <4>1. m \in 0..(b - 1) /\ h[m] = g[m] /\ h[m - 1] = g[m - 1]
          BY <3>2, <1>0, <1>4
        <4> HIDE DEF h
        <4> QED BY <2>1, <3>2, <4>1
      <3>3. CASE m = 0
        <4>1. m \in 0..(b - 1) /\ h[m] = g[m]
          BY <3>3, <1>3, <1>0, <1>4
        <4> HIDE DEF h
        <4> QED BY <2>1, <3>3, <4>1
      <3> QED BY <3>1, <3>2, <3>3
    <2> HIDE DEF h
    <2> QED BY <2>2, <1>6 DEF Prefixes
  <1> HIDE DEF h
  <1> QED BY <1>6, <1>7, <1>2

\* And only one: two such functions have no first place where they differ.
LEMMA PrefixesUnique ==
    ASSUME NEW n \in Nat, NEW k \in 0..n, NEW parts, NEW g, NEW h,
           Prefixes(parts, n, g), Prefixes(parts, k, h)
    PROVE  \A m \in 0..k : g[m] = h[m]
  <1> DEFINE Bad == {m \in 0..k : g[m] # h[m]}
  <1>1. SUFFICES ASSUME Bad # {} PROVE FALSE
    OBVIOUS
  <1>2. PICK m \in Bad : \A j \in Bad : m <= j
    <2>1. Bad \in SUBSET Nat
      OBVIOUS
    <2> HIDE DEF Bad
    <2> QED BY <2>1, <1>1, LeastNatural
  <1>3. m # 0
    BY DEF Prefixes
  <1>4. g[m - 1] = h[m - 1]
    BY <1>2, <1>3
  <1>5. /\ g[m] = g[m - 1] \o PartBytes(m - 1, parts[m].length)
        /\ h[m] = h[m - 1] \o PartBytes(m - 1, parts[m].length)
    <2>1. m \in 0..k /\ m \in 0..n
      OBVIOUS
    <2>2. \A i \in 0..n :
              g[i] = IF i = 0 THEN <<>> ELSE g[i - 1] \o PartBytes(i - 1, parts[i].length)
      BY DEF Prefixes
    <2>3. \A i \in 0..k :
              h[i] = IF i = 0 THEN <<>> ELSE h[i - 1] \o PartBytes(i - 1, parts[i].length)
      BY DEF Prefixes
    <2> QED BY <1>3, <2>1, <2>2, <2>3
  <1> QED BY <1>4, <1>5

\* A part more is its bytes more.
LEMMA JoinedUnfolds ==
    ASSUME NEW v \in VolumeSets, NEW n \in 0..Len(v.parts)
    PROVE  /\ Joined(v.parts, n) \in Seq(Byte)
           /\ Joined(v.parts, 0) = <<>>
           /\ n # 0 => Joined(v.parts, n)
                         = Joined(v.parts, n - 1) \o PartBytes(n - 1, v.parts[n].length)
  <1>0. Len(v.parts) \in Nat /\ n \in Nat
    BY LengthsOfParts
  <1>1. PICK g \in [0..n -> Seq(Byte)] : Prefixes(v.parts, n, g)
    BY PrefixesExist
  <1>2. ASSUME NEW m \in 0..n PROVE Joined(v.parts, m) = g[m]
    <2> DEFINE s == CHOOSE h : Prefixes(v.parts, m, h)
    <2>0. m \in 0..Len(v.parts) /\ m \in 0..m
      BY <1>0
    <2>1. \E h : Prefixes(v.parts, m, h)
      BY <2>0, PrefixesExist
    <2>2. Prefixes(v.parts, m, s)
      <3> HIDE DEF Prefixes
      <3> QED BY <2>1
    <2>3. Joined(v.parts, m) = s[m]
      BY DEF Joined
    <2> HIDE DEF s
    <2> QED BY <1>0, <1>1, <2>0, <2>2, <2>3, PrefixesUnique
  <1>3. g[0] = <<>> /\ (n # 0 => g[n] = g[n - 1] \o PartBytes(n - 1, v.parts[n].length))
    <2>1. \A i \in 0..n : g[i] = IF i = 0 THEN <<>>
                                ELSE g[i - 1] \o PartBytes(i - 1, v.parts[i].length)
      BY <1>1 DEF Prefixes
    <2>2. 0 \in 0..n /\ n \in 0..n
      BY <1>0
    <2> QED BY <2>1, <2>2
  <1>4. 0 \in 0..n /\ n \in 0..n /\ (n # 0 => n - 1 \in 0..n)
    BY <1>0
  <1> QED BY <1>1, <1>2, <1>3, <1>4

\* The bytes a read left behind continue the ones copied before.
LEMMA ChunkContinues ==
    ASSUME index \in Nat, NEW n \in Nat, position \in Nat
    PROVE  /\ Chunk(n) \in Seq(Byte)
           /\ PartBytes(index, position) \o Chunk(n) = PartBytes(index, position + n)
  <1> DEFINE p == PartBytes(index, position)
             q == PartBytes(index, position + n)
  <1>1. /\ Chunk(n) \in Seq(Byte) /\ Len(Chunk(n)) = n
        /\ \A k \in 1..n : Chunk(n)[k] = <<index, position + k>>
    <2>1. Chunk(n) \in [1..n -> Byte]
      BY DEF Chunk, Byte
    <2>2. Chunk(n) \in Seq(Byte) /\ Len(Chunk(n)) = n
      BY <2>1
    <2> QED BY <2>2 DEF Chunk
  <1>2. /\ p \in Seq(Byte) /\ Len(p) = position
        /\ \A j \in 1..position : p[j] = <<index, j>>
    BY PartBytesFacts
  <1>3. /\ q \in Seq(Byte) /\ Len(q) = position + n
        /\ \A j \in 1..(position + n) : q[j] = <<index, j>>
    <2>1. position + n \in Nat
      OBVIOUS
    <2> QED BY <2>1, PartBytesFacts
  <1> HIDE DEF p, q
  <1>4. /\ p \o Chunk(n) \in Seq(Byte) /\ Len(p \o Chunk(n)) = position + n
        /\ \A i \in 1..(position + n) : (p \o Chunk(n))[i]
                = IF i <= position THEN p[i] ELSE Chunk(n)[i - position]
    <2> DEFINE chunk == Chunk(n)
    <2>1. chunk \in Seq(Byte) /\ Len(chunk) = n
      BY <1>1
    <2> HIDE DEF chunk
    <2>2. /\ p \o chunk \in Seq(Byte) /\ Len(p \o chunk) = Len(p) + Len(chunk)
          /\ \A i \in 1..(Len(p) + Len(chunk)) : (p \o chunk)[i]
                = IF i <= Len(p) THEN p[i] ELSE chunk[i - Len(p)]
      BY <1>2, <2>1, ConcatProperties
    <2> QED BY <1>2, <2>1, <2>2 DEF chunk
  <1>5. ASSUME NEW i \in 1..(position + n) PROVE (p \o Chunk(n))[i] = q[i]
    <2>1. q[i] = <<index, i>>
      BY <1>3
    <2>2. CASE i <= position
      BY <1>2, <1>4, <2>1, <2>2
    <2>3. CASE ~(i <= position)
      <3>1. i - position \in 1..n /\ position + (i - position) = i
        BY <2>3
      <3> QED BY <1>1, <1>4, <2>1, <2>3, <3>1
    <2> QED BY <2>2, <2>3
  <1>6. p \o Chunk(n) = q
    BY <1>3, <1>4, <1>5, SeqEqual
  <1> QED BY <1>1, <1>6 DEF p, q

-----------------------------------------------------------------------------
ProbePcs   == {"probe", "probecandidate"}
AfterProbe == {"search", "verdict"} \cup Stages \cup HeaderPcs

\* What the search, a header or the probe may report.
ParserErrors ==
    {"Format", "Checksum", "Unsupported", "HeaderBytes", "TotalOutputBytes",
     "RecursionDepth", "PasswordRequired", "WrongPasswordOrCorrupt"}
StopErrors == {"Cancelled", "WorkUnits"}

\* A call that has not returned has no result, and the parser's outcome is
\* known only once the parser has returned.
Outcomes ==
    /\ pc # "done" => result = "none"
    /\ pc \notin EndPcs => inner = "none"
    /\ inner \in ParserErrors \cup StopErrors \cup {"none", "Ok"}
    /\ first_error \in ParserErrors \cup {"none"}

\* How the assembly ended, and what was last asked for.
Ended ==
    /\ mode \in {"sequential", "single"}
    /\ termination \in {"none", "Missing", "Limit"}
    /\ pc \in AssemblyPcs => termination = "none" /\ index <= Len(volumes.parts)
    /\ termination = "Missing" => /\ mode = "sequential" /\ index = Len(volumes.parts)
                                  /\ Len(opens) = index + 1
    /\ termination = "Limit" => index = MaxVolumes
    /\ mode = "sequential" /\ pc \notin AssemblyPcs \cup {"done"} => termination # "none"

\* The part being copied is at the position that its copied bytes say.
Partial == IF pc \in {"read", "charge"} THEN Part.length - remaining ELSE 0

Copying ==
    /\ result \in {"none", "Ok"} =>
           bytes = Joined(volumes.parts, index) \o PartBytes(index, Partial)
    /\ \A i \in 1..Len(opens) : opens[i] = i - 1
    /\ Len(opens) \in {index, index + 1}
    /\ pc \in {"read", "charge"} =>
           remaining <= Part.length /\ position = Part.length - remaining

(***************************************************************************)
(* The probe and the search: the candidate examined is one of those to be  *)
(* searched, none before it would have decided, and the probe's answer is  *)
(* what the bytes say.                                                     *)
(***************************************************************************)
Probing ==
    /\ pc \in ProbePcs => /\ mode = "sequential" /\ bytes # <<>>
                          /\ \A c \in Searched : c.offset < scan => ~Credible(c)
    /\ pc = "probe" => ~Anchored
    /\ mode = "sequential" /\ pc \in AfterProbe => (needs_more <=> CutShort)

Opened ==
    /\ LET found == {c \in Searched : Complete(c)}
       IN  found # {} /\ scan = First(found).offset
    /\ layer = Len(Layers)

Examining ==
    /\ pc \in CandidatePcs \cup HeaderPcs => CandidateAt(scan) \in Searched
    /\ pc \in {"search"} \cup Stages \cup HeaderPcs =>
           \A c \in Searched : c.offset < scan => ~Complete(c)
    /\ pc \in {"next", "body"} =>
           /\ CandidateAt(scan).start = "Ok" /\ CandidateAt(scan).next_size <= MaxHeader
           /\ Required(CandidateAt(scan)) <= Len(bytes)
    /\ pc = "body" => CandidateAt(scan).next = "Ok"
    /\ pc \in HeaderPcs => Complete(CandidateAt(scan))
    /\ inner = "Ok" => Opened

SInv == Outcomes /\ Ended /\ Copying /\ Probing /\ Examining
        /\ OpenedIsComplete /\ MissingIsRequired

\* The invariant's own wording of the order implies the property.
LEMMA CopyingIsInOrder == Copying => AssembledInOrder
  BY ConcatenationIsJoined DEF Copying, Partial, AssembledInOrder

\* Until the call returns there is nothing to show of its result.
LEMMA NoResultYet ==
    Outcomes /\ pc # "done" => OpenedIsComplete /\ MissingIsRequired
  BY DEF Outcomes, OpenedIsComplete, MissingIsRequired

\* Nothing is assembled or searched when a call begins.
LEMMA SearchInitial == Init => SInv
  <1> SUFFICES ASSUME Init PROVE SInv
    OBVIOUS
  <1>1. /\ pc = "request" /\ result = "none" /\ inner = "none" /\ first_error = "none"
        /\ termination = "none" /\ index = 0 /\ bytes = <<>> /\ opens = <<>>
        /\ mode \in {"sequential", "single"} /\ volumes \in VolumeSets
    BY DEF Init, AssemblyInit
  <1>2. Outcomes
    BY <1>1 DEF Outcomes
  <1>3. Len(volumes.parts) \in Nat /\ 0 \in 0..Len(volumes.parts)
    BY <1>1, LengthsOfParts
  <1>4. Ended
    BY <1>1, <1>3 DEF Ended, AssemblyPcs
  <1>5. Copying
    <2>1. Joined(volumes.parts, 0) = <<>>
      BY <1>1, <1>3, JoinedUnfolds
    <2>2. PartBytes(0, 0) = <<>> /\ Partial = 0
      BY <1>1 DEF PartBytes, Partial
    <2>3. Len(opens) = 0
      BY <1>1
    <2>4. <<>> = <<>> \o <<>>
      BY ConcatEmptySeq
    <2> QED BY <1>1, <2>1, <2>2, <2>3, <2>4 DEF Copying
  <1>6. Probing /\ Examining
    BY <1>1 DEF Probing, Examining, ProbePcs, AfterProbe, CandidatePcs, Stages, HeaderPcs
  <1> QED BY <1>1, <1>2, <1>4, <1>5, <1>6, NoResultYet DEF SInv

(***************************************************************************)
(* The assembly: how a step of it may end.                                 *)
(***************************************************************************)
AssemblyErrors == {"Volumes", "Format", "TotalInputBytes", "Io"} \cup StopErrors

Continues == pc' \in AssemblyPcs \cup {"assembled"} /\ result' = result
Refused   == pc' = "done" /\ result' \in AssemblyErrors /\ termination' = termination
Lacking   == /\ pc' = "done" /\ result' = "MissingVolume" /\ termination' = termination
             /\ mode = "single" /\ index >= Len(volumes.parts)
             /\ opens' = Append(opens, index)

\* A failed checkpoint reports the token or the budget.
LEMMA CheckpointErrors ==
    ASSUME NEW units
    PROVE  ~Passed(units) => Checkpoint(cancelled, budget, units) \in StopErrors
  BY DEF Passed, Checkpoint, StopErrors

\* A step of the assembly goes on, ends the call with an error of its own, or
\* finds the only part of a single volume missing.
LEMMA AssemblyOutcomes ==
    ASSUME AssemblyStep \/ CallbackFails
    PROVE  /\ pc \in AssemblyPcs
           /\ UNCHANGED <<volumes, mode>>
           /\ Continues \/ Refused \/ Lacking
  <1> USE DEF AssemblyPcs
  <1>1. ASSUME NEW units, CheckpointFails(units)
        PROVE  pc' = "done" /\ result' \in AssemblyErrors
    BY <1>1, CheckpointErrors DEF CheckpointFails, Fail, AssemblyErrors, Passed
  <1>2. CASE VolumeLimitReached
    BY <1>2 DEF VolumeLimitReached, Fail, Continues, Refused, AssemblyErrors
  <1>3. CASE RequestRefused
    BY <1>1, <1>3 DEF RequestRefused, Fail, Refused, AssemblyErrors
  <1>4. CASE OpenVolume
    BY <1>4 DEF OpenVolume, Fail, Continues, Lacking
  <1>5. CASE AppendVolume
    BY <1>1, <1>5 DEF AppendVolume, Fail, Continues, Refused, AssemblyErrors
  <1>6. CASE ReadVolume
    BY <1>1, <1>6 DEF ReadVolume, EmptyRead, Fail, Continues, Refused, AssemblyErrors
  <1>7. CASE ChunkStep
    BY <1>1, <1>7 DEF ChunkStep, Fail, Continues, Refused, AssemblyErrors
  <1>8. CASE VolumeAppended
    BY <1>8 DEF VolumeAppended, Continues
  <1>9. CASE CallbackFails
    BY <1>9 DEF CallbackFails, Fail, Refused, AssemblyErrors
  <1> QED BY <1>2, <1>3, <1>4, <1>5, <1>6, <1>7, <1>8, <1>9 DEF AssemblyStep

-----------------------------------------------------------------------------
\* Why the assembly ended is recorded with where it ended.
LEMMA AssemblyEnds ==
    ASSUME OInv, Ended, AssemblyStep \/ CallbackFails
    PROVE  Ended'
  <1> USE DEF AssemblyPcs
  <1>1. /\ pc \in AssemblyPcs /\ UNCHANGED <<volumes, mode>>
        /\ Continues \/ Refused \/ Lacking
    BY AssemblyOutcomes
  <1>2. /\ termination = "none" /\ index <= Len(volumes.parts) /\ index \in Nat
        /\ volumes \in VolumeSets /\ opens \in Seq(Nat)
        /\ mode \in {"sequential", "single"}
    BY <1>1 DEF Ended, OInv, Typed
  <1>3. Len(volumes.parts) \in Nat /\ MaxVolumes \in Nat
    BY <1>2, LengthsOfParts, VolumeFacts
  <1>4. CASE VolumeLimitReached
    <2>1. index = MaxVolumes
      <3>1. index + 1 > MaxVolumes /\ pc = "request"
        BY <1>4 DEF VolumeLimitReached, BeyondVolumeLimit
      <3>2. index <= MaxVolumes
        BY <3>1 DEF OInv, Assembling, AssemblyBounded
      <3> QED BY <1>2, <1>3, <3>1, <3>2
    <2>2. /\ index' = index /\ opens' = opens
          /\ \/ pc' = "done" /\ termination' = termination
             \/ pc' = "assembled" /\ termination' = "Limit"
      BY <1>4 DEF VolumeLimitReached, Fail
    <2> QED BY <1>1, <1>2, <2>1, <2>2 DEF Ended
  <1>5. CASE OpenVolume
    <2>1. opens' = Append(opens, index) /\ index' = index /\ pc = "request"
          /\ \/ termination' = termination /\ pc' \in {"append", "done"}
             \/ /\ termination' = "Missing" /\ pc' = "assembled" /\ mode # "single"
                /\ index >= Len(volumes.parts)
      BY <1>5 DEF OpenVolume, Fail
    <2>2. Len(opens') = index + 1
      BY <1>2, <2>1 DEF OInv, Assembling
    <2> QED BY <1>1, <1>2, <1>3, <2>1, <2>2 DEF Ended
  <1>6. CASE VolumeAppended
    <2>1. /\ termination' = termination /\ index' = index + 1 /\ pc = "read"
          /\ pc' = IF mode = "single" THEN "assembled" ELSE "request"
      BY <1>6 DEF VolumeAppended
    <2>2. index < Len(volumes.parts)
      BY <2>1 DEF OInv, Assembling
    <2> QED BY <1>1, <1>2, <1>3, <2>1, <2>2 DEF Ended
  <1>7. CASE RequestRefused \/ AppendVolume \/ ReadVolume \/ ChunkStep \/ CallbackFails
    <2>1. termination' = termination /\ index' = index /\ pc' \in AssemblyPcs \cup {"done"}
      BY <1>7 DEF RequestRefused, AppendVolume, ReadVolume, ChunkStep, CallbackFails,
         CheckpointFails, EmptyRead, Fail
    <2> QED BY <1>1, <1>2, <2>1 DEF Ended
  <1> QED BY <1>4, <1>5, <1>6, <1>7 DEF AssemblyStep

\* Each index is requested once, in order.
LEMMA RequestedInOrder ==
    ASSUME OInv, Copying, AssemblyStep \/ CallbackFails
    PROVE  /\ \A i \in 1..Len(opens') : opens'[i] = i - 1
           /\ Len(opens') \in {index', index' + 1}
  <1>1. opens \in Seq(Nat) /\ index \in Nat /\ Len(opens) \in Nat
    BY DEF OInv, Typed
  <1>2. \A i \in 1..Len(opens) : opens[i] = i - 1
    BY DEF Copying
  <1>3. CASE pc = "request" /\ opens' = Append(opens, index) /\ index' = index
    <2>1. Len(opens) = index
      BY <1>3 DEF OInv, Assembling
    <2>2. /\ Len(opens') = index + 1
          /\ \A i \in 1..index : opens'[i] = opens[i]
          /\ opens'[index + 1] = index
      BY <1>1, <1>3, <2>1, AppendProperties
    <2>3. ASSUME NEW i \in 1..(index + 1) PROVE opens'[i] = i - 1
      <3>1. CASE i = index + 1
        BY <1>1, <2>2, <3>1
      <3>2. CASE i # index + 1
        <4>1. i \in 1..index
          BY <1>1, <3>2
        <4> QED BY <1>2, <2>1, <2>2, <4>1
      <3> QED BY <3>1, <3>2
    <2> QED BY <1>3, <2>2, <2>3
  <1>4. CASE opens' = opens /\ index' = index
    BY <1>4 DEF Copying
  <1>5. CASE opens' = opens /\ index' = index + 1 /\ pc = "read"
    <2>1. Len(opens) = index + 1
      BY <1>5 DEF OInv, Assembling
    <2> QED BY <1>2, <1>5, <2>1
  <1>6. \/ pc = "request" /\ opens' = Append(opens, index) /\ index' = index
        \/ opens' = opens /\ index' = index
        \/ opens' = opens /\ index' = index + 1 /\ pc = "read"
    <2>1. CASE OpenVolume
      BY <2>1 DEF OpenVolume
    <2>2. CASE VolumeAppended
      BY <2>2 DEF VolumeAppended
    <2>3. CASE CallbackFails
      BY <2>3 DEF CallbackFails
    <2>4. CASE VolumeLimitReached \/ RequestRefused \/ AppendVolume \/ ReadVolume \/ ChunkStep
      BY <2>4 DEF VolumeLimitReached, RequestRefused, AppendVolume, ReadVolume, ChunkStep
    <2> QED BY <2>1, <2>2, <2>3, <2>4 DEF AssemblyStep
  <1> QED BY <1>3, <1>4, <1>5, <1>6

(***************************************************************************)
(* The copied bytes: a part is copied from its start, in order, and counts *)
(* as appended only when all of it is there.                               *)
(***************************************************************************)
LEMMA AssemblyCopies ==
    ASSUME OInv, Outcomes, Copying, AssemblyStep \/ CallbackFails
    PROVE  Copying'
  <1> USE DEF AssemblyPcs
  <1>1. /\ pc \in AssemblyPcs /\ volumes' = volumes
        /\ Continues \/ Refused \/ Lacking
    BY AssemblyOutcomes
  <1>2. /\ \A i \in 1..Len(opens') : opens'[i] = i - 1
        /\ Len(opens') \in {index', index' + 1}
    BY RequestedInOrder
  <1>3. CASE ~Continues
    <2>1. pc' = "done" /\ result' \notin {"none", "Ok"}
      BY <1>1, <1>3 DEF Refused, Lacking, AssemblyErrors, StopErrors
    <2> QED BY <1>2, <2>1 DEF Copying
  <1>4. CASE Continues
    <2>1. result = "none" /\ result' = "none" /\ pc' # "done"
      BY <1>1, <1>4 DEF Continues, Outcomes
    <2>2. bytes = Joined(volumes.parts, index) \o PartBytes(index, Partial)
      BY <2>1 DEF Copying
    <2>3. volumes \in VolumeSets /\ index \in Nat /\ remaining \in Nat /\ position \in Nat
          /\ read \in Nat
      BY DEF OInv, Typed
    <2>4. Len(volumes.parts) \in Nat
      BY <2>3, LengthsOfParts
    <2>5. CASE VolumeLimitReached \/ OpenVolume \/ RequestRefused
      <3>1. pc = "request" /\ pc' \in {"append", "assembled"} /\ index' = index /\ bytes' = bytes
        BY <2>1, <2>5
           DEF VolumeLimitReached, OpenVolume, RequestRefused, CheckpointFails, Fail
      <3>2. Partial = 0 /\ Partial' = 0
        BY <3>1 DEF Partial
      <3> QED BY <1>1, <1>2, <2>2, <3>1, <3>2 DEF Copying
    <2>6. CASE AppendVolume
      <3>1. /\ pc = "append" /\ pc' = "read" /\ index' = index /\ bytes' = bytes
            /\ remaining' = Part.length /\ position' = 0
        BY <2>1, <2>6 DEF AppendVolume, CheckpointFails, Fail, Rewound
      <3>2. Part' = Part /\ Part.length \in Nat
        BY <1>1, <2>3, <3>1, PartFacts DEF Part, OInv, Assembling
      <3>3. Partial = 0 /\ Partial' = 0
        BY <3>1, <3>2 DEF Partial
      <3>4. remaining' <= Part'.length /\ position' = Part'.length - remaining'
        BY <3>1, <3>2
      <3> QED BY <1>1, <1>2, <2>2, <3>1, <3>3, <3>4 DEF Copying
    <2>7. CASE ReadVolume
      <3>1. /\ pc = "read" /\ pc' = "charge" /\ index' = index /\ bytes' = bytes
            /\ remaining' = remaining /\ position' = position
        BY <2>1, <2>7 DEF ReadVolume, CheckpointFails, EmptyRead, Fail
      <3>2. Part' = Part
        BY <1>1, <3>1 DEF Part
      <3>3. Partial' = Partial
        BY <3>1, <3>2 DEF Partial
      <3> QED BY <1>1, <1>2, <2>1, <2>2, <3>1, <3>2, <3>3 DEF Copying
    <2>8. CASE ChunkStep
      <3>1. /\ pc = "charge" /\ pc' = "read" /\ index' = index
            /\ bytes' = bytes \o Chunk(read)
            /\ remaining' = remaining - read /\ position' = position + read
            /\ ~(read > Minimum(remaining, ControlChunk))
        BY <2>1, <2>8 DEF ChunkStep, CheckpointFails, Fail
      <3>2. Part' = Part /\ Part.length \in Nat
        BY <1>1, <2>3, <3>1, PartFacts DEF Part, OInv, Assembling
      <3>3. read <= remaining
        BY <2>3, <3>1, VolumeFacts DEF Minimum
      <3>4. remaining <= Part.length /\ position = Part.length - remaining
        BY <3>1 DEF Copying
      <3>5. Partial = position /\ Partial' = position + read
        BY <2>3, <3>1, <3>2, <3>4 DEF Partial
      <3>6. /\ Chunk(read) \in Seq(Byte)
            /\ PartBytes(index, position) \o Chunk(read) = PartBytes(index, position + read)
        BY <2>3, ChunkContinues
      <3>7. PartBytes(index, position) \in Seq(Byte)
        BY <2>3, PartBytesFacts
      <3>8. Joined(volumes.parts, index) \in Seq(Byte)
        <4>1. index \in 0..Len(volumes.parts)
          BY <2>3, <2>4, <3>1 DEF OInv, Assembling
        <4> QED BY <2>3, <4>1, JoinedUnfolds
      <3>9. bytes' = Joined(volumes.parts, index) \o PartBytes(index, position + read)
        <4> DEFINE whole == Joined(volumes.parts, index)
                   start == PartBytes(index, position)
                   chunk == Chunk(read)
        <4>1. whole \in Seq(Byte) /\ start \in Seq(Byte) /\ chunk \in Seq(Byte)
          BY <3>6, <3>7, <3>8
        <4>2. /\ bytes' = (whole \o start) \o chunk
              /\ start \o chunk = PartBytes(index, position + read)
          BY <2>2, <3>1, <3>5, <3>6
        <4> HIDE DEF start, chunk, whole
        <4>3. (whole \o start) \o chunk = whole \o (start \o chunk)
          BY <4>1, ConcatAssociative
        <4> QED BY <4>2, <4>3 DEF whole
      <3>10. remaining' <= Part'.length /\ position' = Part'.length - remaining'
        BY <2>3, <3>1, <3>2, <3>3, <3>4
      <3> QED BY <1>1, <1>2, <3>1, <3>5, <3>9, <3>10 DEF Copying
    <2>9. CASE VolumeAppended
      <3>1. /\ pc = "read" /\ pc' \in {"request", "assembled"} /\ remaining = 0
            /\ index' = index + 1 /\ bytes' = bytes
        BY <2>9 DEF VolumeAppended
      <3>2. index < Len(volumes.parts) /\ Part.length \in Nat
        BY <2>3, <3>1, PartFacts DEF OInv, Assembling
      <3>3. Partial = Part.length /\ Partial' = 0
        BY <3>1, <3>2 DEF Partial
      <3>4. bytes = Joined(volumes.parts, index + 1) /\ bytes \in Seq(Byte)
        <4>1. index + 1 \in 0..Len(volumes.parts) /\ index + 1 # 0 /\ (index + 1) - 1 = index
          BY <2>3, <2>4, <3>2
        <4>2. /\ Joined(volumes.parts, index + 1) \in Seq(Byte)
              /\ Joined(volumes.parts, index + 1)
                   = Joined(volumes.parts, (index + 1) - 1)
                       \o PartBytes((index + 1) - 1, volumes.parts[index + 1].length)
          BY <2>3, <4>1, JoinedUnfolds
        <4> QED BY <2>2, <3>3, <4>1, <4>2 DEF Part
      <3>5. PartBytes(index + 1, 0) = <<>>
        BY DEF PartBytes
      <3>6. bytes \o <<>> = bytes
        BY <3>4, ConcatEmptySeq
      <3>7. bytes' = Joined(volumes'.parts, index') \o PartBytes(index', Partial')
        BY <1>1, <3>1, <3>3, <3>4, <3>5, <3>6
      <3> QED BY <1>2, <3>1, <3>7 DEF Copying
    <2>10. CASE CallbackFails
      BY <2>1, <2>10 DEF CallbackFails, Fail
    <2> QED BY <2>5, <2>6, <2>7, <2>8, <2>9, <2>10 DEF AssemblyStep
  <1> QED BY <1>3, <1>4

\* Nothing but the assembly's own errors, and in single mode a missing part,
\* may be reported while the assembly runs.
LEMMA AssemblyKeepsSearch ==
    ASSUME OInv, SInv, Assemble \/ ProviderFails
    PROVE  SInv'
  <1> USE DEF AssemblyPcs
  <1>0. /\ AssemblyStep \/ CallbackFails
        /\ inner' = inner /\ first_error' = first_error
    BY DEF Assemble, ProviderFails, searchVars
  <1>1. /\ pc \in AssemblyPcs /\ UNCHANGED <<volumes, mode>>
        /\ Continues \/ Refused \/ Lacking
    BY <1>0, AssemblyOutcomes
  <1>2. Ended' /\ Copying'
    BY <1>0, AssemblyEnds, AssemblyCopies DEF SInv
  <1>3. /\ pc' \in AssemblyPcs \cup {"assembled", "done"} /\ inner' = "none"
        /\ pc # "done" /\ result = "none" /\ termination = "none"
    BY <1>0, <1>1 DEF SInv, Outcomes, Ended, EndPcs, Continues, Refused, Lacking
  <1>4. Outcomes'
    BY <1>0, <1>1, <1>3 DEF SInv, Outcomes, Continues, Refused, Lacking
  <1>5. Probing' /\ Examining'
    BY <1>3 DEF Probing, Examining, ProbePcs, AfterProbe, CandidatePcs, Stages, HeaderPcs
  <1>6. OpenedIsComplete' /\ MissingIsRequired'
    <2>1. CASE Continues
      <3>1. pc' # "done"
        BY <2>1 DEF Continues
      <3>2. (Outcomes /\ pc # "done" => OpenedIsComplete /\ MissingIsRequired)'
        BY NoResultYet, PTL
      <3> QED BY <1>4, <3>1, <3>2
    <2>2. CASE Refused
      <3>1. result' \notin {"Ok", "MissingVolume"} /\ termination' = "none"
        BY <1>3, <2>2 DEF Refused, AssemblyErrors, StopErrors
      <3> QED BY <3>1 DEF OpenedIsComplete, MissingIsRequired
    <2>3. CASE Lacking
      <3>1. /\ result' = "MissingVolume" /\ termination' = "none" /\ mode' = "single"
            /\ index >= Len(volumes.parts) /\ opens' = Append(opens, index)
        BY <1>1, <1>3, <2>3 DEF Lacking
      <3>2. index' = index
        <4>1. ~VolumeAppended
          BY <1>3, <2>3 DEF VolumeAppended, Lacking
        <4> QED BY <1>0, <4>1 DEF AssemblyStep, VolumeLimitReached, RequestRefused,
                OpenVolume, AppendVolume, ReadVolume, ChunkStep, CallbackFails
      <3>3. opens \in Seq(Nat) /\ index \in Nat
        BY DEF OInv, Typed
      <3>4. opens' # <<>> /\ opens'[Len(opens')] = index
        BY <3>1, <3>3, AppendProperties
      <3> QED BY <1>1, <3>1, <3>2, <3>4 DEF OpenedIsComplete, MissingIsRequired
    <2> QED BY <1>1, <2>1, <2>2, <2>3
  <1> QED BY <1>2, <1>4, <1>5, <1>6 DEF SInv

-----------------------------------------------------------------------------
\* What the bytes say of themselves is settled by the assembly.
LEMMA BytesAreFixed ==
    ASSUME UNCHANGED assembled
    PROVE  /\ Searched' = Searched
           /\ \A c : Complete(c)' <=> Complete(c)
           /\ \A c : Credible(c)' <=> Credible(c)
           /\ Anchored' <=> Anchored
           /\ CutShort' <=> CutShort
           /\ Measurable' <=> Measurable
           /\ volumes' = volumes /\ bytes' = bytes /\ mode' = mode
  <1>1. volumes' = volumes /\ bytes' = bytes /\ mode' = mode
    BY DEF assembled
  <1>2. Anchored' <=> Anchored
    BY AnchoredIsFixed
  <1>3. CandidateAt(0)' = CandidateAt(0)
    BY <1>1 DEF CandidateAt
  <1>4. Searched' = Searched
    BY <1>1, <1>2, <1>3 DEF Searched
  <1>5. /\ \A c : Complete(c)' <=> Complete(c)
        /\ \A c : Credible(c)' <=> Credible(c)
    BY <1>1 DEF Complete, Credible
  <1>6. CredibleHeaders' = CredibleHeaders
    BY <1>4, <1>5 DEF CredibleHeaders
  <1>7. First(CredibleHeaders)' = First(CredibleHeaders)
    BY <1>6 DEF First
  <1>8. CutShort' <=> CutShort
    BY <1>1, <1>6, <1>7 DEF CutShort, Required, FixedEnd
  <1>9. Measurable' <=> Measurable
    BY <1>1, <1>6, <1>7 DEF Measurable, Required, FixedEnd
  <1> QED BY <1>1, <1>2, <1>4, <1>5, <1>8, <1>9

\* The signatures searched are candidates, with sizes that are naturals.
LEMMA SearchedFacts ==
    ASSUME volumes \in VolumeSets
    PROVE  /\ Searched \subseteq volumes.candidates
           /\ \A c \in volumes.candidates :
                  /\ IsCandidate(c) /\ CandidateAt(c.offset) = c
                  /\ c.offset \in Nat /\ c.next_size \in Nat
                  /\ FixedEnd(c) \in Nat /\ Required(c) \in Nat /\ FixedEnd(c) <= Required(c)
  <1>1. Searched \subseteq volumes.candidates
    <2>1. Anchored => CandidateAt(0) \in volumes.candidates
      BY DEF Anchored, SignatureAt, CandidateAt
    <2> QED BY <2>1 DEF Searched
  <1>2. ASSUME NEW c \in volumes.candidates
        PROVE  /\ IsCandidate(c) /\ CandidateAt(c.offset) = c
               /\ c.offset \in Nat /\ c.next_size \in Nat
               /\ FixedEnd(c) \in Nat /\ Required(c) \in Nat /\ FixedEnd(c) <= Required(c)
    <2>1. IsCandidate(c) /\ FixedHeaderSize \in Nat
      BY OpenAssumption
    <2>2. c.offset \in Nat /\ c.next_size \in Nat /\ c.next_offset \in Nat
      BY <2>1 DEF IsCandidate
    <2>3. \A d \in volumes.candidates : d.offset = c.offset => d = c
      BY OpenAssumption
    <2>4. CandidateAt(c.offset) = c
      BY <2>3 DEF CandidateAt
    <2> QED BY <2>1, <2>2, <2>4 DEF FixedEnd, Required
  <1> QED BY <1>1, <1>2

\* The first of some candidates is the one with no smaller offset among them.
LEMMA FirstIs ==
    ASSUME volumes \in VolumeSets, NEW S \in SUBSET volumes.candidates, NEW c \in S,
           \A d \in S : ~(d.offset < c.offset)
    PROVE  First(S) = c
  <1>1. \A d \in S : d.offset \in Nat /\ CandidateAt(d.offset) = d
    BY SearchedFacts
  <1>2. \A d \in S : c.offset <= d.offset
    BY <1>1
  <1>3. First(S) \in S /\ \A d \in S : First(S).offset <= d.offset
    BY <1>2 DEF First
  <1>4. First(S).offset = c.offset
    BY <1>1, <1>2, <1>3
  <1> QED BY <1>1, <1>3, <1>4

-----------------------------------------------------------------------------
\* No step after the assembly changes what was assembled or why it ended.
LEMMA AssemblyKept ==
    ASSUME SInv, UNCHANGED assembled, pc \notin AssemblyPcs \cup {"done"},
           pc' \notin AssemblyPcs
    PROVE  Ended' /\ Copying'
  <1>1. Ended'
    BY DEF SInv, Ended, assembled
  <1>2. result = "none" /\ Partial = 0 /\ Partial' = 0
    BY DEF SInv, Outcomes, Partial, AssemblyPcs
  <1>3. Copying'
    BY <1>2 DEF SInv, Copying, assembled, AssemblyPcs
  <1> QED BY <1>1, <1>3

\* After the assembly only the parts about the search have to be shown.
LEMMA LaterStep ==
    ASSUME SInv, UNCHANGED assembled, pc \notin AssemblyPcs \cup {"done"},
           pc' \notin AssemblyPcs \cup {"done"}, Outcomes', Probing', Examining'
    PROVE  SInv'
  <1>1. Ended' /\ Copying'
    BY AssemblyKept
  <1>2. (Outcomes /\ pc # "done" => OpenedIsComplete /\ MissingIsRequired)'
    BY NoResultYet, PTL
  <1>3. OpenedIsComplete' /\ MissingIsRequired'
    BY <1>2
  <1> QED BY <1>1, <1>3 DEF SInv

\* The parser returns an error.
LEMMA ReturnedError ==
    ASSUME SInv, UNCHANGED assembled, pc \in {"search"} \cup Stages \cup HeaderPcs,
           pc' = "verdict", result' = result, inner' \in ParserErrors \cup StopErrors,
           needs_more' = needs_more, first_error' = first_error
    PROVE  SInv'
  <1>1. pc \notin AssemblyPcs \cup {"done"} /\ pc' \notin AssemblyPcs \cup {"done"}
        /\ pc \in AfterProbe
    BY DEF AssemblyPcs, Stages, HeaderPcs, AfterProbe
  <1>2. Outcomes'
    BY <1>1 DEF SInv, Outcomes, EndPcs
  <1>3. Probing'
    BY <1>1, BytesAreFixed DEF SInv, Probing, ProbePcs, AfterProbe
  <1>4. Examining'
    BY DEF Examining, CandidatePcs, Stages, HeaderPcs, ParserErrors, StopErrors
  <1> QED BY <1>1, <1>2, <1>3, <1>4, LaterStep

\* The probe's errors are the operation's.
LEMMA ProbeError ==
    ASSUME SInv, UNCHANGED assembled, pc \in ProbePcs,
           pc' = "done", inner' = inner, first_error' = first_error,
           result' \in StopErrors \/ (result' \in {"HeaderBytes", "Format"} /\ ~Measurable)
    PROVE  SInv'
  <1>1. pc \notin AssemblyPcs \cup {"done"} /\ pc' \notin AssemblyPcs /\ pc \notin EndPcs
    BY DEF AssemblyPcs, ProbePcs, EndPcs
  <1>2. Ended' /\ Copying'
    BY <1>1, AssemblyKept
  <1>3. inner = "none"
    BY <1>1 DEF SInv, Outcomes
  <1>4. Outcomes'
    BY <1>1, <1>3 DEF SInv, Outcomes, EndPcs
  <1>5. Probing' /\ Examining'
    BY <1>3 DEF Probing, Examining, ProbePcs, AfterProbe, CandidatePcs, Stages, HeaderPcs
  <1>6. OpenedIsComplete'
    BY DEF OpenedIsComplete, StopErrors
  <1>7. MissingIsRequired'
    BY BytesAreFixed DEF MissingIsRequired, StopErrors
  <1> QED BY <1>2, <1>4, <1>5, <1>6, <1>7 DEF SInv

\* A failed checkpoint, wherever it is.
LEMMA AbortKeeps ==
    ASSUME SInv, NEW units, CheckpointAborts(units),
           pc \in ProbePcs \cup {"search"} \cup Stages \cup HeaderPcs
    PROVE  SInv'
  <1>1. /\ UNCHANGED assembled /\ needs_more' = needs_more /\ first_error' = first_error
        /\ Checkpoint(cancelled, budget, units) \in StopErrors
        /\ Abort(Checkpoint(cancelled, budget, units))
    BY CheckpointErrors DEF CheckpointAborts, searchVars
  <1>2. CASE pc \in ProbePcs
    BY <1>1, <1>2, ProbeError DEF Abort, Fail, ProbePcs
  <1>3. CASE pc \notin ProbePcs
    BY <1>1, <1>3, ReturnedError DEF Abort, Returned, ProbePcs
  <1> QED BY <1>2, <1>3

-----------------------------------------------------------------------------
\* A candidate met by a scan is one of those to be searched.
LEMMA MetIsSearched ==
    ASSUME volumes \in VolumeSets, scan \in Nat, bytes \in Seq(Nat \X Nat),
           SignatureAt(scan), ~Anchored => scan <= LastScanned, Anchored => scan = 0
    PROVE  CandidateAt(scan) \in Searched
  <1>1. CASE Anchored
    BY <1>1 DEF Searched
  <1>2. CASE ~Anchored
    <2>1. /\ CandidateAt(scan) \in volumes.candidates /\ CandidateAt(scan).offset = scan
          /\ scan + SignatureSize <= Len(bytes)
      BY DEF SignatureAt, CandidateAt
    <2>2. scan <= SfxScanLimit
      BY <1>2, OpenAssumption DEF LastScanned, Minimum
    <2> QED BY <1>2, <2>1, <2>2 DEF Searched
  <1> QED BY <1>1, <1>2

\* Past the last window there is nothing to search.
LEMMA ScannedAll ==
    ASSUME volumes \in VolumeSets, scan \in Nat, bytes \in Seq(Nat \X Nat), ~Anchored,
           scan > LastScanned
    PROVE  \A c \in Searched : c.offset < scan
  <1> SUFFICES ASSUME NEW c \in Searched PROVE c.offset < scan
    OBVIOUS
  <1>1. c.offset \in Nat /\ c.offset + SignatureSize <= Len(bytes) /\ c.offset <= SfxScanLimit
    BY SearchedFacts DEF Searched
  <1>2. SignatureSize \in Nat /\ SfxScanLimit \in Nat /\ Len(bytes) \in Nat
    BY OpenAssumption
  <1>3. LastScanned \in Int /\ c.offset <= LastScanned
    BY <1>1, <1>2 DEF LastScanned, Minimum
  <1> QED BY <1>1, <1>3

\* The candidate at the scan's offset is the only one there.
LEMMA OneMore ==
    ASSUME volumes \in VolumeSets, scan \in Nat, NEW c \in Searched, c.offset < scan + 1
    PROVE  c.offset < scan \/ (c.offset = scan /\ c = CandidateAt(scan))
  <1>1. c.offset \in Nat /\ CandidateAt(c.offset) = c
    BY SearchedFacts
  <1> QED BY <1>1

\* The probe starts at offset 0; without bytes there is nothing to probe.
LEMMA SearchBegins == ASSUME OInv, SInv, BeginProbe PROVE SInv'
  <1>1. /\ UNCHANGED assembled /\ pc = "assembled" /\ scan' = scan
        /\ needs_more' = (mode = "sequential" /\ bytes = <<>>)
        /\ pc' = IF mode = "single" \/ bytes = <<>> THEN "search"
                 ELSE IF Anchored THEN "probecandidate" ELSE "probe"
        /\ first_error' = first_error /\ inner' = inner /\ result' = result
    BY DEF BeginProbe
  <1>2. /\ scan = 0 /\ volumes \in VolumeSets /\ bytes \in Seq(Nat \X Nat)
        /\ mode \in {"sequential", "single"}
    BY <1>1 DEF OInv, Scanning, Typed, SInv, Ended
  <1>3. pc \notin AssemblyPcs \cup {"done"} /\ pc' \notin AssemblyPcs \cup {"done"}
        /\ pc' \in {"search", "probecandidate", "probe"} /\ pc \notin EndPcs
    BY <1>1 DEF AssemblyPcs, EndPcs
  <1>4. Outcomes'
    BY <1>1, <1>3 DEF SInv, Outcomes, EndPcs
  <1>5. \A c \in Searched : ~(c.offset < 0)
    BY <1>2, SearchedFacts
  <1>6. CandidateAt(scan)' = CandidateAt(scan)
    BY <1>1 DEF CandidateAt, assembled
  <1>7. pc' = "probecandidate" => CandidateAt(scan) \in Searched
    BY <1>1, <1>2 DEF Searched
  <1>8. bytes = <<>> => CutShort
    BY DEF CutShort
  <1>9. Probing'
    BY <1>1, <1>2, <1>5, <1>8, BytesAreFixed
       DEF Probing, ProbePcs, AfterProbe, Stages, HeaderPcs
  <1>10. inner' = "none"
    BY <1>1, <1>3 DEF SInv, Outcomes
  <1>11. Examining'
    BY <1>1, <1>2, <1>3, <1>5, <1>6, <1>7, <1>10, BytesAreFixed
       DEF Examining, CandidatePcs, Stages, HeaderPcs
  <1> QED BY <1>1, <1>3, <1>4, <1>9, <1>11, LaterStep

\* The two scans.
LEMMA ScanEndsKeeps == ASSUME OInv, SInv, ScanEnds PROVE SInv'
  <1>0. /\ pc \in {"probe", "search"} /\ (pc = "search" => ~Anchored) /\ scan > LastScanned
        /\ UNCHANGED assembled /\ first_error' = first_error
        /\ scan \in Nat /\ volumes \in VolumeSets /\ bytes \in Seq(Nat \X Nat)
    BY DEF ScanEnds, OInv, Typed
  <1>1. CASE pc = "probe"
    <2>1. /\ needs_more' = FALSE /\ scan' = 0 /\ pc' = "search"
          /\ inner' = inner /\ result' = result
      BY <1>1 DEF ScanEnds
    <2>2. /\ ~Anchored /\ bytes # <<>> /\ inner = "none" /\ result = "none"
          /\ \A c \in Searched : c.offset < scan => ~Credible(c)
      BY <1>1 DEF SInv, Probing, ProbePcs, Outcomes, EndPcs
    <2>3. ~CutShort
      <3>1. \A c \in Searched : ~Credible(c)
        BY <1>0, <2>2, ScannedAll
      <3> QED BY <2>2, <3>1 DEF CutShort, CredibleHeaders
    <2>4. Probing'
      BY <1>0, <2>1, <2>3, BytesAreFixed DEF Probing, ProbePcs
    <2>5. \A c \in Searched : ~(c.offset < 0)
      BY <1>0, SearchedFacts
    <2>6. Examining'
      BY <1>0, <2>1, <2>2, <2>5, BytesAreFixed
         DEF Examining, CandidatePcs, Stages, HeaderPcs
    <2>7. Outcomes'
      BY <1>0, <2>1, <2>2 DEF SInv, Outcomes
    <2> QED BY <1>0, <1>1, <2>1, <2>4, <2>6, <2>7, LaterStep DEF AssemblyPcs
  <1>2. CASE pc = "search"
    <2>1. /\ pc' = "verdict" /\ result' = result /\ needs_more' = needs_more
          /\ inner' = IF first_error = "none" THEN "Format" ELSE first_error
      BY <1>2 DEF ScanEnds, Returned
    <2>2. inner' \in ParserErrors
      BY <2>1 DEF SInv, Outcomes, ParserErrors
    <2> QED BY <1>0, <1>2, <2>1, <2>2, ReturnedError
  <1> QED BY <1>0, <1>1, <1>2

\* A window without a signature is passed over, one with it is examined.
LEMMA ScanWindowKeeps == ASSUME OInv, SInv, ScanWindow PROVE SInv'
  <1>0. /\ pc \in {"probe", "search"} /\ (pc = "search" => ~Anchored) /\ scan <= LastScanned
        /\ scan \in Nat /\ volumes \in VolumeSets /\ bytes \in Seq(Nat \X Nat)
    BY DEF ScanWindow, OInv, Typed
  <1>1. CASE CheckpointAborts(1)
    BY <1>0, <1>1, AbortKeeps DEF ProbePcs
  <1>2. CASE ~CheckpointAborts(1)
    <2>1. /\ UNCHANGED assembled /\ needs_more' = needs_more /\ first_error' = first_error
          /\ inner' = inner /\ result' = result
          /\ IF SignatureAt(scan)
             THEN pc' = (IF pc = "probe" THEN "probecandidate" ELSE "fixed") /\ scan' = scan
             ELSE scan' = scan + 1 /\ pc' = pc
      BY <1>2 DEF ScanWindow
    <2>2. inner = "none" /\ result = "none" /\ ~Anchored
      BY <1>0 DEF SInv, Outcomes, EndPcs, Probing
    <2>3. Outcomes'
      BY <1>0, <2>1, <2>2 DEF SInv, Outcomes
    <2>4. /\ pc = "probe" => /\ \A c \in Searched : c.offset < scan => ~Credible(c)
                             /\ mode = "sequential" /\ bytes # <<>>
          /\ pc = "search" => /\ \A c \in Searched : c.offset < scan => ~Complete(c)
                              /\ mode = "sequential" => (needs_more <=> CutShort)
      BY DEF SInv, Probing, Examining, ProbePcs, AfterProbe
    <2>5. CASE SignatureAt(scan)
      <3>1. CandidateAt(scan) \in Searched
        BY <1>0, <2>2, <2>5, MetIsSearched
      <3>2. CandidateAt(scan)' = CandidateAt(scan)
        BY <2>1, <2>5 DEF CandidateAt, assembled
      <3>3. Probing'
        BY <1>0, <2>1, <2>4, <2>5, BytesAreFixed
           DEF Probing, ProbePcs, AfterProbe, Stages, HeaderPcs
      <3>4. Examining'
        BY <1>0, <2>1, <2>2, <2>4, <2>5, <3>1, <3>2, BytesAreFixed
           DEF Examining, CandidatePcs, Stages, HeaderPcs
      <3> QED BY <1>0, <2>1, <2>3, <2>5, <3>3, <3>4, LaterStep DEF AssemblyPcs
    <2>6. CASE ~SignatureAt(scan)
      <3>1. ASSUME NEW c \in Searched, c.offset < scan + 1 PROVE c.offset < scan
        <4>1. c.offset # scan
          <5>1. c \in volumes.candidates /\ c.offset + SignatureSize <= Len(bytes)
            BY <1>0, <2>2, SearchedFacts DEF Searched
          <5> QED BY <2>6, <5>1 DEF SignatureAt
        <4> QED BY <1>0, <3>1, <4>1, OneMore
      <3>2. Probing'
        BY <1>0, <2>1, <2>2, <2>4, <2>6, <3>1, BytesAreFixed
           DEF Probing, ProbePcs, AfterProbe, Stages, HeaderPcs
      <3>3. Examining'
        BY <1>0, <2>1, <2>2, <2>4, <2>6, <3>1, BytesAreFixed
           DEF Examining, CandidatePcs, Stages, HeaderPcs
      <3> QED BY <1>0, <2>1, <2>3, <2>6, <3>2, <3>3, LaterStep DEF AssemblyPcs
    <2> QED BY <2>5, <2>6
  <1> QED BY <1>1, <1>2

\* A signature at offset 0 is the only one searched.
LEMMA SearchAnchoredKeeps == ASSUME OInv, SInv, SearchAnchored PROVE SInv'
  <1>1. /\ UNCHANGED assembled /\ pc = "search" /\ Anchored /\ pc' = "fixed" /\ scan' = scan
        /\ needs_more' = needs_more /\ first_error' = first_error
        /\ inner' = inner /\ result' = result
    BY DEF SearchAnchored, searchVars
  <1>2. scan = 0 /\ inner = "none" /\ result = "none" /\ volumes \in VolumeSets
    BY <1>1 DEF OInv, Scanning, Typed, SInv, Outcomes, EndPcs
  <1>3. CandidateAt(scan) \in Searched /\ CandidateAt(scan)' = CandidateAt(scan)
    BY <1>1, <1>2 DEF Searched, CandidateAt, assembled
  <1>4. Outcomes'
    BY <1>1, <1>2 DEF SInv, Outcomes
  <1>5. Probing'
    BY <1>1, BytesAreFixed DEF SInv, Probing, ProbePcs, AfterProbe, Stages
  <1>6. \A c \in Searched : c.offset < scan => ~Complete(c)
    BY <1>1 DEF SInv, Examining
  <1>7. Examining'
    BY <1>1, <1>2, <1>3, <1>6, BytesAreFixed DEF Examining, CandidatePcs, Stages, HeaderPcs
  <1> QED BY <1>1, <1>4, <1>5, <1>7, LaterStep DEF AssemblyPcs

-----------------------------------------------------------------------------
(***************************************************************************)
(* The probe's candidate: the first one that is credible decides, and what *)
(* it decides is whether the bytes are cut short.                          *)
(***************************************************************************)
LEMMA ProbeFacts ==
    ASSUME OInv, SInv, pc = "probecandidate"
    PROVE  LET c == CandidateAt(scan)
           IN  /\ c \in Searched /\ IsCandidate(c)
               /\ c.next_size \in Nat /\ FixedEnd(c) \in Nat /\ Required(c) \in Nat
               /\ FixedEnd(c) <= Required(c)
               /\ bytes # <<>> /\ Len(bytes) \in Nat
               /\ Credible(c) => /\ CredibleHeaders # {} /\ First(CredibleHeaders) = c
                                 /\ CutShort <=> Required(c) > Len(bytes)
               /\ Anchored /\ ~Credible(c) => ~CutShort
  <1> DEFINE c == CandidateAt(scan)
  <1>1. /\ volumes \in VolumeSets /\ scan \in Nat /\ bytes \in Seq(Nat \X Nat)
        /\ c \in Searched /\ bytes # <<>>
        /\ \A d \in Searched : d.offset < scan => ~Credible(d)
    BY DEF OInv, Typed, SInv, Examining, Probing, ProbePcs, CandidatePcs
  <1>2. \E d \in volumes.candidates : d.offset = scan
    BY DEF OInv, Scanning, CandidatePcs
  <1>3. c.offset = scan /\ c \in volumes.candidates
    BY <1>2 DEF CandidateAt
  <1>4. Searched \subseteq volumes.candidates
    BY <1>1, SearchedFacts
  <1>5. /\ IsCandidate(c) /\ c.next_size \in Nat /\ FixedEnd(c) \in Nat /\ Required(c) \in Nat
        /\ FixedEnd(c) <= Required(c)
    BY <1>1, <1>3, SearchedFacts
  <1>6. Len(bytes) \in Nat
    BY <1>1
  <1> HIDE DEF c
  <1>7. ASSUME Credible(c)
        PROVE  /\ CredibleHeaders # {} /\ First(CredibleHeaders) = c
               /\ CutShort <=> Required(c) > Len(bytes)
    <2> DEFINE S == CredibleHeaders
    <2>1. c \in S /\ S \in SUBSET volumes.candidates
      BY <1>1, <1>4, <1>7 DEF CredibleHeaders
    <2>2. \A d \in S : ~(d.offset < c.offset)
      BY <1>1, <1>3 DEF CredibleHeaders
    <2>3. First(S) = c
      <3> HIDE DEF S
      <3> QED BY <1>1, <2>1, <2>2, FirstIs
    <2> QED BY <1>1, <2>1, <2>3 DEF CutShort
  <1>8. Anchored /\ ~Credible(c) => ~CutShort
    <2> SUFFICES ASSUME Anchored, ~Credible(c) PROVE ~CutShort
      OBVIOUS
    <2>1. \A d \in Searched : d = c
      BY <1>1 DEF Searched
    <2>2. CredibleHeaders = {}
      BY <2>1 DEF CredibleHeaders
    <2> QED BY <1>1, <2>2 DEF CutShort
  <1> QED BY <1>1, <1>5, <1>6, <1>7, <1>8 DEF c

\* The probe answers, and the search begins.
LEMMA ProbeAnswers ==
    ASSUME OInv, SInv, pc = "probecandidate", UNCHANGED assembled, first_error' = first_error,
           inner' = inner, result' = result, pc' = "search", scan' = 0,
           needs_more' \in BOOLEAN, needs_more' <=> CutShort
    PROVE  SInv'
  <1>1. inner = "none" /\ result = "none" /\ volumes \in VolumeSets
    BY DEF SInv, Outcomes, EndPcs, OInv, Typed
  <1>2. Outcomes'
    BY <1>1 DEF SInv, Outcomes
  <1>3. Probing'
    BY BytesAreFixed DEF Probing, ProbePcs
  <1>4. \A d \in Searched : ~(d.offset < 0)
    BY <1>1, SearchedFacts
  <1>5. Examining'
    BY <1>1, <1>4, BytesAreFixed DEF Examining, CandidatePcs, Stages, HeaderPcs
  <1> QED BY <1>2, <1>3, <1>5, LaterStep DEF AssemblyPcs

\* Each answer of the probe to its candidate.
LEMMA ProbeKeeps == ASSUME OInv, SInv, ProbeCandidate PROVE SInv'
  <1> DEFINE c == CandidateAt(scan)
  <1>0. pc = "probecandidate" /\ UNCHANGED assembled /\ first_error' = first_error
    BY DEF ProbeCandidate, CheckpointAborts, searchVars
  <1>1. /\ c \in Searched /\ IsCandidate(c)
        /\ c.next_size \in Nat /\ FixedEnd(c) \in Nat /\ Required(c) \in Nat
        /\ FixedEnd(c) <= Required(c)
        /\ bytes # <<>> /\ Len(bytes) \in Nat
        /\ Credible(c) => /\ CredibleHeaders # {} /\ First(CredibleHeaders) = c
                          /\ CutShort <=> Required(c) > Len(bytes)
        /\ Anchored /\ ~Credible(c) => ~CutShort
    BY <1>0, ProbeFacts
  <1>2. pc \in ProbePcs /\ volumes \in VolumeSets /\ scan \in Nat
    BY <1>0 DEF ProbePcs, OInv, Typed
  <1>3. CASE FixedEnd(c) > Len(bytes)
    <2>1. needs_more' = TRUE /\ scan' = 0 /\ pc' = "search" /\ result' = result /\ inner' = inner
      BY <1>1, <1>3 DEF ProbeCandidate, ProbeDecides
    <2>2. CutShort
      <3>1. Required(c) > Len(bytes) /\ Credible(c)
        BY <1>1, <1>3 DEF Credible
      <3> QED BY <1>1, <3>1
    <2> QED BY <1>0, <2>1, <2>2, ProbeAnswers
  <1>4. CASE CheckpointAborts(StartHeaderSize)
    BY <1>2, <1>4, AbortKeeps
  <1>5. CASE ~(FixedEnd(c) > Len(bytes)) /\ ~CheckpointAborts(StartHeaderSize)
    <2>1. CASE c.start = "Checksum"
      <3>1. ~Credible(c)
        BY <1>5, <2>1 DEF Credible
      <3>2. CASE Anchored
        <4>1. needs_more' = FALSE /\ scan' = 0 /\ pc' = "search" /\ result' = result /\ inner' = inner
          BY <1>5, <2>1, <3>2 DEF ProbeCandidate, ProbeDecides
        <4> QED BY <1>0, <1>1, <3>1, <3>2, <4>1, ProbeAnswers
      <3>3. CASE ~Anchored
        <4>1. scan' = scan + 1 /\ pc' = "probe" /\ result' = result /\ inner' = inner
              /\ needs_more' = needs_more
          BY <1>5, <2>1, <3>3 DEF ProbeCandidate
        <4>2. /\ mode = "sequential" /\ bytes # <<>> /\ inner = "none" /\ result = "none"
              /\ \A d \in Searched : d.offset < scan => ~Credible(d)
          BY <1>0 DEF SInv, Probing, ProbePcs, Outcomes, EndPcs
        <4>3. \A d \in Searched : d.offset < scan + 1 => ~Credible(d)
          BY <1>2, <3>1, <4>2, OneMore
        <4>4. Probing'
          BY <1>0, <3>3, <4>1, <4>2, <4>3, BytesAreFixed
             DEF Probing, ProbePcs, AfterProbe, Stages, HeaderPcs
        <4>5. Examining'
          BY <4>1, <4>2 DEF Examining, CandidatePcs, Stages, HeaderPcs
        <4>6. Outcomes'
          BY <1>0, <4>1, <4>2 DEF SInv, Outcomes
        <4> QED BY <1>0, <4>1, <4>4, <4>5, <4>6, LaterStep DEF AssemblyPcs
      <3> QED BY <3>2, <3>3
    <2>2. CASE c.start # "Checksum"
      <3>1. Credible(c)
        BY <2>2 DEF Credible
      <3>2. Measurable <=> c.next_size <= MaxHeader /\ Required(c) <= U64Max
        BY <1>1, <1>5, <3>1 DEF Measurable
      <3>3. MaxHeader \in Nat /\ U64Max \in Nat
        BY OpenAssumption, U64MaxAssumption
      <3>4. CASE c.next_size > MaxHeader
        <4>1. ~Measurable
          BY <1>1, <3>2, <3>3, <3>4
        <4>2. pc' = "done" /\ result' = "HeaderBytes" /\ inner' = inner
          <5>1. ~(c.next_size <= MaxHeader)
            BY <1>1, <3>3, <3>4
          <5> QED BY <1>0, <1>5, <2>2, <5>1 DEF ProbeCandidate, Abort, Fail
        <4> QED BY <1>0, <1>2, <4>1, <4>2, ProbeError
      <3>5. CASE ~(c.next_size > MaxHeader) /\ Required(c) > U64Max
        <4>1. ~Measurable
          BY <1>1, <3>2, <3>3, <3>5
        <4>2. pc' = "done" /\ result' = "Format" /\ inner' = inner
          <5>1. ~(Required(c) <= U64Max)
            BY <1>1, <3>3, <3>5
          <5> QED BY <1>0, <1>5, <2>2, <3>5, <5>1 DEF ProbeCandidate, Abort, Fail
        <4> QED BY <1>0, <1>2, <4>1, <4>2, ProbeError
      <3>6. CASE ~(c.next_size > MaxHeader) /\ ~(Required(c) > U64Max)
        <4>1. /\ needs_more' = DeclaresMore(c) /\ scan' = 0 /\ pc' = "search"
              /\ result' = result /\ inner' = inner
          BY <1>1, <3>3, <1>5, <2>2, <3>6 DEF ProbeCandidate, ProbeDecides
        <4>2. needs_more' \in BOOLEAN /\ (needs_more' <=> CutShort)
          <5>1. CutShort <=> Required(c) > Len(bytes)
            BY <1>1, <3>1
          <5>2. needs_more' = (Required(c) > Len(bytes))
            BY <4>1 DEF DeclaresMore
          <5> DEFINE more == Required(c) > Len(bytes)
          <5>3. more \in BOOLEAN
            BY <1>1
          <5> HIDE DEF more
          <5>4. CutShort <=> more
            BY <5>1 DEF more
          <5>5. needs_more' = more
            BY <5>2 DEF more
          <5> QED BY <5>3, <5>4, <5>5
        <4> QED BY <1>0, <4>1, <4>2, ProbeAnswers
      <3> QED BY <3>4, <3>5, <3>6
    <2> QED BY <2>1, <2>2
  <1> QED BY <1>3, <1>4, <1>5

-----------------------------------------------------------------------------
\* A stage that does not pass shows that the candidate is not complete; the
\* errors it gives are the parser's.
LEMMA StageFails ==
    ASSUME OInv, SInv, pc \in Stages, StageVerdict(CandidateAt(scan)) # "Ok"
    PROVE  /\ ~Complete(CandidateAt(scan))
           /\ StageVerdict(CandidateAt(scan)) \in ParserErrors
  <1> DEFINE c == CandidateAt(scan)
  <1>1. c \in Searched /\ volumes \in VolumeSets /\ Len(bytes) \in Nat
    BY DEF SInv, Examining, CandidatePcs, OInv, Typed
  <1>2. /\ IsCandidate(c) /\ c.next_size \in Nat /\ FixedEnd(c) \in Nat /\ Required(c) \in Nat
        /\ FixedEnd(c) <= Required(c) /\ MaxHeader \in Nat
    BY <1>1, SearchedFacts, OpenAssumption
  <1>3. /\ c.start \in {"Ok", "Checksum", "Unsupported"} /\ c.next \in {"Ok", "Checksum", "Format"}
        /\ c.body \in {"Ok", "Format", "Unsupported"}
    BY <1>2 DEF IsCandidate
  <1> HIDE DEF c
  <1>4. /\ ~Complete(c) /\ StageVerdict(c) \in ParserErrors
    <2>0. StageVerdict(c) # "Ok"
      BY DEF c
    <2>1. CASE pc = "fixed"
      BY <1>1, <1>2, <2>0, <2>1 DEF StageVerdict, Complete, ParserErrors
    <2>2. CASE pc = "start"
      BY <1>1, <1>2, <1>3, <2>0, <2>2 DEF StageVerdict, Complete, ParserErrors
    <2>3. CASE pc = "next"
      BY <1>3, <2>0, <2>3 DEF StageVerdict, Complete, ParserErrors
    <2>4. CASE pc = "body"
      BY <1>3, <2>0, <2>4 DEF StageVerdict, Complete, ParserErrors
    <2> QED BY <2>1, <2>2, <2>3, <2>4 DEF Stages
  <1> QED BY <1>4 DEF c

\* A stage passed adds what it checked; a stage failed rules the candidate
\* out.
LEMMA StageKeeps == ASSUME OInv, SInv, CandidateStage PROVE SInv'
  <1> DEFINE c == CandidateAt(scan)
             verdict == StageVerdict(c)
  <1>0. /\ pc \in Stages /\ volumes \in VolumeSets /\ scan \in Nat /\ Len(bytes) \in Nat
        /\ c \in Searched
        /\ \A d \in Searched : d.offset < scan => ~Complete(d)
        /\ inner = "none" /\ result = "none"
        /\ mode = "sequential" => (needs_more <=> CutShort)
    BY
       DEF CandidateStage, OInv, Typed, SInv, Examining, CandidatePcs, Outcomes, EndPcs, Stages,
           Probing, AfterProbe
  <1>1. CASE CheckpointAborts(StageCost(c))
    BY <1>0, <1>1, AbortKeeps
  <1>2. CASE ~CheckpointAborts(StageCost(c))
    <2>1. UNCHANGED assembled
      BY <1>2 DEF CandidateStage
    <2>2. CASE verdict = "Ok"
      <3>1. /\ pc' = NextStage /\ scan' = scan /\ needs_more' = needs_more
            /\ first_error' = first_error /\ inner' = inner /\ result' = result
        BY <1>2, <2>2 DEF CandidateStage, searchVars
      <3>2. pc' \in {"start", "next", "body", "header"}
        BY <1>0, <3>1 DEF NextStage, Stages
      <3>3. c' = c
        BY <2>1, <3>1 DEF CandidateAt, assembled
      <3>4. Required(c)' = Required(c)
        BY <3>3 DEF Required, FixedEnd
      <3>5. c.next_size \in Nat /\ Required(c) \in Nat /\ MaxHeader \in Nat
        BY <1>0, SearchedFacts, OpenAssumption
      <3>6. /\ pc \in {"next", "body"} => /\ c.start = "Ok" /\ c.next_size <= MaxHeader
                                          /\ Required(c) <= Len(bytes)
            /\ pc = "body" => c.next = "Ok"
        BY DEF SInv, Examining
      <3> HIDE DEF c
      <3>7. /\ pc' \in {"next", "body", "header"} =>
                   c.start = "Ok" /\ c.next_size <= MaxHeader /\ Required(c) <= Len(bytes)
            /\ pc' \in {"body", "header"} => c.next = "Ok"
            /\ pc' = "header" => c.body = "Ok"
        <4>1. CASE pc = "fixed"
          BY <3>1, <4>1 DEF NextStage
        <4>2. CASE pc = "start"
          BY <1>0, <2>2, <3>1, <3>5, <4>2 DEF NextStage, StageVerdict
        <4>3. CASE pc = "next"
          BY <2>2, <3>1, <3>6, <4>3 DEF NextStage, StageVerdict
        <4>4. CASE pc = "body"
          BY <2>2, <3>1, <3>6, <4>4 DEF NextStage, StageVerdict
        <4> QED BY <1>0, <4>1, <4>2, <4>3, <4>4 DEF Stages
      <3>8. pc' = "header" => Complete(c)
        BY <3>7 DEF Complete
      <3>9. Outcomes'
        BY <1>0, <3>1, <3>2 DEF SInv, Outcomes
      <3>10. Probing'
        BY <1>0, <2>1, <3>1, <3>2, BytesAreFixed DEF Probing, ProbePcs
      <3>11. Examining'
        <4>1. /\ Searched' = Searched /\ bytes' = bytes
              /\ \A d : Complete(d)' <=> Complete(d)
          BY <2>1, BytesAreFixed
        <4>2. pc' = "header" => Complete(c)'
          BY <3>3, <3>8, <4>1 
        <4> QED BY <1>0, <3>1, <3>2, <3>3, <3>4, <3>7, <4>1, <4>2
                DEF Examining, CandidatePcs, Stages, HeaderPcs, c
      <3> QED BY <1>0, <2>1, <3>2, <3>9, <3>10, <3>11, LaterStep DEF AssemblyPcs, Stages
    <2>3. CASE verdict # "Ok" /\ Anchored
      <3>1. /\ inner' = verdict /\ pc' = "verdict" /\ result' = result
            /\ needs_more' = needs_more /\ first_error' = first_error
        BY <1>2, <2>3 DEF CandidateStage, Returned, searchVars
      <3>2. verdict \in ParserErrors
        BY <1>0, <2>3, StageFails
      <3> HIDE DEF verdict
      <3> QED BY <1>0, <2>1, <3>1, <3>2, ReturnedError
    <2>4. CASE verdict # "Ok" /\ ~Anchored
      <3>1. /\ first_error' = IF first_error = "none" THEN verdict ELSE first_error
            /\ scan' = scan + 1 /\ pc' = "search" /\ needs_more' = needs_more
            /\ inner' = inner /\ result' = result
        BY <1>2, <2>4 DEF CandidateStage
      <3>2. verdict \in ParserErrors /\ ~Complete(c)
        BY <1>0, <2>4, StageFails
      <3>3. \A d \in Searched : d.offset < scan + 1 => ~Complete(d)
        BY <1>0, <3>2, OneMore
      <3> HIDE DEF verdict
      <3>4. Outcomes'
        BY <1>0, <3>1, <3>2 DEF SInv, Outcomes
      <3>5. Probing'
        BY <1>0, <2>1, <3>1, BytesAreFixed DEF Probing, ProbePcs
      <3>6. Examining'
        BY <1>0, <2>1, <3>1, <3>3, BytesAreFixed
           DEF Examining, CandidatePcs, Stages, HeaderPcs
      <3> QED BY <1>0, <2>1, <3>1, <3>4, <3>5, <3>6, LaterStep DEF AssemblyPcs, Stages
    <2> QED BY <2>2, <2>3, <2>4
  <1> QED BY <1>1, <1>2

-----------------------------------------------------------------------------
\* Header resolution goes on, at the candidate the search has found.
LEMMA HeaderGoesOn ==
    ASSUME OInv, SInv, pc \in HeaderPcs, pc' \in HeaderPcs, UNCHANGED assembled,
           UNCHANGED searchVars, inner' = inner, result' = result
    PROVE  SInv'
  <1>1. /\ needs_more' = needs_more /\ scan' = scan /\ first_error' = first_error
        /\ inner = "none" /\ result = "none"
    BY DEF searchVars, SInv, Outcomes, EndPcs, HeaderPcs
  <1>2. Outcomes'
    BY <1>1 DEF SInv, Outcomes, HeaderPcs
  <1>3. Probing'
    BY <1>1, BytesAreFixed DEF SInv, Probing, ProbePcs, AfterProbe, HeaderPcs, Stages
  <1>4. CandidateAt(scan)' = CandidateAt(scan)
    BY <1>1 DEF CandidateAt, assembled
  <1>5. /\ CandidateAt(scan) \in Searched /\ Complete(CandidateAt(scan))
        /\ \A c \in Searched : c.offset < scan => ~Complete(c)
    BY DEF SInv, Examining
  <1>6. /\ CandidateAt(scan)' \in Searched' /\ Complete(CandidateAt(scan))'
        /\ \A c \in Searched' : c.offset < scan' => ~Complete(c)'
    <2>1. Searched' = Searched /\ \A c : Complete(c)' <=> Complete(c)
      BY BytesAreFixed
    <2>2. Complete(CandidateAt(scan))'
      BY <1>4, <1>5, <2>1
    <2> QED BY <1>1, <1>4, <1>5, <2>1, <2>2
  <1>7. Examining'
    BY <1>1, <1>6 DEF Examining, CandidatePcs, Stages, HeaderPcs
  <1> QED BY <1>2, <1>3, <1>7, LaterStep DEF AssemblyPcs, HeaderPcs

\* The archive is opened: the found candidate is the first complete one.
LEMMA FoundIsFirst ==
    ASSUME OInv, SInv, pc \in HeaderPcs
    PROVE  LET found == {c \in Searched : Complete(c)}
           IN  found # {} /\ scan = First(found).offset
  <1> DEFINE found == {c \in Searched : Complete(c)}
             c     == CandidateAt(scan)
  <1>1. /\ c \in Searched /\ Complete(c) /\ volumes \in VolumeSets
        /\ \A d \in Searched : d.offset < scan => ~Complete(d)
    BY DEF SInv, Examining, OInv, Typed
  <1>2. \E d \in volumes.candidates : d.offset = scan
    BY DEF OInv, Scanning
  <1>3. c.offset = scan
    BY <1>2 DEF CandidateAt
  <1>4. Searched \subseteq volumes.candidates
    BY <1>1, SearchedFacts
  <1> HIDE DEF c
  <1>5. found \in SUBSET volumes.candidates /\ c \in found
        /\ \A d \in found : ~(d.offset < c.offset)
    BY <1>1, <1>3, <1>4
  <1>6. First(found) = c
    <2> HIDE DEF found
    <2> QED BY <1>1, <1>5, FirstIs
  <1> QED BY <1>3, <1>5, <1>6

\* A layer is entered, or refused with an error of the parser.
LEMMA EnterLayerKeeps == ASSUME OInv, SInv, EnterLayer PROVE SInv'
  <1>1. pc = "header" /\ UNCHANGED assembled /\ UNCHANGED searchVars
    BY DEF EnterLayer
  <1>2. CASE LayerRefusal # "Ok"
    <2>1. inner' = LayerRefusal /\ pc' = "verdict" /\ result' = result
      BY <1>2 DEF EnterLayer, Returned
    <2>2. LayerRefusal \in ParserErrors
      BY <1>2 DEF LayerRefusal, Mapped, ParserErrors
    <2> HIDE DEF LayerRefusal
    <2> QED BY <1>1, <2>1, <2>2, ReturnedError DEF searchVars, HeaderPcs
  <1>3. CASE LayerRefusal = "Ok"
    <2>1. pc' = "headerfolder" /\ inner' = inner /\ result' = result
      BY <1>3 DEF EnterLayer
    <2> QED BY <1>1, <2>1, HeaderGoesOn DEF HeaderPcs
  <1> QED BY <1>2, <1>3

\* What a layer's decoding and parsing may report.
LEMMA LayerErrors ==
    ASSUME OInv, pc \in HeaderPcs
    PROVE  /\ Current.decode \in {"Ok", "Checksum", "PasswordRequired"}
           /\ Current.parse \in {"Ok", "Format"}
  <1>1. /\ volumes \in VolumeSets /\ \E c \in volumes.candidates : c.offset = scan
        /\ layer \in 1..Len(Layers)
    BY DEF OInv, Typed, Scanning, Resolving
  <1>2. DOMAIN Layers = 1..Len(Layers) /\ \A i \in DOMAIN Layers : IsLayer(Layers[i])
    BY <1>1, CandidateFacts DEF Layers
  <1>3. IsLayer(Current)
    BY <1>1, <1>2 DEF Current
  <1> QED BY <1>3 DEF IsLayer

\* A folder of a layer is decoded, or fails with an error of the parser.
LEMMA DecodeFolderKeeps == ASSUME OInv, SInv, DecodeHeaderFolder PROVE SInv'
  <1>1. pc = "headerfolder" /\ pc \in HeaderPcs
    BY DEF DecodeHeaderFolder, HeaderPcs
  <1>2. CASE CheckpointAborts(1)
    BY <1>1, <1>2, AbortKeeps
  <1>3. CASE ~CheckpointAborts(1)
    <2>1. UNCHANGED assembled /\ UNCHANGED searchVars
      BY <1>3 DEF DecodeHeaderFolder
    <2>2. CASE FolderVerdict = "Ok"
      <3>1. pc' = pc /\ inner' = inner /\ result' = result
        BY <1>3, <2>2 DEF DecodeHeaderFolder
      <3> QED BY <1>1, <2>1, <3>1, HeaderGoesOn
    <2>3. CASE FolderVerdict # "Ok"
      <3>1. inner' = FolderVerdict /\ pc' = "verdict" /\ result' = result
        BY <1>3, <2>3 DEF DecodeHeaderFolder, Returned
      <3>2. FolderVerdict \in ParserErrors
        <4>1. Current.decode \in {"Ok", "Checksum", "PasswordRequired"}
          BY <1>1, LayerErrors
        <4> QED BY <2>3, <4>1 DEF FolderVerdict, Mapped, ParserErrors
      <3> HIDE DEF FolderVerdict
      <3> QED BY <1>1, <2>1, <3>1, <3>2, ReturnedError DEF searchVars
    <2> QED BY <2>2, <2>3
  <1> QED BY <1>2, <1>3

\* The last layer opens the archive, at the candidate that was found.
LEMMA FinishLayerKeeps == ASSUME OInv, SInv, FinishLayer PROVE SInv'
  <1>1. /\ pc = "headerfolder" /\ pc \in HeaderPcs /\ UNCHANGED assembled
        /\ needs_more' = needs_more /\ scan' = scan /\ first_error' = first_error
    BY DEF FinishLayer, HeaderPcs, searchVars
  <1>2. CASE pc' = "header"
    <2>1. inner' = inner /\ result' = result /\ UNCHANGED searchVars
      BY <1>2 DEF FinishLayer, Returned
    <2> QED BY <1>1, <1>2, <2>1, HeaderGoesOn DEF HeaderPcs
  <1>3. CASE inner' \in ParserErrors /\ pc' = "verdict" /\ result' = result
    BY <1>1, <1>3, ReturnedError
  <1>4. CASE /\ Current.kind # "encoded" /\ layer' = layer
             /\ inner' = "Ok" /\ pc' = "verdict" /\ result' = result
    <2>1. layer = Len(Layers)
      <3>1. /\ volumes \in VolumeSets /\ \E c \in volumes.candidates : c.offset = scan
            /\ layer \in 1..Len(Layers)
        BY <1>1 DEF OInv, Typed, Scanning, Resolving
      <3>2. /\ Len(Layers) \in Nat /\ DOMAIN Layers = 1..Len(Layers)
            /\ (layer < Len(Layers)) = (Current.kind = "encoded")
        BY <3>1, CandidateFacts DEF Layers, Current
      <3>3. ~(layer < Len(Layers))
        BY <1>4, <3>2
      <3>4. \A n \in Nat : \A l \in 1..n : ~(l < n) => l = n
        OBVIOUS
      <3>5. Len(Layers) \in Nat
        BY <3>2
      <3> QED BY <3>1, <3>3, <3>4, <3>5
    <2>2. LET found == {c \in Searched : Complete(c)}
          IN  found # {} /\ scan = First(found).offset
      BY <1>1, FoundIsFirst
    <2>3. /\ Searched' = Searched
          /\ \A c : Complete(c)' <=> Complete(c)
          /\ Layers' = Layers /\ (CutShort' <=> CutShort)
          /\ mode' = mode
      BY <1>1, BytesAreFixed DEF Layers, CandidateAt, assembled
    <2>4. Opened'
      <3>1. {c \in Searched : Complete(c)}' = {c \in Searched : Complete(c)}
        BY <2>3
      <3>2. First({c \in Searched : Complete(c)})' = First({c \in Searched : Complete(c)})
        BY <3>1 DEF First
      <3> QED BY <1>1, <1>4, <2>1, <2>2, <2>3, <3>1, <3>2 DEF Opened
    <2>5. Examining'
      BY <1>4, <2>4 DEF Examining, CandidatePcs, Stages, HeaderPcs
    <2>6. Outcomes'
      BY <1>1, <1>4 DEF SInv, Outcomes, EndPcs
    <2>7. Probing'
      BY <1>1, <1>4, <2>3 DEF SInv, Probing, ProbePcs, AfterProbe, HeaderPcs
    <2> QED BY <1>1, <1>4, <2>5, <2>6, <2>7, LaterStep DEF AssemblyPcs, HeaderPcs
  <1>5. \/ pc' = "header"
        \/ inner' \in ParserErrors /\ pc' = "verdict" /\ result' = result
        \/ /\ Current.kind # "encoded" /\ layer' = layer
           /\ inner' = "Ok" /\ pc' = "verdict" /\ result' = result
    <2>1. Current.parse # "Ok" => Mapped(Current.parse, Current.encrypted) \in ParserErrors
      BY <1>1, LayerErrors DEF Mapped, ParserErrors
    <2>2. "TotalOutputBytes" \in ParserErrors
      BY DEF ParserErrors
    <2> QED BY <2>1, <2>2 DEF FinishLayer, Returned
  <1> QED BY <1>2, <1>3, <1>4, <1>5

(***************************************************************************)
(* The end of open_volumes_inner.                                          *)
(***************************************************************************)
LEMMA ConcludeKeeps == ASSUME OInv, SInv, Conclude PROVE SInv'
  <1>1. /\ pc = "verdict" /\ pc' = "done" /\ result' = Verdict /\ UNCHANGED assembled
        /\ needs_more' = needs_more /\ scan' = scan /\ first_error' = first_error
        /\ layer' = layer /\ inner' = inner
    BY DEF Conclude, Fail, searchVars, headerVars
  <1>2. Ended' /\ Copying'
    BY <1>1, AssemblyKept DEF AssemblyPcs
  <1>3. Outcomes'
    BY <1>1 DEF SInv, Outcomes, EndPcs
  <1>4. Probing'
    BY <1>1 DEF Probing, ProbePcs, AfterProbe, Stages, HeaderPcs
  <1>5. /\ Searched' = Searched
        /\ \A c : Complete(c)' <=> Complete(c)
        /\ Layers' = Layers /\ (CutShort' <=> CutShort) /\ (Measurable' <=> Measurable)
        /\ mode' = mode /\ volumes' = volumes /\ index' = index /\ opens' = opens
        /\ termination' = termination
    BY <1>1, BytesAreFixed DEF Layers, CandidateAt, assembled
  <1>6. Opened' <=> Opened
    <2>1. {c \in Searched : Complete(c)}' = {c \in Searched : Complete(c)}
      BY <1>5
    <2>2. First({c \in Searched : Complete(c)})' = First({c \in Searched : Complete(c)})
      BY <2>1 DEF First
    <2> QED BY <1>1, <1>5, <2>1, <2>2 DEF Opened
  <1>7. Examining'
    BY <1>1, <1>6 DEF SInv, Examining, CandidatePcs, Stages, HeaderPcs
  <1>8. /\ inner = "Ok" => Opened
        /\ inner \in ParserErrors \cup StopErrors \cup {"none", "Ok"}
        /\ mode = "sequential" => (needs_more <=> CutShort) /\ termination \in {"Missing", "Limit"}
        /\ mode \in {"sequential", "single"}
        /\ termination = "Missing" => /\ mode = "sequential" /\ index = Len(volumes.parts)
                                      /\ Len(opens) = index + 1
        /\ termination = "Limit" => index = MaxVolumes
    BY <1>1 DEF SInv, Examining, Outcomes, Probing, AfterProbe, Ended, AssemblyPcs
  <1>9. OpenedIsComplete'
    <2> SUFFICES ASSUME result' = "Ok" PROVE OpenedIsComplete'
      BY DEF OpenedIsComplete
    <2>1. inner = "Ok"
      BY <1>1 DEF Verdict
    <2>2. Opened'
      BY <1>6, <1>8, <2>1
    <2> QED BY <1>5, <1>8, <2>2 DEF OpenedIsComplete, Opened
  <1>10. MissingIsRequired'
    <2>1. ASSUME result' = "MissingVolume"
          PROVE  /\ opens' # <<>> /\ opens'[Len(opens')] = index' /\ index' >= Len(volumes'.parts)
                 /\ mode' = "sequential" => CutShort'
      <3>1. mode = "sequential" /\ needs_more /\ termination = "Missing"
        BY <1>1, <1>8, <2>1 DEF Verdict, ParserErrors, StopErrors
      <3>2. index \in Nat /\ opens \in Seq(Nat) /\ volumes \in VolumeSets
        BY DEF OInv, Typed
      <3>3. opens # <<>> /\ opens[index + 1] = index
        <4>1. Len(opens) = index + 1
          BY <1>8, <3>1
        <4>2. \A i \in 1..Len(opens) : opens[i] = i - 1
          BY DEF SInv, Copying
        <4>3. index + 1 \in 1..Len(opens) /\ (index + 1) - 1 = index
          BY <3>2, <4>1
        <4> QED BY <4>1, <4>2, <4>3, <3>2
      <3>4. Len(volumes.parts) \in Nat
        BY <3>2, LengthsOfParts
      <3> QED BY <1>5, <1>8, <3>1, <3>2, <3>3, <3>4
    <2>2. ASSUME termination' = "Missing", CutShort'
          PROVE  result' \in {"Ok", "MissingVolume", "Cancelled", "WorkUnits"}
      <3>1. mode = "sequential" /\ needs_more /\ termination = "Missing"
        BY <1>5, <1>8, <2>2
      <3> QED BY <1>1, <3>1 DEF Verdict
    <2> QED BY <2>1, <2>2 DEF MissingIsRequired
  <1> QED BY <1>2, <1>3, <1>4, <1>7, <1>9, <1>10 DEF SInv

\* A set token and a stuttering step change nothing the invariant speaks of.
LEMMA QuietKeeps == ASSUME SInv, Cancel \/ UNCHANGED vars PROVE SInv'
  <1>1. /\ UNCHANGED <<volumes, mode, pc, index, bytes, remaining, position, termination,
                       result, opens, needs_more, scan, first_error, layer, inner>>
    BY DEF Cancel, vars, assemblyVars, searchVars, headerVars
  <1>2. Outcomes' /\ Ended'
    BY <1>1 DEF SInv, Outcomes, Ended
  <1>3. Copying'
    <2>1. Part' = Part
      BY <1>1 DEF Part
    <2>2. Partial' = Partial
      BY <1>1, <2>1 DEF Partial
    <2> QED BY <1>1, <2>1, <2>2 DEF SInv, Copying
  <1>4. Anchored' <=> Anchored
    BY <1>1 DEF Anchored, SignatureAt
  <1>5. CandidateAt(0)' = CandidateAt(0) /\ CandidateAt(scan)' = CandidateAt(scan)
    BY <1>1 DEF CandidateAt
  <1>6. Searched' = Searched
    BY <1>1, <1>4, <1>5 DEF Searched
  <1>7. /\ \A c : Complete(c)' <=> Complete(c)
        /\ \A c : Credible(c)' <=> Credible(c)
    BY <1>1 DEF Complete, Credible
  <1>8. CredibleHeaders' = CredibleHeaders
    BY <1>6, <1>7 DEF CredibleHeaders
  <1>9. First(CredibleHeaders)' = First(CredibleHeaders)
    BY <1>8 DEF First
  <1>10. (CutShort' <=> CutShort) /\ (Measurable' <=> Measurable)
    BY <1>1, <1>8, <1>9 DEF CutShort, Measurable, Required, FixedEnd
  <1>11. Layers' = Layers
    BY <1>5 DEF Layers
  <1>12. {c \in Searched : Complete(c)}' = {c \in Searched : Complete(c)}
    BY <1>6, <1>7
  <1>13. First({c \in Searched : Complete(c)})' = First({c \in Searched : Complete(c)})
    BY <1>12 DEF First
  <1>14. (Opened' <=> Opened) /\ (OpenedIsComplete' <=> OpenedIsComplete)
    BY <1>1, <1>11, <1>12, <1>13 DEF Opened, OpenedIsComplete
  <1>15. Probing'
    BY <1>1, <1>4, <1>6, <1>7, <1>10 DEF SInv, Probing
  <1>16. Complete(CandidateAt(scan))' <=> Complete(CandidateAt(scan))
    BY <1>1, <1>5 DEF Complete, Required, FixedEnd
  <1>17. Examining'
    BY <1>1, <1>5, <1>6, <1>7, <1>14, <1>16 DEF SInv, Examining, Required, FixedEnd
  <1>18. MissingIsRequired'
    BY <1>1, <1>10 DEF SInv, MissingIsRequired
  <1> QED BY <1>2, <1>3, <1>14, <1>15, <1>17, <1>18 DEF SInv

\* Every step keeps the invariant, given the bounds proved above.
LEMMA NextKeeps == OInv /\ SInv /\ [Next]_vars => SInv'
  <1> SUFFICES ASSUME OInv, SInv, [Next]_vars PROVE SInv'
    OBVIOUS
  <1>1. CASE Assemble \/ ProviderFails
    BY <1>1, AssemblyKeepsSearch
  <1>2. CASE BeginProbe \/ ScanEnds \/ ScanWindow \/ SearchAnchored
    BY <1>2, SearchBegins, ScanEndsKeeps, ScanWindowKeeps, SearchAnchoredKeeps
  <1>3. CASE ProbeCandidate \/ CandidateStage
    BY <1>3, ProbeKeeps, StageKeeps
  <1>4. CASE EnterLayer \/ DecodeHeaderFolder \/ FinishLayer \/ Conclude
    BY <1>4, EnterLayerKeeps, DecodeFolderKeeps, FinishLayerKeeps, ConcludeKeeps
  <1>5. CASE Cancel \/ UNCHANGED vars
    BY <1>5, QuietKeeps
  <1> QED BY <1>1, <1>2, <1>3, <1>4, <1>5 DEF Next, Work

\* Both invariants hold in every state of every run.
LEMMA SearchInvariant == Spec => []SInv
  BY SearchInitial, NextKeeps, OpenInvariant, PTL DEF Spec

(***************************************************************************)
(* However a provider splits, positions and returns its parts: the bytes   *)
(* assembled are the parts in order, each from its start, and each part is *)
(* asked for once (read_sequential_volumes, append_volume).                *)
(***************************************************************************)
THEOREM OpenAssembledInOrder == Spec => []AssembledInOrder
  <1>1. SInv => AssembledInOrder
    BY CopyingIsInOrder DEF SInv
  <1> QED BY <1>1, SearchInvariant, PTL

(***************************************************************************)
(* An archive that opens is the first complete one of its bytes, behind    *)
(* whatever false signatures, and every part that there is was read        *)
(* (parse_archive, open_bytes_inner, open_volumes_inner).                  *)
(***************************************************************************)
THEOREM OpenedArchiveComplete == Spec => []OpenedIsComplete
  <1>1. SInv => OpenedIsComplete
    BY DEF SInv
  <1> QED BY <1>1, SearchInvariant, PTL

(***************************************************************************)
(* A missing part is reported exactly when the bytes are cut short and the *)
(* provider lacks the next one (archive_declares_more_bytes and the end of *)
(* open_volumes_inner).                                                    *)
(***************************************************************************)
THEOREM MissingPartRequired == Spec => []MissingIsRequired
  <1>1. SInv => MissingIsRequired
    BY DEF SInv
  <1> QED BY <1>1, SearchInvariant, PTL
=============================================================================
