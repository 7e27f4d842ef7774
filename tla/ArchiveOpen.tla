---------------------------- MODULE ArchiveOpen ----------------------------
(***************************************************************************)
(* Opening an archive from the bytes VolumeAssembly collects: the probe    *)
(* that decides whether the bytes end too early                            *)
(* (archive_declares_more_bytes), the search for a signature whose header  *)
(* validates (parse_archive), the resolution of encoded headers and        *)
(* external folders (open_bytes_inner), and the final choice between the   *)
(* parser's error and a missing volume (open_volumes_inner).               *)
(*                                                                         *)
(* The contents of the bytes are a set of signatures with, for each, the   *)
(* fields of its fixed header and the verdicts of the checks behind it.    *)
(***************************************************************************)
EXTENDS VolumeAssembly, FiniteSets

CONSTANTS
    SignatureSize,     \* SIGNATURE.len()
    FixedHeaderSize,   \* FIXED_HEADER_SIZE, the signature included
    StartHeaderSize,   \* START_HEADER_SIZE
    SfxScanLimit,      \* limits.sfx_scan_limit()
    MaxHeader,         \* limits.max_header_bytes()
    MaxTotalOutput,    \* limits.max_total_output_bytes()
    MaxDepth           \* limits.max_recursion_depth()

(***************************************************************************)
(* A candidate: a signature at an offset, what its start header declares,  *)
(* and what is wrong with it: start ("Checksum", or "Unsupported" for the  *)
(* major version), next (CRC or kind of the next header), body (parsing    *)
(* and validating it).  Its layers are the encoded headers to decode, the  *)
(* last one a plain header or one whose folders are external.              *)
(***************************************************************************)
IsLayer(l) ==
    /\ l.kind \in {"encoded", "plain", "pending"}
    /\ l.sizes \in Seq(Nat)            \* decoded size of each folder
    /\ l.declared \in BOOLEAN          \* whether these sizes are declared
    /\ l.encrypted \in BOOLEAN
    /\ l.decode \in {"Ok", "Checksum", "PasswordRequired"}
    /\ l.parse \in {"Ok", "Format"}    \* of the header its folders hold

IsCandidate(c) ==
    /\ c.offset \in Nat /\ c.next_offset \in Nat /\ c.next_size \in Nat
    /\ c.start \in {"Ok", "Checksum", "Unsupported"}
    /\ c.next \in {"Ok", "Checksum", "Format"}
    /\ c.next_size = 0 => c.next # "Ok"    \* an empty next header has no kind
    /\ c.body \in {"Ok", "Format", "Unsupported"}
    /\ Len(c.layers) \in Nat \ {0} /\ DOMAIN c.layers = 1..Len(c.layers)
    /\ \A i \in DOMAIN c.layers : /\ IsLayer(c.layers[i])
                                  /\ (i < Len(c.layers)) = (c.layers[i].kind = "encoded")

ASSUME OpenAssumption ==
    /\ \A v \in VolumeSets :
           /\ \A c \in v.candidates : IsCandidate(c)
           /\ \A c, d \in v.candidates : c.offset = d.offset => c = d
    /\ SignatureSize \in Nat \ {0} /\ FixedHeaderSize \in Nat
    /\ SignatureSize <= FixedHeaderSize
    /\ StartHeaderSize \in Nat /\ SfxScanLimit \in Nat
    /\ MaxHeader \in Nat /\ MaxTotalOutput \in Nat /\ MaxDepth \in Nat

VARIABLES
    needs_more,            \* the probe's answer
    scan,                  \* offset the probe or the search is at
    first_error,           \* first_candidate_error of the search
    layer,                 \* layer of the found candidate being resolved
    folder,                \* folders of that layer decoded
    layer_bytes,           \* decoded_total / total_output of that layer
    depth,
    decoded_header_bytes,
    inner                  \* what open_bytes_inner returned

searchVars == <<needs_more, scan, first_error>>
headerVars == <<layer, folder, layer_bytes, depth, decoded_header_bytes>>
vars       == <<assemblyVars, searchVars, headerVars, inner>>

\* What no step after the assembly changes.
assembled == <<volumes, mode, cancelled, index, bytes, remaining, position, read,
               termination, opens>>

Init ==
    /\ AssemblyInit
    /\ needs_more = FALSE /\ scan = 0 /\ first_error = "none"
    /\ layer = 1 /\ folder = 0 /\ layer_bytes = 0
    /\ depth = 0 /\ decoded_header_bytes = 0
    /\ inner = "none"

-----------------------------------------------------------------------------
(***************************************************************************)
(* A signature at offset 0 is the only candidate; otherwise every offset   *)
(* up to the scan limit is looked at.                                      *)
(***************************************************************************)
SignatureAt(o) == /\ \E c \in volumes.candidates : c.offset = o
                  /\ o + SignatureSize <= Len(bytes)

CandidateAt(o) == CHOOSE c \in volumes.candidates : c.offset = o

Anchored == SignatureAt(0)

LastScanned == Minimum(Len(bytes) - SignatureSize, SfxScanLimit)

FixedEnd(c) == c.offset + FixedHeaderSize
Required(c) == FixedEnd(c) + c.next_offset + c.next_size

\* open_bytes_inner returns: the error, or the opened archive.
Returned(outcome) == inner' = outcome /\ pc' = "verdict" /\ UNCHANGED result

\* The probe's errors are the operation's, the search's are judged again.
Abort(error) == IF pc \in {"probe", "probecandidate"}
                THEN Fail(error) /\ UNCHANGED inner
                ELSE Returned(error)

CheckpointAborts(units) ==
    /\ ~Passed(units)
    /\ Abort(Checkpoint(cancelled, budget, units))
    /\ UNCHANGED <<budget, searchVars, headerVars, assembled>>

Pays(units) == Passed(units) /\ budget' = Charged(budget, units)

-----------------------------------------------------------------------------
\* After assembly: no bytes at all need more; a single volume is not probed.
BeginProbe ==
    /\ pc = "assembled"
    /\ needs_more' = (mode = "sequential" /\ bytes = <<>>)
    /\ pc' = IF mode = "single" \/ bytes = <<>> THEN "search"
             ELSE IF Anchored THEN "probecandidate" ELSE "probe"
    /\ UNCHANGED <<budget, scan, first_error, headerVars, inner, result, assembled>>

(***************************************************************************)
(* The two scans, of archive_declares_more_bytes and of parse_archive:     *)
(* each window is charged, and one that holds the signature is examined.   *)
(***************************************************************************)
ScanEnds ==
    /\ pc \in {"probe", "search"} /\ (pc = "search" => ~Anchored)
    /\ scan > LastScanned
    /\ IF pc = "probe"
       THEN /\ needs_more' = FALSE /\ scan' = 0 /\ pc' = "search"
            /\ UNCHANGED <<inner, result>>
       ELSE /\ Returned(IF first_error = "none" THEN "Format" ELSE first_error)
            /\ UNCHANGED <<needs_more, scan>>
    /\ UNCHANGED <<budget, first_error, headerVars, assembled>>

ScanWindow ==
    /\ pc \in {"probe", "search"} /\ (pc = "search" => ~Anchored)
    /\ scan <= LastScanned
    /\ \/ CheckpointAborts(1)
       \/ /\ Pays(1)
          /\ IF SignatureAt(scan)
             THEN /\ pc' = IF pc = "probe" THEN "probecandidate" ELSE "fixed"
                  /\ UNCHANGED scan
             ELSE scan' = scan + 1 /\ UNCHANGED pc
          /\ UNCHANGED <<needs_more, first_error, headerVars, inner, result, assembled>>

SearchAnchored ==
    /\ pc = "search" /\ Anchored
    /\ pc' = "fixed"
    /\ UNCHANGED <<budget, searchVars, headerVars, inner, result, assembled>>

(***************************************************************************)
(* candidate_declares_more_bytes: a truncated fixed header needs more; a   *)
(* start header that fails its CRC decides nothing; else the declared end  *)
(* decides, once the declared header size is within its limit and the end  *)
(* is a u64.                                                               *)
(***************************************************************************)
DeclaresMore(c) == Required(c) > Len(bytes)

ProbeDecides(answer) ==
    needs_more' = answer /\ scan' = 0 /\ pc' = "search" /\ UNCHANGED result

ProbeCandidate ==
    LET c == CandidateAt(scan)
    IN  /\ pc = "probecandidate"
        /\ \/ /\ FixedEnd(c) > Len(bytes)
              /\ ProbeDecides(TRUE) /\ UNCHANGED <<budget, inner>>
           \/ FixedEnd(c) <= Len(bytes) /\ CheckpointAborts(StartHeaderSize)
           \/ /\ FixedEnd(c) <= Len(bytes) /\ Pays(StartHeaderSize)
              /\ \/ /\ c.start = "Checksum"
                    /\ IF Anchored THEN ProbeDecides(FALSE)
                       ELSE scan' = scan + 1 /\ pc' = "probe"
                            /\ UNCHANGED <<needs_more, result>>
                    /\ UNCHANGED inner
                 \/ /\ c.start # "Checksum" /\ c.next_size > MaxHeader
                    /\ Abort("HeaderBytes") /\ UNCHANGED <<needs_more, scan>>
                 \/ /\ c.start # "Checksum" /\ c.next_size <= MaxHeader
                    /\ Required(c) > U64Max
                    /\ Abort("Format") /\ UNCHANGED <<needs_more, scan>>
                 \/ /\ c.start # "Checksum" /\ c.next_size <= MaxHeader
                    /\ Required(c) <= U64Max
                    /\ ProbeDecides(DeclaresMore(c)) /\ UNCHANGED inner
        /\ UNCHANGED <<first_error, headerVars, assembled>>

-----------------------------------------------------------------------------
(***************************************************************************)
(* validated_candidate: parse_candidate in three paid stages, each with    *)
(* the verdicts that follow it, then the body, whose many checkpoints are  *)
(* one here.  The CRC of an empty next header passes no checkpoint.        *)
(***************************************************************************)
Stages == {"fixed", "start", "next", "body"}

StageCost(c) ==
    CASE pc = "fixed" -> FixedHeaderSize
      [] pc = "start" -> StartHeaderSize
      [] pc = "next"  -> c.next_size
      [] pc = "body"  -> 1

StageVerdictMutant(c) ==   \* a next header cut short is not noticed
    CASE pc = "fixed" -> IF FixedEnd(c) > Len(bytes) THEN "Format" ELSE "Ok"
      [] pc = "start" -> IF c.start # "Ok" THEN c.start
                         ELSE IF c.next_size > MaxHeader THEN "HeaderBytes" ELSE "Ok"
      [] pc = "next"  -> c.next
      [] pc = "body"  -> c.body

StageVerdict(c) ==
    CASE pc = "fixed" -> IF FixedEnd(c) > Len(bytes) THEN "Format" ELSE "Ok"
      [] pc = "start" -> IF c.start # "Ok" THEN c.start
                         ELSE IF c.next_size > MaxHeader THEN "HeaderBytes"
                         ELSE IF Required(c) > Len(bytes) THEN "Format"
                         ELSE IF c.next_size = 0 THEN c.next ELSE "Ok"
      [] pc = "next"  -> c.next
      [] pc = "body"  -> c.body

NextStage ==
    CASE pc = "fixed" -> "start" [] pc = "start" -> "next"
      [] pc = "next"  -> "body"  [] pc = "body"  -> "header"

(***************************************************************************)
(* A failed candidate is fatal when it is the anchored one; in a scan the  *)
(* first such error is kept and the scan goes on.                          *)
(***************************************************************************)
CandidateStage ==
    LET c       == CandidateAt(scan)
        verdict == StageVerdict(c)
    IN  /\ pc \in Stages
        /\ \/ CheckpointAborts(StageCost(c))
           \/ /\ Pays(StageCost(c))
              /\ \/ /\ verdict = "Ok" /\ pc' = NextStage
                    /\ UNCHANGED <<searchVars, inner, result>>
                 \/ /\ verdict # "Ok" /\ Anchored
                    /\ Returned(verdict) /\ UNCHANGED searchVars
                 \/ /\ verdict # "Ok" /\ ~Anchored
                    /\ first_error' = IF first_error = "none" THEN verdict ELSE first_error
                    /\ scan' = scan + 1 /\ pc' = "search"
                    /\ UNCHANGED <<needs_more, inner, result>>
              /\ UNCHANGED <<headerVars, assembled>>

-----------------------------------------------------------------------------
(***************************************************************************)
(* open_bytes_inner: the loop over next-header layers.  Each encoded or    *)
(* pending layer counts against the recursion limit; what every layer      *)
(* decodes counts against the header and the total-output limits.          *)
(***************************************************************************)
Layers  == CandidateAt(scan).layers
Current == Layers[layer]

RemainingOutput == MaxTotalOutput - decoded_header_bytes

\* Sum of the declared folder sizes, as decode_encoded_header preflights them.
DeclaredTotal(l) ==
    LET sum[n \in 0..Len(l.sizes)] == IF n = 0 THEN 0 ELSE sum[n - 1] + l.sizes[n]
    IN  IF l.declared THEN sum[Len(l.sizes)] ELSE 0

\* map_encrypted_error
Mapped(error, encrypted) ==
    IF encrypted /\ error \in {"Format", "Checksum"} THEN "WrongPasswordOrCorrupt" ELSE error

LayerRefusalMutant ==   \* the layer being entered is not counted
    IF Current.kind # "plain" /\ depth > MaxDepth THEN "RecursionDepth" ELSE "Ok"

LayerRefusal ==
    IF Current.kind # "plain" /\ depth + 1 > MaxDepth THEN "RecursionDepth"
    ELSE IF Current.kind # "encoded" THEN "Ok"
    ELSE IF Len(Current.sizes) = 0 THEN Mapped("Format", Current.encrypted)
    ELSE IF DeclaredTotal(Current) > MaxHeader THEN "HeaderBytes"
    ELSE IF DeclaredTotal(Current) > RemainingOutput THEN "TotalOutputBytes"
    ELSE "Ok"

EnterLayer ==
    /\ pc = "header"
    /\ \/ /\ LayerRefusal # "Ok" /\ Returned(LayerRefusal) /\ UNCHANGED headerVars
       \/ /\ LayerRefusal = "Ok"
          /\ depth' = IF Current.kind = "plain" THEN depth ELSE depth + 1
          /\ folder' = 0 /\ layer_bytes' = 0
          /\ pc' = "headerfolder"
          /\ UNCHANGED <<layer, decoded_header_bytes, inner, result>>
    /\ UNCHANGED <<budget, searchVars, assembled>>

\* decode_folder is allowed what both limits leave, and its result verified.
FolderVerdict ==
    IF Current.sizes[folder + 1] > Minimum(MaxHeader, RemainingOutput) - layer_bytes
    THEN "TotalOutputBytes"
    ELSE IF folder + 1 = Len(Current.sizes) THEN Mapped(Current.decode, Current.encrypted)
    ELSE "Ok"

DecodeHeaderFolder ==
    /\ pc = "headerfolder" /\ folder < Len(Current.sizes)
    /\ \/ CheckpointAborts(1)
       \/ /\ Pays(1)
          /\ IF FolderVerdict = "Ok"
             THEN /\ folder' = folder + 1
                  /\ layer_bytes' = layer_bytes + Current.sizes[folder + 1]
                  /\ UNCHANGED <<pc, inner, result>>
             ELSE Returned(FolderVerdict) /\ UNCHANGED <<folder, layer_bytes>>
          /\ UNCHANGED <<layer, depth, decoded_header_bytes, searchVars, assembled>>

(***************************************************************************)
(* The layer is decoded: account for it, parse what it holds, and go on    *)
(* with the header found there or return the archive.                      *)
(***************************************************************************)
FinishLayer ==
    /\ pc = "headerfolder" /\ folder = Len(Current.sizes)
    /\ decoded_header_bytes' = decoded_header_bytes + layer_bytes
    /\ \/ /\ decoded_header_bytes' > MaxTotalOutput
          /\ Returned("TotalOutputBytes") /\ UNCHANGED layer
       \/ /\ decoded_header_bytes' <= MaxTotalOutput /\ Current.parse # "Ok"
          /\ Returned(Mapped(Current.parse, Current.encrypted)) /\ UNCHANGED layer
       \/ /\ decoded_header_bytes' <= MaxTotalOutput /\ Current.parse = "Ok"
          /\ IF Current.kind = "encoded"
             THEN layer' = layer + 1 /\ pc' = "header" /\ UNCHANGED <<inner, result>>
             ELSE Returned("Ok") /\ UNCHANGED layer
    /\ UNCHANGED <<budget, folder, layer_bytes, depth, searchVars, assembled>>

(***************************************************************************)
(* The end of open_volumes_inner: a failure of bytes that need more is     *)
(* reported as what ended the assembly.                                    *)
(***************************************************************************)
VerdictMutant ==   \* every failure of a split archive blames the next part
    IF mode = "sequential" /\ inner # "Ok"
    THEN IF termination = "Missing" THEN "MissingVolume" ELSE "Volumes"
    ELSE inner

Verdict ==
    IF mode = "sequential" /\ needs_more /\ inner # "Ok"
    THEN IF termination = "Missing" THEN "MissingVolume" ELSE "Volumes"
    ELSE inner

Conclude ==
    /\ pc = "verdict"
    /\ Fail(Verdict)
    /\ UNCHANGED <<budget, searchVars, headerVars, inner, assembled>>

-----------------------------------------------------------------------------
Assemble == AssemblyStep /\ UNCHANGED <<searchVars, headerVars, inner>>

ProviderFails == CallbackFails /\ UNCHANGED <<searchVars, headerVars, inner>>

Cancel ==
    /\ result = "none"
    /\ CancelToken
    /\ UNCHANGED <<volumes, mode, budget, pc, index, bytes, remaining, position,
                   read, termination, result, opens, searchVars, headerVars, inner>>

Work ==
    \/ Assemble \/ BeginProbe \/ ScanEnds \/ ScanWindow \/ SearchAnchored
    \/ ProbeCandidate \/ CandidateStage
    \/ EnterLayer \/ DecodeHeaderFolder \/ FinishLayer \/ Conclude

Next == Work \/ ProviderFails \/ Cancel

Spec == Init /\ [][Next]_vars

\* The caller's thread runs until the call returns; nobody need cancel it, and
\* no callback need fail.
FairSpec == Spec /\ WF_vars(Work)

-----------------------------------------------------------------------------
(***************************************************************************)
(* Reference definitions, of the bytes alone.  Searched: the signatures    *)
(* parse_archive may look at.  Complete: one whose every check succeeds    *)
(* and whose declared end is there.                                        *)
(***************************************************************************)
Searched ==
    IF Anchored THEN {CandidateAt(0)}
    ELSE {c \in volumes.candidates :
              c.offset + SignatureSize <= Len(bytes) /\ c.offset <= SfxScanLimit}

Complete(c) == /\ c.start = "Ok" /\ c.next = "Ok" /\ c.body = "Ok"
               /\ c.next_size <= MaxHeader
               /\ Required(c) <= Len(bytes)

\* The start header is there and intact, or cut off by the end of the bytes.
Credible(c) == FixedEnd(c) > Len(bytes) \/ c.start # "Checksum"

First(S) == CHOOSE c \in S : \A d \in S : c.offset <= d.offset

(***************************************************************************)
(* An archive that opens is the first complete one of the bytes, all of    *)
(* whose declared range was assembled ("A terminal absent part is accepted *)
(* only after the complete logical archive bounds validate"), every part   *)
(* up to a missing one or the volume limit was read, and its headers       *)
(* resolved within the recursion and output limits.                        *)
(***************************************************************************)
OpenedIsComplete ==
    result = "Ok" =>
        /\ LET found == {c \in Searched : Complete(c)}
           IN  found # {} /\ scan = First(found).offset
        /\ mode = "sequential" => \/ termination = "Missing" /\ index = Len(volumes.parts)
                                  \/ termination = "Limit" /\ index = MaxVolumes
        /\ layer = Len(Layers)

\* What the bytes say about themselves: empty, or their first credible header
\* ends beyond them; and whether that end can be told at all.
CredibleHeaders == {c \in Searched : Credible(c)}

CutShort == \/ bytes = <<>>
            \/ CredibleHeaders # {} /\ Required(First(CredibleHeaders)) > Len(bytes)

Measurable == CredibleHeaders # {} =>
    LET c == First(CredibleHeaders)
    IN  FixedEnd(c) > Len(bytes) \/ (c.next_size <= MaxHeader /\ Required(c) <= U64Max)

(***************************************************************************)
(* MissingVolume is reported only when the provider really lacks the part  *)
(* last asked for and the bytes are cut short: never for a complete        *)
(* archive that is invalid for another reason, never for a part that is    *)
(* there.  Conversely, bytes cut short by a missing part never yield       *)
(* another of the parser's errors.                                         *)
(***************************************************************************)
MissingIsRequired ==
    /\ result = "MissingVolume" =>
           /\ opens # <<>> /\ opens[Len(opens)] = index /\ index >= Len(volumes.parts)
           /\ mode = "sequential" => CutShort
    /\ (termination = "Missing" /\ result # "none" /\ CutShort /\ Measurable) =>
           result \in {"Ok", "MissingVolume", "Cancelled", "WorkUnits"}

\* Header resolution stays within the recursion and the output limits at
\* every step, not only when it ends (nested encoded headers included).
HeadersBounded ==
    /\ depth <= MaxDepth
    /\ layer_bytes <= MaxHeader
    /\ decoded_header_bytes <= MaxTotalOutput
    /\ decoded_header_bytes + (IF pc = "headerfolder" THEN layer_bytes ELSE 0)
           <= MaxTotalOutput

\* Every call to open an archive returns, whatever the parts, the budget and
\* the callbacks do, cancelled or not.
OpenReturns == <>(result # "none")

-----------------------------------------------------------------------------
(***************************************************************************)
(* Statements of the repository's documents that the code does not keep.   *)
(***************************************************************************)
Undisturbed == ~cancelled /\ result \notin {"Io", "WorkUnits", "none"}

(***************************************************************************)
(* COMPATIBILITY.md: a valid SFX archive opens after false candidates that *)
(* fail candidate-local limits, that is, if the search meets a complete    *)
(* one its bytes open whichever way they were supplied.                    *)
(***************************************************************************)
FalseCandidatesAreSkipped ==
    (/\ Undisturbed /\ termination # "none"
     /\ \E c \in Searched : Complete(c))
    => result = "Ok"

(***************************************************************************)
(* archive.rs, open_volumes: MissingVolume is returned when a required     *)
(* part is absent, so a prefix of an archive's parts whose signature or    *)
(* header is cut off names the next part.                                  *)
(***************************************************************************)
AbsentPartIsNamed ==
    (/\ Undisturbed /\ mode = "sequential" /\ termination = "Missing"
     /\ \E c \in volumes.candidates : c.start = "Ok" /\ c.offset = 0
                                      /\ Required(c) > Len(bytes))
    => result = "MissingVolume"
=============================================================================
