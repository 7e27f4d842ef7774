---------------------------- MODULE FolderCodecs ----------------------------
(***************************************************************************)
(* The coders that un7z implements itself, as decode_coder runs them:      *)
(* LZMA, LZMA2 and Deflate64 step by step, a filter or BCJ2 in one step.   *)
(* What they owe is stated against the encoders of CodecFormats.           *)
(***************************************************************************)
EXTENDS Deflate64, CodecFormats

StreamMethods == {"lzma", "lzma2", "deflate64"}

vars == <<job, cancelled, budget, pc, result, output, lzmaVars, deflateVars>>

\* decode_coder around a filter, which never changes the size.
Filtered(d) ==
    IF Len(Input) > job.maximum THEN Faulted(d, "LimitExceeded")
    ELSE DecodeFilter(d, job.method, job.properties)

RunFilter ==
    /\ pc = "start" /\ job.method \in Filters
    /\ \E d \in {Require(Filtered([out |-> Input] @@ Step), job.expected \in {NoSize, Len(Input)})} :
           /\ Settle(d, Finished)
           /\ output' = IF Failed(d) THEN output ELSE d.out
    /\ UNCHANGED lzmaVars /\ UNCHANGED deflateVars /\ UNCHANGED callVars

RunBcj2 ==
    /\ pc = "start" /\ job.method = "bcj2"
    /\ \E d \in {DecodeBcj2(Admitted(Require([out |-> <<>>] @@ Step, job.properties = <<>>)), job.inputs,
                            job.expected, job.maximum)} :
           /\ Settle(d, Finished)
           /\ output' = IF Failed(d) THEN output ELSE d.out
    /\ UNCHANGED lzmaVars /\ UNCHANGED deflateVars /\ UNCHANGED callVars

Cancel == /\ pc # "done" /\ ~cancelled /\ cancelled' = TRUE
          /\ UNCHANGED <<job, budget, pc, result, output>> /\ UNCHANGED lzmaVars /\ UNCHANGED deflateVars

Init == LzmaInit /\ DeflateInit
Next == \/ LzmaStep /\ UNCHANGED deflateVars
        \/ Deflate64Step /\ UNCHANGED lzmaVars /\ UNCHANGED callVars
        \/ RunFilter \/ RunBcj2 \/ Cancel
Spec == Init /\ [][Next]_vars

-----------------------------------------------------------------------------
(***************************************************************************)
(* What the inputs were encoded from: the text, the sizes that may be      *)
(* declared for it, the greatest distance used, whether the input was cut  *)
(* off, and whether the dictionary was reset after the beginning.          *)
(***************************************************************************)
Interrupted == cancelled \/ result \in {"none", "WorkUnits"}

Dictionary == CASE job.method = "lzma" -> job.properties[2]
                [] job.method = "lzma2" /\ job.properties[1] <= LZMA2_PROPERTY_MAX ->
                        Lzma2Dictionary(job.properties[1])
                [] job.method = "deflate64" -> DEFLATE64_DICTIONARY_BYTES
                [] OTHER -> 0

Decodable(w) == job.expected \in w.sizes /\ Len(w.text) <= job.maximum /\ w.reach <= Dictionary

\* The decoder has given w's text, or as much of it as was declared, and has
\* given it if nothing forbids.
Returned(w) ==
    /\ IsPrefix(output, w.text)
    /\ result = "Ok" => /\ job.expected \in {NoSize, Len(output)}
                        /\ job.expected \in w.sizes => output = w.text
    /\ Decodable(w) /\ ~Interrupted => result = "Ok"

(***************************************************************************)
(* decode_lzma, decode_lzma2 and decode_deflate64 invert the encoder over  *)
(* whole streams, chunk by chunk and block by block, with whatever is kept *)
(* or reset between them, as long as the dictionary of LZMA2 is reset only *)
(* where nothing was put out yet.                                          *)
(***************************************************************************)
DecodesWhatWasEncoded ==
    job.method \in StreamMethods =>
        \A w \in Range(job.written) : ~w.cut /\ ~w.resets => Returned(w)

(***************************************************************************)
(* A stream that was cut off, or of Deflate64 one with a byte after its    *)
(* last block, is never accepted.  A cut fails even when the missing       *)
(* byte only holds the end of the range coder or of the last symbol: the   *)
(* decoder needs every byte that the encoder wrote, and no other.          *)
(***************************************************************************)
CutStreamsFail ==
    \A w \in Range(job.written) : w.cut => IsPrefix(output, w.text) /\ result # "Ok"

(***************************************************************************)
(* Whatever the input, the range stays normalised and no probability       *)
(* reaches 0 or PROB_TOTAL, so the checked operations of Probability and   *)
(* RangeDecoder never fail; the output is within its limit and was paid    *)
(* for byte by byte.                                                       *)
(***************************************************************************)
LzmaStateSound ==
    /\ pc = "operation" => RangeSound(lzma @@ range)
    /\ Len(output) <= job.maximum
    /\ job.method \in StreamMethods => budget.consumed >= Len(output)

(***************************************************************************)
(* Every filter inverts its encoder, whatever the code and its start       *)
(* address, and BCJ2 for whatever choice of branches.                      *)
(***************************************************************************)
FiltersInvert ==
    pc = "done" /\ job.method \notin StreamMethods =>
        \A w \in Range(job.written) : Returned(w)

\* COMPATIBILITY.md: LZMA2 is supported with reset validation.
ResetStreamsDecode ==
    \A w \in Range(job.written) : w.resets => Returned(w)
=============================================================================
