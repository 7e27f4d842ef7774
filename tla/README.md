# A TLA+ model of un7z

un7z is a Rust library that reads 7z archives (and a few standalone compressed
streams) under explicit limits, a work budget and a cancellation token. This
directory holds TLA+ modules translated from its source, TLC configurations
that check them on small instances, and proofs checked by TLAPS. Paths below
are relative to `src/crates/un7z/src/` unless they start with `src/`.

`PROJECT.json` ties everything together: `map` gives, for each definition, the
lines it models; `runs` the TLC runs; `mutants` a plausible bug per property
that the property catches; `hazards` what is hard to test and which property
covers it; `theorems` what is proved.

## 1. Inventory

| Component | Source | State | Operations | What makes it correct |
|---|---|---|---|---|
| Operation controls | `cancel.rs`, `parse_util.rs` | a shared sticky flag; `remaining`, `consumed` | `cancel`, `check`, `charge`, `checkpoint` | the token wins over the budget; a failed charge changes nothing; `consumed` never wraps |
| Volume assembly | `volume.rs` | bytes so far, index, remaining, termination | `open_volume`, `append_volume`, `collect_*` | parts concatenated in order, from their start, within limits, paid for before kept |
| Archive opening | `archive.rs` 187-445, `parser.rs` | scan offset, first error, header layer, depth, decoded header bytes | probe, SFX search, layer decoding, final verdict | only a complete archive opens; a missing part is reported exactly when bytes are cut short |
| Header grammar | `raw.rs`, `bounded.rs` | cursor, parse state, item counters | `parse_next_header` and the records below it | bounded counts, no trailing data, everything read is inside the header |
| Semantic validation, model | `validate.rs`, `model.rs` | packed ranges, folders, substreams, entry mapping | `validate_next_header` | ranges disjoint and inside the input; sizes and CRCs go to the right substream; entries map to substreams in order |
| External metadata | `metadata.rs` | decoded additional streams, pending properties | `resolve_*`, `apply_external_properties` | each external vector decoded once, within the output limit |
| Coder graph | `graph.rs` | indegrees, ready queue, order | `validate_folder_graph`, `topological_order` | accepts exactly the connected acyclic graphs; order is topological |
| Folder execution | `execute.rs` | input and output ports | `load_packed_inputs`, `decode_coder`, `decode_folder` | streams routed as bound; internal errors unreachable |
| Member reader | `archive.rs` 525-693, 1534-1771 | position, running CRC, borrowed budget | `open_member`, `read_chunk`, `finish`, `extract_entry`, `extract_entry_to` | success only for a fully verified member; CRC errors only for corrupt ones |
| Natural-order extraction | `archive.rs` 33-48, 786-996, 1393-1448 | current folder, next substream, offsets, output totals | `extract_entries_to`, `EntrySink` callbacks | sink protocol; every folder decoded once; limits across folders |
| Whole-archive verification | `archive.rs` 703-768, 1450-1533; `metadata.rs` 85-253 | output total, iterator of streamed entries, offset in the folder | `verify` | accepts exactly the intact archives within the limits; reports the first wrong CRC, with its member, and no other error in its place |
| LZMA, LZMA2 | `decode/lzma.rs` | range and code, probabilities, `state`, `reps`, history, chunk control | `decode_lzma`, `decode_lzma2`, `decode_operation` | inverse of the encoder; a truncated stream is never whole; no arithmetic check ever fails |
| Deflate64 | `decode/deflate64.rs` | bit reader, Huffman trees, history | `decode_deflate64` | the same |
| Library codecs | `decode/codecs.rs` | tokens consumed and charged, units produced | `decode_reader`, `decode_deflate`, `append_output` | the library's bytes once and in order, within the limit, all paid for |
| Branch filters, BCJ2, Delta, Swap | `decode/filters.rs`, `decode/phase5_filters.rs` | a carried mask, the position, the range decoder of BCJ2 | one function per filter | inverse of the encoder for every start address |
| PPMd | `decode/ppmd.rs` | context tree in an arena | `decode_ppmd` | inverse of the encoder |
| Standalone streams | `stream/*` | frame table, output total, LZW dictionary and code reader | `open_bytes`, `extract_to`, `pump_reader`, `decode_lzw` | every frame verified, one output limit for all, no left-over dictionary entry is followed |
| Password, AES | `password.rs`, `decode/aes.rs` | key material | key derivation, CBC decryption | - |
| Limits, errors, paths, CRC | `limits.rs`, `error.rs`, `path.rs`, `checksum.rs` | none or plain data | checks and conversions | - |
| Python bindings | `src/bindings/python/src/*` | saved exception, detached interpreter | callback adapters | a callback's exception survives the core's error |
| Command line | `src/crates/un7z-cli` | none | argument handling | - |

**Interaction.** One operation is one call on the caller's thread. It borrows a
`CancellationToken` (an `AtomicBool` that any other thread, or a callback of
the same call, may set) and a `WorkBudget` (mutable, carried from one operation
to the next). Opening calls the volume provider, assembles the bytes, probes
and searches them, decodes header layers through the folder executor, and
returns an `Archive`. Reading a member or extracting all members decodes whole
folders through the same executor, then slices them. Extraction calls the
caller's `EntrySink`; `extract_entry_to` calls a `Write`. A folder's coders run
one after the other through `decode_coder`: un7z's own decoders take their input
as a slice, the library decoders pull it through a `ControlledInput` that
consults the token. A standalone stream is a session of its own: `open_bytes`
walks its frames, `extract_to` pumps each through such a decoder to the
caller's `Write`.

**What is hard here.** There are no locks and no background threads. The
difficulties are (a) the token changing between any two checkpoints, also from
inside a callback; (b) the budget running out in the middle of an operation
that the caller may retry on the same reader; (c) callbacks that fail, return
short or too long, or misreport; (d) limits that span folders, layers and
volumes while each piece is checked alone; (e) two procedures that judge the
same bytes by different rules (the missing-volume probe and the search, the
walk over a stream's frames and their decoders); (f) graph and offset arithmetic
that later code relies on without checking again; (g) decoders outside the
repository between the token and the loop that would return its error; and (h)
codec state carried from chunk to chunk, block to block or past a reset. `hazards` in `PROJECT.json` lists them line by line.

## 2. Modules

| Module | Models | Notes |
|---|---|---|
| `OperationControl` | token, budget, `checkpoint` | operators; a budget is a value that its owner keeps in a variable |
| `MemberReader` | `MemberReader`, `extract_entry(_to)` | one action per control chunk, so that the token can change inside `read_chunk` |
| `MemberReaderProofs` | | TLAPS proofs about `MemberReader` |
| `FolderGraph` | `validate_folder_graph`, `topological_order` | Kahn's algorithm step by step, from raw folders that `parse_folder` can produce |
| `FolderExecution` | `decode_folder` | extends `FolderGraph`: validation, then execution of what was accepted |
| `FolderExecutionProofs` | | lemmas on the sort and on the executor, theorems on both |
| `EntrySinkProtocol` | the promise of `EntrySink` (documentation comments of the trait and of `extract_entries_to`) | abstract specification |
| `SolidArchive` | the validated archive, `folder_decode_maximum` | operators shared by the next two, and what makes a folder good, defined of the archive alone |
| `SolidArchiveProofs` | | lemmas on sums of sizes, tiling, limits and the mapping of entries to substreams |
| `EntryExtraction` | `extract_entries_to` | refines `EntrySinkProtocol` |
| `EntryExtractionProofs` | | TLAPS proofs, the refinement included |
| `ArchiveVerification` | `verify`, `verify_folder_members`, `verify_additional_streams`, `open_member`, `member_bounds` | the reader it opens is an initial state of `MemberReader` |
| `ArchiveVerificationProofs` | | TLAPS proofs about `ArchiveVerification` |
| `VolumeAssembly` | `volume.rs` | unreliable provider: short, empty and excessive reads, volumes left at any position, callback errors |
| `ArchiveOpen` | `open_volumes_inner`, `open_bytes_inner`, `archive_declares_more_bytes`, `parse_archive` | extends `VolumeAssembly` |
| `ArchiveOpenProofs` | | TLAPS proofs about `ArchiveOpen` and `VolumeAssembly` |
| `HeaderFormat` | the header's tags, what a written header, a folder and a coder are | shared by the parser and by the reference; `Encode` of a described header stands for the writer |
| `HeaderParsing` | `raw.rs`, `bounded.rs`: `parse_next_header` and every record below it | a state machine over a cursor; each record checks its limits and the token as the code does |
| `HeaderValidation` | `validate.rs`, `metadata.rs`: `validate_next_header`, `resolve_*`, `apply_external_properties` | extends `HeaderParsing`; the steps after the parser returns |
| `HeaderMeaning` | what a header means, defined of its description alone | reference for the two above; uses `SolidArchive` for `MappedInOrder` |
| `HeaderMeaningProofs` | | TLAPS proofs about `HeaderParsing` and `HeaderValidation` |
| `FrameTokens` | frame headers and blocks of LZ4 and Zstandard, and what the library decoders make of an input | operators; the libraries (`lz4_flex`, `ruzstd`, `bzip2-rs`, `brotli`, `miniz_oxide`) are external: a decoder is the units it gives, how much input each needs, and how it ends |
| `DecoderPump` | `pump_reader`, `decode_reader`, `decode_deflate`, `append_output`, `ControlledInput` | one action per read, charge and append; a decoder may return any number of units per read, and when interrupted go on, give up or retry |
| `CompressedStream` | `stream/mod.rs`, `stream/lz4.rs`, `stream/zstandard.rs`: detection, frame tables, `extract_to` | extends `DecoderPump`; one action per frame |
| `UnixCompress` | `stream/unix_compress.rs` | extends `CompressedStream`; one action per group of codes, per code and per link of a chain |
| `StreamSessions` | a session: the three above under one token and budget | the specification and its properties |
| `StreamSessionsProofs` | | TLAPS proofs about the four above |
| `LzwWriter` | nothing of un7z: a writer of `.Z` texts | reference for `LzwRoundTrip`; only the MC module uses it |
| `RangeCoding` | `RangeDecoder`, `Probability`, `ProbabilityTree` | operators on a decoder record; the first error sticks |
| `LzmaDecoder` | `decode_operation` and the length, distance and literal decoders | operators |
| `LzmaStreams` | `decode_lzma`, `decode_lzma2` | one action per operation and per chunk header |
| `Deflate64` | `decode_deflate64` | one action per block header, stored block, pair of trees and symbol |
| `BranchFilters` | Delta, Swap2, Swap4, x86, PPC, ARM, SPARC, ARM Thumb, BCJ2 | folds over the bytes |
| `CodecFormats` | nothing of un7z: encoders written from the formats' definitions | reference for the four above, therefore not in `map` |
| `FolderCodecs` | `decode_coder` over un7z's own decoders | composes them; properties |
| `MC*` | small instances | define the sets the constants take; no behaviour |

Operators whose names end in `Mutant` are plausible bugs. No action uses them;
each stands beside the definition it would replace.

**Correspondence.** Variables keep the names of the struct fields and locals
(`position`, `checksum`, `current_folder`, `next_substream`,
`total_folder_output`, `indegree`, `ready`, `order`, `input_ports`,
`needs_more`, `first_error` for `first_candidate_error`, `depth`,
`decoded_header_bytes`). `pc` is the place in the call. An action is the code
between two points where the token can matter or a callback runs. An error that
`?` propagates sets `result` in the same step.

**Abstractions.** A byte is its offset (in its member, or in its part); a CRC
digest is the range of bytes fed to it and whether they were a prefix in order,
so two different byte strings are taken to have different CRCs. What a codec
computes is a stream that remembers the packed streams it derives from; that it
fails is nondeterministic. In `ArchiveOpen` what the header grammar finds is a
verdict of the candidate; the grammar itself is `HeaderParsing`. There a header
is a sequence of tokens, one per field: a token is a number, so a damaged header
can be read as another one, but the variable-length encoding of a number and the
inner fields of a coder are left out. A coder is one token that carries what the
later checks find of it, and the verdict on a folder's graph is a parameter of
the folder, because `FolderGraph` models how it is reached. A folder's decoded length (`actual`) is independent of its declared
one wherever the code allows that.

In `FrameTokens` and the modules above it a token is one field of a frame or one
byte of a payload; descriptors keep the bits that the code tests, a hash is a
function of the tokens it covers, and the body of a compressed block is a list of
units, because un7z never sees more of it than the bytes the library returns.
`.Z` and the codecs are modelled bit by bit, at a smaller width: a byte has two
bits in `UnixCompress` (a constant) and four in `RangeCoding`, a word four such
bytes, a probability five bits, and the alphabets and trees shrink with them,
keeping their structure: that one byte renormalises the range, that a literal
tree has a matched half, that the last length of Deflate64 has the base of the
first. Constants whose values are scaled name the code's value beside them.

## 3. Runs

| Run | Question | Properties |
|---|---|---|
| `member_reader` | Can any sequence of reads, failures, retries and `finish` report a wrong verdict? | `TypeOK`, `VerifiedSuccess`, `NoSpuriousChecksum`, `RetrySafe`, `CancelledChargesNothing`, `OperationReturns` |
| `folder_execution` | Does the validator accept exactly the right graphs, and can the executor then fail one of its internal checks? | `VerdictIsReference`, `ScheduleIsTopological`, `NoInternalError`, `StreamsRoutedAsBound` |
| `entry_extraction` | Does the pass keep the sink protocol whatever the sink and the limits do? | `ImplementsSinkProtocol`, `MembersGetTheirBytes`, `LimitsRespected`, `ExtractionVerdict`, `CancellationIsPrompt`, `ExtractionReturns` |
| `archive_verification` | Do `verify`, `open_member` and the extraction pass agree on which archives are good, and is the first wrong CRC the one reported? | `VerifyVerdict`, `FirstCorruptionReported`, `OpenedIsItsSlice` |
| `archive_open` | Do only complete archives open, and is a missing part told from a broken archive? | `AssembledInOrder`, `AssemblyBounded`, `OpenedIsComplete`, `MissingIsRequired`, `HeadersBounded`, `CancelledAssemblyStops`, `OpenReturns` |
| `header_meaning` | Are exactly the valid headers accepted, read as they were meant, and is whatever else is accepted at least sound? | `DeclaredIsParsed`, `ModelSound`, `CountsAgree`, `ParseReturns` |
| `stream_sessions` | Does a session accept exactly the sound streams, hand on their bytes once and in order, pay for all of them, and end? | `StreamVerdict`, `PumpedInOrder`, `OutputPaidAndBounded`, `LzwRoundTrip`, `LzwAccounted`, `SessionReturns` |
| `folder_codecs` | Do un7z's own decoders and filters invert the encoders, and refuse what is cut off? | `DecodesWhatWasEncoded`, `CutStreamsFail`, `LzmaStateSound`, `FiltersInvert` |
| `split_false_candidate` | A documented statement the code does not keep | `FalseCandidatesAreSkipped` (violated) |
| `split_short_first_part` | A documented statement the code does not keep | `AbsentPartIsNamed` (violated) |
| `cancelled_session` | A documented statement the code does not keep | `CancelledSessionReturns` (violated) |
| `lzma2_reset` | A documented statement the code does not keep | `ResetStreamsDecode` (violated) |

`CHECK_DEADLOCK` is off in all: every operation ends in a final state.

**Bounds.** *member_reader*: control chunks of 2 bytes and loop buffers of 4
keep the 1:2 ratio of 4096 and 8192; members of 0, 1, 3 and 5 bytes end before,
at and after chunk and buffer boundaries; caller buffers of 0, 1, 3, 4; budgets
that run out at each byte, and `consumed` close to `u64::MAX` (12).
*folder_execution*: all folders of up to 4 coders, 4 inputs and 4 outputs in the
listed shapes with every choice of bind pairs and packed indices, also out of
range for the smaller ones; three coders beside a root suffice for every cycle
shape that a queue-based sort treats differently. *entry_extraction*: one to
three folders, one of them without members, two members per folder, sizes that
cross a control chunk (2), `MaxEntryOutput` (3) and `MaxTotalOutput` (7).
*archive_verification*: no, one or two additional folders and up to three main
ones, each CRC absent, right or wrong, sizes exact, short, unknown or excessive,
and totals that exceed `MaxHeader` (3) or `MaxTotalOutput` (9) only together;
several CRCs are wrong at once, within a folder, across folders, in
additional and main ones and in encrypted ones, so that their order shows.
*archive_open*: up to four parts for a limit of three, totals below, at and
above the input limit, archives of six bytes cut at every structural boundary,
false signatures of each kind before the real one, and up to three nested
encoded headers for a depth limit of two. *header_meaning*: 254 written headers,
valid and invalid, each in the forms a terse and a verbose writer may choose,
with up to four folders and five entries, and with each limit exceeded alone;
and three of them cut after every token, or with any one token replaced by 0, 1,
2, 10, 128 or 255. `U64Max` is 255, so that a byte of a bit vector fits in a
token and 255 is both the largest number and the "unknown" size. About half of
the written headers are accepted; the others fail with `Format`,
`LimitExceeded` or `Unsupported`. *stream_sessions*: streams of up to four
frames for a limit of three, intact and with each fault a frame can have, alone
and behind others; three of them cut after every token or with any one token
replaced; outputs that exceed the entry limit (8) or the total (9) only
together; texts compressed to `.Z` at both code widths, in both modes and with
CLEAR at several places, long enough to fill the dictionary, to widen the codes
and to end in the middle of a group, whole and cut; code sequences that mean
nothing; and every library coder with a sound, cut, continued and rejected input
under declared sizes and maxima below, at and above the truth. `ControlChunk` is
2, so reads end before, at and after it. *folder_codecs*: every sequence of
four LZMA operations of a small repertoire and a few long ones that reach
every state, repeat slot, length tree and distance model, under four property
triples; LZMA2 streams of up to three chunks of every control level; Deflate64
streams of up to two blocks of every kind, and blocks that are wrong in each way
the code tests; some of each cut after every byte or with one replaced; filters
over code that puts a branch at each place of a word, with addresses that wrap,
and the x86 filter over all short runs of the bytes its mask treats differently;
BCJ2 for every choice of converted branches. A budget of 20 or 30 runs out in
the middle of most of these.

**Fairness.** Each liveness property assumes only that the thread inside the
call keeps running: weak fairness of the library's own steps. It never assumes
that the token is set, that the budget runs out, that a writer, sink, decoder
or provider fails, or that a caller between two calls makes another
(`LibraryStep`, `Work` and `Progress` exclude these; in
`HeaderValidation` an interruption also ends the call, so fairness of `Next` as
a whole says no more). In `StreamSessions` fairness is that of `Progress` or of a
decoder's retry, so the library decoder is never assumed to leave a retry loop;
`SessionReturns` is therefore stated for sessions whose token stays unset, and
`cancelled_session` shows why. Callbacks are assumed to
return. All the liveness properties are of the form "the call returns".

### Findings

* **`FalseCandidatesAreSkipped`.** `src/COMPATIBILITY.md:181` lists "valid SFX
  after false candidates that fail checksums or candidate-local limits", and
  `parse_archive` behaves so. For volumes `archive_declares_more_bytes` runs
  first and propagates the limit error (`parser.rs:194`) or the overflow
  (`parser.rs:204`) of the first signature with an intact start header. The
  trace: two parts, a signature at offset 1 whose header size exceeds
  `max_header_bytes`, a complete archive at offset 2; the call returns
  `LimitExceeded`.
* **`AbsentPartIsNamed`.** `archive.rs:217` promises `MissingVolume` when a
  required part is absent. If the parts present are shorter than the signature
  (but not empty), the probe answers "no" (`parser.rs:227`) and the call
  returns a format error.

* **`CancelledSessionReturns`.** `src/docs/adr/0004-standalone-compressed-streams.md:47`
  says that cancellation applies to every standalone operation. `ControlledInput`
  reports a set token as `ErrorKind::Interrupted` (`stream/mod.rs:644`,
  `decode/codecs.rs:59`), which `Read::read_exact` retries without limit. The
  trace: a stream is opened, the token is set before the decoder reads its next
  header, and the decoder reads again for ever; the pump's checkpoint is never
  reached.
* **`ResetStreamsDecode`.** `src/COMPATIBILITY.md:96` lists LZMA2 with reset
  validation. A dictionary reset after the beginning of a stream
  (`lzma.rs:641`) moves only `dictionary_start`: `previous_byte` (`lzma.rs:661`)
  still sees the last byte before the reset and `position` (`lzma.rs:645`)
  counts the bytes before it, where the encoder restarts both. The trace: two
  stored chunks and then an LZMA chunk with a reset, whose literals are decoded
  in other contexts than they were written in, so that the last one comes out as
  another byte. `DecodesWhatWasEncoded` holds for all other streams.

`MissingIsRequired` and `OpenedIsComplete`, which pass, state what holds
instead: outside the first two cases the missing part is reported exactly when the
first credible header ends beyond the bytes.

## 4. Proofs

`MemberReaderProofs` proves, for every control-chunk size, buffer size, set of
caller buffers, member and initial budget:

| Theorem | States |
|---|---|
| `ReaderTypeCorrect` | `Spec => []TypeOK` |
| `ReaderSuccessIsVerified` | `Spec => []VerifiedSuccess` |
| `ReaderNoSpuriousChecksum` | `Spec => []NoSpuriousChecksum` |
| `ReaderRetrySafe` | `Spec => []RetrySafe` |
| `ReaderCancelledChargesNothing` | `Spec => CancelledChargesNothing` |

Assumptions: `U64MaxAssumption` and `MemberReaderAssumption`, which only say
that sizes are positive naturals and that members and budgets have their types.

*Argument.* `NoSpuriousChecksum` is not inductive: after a failed read the
digest is ahead of `position`, and a retry hashes bytes a second time, so the
digest really is wrong. It is never compared, because the reader cannot reach
its end any more. `FailureIsPermanent` says why: the token is sticky, or the
budget's headroom is smaller than what is left to read. The second half is
preserved because every hashed byte is charged, also on a retry, and reading on
reduces headroom and distance to the end by the same amount. `Phase` relates
the drivers' loop positions to `written` and `finishing`. The inductive
invariant is `IInv == TypeOK /\ RetrySafe /\ Phase /\ VerifiedSuccess /\
NoSpuriousChecksum`; there is one lemma per action, and lemmas on
`WorkBudget::charge` (`ChargeFacts`).

`ArchiveOpenProofs` proves, for every set of volume sets, of candidates, of
limits and of budgets:

| Theorem | States |
|---|---|
| `OpenAssemblyBounded` | `Spec => []AssemblyBounded` |
| `OpenHeadersBounded` | `Spec => []HeadersBounded` |
| `OpenCancelledStops` | `Spec => CancelledAssemblyStops` |
| `OpenAssembledInOrder` | `Spec => []AssembledInOrder` |
| `OpenedArchiveComplete` | `Spec => []OpenedIsComplete` |
| `MissingPartRequired` | `Spec => []MissingIsRequired` |

Assumptions: `VolumeAssumption`, `OpenAssumption` and `U64MaxAssumption` (the
constants have their types, a candidate has at least one header layer, no two
candidates start at one offset).

*Argument for the bounds.* They are not inductive. A read adds bytes without
looking at the limit again: `append_volume` admits the whole reported length
once, so `Assembling` keeps `Len(bytes) + remaining` within the limit while a
part is copied, and ties `Len(opens)` to `index`. `Scanning` says that a
candidate is examined only where the bytes have one, and `Resolving` that the
current header layer and its folder exist, so that what a layer declares has its
type; a folder's size is then admitted against what all layers before it left.
The inductive invariant is `OInv == Typed /\ Assembling /\ Scanning /\
Resolving`, with one lemma per action.

*Argument for the order and the search.* A second invariant, `SInv`, is inductive
on top of `OInv`. `Copying` says that the volume's position is the number of its
bytes that were copied, so that the next short read continues where the last one
stopped; the concatenation of the parts before it is a recursive function, whose
equations are proved first (existence and uniqueness, by least counterexample).
`Ended` keeps why the assembly ended: the provider lacked part `index`, or
`index` reached the limit. `Probing` says that no candidate before the one probed
was credible, which makes the probe's answer `needs_more` what the bytes say of
themselves (`CutShort`). `Examining` says that no candidate before the one
examined is complete and adds one check for every stage passed; a candidate whose
headers are resolved is complete. `MissingIsRequired` follows because the final
choice of an error turns every failure of the parser into `MissingVolume` exactly
when `needs_more` holds and a part was missing.

`FolderExecutionProofs` proves for every
set of raw folders with any number of coders, ports and bind pairs:

| Theorem | States |
|---|---|
| `GraphVerdict` | `Spec => []VerdictIsReference` |
| `TopologicalSchedule` | `Spec => []ScheduleIsTopological` |
| `ExecutorChecksNeverFire` | `Spec => []NoInternalError` |
| `RoutedStreams` | `Spec => []StreamsRoutedAsBound` |

Assumption: `RawFoldersAssumption`, what `parse_folder` guarantees of the folder
it returns.

*Argument.* The sort (`GInv`): the degree of a coder is the number of edges into
it that the two loops have not passed (`DegreesCount`, a cardinality), the queue
has no coder twice, and whatever is queued stands behind all it reads from
(`Ordered`). When the queue is drained, a queue as long as the coder list holds
every coder (`AllReady`, a counting argument), and an order of all coders leaves
no set of them waiting for each other: the one earliest in the queue waits for
nobody in the set. If the queue is shorter, the coders outside it are such a set.
The executor (`EInv`): an input port holds a stream exactly from the run of its
source, or the loading of its packed stream, until the run of its own coder
(`PackedHeld`, `BoundHeld`), an output's destination is there until its coder
takes it, and no packed stream that was loaded is lost from the ports
(`NoneLost`). The topological order then says that each check finds its stream,
and at the end the only port that can hold anything is the root's.

`EntryExtractionProofs` proves, for every set of validated archives and every
limit:

| Theorem | States |
|---|---|
| `MembersServed` | `Spec => []MembersGetTheirBytes` |
| `LimitsHold` | `Spec => []LimitsRespected` |
| `PromptCancellation` | `Spec => []CancellationIsPrompt` |
| `VerdictExact` | `Spec => []ExtractionVerdict` |
| `SinkProtocolImplemented` | `Spec => ImplementsSinkProtocol` |

Assumptions: `LimitsAssumption` (the limits are naturals, the control chunk is
positive) and `ExtractionAssumption` (the archives are what validation
constructs). That the entries of an accepted header are mapped in order
(`MappedInOrder`, part of `IsArchive`) is what `AcceptedModelIsSound` below proves of
the validator.

*Argument.* `Position` places the loop: every streamed entry before it has its
slot behind (`current_folder`, `next_substream`), and no other has; the lemmas on
`MappedInOrder` in `SolidArchiveProofs` say that the next streamed entry then has
the next slot, so the mapping checks cannot fire. `Delivering` says that
`folder_offset` is the end of the last member delivered and that every earlier
folder was used up exactly. `Totals` makes `total_folder_output` the sum over the
folders decoded, with `delivered` behind it by what is left of the current one.
For the verdict an error must come from a folder that really is not sound, not
tiled or over a limit: one lemma per reason (`RefusedIsNotTiled`,
`OverrunIsNotTiled`, ...). `Prompt` counts, for every place of the loop, the
calls that can still follow a set token. `Seen` relates the sink to the loop; with
it each action is a step of `EntrySinkProtocol` or leaves the mapped state alone.

`ArchiveVerificationProofs` proves, for every set of validated archives and every
limit:

| Theorem | States |
|---|---|
| `VerifyVerdictExact` | `Spec => []VerifyVerdict` |
| `FirstCorruption` | `Spec => []FirstCorruptionReported` |
| `OpenedSlice` | `Spec => []OpenedIsItsSlice` |

Assumptions: `LimitsAssumption` and `VerificationAssumption`, as above.

*Argument.* While `verify` runs, all folders before the current one are good
(`Reached`), `total_output` is the sum over additional and main folders so far
(`Counted`), the substreams before the current one end where their sizes say and
have the right CRC (`Verified`), and the entries passed are those whose slot lies
behind (`Mapped`), the last of them the one whose CRC is being compared. So a
wrong CRC is the archive's first in the order of `Precedes`, which is defined on
the archive alone (`FirstOfFolder`), and every other error is due to a folder or
a total that does not fit (`Misfits`, `TooMuch`). That what verifies can be extracted is a statement about the
archive alone (`VerifiedIsExtractable`): extraction decodes a subset of the
folders, and a sum over a subset is no larger. `Opening` is the same for
`open_member`, whose preflight admits one folder with the whole total limit.

`StreamSessionsProofs` proves, for every set of inputs, every limit and every width
of a byte:

| Theorem | States |
|---|---|
| `StreamSessionInvariant` | `Spec => []StreamInvariant`, the inductive invariant below |
| `SessionsPumpInOrder` | `Spec => []PumpedInOrder` |
| `SessionsPayForOutput` | `Spec => []OutputPaidAndBounded` |
| `LzwStaysAccounted` | `Spec => []LzwAccounted` |

Assumptions: `PumpAssumption` (tokens, sizes and limits are naturals, the control
chunk is positive), `LzwAssumption` (a byte has at least one bit) and
`U64MaxAssumption`. The input is arbitrary: no theorem assumes that a writer made
it.

*Walks and decoders.* What a frame table or a decoder makes of an input is a
function defined by recursion on a place in the input (`FrameTokens`). That the
function exists, and what its values are, is shown by descent on what is left of
the input: a place where it fails would have a successor closer to the end where
it fails too. From it follow that blocks, frames and units have their types, that
a frame ends behind its start and within the input, and that decoding depends on
where the frame starts only in the places its units name (`SameDecoding`).
Lemmas on `FlattenSeq` come from the same argument on its prefixes.

*Argument.* The three properties say little about the middle of a call; the
invariant is `Phases /\ Typed /\ FrameBound /\ LzwSound /\ Admitted /\ Paid /\
InOrder`.

* `FrameBound`: while a frame's decoder runs, its source is the range that the
  layout gives the frame, so that `consumed = Len(source)` in `finish_frame`
  really is the length of the frame.
* `Paid`: at every place of the code, what was charged covers what was taken and
  given so far, the read not yet written included. Frames that are finished are
  counted by the length of their input (`PaidFrames`), and `ResultPaid` carries
  the sum over the return.
* `Admitted`: the output is within the limits. It holds because every write is
  admitted with the length it leads to; the write of an expansion needs the
  length of its reversed tail.
* `InOrder`: the output is what the frames before gave (`Written`), followed by
  the decoder's first `Given` units; between a read and its write the last `read`
  of them are the chunk in hand (`ReadFollows`). A loop that ended has given all of
  the units, and only a decoder whose verdict is not "end" fails (`Placed`). With
  `CoderBound`, which says that a coder's decoder is the one of its input, `Ok` is
  returned by an undisturbed coder exactly on an intact stream.
* `LzwSound`: every entry above the literals leads to an earlier one, and while a
  chain is walked the bytes found so far and the code at hand together stay below
  `next_code` (`ChainSound`), so that a chain cannot run in a cycle and cannot be
  longer than the dictionary. The statement has to be about
  the entries below `next_code` only, because a CLEAR code leaves the old ones in
  the table; KwKwK is the code equal to `next_code`, whose chain starts at the
  previous code. The reader's group is a multiple of the code width until it is
  dropped (`ReaderSound`), which is what the refill relies on.

Each conjunct has a lemma with one step per action; the actions of the pump are
shared by streams and coders, so that each of these steps covers both.

`HeaderMeaningProofs` proves, for every sequence of tokens, any content of the
additional streams and every limit:

| Theorem | States |
|---|---|
| `HeaderCounts` | `Spec => []HeaderInvariant`, the inductive invariant below |
| `VectorsAgree` | `Spec => []CountsAgree` |
| `HeaderModels` | `Spec => []ModelInvariant`, the inductive invariant of the validator |
| `AcceptedModelIsSound` | `Spec => []ModelSound` |

Assumptions: `FormatAssumption` (tokens are naturals no longer than the header limit,
limits are naturals, a coder has at least one input and one output, as `parse_coder`
demands, and is refused with one of the parser's errors) and `EnvelopeAssumption`.
The verdict on the coder graph is an arbitrary function of the folder.

*Argument, counts.* The parser counts the sizes and CRCs that a SubStreamsInfo lists before
it reads them (`explicit`, `DigestCount`), the validator counts what each folder
takes of them while it builds the members (`SizesTaken`, `CrcsTaken`), under
conditions that are written differently and look at different records: the parser
has the folders' CRCs of the UnpackInfo, the validator those of the drafts. Both are
shown to be sums of the same terms (`SizeTerms`, `CrcTerms`). `StreamsRead` says that
the vectors read have as many elements as the sums of all folders, and survives
every later record because a SubStreamsInfo can only follow the UnpackInfo it
counts for; `CursorsCount` says that the validator's cursors are the sums of the
folders built so far. A prefix of the sum is no more than the sum, so that neither
vector runs out, and after the last folder the cursors are at its end. That the
folders read are a sequence at all is shown by descent on how many were read
(`FoldersAreRead`).

*Argument, model.* `ModelSound` speaks of the whole model and only of the end;
`ModelInvariant` says what each step contributes.

* Packed streams: `validate_pack_ranges` places each stream behind the one before it
  and checks the sum against the end of the data, so that a section's streams are in
  order (`PacksInPlace`) and all lie under the one range recorded for the section,
  unless they are empty (`Covered`). Sections are told apart by their ranges
  (`RangesApart`): two sections never share one, and since `check_non_overlapping_ranges` found no
  overlap, streams of different sections are disjoint where they have bytes.
* Folders: a draft's `first_pack` is the sum of what the drafts before it take, and
  the sum over all is the number of packed streams (`SectionDrafted`), which gives
  `PacksDealtOut`. A folder is built from the cursors; an explicit size list gives the
  last member what is left of the folder, after the checked subtraction, so that
  sizes that are all known fill it (`FolderBuilt`).
* Entries: the members in order of folder and substream are a flattened sequence
  without repetition (`Before` orders it strictly), and the k-th entry with data takes
  its k-th element (`Streams`). As the validator refuses a count that differs from
  the number of members, the entries are mapped to all of them. External properties
  change other fields of an entry only.

The typing it needs comes from `HeaderInvariant`, which `HeaderModels` uses as a
theorem already proved. `ModelInvariant` was checked by TLC on the instance of the
`header_meaning` run before it was proved.

`SolidArchiveProofs` holds what the others need. Sums of sizes are recursive
functions; their equations, that a prefix sum grows and that a sum over
more folders is larger, are proved from `LeastNatural`: every nonempty set of
naturals has a least element, so that a property of naturals that fails has a
least counterexample. This takes the place of induction, because the library's
induction theorems have an operator as parameter.

Only model-checked:

* liveness, because the prover does not reason about fairness;
* `LzwRoundTrip` and `StreamVerdict`. The first says that the decoder inverts a
  writer for every text, the second that the walk over a written file finds the
  frames it was written from: both are inductions over data, and both refer to
  what only the jobs of the MC module carry (the text, the frames).
* `DecodesWhatWasEncoded`, `CutStreamsFail`, `FiltersInvert` and `LzmaStateSound`
  of `FolderCodecs`, `DeclaredIsParsed` of `HeaderMeaning`. All but one compare the
  code with an encoder or a written header, defined by folds over bytes and tokens:
  induction over data again. `LzmaStateSound` is stated over a module that computes with recursive folds over
  bit trees, and its invariant would need the same inductions for the operators it
  goes through.

## 5. Not modelled, and why

* *PPMd*: 2700 lines of one numeric algorithm whose model tree is defined by its
  own allocator arithmetic (unit sizes, free lists, rescaling thresholds). Scaled
  down it is another model, and the only reference for it would be a second
  transcription of the same code. In `FolderExecution` it is a coder that gives a
  stream or fails.
* *AES, key derivation, passwords*: cryptography, functions of bytes with nothing
  smaller that is still the same function.
* *ARM64, IA-64 and RISC-V filters*: their immediates are scattered over the bits
  of 32- and 128-bit words, which does not survive the scaling of a word.
* *CRC-32*: a digest stands for the bytes it covers.
* *The library codecs' own bodies*: outside the repository.
* *Limits, error type, path policy*: plain data and pure predicates on text; the
  limits are constants of the modules and the error kinds are their results.
* *Python bindings*: they convert arguments, results and errors; the callback
  bridge keeps one exception, serialised by the interpreter lock, which is
  outside the repository. *Command line*: argument handling and printing.

## 6. Plan

1. Core operations of an opened archive and its opening.
2. `open_member` and `verify`, against the same folder verdicts as the
   extraction pass (`SolidArchive`, `ArchiveVerification`).
3. Header validation (`raw.rs`, `validate.rs`): pack ranges, substream sizes
   and CRC vectors against a reference, mapping of entries to substreams. `ModelSound`
   shows the assumption `MappedInOrder` of `SolidArchive`.
4. External properties (`metadata.rs`).
5. Standalone streams: LZ4 and Zstandard frame loops, the `.Z` dictionary, and
   the pump they share with the library coders.
6. LZMA, LZMA2, Deflate64 and the filters against encoders. Items 1 to 6 are done.
7. Theorems. Done: the member reader, the graph sort and its verdict, routing and
   the unreachability of the executor's internal errors, assembly in order, the
   header search and the missing part, extraction with its refinement of the sink
   protocol, verification and `open_member`, and the sessions: output bounded and
   paid for, units pumped in order, the dictionary sound. Of the header,
   that the counts of the parser and the validator agree, and that what is accepted
   is sound. Left: of LZMA that the range, the code and the probabilities stay in
   their bounds (`LzmaStateSound`).
