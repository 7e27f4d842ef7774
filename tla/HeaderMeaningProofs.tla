------------------------ MODULE HeaderMeaningProofs ------------------------
(***************************************************************************)
(* Proofs about the parser and the validator of a next header, for every   *)
(* sequence of tokens and all limits: what the one counts is what the      *)
(* other consumes, and a header that is accepted gives a model that the    *)
(* decoders may rely on.                                                   *)
(***************************************************************************)
EXTENDS HeaderMeaning, FiniteSetTheorems, SequenceTheorems, TLAPS

\* Sums, and the least of a set of naturals.
Sums == INSTANCE SolidArchiveProofs WITH ControlChunk <- 1, MaxTotalOutput <- U64Max,
                                         MaxEntryOutput <- U64Max

\* They may be used: the limits that the archive's facts are about are limits.
LEMMA ArchiveLimits == Sums!LimitsAssumption
  BY FormatAssumption DEF Sums!LimitsAssumption

-----------------------------------------------------------------------------
\* A sequence, whatever its elements.
IsSequence(s) == Len(s) \in Nat /\ s = [i \in 1..Len(s) |-> s[i]]

\* What a call of the parser or the validator returns.
Outcomes == Verdicts \cup {"none", "Interrupted"}

\* Sizes that SubStreamsInfo holds, folder by folder.
SizeTerms(counts) == [k \in DOMAIN counts |-> IF counts[k] > 0 THEN counts[k] - 1 ELSE 0]

\* CRCs that it holds, folder by folder.
CrcTerms(counts, crcs) ==
    [k \in DOMAIN counts |-> IF Inherits(counts[k], FolderCrc(crcs, k)) THEN 0 ELSE counts[k]]

\* A SubStreamsInfo that belongs to the folders of an UnpackInfo.
SubstreamsRead(unpack, substreams) ==
    /\ substreams.counts \in [1..Len(unpack.folders) -> Nat]
    /\ \/ substreams.sizes = None
       \/ \E s : /\ substreams.sizes = Some(s) /\ Len(s) = Total(SizeTerms(substreams.counts))
                 /\ \A i \in DOMAIN s : s[i] \in Int
    /\ \/ substreams.crcs = None
       \/ \E c : substreams.crcs = Some(c) /\ Len(c) = Total(CrcTerms(substreams.counts, unpack.crcs))

\* A PackInfo whose fields were all there.
PackRead(p) ==
    /\ p.position \in Nat
    /\ p.sizes = None \/ \E n \in Nat : \E v \in [1..n -> Nat] : p.sizes = Some(v)

\* A folder with as many packed streams as the coders leave inputs unbound.
FolderRead(f) ==
    /\ f = [coders |-> f.coders, binds |-> f.binds, packed |-> f.packed,
            packed_streams |-> f.packed_streams, outputs |-> f.outputs, sizes |-> f.sizes]
    /\ f.packed_streams \in Nat /\ f.outputs \in Nat
    /\ \A i \in DOMAIN f.sizes : f.sizes[i] \in Int

\* Folders of an UnpackInfo, in a sequence.
FolderList(folders) == IsSequence(folders) /\ \A k \in 1..Len(folders) : FolderRead(folders[k])

\* The fields of a StreamsInfo that were read.
StreamsRead(r) ==
    /\ r = [pack |-> r.pack, unpack |-> r.unpack, substreams |-> r.substreams]
    /\ r.pack = None \/ \E p : r.pack = Some(p) /\ PackRead(p)
    /\ r.unpack = None \/ \E u : r.unpack = Some(u) /\ FolderList(u.folders)
    /\ \/ r.substreams = None
       \/ \E m : r.unpack # None /\ r.substreams = Some(m) /\ SubstreamsRead(r.unpack[1], m)

\* The number of entries that a FilesInfo begins with, and its properties.
FilesRead(f) == f = [count |-> f.count, properties |-> f.properties] /\ f.count \in Nat

\* A header that was read.
HeaderRead(h) ==
    /\ h = [kind |-> h.kind, properties |-> h.properties, additional |-> h.additional,
            main |-> h.main, files |-> h.files, pending |-> h.pending]
    /\ h.additional = None \/ \E r : h.additional = Some(r) /\ StreamsRead(r)
    /\ h.main = None \/ \E r : h.main = Some(r) /\ StreamsRead(r)
    /\ h.files = None \/ \E f : h.files = Some(f) /\ FilesRead(f)
    /\ h.kind = "pending" => \E q : h.pending = Some(q) /\ q.index \in Nat

\* The stream that the second pass reads the folders from.
ExternalRead == external = None \/ \E x : external = Some(x) /\ x.data \in Seq(0..U64Max)

\* The validator is at a section that has folders.
InSection ==
    /\ section < Len(Sections)
    /\ Raw.unpack # None /\ Raw.pack # None

\* Where build_substreams stands in the two vectors.
CursorsCount ==
    /\ drafts = Drafts(Raw.unpack[1])
    /\ IsSequence(built) /\ Len(built) <= Len(drafts)
    /\ size_cursor = IF ExplicitSizes = None THEN 0 ELSE Sums!Total(SizeTerms(Counts), Len(built))
    /\ crc_cursor = IF ExplicitCrcs = None THEN 0
                    ELSE Sums!Total(CrcTerms(Counts, Raw.unpack[1].crcs), Len(built))

\* The decoded stream that the external folders are in.
PendingFound == \E q : /\ raw.pending = Some(q) /\ q.index \in Nat
                      /\ q.index < Len(input.streams)

\* What has been read at every place of the parser and the validator.
HeaderInvariant ==
    /\ input \in Inputs /\ result \in Outcomes /\ section \in Nat
    /\ StreamsRead(streams) /\ HeaderRead(raw) /\ cursor \in Nat \ {0} /\ ExternalRead
    /\ pc = "resolve" => PendingFound
    /\ pc = "sizes" => streams.unpack # None /\ streams.substreams = None
    /\ pc \in {"folders", "substreams"} => InSection
    /\ pc = "substreams" => CursorsCount
-----------------------------------------------------------------------------
\* What is read is a token or the end.
LEMMA AtTyped ==
    ASSUME NEW s \in Seq(0..U64Max), NEW i
    PROVE  /\ At(s, i) \in Int /\ (At(s, i) # Eof => At(s, i) \in Nat /\ i \in 1..Len(s))
           /\ i \in 1..Len(s) => At(s, i) \in Nat
  <1>1. U64Max \in Nat
    BY FormatAssumption
  <1>2. CASE i \in DOMAIN s
    <2>0. Len(s) \in Nat /\ i \in 1..Len(s)
      BY <1>2
    <2>1. s[i] \in 0..U64Max
      BY <2>0, ElementOfSeq
    <2> QED BY <1>1, <1>2, <2>0, <2>1 DEF At
  <1>3. CASE i \notin DOMAIN s
    <2>1. i \notin 1..Len(s)
      BY <1>3
    <2> QED BY <1>3, <2>1 DEF At, Eof
  <1> QED BY <1>2, <1>3

\* A token of the header, or the end of it.
LEMMA TokTyped ==
    ASSUME input \in Inputs, NEW i
    PROVE  /\ Len(input.tokens) \in Nat
           /\ Tok(i) \in Int /\ (Tok(i) # Eof => Tok(i) \in Nat /\ i \in 1..Len(input.tokens))
           /\ i \in 1..Len(input.tokens) => Tok(i) \in Nat
  <1>1. input.tokens \in Seq(0..U64Max)
    BY FormatAssumption
  <1> QED BY <1>1, AtTyped DEF Tok

\* A list of checks gives the error of one that fails.
LEMMA VerdictIsCheck ==
    ASSUME NEW n \in Nat, NEW checks, DOMAIN checks = 1..n
    PROVE  Verdict(checks) = "Ok" \/ \E i \in 1..n : checks[i][1] /\ Verdict(checks) = checks[i][2]
  <1> DEFINE failing == {i \in DOMAIN checks : checks[i][1]}
  <1>1. CASE failing = {}
    BY <1>1 DEF Verdict
  <1>2. CASE failing # {}
    <2>1. failing \in SUBSET Nat
      OBVIOUS
    <2>2. \E m \in failing : \A j \in failing : m <= j
      <3> HIDE DEF failing
      <3> QED BY <2>1, <1>2, ArchiveLimits, Sums!LeastNatural
    <2>3. Min(failing) \in failing
      <3> HIDE DEF failing
      <3> QED BY <2>2 DEF Min
    <2>4. Verdict(checks) = checks[Min(failing)][2]
      BY <1>2 DEF Verdict
    <2> QED BY <2>3, <2>4
  <1> QED BY <1>1, <1>2

\* The sum of a sequence is the last of its partial sums.
LEMMA TotalIsSum ==
    ASSUME NEW n \in Nat, NEW v \in [1..n -> Int]
    PROVE  Total(v) = Sums!Total(v, n)
  <1>1. Len(v) = n
    OBVIOUS
  <1> QED BY <1>1 DEF Total, Sums!Total, Sums!PartialSums

\* How a sum grows, one addend at a time.
LEMMA SumFacts ==
    ASSUME NEW n \in Nat, NEW v \in [1..n -> Nat]
    PROVE  /\ Sums!Total(v, 0) = 0 /\ Total(v) = Sums!Total(v, n)
           /\ \A m \in 0..n : Sums!Total(v, m) \in Nat /\ Sums!Total(v, m) <= Total(v)
           /\ \A m \in 1..n : Sums!Total(v, m) = Sums!Total(v, m - 1) + v[m]
  <1>1. v \in [1..n -> Int]
    OBVIOUS
  <1>2. /\ Sums!Total(v, 0) = 0 /\ \A m \in 0..n : Sums!Total(v, m) \in Int
        /\ \A m \in 1..n : Sums!Total(v, m) = Sums!Total(v, m - 1) + v[m]
    BY <1>1, ArchiveLimits, Sums!TotalFacts
  <1>3. Total(v) = Sums!Total(v, n)
    BY <1>1, TotalIsSum
  <1>4. ASSUME NEW m \in 0..n PROVE Sums!Total(v, m) \in Nat /\ Sums!Total(v, m) <= Sums!Total(v, n)
    <2>1. 0 \in 0..n /\ m \in 0..n /\ n \in m..n
      OBVIOUS
    <2>2. \A j \in 0..n : Sums!Total(v, 0) <= Sums!Total(v, j)
      BY <2>1, ArchiveLimits, Sums!TotalsGrow
    <2>3. \A j \in m..n : Sums!Total(v, m) <= Sums!Total(v, j)
      BY <2>1, ArchiveLimits, Sums!TotalsGrow
    <2> QED BY <1>2, <2>1, <2>2, <2>3
  <1> QED BY <1>2, <1>3, <1>4

\* A sum of naturals is one.
LEMMA TotalIsNatural ==
    ASSUME NEW n \in Nat, NEW v \in [1..n -> Nat]
    PROVE  Total(v) \in Nat
  <1>1. n \in 0..n
    OBVIOUS
  <1>2. Total(v) = Sums!Total(v, n) /\ \A m \in 0..n : Sums!Total(v, m) \in Nat
    BY SumFacts
  <1> QED BY <1>1, <1>2

\* Both vectors have room for what one folder takes of them.
LEMMA TermsTyped ==
    ASSUME NEW n \in Nat, NEW counts \in [1..n -> Nat], NEW crcs
    PROVE  SizeTerms(counts) \in [1..n -> Nat] /\ CrcTerms(counts, crcs) \in [1..n -> Nat]
  BY DEF SizeTerms, CrcTerms

\* The coders' verdicts.
LEMMA CoderVerdicts ==
    ASSUME NEW token
    PROVE  CoderOf(token).parse \in Verdicts /\ CoderOf(token).properties \in Verdicts
  BY FormatAssumption DEF CoderOf, Verdicts

\* A function on 1..n is a sequence; so is what Append makes of one.
LEMMA MappedSequence ==
    ASSUME NEW n \in Nat, NEW T, NEW f \in [1..n -> T]
    PROVE  f \in Seq(T) /\ Len(f) = n
  OBVIOUS

\* An element more makes a sequence one longer.
LEMMA SequenceGrows ==
    ASSUME NEW s, IsSequence(s), NEW e
    PROVE  /\ IsSequence(Append(s, e)) /\ Len(Append(s, e)) = Len(s) + 1
           /\ Append(s, e)[Len(s) + 1] = e
           /\ \A i \in 1..Len(s) : Append(s, e)[i] = s[i]
  <1> DEFINE n == Len(s)
             S == {s[i] : i \in 1..n} \cup {e}
             g == [i \in 1..n |-> s[i]]
  <1>1. n \in Nat /\ s = g
    BY DEF IsSequence
  <1>2. g \in [1..n -> S] /\ e \in S
    OBVIOUS
  <1>3. g \in Seq(S)
    <2> HIDE DEF S, g, n
    <2> QED BY <1>1, <1>2, MappedSequence
  <1>4. Append(g, e) \in Seq(S) /\ Len(Append(g, e)) = n + 1 /\ Len(g) = n
    <2> HIDE DEF S, g
    <2> QED BY <1>1, <1>2, <1>3
  <1>5. Append(g, e) \in [1..(n + 1) -> S]
    <2> HIDE DEF S, g, n
    <2> QED BY <1>4, LenProperties
  <1>6. Append(g, e) = [i \in 1..(n + 1) |-> Append(g, e)[i]]
    <2> HIDE DEF S, g
    <2> QED BY <1>5
  <1>7. IsSequence(Append(g, e))
    <2> HIDE DEF S, g, n
    <2> QED BY <1>1, <1>4, <1>6 DEF IsSequence
  <1>8. Append(g, e)[n + 1] = e /\ \A i \in 1..n : Append(g, e)[i] = g[i]
    <2> HIDE DEF S, g
    <2> QED BY <1>1, <1>3, <1>4
  <1> QED BY <1>1, <1>4, <1>7, <1>8

\* A function on 1..n is a sequence, whatever its values are.
LEMMA FunctionIsSequence ==
    ASSUME NEW n \in Nat, NEW f, f = [i \in 1..n |-> f[i]]
    PROVE  IsSequence(f) /\ Len(f) = n
  <1> DEFINE S == {f[i] : i \in 1..n}
  <1>1. f \in [1..n -> S]
    OBVIOUS
  <1>2. Len(f) = n
    <2> HIDE DEF S
    <2> QED BY <1>1, MappedSequence
  <1> QED BY <1>2 DEF IsSequence

-----------------------------------------------------------------------------
\* One list of one sequence, or no list.
LEMMA FlattenOptional ==
    ASSUME NEW s
    PROVE  FlattenSeq(None) = None /\ FlattenSeq(Some(s)) = s
  <1> DEFINE one == <<s>>
             P(f) == f = [i \in 1..Len(one) |-> IF i = 1 THEN one[i] ELSE f[i - 1] \o one[i]]
             g == CHOOSE f : P(f)
             h == [i \in 1..1 |-> s]
  <1>1. Len(one) = 1 /\ one[1] = s
    OBVIOUS
  <1>2. P(h)
    BY <1>1
  <1>3. P(g)
    <2> HIDE DEF P
    <2> QED BY <1>2
  <1>4. g[1] = s
    <2>1. 1 \in 1..Len(one)
      BY <1>1
    <2> HIDE DEF g
    <2> QED BY <1>1, <1>3, <2>1
  <1>5. FlattenSeq(one) = g[Len(one)]
    BY <1>1 DEF FlattenSeq
  <1>6. FlattenSeq(None) = None
    BY DEF FlattenSeq, None
  <1> QED BY <1>1, <1>4, <1>5, <1>6 DEF Some

\* Folders read so far, and the verdict on the first one that was refused.
FoldersRead(read) ==
    /\ read = [folders |-> read.folders, next |-> read.next, verdict |-> read.verdict,
               coders |-> read.coders, streams |-> read.streams]
    /\ FolderList(read.folders) /\ read.next \in Nat \ {0} /\ read.verdict \in Verdicts

\* If a list of checks passes, each of them does.
LEMMA VerdictPasses ==
    ASSUME NEW n \in Nat, NEW checks, DOMAIN checks = 1..n, Verdict(checks) = "Ok",
           \A i \in 1..n : checks[i][1] => checks[i][2] # "Ok"
    PROVE  \A i \in 1..n : ~checks[i][1]
  <1> DEFINE failing == {i \in DOMAIN checks : checks[i][1]}
  <1>1. SUFFICES ASSUME failing # {} PROVE FALSE
    OBVIOUS
  <1>2. \E m \in failing : \A j \in failing : m <= j
    <2>1. failing \in SUBSET Nat
      OBVIOUS
    <2> HIDE DEF failing
    <2> QED BY <2>1, <1>1, ArchiveLimits, Sums!LeastNatural
  <1>3. Min(failing) \in failing
    <2> HIDE DEF failing
    <2> QED BY <1>2 DEF Min
  <1>4. Verdict(checks) = checks[Min(failing)][2]
    BY <1>1 DEF Verdict
  <1> QED BY <1>3, <1>4

\* What a coder is bound by: it has inputs and outputs.
LEMMA CoderPorts ==
    ASSUME NEW token
    PROVE  CoderOf(token).inputs \in Nat \ {0} /\ CoderOf(token).outputs \in Nat \ {0}
  BY FormatAssumption DEF CoderOf

\* A sum with a positive addend first is positive.
LEMMA TotalIsPositive ==
    ASSUME NEW n \in Nat \ {0}, NEW v \in [1..n -> Nat \ {0}]
    PROVE  Total(v) \in Nat \ {0}
  <1>1. v \in [1..n -> Nat] /\ n \in Nat /\ 1 \in 0..n /\ 1 \in 1..n /\ 0 = 1 - 1
    OBVIOUS
  <1>2. /\ Sums!Total(v, 0) = 0 /\ Sums!Total(v, 1) = Sums!Total(v, 0) + v[1]
        /\ Sums!Total(v, 1) <= Total(v)
    BY <1>1, SumFacts
  <1>3. Total(v) \in Nat
    BY <1>1, TotalIsNatural
  <1> QED BY <1>1, <1>2, <1>3

\* One folder more, or the same folders with a verdict.
LEMMA FolderIsRead ==
    ASSUME NEW s \in Seq(0..U64Max), NEW read, FoldersRead(read)
    PROVE  FoldersRead(ParseFolder(s, read))
  <1> DEFINE count   == At(s, read.next)
             coders  == Fields(s, read.next + 1, count)
             refused == {k \in DOMAIN coders : CoderOf(coders[k]).parse # "Ok"}
             inputs  == Total(Map(LAMBDA c : CoderOf(c).inputs, coders))
             outputs == Total(Map(LAMBDA c : CoderOf(c).outputs, coders))
             binds   == read.next + 1 + count
             packed  == inputs - (outputs - 1)
             listed  == binds + 2 * (outputs - 1)
             next    == IF packed > 1 THEN listed + packed ELSE listed
             early   == << <<count \in {Eof, 0}, "Format">>,
                           <<count > Limits.coders_per_folder, "LimitExceeded">>,
                           <<read.coders + count > Limits.coders, "LimitExceeded">> >>
             late    == << <<inputs + outputs > Limits.streams_per_folder, "LimitExceeded">>,
                           <<read.streams + inputs + outputs > Limits.streams, "LimitExceeded">>,
                           <<inputs < outputs, "Format">>,
                           <<next > Len(s) + 1, "Format">> >>
             first   == CoderOf(coders[Min(refused)]).parse
             verdict == IF Verdict(early) # "Ok" THEN Verdict(early)
                        ELSE IF refused # {} THEN first ELSE Verdict(late)
             folder  == [coders |-> coders,
                         binds  |-> [k \in 1..(outputs - 1) |-> Fields(s, binds + 2 * (k - 1), 2)],
                         packed |-> IF packed > 1 THEN Fields(s, listed, packed) ELSE <<>>,
                         packed_streams |-> packed, outputs |-> outputs, sizes |-> <<>>]
  <1>1. ParseFolder(s, read) =
            IF read.verdict # "Ok" THEN read
            ELSE IF verdict # "Ok" THEN [read EXCEPT !.verdict = verdict]
            ELSE [folders |-> Append(read.folders, folder), next |-> next, verdict |-> "Ok",
                  coders |-> read.coders + count, streams |-> read.streams + inputs + outputs]
    BY DEF ParseFolder
  <1>2. Verdict(early) \in Verdicts
    <2>1. DOMAIN early = 1..3 /\ \A i \in 1..3 : early[i][2] \in Verdicts
      BY DEF Verdicts
    <2> HIDE DEF early
    <2> QED BY <2>1, VerdictIsCheck DEF Verdicts
  <1>3. Verdict(late) \in Verdicts /\ first \in Verdicts
    <2>1. first \in Verdicts
      <3> HIDE DEF refused
      <3> QED BY CoderVerdicts
    <2>2. DOMAIN late = 1..4 /\ \A i \in 1..4 : late[i][2] \in Verdicts
      <3> HIDE DEF inputs, outputs, next
      <3> QED BY DEF Verdicts
    <2> HIDE DEF late, first
    <2> QED BY <2>1, <2>2, VerdictIsCheck DEF Verdicts
  <1>4. verdict \in Verdicts
    <2> HIDE DEF early, late, first, refused
    <2> QED BY <1>2, <1>3
  <1>5. ASSUME verdict = "Ok"
        PROVE  count \in Nat \ {0} /\ ~(inputs < outputs)
    <2>1. Verdict(early) = "Ok" /\ (refused = {} => Verdict(late) = "Ok") /\ (refused # {} => first = "Ok")
      <3> HIDE DEF early, late, refused, first
      <3> QED BY <1>5
    <2>2. ~early[1][1]
      <3>1. 3 \in Nat /\ 1 \in 1..3 /\ DOMAIN early = 1..3 /\ \A i \in 1..3 : early[i][2] # "Ok"
        OBVIOUS
      <3> HIDE DEF early
      <3> QED BY <2>1, <3>1, VerdictPasses
    <2>3. count \in Nat \ {0}
      BY <2>2, AtTyped DEF Eof
    <2>4. refused = {}
      <3>1. SUFFICES ASSUME refused # {} PROVE FALSE
        OBVIOUS
      <3>2. DOMAIN coders = 1..count
        <4> HIDE DEF count
        <4> QED BY <2>3 DEF Fields, Eof
      <3>3. refused \in SUBSET Nat
        <4> HIDE DEF coders
        <4> QED BY <2>3, <3>2
      <3>4. \E m \in refused : \A j \in refused : m <= j
        <4> HIDE DEF refused
        <4> QED BY <3>1, <3>3, ArchiveLimits, Sums!LeastNatural
      <3>5. Min(refused) \in refused
        <4> HIDE DEF refused
        <4> QED BY <3>4 DEF Min
      <3> HIDE DEF coders
      <3> QED BY <2>1, <3>1, <3>5
    <2>5. ~late[3][1]
      <3> HIDE DEF refused, coders, inputs, outputs, next
      <3>1. 4 \in Nat /\ 3 \in 1..4 /\ DOMAIN late = 1..4 /\ \A i \in 1..4 : late[i][2] # "Ok"
        OBVIOUS
      <3> HIDE DEF late
      <3> QED BY <2>1, <2>4, <3>1, VerdictPasses
    <2>6. late[3][1] = (inputs < outputs)
      <3> HIDE DEF inputs, outputs, refused, next
      <3> QED OBVIOUS
    <2> HIDE DEF late
    <2> QED BY <2>3, <2>5, <2>6
  <1>6. ASSUME verdict = "Ok"
        PROVE  packed \in Nat \ {0} /\ outputs \in Nat \ {0} /\ next \in Nat \ {0}
    <2>1. count \in Nat \ {0} /\ ~(inputs < outputs)
      BY <1>5, <1>6
    <2>2. DOMAIN coders = 1..count
      <3> HIDE DEF count
      <3> QED BY <2>1 DEF Fields, Eof
    <2> HIDE DEF coders, count
    <2>3. /\ Map(LAMBDA c : CoderOf(c).inputs, coders) \in [1..count -> Nat \ {0}]
          /\ Map(LAMBDA c : CoderOf(c).outputs, coders) \in [1..count -> Nat \ {0}]
      BY <2>2, CoderPorts DEF Map
    <2>4. inputs \in Nat \ {0} /\ outputs \in Nat \ {0}
      BY <2>1, <2>3, TotalIsPositive
    <2>5. read.next \in Nat \ {0}
      BY DEF FoldersRead
    <2> HIDE DEF inputs, outputs
    <2> QED BY <2>1, <2>4, <2>5
  <1> HIDE DEF verdict, next, count, inputs, outputs, coders, packed, binds, listed
  <1>7. CASE read.verdict # "Ok"
    BY <1>1, <1>7
  <1>8. CASE read.verdict = "Ok" /\ verdict # "Ok"
    BY <1>1, <1>4, <1>8 DEF FoldersRead
  <1>9. CASE read.verdict = "Ok" /\ verdict = "Ok"
    <2>1. FolderRead(folder)
      BY <1>6, <1>9 DEF FolderRead
    <2> HIDE DEF folder
    <2>2. FolderList(Append(read.folders, folder))
      <3>1. /\ IsSequence(read.folders) /\ Len(read.folders) \in Nat
            /\ \A k \in 1..Len(read.folders) : FolderRead(read.folders[k])
        BY DEF FoldersRead, FolderList, IsSequence
      <3> QED BY <2>1, <3>1, SequenceGrows DEF FolderList
    <2> QED BY <1>1, <1>6, <1>9, <2>2 DEF FoldersRead, Verdicts
  <1> QED BY <1>7, <1>8, <1>9

\* parse_folders: a verdict, and the folders that it is about.
LEMMA FoldersAreRead ==
    ASSUME NEW s \in Seq(0..U64Max), NEW from \in Nat \ {0}, NEW count \in Nat
    PROVE  FoldersRead(ParseFolders(s, from, count))
  <1> DEFINE start == [folders |-> <<>>, next |-> from, verdict |-> "Ok",
                       coders |-> totals.coders, streams |-> totals.streams]
             R(n, f) == f = [k \in 0..n |-> IF k = 0 THEN start ELSE ParseFolder(s, f[k - 1])]
             Good(f, n) == \A k \in 0..n : FoldersRead(f[k])
             Bad == {n \in Nat : ~\E f : R(n, f)}
             read == CHOOSE f : R(count, f)
             Wrong == {k \in 0..count : ~FoldersRead(read[k])}
  <1>1. FoldersRead(start)
    <2>1. FolderList(<<>>)
      BY DEF IsSequence, FolderList
    <2> QED BY <2>1 DEF FoldersRead, Verdicts
  <1>2. ASSUME Bad # {} PROVE FALSE
    <2>1. PICK b \in Bad : \A m \in Bad : b <= m
      <3>1. Bad \in SUBSET Nat
        OBVIOUS
      <3> HIDE DEF Bad
      <3> QED BY <3>1, <1>2, ArchiveLimits, Sums!LeastNatural
    <2>2. b # 0
      <3>1. R(0, [k \in 0..0 |-> start])
        BY DEF R
      <3> HIDE DEF R
      <3> QED BY <3>1
    <2>3. PICK f : R(b - 1, f)
      <3>1. b \in Nat
        OBVIOUS
      <3>2. b - 1 \in Nat /\ b - 1 \notin Bad
        <4> HIDE DEF Bad
        <4> QED BY <2>1, <2>2, <3>1
      <3> HIDE DEF R
      <3> QED BY <3>2
    <2> DEFINE h == [k \in 0..b |-> IF k = b THEN ParseFolder(s, f[b - 1]) ELSE f[k]]
    <2> HIDE DEF start
    <2>4. \A k \in 0..(b - 1) : f[k] = IF k = 0 THEN start ELSE ParseFolder(s, f[k - 1])
      BY <2>3
    <2>5. \A k \in 0..b : h[k] = IF k = 0 THEN start ELSE ParseFolder(s, h[k - 1])
      <3> TAKE k \in 0..b
      <3>1. CASE k = b
        <4>1. b - 1 \in 0..b /\ b - 1 # b /\ b \in 0..b
          BY <2>2
        <4>2. h[b] = ParseFolder(s, f[b - 1]) /\ h[b - 1] = f[b - 1]
          BY <4>1
        <4> HIDE DEF h
        <4> QED BY <2>2, <3>1, <4>2
      <3>2. CASE k # b
        <4>1. h[k] = f[k] /\ k \in 0..(b - 1)
          BY <3>2
        <4>2. k # 0 => h[k - 1] = f[k - 1]
          BY <3>2
        <4> HIDE DEF h
        <4> QED BY <2>4, <4>1, <4>2
      <3> QED BY <3>1, <3>2
    <2>6. R(b, h)
      <3>1. h = [k \in 0..b |-> h[k]]
        OBVIOUS
      <3> HIDE DEF h
      <3> QED BY <2>5, <3>1
    <2> HIDE DEF R, h
    <2> QED BY <2>1, <2>6
  <1>3. R(count, read)
    <2>1. count \notin Bad
      BY <1>2
    <2> HIDE DEF R
    <2> QED BY <2>1
  <1>4. ParseFolders(s, from, count) = read[count]
    BY DEF ParseFolders
  <1> HIDE DEF read, start
  <1>5. \A k \in 0..count : read[k] = IF k = 0 THEN start ELSE ParseFolder(s, read[k - 1])
    BY <1>3
  <1>6. ASSUME Wrong # {} PROVE FALSE
    <2>1. PICK k \in Wrong : \A m \in Wrong : k <= m
      <3>1. Wrong \in SUBSET Nat
        OBVIOUS
      <3> HIDE DEF Wrong
      <3> QED BY <3>1, <1>6, ArchiveLimits, Sums!LeastNatural
    <2>2. k # 0
      BY <1>1, <1>5
    <2>3. FoldersRead(read[k - 1])
      BY <2>1, <2>2
    <2>4. read[k] = ParseFolder(s, read[k - 1])
      BY <1>5, <2>2
    <2> QED BY <2>1, <2>3, <2>4, FolderIsRead
  <1>7. count \in 0..count
    OBVIOUS
  <1> QED BY <1>4, <1>6, <1>7

-----------------------------------------------------------------------------
\* How many of no elements are TRUE, and how many of one more.
LEMMA CountGrows ==
    ASSUME NEW bits
    PROVE  /\ CountTrue(bits, 0) = 0
           /\ \A n \in Nat : CountTrue(bits, n) \in Nat
           /\ \A n \in Nat \ {0} :
                 CountTrue(bits, n) = CountTrue(bits, n - 1) + IF bits[n] THEN 1 ELSE 0
  <1> DEFINE marked(n) == {i \in 1..n : bits[i]}
  <1>1. \A n \in Nat : IsFiniteSet(marked(n)) /\ Cardinality(marked(n)) \in Nat
    <2> TAKE n \in Nat
    <2>1. IsFiniteSet(1..n) /\ marked(n) \subseteq 1..n
      BY FS_Interval
    <2> QED BY <2>1, FS_Subset, FS_CardinalityType
  <1>2. CountTrue(bits, 0) = 0
    <2>1. marked(0) = {}
      OBVIOUS
    <2> QED BY <2>1, FS_EmptySet DEF CountTrue
  <1>3. ASSUME NEW n \in Nat \ {0}
        PROVE  CountTrue(bits, n) = CountTrue(bits, n - 1) + IF bits[n] THEN 1 ELSE 0
    <2>1. n - 1 \in Nat
      OBVIOUS
    <2>2. CASE bits[n]
      <3>1. marked(n) = marked(n - 1) \cup {n} /\ n \notin marked(n - 1)
        BY <2>2
      <3>2. IsFiniteSet(marked(n - 1))
        BY <1>1, <2>1
      <3> HIDE DEF marked
      <3>3. Cardinality(marked(n)) = Cardinality(marked(n - 1)) + 1
        BY <3>1, <3>2, FS_AddElement
      <3> QED BY <2>2, <3>3 DEF CountTrue, marked
    <2>3. CASE ~bits[n]
      <3>1. marked(n) = marked(n - 1)
        BY <2>3
      <3>2. Cardinality(marked(n - 1)) \in Nat
        BY <1>1, <2>1
      <3> HIDE DEF marked
      <3>3. CountTrue(bits, n) = Cardinality(marked(n)) /\ CountTrue(bits, n - 1) = Cardinality(marked(n - 1))
        BY DEF CountTrue, marked
      <3> QED BY <2>3, <3>1, <3>2, <3>3
    <2> QED BY <2>2, <2>3
  <1>4. \A n \in Nat : CountTrue(bits, n) \in Nat
    BY <1>1 DEF CountTrue
  <1> QED BY <1>2, <1>3, <1>4

\* Every field that a vector of CRCs has, is there; the reader goes on behind it.
LEMMA DigestsCount ==
    ASSUME NEW i \in Nat \ {0}, NEW count \in Nat
    PROVE  LET digests == OptionalDigests(i, count)
           IN  /\ digests.crcs = None \/ \E c : digests.crcs = Some(c) /\ Len(c) = count
               /\ digests.next \in Nat /\ digests.next >= i
  <1> DEFINE optional == OptionalBits(input.tokens, i + 1, count)
             next     == optional.next + CountTrue(optional.bits, count)
             fields   == DefinedFields(input.tokens, optional.next, optional.bits)
  <1>1. DOMAIN optional.bits = 1..count
    BY DEF OptionalBits, Bits
  <1>2. fields = [k \in 1..count |-> fields[k]]
    <2> HIDE DEF optional
    <2> QED BY <1>1 DEF DefinedFields
  <1>3. Len(fields) = count
    <2> HIDE DEF fields
    <2> QED BY <1>2, FunctionIsSequence
  <1>4. Digests(i + 1, count) = IF count = 0 THEN [crcs |-> <<>>, next |-> i + 1]
                                ELSE [crcs |-> fields, next |-> next]
    BY DEF Digests
  <1>5. next \in Nat /\ next >= i
    <2>1. optional.next \in Nat /\ optional.next >= i
      <3>1. optional.next = IF At(input.tokens, i + 1) = 0 THEN i + 1 + 1 + BitBytes(count) ELSE i + 1 + 1
        BY DEF OptionalBits
      <3>2. BitBytes(count) \in Nat
        BY DEF BitBytes
      <3> QED BY <3>1, <3>2
    <2> HIDE DEF optional
    <2>2. CountTrue(optional.bits, count) \in Nat
      BY CountGrows
    <2> QED BY <2>1, <2>2
  <1> HIDE DEF fields, next
  <1>6. /\ Len(Digests(i + 1, count).crcs) = count
        /\ Digests(i + 1, count).next \in Nat /\ Digests(i + 1, count).next >= i
    <2>1. Len(<<>>) = 0
      OBVIOUS
    <2> QED BY <1>3, <1>4, <1>5, <2>1
  <1>7. CASE Tok(i) = ID_CRC
    BY <1>6, <1>7 DEF OptionalDigests
  <1>8. CASE Tok(i) # ID_CRC
    BY <1>8 DEF OptionalDigests
  <1> QED BY <1>7, <1>8

\* A record that ends at a place of the header has all its fields before it.
LEMMA EndIsThere ==
    ASSUME input \in Inputs, NEW i \in Nat \ {0}, EndsAt(i) = "Ok"
    PROVE  \A j \in 1..i : Tok(j) \in Nat
  <1>1. Tok(i) # Eof
    BY DEF EndsAt, Eof, ID_END
  <1>2. i \in 1..Len(input.tokens) /\ Len(input.tokens) \in Nat
    BY <1>1, TokTyped
  <1> QED BY <1>2, TokTyped

\* What a record that is read leaves to the next.
ReadOn ==
    /\ StreamsRead(streams') /\ HeaderRead(raw') /\ cursor' \in Nat \ {0}
    /\ external' = external

\* What a refused record leaves.
LEMMA RefusedRecord ==
    ASSUME HeaderInvariant, NEW error \in Outcomes, ParseFails(error), UNCHANGED validateVars
    PROVE  HeaderInvariant'
  BY DEF HeaderInvariant, ExternalRead, PendingFound, ParseFails, parseVars, validateVars

\* A record that is taken.
LEMMA TakenRecord ==
    ASSUME HeaderInvariant, UNCHANGED validateVars, UNCHANGED <<input, result>>, ReadOn,
           pc' \notin {"folders", "substreams", "resolve"},
           pc' = "sizes" => streams'.unpack # None /\ streams'.substreams = None
    PROVE  HeaderInvariant'
  BY DEF HeaderInvariant, ReadOn, ExternalRead, validateVars

\* What is left to show of a record, once its verdict is known to be one.
LEMMA RecordKeeps ==
    ASSUME HeaderInvariant, UNCHANGED validateVars, NEW verdict \in Verdicts, NEW Taken \in BOOLEAN,
           Record(verdict, Taken),
           verdict = "Ok" /\ Taken =>
               /\ ReadOn /\ pc' \notin {"folders", "substreams", "resolve"}
               /\ pc' = "sizes" => streams'.unpack # None /\ streams'.substreams = None
    PROVE  HeaderInvariant'
  <1>1. CASE ParseFails("Interrupted")
    BY <1>1, RefusedRecord DEF Outcomes
  <1>2. CASE ParseFails(verdict)
    BY <1>2, RefusedRecord DEF Outcomes
  <1>3. CASE verdict = "Ok" /\ Taken /\ UNCHANGED <<input, result>>
    BY <1>3, TakenRecord
  <1> QED BY <1>1, <1>2, <1>3 DEF Record

-----------------------------------------------------------------------------
\* Nothing is read yet.
LEMMA NothingRead == StreamsRead(NoStreams) /\ HeaderRead(NoHeader)
  BY DEF StreamsRead, HeaderRead, NoStreams, NoHeader, None

\* A header changes in one of its parts.
LEMMA HeaderChanges ==
    ASSUME NEW h, HeaderRead(h)
    PROVE  /\ \A x : HeaderRead([h EXCEPT !.properties = x])
           /\ \A f : FilesRead(f) => HeaderRead([h EXCEPT !.files = Some(f)])
           /\ \A r : StreamsRead(r) => /\ HeaderRead([h EXCEPT !.additional = Some(r)])
                                       /\ HeaderRead([h EXCEPT !.main = Some(r)])
           /\ \A q : q.index \in Nat => HeaderRead([h EXCEPT !.kind = "pending", !.pending = Some(q)])
  <1>1. ASSUME NEW x PROVE HeaderRead([h EXCEPT !.properties = x])
    <2>1. [h EXCEPT !.properties = x] =
              [kind |-> h.kind, properties |-> x, additional |-> h.additional,
               main |-> h.main, files |-> h.files, pending |-> h.pending]
      BY DEF HeaderRead
    <2> QED BY <2>1 DEF HeaderRead
  <1>2. ASSUME NEW f, FilesRead(f) PROVE HeaderRead([h EXCEPT !.files = Some(f)])
    <2>1. [h EXCEPT !.files = Some(f)] =
              [kind |-> h.kind, properties |-> h.properties, additional |-> h.additional,
               main |-> h.main, files |-> Some(f), pending |-> h.pending]
      BY DEF HeaderRead
    <2> QED BY <1>2, <2>1 DEF HeaderRead
  <1>3. ASSUME NEW r, StreamsRead(r)
        PROVE  HeaderRead([h EXCEPT !.additional = Some(r)]) /\ HeaderRead([h EXCEPT !.main = Some(r)])
    <2>1. [h EXCEPT !.additional = Some(r)] =
              [kind |-> h.kind, properties |-> h.properties, additional |-> Some(r),
               main |-> h.main, files |-> h.files, pending |-> h.pending]
      BY DEF HeaderRead
    <2>2. [h EXCEPT !.main = Some(r)] =
              [kind |-> h.kind, properties |-> h.properties, additional |-> h.additional,
               main |-> Some(r), files |-> h.files, pending |-> h.pending]
      BY DEF HeaderRead
    <2>3. HeaderRead([h EXCEPT !.additional = Some(r)])
      BY <1>3, <2>1 DEF HeaderRead
    <2>4. HeaderRead([h EXCEPT !.main = Some(r)])
      BY <1>3, <2>2 DEF HeaderRead
    <2> QED BY <2>3, <2>4
  <1>4. ASSUME NEW q, q.index \in Nat
        PROVE  HeaderRead([h EXCEPT !.kind = "pending", !.pending = Some(q)])
    <2> DEFINE g == [h EXCEPT !.kind = "pending"]
               e == [g EXCEPT !.pending = Some(q)]
    <2>1. g = [kind |-> "pending", properties |-> h.properties, additional |-> h.additional,
               main |-> h.main, files |-> h.files, pending |-> h.pending]
      BY DEF HeaderRead
    <2>2. e = [h EXCEPT !.kind = "pending", !.pending = Some(q)]
      OBVIOUS
    <2> HIDE DEF g
    <2>3. e = [kind |-> "pending", properties |-> h.properties, additional |-> h.additional,
               main |-> h.main, files |-> h.files, pending |-> Some(q)]
      BY <2>1
    <2> HIDE DEF e
    <2>4. HeaderRead(e)
      BY <1>4, <2>3 DEF HeaderRead
    <2> QED BY <2>2, <2>4
  <1> QED BY <1>1, <1>2, <1>3, <1>4

\* Before the parser runs.
LEMMA InitCounts == Init => HeaderInvariant
  BY NothingRead DEF Init, ParseInit, ValidateInit, HeaderInvariant, ExternalRead, Outcomes

\* The kind of header: no streams are read yet, nor a header.
LEMMA ReadKindCounts ==
    ASSUME HeaderInvariant, ReadKind, UNCHANGED validateVars
    PROVE  HeaderInvariant'
  <1> DEFINE kind    == Tok(1)
             checks  == << <<Limits.depth < 1, "LimitExceeded">>,
                           <<kind \notin {ID_HEADER, ID_ENCODED_HEADER}, "Format">> >>
             Taken   == /\ cursor' = 2 /\ stage' = "start"
                        /\ streams' = NoStreams /\ totals' = NoTotals
                        /\ raw' = [NoHeader EXCEPT !.kind = IF kind = ID_HEADER THEN "plain" ELSE "encoded"]
                        /\ pc' = IF kind = ID_HEADER THEN "body" ELSE "streams"
                        /\ UNCHANGED external
  <1>1. Record(Verdict(checks), Taken)
    BY DEF ReadKind
  <1>2. Verdict(checks) \in Verdicts
    <2>1. DOMAIN checks = 1..2 /\ \A i \in 1..2 : checks[i][2] \in Verdicts
      BY DEF Verdicts
    <2> HIDE DEF checks
    <2> QED BY <2>1, VerdictIsCheck DEF Verdicts
  <1>3. Taken => /\ ReadOn
                 /\ pc' \notin {"folders", "substreams", "sizes", "resolve"}
    <2>1. HeaderRead([NoHeader EXCEPT !.kind = "plain"]) /\ HeaderRead([NoHeader EXCEPT !.kind = "encoded"])
      BY DEF HeaderRead, NoHeader, None
    <2> QED BY <2>1, NothingRead DEF ReadOn
  <1>4. Taken \in BOOLEAN
    OBVIOUS
  <1> HIDE DEF checks, Taken
  <1> QED BY <1>1, <1>2, <1>3, <1>4, RecordKeeps

\* The beginning of a record of the body.
LEMMA BodyRecordCounts ==
    ASSUME HeaderInvariant, BodyRecord, UNCHANGED validateVars
    PROVE  HeaderInvariant'
  <1> DEFINE id      == Tok(cursor)
             next    == StageOf(id)
             count   == Tok(cursor + 1)
             checks  == << <<StageIndex(next) <= StageIndex(stage), "Format">>,
                           <<next = "files" /\ count = Eof, "Format">>,
                           <<next = "files" /\ count > Limits.files, "LimitExceeded">> >>
             Taken   == /\ stage' = next
                        /\ cursor' = IF next = "files" THEN cursor + 2 ELSE cursor + 1
                        /\ pc' = IF next \in {"additional", "main"} THEN "streams" ELSE "property"
                        /\ raw' = IF next = "files"
                                  THEN [raw EXCEPT !.files = Some([count |-> count, properties |-> <<>>])]
                                  ELSE raw
                        /\ streams' = NoStreams
                        /\ UNCHANGED <<external, totals>>
  <1>1. Record(Verdict(checks), Taken)
    BY DEF BodyRecord
  <1>2. Verdict(checks) \in Verdicts
    <2>1. DOMAIN checks = 1..3 /\ \A i \in 1..3 : checks[i][2] \in Verdicts
      BY DEF Verdicts
    <2> HIDE DEF checks
    <2> QED BY <2>1, VerdictIsCheck DEF Verdicts
  <1>3. Verdict(checks) = "Ok" /\ Taken =>
            ReadOn /\ pc' \notin {"folders", "substreams", "sizes", "resolve"}
    <2>1. ASSUME Verdict(checks) = "Ok", next = "files" PROVE count \in Nat
      <3>1. 3 \in Nat /\ 2 \in 1..3 /\ DOMAIN checks = 1..3 /\ \A i \in 1..3 : checks[i][2] # "Ok"
        OBVIOUS
      <3>2. checks[2][1] = (next = "files" /\ count = Eof)
        OBVIOUS
      <3>3. ~checks[2][1]
        <4> HIDE DEF checks
        <4> QED BY <2>1, <3>1, VerdictPasses
      <3> HIDE DEF checks
      <3> QED BY <2>1, <3>2, <3>3, TokTyped DEF HeaderInvariant
    <2>2. cursor \in Nat \ {0} /\ HeaderRead(raw)
      BY DEF HeaderInvariant
    <2> DEFINE files == [count |-> count, properties |-> <<>>]
    <2>3. count \in Nat => FilesRead(files)
      BY DEF FilesRead
    <2> HIDE DEF files
    <2>4. count \in Nat => HeaderRead([raw EXCEPT !.files = Some(files)])
      BY <2>2, <2>3, HeaderChanges
    <2>5. Taken => raw' = IF next = "files" THEN [raw EXCEPT !.files = Some(files)] ELSE raw
      BY DEF files
    <2> HIDE DEF next, count, checks
    <2> QED BY <2>1, <2>2, <2>4, <2>5, NothingRead DEF ReadOn
  <1>4. Taken \in BOOLEAN
    OBVIOUS
  <1> HIDE DEF checks, Taken
  <1> QED BY <1>1, <1>2, <1>3, <1>4, RecordKeeps

\* The end of the body, where the validation begins.
LEMMA BodyEndCounts ==
    ASSUME HeaderInvariant, BodyEnd, UNCHANGED validateVars
    PROVE  HeaderInvariant'
  <1> DEFINE verdict == IF Finished THEN "Ok" ELSE "Format"
             Taken   == pc' = "validate" /\ UNCHANGED parseVars
  <1>1. Record(verdict, Taken) /\ verdict \in Verdicts
    BY DEF BodyEnd, Verdicts
  <1>2. Taken => /\ ReadOn
                 /\ pc' \notin {"folders", "substreams", "sizes", "resolve"}
    BY DEF parseVars, HeaderInvariant, ReadOn
  <1>3. Taken \in BOOLEAN
    OBVIOUS
  <1> HIDE DEF verdict, Taken
  <1> QED BY <1>1, <1>2, <1>3, RecordKeeps

\* A property of the archive or of the files, which no streams depend on.
LEMMA ParsePropertyCounts ==
    ASSUME HeaderInvariant, ParseProperty, UNCHANGED validateVars
    PROVE  HeaderInvariant'
  <1> DEFINE id      == Tok(cursor)
             length  == Tok(cursor + 1)
             checks  == << <<id = Eof, "Format">>,
                           <<totals.properties = Limits.properties, "LimitExceeded">>,
                           <<length = Eof, "Format">>,
                           <<length > Limits.header, "LimitExceeded">>,
                           <<~PropertyFits(length), "Format">> >>
             property == [id |-> id, data |-> Fields(input.tokens, cursor + 2, length)]
             Taken   == /\ cursor' = cursor + 2 + length
                        /\ totals' = [totals EXCEPT !.properties = @ + 1]
                        /\ raw' = IF stage = "files"
                                  THEN [raw EXCEPT !.files[1].properties = Append(@, property)]
                                  ELSE [raw EXCEPT !.properties = Append(@, property)]
                        /\ UNCHANGED <<external, pc, stage, streams>>
  <1>1. Record(Verdict(checks), Taken) /\ pc = "property"
    BY DEF ParseProperty
  <1>2. Verdict(checks) \in Verdicts
    <2>1. DOMAIN checks = 1..5 /\ \A i \in 1..5 : checks[i][2] \in Verdicts
      BY DEF Verdicts
    <2> HIDE DEF checks
    <2> QED BY <2>1, VerdictIsCheck DEF Verdicts
  <1>3. Verdict(checks) = "Ok" /\ Taken =>
            ReadOn /\ pc' \notin {"folders", "substreams", "sizes", "resolve"}
    <2> HIDE DEF property
    <2>1. HeaderRead(raw) /\ StreamsRead(streams) /\ cursor \in Nat \ {0} /\ input \in Inputs
      BY DEF HeaderInvariant
    <2>2. HeaderRead([raw EXCEPT !.properties = Append(@, property)])
      BY <2>1, HeaderChanges
    <2>3. HeaderRead([raw EXCEPT !.files[1].properties = Append(@, property)])
      <3> DEFINE h == [raw EXCEPT !.files[1].properties = Append(@, property)]
      <3>1. CASE raw.files = None
        <4> DEFINE files == [raw.files EXCEPT ![1].properties = Append(@, property)]
        <4>0. files = raw.files /\ h = [raw EXCEPT !.files = files]
          <5>1. DOMAIN raw.files = {}
            BY <3>1 DEF None
          <5>2. files = [i \in {} |-> raw.files[i]] /\ raw.files = [i \in {} |-> raw.files[i]]
            BY <3>1, <5>1 DEF None
          <5> QED BY <5>2
        <4> HIDE DEF files, h
        <4>1. h = raw
          BY <2>1, <4>0 DEF HeaderRead
        <4> QED BY <2>1, <4>1 DEF h
      <3>2. CASE raw.files # None
        <4>1. PICK f : raw.files = Some(f) /\ FilesRead(f)
          BY <2>1, <3>2 DEF HeaderRead
        <4> DEFINE g == [f EXCEPT !.properties = Append(@, property)]
        <4>2. FilesRead(g)
          BY <4>1 DEF FilesRead
        <4>3. [raw.files EXCEPT ![1].properties = Append(@, property)] = Some(g)
          BY <4>1 DEF Some
        <4>4. h = [raw EXCEPT !.files = [raw.files EXCEPT ![1].properties = Append(@, property)]]
          OBVIOUS
        <4> HIDE DEF g, h
        <4>5. h = [raw EXCEPT !.files = Some(g)]
          BY <4>3, <4>4
        <4>6. HeaderRead([raw EXCEPT !.files = Some(g)])
          BY <2>1, <4>2, HeaderChanges
        <4> QED BY <4>5, <4>6 DEF h
      <3> QED BY <3>1, <3>2
    <2>4. length # Eof => length \in Nat
      BY <2>1, TokTyped
    <2>5. Verdict(checks) = "Ok" => length # Eof
      <3>1. 5 \in Nat /\ 3 \in 1..5 /\ DOMAIN checks = 1..5 /\ \A i \in 1..5 : checks[i][2] # "Ok"
        OBVIOUS
      <3>2. checks[3][1] = (length = Eof)
        OBVIOUS
      <3> HIDE DEF checks
      <3> QED BY <3>1, <3>2, VerdictPasses
    <2> HIDE DEF checks, length
    <2> QED BY <1>1, <2>1, <2>2, <2>3, <2>4, <2>5 DEF ReadOn
  <1>4. Taken \in BOOLEAN
    OBVIOUS
  <1> HIDE DEF checks, Taken
  <1> QED BY <1>1, <1>2, <1>3, <1>4, RecordKeeps

\* The end of a list of properties.
LEMMA PropertiesEndCounts ==
    ASSUME HeaderInvariant, PropertiesEnd, UNCHANGED validateVars
    PROVE  HeaderInvariant'
  <1> DEFINE Taken == /\ pc' = "body" /\ cursor' = cursor + 1
                      /\ UNCHANGED <<external, stage, streams, totals, raw>>
  <1>1. Record("Ok", Taken) /\ "Ok" \in Verdicts
    BY DEF PropertiesEnd, Verdicts
  <1>2. Taken => /\ ReadOn
                 /\ pc' \notin {"folders", "substreams", "sizes", "resolve"}
    BY DEF HeaderInvariant, ReadOn
  <1>3. Taken \in BOOLEAN
    OBVIOUS
  <1> HIDE DEF Taken
  <1> QED BY <1>1, <1>2, <1>3, RecordKeeps

-----------------------------------------------------------------------------
\* The beginning of a sequence, whatever its elements.
LEMMA PrefixOf ==
    ASSUME NEW s, IsSequence(s), NEW m \in 0..Len(s)
    PROVE  SubSeq(s, 1, m) = [i \in 1..m |-> s[i]]
  <1> DEFINE n == Len(s)
             S == {s[i] : i \in 1..n}
             g == [i \in 1..n |-> s[i]]
  <1>1. n \in Nat /\ s = g
    BY DEF IsSequence
  <1>2. g \in [1..n -> S]
    OBVIOUS
  <1>3. s \in Seq(S)
    <2> HIDE DEF S, g, n
    <2> QED BY <1>1, <1>2, MappedSequence
  <1> HIDE DEF S
  <1> QED BY <1>1, <1>3

\* The sum of the first elements.
LEMMA PrefixTotal ==
    ASSUME NEW n \in Nat, NEW v \in [1..n -> Nat], NEW m \in 0..n
    PROVE  Total([i \in 1..m |-> v[i]]) = Sums!Total(v, m)
  <1> DEFINE w == [i \in 1..m |-> v[i]]
             Bad == {j \in 0..m : Sums!Total(w, j) # Sums!Total(v, j)}
  <1>1. w \in [1..m -> Nat] /\ m \in Nat /\ \A j \in 1..m : w[j] = v[j] /\ j \in 1..n
    OBVIOUS
  <1> HIDE DEF w
  <1>2. /\ Sums!Total(w, 0) = 0 /\ Sums!Total(v, 0) = 0 /\ Total(w) = Sums!Total(w, m)
        /\ \A j \in 1..m : Sums!Total(w, j) = Sums!Total(w, j - 1) + w[j]
        /\ \A j \in 1..n : Sums!Total(v, j) = Sums!Total(v, j - 1) + v[j]
    BY <1>1, SumFacts
  <1>3. ASSUME Bad # {} PROVE FALSE
    <2>1. PICK b \in Bad : \A j \in Bad : b <= j
      <3>1. Bad \in SUBSET Nat
        OBVIOUS
      <3> HIDE DEF Bad
      <3> QED BY <3>1, <1>3, ArchiveLimits, Sums!LeastNatural
    <2>2. b \in 1..m /\ b - 1 \in 0..m /\ b - 1 \notin Bad
      BY <1>2, <2>1
    <2> QED BY <1>1, <1>2, <2>1, <2>2
  <1>4. m \in 0..m
    OBVIOUS
  <1> QED BY <1>2, <1>3, <1>4 DEF w

\* Packed streams come before the folders and their members.
LEMMA ParsePackInfoCounts ==
    ASSUME HeaderInvariant, ParsePackInfo, UNCHANGED validateVars
    PROVE  HeaderInvariant'
  <1> DEFINE position == Tok(cursor + 1)
             count    == Tok(cursor + 2)
             sized    == Tok(cursor + 3) = ID_SIZE
             after    == IF sized THEN cursor + 4 + count ELSE cursor + 3
             digests  == OptionalDigests(after, count)
             verdict  == IF count \in {Eof, 0} THEN "Format"
                         ELSE IF totals.packed + count > Limits.streams THEN "LimitExceeded"
                         ELSE EndsAt(digests.next)
             sizes    == IF sized THEN Some(Fields(input.tokens, cursor + 4, count)) ELSE None
             pack     == Some([position |-> position, sizes |-> sizes, crcs |-> digests.crcs])
             Taken    == /\ cursor' = digests.next + 1
                         /\ totals' = [totals EXCEPT !.packed = @ + count]
                         /\ streams' = [streams EXCEPT !.pack = pack]
                         /\ UNCHANGED <<external, pc, stage, raw>>
  <1>1. Record(verdict, Taken) /\ pc = "streams"
    BY DEF ParsePackInfo
  <1>2. verdict \in Verdicts
    BY DEF EndsAt, Verdicts
  <1>3. /\ cursor \in Nat \ {0} /\ input \in Inputs /\ HeaderRead(raw) /\ StreamsRead(streams)
        /\ count # Eof => count \in Nat
    BY TokTyped DEF HeaderInvariant
  <1>4. ASSUME verdict = "Ok"
        PROVE  /\ \E p : pack = Some(p) /\ PackRead(p)
               /\ digests.next + 1 \in Nat \ {0}
    <2>1. count \in Nat \ {0} /\ EndsAt(digests.next) = "Ok"
      BY <1>3, <1>4
    <2>2. after \in Nat \ {0} /\ after >= IF sized THEN cursor + 4 + count ELSE cursor + 3
      <3> HIDE DEF count, sized
      <3> QED BY <1>3, <2>1
    <2>3. digests.next \in Nat \ {0} /\ digests.next >= after
      <3> HIDE DEF after, count
      <3> QED BY <2>1, <2>2, DigestsCount
    <2>4. \A j \in 1..after : Tok(j) \in Nat
      <3> HIDE DEF digests, after
      <3>1. \A j \in 1..digests.next : Tok(j) \in Nat
        BY <1>3, <2>1, <2>3, EndIsThere
      <3> QED BY <2>2, <2>3, <3>1
    <2>5. position \in Nat
      <3>1. cursor + 1 \in 1..after
        <4> HIDE DEF after, count, sized
        <4> QED BY <1>3, <2>1, <2>2
      <3> HIDE DEF after
      <3> QED BY <2>4, <3>1
    <2>6. sizes = None \/ \E n \in Nat : \E v \in [1..n -> Nat] : sizes = Some(v)
      <3>1. CASE ~sized
        BY <3>1
      <3>2. CASE sized
        <4> DEFINE v == Fields(input.tokens, cursor + 4, count)
        <4>1. v = [k \in 1..count |-> Tok(cursor + 4 + k - 1)]
          <5> HIDE DEF count
          <5> QED BY <2>1 DEF Fields, Eof, Tok
        <4>2. \A k \in 1..count : cursor + 4 + k - 1 \in 1..after
          <5>1. after = cursor + 4 + count
            BY <3>2
          <5> HIDE DEF after, count, sized
          <5> QED BY <1>3, <2>1, <5>1
        <4>3. sizes = Some(v)
          BY <3>2
        <4> HIDE DEF after, count, sized, v, sizes
        <4>4. v \in [1..count -> Nat]
          BY <2>1, <2>4, <4>1, <4>2
        <4> QED BY <2>1, <4>3, <4>4
      <3> QED BY <3>1, <3>2
    <2> HIDE DEF position, sizes, digests
    <2> QED BY <2>3, <2>5, <2>6 DEF PackRead
  <1>5. verdict = "Ok" /\ Taken =>
            ReadOn /\ pc' \notin {"folders", "substreams", "sizes", "resolve"}
    <2>1. ASSUME \E p : pack = Some(p) /\ PackRead(p)
          PROVE  StreamsRead([streams EXCEPT !.pack = pack])
      <3> HIDE DEF pack
      <3>1. [streams EXCEPT !.pack = pack] =
                [pack |-> pack, unpack |-> streams.unpack, substreams |-> streams.substreams]
        BY <1>3 DEF StreamsRead
      <3> QED BY <1>3, <2>1, <3>1 DEF StreamsRead
    <2> HIDE DEF verdict, pack, digests
    <2> QED BY <1>1, <1>3, <1>4, <2>1 DEF ReadOn
  <1>6. Taken \in BOOLEAN
    OBVIOUS
  <1> HIDE DEF verdict, Taken
  <1> QED BY <1>1, <1>2, <1>5, <1>6, RecordKeeps

\* The rest of the header is left for the second pass.
LEMMA DeferFoldersCounts ==
    ASSUME HeaderInvariant, DeferFolders, UNCHANGED validateVars
    PROVE  HeaderInvariant'
  <1> DEFINE index   == Tok(cursor + 4)
             verdict == IF index = Eof \/ stage # "main" \/ raw.additional = None
                        THEN "Format" ELSE "Ok"
             pending == Some([pack |-> streams.pack, index |-> index])
             Taken   == /\ raw' = [raw EXCEPT !.kind = "pending", !.pending = pending]
                        /\ pc' = "validate"
                        /\ UNCHANGED <<external, cursor, stage, streams, totals>>
  <1>1. Record(verdict, Taken) /\ verdict \in Verdicts
    BY DEF DeferFolders, Verdicts
  <1>2. verdict = "Ok" /\ Taken =>
            ReadOn /\ pc' \notin {"folders", "substreams", "sizes", "resolve"}
    <2>1. /\ cursor \in Nat \ {0} /\ HeaderRead(raw) /\ StreamsRead(streams)
          /\ index # Eof => index \in Nat
      BY TokTyped DEF HeaderInvariant
    <2>2. index \in Nat => HeaderRead([raw EXCEPT !.kind = "pending", !.pending = pending])
      <3> DEFINE q == [pack |-> streams.pack, index |-> index]
      <3>1. q.index = index
        OBVIOUS
      <3> HIDE DEF q
      <3> QED BY <2>1, <3>1, HeaderChanges DEF q
    <2> HIDE DEF pending, index
    <2> QED BY <2>1, <2>2 DEF ReadOn
  <1>3. Taken \in BOOLEAN
    OBVIOUS
  <1> HIDE DEF verdict, Taken
  <1> QED BY <1>1, <1>2, <1>3, RecordKeeps

\* Folders whose sizes are not read yet.
LEMMA ParseUnpackInfoCounts ==
    ASSUME HeaderInvariant, ParseUnpackInfo, UNCHANGED validateVars
    PROVE  HeaderInvariant'
  <1> DEFINE outside == FoldersAreExternal
             source  == external[1].data
             parsed  == IF UnpackVerdict # "Ok" THEN [verdict |-> UnpackVerdict]
                        ELSE IF ~outside THEN ParseFolders(input.tokens, cursor + 4, UnpackCount)
                        ELSE IF Tok(cursor + 4) # external[1].index THEN [verdict |-> "Format"]
                        ELSE ParseFolders(source, 1, UnpackCount)
             verdict == IF parsed.verdict = "Ok" /\ outside /\ parsed.next # Len(source) + 1
                        THEN "Format" ELSE parsed.verdict
             unpack  == [folders |-> parsed.folders, crcs |-> None]
             Taken   == /\ cursor' = IF outside THEN cursor + 5 ELSE parsed.next
                        /\ pc' = "sizes"
                        /\ totals' = [totals EXCEPT !.folders = @ + UnpackCount,
                                                    !.coders = parsed.coders, !.streams = parsed.streams]
                        /\ streams' = [streams EXCEPT !.unpack = Some(unpack)]
                        /\ UNCHANGED <<external, stage, raw>>
  <1>1. Record(verdict, Taken) /\ UnpackInfoNext
    BY DEF ParseUnpackInfo
  <1>2. UnpackVerdict \in Verdicts /\ (UnpackVerdict = "Ok" => UnpackCount \in Nat)
    <2> DEFINE checks == << <<Tok(cursor + 1) # ID_FOLDER \/ UnpackCount \in {Eof, 0}, "Format">>,
                            <<totals.folders + UnpackCount > Limits.folders, "LimitExceeded">>,
                            <<Tok(cursor + 3) = Eof, "Format">> >>
    <2>1. DOMAIN checks = 1..3 /\ \A i \in 1..3 : checks[i][2] \in Verdicts \ {"Ok"}
      BY DEF Verdicts
    <2>2. checks[1][1] = (Tok(cursor + 1) # ID_FOLDER \/ UnpackCount \in {Eof, 0})
      OBVIOUS
    <2>3. UnpackCount = Tok(cursor + 2) /\ (Tok(cursor + 2) # Eof => Tok(cursor + 2) \in Nat)
      BY TokTyped DEF UnpackCount, HeaderInvariant
    <2>4. UnpackVerdict = Verdict(checks)
      BY DEF UnpackVerdict
    <2> HIDE DEF checks
    <2>5. Verdict(checks) \in Verdicts
      BY <2>1, VerdictIsCheck DEF Verdicts
    <2>6. ASSUME Verdict(checks) = "Ok" PROVE ~checks[1][1]
      <3>1. 3 \in Nat /\ 1 \in 1..3 /\ \A i \in 1..3 : checks[i][2] # "Ok"
        BY <2>1
      <3> QED BY <2>1, <2>6, <3>1, VerdictPasses
    <2> QED BY <2>2, <2>3, <2>4, <2>5, <2>6
  <1>3. /\ cursor \in Nat \ {0} /\ input \in Inputs /\ HeaderRead(raw) /\ StreamsRead(streams)
        /\ outside => source \in Seq(0..U64Max)
    <2>1. outside => external # None
      BY DEF ParseUnpackInfo
    <2>2. \A x : external = Some(x) => external[1] = x
      BY DEF Some
    <2> QED BY <2>1, <2>2 DEF HeaderInvariant, ExternalRead
  <1>4. /\ UnpackVerdict = "Ok" => FoldersRead(ParseFolders(input.tokens, cursor + 4, UnpackCount))
        /\ UnpackVerdict = "Ok" /\ outside => FoldersRead(ParseFolders(source, 1, UnpackCount))
    <2>1. input.tokens \in Seq(0..U64Max) /\ cursor + 4 \in Nat \ {0} /\ 1 \in Nat \ {0}
      BY <1>3, FormatAssumption
    <2> HIDE DEF outside, source
    <2> QED BY <1>2, <1>3, <2>1, FoldersAreRead
  <1>5. parsed.verdict \in Verdicts
    <2> HIDE DEF outside, source
    <2> QED BY <1>2, <1>4 DEF FoldersRead, Verdicts
  <1>6. parsed.verdict = "Ok" => FolderList(parsed.folders) /\ parsed.next \in Nat \ {0}
    <2> HIDE DEF outside, source
    <2> QED BY <1>4 DEF FoldersRead
  <1> HIDE DEF parsed, outside
  <1>7. verdict \in Verdicts /\ (verdict = "Ok" => parsed.verdict = "Ok")
    BY <1>5 DEF Verdicts
  <1>8. Taken => /\ pc' = "sizes" /\ raw' = raw /\ external' = external
                 /\ cursor' = IF outside THEN cursor + 5 ELSE parsed.next
                 /\ streams' = [pack |-> streams.pack, unpack |-> Some(unpack), substreams |-> None]
    BY <1>1, <1>3 DEF UnpackInfoNext, StreamsRead
  <1>9. verdict = "Ok" /\ Taken =>
            /\ ReadOn /\ pc' \notin {"folders", "substreams", "resolve"}
            /\ pc' = "sizes" => streams'.unpack # None /\ streams'.substreams = None
    <2> HIDE DEF Taken, verdict
    <2>1. ASSUME verdict = "Ok", Taken PROVE StreamsRead(streams')
      BY <1>3, <1>6, <1>7, <1>8, <2>1 DEF StreamsRead, Some, None
    <2>2. ASSUME verdict = "Ok", Taken PROVE ReadOn
      BY <1>3, <1>6, <1>7, <1>8, <2>1, <2>2 DEF ReadOn
    <2>3. Taken => streams'.unpack # None /\ streams'.substreams = None
      BY <1>8 DEF Some, None
    <2> QED BY <1>8, <2>2, <2>3
  <1>10. Taken \in BOOLEAN
    OBVIOUS
  <1> HIDE DEF verdict, Taken
  <1> QED BY <1>1, <1>7, <1>9, <1>10, RecordKeeps

\* The sizes are given to the folders, whose number stays.
LEMMA ParseUnpackSizesCounts ==
    ASSUME HeaderInvariant, ParseUnpackSizes, UNCHANGED validateVars
    PROVE  HeaderInvariant'
  <1> DEFINE folders == streams.unpack[1].folders
             digests == OptionalDigests(SizesAt(folders, cursor + 1, Len(folders) + 1), Len(folders))
             verdict == IF Tok(cursor) # ID_CODERS_UNPACK_SIZE THEN "Format" ELSE EndsAt(digests.next)
             Sized(k) == [folders[k] EXCEPT !.sizes =
                             Fields(input.tokens, SizesAt(folders, cursor + 1, k), folders[k].outputs)]
             sized   == [k \in DOMAIN folders |-> Sized(k)]
             unpack  == [folders |-> sized, crcs |-> digests.crcs]
             Taken   == /\ cursor' = digests.next + 1 /\ pc' = "streams"
                        /\ streams' = [streams EXCEPT !.unpack = Some(unpack)]
                        /\ UNCHANGED <<external, stage, totals, raw>>
  <1>1. Record(verdict, Taken) /\ pc = "sizes"
    BY DEF ParseUnpackSizes
  <1>2. verdict \in Verdicts
    BY DEF EndsAt, Verdicts
  <1>3. /\ streams.substreams = None /\ FolderList(folders)
        /\ cursor \in Nat \ {0} /\ input \in Inputs /\ HeaderRead(raw) /\ StreamsRead(streams)
    BY <1>1 DEF HeaderInvariant, StreamsRead, Some, None
  <1> DEFINE n == Len(folders)
             outputs == [k \in 1..n |-> folders[k].outputs]
  <1>4. /\ n \in Nat /\ DOMAIN folders = 1..n /\ IsSequence(folders)
        /\ \A k \in 1..n : FolderRead(folders[k])
        /\ outputs \in [1..n -> Nat]
    BY <1>3 DEF FolderList, IsSequence, FolderRead
  <1> HIDE DEF folders
  <1>5. \A m \in 0..n : SizesAt(folders, cursor + 1, m + 1) \in Nat \ {0}
    <2> TAKE m \in 0..n
    <2>1. SubSeq(folders, 1, m) = [i \in 1..m |-> folders[i]] /\ m + 1 - 1 = m
      BY <1>4, PrefixOf
    <2>2. Map(LAMBDA f : f.outputs, SubSeq(folders, 1, m)) = [i \in 1..m |-> outputs[i]]
      BY <1>4, <2>1 DEF Map
    <2>3. [i \in 1..m |-> outputs[i]] \in [1..m -> Nat] /\ m \in Nat
      BY <1>4
    <2> HIDE DEF outputs
    <2>4. Total([i \in 1..m |-> outputs[i]]) \in Nat
      BY <2>3, TotalIsNatural
    <2> QED BY <1>3, <2>1, <2>2, <2>4 DEF SizesAt
  <1>6. FolderList(sized)
    <2>1. sized = [k \in 1..n |-> sized[k]]
      BY <1>4
    <2>2. ASSUME NEW k \in 1..n PROVE FolderRead(sized[k])
      <3> DEFINE f == folders[k]
                 fields == Fields(input.tokens, SizesAt(folders, cursor + 1, k), f.outputs)
      <3>1. FolderRead(f) /\ f.outputs \in Nat
        BY <1>4 DEF FolderRead
      <3>2. \A i \in DOMAIN fields : fields[i] \in Int
        <4>1. fields = [i \in 1..f.outputs |-> At(input.tokens, SizesAt(folders, cursor + 1, k) + i - 1)]
          <5> HIDE DEF f
          <5> QED BY <3>1 DEF Fields, Eof
        <4>2. input.tokens \in Seq(0..U64Max)
          BY <1>3, FormatAssumption
        <4> HIDE DEF f, fields
        <4> QED BY <4>1, <4>2, AtTyped
      <3>3. sized[k] = [f EXCEPT !.sizes = fields]
        BY <1>4
      <3> HIDE DEF f, fields, sized
      <3> QED BY <3>1, <3>2, <3>3 DEF FolderRead
    <2> HIDE DEF sized
    <2> QED BY <1>4, <2>1, <2>2, FunctionIsSequence DEF FolderList
  <1>7. digests.next \in Nat \ {0}
    <2> DEFINE at == SizesAt(folders, cursor + 1, n + 1)
    <2>1. at \in Nat \ {0}
      <3>1. n \in 0..n
        BY <1>4
      <3> QED BY <1>5, <3>1
    <2> HIDE DEF at
    <2>2. OptionalDigests(at, n).next \in Nat /\ OptionalDigests(at, n).next >= at
      BY <1>4, <2>1, DigestsCount
    <2> QED BY <2>1, <2>2 DEF at
  <1> HIDE DEF sized, digests, n
  <1>8. Taken => /\ pc' = "streams" /\ raw' = raw /\ external' = external
                 /\ cursor' = digests.next + 1
                 /\ streams' = [pack |-> streams.pack, unpack |-> Some(unpack), substreams |-> None]
    BY <1>3 DEF StreamsRead
  <1>9. Taken => /\ ReadOn
                 /\ pc' \notin {"folders", "substreams", "sizes", "resolve"}
    <2> HIDE DEF Taken
    <2>1. ASSUME Taken PROVE StreamsRead(streams')
      BY <1>3, <1>6, <1>8, <2>1 DEF StreamsRead, Some, None
    <2> QED BY <1>3, <1>7, <1>8, <2>1 DEF ReadOn
  <1>10. Taken \in BOOLEAN
    OBVIOUS
  <1> HIDE DEF verdict, Taken
  <1> QED BY <1>1, <1>2, <1>9, <1>10, RecordKeeps

\* The number of sizes that counts call for.
LEMMA ExplicitSizesCounted ==
    ASSUME NEW n \in Nat, NEW counts \in [1..n -> Nat]
    PROVE  Total(Map(LAMBDA c : IF c > 0 THEN c - 1 ELSE 0, counts)) \in Nat
  <1>1. Map(LAMBDA c : IF c > 0 THEN c - 1 ELSE 0, counts) \in [1..n -> Nat]
    BY DEF Map
  <1> QED BY <1>1, TotalIsNatural

\* parse_substreams_info reads as many sizes and CRCs as the counts call for.
LEMMA SubstreamsAreRead ==
    ASSUME input \in Inputs, NEW unpack, FolderList(unpack.folders), NEW a, NEW b \in Nat \ {0}, NEW sized \in BOOLEAN,
           NEW counts \in [1..Len(unpack.folders) -> Nat]
    PROVE  LET explicit == Total(Map(LAMBDA c : IF c > 0 THEN c - 1 ELSE 0, counts))
               digests  == OptionalDigests(b, DigestCount(counts, unpack.crcs))
           IN  /\ SubstreamsRead(unpack,
                       [counts |-> counts, crcs |-> digests.crcs,
                        sizes |-> IF sized THEN Some(Fields(input.tokens, a, explicit)) ELSE None])
               /\ digests.next \in Nat \ {0}
  <1> DEFINE n == Len(unpack.folders)
             sizes == SizeTerms(counts)
             crcs == CrcTerms(counts, unpack.crcs)
             explicit == Total(Map(LAMBDA c : IF c > 0 THEN c - 1 ELSE 0, counts))
             digests  == OptionalDigests(b, DigestCount(counts, unpack.crcs))
             fields == Fields(input.tokens, a, explicit)
             taken == [counts |-> counts, crcs |-> digests.crcs, sizes |-> IF sized THEN Some(fields) ELSE None]
  <1>1. explicit = Total(sizes) /\ DigestCount(counts, unpack.crcs) = Total(crcs)
    BY DEF Map, SizeTerms, DigestCount, CrcTerms
  <1>2. n \in Nat
    BY DEF FolderList, IsSequence
  <1>3. sizes \in [1..n -> Nat] /\ crcs \in [1..n -> Nat]
    BY <1>2, TermsTyped
  <1>4. Total(sizes) \in Nat /\ Total(crcs) \in Nat
    <2> HIDE DEF sizes, crcs, n
    <2> QED BY <1>2, <1>3, TotalIsNatural
  <1>5. /\ \/ digests.crcs = None
           \/ \E c : digests.crcs = Some(c) /\ Len(c) = Total(crcs)
        /\ digests.next \in Nat \ {0}
    <2> DEFINE m == Total(crcs)
    <2>1. m \in Nat /\ digests = OptionalDigests(b, m)
      BY <1>1, <1>4
    <2> HIDE DEF m, digests
    <2>2. /\ \/ OptionalDigests(b, m).crcs = None
             \/ \E c : OptionalDigests(b, m).crcs = Some(c) /\ Len(c) = m
          /\ OptionalDigests(b, m).next \in Nat /\ OptionalDigests(b, m).next >= b
      BY <2>1, DigestsCount
    <2> QED BY <2>1, <2>2 DEF m
  <1>6. Len(fields) = Total(sizes) /\ \A i \in DOMAIN fields : fields[i] \in Int
    <2> HIDE DEF sizes, explicit
    <2>1. fields = [k \in 1..Total(sizes) |-> At(input.tokens, a + k - 1)]
      BY <1>1, <1>4 DEF Fields, Eof
    <2>2. input.tokens \in Seq(0..U64Max)
      BY FormatAssumption
    <2>3. fields = [k \in 1..Total(sizes) |-> fields[k]]
      BY <2>1
    <2> HIDE DEF fields
    <2> QED BY <1>4, <2>1, <2>2, <2>3, AtTyped, FunctionIsSequence
  <1>7. \/ taken.sizes = None
        \/ \E s : /\ taken.sizes = Some(s) /\ Len(s) = Total(sizes)
                 /\ \A i \in DOMAIN s : s[i] \in Int
    <2> HIDE DEF fields, sizes
    <2> QED BY <1>6
  <1>8. SubstreamsRead(unpack, taken)
    <2> HIDE DEF fields, digests
    <2> QED BY <1>5, <1>7 DEF SubstreamsRead
  <1> HIDE DEF taken, digests, explicit
  <1> QED BY <1>5, <1>8 DEF taken, digests, explicit

\* A SubStreamsInfo, if it is taken, belongs to the folders read.
LEMMA ParseSubstreamsInfoCounts ==
    ASSUME HeaderInvariant, ParseSubstreamsInfo, UNCHANGED validateVars
    PROVE  HeaderInvariant'
  <1> DEFINE unpack   == streams.unpack[1]
             n        == Len(unpack.folders)
             counted  == Tok(cursor + 1) = ID_NUM_UNPACK_STREAM
             counts   == IF counted THEN Fields(input.tokens, cursor + 2, n) ELSE [k \in 1..n |-> 1]
             a        == IF counted THEN cursor + 2 + n ELSE cursor + 1
             sized    == Tok(a) = ID_SIZE
             explicit == Total(Map(LAMBDA c : IF c > 0 THEN c - 1 ELSE 0, counts))
             b        == IF sized THEN a + 1 + explicit ELSE a
             digests  == OptionalDigests(b, DigestCount(counts, unpack.crcs))
             verdict  == IF Contains(counts, Eof) \/ Total(counts) > U64Max THEN "Format"
                         ELSE IF totals.substreams + Total(counts) > Limits.substreams
                         THEN "LimitExceeded"
                         ELSE EndsAt(digests.next)
             taken    == [counts |-> counts, crcs |-> digests.crcs,
                          sizes |-> IF sized THEN Some(Fields(input.tokens, a + 1, explicit)) ELSE None]
             Taken    == /\ cursor' = digests.next + 1
                         /\ totals' = [totals EXCEPT !.substreams = @ + Total(counts)]
                         /\ streams' = [streams EXCEPT !.substreams = Some(taken)]
                         /\ UNCHANGED <<external, pc, stage, raw>>
  <1>1. /\ pc = "streams"
        /\ IF streams.unpack = None THEN Record("Format", FALSE) ELSE Record(verdict, Taken)
    BY DEF ParseSubstreamsInfo
  <1>2. CASE streams.unpack = None
    <2>1. "Format" \in Verdicts /\ FALSE \in BOOLEAN /\ Record("Format", FALSE)
      BY <1>1, <1>2 DEF Verdicts
    <2> QED BY <2>1, RecordKeeps
  <1>3. CASE streams.unpack # None
    <2>1. verdict \in Verdicts
      BY DEF EndsAt, Verdicts
    <2>2. streams.unpack = Some(unpack) /\ FolderList(unpack.folders) /\ n \in Nat
      <3>1. PICK u : streams.unpack = Some(u) /\ FolderList(u.folders)
        BY <1>3 DEF HeaderInvariant, StreamsRead
      <3>2. unpack = u
        BY <3>1 DEF Some
      <3> HIDE DEF unpack
      <3> QED BY <3>1, <3>2 DEF FolderList, IsSequence
    <2>3. verdict = "Ok" => counts \in [1..n -> Nat]
      <3>1. CASE ~counted
        BY <3>1
      <3>2. CASE counted
        <4>1. n # Eof
          BY <2>2 DEF Eof
        <4>2. counts = [k \in 1..n |-> At(input.tokens, cursor + 2 + k - 1)]
          BY <3>2, <4>1 DEF Fields
        <4>3. Len(counts) = n
          <5>1. counts = [k \in 1..n |-> counts[k]]
            BY <4>2
          <5> HIDE DEF counts, n
          <5> QED BY <2>2, <5>1, FunctionIsSequence
        <4>4. \A k \in 1..n : counts[k] # Eof => counts[k] \in Nat
          BY <4>2, AtTyped, FormatAssumption DEF HeaderInvariant
        <4>5. verdict = "Ok" => \A k \in 1..n : counts[k] # Eof
          BY <4>3 DEF Contains
        <4> HIDE DEF verdict
        <4> QED BY <4>2, <4>4, <4>5
      <3> QED BY <3>1, <3>2
    <2>4. /\ cursor \in Nat \ {0} /\ input \in Inputs /\ HeaderRead(raw) /\ StreamsRead(streams)
          /\ a \in Nat \ {0}
      <3>1. cursor \in Nat \ {0} /\ input \in Inputs /\ HeaderRead(raw) /\ StreamsRead(streams)
        BY DEF HeaderInvariant
      <3> HIDE DEF counted, n
      <3> QED BY <2>2, <3>1
    <2>5. verdict = "Ok" => SubstreamsRead(unpack, taken) /\ digests.next \in Nat \ {0}
      <3>1. sized \in BOOLEAN
        OBVIOUS
      <3>2. ASSUME counts \in [1..n -> Nat]
            PROVE  SubstreamsRead(unpack, taken) /\ digests.next \in Nat \ {0}
        <4>1. explicit \in Nat
          <5> HIDE DEF counts, n
          <5> QED BY <2>2, <3>2, ExplicitSizesCounted
        <4>2. b \in Nat \ {0} /\ a + 1 = a + 1
          <5> HIDE DEF explicit, a, sized
          <5> QED BY <2>4, <4>1
        <4> HIDE DEF counts, a, b, sized, unpack
        <4> QED BY <2>2, <2>4, <3>1, <3>2, <4>2, SubstreamsAreRead DEF explicit, digests
      <3> HIDE DEF verdict, counts, taken, digests
      <3> QED BY <2>3, <3>2
    <2> HIDE DEF taken, counts, digests, unpack
    <2>6. verdict = "Ok" /\ Taken => /\ ReadOn
                                     /\ pc' \notin {"folders", "substreams", "sizes", "resolve"}
      <3>1. Taken => /\ pc' = "streams" /\ raw' = raw /\ external' = external
                     /\ cursor' = digests.next + 1
                     /\ streams' = [pack |-> streams.pack, unpack |-> streams.unpack,
                                    substreams |-> Some(taken)]
        BY <1>1, <2>4 DEF StreamsRead
      <3>2. streams.unpack[1] = unpack
        BY <2>2 DEF Some
      <3> HIDE DEF Taken, verdict
      <3>3. ASSUME verdict = "Ok", Taken PROVE StreamsRead(streams')
        BY <1>3, <2>2, <2>4, <2>5, <3>1, <3>2, <3>3 DEF StreamsRead
      <3> QED BY <2>4, <2>5, <3>1, <3>3 DEF ReadOn
    <2>7. Taken \in BOOLEAN
      OBVIOUS
    <2> HIDE DEF verdict, Taken
    <2> QED BY <1>1, <1>3, <2>1, <2>6, <2>7, RecordKeeps
  <1> QED BY <1>2, <1>3

\* The streams become a section of the header as they were read.
LEMMA StreamsEndCounts ==
    ASSUME HeaderInvariant, StreamsEnd, UNCHANGED validateVars
    PROVE  HeaderInvariant'
  <1> DEFINE encoded == raw.kind = "encoded"
             checks  == << <<totals.substreams + DefaultSubstreams > Limits.substreams, "LimitExceeded">>,
                           <<Tok(cursor) # ID_END \/ (encoded /\ ~Finished), "Format">> >>
             Taken   == /\ cursor' = cursor + 1
                        /\ totals' = [totals EXCEPT !.substreams = @ + DefaultSubstreams]
                        /\ raw' = IF stage = "additional" THEN [raw EXCEPT !.additional = Some(streams)]
                                  ELSE [raw EXCEPT !.main = Some(streams)]
                        /\ pc' = IF encoded THEN "validate" ELSE "body"
                        /\ UNCHANGED <<external, stage, streams>>
  <1>1. Record(Verdict(checks), Taken)
    BY DEF StreamsEnd
  <1>2. Verdict(checks) \in Verdicts
    <2>1. DOMAIN checks = 1..2 /\ \A i \in 1..2 : checks[i][2] \in Verdicts
      BY DEF Verdicts
    <2> HIDE DEF checks
    <2> QED BY <2>1, VerdictIsCheck DEF Verdicts
  <1>3. Taken => /\ ReadOn
                 /\ pc' \notin {"folders", "substreams", "sizes", "resolve"}
    <2>1. StreamsRead(streams) /\ HeaderRead(raw)
      BY DEF HeaderInvariant
    <2>2. /\ HeaderRead([raw EXCEPT !.additional = Some(streams)])
          /\ HeaderRead([raw EXCEPT !.main = Some(streams)])
      BY <2>1, HeaderChanges
    <2>3. cursor \in Nat \ {0}
      BY DEF HeaderInvariant
    <2> QED BY <2>1, <2>2, <2>3 DEF ReadOn
  <1>4. Taken \in BOOLEAN
    OBVIOUS
  <1> HIDE DEF checks, Taken
  <1> QED BY <1>1, <1>2, <1>3, <1>4, RecordKeeps

\* Every record of the parser.
LEMMA ParseCounts ==
    ASSUME HeaderInvariant, ParseStep, UNCHANGED validateVars
    PROVE  HeaderInvariant'
  BY ReadKindCounts, BodyRecordCounts, BodyEndCounts, ParsePropertyCounts, PropertiesEndCounts,
     ParsePackInfoCounts, DeferFoldersCounts, ParseUnpackInfoCounts, ParseUnpackSizesCounts,
     ParseSubstreamsInfoCounts, StreamsEndCounts
  DEF ParseStep

-----------------------------------------------------------------------------
\* What a refused stretch of the validation leaves.
LEMMA RefusedStretch ==
    ASSUME HeaderInvariant, NEW error \in Outcomes, Fails(error)
    PROVE  HeaderInvariant'
  BY DEF HeaderInvariant, ExternalRead, Fails, parseVars, validateVars

\* A stretch that is done.
LEMMA DoneStretch ==
    ASSUME HeaderInvariant, UNCHANGED <<input, result, parseVars>>, section' \in Nat, pc' # "sizes",
           pc' \in {"folders", "substreams"} => InSection', pc' = "substreams" => CursorsCount',
           pc' = "resolve" => PendingFound
    PROVE  HeaderInvariant'
  BY DEF HeaderInvariant, ExternalRead, PendingFound, parseVars

\* What is left to show of a stretch, once its verdict is known to be one.
LEMMA StretchKeeps ==
    ASSUME HeaderInvariant, NEW verdict \in Verdicts, NEW Done \in BOOLEAN, Validates(verdict, Done),
           verdict = "Ok" /\ Done /\ UNCHANGED parseVars =>
               /\ section' \in Nat /\ pc' # "sizes"
               /\ pc' \in {"folders", "substreams"} => InSection'
               /\ pc' = "substreams" => CursorsCount'
               /\ pc' = "resolve" => PendingFound
    PROVE  HeaderInvariant'
  <1>1. CASE Fails("Interrupted")
    BY <1>1, RefusedStretch DEF Outcomes
  <1>2. CASE Fails(verdict)
    BY <1>2, RefusedStretch DEF Outcomes
  <1>3. CASE verdict = "Ok" /\ Done /\ UNCHANGED <<input, result, parseVars>>
    BY <1>3, DoneStretch
  <1> QED BY <1>1, <1>2, <1>3 DEF Validates

\* The section that is validated was read.
LEMMA SectionIsRead ==
    ASSUME HeaderInvariant, section < Len(Sections)
    PROVE  StreamsRead(Raw)
  <1>1. HeaderRead(raw) /\ section \in Nat
    BY DEF HeaderInvariant
  <1>2. Section = "additional" => raw.additional # None
    <2>1. CASE raw.additional # None
      BY <2>1
    <2>2. CASE raw.additional = None
      <3>1. Sections = <<>> \/ Sections = <<"main">>
        BY <2>2 DEF Sections
      <3> QED BY <1>1, <3>1 DEF Section
    <2> QED BY <2>1, <2>2
  <1>3. Section # "additional" => raw.main # None
    <2>1. CASE raw.main # None
      BY <2>1
    <2>2. CASE raw.main = None
      <3>1. Sections = <<>> \/ Sections = <<"additional">>
        <4>1. <<"additional">> \o <<>> = <<"additional">>
          <5>1. <<"additional">> \in Seq({"additional"})
            OBVIOUS
          <5> QED BY <5>1, ConcatEmptySeq
        <4>2. CASE raw.additional = None
          BY <2>2, <4>2 DEF Sections
        <4>3. CASE raw.additional # None
          <5>1. Sections = <<"additional">> \o <<>>
            BY <2>2, <4>3 DEF Sections
          <5> QED BY <4>1, <5>1
        <4> QED BY <4>2, <4>3
      <3>2. Sections = <<"additional">> => Section = "additional"
        <4>1. ASSUME Sections = <<"additional">> PROVE Section = "additional"
          <5>1. section + 1 = 1
            BY <1>1, <4>1
          <5> QED BY <4>1, <5>1 DEF Section
        <4> QED BY <4>1
      <3>3. Sections # <<>>
        BY <1>1
      <3> QED BY <3>1, <3>2, <3>3
    <2> QED BY <2>1, <2>2
  <1>4. CASE Section = "additional"
    <2>1. PICK r : raw.additional = Some(r) /\ StreamsRead(r)
      BY <1>1, <1>2, <1>4 DEF HeaderRead
    <2>2. Raw = r
      BY <1>4, <2>1 DEF Raw, Some
    <2> QED BY <2>1, <2>2
  <1>5. CASE Section # "additional"
    <2>1. PICK r : raw.main = Some(r) /\ StreamsRead(r)
      BY <1>1, <1>3, <1>5 DEF HeaderRead
    <2>2. Raw = r
      BY <1>5, <2>1 DEF Raw, Some
    <2> QED BY <2>1, <2>2
  <1> QED BY <1>4, <1>5

\* The folders of the section.
LEMMA SectionFolders ==
    ASSUME HeaderInvariant, InSection
    PROVE  /\ StreamsRead(Raw) /\ FolderList(Raw.unpack[1].folders)
           /\ \/ Raw.substreams = None
              \/ \E m : Raw.substreams = Some(m) /\ SubstreamsRead(Raw.unpack[1], m)
  <1>1. StreamsRead(Raw) /\ Raw.unpack # None
    BY SectionIsRead DEF InSection
  <1>2. PICK u : Raw.unpack = Some(u) /\ FolderList(u.folders)
    BY <1>1 DEF StreamsRead
  <1>3. Raw.unpack[1] = u
    BY <1>2 DEF Some
  <1>4. \/ Raw.substreams = None
        \/ \E m : Raw.substreams = Some(m) /\ SubstreamsRead(Raw.unpack[1], m)
    BY <1>1 DEF StreamsRead
  <1> QED BY <1>1, <1>2, <1>3, <1>4

\* The drafts are the folders, one for one.
LEMMA DraftsOfFolders ==
    ASSUME NEW unpack, IsSequence(unpack.folders)
    PROVE  /\ Len(Drafts(unpack)) = Len(unpack.folders)
           /\ DOMAIN Drafts(unpack) = 1..Len(unpack.folders)
           /\ \A k \in 1..Len(unpack.folders) : Drafts(unpack)[k].crc = FolderCrc(unpack.crcs, k)
  <1> DEFINE n == Len(unpack.folders)
             d == Drafts(unpack)
  <1>1. n \in Nat /\ DOMAIN unpack.folders = 1..n
    BY DEF IsSequence
  <1>2. d = [k \in 1..n |-> d[k]]
    BY <1>1 DEF Drafts
  <1>3. \A k \in 1..n : d[k].crc = FolderCrc(unpack.crcs, k)
    BY <1>1 DEF Drafts
  <1>4. Len(d) = n
    <2> HIDE DEF d, n
    <2> QED BY <1>1, <1>2, FunctionIsSequence
  <1>5. DOMAIN d = 1..n
    <2>1. DOMAIN [k \in 1..n |-> d[k]] = 1..n
      OBVIOUS
    <2> HIDE DEF d, n
    <2> QED BY <1>2, <2>1
  <1> QED BY <1>3, <1>4, <1>5

\* The vectors have what the counts of the section call for.
LEMMA VectorsFit ==
    ASSUME HeaderInvariant, InSection, drafts = Drafts(Raw.unpack[1])
    PROVE  /\ Len(drafts) \in Nat /\ DOMAIN drafts = 1..Len(drafts)
           /\ \A k \in 1..Len(drafts) : drafts[k].crc = FolderCrc(Raw.unpack[1].crcs, k)
           /\ Counts \in [1..Len(drafts) -> Nat]
           /\ \/ ExplicitSizes = None
              \/ \E s : /\ ExplicitSizes = Some(s) /\ Len(s) = Total(SizeTerms(Counts))
                       /\ \A i \in DOMAIN s : s[i] \in Int
           /\ \/ ExplicitCrcs = None
              \/ \E c : ExplicitCrcs = Some(c) /\ Len(c) = Total(CrcTerms(Counts, Raw.unpack[1].crcs))
  <1> DEFINE unpack == Raw.unpack[1]
             n      == Len(unpack.folders)
  <1>1. IsSequence(unpack.folders) /\ n \in Nat
    BY SectionFolders DEF FolderList, IsSequence
  <1>2. /\ Len(drafts) = n /\ DOMAIN drafts = 1..n
        /\ \A k \in 1..n : drafts[k].crc = FolderCrc(unpack.crcs, k)
    BY <1>1, DraftsOfFolders
  <1>3. CASE Raw.substreams = None
    BY <1>1, <1>2, <1>3 DEF Counts, ExplicitSizes, ExplicitCrcs
  <1>4. CASE Raw.substreams # None
    <2>1. PICK m : Raw.substreams = Some(m) /\ SubstreamsRead(unpack, m)
      BY <1>4, SectionFolders
    <2>2. Raw.substreams[1] = m
      BY <2>1 DEF Some
    <2>3. Counts = m.counts /\ ExplicitSizes = m.sizes /\ ExplicitCrcs = m.crcs
      BY <1>4, <2>2 DEF Counts, ExplicitSizes, ExplicitCrcs
    <2> QED BY <1>1, <1>2, <2>1, <2>3 DEF SubstreamsRead
  <1> QED BY <1>3, <1>4

-----------------------------------------------------------------------------
\* validate_pack_ranges returns one of the verdicts.
LEMMA PackVerdicts ==
    ASSUME NEW pack
    PROVE  PackVerdict(pack) \in Verdicts
  BY DEF PackVerdict, Verdicts

\* A section that has packed streams has folders.
LEMMA ValidatePackCounts ==
    ASSUME HeaderInvariant, ValidatePack
    PROVE  HeaderInvariant'
  <1> DEFINE pack    == Raw.pack[1]
             verdict == IF (Raw.pack = None) # (Raw.unpack = None) THEN "Format"
                        ELSE IF Raw.pack = None THEN "Ok" ELSE PackVerdict(pack)
             Done    == /\ IF Raw.pack = None
                           THEN /\ model' = WithSection(EmptyStreams) /\ section' = section + 1
                                /\ UNCHANGED <<pc, ranges, packs>>
                           ELSE /\ pc' = "folders"
                                /\ packs' = PackStreams(pack) /\ ranges' = ranges \o PackRange(pack)
                                /\ UNCHANGED <<section, model>>
                        /\ UNCHANGED <<drafts, size_cursor, crc_cursor, built, applied>>
  <1>1. Validates(verdict, Done) /\ pc = "validate" /\ section < Len(Sections)
    BY DEF ValidatePack
  <1>2. verdict \in Verdicts
    BY PackVerdicts DEF Verdicts
  <1>3. section \in Nat
    BY DEF HeaderInvariant
  <1>4. ASSUME verdict = "Ok", Done, UNCHANGED parseVars
        PROVE  /\ section' \in Nat /\ pc' \notin {"sizes", "substreams", "resolve"}
               /\ pc' = "folders" => InSection'
    <2>1. CASE Raw.pack = None
      BY <1>1, <1>3, <1>4, <2>1
    <2>2. CASE Raw.pack # None
      <3>1. Raw.unpack # None
        BY <1>4, <2>2
      <3>2. InSection
        BY <1>1, <2>2, <3>1 DEF InSection
      <3>3. pc' = "folders" /\ section' = section /\ raw' = raw
        BY <1>4, <2>2 DEF parseVars
      <3>4. InSection'
        BY <3>2, <3>3 DEF InSection, Raw, Section, Sections
      <3> QED BY <1>3, <3>3, <3>4
    <2> QED BY <2>1, <2>2
  <1>5. Done \in BOOLEAN
    OBVIOUS
  <1> HIDE DEF verdict, Done
  <1> QED BY <1>1, <1>2, <1>4, <1>5, StretchKeeps

\* So does validate_folder.
LEMMA FolderVerdicts ==
    ASSUME NEW f
    PROVE  FolderVerdict(f) \in Verdicts
  <1> DEFINE refused == {k \in DOMAIN f.coders :
                           \/ CoderOf(f.coders[k]).properties # "Ok"
                           \/ Total(SubSeq(Map(LAMBDA c : CoderOf(c).dictionary, f.coders), 1, k))
                                  > Limits.dictionary}
             first == CoderOf(f.coders[Min(refused)]).properties
  <1>1. FolderVerdict(f) = IF refused # {} THEN IF first # "Ok" THEN first ELSE "LimitExceeded"
                           ELSE IF GraphRoot(f) \notin DOMAIN f.sizes THEN "Format" ELSE "Ok"
    BY DEF FolderVerdict
  <1>2. first \in Verdicts
    <2> HIDE DEF refused
    <2> QED BY CoderVerdicts
  <1> HIDE DEF first, refused
  <1> QED BY <1>1, <1>2 DEF Verdicts

\* The drafts are made and the cursors are at the start of the vectors.
LEMMA ValidateFoldersCounts ==
    ASSUME HeaderInvariant, ValidateFolders
    PROVE  HeaderInvariant'
  <1> DEFINE unpack  == Raw.unpack[1]
             folders == unpack.folders
             refused == {k \in DOMAIN folders : FolderVerdict(folders[k]) # "Ok"}
             verdict == IF refused # {} THEN FolderVerdict(folders[Min(refused)])
                        ELSE IF FirstPack(folders, Len(folders) + 1) # Len(packs) THEN "Format"
                        ELSE "Ok"
             Done    == /\ drafts' = Drafts(unpack) /\ pc' = "substreams"
                        /\ built' = <<>> /\ size_cursor' = 0 /\ crc_cursor' = 0
                        /\ UNCHANGED <<section, ranges, packs, model, applied>>
  <1>1. Validates(verdict, Done) /\ pc = "folders"
    BY DEF ValidateFolders
  <1>2. verdict \in Verdicts
    <2> HIDE DEF refused, folders
    <2> QED BY FolderVerdicts DEF Verdicts
  <1>3. InSection /\ section \in Nat
    BY <1>1 DEF HeaderInvariant
  <1>4. ASSUME Done, UNCHANGED parseVars
        PROVE  section' \in Nat /\ pc' = "substreams" /\ InSection' /\ CursorsCount'
    <2>1. section' = section /\ raw' = raw /\ drafts' = Drafts(unpack)
      BY <1>4 DEF parseVars
    <2>2. Raw' = Raw /\ InSection' /\ Drafts(unpack)' = Drafts(unpack)
      BY <1>3, <2>1 DEF InSection, Raw, Section, Sections, Drafts
    <2>3. IsSequence(built') /\ Len(built') = 0
      BY <1>4 DEF IsSequence
    <2> DEFINE n      == Len(unpack.folders)
               counts == Counts'
    <2>4. n \in Nat /\ Len(drafts') = n /\ DOMAIN drafts' = 1..n
      BY <1>3, <2>1, SectionFolders, DraftsOfFolders DEF FolderList, IsSequence
    <2>5. counts \in [1..n -> Nat]
      <3>1. CASE Raw.substreams = None
        <4>1. counts = [k \in DOMAIN drafts' |-> 1]
          BY <2>2, <3>1 DEF Counts
        <4> QED BY <2>4, <4>1
      <3>2. CASE Raw.substreams # None
        <4>1. PICK m : Raw.substreams = Some(m) /\ SubstreamsRead(unpack, m)
          BY <1>3, <3>2, SectionFolders
        <4>2. Raw.substreams[1] = m
          BY <4>1 DEF Some
        <4>3. counts = m.counts
          BY <2>2, <3>2, <4>2 DEF Counts
        <4> QED BY <4>1, <4>3 DEF SubstreamsRead
      <3> QED BY <3>1, <3>2
    <2> HIDE DEF counts, n
    <2>6. SizeTerms(counts) \in [1..n -> Nat] /\ CrcTerms(counts, unpack.crcs) \in [1..n -> Nat]
      BY <2>4, <2>5, TermsTyped
    <2>7. Sums!Total(SizeTerms(counts), 0) = 0 /\ Sums!Total(CrcTerms(counts, unpack.crcs), 0) = 0
      BY <2>4, <2>6, SumFacts
    <2>8. CursorsCount'
      <3>1. /\ SizeTerms(Counts)' = SizeTerms(counts)
            /\ CrcTerms(Counts, Raw.unpack[1].crcs)' = CrcTerms(counts, unpack.crcs)
        BY <2>2 DEF counts
      <3>2. size_cursor' = 0 /\ crc_cursor' = 0
        BY <1>4
      <3> QED BY <2>1, <2>2, <2>3, <2>4, <2>7, <3>1, <3>2 DEF CursorsCount
    <2> QED BY <1>3, <1>4, <2>1, <2>2, <2>8
  <1>5. Done \in BOOLEAN
    OBVIOUS
  <1> HIDE DEF verdict, Done
  <1> QED BY <1>1, <1>2, <1>4, <1>5, StretchKeeps

\* What the folders up to one take of a vector is there.
LEMMA FolderTakes ==
    ASSUME NEW n \in Nat, NEW terms \in [1..n -> Nat], NEW k \in 1..n, NEW vector,
           vector = None \/ \E s : vector = Some(s) /\ Len(s) = Total(terms)
    PROVE  /\ vector = None => Len(FlattenSeq(vector)) = 0
           /\ vector # None => /\ Sums!Total(terms, k - 1) + terms[k] = Sums!Total(terms, k)
                               /\ Sums!Total(terms, k) <= Len(FlattenSeq(vector))
                               /\ Sums!Total(terms, k) \in Nat /\ Len(FlattenSeq(vector)) \in Nat
  <1>1. CASE vector = None
    <2>1. Len(FlattenSeq(None)) = 0
      BY FlattenOptional DEF None
    <2> QED BY <1>1, <2>1
  <1>2. CASE vector # None
    <2>1. PICK s : vector = Some(s) /\ Len(s) = Total(terms)
      BY <1>2
    <2>2. Len(FlattenSeq(vector)) = Total(terms)
      BY <2>1, FlattenOptional
    <2>3. k - 1 \in 0..n /\ k \in 0..n
      OBVIOUS
    <2>4. /\ Sums!Total(terms, k) = Sums!Total(terms, k - 1) + terms[k]
          /\ Sums!Total(terms, k) \in Nat /\ Sums!Total(terms, k) <= Total(terms)
      BY <2>3, SumFacts
    <2>5. Total(terms) \in Nat
      BY TotalIsNatural
    <2> QED BY <1>2, <2>2, <2>4, <2>5
  <1> QED BY <1>1, <1>2

\* A folder takes its own terms of both sums: neither check for the end of a vector
\* fires, and the cursors are behind the folder.
LEMMA BuildSubstreamsCounts ==
    ASSUME HeaderInvariant, BuildSubstreams
    PROVE  HeaderInvariant'
  <1> DEFINE k       == Len(built) + 1
             draft   == drafts[k]
             count   == Counts[k]
             leading == LeadingSizes(count)
             known   == Total(SelectSeq(leading, LAMBDA s : s # Unknown))
             sizes   == IF count = 0 THEN <<>>
                        ELSE IF count = 1 THEN <<draft.root>>
                        ELSE Append(leading, FinalSize(draft, leading))
             checks  == << <<Total(SubSeq(Counts, 1, k)) > Limits.substreams, "LimitExceeded">>,
                           <<size_cursor + SizesTaken(count) > Len(FlattenSeq(ExplicitSizes)), Internal>>,
                           <<known > U64Max, "Format">>,
                           <<count > 1 /\ Derived(draft, leading) /\ known > draft.root, "Format">>,
                           <<crc_cursor + CrcsTaken(draft, count) > Len(FlattenSeq(ExplicitCrcs)),
                             Internal>> >>
             members == [m \in 1..count |-> [size |-> sizes[m], crc |-> MemberCrc(draft, count, m)]]
             folder  == [draft EXCEPT !.members = members]
             Done    == /\ built' = Append(built, folder)
                        /\ size_cursor' = size_cursor + SizesTaken(count)
                        /\ crc_cursor' = crc_cursor + CrcsTaken(draft, count)
                        /\ UNCHANGED <<pc, section, ranges, packs, drafts, model, applied>>
             n       == Len(drafts)
             crcs    == Raw.unpack[1].crcs
  <1>1. Validates(Verdict(checks), Done) /\ pc = "substreams" /\ Len(built) < n
    BY DEF BuildSubstreams
  <1>2. InSection /\ CursorsCount /\ section \in Nat
    BY <1>1 DEF HeaderInvariant
  <1>3. /\ n \in Nat /\ Counts \in [1..n -> Nat]
        /\ \A j \in 1..n : drafts[j].crc = FolderCrc(crcs, j)
        /\ ExplicitSizes = None \/ \E s : ExplicitSizes = Some(s) /\ Len(s) = Total(SizeTerms(Counts))
        /\ ExplicitCrcs = None \/ \E c : ExplicitCrcs = Some(c) /\ Len(c) = Total(CrcTerms(Counts, crcs))
    BY <1>2, VectorsFit DEF CursorsCount
  <1>4. IsSequence(built) /\ Len(built) \in Nat /\ k \in 1..n /\ k - 1 = Len(built)
    BY <1>1, <1>2, <1>3 DEF CursorsCount, IsSequence
  <1>5. SizeTerms(Counts) \in [1..n -> Nat] /\ CrcTerms(Counts, crcs) \in [1..n -> Nat]
    <2> HIDE DEF n, crcs
    <2> QED BY <1>3, TermsTyped
  <1>6. count \in Nat /\ DOMAIN Counts = 1..n
    BY <1>3, <1>4
  <1>7. SizesTaken(count) = IF ExplicitSizes = None THEN 0 ELSE SizeTerms(Counts)[k]
    <2> HIDE DEF k, n
    <2> QED BY <1>4, <1>6 DEF SizesTaken, SizeTerms
  <1>8. CrcsTaken(draft, count) = IF ExplicitCrcs = None THEN 0 ELSE CrcTerms(Counts, crcs)[k]
    <2> HIDE DEF k, n
    <2> QED BY <1>3, <1>4, <1>6 DEF CrcsTaken, CrcTerms
  <1>9. /\ size_cursor = IF ExplicitSizes = None THEN 0 ELSE Sums!Total(SizeTerms(Counts), k - 1)
        /\ crc_cursor = IF ExplicitCrcs = None THEN 0 ELSE Sums!Total(CrcTerms(Counts, crcs), k - 1)
    BY <1>2, <1>4 DEF CursorsCount
  <1>10. /\ ~(size_cursor + SizesTaken(count) > Len(FlattenSeq(ExplicitSizes)))
         /\ size_cursor + SizesTaken(count)
              = IF ExplicitSizes = None THEN 0 ELSE Sums!Total(SizeTerms(Counts), k)
    <2> DEFINE terms == SizeTerms(Counts)
               taken == SizesTaken(count)
               vector == ExplicitSizes
    <2>1. n \in Nat /\ terms \in [1..n -> Nat] /\ k \in 1..n
      BY <1>3, <1>4, <1>5
    <2>2. vector = None \/ \E s : vector = Some(s) /\ Len(s) = Total(terms)
      BY <1>3
    <2>3. size_cursor = IF vector = None THEN 0 ELSE Sums!Total(terms, k - 1)
      BY <1>9
    <2>4. taken = IF vector = None THEN 0 ELSE terms[k]
      BY <1>7
    <2>5. /\ vector = None => Len(FlattenSeq(vector)) = 0
          /\ vector # None => /\ Sums!Total(terms, k - 1) + terms[k] = Sums!Total(terms, k)
                              /\ Sums!Total(terms, k) <= Len(FlattenSeq(vector))
                              /\ Sums!Total(terms, k) \in Nat /\ Len(FlattenSeq(vector)) \in Nat
      <3> HIDE DEF n, k, terms, taken, vector
      <3> QED BY <2>1, <2>2, FolderTakes
    <2>6. /\ ~(size_cursor + taken > Len(FlattenSeq(vector)))
          /\ size_cursor + taken = IF vector = None THEN 0 ELSE Sums!Total(terms, k)
      <3> HIDE DEF n, k, terms, taken, vector
      <3> QED BY <2>3, <2>4, <2>5
    <2> QED BY <2>6
  <1>11. /\ ~(crc_cursor + CrcsTaken(draft, count) > Len(FlattenSeq(ExplicitCrcs)))
         /\ crc_cursor + CrcsTaken(draft, count)
              = IF ExplicitCrcs = None THEN 0 ELSE Sums!Total(CrcTerms(Counts, crcs), k)
    <2> DEFINE terms == CrcTerms(Counts, crcs)
               taken == CrcsTaken(draft, count)
               vector == ExplicitCrcs
    <2>1. n \in Nat /\ terms \in [1..n -> Nat] /\ k \in 1..n
      BY <1>3, <1>4, <1>5
    <2>2. vector = None \/ \E s : vector = Some(s) /\ Len(s) = Total(terms)
      BY <1>3
    <2>3. crc_cursor = IF vector = None THEN 0 ELSE Sums!Total(terms, k - 1)
      BY <1>9
    <2>4. taken = IF vector = None THEN 0 ELSE terms[k]
      BY <1>8
    <2>5. /\ vector = None => Len(FlattenSeq(vector)) = 0
          /\ vector # None => /\ Sums!Total(terms, k - 1) + terms[k] = Sums!Total(terms, k)
                              /\ Sums!Total(terms, k) <= Len(FlattenSeq(vector))
                              /\ Sums!Total(terms, k) \in Nat /\ Len(FlattenSeq(vector)) \in Nat
      <3> HIDE DEF n, k, terms, taken, vector
      <3> QED BY <2>1, <2>2, FolderTakes
    <2>6. /\ ~(crc_cursor + taken > Len(FlattenSeq(vector)))
          /\ crc_cursor + taken = IF vector = None THEN 0 ELSE Sums!Total(terms, k)
      <3> HIDE DEF n, k, terms, taken, vector
      <3> QED BY <2>3, <2>4, <2>5
    <2> QED BY <2>6
  <1>12. Verdict(checks) \in Verdicts
    <2> HIDE DEF count, known, leading, draft, k
    <2>1. DOMAIN checks = 1..5 /\ \A i \in {1, 3, 4} : checks[i][2] \in Verdicts
      BY DEF Verdicts
    <2>2. ~checks[2][1] /\ ~checks[5][1]
      BY <1>10, <1>11
    <2>3. "Ok" \in Verdicts
      BY DEF Verdicts
    <2> HIDE DEF checks
    <2>4. Verdict(checks) = "Ok" \/ \E i \in 1..5 : checks[i][1] /\ Verdict(checks) = checks[i][2]
      BY <2>1, VerdictIsCheck
    <2>5. ASSUME NEW i \in 1..5 PROVE i \in {1, 3, 4} \/ i = 2 \/ i = 5
      OBVIOUS
    <2> QED BY <2>1, <2>2, <2>3, <2>4, <2>5
  <1> HIDE DEF checks, folder, count, draft, n
  <1>13. ASSUME Done, UNCHANGED parseVars
         PROVE  section' \in Nat /\ pc' = "substreams" /\ InSection' /\ CursorsCount'
    <2>1. section' = section /\ raw' = raw /\ drafts' = drafts /\ pc' = pc
      BY <1>13 DEF parseVars
    <2>2. Raw' = Raw /\ InSection' /\ Drafts(Raw.unpack[1])' = Drafts(Raw.unpack[1])
      BY <1>2, <2>1 DEF InSection, Raw, Section, Sections, Drafts
    <2>3. Counts' = Counts /\ ExplicitSizes' = ExplicitSizes /\ ExplicitCrcs' = ExplicitCrcs
      BY <2>1, <2>2 DEF Counts, ExplicitSizes, ExplicitCrcs
    <2>4. IsSequence(built') /\ Len(built') = k
      BY <1>4, <1>13, SequenceGrows
    <2>5. /\ SizeTerms(Counts)' = SizeTerms(Counts)
          /\ CrcTerms(Counts, Raw.unpack[1].crcs)' = CrcTerms(Counts, crcs)
      BY <2>2, <2>3
    <2>6. CursorsCount'
      <3> HIDE DEF k
      <3>1. Len(built)' = k /\ k <= Len(drafts)'
        BY <1>4, <2>1, <2>4 DEF n
      <3>2. drafts' = Drafts(Raw.unpack[1])'
        BY <1>2, <2>1, <2>2 DEF CursorsCount
      <3>3. /\ size_cursor' = IF ExplicitSizes = None THEN 0 ELSE Sums!Total(SizeTerms(Counts), k)
            /\ crc_cursor' = IF ExplicitCrcs = None THEN 0 ELSE Sums!Total(CrcTerms(Counts, crcs), k)
        BY <1>10, <1>11, <1>13
      <3> QED BY <2>3, <2>4, <2>5, <3>1, <3>2, <3>3 DEF CursorsCount
    <2> QED BY <1>1, <1>2, <2>1, <2>2, <2>6
  <1>14. Done \in BOOLEAN
    OBVIOUS
  <1> HIDE DEF Done
  <1> QED BY <1>1, <1>12, <1>13, <1>14, StretchKeeps

\* Behind the last folder both cursors are at the end.
LEMMA StreamsValidatedCounts ==
    ASSUME HeaderInvariant, StreamsValidated
    PROVE  HeaderInvariant'
  <1> DEFINE verdict == IF \/ ExplicitSizes # None /\ size_cursor # Len(ExplicitSizes[1])
                           \/ ExplicitCrcs # None /\ crc_cursor # Len(ExplicitCrcs[1])
                        THEN Internal ELSE "Ok"
             Done    == /\ model' = WithSection([position |-> Raw.pack[1].position, packs |-> packs,
                                                 folders |-> built])
                        /\ section' = section + 1 /\ pc' = "validate"
                        /\ UNCHANGED <<ranges, packs, drafts, size_cursor, crc_cursor, built, applied>>
             n       == Len(drafts)
             crcs    == Raw.unpack[1].crcs
             sterms  == SizeTerms(Counts)
             cterms  == CrcTerms(Counts, crcs)
  <1>1. Validates(verdict, Done) /\ pc = "substreams" /\ Len(built) = n
    BY DEF StreamsValidated
  <1>2. InSection /\ CursorsCount /\ section \in Nat
    BY <1>1 DEF HeaderInvariant
  <1>3. /\ n \in Nat /\ Counts \in [1..n -> Nat]
        /\ ExplicitSizes = None \/ \E s : ExplicitSizes = Some(s) /\ Len(s) = Total(sterms)
        /\ ExplicitCrcs = None \/ \E c : ExplicitCrcs = Some(c) /\ Len(c) = Total(cterms)
    BY <1>2, VectorsFit DEF CursorsCount
  <1>4. Total(sterms) = Sums!Total(sterms, n) /\ Total(cterms) = Sums!Total(cterms, n)
    <2>1. sterms \in [1..n -> Nat] /\ cterms \in [1..n -> Nat]
      <3> HIDE DEF n, crcs
      <3> QED BY <1>3, TermsTyped
    <2> HIDE DEF sterms, cterms, n
    <2> QED BY <1>3, <2>1, SumFacts
  <1>5. /\ size_cursor = IF ExplicitSizes = None THEN 0 ELSE Total(sterms)
        /\ crc_cursor = IF ExplicitCrcs = None THEN 0 ELSE Total(cterms)
    BY <1>1, <1>2, <1>4 DEF CursorsCount
  <1>6. /\ ExplicitSizes # None => size_cursor = Len(ExplicitSizes[1])
        /\ ExplicitCrcs # None => crc_cursor = Len(ExplicitCrcs[1])
    <2> HIDE DEF sterms, cterms
    <2> QED BY <1>3, <1>5 DEF Some
  <1>7. verdict \in Verdicts
    BY <1>6 DEF Verdicts
  <1>8. Done => section' \in Nat /\ pc' = "validate"
    BY <1>2
  <1>9. Done \in BOOLEAN
    OBVIOUS
  <1> HIDE DEF verdict, Done
  <1> QED BY <1>1, <1>7, <1>8, <1>9, StretchKeeps

-----------------------------------------------------------------------------
\* The header whose folders are external.
LEMMA ValidatePendingCounts ==
    ASSUME HeaderInvariant, ValidatePending
    PROVE  HeaderInvariant'
  <1> DEFINE pending == raw.pending[1]
             verdict == IF pending.pack = None THEN "Format"
                        ELSE IF PackVerdict(pending.pack[1]) # "Ok" THEN PackVerdict(pending.pack[1])
                        ELSE IF \/ Overlap(ranges \o PackRange(pending.pack[1]))
                                \/ pending.index >= AdditionalCount
                                \/ pending.index >= Len(input.streams)
                        THEN "Format" ELSE "Ok"
             Done    == pc' = "resolve" /\ UNCHANGED validateVars
  <1>1. Validates(verdict, Done)
    BY DEF ValidatePending
  <1>2. verdict \in Verdicts
    BY PackVerdicts DEF Verdicts
  <1>3. verdict = "Ok" /\ Done => section' \in Nat /\ pc' = "resolve" /\ PendingFound
    <2>1. section \in Nat /\ HeaderRead(raw) /\ input \in Inputs /\ raw.kind = "pending"
      BY DEF HeaderInvariant, ValidatePending
    <2>2. PICK q : raw.pending = Some(q) /\ q.index \in Nat
      BY <2>1 DEF HeaderRead
    <2>3. pending = q
      BY <2>2 DEF Some
    <2>4. Len(input.streams) \in Nat
      BY <2>1, FormatAssumption
    <2>5. verdict = "Ok" => ~(pending.index >= Len(input.streams))
      OBVIOUS
    <2>6. Done => section' = section /\ pc' = "resolve"
      BY DEF validateVars
    <2> HIDE DEF verdict, Done, pending
    <2> QED BY <2>1, <2>2, <2>3, <2>4, <2>5, <2>6 DEF PendingFound
  <1>4. Done \in BOOLEAN
    OBVIOUS
  <1> HIDE DEF verdict, Done
  <1> QED BY <1>1, <1>2, <1>3, <1>4, StretchKeeps

\* The second pass begins with the first section.
LEMMA ResolveFoldersCounts ==
    ASSUME HeaderInvariant, ResolveFolders
    PROVE  HeaderInvariant'
  <1>1. pc = "resolve" /\ input \in Inputs
    BY DEF HeaderInvariant, ResolveFolders
  <1>2. PICK q : raw.pending = Some(q) /\ q.index \in Nat /\ q.index < Len(input.streams)
    BY <1>1 DEF HeaderInvariant, PendingFound
  <1>3. input.streams[q.index + 1] \in Seq(0..U64Max)
    <2>1. input.streams \in Seq(Seq(0..U64Max))
      BY <1>1, FormatAssumption
    <2> QED BY <1>2, <2>1, ElementOfSeq
  <1>4. ExternalRead'
    <2> DEFINE x == [index |-> q.index, data |-> input.streams[q.index + 1]]
    <2>1. external' = Some(x)
      BY <1>2 DEF ResolveFolders, Some
    <2>2. x.data \in Seq(0..U64Max)
      BY <1>3
    <2> HIDE DEF x
    <2> QED BY <2>1, <2>2 DEF ExternalRead
  <1> QED BY <1>4 DEF HeaderInvariant, ResolveFolders

\* All sections are validated.
LEMMA CheckRangesCounts ==
    ASSUME HeaderInvariant, CheckRanges
    PROVE  HeaderInvariant'
  <1> DEFINE verdict == IF Overlap(ranges) THEN "Format" ELSE "Ok"
             Done    == /\ pc' = IF raw.files = None THEN "finish" ELSE "files"
                        /\ model' = [model EXCEPT !.kind = raw.kind, !.properties = raw.properties]
                        /\ UNCHANGED <<section, ranges, packs, drafts, size_cursor, crc_cursor, built, applied>>
  <1>1. Validates(verdict, Done)
    BY DEF CheckRanges
  <1>2. verdict \in Verdicts
    BY DEF Verdicts
  <1>3. Done => section' \in Nat /\ pc' \in {"finish", "files"}
    BY DEF HeaderInvariant
  <1>4. Done \in BOOLEAN
    OBVIOUS
  <1> HIDE DEF verdict, Done
  <1> QED BY <1>1, <1>2, <1>3, <1>4, StretchKeeps

\* parse_names returns one of the verdicts.
LEMMA NameVerdicts ==
    ASSUME NEW data, NEW from, NEW count
    PROVE  NameVerdict(data, from, count) \in Verdicts
  <1> DEFINE names == NamesIn(data, from, count)
             bytes == Map(LAMBDA n : 2 * Len(n), names)
             ends  == Terminators(data, from)
             whole == Len(ends) >= count
             after == IF count = 0 THEN from ELSE ends[count] + 1
             checks == << <<\E k \in DOMAIN bytes : bytes[k] > Limits.name_bytes, "LimitExceeded">>,
                          <<Total(SubSeq(bytes, 1, IF whole THEN count ELSE Len(ends)))
                                > Limits.total_name_bytes, "LimitExceeded">>,
                          <<~whole, "Format">>,
                          <<whole /\ after # Len(data) + 1, "Format">> >>
  <1>1. NameVerdict(data, from, count) = Verdict(checks)
    BY DEF NameVerdict
  <1>2. DOMAIN checks = 1..4 /\ \A i \in 1..4 : checks[i][2] \in Verdicts
    <2> HIDE DEF bytes, ends, after
    <2> QED BY DEF Verdicts
  <1> HIDE DEF checks
  <1> QED BY <1>1, <1>2, VerdictIsCheck DEF Verdicts

\* The entries depend on the sections but do not change them.
LEMMA ValidateFilesCounts ==
    ASSUME HeaderInvariant, ValidateFiles
    PROVE  HeaderInvariant'
  <1> DEFINE names   == IF ~Has(ID_NAME) THEN "Ok"
                        ELSE IF NamesOutside THEN IF Len(Data(ID_NAME)) = 2 THEN "Ok" ELSE "Format"
                        ELSE NameVerdict(Data(ID_NAME), 2, Files.count)
             verdict ==
                 IF ~PropertiesValid \/ ~BitsValid THEN "Format"
                 ELSE IF names # "Ok" THEN names
                 ELSE IF \/ \E id \in Range(ValueIds) : Has(id) /\ ~ValuesExact(id)
                         \/ \E i \in DOMAIN External : External[i].index >= AdditionalCount
                         \/ Len(Mappings) # Files.count - EmptyCount
                 THEN "Format" ELSE "Ok"
             Done    ==
                 /\ pc' = "apply"
                 /\ model' = [model EXCEPT
                        !.files = Some([k \in 1..Files.count |-> EntryAt(k)]),
                        !.external = External,
                        !.unknown = SelectSeq(Files.properties,
                                              LAMBDA p : p.id \notin KnownIds \cup {ID_DUMMY})]
                 /\ UNCHANGED <<section, ranges, packs, drafts, size_cursor, crc_cursor, built, applied>>
  <1>1. Validates(verdict, Done)
    BY DEF ValidateFiles
  <1>2. verdict \in Verdicts
    <2>1. names \in Verdicts
      BY NameVerdicts DEF Verdicts
    <2> HIDE DEF names
    <2> QED BY <2>1 DEF Verdicts
  <1>3. Done => section' \in Nat /\ pc' = "apply"
    <2>1. section \in Nat
      BY DEF HeaderInvariant
    <2> QED BY <2>1
  <1>4. Done \in BOOLEAN
    OBVIOUS
  <1> HIDE DEF verdict, Done
  <1> QED BY <1>1, <1>2, <1>3, <1>4, StretchKeeps

\* Nor do names and values that are external.
LEMMA ApplyPropertyCounts ==
    ASSUME HeaderInvariant, ApplyProperty
    PROVE  HeaderInvariant'
  <1> DEFINE property == model.external[applied + 1]
             data     == input.streams[property.index + 1]
             entries  == model.files[1]
             verdict  == IF property.index >= Len(input.streams) THEN "Format"
                         ELSE IF property.id = ID_NAME THEN NameVerdict(data, 1, Len(entries))
                         ELSE IF CountTrue(property.defined, Len(entries)) # Len(data) THEN "Format"
                         ELSE "Ok"
             values   == DefinedFields(data, 1, property.defined)
             Applied(k) ==
                 IF property.id = ID_NAME
                 THEN [entries[k] EXCEPT !.name = Some(NameAt(data, 1, k))]
                 ELSE IF property.defined[k]
                 THEN [entries[k] EXCEPT !.values[property.id] = Some(values[k])]
                 ELSE entries[k]
             Done     == /\ model' = [model EXCEPT !.files = Some([k \in DOMAIN entries |-> Applied(k)])]
                         /\ applied' = applied + 1
                         /\ UNCHANGED <<pc, section, ranges, packs, drafts, size_cursor, crc_cursor, built>>
  <1>1. Validates(verdict, Done) /\ pc = "apply"
    BY DEF ApplyProperty
  <1>2. verdict \in Verdicts
    <2> HIDE DEF data, entries
    <2> QED BY NameVerdicts DEF Verdicts
  <1>3. Done => section' \in Nat /\ pc' = "apply"
    <2>1. section \in Nat
      BY DEF HeaderInvariant
    <2> QED BY <1>1, <2>1
  <1>4. Done \in BOOLEAN
    OBVIOUS
  <1> HIDE DEF verdict, Done
  <1> QED BY <1>1, <1>2, <1>3, <1>4, StretchKeeps

\* The model is complete.
LEMMA FinishHeaderCounts ==
    ASSUME HeaderInvariant, FinishHeader
    PROVE  HeaderInvariant'
  <1>1. Fails("Ok") /\ "Ok" \in Outcomes
    BY DEF FinishHeader, Outcomes, Verdicts
  <1> QED BY <1>1, RefusedStretch

\* Every step of the parser and the validator.
LEMMA StepCounts == HeaderInvariant /\ [Next]_vars => HeaderInvariant'
  <1> SUFFICES ASSUME HeaderInvariant, [Next]_vars PROVE HeaderInvariant'
    OBVIOUS
  <1>1. CASE ParseStep /\ UNCHANGED validateVars
    BY <1>1, ParseCounts
  <1>2. CASE UNCHANGED vars
    <2>1. UNCHANGED <<input, pc, result, parseVars, validateVars>>
      BY <1>2 DEF vars
    <2>2. /\ raw' = raw /\ section' = section /\ drafts' = drafts /\ built' = built
          /\ size_cursor' = size_cursor /\ crc_cursor' = crc_cursor
          /\ input' = input /\ result' = result /\ pc' = pc /\ streams' = streams
          /\ cursor' = cursor /\ external' = external
      BY <2>1 DEF parseVars, validateVars
    <2>3. InSection' = InSection /\ CursorsCount' = CursorsCount
      BY <2>2 DEF Raw, Section, Sections, InSection, CursorsCount, Counts, ExplicitSizes, ExplicitCrcs, Drafts
    <2> QED BY <2>2, <2>3 DEF HeaderInvariant, ExternalRead, PendingFound
  <1> QED BY <1>1, <1>2, ValidatePackCounts, ValidateFoldersCounts, BuildSubstreamsCounts,
             StreamsValidatedCounts, ValidatePendingCounts, ResolveFoldersCounts, CheckRangesCounts,
             ValidateFilesCounts, ApplyPropertyCounts, FinishHeaderCounts
          DEF Next

(***************************************************************************)
(* What the parser and the validator keep between two records: the vectors *)
(* of a SubStreamsInfo have as many sizes and CRCs as its counts call for, *)
(* and the validator's cursors stand where the folders before left them.   *)
(***************************************************************************)
THEOREM HeaderCounts == Spec => []HeaderInvariant
  BY InitCounts, StepCounts, PTL DEF Spec

(***************************************************************************)
(* The parser's and the validator's separate counts of explicit sizes and  *)
(* CRCs agree for every header, limit and interruption: build_substreams   *)
(* never runs out of either vector, nor leaves any of it.                  *)
(***************************************************************************)
THEOREM VectorsAgree == Spec => []CountsAgree
  <1>1. HeaderInvariant => CountsAgree
    BY DEF HeaderInvariant, Outcomes, Verdicts, CountsAgree, Internal
  <1> QED BY <1>1, HeaderCounts, PTL
-----------------------------------------------------------------------------
(***************************************************************************)
(* What the validator keeps of the sections that it accepted.              *)
(***************************************************************************)
\* Packed streams one behind another, inside the archive's data.
PacksInPlace(all) ==
    /\ IsSequence(all)
    /\ \A k \in 1..Len(all) :
          /\ all[k].offset \in Int /\ all[k].size \in Nat
          /\ DataStart <= all[k].offset /\ all[k].offset + all[k].size <= NextHeaderOffset
    /\ \A j, k \in 1..Len(all) : j < k => all[j].offset + all[j].size <= all[k].offset

\* A range covers them, or they are empty.
Covered(all, i) ==
    \/ i = 0 /\ \A k \in 1..Len(all) : all[k].size = 0
    \/ /\ i \in 1..Len(ranges)
       /\ \A k \in 1..Len(all) : /\ ranges[i][1] <= all[k].offset
                                /\ all[k].offset + all[k].size <= ranges[i][2]

\* The packed streams of a StreamsInfo, if there is one.
PacksOf(streamsInfo) == IF streamsInfo = None THEN <<>> ELSE streamsInfo[1].packs

\* The packed streams of the section that is being validated.
Current == IF pc \in {"folders", "substreams"} THEN packs ELSE <<>>

\* Different sections have different ranges.
RangesApart ==
    \E a, m, c \in 0..Len(ranges) :
        /\ Covered(PacksOf(model.additional), a) /\ Covered(PacksOf(model.main), m)
        /\ Covered(Current, c)
        /\ a = m => a = 0 /\ m = 0
        /\ a = c => a = 0 /\ c = 0
        /\ m = c => m = 0 /\ c = 0

\* Ranges have two ends.
RangeList == IsSequence(ranges) /\ \A i \in 1..Len(ranges) : ranges[i][1] \in Int /\ ranges[i][2] \in Int

\* The fields of a folder before it has members.
DraftRead(d) ==
    /\ d = [coders |-> d.coders, binds |-> d.binds, packed |-> d.packed, sizes |-> d.sizes,
            root |-> d.root, crc |-> d.crc, first_pack |-> d.first_pack,
            packed_streams |-> d.packed_streams, members |-> d.members]
    /\ d.root \in Int

\* A folder that has its members.
FolderBuilt(f, draft) ==
    /\ f.first_pack = draft.first_pack /\ f.packed_streams = draft.packed_streams
    /\ IsSequence(f.members) /\ MembersFill(f)

\* An accepted section: its packed streams in place and dealt out, its folders filled.
SectionSound(s) ==
    /\ PacksInPlace(s.packs) /\ PacksDealtOut(s) /\ IsSequence(s.folders)
    /\ \A k \in 1..Len(s.folders) : IsSequence(s.folders[k].members) /\ MembersFill(s.folders[k])

\* The model so far holds sound sections.
ModelRead ==
    /\ model = [kind |-> model.kind, properties |-> model.properties,
                additional |-> model.additional, main |-> model.main, files |-> model.files,
                external |-> model.external, unknown |-> model.unknown]
    /\ model.additional = None \/ \E s : model.additional = Some(s) /\ SectionSound(s)
    /\ model.main = None \/ \E s : model.main = Some(s) /\ SectionSound(s)

\* An entry has these fields.
EntryRead(e) ==
    e = [has_stream |-> e.has_stream, empty_file |-> e.empty_file, anti_item |-> e.anti_item,
         name |-> e.name, values |-> e.values, stream |-> e.stream]

\* Entries in their place.
EntriesRead(entries) ==
    /\ IsSequence(entries) /\ EntriesMapped(entries)
    /\ \A k \in 1..Len(entries) : EntryRead(entries[k])

\* The entries, if the header has any, are in their place.
EntriesPlaced ==
    model.files = None \/ \E entries : model.files = Some(entries) /\ EntriesRead(entries)

\* All packed streams of the section are dealt out, and the folders built are.
SectionDrafted ==
    /\ FirstPack(Raw.unpack[1].folders, Len(Raw.unpack[1].folders) + 1) = Len(packs)
    /\ \A k \in 1..Len(drafts) : DraftRead(drafts[k])
    /\ \A k \in 1..Len(built) : FolderBuilt(built[k], drafts[k])

\* What the validator keeps, at every place of it.
ModelInvariant ==
    /\ result # "none" => pc = "done"
    /\ RangeList /\ ModelRead /\ RangesApart
    /\ pc \in {"folders", "substreams"} => PacksInPlace(packs)
    /\ pc = "substreams" => SectionDrafted
    /\ pc \in {"files", "apply", "finish"} => ~Overlap(ranges)
    /\ pc = "files" => raw.files # None
    /\ pc \notin {"apply", "done"} => model.files = None
    /\ pc = "apply" => \E entries : model.files = Some(entries) /\ EntriesRead(entries)
    /\ result = "Ok" => ~Overlap(ranges) /\ EntriesPlaced

-----------------------------------------------------------------------------
\* Two sequences in a row, whatever their elements.
LEMMA ConcatOf ==
    ASSUME NEW s, IsSequence(s), NEW t, IsSequence(t)
    PROVE  /\ IsSequence(s \o t) /\ Len(s \o t) = Len(s) + Len(t)
           /\ \A i \in 1..Len(s) : (s \o t)[i] = s[i]
           /\ \A i \in 1..Len(t) : (s \o t)[Len(s) + i] = t[i]
  <1> DEFINE m == Len(s)
             n == Len(t)
             S == {s[i] : i \in 1..m} \cup {t[i] : i \in 1..n}
             c == s \o t
  <1>1. /\ m \in Nat /\ n \in Nat
        /\ s = [i \in 1..m |-> s[i]] /\ t = [i \in 1..n |-> t[i]]
    BY DEF IsSequence
  <1>2. s \in [1..m -> S] /\ t \in [1..n -> S]
    BY <1>1
  <1>3. s \in Seq(S) /\ t \in Seq(S)
    <2> HIDE DEF S, m, n
    <2> QED BY <1>1, <1>2, MappedSequence
  <1>4. /\ c \in Seq(S) /\ Len(c) = m + n
        /\ \A i \in 1..(m + n) : c[i] = IF i <= m THEN s[i] ELSE t[i - m]
    <2> HIDE DEF S
    <2> QED BY <1>3, ConcatProperties
  <1>5. c \in [1..(m + n) -> S]
    <2> HIDE DEF S, m, n, c
    <2> QED BY <1>4, LenProperties
  <1>6. c = [i \in 1..(m + n) |-> c[i]]
    <2> HIDE DEF S, c
    <2> QED BY <1>5
  <1>7. \A i \in 1..n : m + i \in 1..(m + n) /\ ~(m + i <= m) /\ m + i - m = i
    BY <1>1
  <1>8. \A i \in 1..m : i \in 1..(m + n) /\ i <= m
    BY <1>1
  <1> HIDE DEF c, S, m, n
  <1> QED BY <1>1, <1>4, <1>6, <1>7, <1>8 DEF IsSequence, c, m, n

\* None and one are sequences.
LEMMA OptionIsSequence ==
    ASSUME NEW x
    PROVE  /\ IsSequence(None) /\ Len(None) = 0
           /\ IsSequence(Some(x)) /\ Len(Some(x)) = 1 /\ Some(x)[1] = x
  BY DEF IsSequence, None, Some

\* A sequence is determined by its elements.
LEMMA SequencesEqual ==
    ASSUME NEW s, IsSequence(s), NEW t, IsSequence(t), Len(s) = Len(t),
           \A i \in 1..Len(s) : s[i] = t[i]
    PROVE  s = t
  BY DEF IsSequence

\* Nothing more, or one more.
LEMMA ConcatOption ==
    ASSUME NEW s, IsSequence(s), NEW x
    PROVE  /\ s \o None = s
           /\ IsSequence(s \o Some(x)) /\ Len(s \o Some(x)) = Len(s) + 1
           /\ (s \o Some(x))[Len(s) + 1] = x
           /\ \A i \in 1..Len(s) : (s \o Some(x))[i] = s[i]
  <1>1. Len(s) \in Nat
    BY DEF IsSequence
  <1>2. /\ IsSequence(s \o None) /\ Len(s \o None) = Len(s)
        /\ \A i \in 1..Len(s) : (s \o None)[i] = s[i]
    BY <1>1, ConcatOf, OptionIsSequence
  <1>3. s \o None = s
    BY <1>2, SequencesEqual
  <1>4. /\ IsSequence(s \o Some(x)) /\ Len(s \o Some(x)) = Len(s) + 1
        /\ \A i \in 1..Len(s) : (s \o Some(x))[i] = s[i]
        /\ \A i \in 1..1 : (s \o Some(x))[Len(s) + i] = Some(x)[i]
    <2>1. IsSequence(Some(x)) /\ Len(Some(x)) = 1
      BY OptionIsSequence
    <2>2. ASSUME NEW t, IsSequence(t), Len(t) = 1
          PROVE  /\ IsSequence(s \o t) /\ Len(s \o t) = Len(s) + 1
                 /\ \A i \in 1..Len(s) : (s \o t)[i] = s[i]
                 /\ \A i \in 1..1 : (s \o t)[Len(s) + i] = t[i]
      <3>1. IsSequence(s \o t) /\ Len(s \o t) = Len(s) + Len(t)
        BY <2>2, ConcatOf
      <3>4. \A i \in 1..Len(s) : (s \o t)[i] = s[i]
        BY <2>2, ConcatOf
      <3>5. \A i \in 1..Len(t) : (s \o t)[Len(s) + i] = t[i]
        BY <2>2, ConcatOf
      <3> DEFINE c == s \o t
      <3> HIDE DEF c
      <3>2. /\ IsSequence(c) /\ Len(c) = Len(s) + Len(t)
            /\ \A i \in 1..Len(s) : c[i] = s[i]
            /\ \A i \in 1..Len(t) : c[Len(s) + i] = t[i]
        BY <3>1, <3>4, <3>5 DEF c
      <3>3. /\ IsSequence(c) /\ Len(c) = Len(s) + 1
            /\ \A i \in 1..Len(s) : c[i] = s[i]
            /\ \A i \in 1..1 : c[Len(s) + i] = t[i]
        BY <2>2, <3>2
      <3> QED BY <3>3 DEF c
    <2> QED BY <2>1, <2>2
  <1>5. (s \o Some(x))[Len(s) + 1] = x
    <2>1. 1 \in 1..1
      OBVIOUS
    <2> QED BY <1>4, <2>1, OptionIsSequence
  <1> QED BY <1>3, <1>4, <1>5

\* What FlattenSeq computes: each prefix is the one before it and one sequence more.
Flattens(all, n, g) ==
    /\ FlattenSeq(all) = g[n] /\ g[1] = all[1]
    /\ \A i \in 2..n : g[i] = g[i - 1] \o all[i]

\* There are such prefixes.
LEMMA FlattenSteps ==
    ASSUME NEW n \in Nat \ {0}, NEW all, IsSequence(all), Len(all) = n
    PROVE  \E g : Flattens(all, n, g)
  <1> DEFINE Is(m, f) == f = [i \in 1..m |-> IF i = 1 THEN all[1] ELSE f[i - 1] \o all[i]]
             Bad == {m \in Nat \ {0} : ~\E f : Is(m, f)}
             P(f) == f = [i \in 1..Len(all) |-> IF i = 1 THEN all[i] ELSE f[i - 1] \o all[i]]
             g == CHOOSE f : P(f)
  <1>1. ASSUME Bad # {} PROVE FALSE
    <2>1. PICK b \in Bad : \A m \in Bad : b <= m
      <3>1. Bad \in SUBSET Nat
        OBVIOUS
      <3> HIDE DEF Bad
      <3> QED BY <3>1, <1>1, ArchiveLimits, Sums!LeastNatural
    <2>2. b # 1
      <3>1. Is(1, [i \in 1..1 |-> all[1]])
        BY DEF Is
      <3> HIDE DEF Is
      <3> QED BY <3>1
    <2>3. PICK f : Is(b - 1, f)
      <3>1. b \in Nat \ {0}
        OBVIOUS
      <3>2. b - 1 \in Nat \ {0} /\ b - 1 \notin Bad
        <4> HIDE DEF Bad
        <4> QED BY <2>1, <2>2, <3>1
      <3> HIDE DEF Is
      <3> QED BY <3>2
    <2> DEFINE h == [i \in 1..b |-> IF i = b THEN f[b - 1] \o all[b] ELSE f[i]]
    <2>4. \A i \in 1..(b - 1) : f[i] = IF i = 1 THEN all[1] ELSE f[i - 1] \o all[i]
      BY <2>3
    <2>5. \A i \in 1..b : h[i] = IF i = 1 THEN all[1] ELSE h[i - 1] \o all[i]
      <3> TAKE i \in 1..b
      <3>1. CASE i = b
        <4>1. b - 1 \in 1..b /\ b - 1 # b /\ b \in 1..b
          BY <2>2
        <4>2. h[b] = f[b - 1] \o all[b] /\ h[b - 1] = f[b - 1]
          BY <4>1
        <4> HIDE DEF h
        <4> QED BY <2>2, <3>1, <4>2
      <3>2. CASE i # b
        <4>1. h[i] = f[i] /\ i \in 1..(b - 1)
          BY <3>2
        <4>2. i # 1 => h[i - 1] = f[i - 1]
          BY <3>2
        <4> HIDE DEF h
        <4> QED BY <2>4, <4>1, <4>2
      <3> QED BY <3>1, <3>2
    <2>6. Is(b, h)
      <3>1. h = [i \in 1..b |-> h[i]]
        OBVIOUS
      <3> HIDE DEF h
      <3> QED BY <2>5, <3>1
    <2> HIDE DEF Is, h
    <2> QED BY <2>1, <2>6
  <1>2. \E f : f = [i \in 1..Len(all) |-> IF i = 1 THEN all[i] ELSE f[i - 1] \o all[i]]
    <2>1. n \notin Bad
      BY <1>1
    <2>2. PICK f : Is(n, f)
      <3> HIDE DEF Is
      <3> QED BY <2>1
    <2>3. f = [i \in 1..n |-> IF i = 1 THEN all[i] ELSE f[i - 1] \o all[i]]
      BY <2>2
    <2> QED BY <2>3
  <1>3. g = [i \in 1..n |-> IF i = 1 THEN all[i] ELSE g[i - 1] \o all[i]]
    <2>1. \E f : P(f)
      BY <1>2
    <2>2. P(g)
      <3> HIDE DEF P
      <3> QED BY <2>1
    <2> QED BY <2>2
  <1>4. FlattenSeq(all) = g[n]
    BY DEF FlattenSeq
  <1> HIDE DEF g
  <1>5. g[1] = all[1] /\ \A i \in 2..n : g[i] = g[i - 1] \o all[i]
    <2>1. 1 \in 1..n /\ \A i \in 2..n : i \in 1..n /\ i # 1
      OBVIOUS
    <2> QED BY <1>3, <2>1
  <1>6. Flattens(all, n, g)
    BY <1>4, <1>5 DEF Flattens
  <1> QED BY <1>6

\* Nothing before a sequence.
LEMMA NothingBefore ==
    ASSUME NEW p, IsSequence(p)
    PROVE  None \o p = p
  <1> DEFINE c == None \o p
  <1>1. IsSequence(None) /\ Len(None) = 0 /\ Len(p) \in Nat
    BY OptionIsSequence DEF IsSequence
  <1>2. IsSequence(c) /\ Len(c) = 0 + Len(p)
    BY <1>1, ConcatOf
  <1>3. \A i \in 1..Len(p) : c[0 + i] = p[i]
    BY <1>1, ConcatOf
  <1> HIDE DEF c
  <1>4. Len(c) = Len(p) /\ \A i \in 1..Len(c) : c[i] = p[i]
    BY <1>1, <1>2, <1>3
  <1>5. c = p
    BY <1>2, <1>4, SequencesEqual
  <1> QED BY <1>5 DEF c

-----------------------------------------------------------------------------
\* The partial sums of a vector.
LEMMA SumsGrow ==
    ASSUME NEW n \in Nat, NEW v \in [1..n -> Nat]
    PROVE  \A j, k \in 0..n : j <= k => Sums!Total(v, j) <= Sums!Total(v, k)
  <1> SUFFICES ASSUME NEW j \in 0..n, NEW k \in 0..n, j <= k
               PROVE  Sums!Total(v, j) <= Sums!Total(v, k)
    OBVIOUS
  <1>1. \A m \in j..n : Sums!Total(v, j) <= Sums!Total(v, m)
    BY ArchiveLimits, Sums!TotalsGrow
  <1> QED BY <1>1

\* What validate_pack_ranges lets through: the sizes are there, and one after
\* the other the packed streams end before the next header.
LEMMA PackOffsets ==
    ASSUME NEW pack, PackRead(pack), PackVerdict(pack) = "Ok"
    PROVE  \E n \in Nat : \E v \in [1..n -> Nat] :
              /\ pack.sizes = Some(v) /\ pack.position \in Nat
              /\ \A k \in 1..(n + 1) :
                    PackOffset(pack, k) = DataStart + pack.position + Sums!Total(v, k - 1)
              /\ \A k \in 1..n : PackOffset(pack, k) + v[k] <= NextHeaderOffset
  <1>1. pack.sizes # None
    BY DEF PackVerdict
  <1>2. PICK n \in Nat : \E v \in [1..n -> Nat] : pack.sizes = Some(v)
    BY <1>1 DEF PackRead
  <1>3. PICK v \in [1..n -> Nat] : pack.sizes = Some(v)
    BY <1>2
  <1>4. pack.sizes[1] = v /\ IsSequence(v) /\ Len(v) = n /\ DOMAIN v = 1..n
    <2>1. v = [i \in 1..n |-> v[i]]
      OBVIOUS
    <2>2. IsSequence(v) /\ Len(v) = n
      BY <2>1, FunctionIsSequence
    <2> QED BY <1>3, <2>2 DEF Some
  <1>5. ASSUME NEW k \in 1..(n + 1)
        PROVE  PackOffset(pack, k) = DataStart + pack.position + Sums!Total(v, k - 1)
    <2>1. k - 1 \in 0..n
      OBVIOUS
    <2>2. SubSeq(v, 1, k - 1) = [i \in 1..(k - 1) |-> v[i]]
      BY <1>4, <2>1, PrefixOf
    <2>3. Total([i \in 1..(k - 1) |-> v[i]]) = Sums!Total(v, k - 1)
      BY <2>1, PrefixTotal
    <2> QED BY <1>4, <2>2, <2>3 DEF PackOffset
  <1>6. ASSUME NEW k \in 1..n PROVE PackOffset(pack, k) + v[k] <= NextHeaderOffset
    <2> DEFINE refused == {i \in DOMAIN v : \/ v[i] = U64Max
                                            \/ PackOffset(pack, i) + v[i] > NextHeaderOffset}
    <2>1. refused = {}
      BY <1>4 DEF PackVerdict
    <2>2. ~(PackOffset(pack, k) + v[k] > NextHeaderOffset)
      BY <1>4, <2>1
    <2>3. PackOffset(pack, k) \in Int /\ v[k] \in Nat /\ NextHeaderOffset \in Nat
      <3>1. Sums!Total(v, k - 1) \in Nat
        <4>1. k - 1 \in 0..n
          OBVIOUS
        <4> QED BY <4>1, SumFacts
      <3>2. k \in 1..(n + 1)
        OBVIOUS
      <3> QED BY <1>5, <3>1, <3>2, EnvelopeAssumption DEF PackRead, DataStart
    <2> QED BY <2>2, <2>3
  <1> QED BY <1>3, <1>5, <1>6 DEF PackRead

\* The range of the packed streams is around each of them.
Around(all, range) ==
    \/ range = <<>> /\ \A k \in 1..Len(all) : all[k].size = 0
    \/ \E b, e \in Int : /\ range = <<<<b, e>>>>
                        /\ \A k \in 1..Len(all) : b <= all[k].offset /\ all[k].offset + all[k].size <= e

\* Packed streams are in place, and inside their range.
LEMMA PacksArePlaced ==
    ASSUME NEW pack, PackRead(pack), PackVerdict(pack) = "Ok"
    PROVE  PacksInPlace(PackStreams(pack)) /\ Around(PackStreams(pack), PackRange(pack))
  <1> DEFINE all == PackStreams(pack)
             D == DataStart + pack.position
  <1>0. PICK n \in Nat : \E v \in [1..n -> Nat] :
              /\ pack.sizes = Some(v) /\ pack.position \in Nat
              /\ \A k \in 1..(n + 1) :
                    PackOffset(pack, k) = DataStart + pack.position + Sums!Total(v, k - 1)
              /\ \A k \in 1..n : PackOffset(pack, k) + v[k] <= NextHeaderOffset
    BY PackOffsets
  <1>1. PICK v \in [1..n -> Nat] :
              /\ pack.sizes = Some(v) /\ pack.position \in Nat
              /\ \A k \in 1..(n + 1) :
                    PackOffset(pack, k) = DataStart + pack.position + Sums!Total(v, k - 1)
              /\ \A k \in 1..n : PackOffset(pack, k) + v[k] <= NextHeaderOffset
    BY <1>0
  <1>2. /\ pack.sizes[1] = v /\ DOMAIN v = 1..n /\ Len(v) = n /\ D \in Int /\ DataStart <= D
        /\ DataStart \in Int /\ NextHeaderOffset \in Int
    <2>1. v = [i \in 1..n |-> v[i]]
      OBVIOUS
    <2>2. Len(v) = n
      BY <2>1, FunctionIsSequence
    <2> QED BY <1>1, <2>2, EnvelopeAssumption DEF Some, DataStart
  <1>3. all = [k \in 1..n |-> [offset |-> PackOffset(pack, k), size |-> v[k],
                               crc |-> FolderCrc(pack.crcs, k)]]
    BY <1>2 DEF PackStreams
  <1>4. IsSequence(all) /\ Len(all) = n
    <2>1. all = [k \in 1..n |-> all[k]]
      BY <1>3
    <2> HIDE DEF all
    <2> QED BY <2>1, FunctionIsSequence
  <1> DEFINE S(k) == Sums!Total(v, k)
  <1>5. /\ S(0) = 0 /\ \A k \in 0..n : S(k) \in Nat
        /\ \A k \in 1..n : S(k) = S(k - 1) + v[k]
        /\ \A j, k \in 0..n : j <= k => S(j) <= S(k)
    BY SumFacts, SumsGrow
  <1> HIDE DEF S
  <1>6. \A k \in 1..n : /\ all[k].offset = D + S(k - 1) /\ all[k].size = v[k] /\ v[k] \in Nat
                        /\ k - 1 \in 0..n /\ k \in 0..n /\ all[k].offset + all[k].size = D + S(k)
                        /\ D + S(k) <= NextHeaderOffset
    <2> TAKE k \in 1..n
    <2>1. k \in 1..(n + 1) /\ k - 1 \in 0..n /\ k \in 0..n
      OBVIOUS
    <2>2. PackOffset(pack, k) = D + S(k - 1) /\ PackOffset(pack, k) + v[k] <= NextHeaderOffset
      BY <1>1, <2>1 DEF S
    <2>3. S(k) = S(k - 1) + v[k] /\ S(k) \in Nat /\ S(k - 1) \in Nat
      BY <1>5, <2>1
    <2>4. all[k].offset = PackOffset(pack, k) /\ all[k].size = v[k]
      BY <1>3
    <2> HIDE DEF all, D
    <2> QED BY <1>2, <2>1, <2>2, <2>3, <2>4
  <1> HIDE DEF all, D
  <1>7. PacksInPlace(all)
    <2>1. ASSUME NEW k \in 1..n
          PROVE  /\ all[k].offset \in Int /\ all[k].size \in Nat
                 /\ DataStart <= all[k].offset /\ all[k].offset + all[k].size <= NextHeaderOffset
      <3>1. /\ all[k].offset = D + S(k - 1) /\ all[k].size \in Nat
            /\ all[k].offset + all[k].size <= NextHeaderOffset
        BY <1>6
      <3>2. S(k - 1) \in Nat
        BY <1>5, <1>6
      <3> QED BY <1>2, <3>1, <3>2
    <2>2. ASSUME NEW j \in 1..n, NEW k \in 1..n, j < k
          PROVE  all[j].offset + all[j].size <= all[k].offset
      <3>1. j \in 0..n /\ k - 1 \in 0..n /\ j <= k - 1
        BY <2>2
      <3>2. S(j) <= S(k - 1) /\ S(j) \in Nat /\ S(k - 1) \in Nat
        BY <1>5, <3>1
      <3>3. all[j].offset + all[j].size = D + S(j) /\ all[k].offset = D + S(k - 1)
        BY <1>6
      <3> QED BY <1>2, <3>2, <3>3
    <2> QED BY <1>4, <2>1, <2>2 DEF PacksInPlace
  <1>8. PackRange(pack) = IF D + S(n) > D THEN <<<<D, D + S(n)>>>> ELSE <<>>
    <2>1. PackOffset(pack, n + 1) = D + S(n) /\ PackOffset(pack, 1) = D + S(0)
      <3>1. n + 1 \in 1..(n + 1) /\ 1 \in 1..(n + 1) /\ n + 1 - 1 = n /\ 1 - 1 = 0
        OBVIOUS
      <3> QED BY <1>1, <3>1 DEF D, S
    <2>2. D + S(0) = D
      BY <1>2, <1>5
    <2> QED BY <1>2, <2>1, <2>2 DEF PackRange
  <1>9. CASE D + S(n) > D
    <2>1. D \in Int /\ D + S(n) \in Int
      BY <1>2, <1>5
    <2>2. \A k \in 1..n : D <= all[k].offset /\ all[k].offset + all[k].size <= D + S(n)
      <3> TAKE k \in 1..n
      <3>1. S(k) <= S(n) /\ S(k) \in Nat /\ S(k - 1) \in Nat /\ S(n) \in Nat
        BY <1>5, <1>6
      <3> QED BY <1>2, <1>6, <3>1
    <2> QED BY <1>4, <1>7, <1>8, <1>9, <2>1, <2>2 DEF Around, all
  <1>10. CASE ~(D + S(n) > D)
    <2>1. \A k \in 1..n : all[k].size = 0
      <3> TAKE k \in 1..n
      <3>1. /\ S(k) <= S(n) /\ S(k) \in Nat /\ S(k - 1) \in Nat /\ S(n) \in Nat
            /\ S(k) = S(k - 1) + v[k]
        BY <1>5, <1>6
      <3> QED BY <1>2, <1>6, <1>10, <3>1
    <2> QED BY <1>4, <1>7, <1>8, <1>10, <2>1 DEF Around, all
  <1> QED BY <1>9, <1>10

-----------------------------------------------------------------------------
\* Consecutive intervals share nothing and leave nothing out.
LEMMA IntervalsPartition ==
    ASSUME NEW n \in Nat, NEW v \in [1..n -> Nat]
    PROVE  LET Interval(k) == Sums!Total(v, k - 1)..(Sums!Total(v, k) - 1)
           IN  /\ \A x : x \in 0..(Total(v) - 1) <=> \E k \in 1..n : x \in Interval(k)
               /\ \A j, k \in 1..n : j # k => Interval(j) \cap Interval(k) = {}
  <1> DEFINE S(k) == Sums!Total(v, k)
             Interval(k) == S(k - 1)..(S(k) - 1)
  <1>1. /\ S(0) = 0 /\ \A k \in 0..n : S(k) \in Nat
        /\ \A k \in 1..n : S(k) = S(k - 1) + v[k]
        /\ \A j, k \in 0..n : j <= k => S(j) <= S(k)
        /\ Total(v) = S(n)
    BY SumFacts, SumsGrow
  <1> HIDE DEF S
  <1>2. ASSUME NEW x \in 0..(Total(v) - 1) PROVE \E k \in 1..n : x \in Interval(k)
    <2> DEFINE Above == {k \in 0..n : x < S(k)}
    <2>1. n \in Above /\ Above \in SUBSET Nat /\ x \in Nat
      <3>1. n \in 0..n /\ S(n) \in Nat
        BY <1>1
      <3> QED BY <1>1, <3>1
    <2>2. PICK k \in Above : \A j \in Above : k <= j
      <3> HIDE DEF Above
      <3> QED BY <2>1, ArchiveLimits, Sums!LeastNatural
    <2>3. k # 0
      BY <1>1, <2>1
    <2>4. k - 1 \in 0..n /\ k - 1 \notin Above /\ k \in 1..n
      BY <2>2, <2>3
    <2>5. S(k - 1) <= x /\ x < S(k) /\ S(k) \in Nat /\ S(k - 1) \in Nat
      BY <1>1, <2>1, <2>4
    <2> QED BY <2>1, <2>4, <2>5
  <1>3. ASSUME NEW k \in 1..n, NEW x \in Interval(k) PROVE x \in 0..(Total(v) - 1)
    <2>1. k - 1 \in 0..n /\ k \in 0..n /\ n \in 0..n
      OBVIOUS
    <2>2. S(k - 1) \in Nat /\ S(k) \in Nat /\ S(k) <= S(n) /\ S(n) \in Nat
      BY <1>1, <2>1
    <2> QED BY <1>1, <2>2
  <1>4. ASSUME NEW j \in 1..n, NEW k \in 1..n, j < k PROVE Interval(j) \cap Interval(k) = {}
    <2>1. j \in 0..n /\ k - 1 \in 0..n /\ j <= k - 1 /\ k \in 0..n /\ j - 1 \in 0..n
      BY <1>4
    <2>2. /\ S(j) <= S(k - 1) /\ S(j) \in Nat /\ S(k - 1) \in Nat
          /\ S(j - 1) \in Nat /\ S(k) \in Nat
      BY <1>1, <2>1
    <2> QED BY <2>2
  <1>5. ASSUME NEW j \in 1..n, NEW k \in 1..n, j # k PROVE Interval(j) \cap Interval(k) = {}
    <2>1. j < k \/ k < j
      BY <1>5
    <2>2. CASE j < k
      BY <1>4, <2>2
    <2>3. CASE k < j
      <3>1. Interval(k) \cap Interval(j) = {}
        BY <1>4, <2>3
      <3> QED BY <3>1
    <2> QED BY <2>1, <2>2, <2>3
  <1> HIDE DEF Interval
  <1>6. /\ \A x : x \in 0..(Total(v) - 1) <=> \E k \in 1..n : x \in Interval(k)
        /\ \A j, k \in 1..n : j # k => Interval(j) \cap Interval(k) = {}
    BY <1>2, <1>3, <1>5
  <1> QED BY <1>6 DEF Interval, S

\* How many packed streams each of the folders takes.
TakenBy(folders) == [k \in 1..Len(folders) |-> folders[k].packed_streams]

\* The packed streams of the folders before.
LEMMA FirstPacks ==
    ASSUME NEW folders, FolderList(folders)
    PROVE  /\ Len(folders) \in Nat /\ TakenBy(folders) \in [1..Len(folders) -> Nat]
           /\ \A k \in 1..(Len(folders) + 1) : FirstPack(folders, k) = Sums!Total(TakenBy(folders), k - 1)
  <1> DEFINE n == Len(folders)
             v == TakenBy(folders)
  <1>1. IsSequence(folders) /\ n \in Nat /\ \A k \in 1..n : folders[k].packed_streams \in Nat
    BY DEF FolderList, IsSequence, FolderRead
  <1>2. v \in [1..n -> Nat] /\ \A k \in 1..n : v[k] = folders[k].packed_streams
    BY <1>1 DEF TakenBy
  <1>3. ASSUME NEW k \in 1..(n + 1) PROVE FirstPack(folders, k) = Sums!Total(v, k - 1)
    <2>1. k - 1 \in 0..n
      BY <1>1
    <2>2. SubSeq(folders, 1, k - 1) = [i \in 1..(k - 1) |-> folders[i]]
      BY <1>1, <2>1, PrefixOf
    <2>3. Map(LAMBDA f : f.packed_streams, SubSeq(folders, 1, k - 1)) = [i \in 1..(k - 1) |-> v[i]]
      <3>1. \A i \in 1..(k - 1) : i \in 1..n
        BY <1>1
      <3> HIDE DEF v
      <3> QED BY <1>2, <2>2, <3>1 DEF Map
    <2>4. Total([i \in 1..(k - 1) |-> v[i]]) = Sums!Total(v, k - 1)
      <3> HIDE DEF v, n
      <3> QED BY <1>1, <1>2, <2>1, PrefixTotal
    <2> QED BY <2>3, <2>4 DEF FirstPack
  <1> QED BY <1>1, <1>2, <1>3

\* If the folders take as many packed streams as there are, these are dealt out.
LEMMA AllDealtOut ==
    ASSUME NEW folders, FolderList(folders), NEW s,
           IsSequence(s.folders), Len(s.folders) = Len(folders), Len(s.packs) \in Nat,
           FirstPack(folders, Len(folders) + 1) = Len(s.packs),
           \A k \in 1..Len(folders) : /\ s.folders[k].first_pack = FirstPack(folders, k)
                                      /\ s.folders[k].packed_streams = folders[k].packed_streams
    PROVE  PacksDealtOut(s)
  <1> DEFINE n == Len(folders)
             v == TakenBy(folders)
             S(k) == Sums!Total(v, k)
             Interval(k) == S(k - 1)..(S(k) - 1)
             Taken(f) == f.first_pack..(f.first_pack + f.packed_streams - 1)
  <1>1. /\ n \in Nat /\ v \in [1..n -> Nat]
        /\ \A k \in 1..(n + 1) : FirstPack(folders, k) = S(k - 1)
        /\ DOMAIN s.folders = 1..n
    <2>1. DOMAIN s.folders = 1..Len(s.folders)
      BY DEF IsSequence
    <2> QED BY <2>1, FirstPacks
  <1>2. \A k \in 1..n : v[k] = folders[k].packed_streams
    BY DEF TakenBy
  <1> HIDE DEF v, n
  <1>3. /\ \A k \in 0..n : S(k) \in Nat
        /\ \A k \in 1..n : S(k) = S(k - 1) + v[k]
        /\ Total(v) = S(n)
    BY <1>1, SumFacts
  <1>4. /\ \A x : x \in 0..(Total(v) - 1) <=> \E k \in 1..n : x \in Interval(k)
        /\ \A j, k \in 1..n : j # k => Interval(j) \cap Interval(k) = {}
    BY <1>1, IntervalsPartition
  <1>5. \A k \in 1..n : Taken(s.folders[k]) = Interval(k)
    <2> TAKE k \in 1..n
    <2>1. k \in 1..(n + 1) /\ k - 1 \in 0..n /\ k \in 0..n
      BY <1>1
    <2>2. s.folders[k].first_pack = S(k - 1) /\ s.folders[k].packed_streams = v[k]
      BY <1>1, <1>2, <2>1 DEF n
    <2>3. S(k) = S(k - 1) + v[k] /\ S(k) \in Nat /\ S(k - 1) \in Nat
      BY <1>3, <2>1
    <2>4. v[k] \in Nat
      BY <1>1
    <2>5. Taken(s.folders[k]) = S(k - 1)..(S(k - 1) + v[k] - 1)
      BY <2>2
    <2> HIDE DEF S, Taken
    <2>6. S(k - 1) + v[k] - 1 = S(k) - 1
      BY <2>3, <2>4
    <2> QED BY <2>5, <2>6
  <1>6. Total(v) = Len(s.packs)
    <2>1. n + 1 \in 1..(n + 1) /\ n + 1 - 1 = n
      BY <1>1
    <2> QED BY <1>1, <1>3, <2>1 DEF n
  <1> HIDE DEF Interval, S
  <1>7. UNION {Taken(f) : f \in Range(s.folders)} = 0..(Len(s.packs) - 1)
    <2> DEFINE U == UNION {Taken(f) : f \in Range(s.folders)}
    <2>1. ASSUME NEW x \in U PROVE x \in 0..(Len(s.packs) - 1)
      <3>1. PICK f \in Range(s.folders) : x \in Taken(f)
        OBVIOUS
      <3>2. PICK k \in 1..n : f = s.folders[k]
        BY <1>1, <3>1 DEF Range
      <3>3. x \in Interval(k)
        BY <1>5, <3>1, <3>2
      <3> HIDE DEF Taken, U
      <3> QED BY <1>4, <1>6, <3>3
    <2>2. ASSUME NEW x \in 0..(Len(s.packs) - 1) PROVE x \in U
      <3>1. PICK k \in 1..n : x \in Interval(k)
        BY <1>4, <1>6
      <3>2. x \in Taken(s.folders[k]) /\ s.folders[k] \in Range(s.folders)
        BY <1>1, <1>5, <3>1 DEF Range
      <3> HIDE DEF Taken
      <3> QED BY <3>2
    <2> HIDE DEF U
    <2>3. U = 0..(Len(s.packs) - 1)
      BY <2>1, <2>2
    <2> QED BY <2>3 DEF U
  <1>8. \A j, k \in DOMAIN s.folders : j # k => Taken(s.folders[j]) \cap Taken(s.folders[k]) = {}
    <2> HIDE DEF Taken
    <2> QED BY <1>1, <1>4, <1>5
  <1> QED BY <1>7, <1>8 DEF PacksDealtOut

-----------------------------------------------------------------------------
\* Sums of the same addends.
LEMMA SameAddends ==
    ASSUME NEW m \in Nat, NEW w \in [1..m -> Int], NEW n \in Nat, NEW v \in [1..n -> Int],
           NEW k \in 0..m, k <= n, \A i \in 1..k : w[i] = v[i]
    PROVE  Sums!Total(w, k) = Sums!Total(v, k)
  <1> DEFINE Bad == {j \in 0..k : Sums!Total(w, j) # Sums!Total(v, j)}
  <1>1. /\ Sums!Total(w, 0) = 0 /\ Sums!Total(v, 0) = 0
        /\ \A j \in 1..m : Sums!Total(w, j) = Sums!Total(w, j - 1) + w[j]
        /\ \A j \in 1..n : Sums!Total(v, j) = Sums!Total(v, j - 1) + v[j]
    BY ArchiveLimits, Sums!TotalFacts
  <1>2. ASSUME Bad # {} PROVE FALSE
    <2>1. PICK b \in Bad : \A j \in Bad : b <= j
      <3>1. Bad \in SUBSET Nat
        OBVIOUS
      <3> HIDE DEF Bad
      <3> QED BY <3>1, <1>2, ArchiveLimits, Sums!LeastNatural
    <2>2. b \in 1..k /\ b - 1 \in 0..k /\ b - 1 \notin Bad /\ b \in 1..m /\ b \in 1..n
      BY <1>1, <2>1
    <2>3. Sums!Total(w, b - 1) = Sums!Total(v, b - 1) /\ w[b] = v[b]
      BY <2>2
    <2> QED BY <1>1, <2>1, <2>2, <2>3
  <1>3. k \in 0..k
    OBVIOUS
  <1> QED BY <1>2, <1>3

\* One addend more.
LEMMA TotalOfAppended ==
    ASSUME NEW n \in Nat, NEW v \in [1..n -> Int], NEW x \in Int
    PROVE  /\ Append(v, x) \in [1..(n + 1) -> Int]
           /\ Total(Append(v, x)) = Total(v) + x
           /\ Append(v, x)[n + 1] = x
  <1> DEFINE w == Append(v, x)
  <1>1. v = [i \in 1..n |-> v[i]]
    OBVIOUS
  <1>2. IsSequence(v) /\ Len(v) = n
    BY <1>1, FunctionIsSequence
  <1>3. /\ IsSequence(w) /\ Len(w) = n + 1 /\ w[n + 1] = x /\ \A i \in 1..n : w[i] = v[i]
    BY <1>2, SequenceGrows
  <1> HIDE DEF w
  <1>4. w \in [1..(n + 1) -> Int]
    <2>1. w = [i \in 1..(n + 1) |-> w[i]]
      BY <1>3 DEF IsSequence
    <2>2. ASSUME NEW i \in 1..(n + 1) PROVE w[i] \in Int
      <3>1. i \in 1..n \/ i = n + 1
        OBVIOUS
      <3> QED BY <1>3, <3>1
    <2> QED BY <2>1, <2>2
  <1>5. n + 1 \in Nat /\ n \in 0..(n + 1) /\ n <= n /\ n + 1 \in 1..(n + 1) /\ n + 1 - 1 = n
    OBVIOUS
  <1>6. Sums!Total(w, n) = Sums!Total(v, n)
    BY <1>3, <1>4, <1>5, SameAddends
  <1>7. Sums!Total(w, n + 1) = Sums!Total(w, n + 1 - 1) + w[n + 1]
    <2>1. \A j \in 1..(n + 1) : Sums!Total(w, j) = Sums!Total(w, j - 1) + w[j]
      BY <1>4, <1>5, ArchiveLimits, Sums!TotalFacts
    <2> QED BY <1>5, <2>1
  <1>8. Total(w) = Sums!Total(w, n + 1) /\ Total(v) = Sums!Total(v, n)
    BY <1>4, <1>5, TotalIsSum
  <1>9. Total(w) = Total(v) + x
    BY <1>3, <1>5, <1>6, <1>7, <1>8
  <1> QED BY <1>3, <1>4, <1>9 DEF w

\* The sizes read are numbers.
SizesAreRead ==
    \/ ExplicitSizes = None
    \/ \E s : ExplicitSizes = Some(s) /\ \A i \in DOMAIN s : s[i] \in Int

\* The sizes of all members of a folder but the last one.
LEMMA LeadingTyped ==
    ASSUME SizesAreRead, NEW count \in Nat \ {0}
    PROVE  LeadingSizes(count) \in [1..(count - 1) -> Int]
  <1>1. CASE ExplicitSizes = None
    BY <1>1 DEF LeadingSizes, Unknown
  <1>2. CASE ExplicitSizes # None
    <2>1. PICK s : ExplicitSizes = Some(s) /\ \A i \in DOMAIN s : s[i] \in Int
      BY <1>2 DEF SizesAreRead
    <2>2. ExplicitSizes[1] = s
      BY <2>1 DEF Some
    <2>3. \A i : At(s, i) \in Int
      BY <2>1 DEF At, Eof
    <2>4. \A i : Optional(At(s, i)) \in Int
      BY <2>3 DEF Optional, Unknown
    <2>5. LeadingSizes(count) = [k \in 1..(count - 1) |-> Optional(At(s, size_cursor + k))]
      BY <1>2, <2>2 DEF LeadingSizes
    <2> QED BY <2>4, <2>5
  <1> QED BY <1>1, <1>2

\* build_substreams: the last member gets what the others leave.
LEMMA MembersFilled ==
    ASSUME SizesAreRead, NEW draft, DraftRead(draft), NEW count \in Nat
    PROVE  LET leading == LeadingSizes(count)
               sizes   == IF count = 0 THEN <<>>
                          ELSE IF count = 1 THEN <<draft.root>>
                          ELSE Append(leading, FinalSize(draft, leading))
               members == [m \in 1..count |-> [size |-> sizes[m], crc |-> MemberCrc(draft, count, m)]]
           IN  FolderBuilt([draft EXCEPT !.members = members], draft)
  <1> DEFINE leading == LeadingSizes(count)
             final   == FinalSize(draft, leading)
             sizes   == IF count = 0 THEN <<>>
                        ELSE IF count = 1 THEN <<draft.root>>
                        ELSE Append(leading, final)
             members == [m \in 1..count |-> [size |-> sizes[m], crc |-> MemberCrc(draft, count, m)]]
             f       == [draft EXCEPT !.members = members]
  <1>1. DOMAIN members = 1..count /\ \A m \in 1..count : members[m].size = sizes[m]
    OBVIOUS
  <1>2. IsSequence(members) /\ (count = 0 => members = <<>>)
    <2>1. members = [m \in 1..count |-> members[m]]
      OBVIOUS
    <2> HIDE DEF members
    <2>2. IsSequence(members) /\ Len(members) = count
      BY <2>1, FunctionIsSequence
    <2>3. count = 0 => members = None
      BY <2>2, OptionIsSequence, SequencesEqual
    <2> QED BY <2>2, <2>3 DEF None
  <1>3. draft.root \in Int
    BY DEF DraftRead
  <1> HIDE DEF members
  <1>4. ASSUME count # 0, \A m \in 1..count : sizes[m] # Unknown
        PROVE  sizes \in [1..count -> Int] /\ Total(sizes) = draft.root
    <2>1. CASE count = 1
      <3>1. sizes = <<draft.root>>
        BY <2>1
      <3> HIDE DEF sizes
      <3>2. sizes \in [1..1 -> Int] /\ sizes[1] = draft.root
        BY <1>3, <3>1
      <3>3. Total(sizes) = Sums!Total(sizes, 1)
        BY <3>2, TotalIsSum
      <3>4. Sums!Total(sizes, 0) = 0 /\ \A j \in 1..1 : Sums!Total(sizes, j) = Sums!Total(sizes, j - 1) + sizes[j]
        BY <3>2, ArchiveLimits, Sums!TotalFacts
      <3>5. 1 \in 1..1 /\ 1 - 1 = 0
        OBVIOUS
      <3> QED BY <1>3, <2>1, <3>2, <3>3, <3>4, <3>5
    <2>2. CASE count # 1
      <3>1. sizes = Append(leading, final) /\ count \in Nat \ {0} /\ count \in 1..count
        BY <1>4, <2>2
      <3>2. leading \in [1..(count - 1) -> Int] /\ count - 1 \in Nat /\ count - 1 + 1 = count
        BY <3>1, LeadingTyped
      <3> HIDE DEF leading, sizes
      <3>3. Total(leading) \in Int
        <4>1. Total(leading) = Sums!Total(leading, count - 1)
          BY <3>2, TotalIsSum
        <4>2. \A j \in 0..(count - 1) : Sums!Total(leading, j) \in Int
          BY <3>2, ArchiveLimits, Sums!TotalFacts
        <4>3. count - 1 \in 0..(count - 1)
          BY <3>2
        <4> QED BY <4>1, <4>2, <4>3
      <3>4. final \in Int
        BY <1>3, <3>3 DEF FinalSize, Unknown
      <3> HIDE DEF final
      <3>5. /\ sizes \in [1..(count - 1 + 1) -> Int] /\ Total(sizes) = Total(leading) + final
            /\ sizes[count - 1 + 1] = final
        <4> DEFINE n == count - 1
        <4>1. n \in Nat /\ leading \in [1..n -> Int]
          BY <3>2
        <4> HIDE DEF n
        <4>2. /\ Append(leading, final) \in [1..(n + 1) -> Int]
              /\ Total(Append(leading, final)) = Total(leading) + final
              /\ Append(leading, final)[n + 1] = final
          BY <3>4, <4>1, TotalOfAppended
        <4> QED BY <3>1, <4>2 DEF n
      <3>6. final # Unknown
        BY <1>4, <3>1, <3>2, <3>5
      <3>7. final = draft.root - Total(leading)
        BY <3>6 DEF final, FinalSize
      <3> QED BY <1>3, <3>2, <3>3, <3>5, <3>7
    <2> QED BY <2>1, <2>2
  <1>5. /\ f.members = members /\ f.root = draft.root
        /\ f.first_pack = draft.first_pack /\ f.packed_streams = draft.packed_streams
    BY DEF DraftRead
  <1> HIDE DEF sizes, f
  <1>6. MembersFill(f)
    <2> SUFFICES ASSUME members # <<>>, \A m \in DOMAIN members : members[m].size # Unknown
                 PROVE  draft.root = Total(Map(LAMBDA m : m.size, members))
      BY <1>5 DEF MembersFill
    <2>1. Total(sizes) = draft.root /\ sizes \in [1..count -> Int]
      BY <1>1, <1>2, <1>4
    <2>2. Map(LAMBDA m : m.size, members) = sizes
      BY <1>1, <2>1 DEF Map
    <2> QED BY <2>1, <2>2
  <1>7. FolderBuilt(f, draft)
    BY <1>2, <1>5, <1>6 DEF FolderBuilt
  <1> QED BY <1>7 DEF f, members, sizes

-----------------------------------------------------------------------------
\* Optional sequences in a row.
LEMMA OptionsConcatenate ==
    ASSUME NEW x, NEW y
    PROVE  /\ None \o None = None /\ Some(x) \o None = Some(x) /\ None \o Some(y) = Some(y)
           /\ IsSequence(Some(x) \o Some(y)) /\ Len(Some(x) \o Some(y)) = 2
           /\ (Some(x) \o Some(y))[1] = x /\ (Some(x) \o Some(y))[2] = y
  <1>1. /\ IsSequence(None) /\ Len(None) = 0
        /\ IsSequence(Some(x)) /\ Len(Some(x)) = 1 /\ Some(x)[1] = x
        /\ IsSequence(Some(y)) /\ Len(Some(y)) = 1 /\ Some(y)[1] = y
    BY OptionIsSequence
  <1>2. None \o None = None /\ Some(x) \o None = Some(x)
    BY <1>1, ConcatOption
  <1>3. /\ IsSequence(None \o Some(y)) /\ Len(None \o Some(y)) = 0 + 1 /\ (None \o Some(y))[0 + 1] = y
    BY <1>1, ConcatOption
  <1>4. None \o Some(y) = Some(y)
    <2>1. Len(None \o Some(y)) = Len(Some(y))
      BY <1>1, <1>3
    <2>2. \A i \in 1..Len(None \o Some(y)) : (None \o Some(y))[i] = Some(y)[i]
      BY <1>1, <1>3
    <2> QED BY <1>1, <1>3, <2>1, <2>2, SequencesEqual
  <1>5. /\ IsSequence(Some(x) \o Some(y)) /\ Len(Some(x) \o Some(y)) = 1 + 1
        /\ (Some(x) \o Some(y))[1 + 1] = y
        /\ \A i \in 1..1 : (Some(x) \o Some(y))[i] = Some(x)[i]
    <2>1. IsSequence(Some(x) \o Some(y)) /\ Len(Some(x) \o Some(y)) = 1 + 1
      BY <1>1, ConcatOption
    <2>2. (Some(x) \o Some(y))[Len(Some(x)) + 1] = y
      BY <1>1, ConcatOption
    <2>3. \A i \in 1..1 : (Some(x) \o Some(y))[i] = Some(x)[i]
      BY <1>1, ConcatOption
    <2> QED BY <1>1, <2>1, <2>2, <2>3
  <1>6. (Some(x) \o Some(y))[1] = x
    <2>1. 1 \in 1..1
      OBVIOUS
    <2> QED BY <1>1, <1>5, <2>1
  <1> QED BY <1>2, <1>4, <1>5, <1>6

\* A list of two sequences.
LEMMA FlattenPair ==
    ASSUME NEW all, IsSequence(all), Len(all) = 2
    PROVE  FlattenSeq(all) = all[1] \o all[2]
  <1>1. ASSUME NEW n \in Nat \ {0}, n = 2 PROVE FlattenSeq(all) = all[1] \o all[2]
    <2>1. Len(all) = n
      BY <1>1
    <2>2. PICK g : Flattens(all, n, g)
      BY <2>1, FlattenSteps
    <2>3. n \in 2..n /\ n - 1 = 1
      BY <1>1
    <2>4. g[n] = g[n - 1] \o all[n] /\ FlattenSeq(all) = g[n] /\ g[1] = all[1]
      BY <2>2, <2>3 DEF Flattens
    <2> QED BY <1>1, <2>3, <2>4
  <1>2. 2 \in Nat \ {0}
    OBVIOUS
  <1> QED BY <1>1, <1>2

\* The packed streams of both sections, in a row.
LEMMA AllPacksOf ==
    ASSUME ModelRead
    PROVE  /\ FlattenSeq(Map(LAMBDA s : s.packs, model.additional \o model.main))
                  = PacksOf(model.additional) \o PacksOf(model.main)
           /\ PacksInPlace(PacksOf(model.additional)) /\ PacksInPlace(PacksOf(model.main))
  <1> DEFINE A == model.additional
             M == model.main
  <1>0. IsSequence(<<>>) /\ Len(<<>>) = 0 /\ PacksInPlace(<<>>)
    BY DEF IsSequence, PacksInPlace
  <1>1. PacksInPlace(PacksOf(A)) /\ PacksInPlace(PacksOf(M))
    BY <1>0 DEF ModelRead, SectionSound, PacksOf, Some, None
  <1>2. IsSequence(PacksOf(A)) /\ IsSequence(PacksOf(M))
    BY <1>1 DEF PacksInPlace
  <1>3. (A = None \/ \E s : A = Some(s)) /\ (M = None \/ \E s : M = Some(s))
    BY DEF ModelRead
  <1> HIDE DEF A, M
  <1> DEFINE F(sections) == Map(LAMBDA s : s.packs, sections)
  <1>4. F(None) = None /\ \A s : F(Some(s)) = Some(s.packs)
    BY DEF Map, None, Some
  <1>5. CASE A = None /\ M = None
    <2>1. PacksOf(A) = None /\ PacksOf(M) = None /\ FlattenSeq(F(A \o M)) = None
      BY <1>4, <1>5, OptionsConcatenate, FlattenOptional DEF PacksOf, None
    <2> QED BY <1>1, <2>1, OptionsConcatenate DEF A, M
  <1>6. ASSUME NEW a, A = Some(a), M = None
        PROVE  FlattenSeq(F(A \o M)) = PacksOf(A) \o PacksOf(M)
    <2>1. A \o M = Some(a) /\ PacksOf(A) = a.packs /\ PacksOf(M) = None
      BY <1>6, OptionsConcatenate DEF PacksOf, Some, None
    <2>2. FlattenSeq(F(Some(a))) = a.packs
      BY <1>4, FlattenOptional
    <2>3. a.packs \o None = a.packs
      BY <1>2, <2>1, ConcatOption
    <2> QED BY <2>1, <2>2, <2>3
  <1>7. ASSUME NEW m, A = None, M = Some(m)
        PROVE  FlattenSeq(F(A \o M)) = PacksOf(A) \o PacksOf(M)
    <2>1. A \o M = Some(m) /\ PacksOf(M) = m.packs /\ PacksOf(A) = None
      BY <1>7, OptionsConcatenate DEF PacksOf, Some, None
    <2>2. FlattenSeq(F(Some(m))) = m.packs
      BY <1>4, FlattenOptional
    <2>3. None \o m.packs = m.packs
      BY <1>2, <2>1, NothingBefore
    <2> QED BY <2>1, <2>2, <2>3
  <1>8. ASSUME NEW a, NEW m, A = Some(a), M = Some(m)
        PROVE  FlattenSeq(F(A \o M)) = PacksOf(A) \o PacksOf(M)
    <2> DEFINE both == Some(a) \o Some(m)
               all == F(both)
    <2>1. IsSequence(both) /\ Len(both) = 2 /\ both[1] = a /\ both[2] = m
      BY OptionsConcatenate
    <2> HIDE DEF both
    <2>2. DOMAIN both = 1..2
      BY <2>1 DEF IsSequence
    <2>3. all = [i \in 1..2 |-> both[i].packs]
      BY <2>2 DEF Map
    <2> HIDE DEF all
    <2>4. all[1] = a.packs /\ all[2] = m.packs /\ all = [i \in 1..2 |-> all[i]]
      BY <2>1, <2>3
    <2>5. IsSequence(all) /\ Len(all) = 2
      BY <2>4, FunctionIsSequence
    <2>6. FlattenSeq(all) = all[1] \o all[2]
      BY <2>5, FlattenPair
    <2>8. PacksOf(A) = a.packs /\ PacksOf(M) = m.packs
      BY <1>8 DEF PacksOf, Some, None
    <2> QED BY <1>8, <2>4, <2>6, <2>8 DEF all, both
  <1> HIDE DEF F
  <1>9. FlattenSeq(F(A \o M)) = PacksOf(A) \o PacksOf(M)
    BY <1>3, <1>5, <1>6, <1>7, <1>8 DEF A, M, F
  <1> QED BY <1>1, <1>9 DEF F, A, M

\* The bytes of packed streams that lie apart.
BytesOf(p) == p.offset..(p.offset + p.size - 1)

\* Packed streams behind one another, or one of them empty.
LEMMA BytesApart ==
    ASSUME NEW p, NEW q, p.offset \in Int, p.size \in Int, q.offset \in Int, q.size \in Int,
           \/ p.size = 0 \/ q.size = 0
           \/ p.offset + p.size <= q.offset \/ q.offset + q.size <= p.offset
    PROVE  BytesOf(p) \cap BytesOf(q) = {}
  BY DEF BytesOf

\* Packed streams in ranges of which one ends before the other begins.
LEMMA RangesCompared ==
    ASSUME NEW o \in Int, NEW s \in Int, NEW p \in Int, NEW t \in Int,
           NEW a \in Int, NEW b \in Int, NEW c \in Int, NEW d \in Int,
           a <= o, o + s <= b, c <= p, p + t <= d, ~(a <= c /\ c < b), ~(c <= a /\ a < d)
    PROVE  o + s <= p \/ p + t <= o
  OBVIOUS

\* The bytes of a packed stream in the archive's data.
LEMMA BytesWithin ==
    ASSUME NEW p, p.offset \in Int, p.size \in Nat, NEW a \in Int, NEW b \in Int,
           a <= p.offset, p.offset + p.size <= b
    PROVE  BytesOf(p) \subseteq a..(b - 1)
  BY DEF BytesOf

\* What check_non_overlapping_ranges keeps apart.
LEMMA SectionsApart ==
    ASSUME RangeList, ~Overlap(ranges), NEW s, NEW t, PacksInPlace(s), PacksInPlace(t),
           NEW i \in 0..Len(ranges), NEW k \in 0..Len(ranges), Covered(s, i), Covered(t, k),
           i = k => i = 0 /\ k = 0, NEW x \in 1..Len(s), NEW y \in 1..Len(t)
    PROVE  BytesOf(s[x]) \cap BytesOf(t[y]) = {}
  <1> DEFINE p == s[x]
             q == t[y]
  <1>1. p.offset \in Int /\ p.size \in Int /\ q.offset \in Int /\ q.size \in Int
    BY DEF PacksInPlace
  <1>2. CASE i = 0 \/ k = 0
    <2>1. i = 0 => p.size = 0
      BY DEF Covered
    <2>2. k = 0 => q.size = 0
      BY DEF Covered
    <2> QED BY <1>1, <1>2, <2>1, <2>2, BytesApart
  <1>3. CASE i # 0 /\ k # 0
    <2>1. /\ i \in 1..Len(ranges) /\ k \in 1..Len(ranges) /\ i # k
          /\ ranges[i][1] <= p.offset /\ p.offset + p.size <= ranges[i][2]
          /\ ranges[k][1] <= q.offset /\ q.offset + q.size <= ranges[k][2]
      BY <1>3 DEF Covered
    <2>2. /\ ranges[i][1] \in Int /\ ranges[i][2] \in Int /\ ranges[k][1] \in Int /\ ranges[k][2] \in Int
          /\ DOMAIN ranges = 1..Len(ranges)
      BY <2>1 DEF RangeList, IsSequence
    <2>3. /\ ~(ranges[i][1] <= ranges[k][1] /\ ranges[k][1] < ranges[i][2])
          /\ ~(ranges[k][1] <= ranges[i][1] /\ ranges[i][1] < ranges[k][2])
      BY <2>1, <2>2 DEF Overlap
    <2>4. p.offset + p.size <= q.offset \/ q.offset + q.size <= p.offset
      <3> HIDE DEF p, q
      <3> QED BY <1>1, <2>1, <2>2, <2>3, RangesCompared
    <2> QED BY <1>1, <2>4, BytesApart
  <1> QED BY <1>2, <1>3

\* Packed streams of the accepted model are inside the archive's data and disjoint.
LEMMA PacksAreDisjoint ==
    ASSUME ModelRead, RangeList, RangesApart, ~Overlap(ranges)
    PROVE  PacksDisjoint
  <1> DEFINE A == PacksOf(model.additional)
             M == PacksOf(model.main)
             all == A \o M
             la == Len(A)
             lm == Len(M)
  <1>1. /\ FlattenSeq(Map(LAMBDA s : s.packs, model.additional \o model.main)) = all
        /\ PacksInPlace(A) /\ PacksInPlace(M)
    BY AllPacksOf
  <1>2. PICK a \in 0..Len(ranges) : \E m \in 0..Len(ranges) :
            Covered(A, a) /\ Covered(M, m) /\ (a = m => a = 0 /\ m = 0)
    BY DEF RangesApart
  <1>3. PICK m \in 0..Len(ranges) : Covered(A, a) /\ Covered(M, m) /\ (a = m => a = 0 /\ m = 0)
    BY <1>2
  <1> HIDE DEF A, M
  <1>4. IsSequence(A) /\ IsSequence(M) /\ la \in Nat /\ lm \in Nat
    BY <1>1 DEF PacksInPlace, IsSequence
  <1>5. /\ IsSequence(all) /\ Len(all) = la + lm
    BY <1>4, ConcatOf
  <1>6. \A i \in 1..la : all[i] = A[i]
    BY <1>4, ConcatOf
  <1>7. \A i \in 1..lm : all[la + i] = M[i]
    BY <1>4, ConcatOf
  <1> HIDE DEF all
  <1>8. DOMAIN all = 1..(la + lm)
    BY <1>5 DEF IsSequence
  <1>9. \A i \in 1..(la + lm) : i \in 1..la \/ i - la \in 1..lm
    BY <1>4
  <1>10. \A i \in 1..(la + lm) : i - la \in 1..lm => all[i] = M[i - la]
    <2> TAKE i \in 1..(la + lm)
    <2>1. la + (i - la) = i
      BY <1>4
    <2> QED BY <1>7, <2>1
  <1>11. ASSUME NEW k \in 1..(la + lm)
         PROVE  BytesOf(all[k]) \subseteq DataStart..(NextHeaderOffset - 1)
    <2>0. DataStart \in Int /\ NextHeaderOffset \in Int
      BY EnvelopeAssumption DEF DataStart
    <2>1. CASE k \in 1..la
      <3>1. /\ A[k].offset \in Int /\ A[k].size \in Nat
            /\ DataStart <= A[k].offset /\ A[k].offset + A[k].size <= NextHeaderOffset
        BY <1>1, <2>1 DEF PacksInPlace
      <3> QED BY <1>6, <2>0, <2>1, <3>1, BytesWithin
    <2>2. CASE k - la \in 1..lm
      <3>1. /\ M[k - la].offset \in Int /\ M[k - la].size \in Nat
            /\ DataStart <= M[k - la].offset /\ M[k - la].offset + M[k - la].size <= NextHeaderOffset
        BY <1>1, <2>2 DEF PacksInPlace
      <3> QED BY <1>10, <2>0, <2>2, <3>1, BytesWithin
    <2> QED BY <1>9, <2>1, <2>2
  <1>12. ASSUME NEW s, PacksInPlace(s), NEW j \in 1..Len(s), NEW k \in 1..Len(s), j # k
         PROVE  BytesOf(s[j]) \cap BytesOf(s[k]) = {}
    <2>1. s[j].offset \in Int /\ s[j].size \in Int /\ s[k].offset \in Int /\ s[k].size \in Int
      BY <1>12 DEF PacksInPlace
    <2>2. (j < k => s[j].offset + s[j].size <= s[k].offset) /\ (k < j => s[k].offset + s[k].size <= s[j].offset)
      BY <1>12 DEF PacksInPlace
    <2>3. j < k \/ k < j
      BY <1>12 DEF PacksInPlace, IsSequence
    <2> QED BY <2>1, <2>2, <2>3, BytesApart
  <1>13. ASSUME NEW x \in 1..la, NEW y \in 1..lm PROVE BytesOf(A[x]) \cap BytesOf(M[y]) = {}
    BY <1>1, <1>3, SectionsApart
  <1>14. ASSUME NEW j \in 1..(la + lm), NEW k \in 1..(la + lm), j # k
         PROVE  BytesOf(all[j]) \cap BytesOf(all[k]) = {}
    <2>1. CASE j \in 1..la /\ k \in 1..la
      BY <1>1, <1>6, <1>12, <1>14, <2>1
    <2>2. CASE j \in 1..la /\ k - la \in 1..lm
      BY <1>6, <1>10, <1>13, <2>2
    <2>3. CASE j - la \in 1..lm /\ k \in 1..la
      <3>1. BytesOf(A[k]) \cap BytesOf(M[j - la]) = {}
        BY <1>13, <2>3
      <3> QED BY <1>6, <1>10, <2>3, <3>1
    <2>4. CASE j - la \in 1..lm /\ k - la \in 1..lm
      <3>1. j - la # k - la
        BY <1>4, <1>14
      <3> QED BY <1>1, <1>10, <1>12, <2>4, <3>1
    <2> QED BY <1>9, <2>1, <2>2, <2>3, <2>4
  <1> HIDE DEF la, lm
  <1>15. /\ \A k \in DOMAIN all : BytesOf(all[k]) \subseteq DataStart..(NextHeaderOffset - 1)
         /\ \A j, k \in DOMAIN all : j # k => BytesOf(all[j]) \cap BytesOf(all[k]) = {}
    BY <1>8, <1>11, <1>14
  <1> QED BY <1>1, <1>15 DEF PacksDisjoint, BytesOf

-----------------------------------------------------------------------------
(***************************************************************************)
(* collect_stream_mappings lists every member of every folder, in order.   *)
(***************************************************************************)
FoldersOf(streamsInfo) == IF streamsInfo = None THEN <<>> ELSE streamsInfo[1].folders

\* Folders whose members were built.
HaveMembers(folders) ==
    IsSequence(folders) /\ \A f \in 1..Len(folders) : IsSequence(folders[f].members)

\* The order of slots: by folder, then by substream.
Before(x, y) == x.folder < y.folder \/ (x.folder = y.folder /\ x.substream < y.substream)

\* A list of the members of the first k folders.
Lists(t, folders, k) ==
    /\ IsSequence(t)
    /\ \A i \in 1..Len(t) : /\ t[i].folder \in 1..k
                            /\ t[i].substream \in 1..Len(folders[t[i].folder].members)
    /\ \A f \in 1..k : \A m \in 1..Len(folders[f].members) :
          \E i \in 1..Len(t) : t[i].folder = f /\ t[i].substream = m
    /\ \A i, j \in 1..Len(t) : i < j => Before(t[i], t[j])

\* The members of one folder.
MembersOf(folders, f) ==
    LET members == folders[f].members
    IN  [m \in DOMAIN members |-> [folder |-> f, substream |-> m, size |-> members[m].size,
                                   crc |-> members[m].crc]]

\* One folder more.
LEMMA ListGrows ==
    ASSUME NEW folders, HaveMembers(folders), NEW k \in 1..Len(folders), NEW t, Lists(t, folders, k - 1)
    PROVE  Lists(t \o MembersOf(folders, k), folders, k)
  <1> DEFINE u == MembersOf(folders, k)
             n == Len(t)
             c == Len(folders[k].members)
             w == t \o u
  <1>1. /\ Len(folders) \in Nat /\ c \in Nat /\ DOMAIN folders[k].members = 1..c
        /\ IsSequence(t) /\ n \in Nat
    BY DEF HaveMembers, IsSequence, Lists
  <1>2. u = [m \in 1..c |-> u[m]] /\ \A m \in 1..c : u[m].folder = k /\ u[m].substream = m
    BY <1>1 DEF MembersOf
  <1>3. IsSequence(u) /\ Len(u) = c
    <2> HIDE DEF u, c
    <2> QED BY <1>1, <1>2, FunctionIsSequence
  <1> HIDE DEF u, c
  <1>4. IsSequence(w) /\ Len(w) = n + c
    BY <1>1, <1>3, ConcatOf
  <1>5. \A i \in 1..n : w[i] = t[i]
    BY <1>1, <1>3, ConcatOf
  <1>6. \A i \in 1..c : w[n + i] = u[i]
    BY <1>1, <1>3, ConcatOf
  <1> HIDE DEF w, n
  <1>7. \A i \in 1..(n + c) : i \in 1..n \/ i - n \in 1..c
    BY <1>1
  <1>8. \A i \in 1..(n + c) : i - n \in 1..c => w[i].folder = k /\ w[i].substream = i - n
    <2> TAKE i \in 1..(n + c)
    <2>1. n + (i - n) = i
      BY <1>1
    <2> QED BY <1>2, <1>6, <2>1
  <1>9. \A i \in 1..n : /\ w[i].folder \in 1..(k - 1)
                        /\ w[i].substream \in 1..Len(folders[w[i].folder].members)
    BY <1>5 DEF Lists, n
  <1>10. ASSUME NEW i \in 1..(n + c)
         PROVE  w[i].folder \in 1..k /\ w[i].substream \in 1..Len(folders[w[i].folder].members)
    <2>1. CASE i \in 1..n
      BY <1>9, <2>1
    <2>2. CASE i - n \in 1..c
      BY <1>8, <2>2 DEF c
    <2> QED BY <1>7, <2>1, <2>2
  <1>11. ASSUME NEW f \in 1..k, NEW m \in 1..Len(folders[f].members)
         PROVE  \E i \in 1..(n + c) : w[i].folder = f /\ w[i].substream = m
    <2>1. CASE f = k
      <3>1. m \in 1..c /\ n + m \in 1..(n + c) /\ n + m - n = m
        BY <1>1, <2>1 DEF c
      <3>2. w[n + m].folder = k /\ w[n + m].substream = m
        <4> DEFINE i == n + m
        <4>1. i \in 1..(n + c) /\ i - n \in 1..c /\ i - n = m
          BY <1>1, <3>1
        <4> HIDE DEF i
        <4>2. w[i].folder = k /\ w[i].substream = m
          BY <1>8, <4>1
        <4> QED BY <4>2 DEF i
      <3> QED BY <2>1, <3>1, <3>2
    <2>2. CASE f # k
      <3>1. f \in 1..(k - 1)
        BY <2>2
      <3>2. PICK i \in 1..n : t[i].folder = f /\ t[i].substream = m
        BY <3>1 DEF Lists, n
      <3>3. i \in 1..(n + c)
        BY <1>1
      <3> QED BY <1>5, <3>2, <3>3
    <2> QED BY <2>1, <2>2
  <1>12. ASSUME NEW i \in 1..(n + c), NEW j \in 1..(n + c), i < j PROVE Before(w[i], w[j])
    <2>1. CASE j \in 1..n
      <3>1. i \in 1..n
        BY <1>1, <1>12, <2>1
      <3>2. Before(t[i], t[j])
        BY <1>12, <2>1, <3>1 DEF Lists, n
      <3> QED BY <1>5, <2>1, <3>1, <3>2
    <2>2. CASE j - n \in 1..c /\ i \in 1..n
      <3>1. w[i].folder \in 1..(k - 1) /\ w[j].folder = k
        BY <1>8, <1>9, <2>2
      <3> QED BY <3>1 DEF Before
    <2>3. CASE j - n \in 1..c /\ i - n \in 1..c
      <3>1. /\ w[i].folder = k /\ w[i].substream = i - n
            /\ w[j].folder = k /\ w[j].substream = j - n
        BY <1>8, <2>3
      <3>2. i - n < j - n
        BY <1>1, <1>12
      <3> QED BY <3>1, <3>2 DEF Before
    <2> QED BY <1>7, <2>1, <2>2, <2>3
  <1>13. Lists(w, folders, k)
    BY <1>4, <1>10, <1>11, <1>12 DEF Lists
  <1> QED BY <1>13 DEF w, u

\* All folders.
LEMMA AllListed ==
    ASSUME NEW folders, HaveMembers(folders)
    PROVE  Lists(FlattenSeq([f \in DOMAIN folders |-> MembersOf(folders, f)]), folders, Len(folders))
  <1> DEFINE n == Len(folders)
             all == [f \in DOMAIN folders |-> MembersOf(folders, f)]
  <1>1. n \in Nat /\ DOMAIN folders = 1..n
    BY DEF HaveMembers, IsSequence
  <1>2. all = [f \in 1..n |-> all[f]] /\ \A f \in 1..n : all[f] = MembersOf(folders, f)
    BY <1>1
  <1>3. IsSequence(all) /\ Len(all) = n
    <2> HIDE DEF all, n
    <2> QED BY <1>1, <1>2, FunctionIsSequence
  <1>4. Lists(None, folders, 0)
    <2>1. IsSequence(None) /\ Len(None) = 0
      BY OptionIsSequence
    <2> QED BY <2>1 DEF Lists
  <1> HIDE DEF all
  <1>5. CASE n = 0
    <2>1. all = None
      BY <1>3, <1>5, OptionIsSequence, SequencesEqual
    <2>2. FlattenSeq(None) = None
      BY FlattenOptional
    <2> QED BY <1>4, <1>5, <2>1, <2>2 DEF all
  <1>6. CASE n # 0
    <2>1. PICK g : Flattens(all, n, g)
      BY <1>1, <1>3, <1>6, FlattenSteps
    <2>2. /\ FlattenSeq(all) = g[n] /\ g[1] = all[1]
          /\ \A i \in 2..n : g[i] = g[i - 1] \o all[i]
      BY <2>1 DEF Flattens
    <2> DEFINE Bad == {k \in 1..n : ~Lists(g[k], folders, k)}
    <2>3. ASSUME Bad # {} PROVE FALSE
      <3>1. PICK b \in Bad : \A m \in Bad : b <= m
        <4>1. Bad \in SUBSET Nat
          OBVIOUS
        <4> HIDE DEF Bad
        <4> QED BY <4>1, <2>3, ArchiveLimits, Sums!LeastNatural
      <3>2. b \in 1..n /\ ~Lists(g[b], folders, b)
        BY <3>1
      <3>3. CASE b = 1
        <4>1. IsSequence(MembersOf(folders, 1))
          <5> DEFINE u == MembersOf(folders, 1)
                     c == Len(folders[1].members)
          <5>1. c \in Nat /\ DOMAIN folders[1].members = 1..c
            BY <3>2, <3>3 DEF HaveMembers, IsSequence
          <5>2. u = [m \in 1..c |-> u[m]]
            BY <5>1 DEF MembersOf
          <5> HIDE DEF u, c
          <5>3. IsSequence(u)
            BY <5>1, <5>2, FunctionIsSequence
          <5> QED BY <5>3 DEF u
        <4>2. g[1] = None \o MembersOf(folders, 1)
          BY <1>2, <2>2, <3>2, <3>3, <4>1, NothingBefore
        <4>3. Lists(None, folders, 1 - 1) /\ 1 \in 1..Len(folders)
          BY <1>4, <3>2, <3>3
        <4>4. Lists(None \o MembersOf(folders, 1), folders, 1)
          BY <4>3, ListGrows
        <4> QED BY <3>2, <3>3, <4>2, <4>4
      <3>4. CASE b # 1
        <4>1. b \in 2..n /\ b - 1 \in 1..n /\ b - 1 \notin Bad /\ b \in 1..Len(folders)
          BY <3>1, <3>2, <3>4
        <4>2. Lists(g[b - 1], folders, b - 1)
          BY <4>1
        <4>3. g[b] = g[b - 1] \o MembersOf(folders, b)
          BY <1>2, <2>2, <3>2, <4>1
        <4>4. Lists(g[b - 1] \o MembersOf(folders, b), folders, b)
          BY <4>1, <4>2, ListGrows
        <4> QED BY <3>2, <4>3, <4>4
      <3> QED BY <3>3, <3>4
    <2>4. n \in 1..n
      BY <1>1, <1>6
    <2>5. Lists(g[n], folders, n)
      BY <2>3, <2>4
    <2> QED BY <2>2, <2>5 DEF all
  <1> QED BY <1>5, <1>6

-----------------------------------------------------------------------------
(***************************************************************************)
(* validate_files gives the k-th entry that has data the k-th member.      *)
(***************************************************************************)
\* How many of the first k entries have data.
Rank(bits, k) == k - CountTrue(bits, k)

\* The rank grows by one with each entry that has data.
LEMMA RanksGrow ==
    ASSUME NEW n \in Nat, NEW bits
    PROVE  /\ Rank(bits, 0) = 0 /\ \A k \in 0..n : Rank(bits, k) \in Nat
           /\ \A k \in 1..n : Rank(bits, k) = Rank(bits, k - 1) + IF bits[k] THEN 0 ELSE 1
           /\ \A j, k \in 0..n : j <= k => Rank(bits, j) <= Rank(bits, k)
  <1> DEFINE v == [k \in 1..n |-> IF bits[k] THEN 0 ELSE 1]
             R(k) == Rank(bits, k)
             S(k) == Sums!Total(v, k)
  <1>1. v \in [1..n -> Nat] /\ \A k \in 1..n : v[k] = IF bits[k] THEN 0 ELSE 1
    OBVIOUS
  <1> HIDE DEF v
  <1>2. /\ S(0) = 0 /\ \A m \in 0..n : S(m) \in Nat
        /\ \A m \in 1..n : S(m) = S(m - 1) + v[m]
    BY <1>1, SumFacts
  <1>3. \A j, k \in 0..n : j <= k => S(j) <= S(k)
    BY <1>1, SumsGrow
  <1>4. /\ CountTrue(bits, 0) = 0 /\ \A m \in Nat : CountTrue(bits, m) \in Nat
        /\ \A m \in Nat \ {0} : CountTrue(bits, m) = CountTrue(bits, m - 1) + IF bits[m] THEN 1 ELSE 0
    BY CountGrows
  <1>5. R(0) = 0
    BY <1>4 DEF Rank
  <1>6. \A m \in 0..n : R(m) \in Int
    BY <1>4 DEF Rank
  <1>7. \A m \in 1..n : R(m) = R(m - 1) + v[m]
    <2> TAKE m \in 1..n
    <2>1. /\ m - 1 \in Nat /\ m \in Nat \ {0}
          /\ CountTrue(bits, m) \in Nat /\ CountTrue(bits, m - 1) \in Nat
          /\ CountTrue(bits, m) = CountTrue(bits, m - 1) + IF bits[m] THEN 1 ELSE 0
      BY <1>4
    <2> QED BY <1>1, <2>1 DEF Rank
  <1> DEFINE Bad == {m \in 0..n : R(m) # S(m)}
  <1>8. ASSUME Bad # {} PROVE FALSE
    <2>1. PICK b \in Bad : \A m \in Bad : b <= m
      <3>1. Bad \in SUBSET Nat
        OBVIOUS
      <3> HIDE DEF Bad
      <3> QED BY <3>1, <1>8, ArchiveLimits, Sums!LeastNatural
    <2>2. b \in 0..n /\ R(b) # S(b) /\ b # 0
      BY <2>1, <1>2, <1>5
    <2>3. b \in 1..n /\ b - 1 \in 0..n /\ b - 1 \notin Bad
      BY <2>1, <2>2
    <2>4. R(b - 1) = S(b - 1)
      BY <2>3
    <2> HIDE DEF R, S
    <2> QED BY <1>2, <1>7, <2>2, <2>3, <2>4
  <1>9. \A m \in 0..n : R(m) = S(m)
    BY <1>8
  <1> QED BY <1>1, <1>2, <1>3, <1>5, <1>7, <1>9

\* Every number up to the last is the rank of an entry that has data.
LEMMA RanksTaken ==
    ASSUME NEW n \in Nat, NEW bits
    PROVE  /\ \A j, k \in 1..n : j < k /\ ~bits[k] => Rank(bits, j) < Rank(bits, k)
           /\ \A k \in 1..n : ~bits[k] => Rank(bits, k) \in 1..Rank(bits, n)
           /\ \A x \in 1..Rank(bits, n) : \E k \in 1..n : ~bits[k] /\ Rank(bits, k) = x
  <1> DEFINE R(k) == Rank(bits, k)
  <1>1. /\ R(0) = 0 /\ \A k \in 0..n : R(k) \in Nat
        /\ \A k \in 1..n : R(k) = R(k - 1) + IF bits[k] THEN 0 ELSE 1
        /\ \A j, k \in 0..n : j <= k => R(j) <= R(k)
    BY RanksGrow
  <1> HIDE DEF R
  <1>2. ASSUME NEW j \in 0..n, NEW k \in 1..n, j < k, ~bits[k] PROVE R(j) < R(k)
    <2>1. j <= k - 1 /\ k - 1 \in 0..n /\ k \in 0..n
      BY <1>2
    <2>2. R(j) <= R(k - 1) /\ R(k) = R(k - 1) + 1
      BY <1>1, <1>2, <2>1
    <2> QED BY <1>1, <2>1, <2>2
  <1>3. ASSUME NEW k \in 1..n, ~bits[k] PROVE R(k) \in 1..R(n)
    <2>1. 0 \in 0..n /\ 0 < k /\ k \in 0..n /\ n \in 0..n /\ k <= n
      OBVIOUS
    <2>2. R(0) < R(k) /\ R(k) <= R(n)
      BY <1>1, <1>2, <1>3, <2>1
    <2> QED BY <1>1, <2>1, <2>2
  <1>4. ASSUME NEW x \in 1..R(n) PROVE \E k \in 1..n : ~bits[k] /\ R(k) = x
    <2> DEFINE Reached == {k \in 0..n : R(k) >= x}
    <2>1. n \in Reached /\ Reached \in SUBSET Nat
      BY <1>1, <1>4
    <2>2. PICK b \in Reached : \A m \in Reached : b <= m
      <3> HIDE DEF Reached
      <3> QED BY <2>1, ArchiveLimits, Sums!LeastNatural
    <2>3. b \in 0..n /\ R(b) >= x /\ b # 0
      BY <1>1, <2>2
    <2>4. b \in 1..n /\ b - 1 \in 0..n /\ ~(R(b - 1) >= x)
      BY <2>2, <2>3
    <2>5. R(b) = R(b - 1) + IF bits[b] THEN 0 ELSE 1
      BY <1>1, <2>4
    <2>6. R(b) \in Nat /\ R(b - 1) \in Nat /\ x \in Nat
      BY <1>1, <2>3, <2>4
    <2>7. ~bits[b] /\ R(b) = x
      BY <2>3, <2>4, <2>5, <2>6
    <2> QED BY <2>4, <2>7
  <1> QED BY <1>2, <1>3, <1>4 DEF R
-----------------------------------------------------------------------------
\* The archive's view of folders and entries.
\* Folders and entries as an archive of SolidArchive has them.
MembersView(folders) == [f \in DOMAIN folders |-> [substreams |-> folders[f].members]]

\* One entry of that archive.
EntryView(e) ==
    IF e.has_stream THEN [kind |-> "file", folder |-> e.stream[1].folder,
                          substream |-> e.stream[1].substream]
    ELSE [kind |-> "empty"]

\* All its entries.
EntriesView(entries) == [k \in DOMAIN entries |-> EntryView(entries[k])]

\* The entries of that archive are mapped to all its members in order.
Placed(folders, entries) ==
    Solid!MappedInOrder([folders |-> MembersView(folders), entries |-> EntriesView(entries)])

\* The k-th entry that has data is given the k-th member.
Streams(t, n, bits, entries) ==
    /\ IsSequence(entries) /\ Len(entries) = n /\ n \in Nat
    /\ \A k \in 1..n : /\ entries[k].has_stream = ~bits[k]
                       /\ ~bits[k] => entries[k].stream = Some(t[Rank(bits, k)])

\* An archive that is written as a list of folders and one of entries.
LEMMA ArchiveView ==
    ASSUME NEW folders, HaveMembers(folders), NEW t, NEW n, NEW bits, NEW entries,
           Streams(t, n, bits, entries), \A k \in 1..n : bits[k] \in BOOLEAN
    PROVE  LET a == [folders |-> MembersView(folders), entries |-> EntriesView(entries)]
           IN  /\ Solid!Streamed(a) = {k \in 1..n : ~bits[k]}
               /\ \A k \in 1..n : ~bits[k] => Solid!SlotOf(a, k) = <<t[Rank(bits, k)].folder,
                                                                    t[Rank(bits, k)].substream>>
               /\ Solid!Slots(a) = UNION {{<<f, s>> : s \in 1..Len(folders[f].members)}
                                            : f \in 1..Len(folders)}
  <1> DEFINE a == [folders |-> MembersView(folders), entries |-> EntriesView(entries)]
  <1>1. a.folders = MembersView(folders) /\ a.entries = EntriesView(entries)
    OBVIOUS
  <1>2. /\ DOMAIN folders = 1..Len(folders)
        /\ \A f \in 1..Len(folders) : DOMAIN folders[f].members = 1..Len(folders[f].members)
    BY DEF HaveMembers, IsSequence
  <1>3. DOMAIN entries = 1..n
    BY DEF Streams, IsSequence
  <1>4. /\ DOMAIN MembersView(folders) = 1..Len(folders)
        /\ \A f \in 1..Len(folders) : MembersView(folders)[f].substreams = folders[f].members
    BY <1>2 DEF MembersView
  <1>5. /\ DOMAIN EntriesView(entries) = 1..n
        /\ \A k \in 1..n : EntriesView(entries)[k] = EntryView(entries[k])
    BY <1>3 DEF EntriesView
  <1> HIDE DEF a
  <1>6. \A k \in 1..n : EntryView(entries[k]).kind = "file" <=> ~bits[k]
    BY DEF EntryView, Streams
  <1>7. ASSUME NEW k \in 1..n, ~bits[k]
        PROVE  /\ EntryView(entries[k]).folder = t[Rank(bits, k)].folder
               /\ EntryView(entries[k]).substream = t[Rank(bits, k)].substream
    <2>1. entries[k].has_stream /\ entries[k].stream = Some(t[Rank(bits, k)])
      BY <1>7 DEF Streams
    <2>2. entries[k].stream[1] = t[Rank(bits, k)]
      BY <2>1 DEF Some
    <2>3. EntryView(entries[k]) = [kind |-> "file", folder |-> t[Rank(bits, k)].folder,
                                   substream |-> t[Rank(bits, k)].substream]
      BY <2>1, <2>2 DEF EntryView
    <2> QED BY <2>3
  <1>8. Solid!Streamed(a) = {k \in 1..n : ~bits[k]}
    BY <1>1, <1>5, <1>6 DEF Solid!Streamed
  <1>9. \A k \in 1..n : ~bits[k] => Solid!SlotOf(a, k) = <<t[Rank(bits, k)].folder,
                                                          t[Rank(bits, k)].substream>>
    BY <1>1, <1>5, <1>7 DEF Solid!SlotOf
  <1>10. ASSUME NEW f \in 1..Len(folders)
         PROVE  {<<f, s>> : s \in DOMAIN a.folders[f].substreams}
                  = {<<f, s>> : s \in 1..Len(folders[f].members)}
    BY <1>1, <1>2, <1>4
  <1>11. Solid!Slots(a) = UNION {{<<f, s>> : s \in 1..Len(folders[f].members)}
                                    : f \in 1..Len(folders)}
    BY <1>1, <1>4, <1>10 DEF Solid!Slots
  <1> QED BY <1>8, <1>9, <1>11 DEF a

\* All members, each once and in order.
LEMMA EntriesInOrder ==
    ASSUME NEW folders, HaveMembers(folders), NEW t, Lists(t, folders, Len(folders)),
           NEW n, NEW bits, NEW entries, Streams(t, n, bits, entries),
           \A k \in 1..n : bits[k] \in BOOLEAN, Len(t) = Rank(bits, n)
    PROVE  Placed(folders, entries)
  <1> DEFINE a == [folders |-> MembersView(folders), entries |-> EntriesView(entries)]
             R(k) == Rank(bits, k)
             S == Solid!Streamed(a)
             slots == UNION {{<<f, s>> : s \in 1..Len(folders[f].members)} : f \in 1..Len(folders)}
  <1>1. /\ S = {k \in 1..n : ~bits[k]}
        /\ \A k \in S : Solid!SlotOf(a, k) = <<t[R(k)].folder, t[R(k)].substream>>
        /\ Solid!Slots(a) = slots
    BY ArchiveView
  <1>2. n \in Nat
    BY DEF Streams
  <1>3. /\ \A j, k \in S : j < k => R(j) < R(k)
        /\ \A k \in S : R(k) \in 1..Len(t)
        /\ \A x \in 1..Len(t) : \E k \in S : R(k) = x
    <2>1. /\ \A j, k \in 1..n : j < k /\ ~bits[k] => R(j) < R(k)
          /\ \A k \in 1..n : ~bits[k] => R(k) \in 1..R(n)
          /\ \A x \in 1..R(n) : \E k \in 1..n : ~bits[k] /\ R(k) = x
      BY <1>2, RanksTaken
    <2>2. R(n) = Len(t)
      OBVIOUS
    <2> HIDE DEF R, S
    <2> QED BY <1>1, <2>1, <2>2
  <1> HIDE DEF a, R, S
  <1>4. ASSUME NEW k \in S PROVE Solid!SlotOf(a, k) \in slots
    <2>1. R(k) \in 1..Len(t)
      BY <1>3
    <2>2. /\ t[R(k)].folder \in 1..Len(folders)
          /\ t[R(k)].substream \in 1..Len(folders[t[R(k)].folder].members)
      BY <2>1 DEF Lists
    <2> QED BY <1>1, <2>2
  <1>5. ASSUME NEW x \in slots PROVE \E k \in S : Solid!SlotOf(a, k) = x
    <2>1. PICK f \in 1..Len(folders) : x \in {<<f, s>> : s \in 1..Len(folders[f].members)}
      OBVIOUS
    <2>2. PICK s \in 1..Len(folders[f].members) : x = <<f, s>>
      BY <2>1
    <2>3. PICK i \in 1..Len(t) : t[i].folder = f /\ t[i].substream = s
      BY DEF Lists
    <2>4. PICK k \in S : R(k) = i
      BY <1>3
    <2> QED BY <1>1, <2>2, <2>3, <2>4
  <1>6. {Solid!SlotOf(a, k) : k \in S} = slots
    <2> HIDE DEF slots
    <2> QED BY <1>4, <1>5
  <1>7. ASSUME NEW j \in S, NEW k \in S, j < k
        PROVE  Solid!SlotBefore(Solid!SlotOf(a, j), Solid!SlotOf(a, k))
    <2>1. R(j) < R(k) /\ R(j) \in 1..Len(t) /\ R(k) \in 1..Len(t)
      BY <1>3, <1>7
    <2>2. Before(t[R(j)], t[R(k)])
      BY <2>1 DEF Lists
    <2> QED BY <1>1, <2>2 DEF Before, Solid!SlotBefore
  <1>8. Solid!MappedInOrder(a)
    BY <1>1, <1>6, <1>7 DEF Solid!MappedInOrder, S
  <1> QED BY <1>8 DEF Placed, a

\* The folders that entries are mapped to.
LEMMA EntriesMappedTo ==
    ASSUME NEW entries, ModelRead
    PROVE  EntriesMapped(entries) <=> Placed(FoldersOf(model.main), entries)
  <1> DEFINE folders == FoldersOf(model.main)
             F(sections) == Map(LAMBDA s : s.folders, sections)
             all == F(model.main)
  <1>0. F(None) = None /\ \A s : F(Some(s)) = Some(s.folders)
    BY DEF Map, None, Some
  <1>1. FlattenSeq(all) = folders
    <2> HIDE DEF F
    <2>1. CASE model.main = None
      <3>1. folders = None
        BY <2>1 DEF FoldersOf, None
      <3> QED BY <1>0, <2>1, <3>1, FlattenOptional
    <2>2. CASE model.main # None
      <3>1. PICK s : model.main = Some(s)
        BY <2>2 DEF ModelRead
      <3>2. model.main[1] = s
        BY <3>1 DEF Some
      <3> QED BY <1>0, <2>2, <3>1, <3>2, FlattenOptional DEF FoldersOf
    <2> QED BY <2>1, <2>2
  <1>2. Map(LAMBDA f : [substreams |-> f.members], folders) = MembersView(folders)
    BY DEF Map, MembersView
  <1>3. Map(LAMBDA e : IF e.has_stream
                       THEN [kind |-> "file", folder |-> e.stream[1].folder,
                             substream |-> e.stream[1].substream]
                       ELSE [kind |-> "empty"], entries) = EntriesView(entries)
    BY DEF Map, EntriesView, EntryView
  <1>4. EntriesMapped(entries)
          <=> Solid!MappedInOrder(
                [folders |-> Map(LAMBDA f : [substreams |-> f.members], FlattenSeq(all)),
                 entries |-> Map(LAMBDA e : IF e.has_stream
                                            THEN [kind |-> "file", folder |-> e.stream[1].folder,
                                                  substream |-> e.stream[1].substream]
                                            ELSE [kind |-> "empty"], entries)])
    BY DEF EntriesMapped
  <1> QED BY <1>1, <1>2, <1>3, <1>4 DEF Placed

\* The members of the main folders.
LEMMA MappingsListed ==
    ASSUME ModelRead
    PROVE  LET folders == FoldersOf(model.main)
           IN  HaveMembers(folders) /\ Lists(Mappings, folders, Len(folders))
  <1>1. CASE model.main = None
    <2>1. FoldersOf(model.main) = None /\ Mappings = None
      BY <1>1 DEF FoldersOf, Mappings, None
    <2>2. IsSequence(None) /\ Len(None) = 0
      BY OptionIsSequence
    <2> QED BY <2>1, <2>2 DEF HaveMembers, Lists
  <1>2. CASE model.main # None
    <2>1. PICK s : model.main = Some(s) /\ SectionSound(s)
      BY <1>2 DEF ModelRead
    <2>2. model.main[1] = s
      BY <2>1 DEF Some
    <2>3. FoldersOf(model.main) = s.folders
      BY <1>2, <2>2 DEF FoldersOf
    <2>4. HaveMembers(s.folders)
      BY <2>1 DEF SectionSound, HaveMembers
    <2>5. Mappings = FlattenSeq([f \in DOMAIN s.folders |-> MembersOf(s.folders, f)])
      BY <1>2, <2>2 DEF Mappings, MembersOf
    <2> QED BY <2>3, <2>4, <2>5, AllListed
  <1> QED BY <1>1, <1>2
-----------------------------------------------------------------------------
\* The bits of EmptyStream.
LEMMA EmptyBitsTyped == \A k \in 1..Files.count : EmptyStreamBits[k] \in BOOLEAN
  <1> DEFINE n == Files.count
  <1>1. CASE Has(ID_EMPTY_STREAM)
    <2>1. EmptyStreamBits = Bits(Data(ID_EMPTY_STREAM), 1, n)
      BY <1>1 DEF EmptyStreamBits, PlainBits
    <2>2. \A s, k : k \in 1..n => Bits(s, 1, n)[k] \in BOOLEAN
      BY DEF Bits
    <2> QED BY <2>1, <2>2
  <1>2. CASE ~Has(ID_EMPTY_STREAM)
    <2>1. EmptyStreamBits = [k \in 1..n |-> FALSE]
      BY <1>2 DEF EmptyStreamBits, PlainBits
    <2> QED BY <2>1
  <1> QED BY <1>1, <1>2

\* As many mappings as entries that have data, each for the next of them.
LEMMA EntriesAreRead ==
    ASSUME HeaderInvariant, ModelRead, raw.files # None, Len(Mappings) = Files.count - EmptyCount
    PROVE  EntriesRead([k \in 1..Files.count |-> EntryAt(k)])
  <1> DEFINE n == Files.count
             bits == EmptyStreamBits
             t == Mappings
             entries == [k \in 1..n |-> EntryAt(k)]
             folders == FoldersOf(model.main)
  <1>1. n \in Nat
    <2>1. PICK f : raw.files = Some(f) /\ FilesRead(f)
      BY DEF HeaderInvariant, HeaderRead
    <2>2. Files = f
      BY <2>1 DEF Files, Some
    <2> QED BY <2>1, <2>2 DEF FilesRead
  <1>2. \A k \in 1..n : bits[k] \in BOOLEAN
    BY EmptyBitsTyped
  <1>3. Len(t) = Rank(bits, n)
    BY DEF EmptyCount, Rank
  <1>4. HaveMembers(folders) /\ Lists(t, folders, Len(folders))
    BY MappingsListed
  <1>5. \A k \in 1..n : entries[k] = EntryAt(k)
    OBVIOUS
  <1>6. IsSequence(entries) /\ Len(entries) = n
    <2>1. entries = [k \in 1..n |-> entries[k]]
      OBVIOUS
    <2> HIDE DEF entries, n
    <2> QED BY <1>1, <2>1, FunctionIsSequence
  <1>7. ASSUME NEW k \in 1..n
        PROVE  /\ EntryRead(EntryAt(k)) /\ EntryAt(k).has_stream = ~bits[k]
               /\ ~bits[k] => EntryAt(k).stream = Some(t[Rank(bits, k)])
    BY DEF EntryAt, EntryRead, Rank
  <1> HIDE DEF n, bits, t, entries
  <1>8. Streams(t, n, bits, entries)
    BY <1>1, <1>5, <1>6, <1>7 DEF Streams
  <1>9. Placed(folders, entries)
    <2> HIDE DEF folders
    <2> QED BY <1>2, <1>3, <1>4, <1>8, EntriesInOrder
  <1>10. EntriesMapped(entries)
    BY <1>9, EntriesMappedTo
  <1>11. EntriesRead(entries)
    BY <1>5, <1>6, <1>7, <1>10 DEF EntriesRead, EntryRead
  <1> QED BY <1>11 DEF entries, n

\* Names and values do not move an entry.
LEMMA EntriesStayRead ==
    ASSUME ModelRead, NEW entries, EntriesRead(entries), NEW changed,
           changed = [k \in 1..Len(entries) |-> changed[k]],
           \A k \in 1..Len(entries) :
              /\ EntryRead(changed[k]) /\ changed[k].has_stream = entries[k].has_stream
              /\ changed[k].stream = entries[k].stream
    PROVE  EntriesRead(changed)
  <1> DEFINE n == Len(entries)
  <1>1. n \in Nat /\ DOMAIN entries = 1..n
    BY DEF EntriesRead, IsSequence
  <1>2. DOMAIN changed = 1..n
    OBVIOUS
  <1>3. IsSequence(changed) /\ Len(changed) = n
    <2> HIDE DEF n
    <2>1. changed = [k \in 1..n |-> changed[k]]
      BY DEF n
    <2> QED BY <1>1, <2>1, FunctionIsSequence
  <1>4. \A k \in 1..n : EntryView(changed[k]) = EntryView(entries[k])
    BY DEF EntryView
  <1>5. EntriesView(changed) = EntriesView(entries)
    BY <1>1, <1>2, <1>4 DEF EntriesView
  <1>6. Placed(FoldersOf(model.main), changed)
    BY <1>5, EntriesMappedTo DEF EntriesRead, Placed
  <1>7. EntriesMapped(changed)
    BY <1>6, EntriesMappedTo
  <1> QED BY <1>3, <1>7 DEF EntriesRead, EntryRead
-----------------------------------------------------------------------------
(***************************************************************************)
(* What the steps of the parser and the validator leave of the model.      *)
(***************************************************************************)
ModelFields(m) ==
    m = [kind |-> m.kind, properties |-> m.properties, additional |-> m.additional,
         main |-> m.main, files |-> m.files, external |-> m.external, unknown |-> m.unknown]

\* A step that does not touch the sections.
LEMMA SectionsStay ==
    ASSUME ModelInvariant, ranges' = ranges, ModelFields(model'),
           model'.additional = model.additional, model'.main = model.main, Current' \in {Current, <<>>}
    PROVE  RangeList' /\ ModelRead' /\ RangesApart'
  <1>1. RangeList /\ ModelRead /\ RangesApart
    BY DEF ModelInvariant
  <1>2. RangeList'
    BY <1>1 DEF RangeList
  <1>3. ModelRead'
    BY <1>1 DEF ModelRead, ModelFields
  <1>4. PICK a, m, c \in 0..Len(ranges) :
           /\ Covered(PacksOf(model.additional), a) /\ Covered(PacksOf(model.main), m)
           /\ Covered(Current, c)
           /\ a = m => a = 0 /\ m = 0
           /\ a = c => a = 0 /\ c = 0
           /\ m = c => m = 0 /\ c = 0
    BY <1>1 DEF RangesApart
  <1>5. /\ Len(ranges') = Len(ranges) /\ \A s, i : Covered(s, i)' <=> Covered(s, i)
    BY DEF Covered
  <1>6. /\ PacksOf(model.additional)' = PacksOf(model.additional)
        /\ PacksOf(model.main)' = PacksOf(model.main)
    BY DEF PacksOf
  <1>7. Covered(PacksOf(model.additional), a)' /\ Covered(PacksOf(model.main), m)'
    BY <1>4, <1>5, <1>6
  <1>8. CASE Current' = Current
    <2>1. Covered(Current, c)'
      BY <1>4, <1>5, <1>8
    <2> QED BY <1>2, <1>3, <1>4, <1>5, <1>7, <2>1 DEF RangesApart
  <1>9. CASE Current' = <<>>
    <2>1. Covered(<<>>, 0)' /\ 0 \in 0..Len(ranges)
      BY <1>1 DEF Covered, RangeList, IsSequence
    <2>2. Covered(Current, 0)'
      BY <1>9, <2>1
    <2> QED BY <1>2, <1>3, <1>4, <1>5, <1>7, <2>1, <2>2 DEF RangesApart
  <1> QED BY <1>8, <1>9

\* A refusal leaves everything but the sections' packed streams, which are not read again.
LEMMA RefusalKeeps ==
    ASSUME ModelInvariant, UNCHANGED validateVars, pc' = "done", result' # "Ok"
    PROVE  ModelInvariant'
  <1>1. /\ ranges' = ranges /\ model' = model /\ ModelFields(model')
    BY DEF validateVars, ModelInvariant, ModelRead, ModelFields
  <1>2. Current' = <<>>
    BY DEF Current
  <1>3. RangeList' /\ ModelRead' /\ RangesApart'
    BY <1>1, <1>2, SectionsStay
  <1> QED BY <1>3 DEF ModelInvariant

\* Between the header's records.
Parsing == {"kind", "body", "property", "streams", "sizes"}

\* What is left to show of a stretch of the validation.
LEMMA StretchModels ==
    ASSUME ModelInvariant, pc # "done", NEW verdict, NEW Done \in BOOLEAN, Validates(verdict, Done),
           /\ verdict = "Ok" /\ Done /\ UNCHANGED <<input, result, parseVars>> /\ result = "none"
           => ModelInvariant'
    PROVE  ModelInvariant'
  <1>1. CASE Fails("Interrupted")
    BY <1>1, RefusalKeeps DEF Fails
  <1>2. CASE verdict # "Ok" /\ Fails(verdict)
    BY <1>2, RefusalKeeps DEF Fails
  <1>3. CASE verdict = "Ok" /\ Done /\ UNCHANGED <<input, result, parseVars>>
    <2>1. result = "none"
      BY DEF ModelInvariant
    <2> QED BY <1>3, <2>1
  <1> QED BY <1>1, <1>2, <1>3 DEF Validates
-----------------------------------------------------------------------------
\* A record is refused, or the parser goes on or is done.
Recorded ==
    /\ pc \in Parsing
    /\ \/ pc' = "done" /\ result' # "Ok"
       \/ pc' \in Parsing \cup {"validate"} /\ result' = result

\* The parser's steps are like that.
LEMMA ParseRecords == ASSUME ParseStep PROVE Recorded
  <1>1. CASE ReadKind
    BY <1>1 DEF ReadKind, Record, ParseFails, Recorded, Parsing
  <1>2. CASE BodyRecord
    BY <1>2 DEF BodyRecord, Record, ParseFails, Recorded, Parsing
  <1>3. CASE BodyEnd
    BY <1>3 DEF BodyEnd, Record, ParseFails, Recorded, Parsing
  <1>4. CASE ParseProperty
    BY <1>4 DEF ParseProperty, Record, ParseFails, Recorded, Parsing
  <1>5. CASE PropertiesEnd
    BY <1>5 DEF PropertiesEnd, Record, ParseFails, Recorded, Parsing
  <1>6. CASE ParsePackInfo
    BY <1>6 DEF ParsePackInfo, Record, ParseFails, Recorded, Parsing
  <1>7. CASE DeferFolders
    BY <1>7 DEF DeferFolders, Record, ParseFails, Recorded, Parsing
  <1>8. CASE ParseUnpackInfo
    BY <1>8 DEF ParseUnpackInfo, Record, ParseFails, Recorded, Parsing
  <1>9. CASE ParseUnpackSizes
    BY <1>9 DEF ParseUnpackSizes, Record, ParseFails, Recorded, Parsing
  <1>10. CASE ParseSubstreamsInfo
    BY <1>10 DEF ParseSubstreamsInfo, Record, ParseFails, Recorded, Parsing
  <1>11. CASE StreamsEnd
    BY <1>11 DEF StreamsEnd, Record, ParseFails, Recorded, Parsing
  <1> QED BY <1>1, <1>2, <1>3, <1>4, <1>5, <1>6, <1>7, <1>8, <1>9, <1>10, <1>11 DEF ParseStep

\* They leave the model.
LEMMA ParseModels ==
    ASSUME ModelInvariant, ParseStep, UNCHANGED validateVars
    PROVE  ModelInvariant'
  <1>1. Recorded
    BY ParseRecords
  <1>2. CASE pc' = "done" /\ result' # "Ok"
    BY <1>2, RefusalKeeps
  <1>3. CASE pc' \in Parsing \cup {"validate"} /\ result' = result
    <2>1. ranges' = ranges /\ model' = model /\ ModelFields(model')
      BY DEF validateVars, ModelInvariant, ModelRead, ModelFields
    <2>2. Current' = <<>>
      BY <1>3 DEF Current, Parsing
    <2>3. RangeList' /\ ModelRead' /\ RangesApart'
      BY <2>1, <2>2, SectionsStay
    <2>4. result = "none" /\ model.files = None
      BY <1>1 DEF ModelInvariant, Parsing, Recorded
    <2> QED BY <1>3, <2>1, <2>3, <2>4 DEF ModelInvariant, Parsing
  <1> QED BY <1>1, <1>2, <1>3 DEF Recorded
-----------------------------------------------------------------------------
\* A section with nothing in it.
LEMMA NothingIsSound == SectionSound(EmptyStreams)
  <1>1. EmptyStreams.packs = None /\ EmptyStreams.folders = None
    BY DEF EmptyStreams, None
  <1>2. IsSequence(None) /\ Len(None) = 0 /\ DOMAIN None = {}
    BY OptionIsSequence DEF None
  <1>3. PacksInPlace(None)
    BY <1>2 DEF PacksInPlace
  <1>4. PacksDealtOut(EmptyStreams)
    BY <1>1, <1>2 DEF PacksDealtOut, Range
  <1> QED BY <1>1, <1>2, <1>3, <1>4 DEF SectionSound

\* The section that was validated is added to the model.
LEMMA SectionAdded ==
    ASSUME ModelInvariant, NEW s, SectionSound(s), model' = WithSection(s), ranges' = ranges,
           Current' = <<>>, s.packs = Current \/ s.packs = <<>>
    PROVE  /\ RangeList' /\ ModelRead' /\ RangesApart' /\ model'.files = model.files
  <1>1. RangeList /\ ModelRead /\ RangesApart
    BY DEF ModelInvariant
  <1>2. RangeList'
    BY <1>1 DEF RangeList
  <1>3. PICK a, m, c \in 0..Len(ranges) :
           /\ Covered(PacksOf(model.additional), a) /\ Covered(PacksOf(model.main), m)
           /\ Covered(Current, c)
           /\ a = m => a = 0 /\ m = 0
           /\ a = c => a = 0 /\ c = 0
           /\ m = c => m = 0 /\ c = 0
    BY <1>1 DEF RangesApart
  <1>4. Len(ranges') = Len(ranges) /\ \A x, i : Covered(x, i)' <=> Covered(x, i)
    BY DEF Covered
  <1>5. Covered(Current, 0)' /\ 0 \in 0..Len(ranges) /\ Covered(<<>>, 0)
    BY <1>1 DEF Covered, RangeList, IsSequence
  <1>6. PICK e \in {c, 0} : Covered(s.packs, e)
    BY <1>3, <1>5
  <1>7. PacksOf(Some(s)) = s.packs
    BY DEF PacksOf, Some, None
  <1>8. CASE Section = "additional"
    <2>1. /\ model'.additional = Some(s) /\ model'.main = model.main /\ model'.files = model.files
          /\ ModelFields(model')
      BY <1>1, <1>8 DEF WithSection, ModelRead, ModelFields
    <2>2. ModelRead'
      BY <1>1, <2>1 DEF ModelRead, ModelFields
    <2>3. PacksOf(model.additional)' = s.packs /\ PacksOf(model.main)' = PacksOf(model.main)
      BY <1>7, <2>1 DEF PacksOf
    <2>4. Covered(PacksOf(model.additional), e)' /\ Covered(PacksOf(model.main), m)'
      BY <1>3, <1>4, <1>6, <2>3
    <2>5. e \in 0..Len(ranges') /\ m \in 0..Len(ranges') /\ 0 \in 0..Len(ranges')
      BY <1>3, <1>4, <1>5, <1>6
    <2>6. e = m => e = 0 /\ m = 0
      BY <1>3, <1>6
    <2>7. RangesApart'
      BY <1>5, <2>4, <2>5, <2>6 DEF RangesApart
    <2> QED BY <1>2, <2>1, <2>2, <2>7
  <1>9. CASE Section # "additional"
    <2>1. /\ model'.main = Some(s) /\ model'.additional = model.additional /\ model'.files = model.files
          /\ ModelFields(model')
      BY <1>1, <1>9 DEF WithSection, ModelRead, ModelFields
    <2>2. ModelRead'
      BY <1>1, <2>1 DEF ModelRead, ModelFields
    <2>3. PacksOf(model.main)' = s.packs /\ PacksOf(model.additional)' = PacksOf(model.additional)
      BY <1>7, <2>1 DEF PacksOf
    <2>4. Covered(PacksOf(model.additional), a)' /\ Covered(PacksOf(model.main), e)'
      BY <1>3, <1>4, <1>6, <2>3
    <2>5. e \in 0..Len(ranges') /\ a \in 0..Len(ranges') /\ 0 \in 0..Len(ranges')
      BY <1>3, <1>4, <1>5, <1>6
    <2>6. a = e => a = 0 /\ e = 0
      BY <1>3, <1>6
    <2>7. RangesApart'
      BY <1>5, <2>4, <2>5, <2>6 DEF RangesApart
    <2> QED BY <1>2, <2>1, <2>2, <2>7
  <1> QED BY <1>8, <1>9

\* The range of a section is added to the others, unless it is empty.
LEMMA RangeAdded ==
    ASSUME ModelInvariant, NEW all, NEW range, Around(all, range), ranges' = ranges \o range,
           ModelFields(model'), model'.additional = model.additional, model'.main = model.main,
           Current = <<>>, Current' = all
    PROVE  RangeList' /\ ModelRead' /\ RangesApart'
  <1>1. RangeList /\ ModelRead /\ RangesApart
    BY DEF ModelInvariant
  <1>2. ModelRead'
    BY <1>1 DEF ModelRead, ModelFields
  <1> DEFINE n == Len(ranges)
  <1>3. IsSequence(ranges) /\ n \in Nat
    BY <1>1 DEF RangeList, IsSequence
  <1>4. PICK a, m, c \in 0..n :
           /\ Covered(PacksOf(model.additional), a) /\ Covered(PacksOf(model.main), m)
           /\ a = m => a = 0 /\ m = 0
    BY <1>1 DEF RangesApart
  <1>5. /\ PacksOf(model.additional)' = PacksOf(model.additional)
        /\ PacksOf(model.main)' = PacksOf(model.main)
    BY DEF PacksOf
  <1>6. ASSUME range = <<>>, \A k \in 1..Len(all) : all[k].size = 0
        PROVE  RangeList' /\ RangesApart'
    <2>1. ranges' = ranges
      BY <1>3, <1>6, ConcatOption DEF None
    <2>2. \A x, i : Covered(x, i)' <=> Covered(x, i)
      BY <2>1 DEF Covered
    <2>3. RangeList'
      BY <1>1, <2>1 DEF RangeList
    <2>4. Covered(Current, 0)' /\ 0 \in 0..Len(ranges') /\ a \in 0..Len(ranges') /\ m \in 0..Len(ranges')
      BY <1>3, <1>6, <2>1 DEF Covered
    <2>5. Covered(PacksOf(model.additional), a)' /\ Covered(PacksOf(model.main), m)'
      BY <1>4, <1>5, <2>2
    <2> QED BY <1>4, <2>3, <2>4, <2>5 DEF RangesApart
  <1>7. ASSUME NEW b \in Int, NEW e \in Int, range = Some(<<b, e>>),
               \A k \in 1..Len(all) : b <= all[k].offset /\ all[k].offset + all[k].size <= e
        PROVE  RangeList' /\ RangesApart'
    <2>1. /\ IsSequence(ranges') /\ Len(ranges') = n + 1 /\ ranges'[n + 1] = <<b, e>>
          /\ \A i \in 1..n : ranges'[i] = ranges[i]
      BY <1>3, <1>7, ConcatOption
    <2> HIDE DEF n
    <2>2. \A i \in 1..(n + 1) : i \in 1..n \/ i = n + 1
      BY <1>3
    <2>3. \A i \in 1..n : ranges[i][1] \in Int /\ ranges[i][2] \in Int
      BY <1>1 DEF RangeList, n
    <2>0. <<b, e>>[1] = b /\ <<b, e>>[2] = e
      OBVIOUS
    <2>4. RangeList'
      <3>1. ASSUME NEW i \in 1..(n + 1) PROVE ranges'[i][1] \in Int /\ ranges'[i][2] \in Int
        <4>1. CASE i \in 1..n
          BY <2>1, <2>3, <4>1
        <4>2. CASE i = n + 1
          BY <2>0, <2>1, <4>2
        <4> QED BY <2>2, <4>1, <4>2
      <3>2. IsSequence(ranges)'
        BY <2>1 DEF IsSequence
      <3> QED BY <2>1, <3>1, <3>2 DEF RangeList
    <2>5. ASSUME NEW x, NEW i \in 0..n, Covered(x, i) PROVE Covered(x, i)'
      <3>1. CASE i = 0 /\ \A k \in 1..Len(x) : x[k].size = 0
        BY <3>1 DEF Covered
      <3>2. CASE /\ i \in 1..n
                 /\ \A k \in 1..Len(x) : /\ ranges[i][1] <= x[k].offset
                                          /\ x[k].offset + x[k].size <= ranges[i][2]
        <4>1. i \in 1..(n + 1)
          BY <1>3, <3>2
        <4> QED BY <2>1, <3>2, <4>1 DEF Covered
      <3> QED BY <2>5, <3>1, <3>2 DEF Covered, n
    <2>6. PICK r \in Nat : r = n + 1
      BY <1>3
    <2>7. Covered(Current, r)'
      <3>1. ranges'[r][1] = b /\ ranges'[r][2] = e
        BY <2>0, <2>1, <2>6
      <3>0. r \in 1..Len(ranges')
        BY <1>3, <2>1, <2>6
      <3>2. \A k \in 1..Len(all) : /\ ranges'[r][1] <= all[k].offset
                                    /\ all[k].offset + all[k].size <= ranges'[r][2]
        BY <1>7, <3>1
      <3>3. Covered(all, r)'
        BY <3>0, <3>2 DEF Covered
      <3> QED BY <3>3
    <2>8. Covered(PacksOf(model.additional), a)' /\ Covered(PacksOf(model.main), m)'
      BY <1>4, <1>5, <2>5
    <2>9. RangesApart'
      <3>1. /\ Len(ranges') = r /\ r \in 0..r /\ a \in 0..r /\ m \in 0..r /\ a # r /\ m # r
            /\ a \in Nat /\ m \in Nat
        BY <1>3, <1>4, <2>1, <2>6
      <3> QED BY <1>4, <2>7, <2>8, <3>1 DEF RangesApart
    <2> QED BY <2>4, <2>9
  <1> QED BY <1>2, <1>6, <1>7 DEF Around, Some
-----------------------------------------------------------------------------
\* The packed streams of the section are placed, or it has none.
LEMMA ValidatePackModels ==
    ASSUME HeaderInvariant, ModelInvariant, ValidatePack
    PROVE  ModelInvariant'
  <1> DEFINE pack    == Raw.pack[1]
             verdict == IF (Raw.pack = None) # (Raw.unpack = None) THEN "Format"
                        ELSE IF Raw.pack = None THEN "Ok" ELSE PackVerdict(pack)
             Done    == /\ IF Raw.pack = None
                           THEN /\ model' = WithSection(EmptyStreams) /\ section' = section + 1
                                /\ UNCHANGED <<pc, ranges, packs>>
                           ELSE /\ pc' = "folders"
                                /\ packs' = PackStreams(pack) /\ ranges' = ranges \o PackRange(pack)
                                /\ UNCHANGED <<section, model>>
                        /\ UNCHANGED <<drafts, size_cursor, crc_cursor, built, applied>>
  <1>1. Validates(verdict, Done) /\ pc = "validate" /\ section < Len(Sections)
    BY DEF ValidatePack
  <1>2. Current = <<>> /\ model.files = None
    BY <1>1 DEF Current, ModelInvariant
  <1>3. ASSUME Raw.pack = None, Done, UNCHANGED <<input, result, parseVars>>, result = "none"
        PROVE  ModelInvariant'
    <2>1. /\ model' = WithSection(EmptyStreams) /\ ranges' = ranges /\ pc' = "validate"
          /\ result' = "none" /\ EmptyStreams.packs = <<>>
      BY <1>1, <1>3 DEF EmptyStreams
    <2>2. Current' = <<>>
      BY <2>1 DEF Current
    <2>3. RangeList' /\ ModelRead' /\ RangesApart' /\ model'.files = None
      BY <1>2, <2>1, <2>2, NothingIsSound, SectionAdded
    <2> QED BY <2>1, <2>3 DEF ModelInvariant
  <1>4. ASSUME Raw.pack # None, PackVerdict(pack) = "Ok", Done, UNCHANGED <<input, result, parseVars>>,
               result = "none"
        PROVE  ModelInvariant'
    <2>1. PICK p : Raw.pack = Some(p) /\ PackRead(p)
      BY <1>1, <1>4, SectionIsRead DEF StreamsRead
    <2>2. pack = p
      BY <2>1 DEF Some
    <2>3. PacksInPlace(PackStreams(pack)) /\ Around(PackStreams(pack), PackRange(pack))
      BY <1>4, <2>1, <2>2, PacksArePlaced
    <2>4. /\ packs' = PackStreams(pack) /\ ranges' = ranges \o PackRange(pack) /\ pc' = "folders"
          /\ model' = model /\ result' = "none"
      BY <1>4
    <2>5. ModelFields(model') /\ Current' = packs'
      BY <2>4 DEF ModelInvariant, ModelRead, ModelFields, Current
    <2>6. PICK all, range : /\ all = PackStreams(pack) /\ range = PackRange(pack)
                            /\ PacksInPlace(all) /\ Around(all, range)
      BY <2>3
    <2> HIDE DEF pack
    <2>7. RangeList' /\ ModelRead' /\ RangesApart'
      BY <1>2, <2>4, <2>5, <2>6, RangeAdded
    <2>8. PacksInPlace(packs)'
      BY <2>4, <2>6
    <2> QED BY <1>2, <2>4, <2>7, <2>8 DEF ModelInvariant
  <1>5. verdict = "Ok" => Raw.pack = None \/ (Raw.pack # None /\ PackVerdict(pack) = "Ok")
    OBVIOUS
  <1>6. Done \in BOOLEAN
    OBVIOUS
  <1> HIDE DEF verdict, Done
  <1> QED BY <1>1, <1>3, <1>4, <1>5, <1>6, StretchModels

\* A folder that is accepted has a root.
LEMMA FolderHasRoot ==
    ASSUME NEW f, FolderVerdict(f) = "Ok"
    PROVE  GraphRoot(f) \in DOMAIN f.sizes
  <1> DEFINE refused == {k \in DOMAIN f.coders :
                           \/ CoderOf(f.coders[k]).properties # "Ok"
                           \/ Total(SubSeq(Map(LAMBDA c : CoderOf(c).dictionary, f.coders), 1, k))
                                  > Limits.dictionary}
  <1>1. FolderVerdict(f) =
            IF refused # {}
            THEN IF CoderOf(f.coders[Min(refused)]).properties # "Ok"
                 THEN CoderOf(f.coders[Min(refused)]).properties ELSE "LimitExceeded"
            ELSE IF GraphRoot(f) \notin DOMAIN f.sizes THEN "Format" ELSE "Ok"
    BY DEF FolderVerdict
  <1> HIDE DEF refused
  <1> QED BY <1>1

\* The drafts of folders that are all accepted.
LEMMA DraftsAreRead ==
    ASSUME NEW unpack, FolderList(unpack.folders),
           \A k \in 1..Len(unpack.folders) : FolderVerdict(unpack.folders[k]) = "Ok"
    PROVE  /\ Len(Drafts(unpack)) = Len(unpack.folders)
           /\ \A k \in 1..Len(unpack.folders) : DraftRead(Drafts(unpack)[k])
  <1> DEFINE n == Len(unpack.folders)
  <1>1. n \in Nat /\ DOMAIN unpack.folders = 1..n /\ Len(Drafts(unpack)) = n
    BY DraftsOfFolders DEF FolderList, IsSequence
  <1>2. ASSUME NEW k \in 1..n PROVE DraftRead(Drafts(unpack)[k])
    <2> DEFINE f == unpack.folders[k]
    <2>1. Drafts(unpack)[k] =
            [coders |-> f.coders, binds |-> f.binds, packed |-> f.packed,
             sizes |-> Map(Optional, f.sizes), root |-> Optional(f.sizes[GraphRoot(f)]),
             crc |-> FolderCrc(unpack.crcs, k), first_pack |-> FirstPack(unpack.folders, k),
             packed_streams |-> f.packed_streams, members |-> <<>>]
      BY <1>1 DEF Drafts
    <2>2. GraphRoot(f) \in DOMAIN f.sizes
      BY FolderHasRoot
    <2>3. f.sizes[GraphRoot(f)] \in Int
      BY <2>2 DEF FolderList, FolderRead
    <2>4. Optional(f.sizes[GraphRoot(f)]) \in Int
      BY <2>3 DEF Optional, Unknown
    <2> QED BY <2>1, <2>4 DEF DraftRead
  <1> QED BY <1>1, <1>2
-----------------------------------------------------------------------------
\* All folders are accepted, and take all packed streams.
LEMMA ValidateFoldersModels ==
    ASSUME HeaderInvariant, ModelInvariant, ValidateFolders
    PROVE  ModelInvariant'
  <1> DEFINE unpack  == Raw.unpack[1]
             folders == unpack.folders
             refused == {k \in DOMAIN folders : FolderVerdict(folders[k]) # "Ok"}
             verdict == IF refused # {} THEN FolderVerdict(folders[Min(refused)])
                        ELSE IF FirstPack(folders, Len(folders) + 1) # Len(packs) THEN "Format"
                        ELSE "Ok"
             Done    == /\ drafts' = Drafts(unpack) /\ pc' = "substreams"
                        /\ built' = <<>> /\ size_cursor' = 0 /\ crc_cursor' = 0
                        /\ UNCHANGED <<section, ranges, packs, model, applied>>
  <1>1. Validates(verdict, Done) /\ pc = "folders"
    BY DEF ValidateFolders
  <1>2. InSection /\ FolderList(folders)
    BY <1>1, SectionFolders DEF HeaderInvariant
  <1>3. IsSequence(folders) /\ DOMAIN folders = 1..Len(folders) /\ Len(folders) \in Nat
    BY <1>2 DEF FolderList, IsSequence
  <1>4. ASSUME verdict = "Ok"
        PROVE  /\ \A k \in 1..Len(folders) : FolderVerdict(folders[k]) = "Ok"
               /\ FirstPack(folders, Len(folders) + 1) = Len(packs)
    <2>1. ASSUME refused # {} PROVE FALSE
      <3>1. refused \in SUBSET Nat
        BY <1>3
      <3>2. \E m \in refused : \A j \in refused : m <= j
        <4> HIDE DEF refused
        <4> QED BY <2>1, <3>1, ArchiveLimits, Sums!LeastNatural
      <3>3. Min(refused) \in refused
        <4> HIDE DEF refused
        <4> QED BY <3>2 DEF Min
      <3>4. FolderVerdict(folders[Min(refused)]) # "Ok"
        BY <3>3
      <3> HIDE DEF refused
      <3> QED BY <1>4, <2>1, <3>4
    <2>2. \A k \in 1..Len(folders) : FolderVerdict(folders[k]) = "Ok"
      BY <1>3, <2>1
    <2>3. FirstPack(folders, Len(folders) + 1) = Len(packs)
      <3> HIDE DEF refused, folders
      <3> QED BY <1>4, <2>1
    <2> QED BY <2>2, <2>3
  <1>5. ASSUME verdict = "Ok", Done, UNCHANGED <<input, result, parseVars>>, result = "none"
        PROVE  ModelInvariant'
    <2>1. /\ drafts' = Drafts(unpack) /\ pc' = "substreams" /\ built' = <<>> /\ packs' = packs
          /\ section' = section /\ raw' = raw /\ ranges' = ranges /\ model' = model /\ result' = "none"
      BY <1>5 DEF parseVars
    <2>2. Raw' = Raw
      BY <2>1 DEF Raw, Section, Sections
    <2>3. ModelFields(model') /\ model.files = None
      BY <1>1, <2>1 DEF ModelInvariant, ModelRead, ModelFields
    <2>4. Current' = Current
      BY <1>1, <2>1 DEF Current
    <2>5. RangeList' /\ ModelRead' /\ RangesApart'
      BY <2>1, <2>3, <2>4, SectionsStay
    <2>6. PacksInPlace(packs)'
      BY <1>1, <2>1 DEF ModelInvariant
    <2>7. FirstPack(Raw.unpack[1].folders, Len(Raw.unpack[1].folders) + 1)' = Len(packs')
      BY <1>4, <1>5, <2>1, <2>2
    <2>8. \A k \in 1..Len(drafts') : DraftRead(drafts[k])'
      <3>1. /\ Len(Drafts(unpack)) = Len(unpack.folders)
            /\ \A k \in 1..Len(unpack.folders) : DraftRead(Drafts(unpack)[k])
        BY <1>2, <1>4, <1>5, DraftsAreRead
      <3> QED BY <2>1, <3>1
    <2>9. SectionDrafted'
      <3>1. Len(built') = 0
        BY <2>1
      <3> QED BY <2>7, <2>8, <3>1 DEF SectionDrafted
    <2> QED BY <2>1, <2>3, <2>5, <2>6, <2>9 DEF ModelInvariant
  <1>6. Done \in BOOLEAN
    OBVIOUS
  <1> HIDE DEF verdict, Done
  <1> QED BY <1>1, <1>5, <1>6, StretchModels

\* A folder is given its members.
LEMMA BuildSubstreamsModels ==
    ASSUME HeaderInvariant, ModelInvariant, BuildSubstreams
    PROVE  ModelInvariant'
  <1> DEFINE k       == Len(built) + 1
             draft   == drafts[k]
             count   == Counts[k]
             leading == LeadingSizes(count)
             known   == Total(SelectSeq(leading, LAMBDA s : s # Unknown))
             sizes   == IF count = 0 THEN <<>>
                        ELSE IF count = 1 THEN <<draft.root>>
                        ELSE Append(leading, FinalSize(draft, leading))
             verdict ==
                 Verdict(<< <<Total(SubSeq(Counts, 1, k)) > Limits.substreams, "LimitExceeded">>,
                            <<size_cursor + SizesTaken(count) > Len(FlattenSeq(ExplicitSizes)), Internal>>,
                            <<known > U64Max, "Format">>,
                            <<count > 1 /\ Derived(draft, leading) /\ known > draft.root, "Format">>,
                            <<crc_cursor + CrcsTaken(draft, count) > Len(FlattenSeq(ExplicitCrcs)),
                              Internal>> >>)
             members == [m \in 1..count |-> [size |-> sizes[m], crc |-> MemberCrc(draft, count, m)]]
             folder  == [draft EXCEPT !.members = members]
             Done    == /\ built' = Append(built, folder)
                        /\ size_cursor' = size_cursor + SizesTaken(count)
                        /\ crc_cursor' = crc_cursor + CrcsTaken(draft, count)
                        /\ UNCHANGED <<pc, section, ranges, packs, drafts, model, applied>>
  <1>1. Validates(verdict, Done) /\ pc = "substreams" /\ Len(built) < Len(drafts)
    BY DEF BuildSubstreams
  <1>2. InSection /\ CursorsCount /\ SectionDrafted
    BY <1>1 DEF HeaderInvariant, ModelInvariant
  <1>3. Len(drafts) \in Nat /\ Counts \in [1..Len(drafts) -> Nat] /\ SizesAreRead
    BY <1>2, VectorsFit DEF CursorsCount, SizesAreRead
  <1>4. IsSequence(built) /\ Len(built) \in Nat /\ k \in 1..Len(drafts) /\ count \in Nat
    BY <1>1, <1>2, <1>3 DEF CursorsCount, IsSequence
  <1>5. DraftRead(draft)
    BY <1>2, <1>4 DEF SectionDrafted
  <1>6. FolderBuilt(folder, draft)
    <2> HIDE DEF draft, count
    <2> QED BY <1>3, <1>4, <1>5, MembersFilled
  <1> HIDE DEF folder
  <1>7. ASSUME Done, UNCHANGED <<input, result, parseVars>>, result = "none"
        PROVE  ModelInvariant'
    <2>1. /\ built' = Append(built, folder) /\ drafts' = drafts /\ pc' = "substreams" /\ packs' = packs
          /\ section' = section /\ raw' = raw /\ ranges' = ranges /\ model' = model /\ result' = "none"
      BY <1>1, <1>7 DEF parseVars
    <2>2. Raw' = Raw
      BY <2>1 DEF Raw, Section, Sections
    <2>3. ModelFields(model') /\ model.files = None
      BY <1>1, <2>1 DEF ModelInvariant, ModelRead, ModelFields
    <2>4. Current' = Current
      BY <1>1, <2>1 DEF Current
    <2>5. RangeList' /\ ModelRead' /\ RangesApart'
      BY <2>1, <2>3, <2>4, SectionsStay
    <2>6. PacksInPlace(packs)'
      BY <1>1, <2>1 DEF ModelInvariant
    <2>7. FirstPack(Raw.unpack[1].folders, Len(Raw.unpack[1].folders) + 1)' = Len(packs')
      BY <1>2, <2>1, <2>2 DEF SectionDrafted
    <2>8. \A j \in 1..Len(drafts') : DraftRead(drafts[j])'
      BY <1>2, <2>1 DEF SectionDrafted
    <2>9. /\ Len(built') = Len(built) + 1 /\ built'[Len(built) + 1] = folder
          /\ \A j \in 1..Len(built) : built'[j] = built[j]
      BY <1>4, <2>1, SequenceGrows
    <2>10. \A j \in 1..Len(built') : FolderBuilt(built[j], drafts[j])'
      <3> TAKE j \in 1..Len(built')
      <3>1. CASE j \in 1..Len(built)
        <4>1. FolderBuilt(built[j], drafts[j])
          BY <1>2, <3>1 DEF SectionDrafted
        <4> QED BY <2>1, <2>9, <3>1, <4>1
      <3>2. CASE j = Len(built) + 1
        BY <1>6, <2>1, <2>9, <3>2
      <3>3. j \in 1..Len(built) \/ j = Len(built) + 1
        BY <1>4, <2>9
      <3> QED BY <3>1, <3>2, <3>3
    <2>11. SectionDrafted'
      BY <2>7, <2>8, <2>10 DEF SectionDrafted
    <2> QED BY <2>1, <2>3, <2>5, <2>6, <2>11 DEF ModelInvariant
  <1>8. Done \in BOOLEAN
    OBVIOUS
  <1> HIDE DEF verdict, Done
  <1> QED BY <1>1, <1>7, <1>8, StretchModels
-----------------------------------------------------------------------------
\* All folders have their members: the section is sound.
LEMMA StreamsValidatedModels ==
    ASSUME HeaderInvariant, ModelInvariant, StreamsValidated
    PROVE  ModelInvariant'
  <1> DEFINE verdict == IF \/ ExplicitSizes # None /\ size_cursor # Len(ExplicitSizes[1])
                           \/ ExplicitCrcs # None /\ crc_cursor # Len(ExplicitCrcs[1])
                        THEN Internal ELSE "Ok"
             s       == [position |-> Raw.pack[1].position, packs |-> packs, folders |-> built]
             Done    == /\ model' = WithSection(s)
                        /\ section' = section + 1 /\ pc' = "validate"
                        /\ UNCHANGED <<ranges, packs, drafts, size_cursor, crc_cursor, built, applied>>
             unpack  == Raw.unpack[1]
             folders == unpack.folders
  <1>1. Validates(verdict, Done) /\ pc = "substreams" /\ Len(built) = Len(drafts)
    BY DEF StreamsValidated
  <1>2. InSection /\ CursorsCount /\ SectionDrafted /\ PacksInPlace(packs)
    BY <1>1 DEF HeaderInvariant, ModelInvariant
  <1>3. FolderList(folders) /\ IsSequence(folders) /\ Len(folders) \in Nat /\ DOMAIN folders = 1..Len(folders)
    BY <1>2, SectionFolders DEF FolderList, IsSequence
  <1>4. drafts = Drafts(unpack) /\ Len(drafts) = Len(folders) /\ IsSequence(built)
    BY <1>2, <1>3, DraftsOfFolders DEF CursorsCount
  <1>5. ASSUME NEW k \in 1..Len(folders)
        PROVE  /\ built[k].first_pack = FirstPack(folders, k)
               /\ built[k].packed_streams = folders[k].packed_streams
               /\ IsSequence(built[k].members) /\ MembersFill(built[k])
    <2>1. FolderBuilt(built[k], drafts[k])
      BY <1>1, <1>2, <1>4 DEF SectionDrafted
    <2>2. /\ drafts[k].first_pack = FirstPack(folders, k)
          /\ drafts[k].packed_streams = folders[k].packed_streams
      BY <1>3, <1>4 DEF Drafts
    <2> QED BY <2>1, <2>2 DEF FolderBuilt
  <1>6. s.packs = packs /\ s.folders = built
    OBVIOUS
  <1>7. Len(built) = Len(folders) /\ Len(packs) \in Nat
    BY <1>1, <1>2, <1>4 DEF PacksInPlace, IsSequence
  <1> HIDE DEF s
  <1>8. PacksDealtOut(s)
    <2>1. FirstPack(folders, Len(folders) + 1) = Len(s.packs)
      BY <1>2, <1>6 DEF SectionDrafted
    <2> HIDE DEF folders
    <2> QED BY <1>3, <1>4, <1>5, <1>6, <1>7, <2>1, AllDealtOut
  <1>9. SectionSound(s)
    BY <1>2, <1>4, <1>5, <1>6, <1>7, <1>8 DEF SectionSound
  <1>10. ASSUME Done, UNCHANGED <<input, result, parseVars>>, result = "none"
         PROVE  ModelInvariant'
    <2>1. model' = WithSection(s) /\ ranges' = ranges /\ pc' = "validate" /\ result' = "none"
      BY <1>10
    <2>2. Current' = <<>> /\ s.packs = Current
      BY <1>1, <1>6, <2>1 DEF Current
    <2>3. \E t : t = s
      OBVIOUS
    <2>4. PICK t : t = s
      BY <2>3
    <2>5. RangeList' /\ ModelRead' /\ RangesApart' /\ model'.files = model.files
      BY <1>9, <2>1, <2>2, <2>4, SectionAdded
    <2>6. model.files = None
      BY <1>1 DEF ModelInvariant
    <2> QED BY <2>1, <2>5, <2>6 DEF ModelInvariant
  <1>11. Done \in BOOLEAN
    OBVIOUS
  <1> HIDE DEF verdict, Done
  <1> QED BY <1>1, <1>10, <1>11, StretchModels

\* Nothing is validated of a header whose folders are external.
LEMMA ValidatePendingModels ==
    ASSUME ModelInvariant, ValidatePending
    PROVE  ModelInvariant'
  <1> DEFINE pending == raw.pending[1]
             verdict == IF pending.pack = None THEN "Format"
                        ELSE IF PackVerdict(pending.pack[1]) # "Ok" THEN PackVerdict(pending.pack[1])
                        ELSE IF \/ Overlap(ranges \o PackRange(pending.pack[1]))
                                \/ pending.index >= AdditionalCount
                                \/ pending.index >= Len(input.streams)
                        THEN "Format" ELSE "Ok"
             Done    == pc' = "resolve" /\ UNCHANGED validateVars
  <1>1. Validates(verdict, Done) /\ pc = "validate"
    BY DEF ValidatePending
  <1>2. ASSUME Done, UNCHANGED <<input, result, parseVars>>, result = "none"
        PROVE  ModelInvariant'
    <2>1. ranges' = ranges /\ model' = model /\ pc' = "resolve" /\ result' = "none"
      BY <1>2 DEF validateVars
    <2>2. Current' = <<>>
      BY <2>1 DEF Current
    <2>3. ModelFields(model') /\ model.files = None
      BY <1>1, <2>1 DEF ModelInvariant, ModelRead, ModelFields
    <2>4. RangeList' /\ ModelRead' /\ RangesApart'
      BY <2>1, <2>2, <2>3, SectionsStay
    <2> QED BY <2>1, <2>3, <2>4 DEF ModelInvariant
  <1>3. Done \in BOOLEAN
    OBVIOUS
  <1> HIDE DEF verdict, Done
  <1> QED BY <1>1, <1>2, <1>3, StretchModels

\* A model of nothing.
LEMMA NothingModelled ==
    model = NoModel /\ ranges = <<>> /\ Current = <<>>
        => RangeList /\ ModelRead /\ RangesApart /\ model.files = None
  <1> SUFFICES ASSUME model = NoModel, ranges = <<>>, Current = <<>>
               PROVE  RangeList /\ ModelRead /\ RangesApart /\ model.files = None
    OBVIOUS
  <1>1. model.additional = None /\ model.main = None /\ model.files = None /\ ModelFields(model)
    BY DEF NoModel, ModelFields
  <1>2. RangeList
    BY OptionIsSequence DEF RangeList, None
  <1>3. ModelRead
    BY <1>1 DEF ModelRead, ModelFields
  <1>4. PacksOf(model.additional) = <<>> /\ PacksOf(model.main) = <<>>
    BY <1>1 DEF PacksOf
  <1>5. Covered(<<>>, 0) /\ 0 \in 0..Len(ranges)
    BY DEF Covered
  <1> QED BY <1>1, <1>2, <1>3, <1>4, <1>5 DEF RangesApart
\* The validator begins with nothing.
LEMMA InitModels == Init => ModelInvariant
  <1> SUFFICES ASSUME Init PROVE ModelInvariant
    OBVIOUS
  <1>1. model = NoModel /\ ranges = <<>> /\ pc = "kind" /\ result = "none"
    BY DEF Init, ParseInit, ValidateInit
  <1>2. Current = <<>>
    BY <1>1 DEF Current
  <1> QED BY <1>1, <1>2, NothingModelled DEF ModelInvariant

\* The second pass begins with nothing, too.
LEMMA ResolveFoldersModels ==
    ASSUME ModelInvariant, ResolveFolders
    PROVE  ModelInvariant'
  <1>1. model' = NoModel /\ ranges' = <<>> /\ pc' = "kind" /\ result' = result /\ pc = "resolve"
    BY DEF ResolveFolders
  <1>2. Current' = <<>> /\ result = "none"
    BY <1>1 DEF Current, ModelInvariant
  <1>3. (model = NoModel /\ ranges = <<>> /\ Current = <<>>)'
          => (RangeList /\ ModelRead /\ RangesApart /\ model.files = None)'
    BY NothingModelled, PTL
  <1> QED BY <1>1, <1>2, <1>3 DEF ModelInvariant

\* The sections' ranges do not overlap.
LEMMA CheckRangesModels ==
    ASSUME ModelInvariant, CheckRanges
    PROVE  ModelInvariant'
  <1> DEFINE verdict == IF Overlap(ranges) THEN "Format" ELSE "Ok"
             Done    == /\ pc' = IF raw.files = None THEN "finish" ELSE "files"
                        /\ model' = [model EXCEPT !.kind = raw.kind, !.properties = raw.properties]
                        /\ UNCHANGED <<section, ranges, packs, drafts, size_cursor, crc_cursor, built, applied>>
  <1>1. Validates(verdict, Done) /\ pc = "validate"
    BY DEF CheckRanges
  <1>2. ASSUME verdict = "Ok", Done, UNCHANGED <<input, result, parseVars>>, result = "none"
        PROVE  ModelInvariant'
    <2>1. /\ ranges' = ranges /\ pc' \in {"finish", "files"} /\ result' = "none" /\ ~Overlap(ranges)
          /\ pc' = "files" => raw'.files # None
      BY <1>2 DEF parseVars
    <2>2. /\ ModelFields(model') /\ model'.additional = model.additional /\ model'.main = model.main
          /\ model'.files = None
      <3>1. ModelFields(model) /\ model.files = None
        BY <1>1 DEF ModelInvariant, ModelRead, ModelFields
      <3> QED BY <1>2, <3>1 DEF ModelFields
    <2>3. Current' = <<>>
      BY <2>1 DEF Current
    <2>4. RangeList' /\ ModelRead' /\ RangesApart'
      BY <2>1, <2>2, <2>3, SectionsStay
    <2>5. ~Overlap(ranges)'
      BY <2>1
    <2> QED BY <2>1, <2>2, <2>4, <2>5 DEF ModelInvariant
  <1>3. Done \in BOOLEAN
    OBVIOUS
  <1> HIDE DEF verdict, Done
  <1> QED BY <1>1, <1>2, <1>3, StretchModels

\* What entries are mapped to, in this state and in the next.
MappedToMain == \A entries : EntriesMapped(entries) <=> Placed(FoldersOf(model.main), entries)

\* They are mapped to the members of the main section.
LEMMA MainMembers == ModelRead => MappedToMain
  BY EntriesMappedTo DEF MappedToMain

\* Entries are read against the sections, which do not change.
LEMMA EntriesStay ==
    ASSUME ModelRead, ModelRead', model'.main = model.main, NEW entries, EntriesRead(entries)
    PROVE  EntriesRead(entries)'
  <1>1. ModelRead => MappedToMain
    BY MainMembers
  <1>2. ModelRead' => MappedToMain'
    BY MainMembers, PTL
  <1>3. FoldersOf(model.main)' = FoldersOf(model.main)
    BY DEF FoldersOf
  <1>4. EntriesMapped(entries)' <=> EntriesMapped(entries)
    BY <1>1, <1>2, <1>3 DEF MappedToMain
  <1> QED BY <1>4 DEF EntriesRead

\* A stretch that gives the entries.
LEMMA FilesChange ==
    ASSUME ModelInvariant, ranges' = ranges, pc \in {"files", "apply"}, pc' = "apply", result' = "none",
           NEW entries, EntriesRead(entries), ModelFields(model'), model'.additional = model.additional,
           model'.main = model.main, model'.files = Some(entries)
    PROVE  ModelInvariant'
  <1>1. Current' = <<>>
    BY DEF Current
  <1>2. RangeList' /\ ModelRead' /\ RangesApart'
    BY <1>1, SectionsStay
  <1>3. ~Overlap(ranges)'
    BY DEF ModelInvariant
  <1>4. EntriesRead(entries)'
    BY <1>2, EntriesStay DEF ModelInvariant
  <1> QED BY <1>2, <1>3, <1>4 DEF ModelInvariant
-----------------------------------------------------------------------------
\* The entries that have data get the members.
LEMMA ValidateFilesModels ==
    ASSUME HeaderInvariant, ModelInvariant, ValidateFiles
    PROVE  ModelInvariant'
  <1> DEFINE names   == IF ~Has(ID_NAME) THEN "Ok"
                        ELSE IF NamesOutside THEN IF Len(Data(ID_NAME)) = 2 THEN "Ok" ELSE "Format"
                        ELSE NameVerdict(Data(ID_NAME), 2, Files.count)
             verdict ==
                 IF ~PropertiesValid \/ ~BitsValid THEN "Format"
                 ELSE IF names # "Ok" THEN names
                 ELSE IF \/ \E id \in Range(ValueIds) : Has(id) /\ ~ValuesExact(id)
                         \/ \E i \in DOMAIN External : External[i].index >= AdditionalCount
                         \/ Len(Mappings) # Files.count - EmptyCount
                 THEN "Format" ELSE "Ok"
             list    == [k \in 1..Files.count |-> EntryAt(k)]
             unknown == SelectSeq(Files.properties, LAMBDA p : p.id \notin KnownIds \cup {ID_DUMMY})
             Done    ==
                 /\ pc' = "apply"
                 /\ model' = [model EXCEPT !.files = Some(list), !.external = External,
                                           !.unknown = unknown]
                 /\ UNCHANGED <<section, ranges, packs, drafts, size_cursor, crc_cursor, built, applied>>
  <1>1. Validates(verdict, Done) /\ pc = "files"
    BY DEF ValidateFiles
  <1>2. ModelRead /\ raw.files # None /\ ModelFields(model)
    BY <1>1 DEF ModelInvariant, ModelRead, ModelFields
  <1>3. verdict = "Ok" => Len(Mappings) = Files.count - EmptyCount
    <2> HIDE DEF names
    <2> QED OBVIOUS
  <1> HIDE DEF verdict
  <1>4. ASSUME verdict = "Ok", Done, UNCHANGED <<input, result, parseVars>>, result = "none"
        PROVE  ModelInvariant'
    <2>1. EntriesRead(list)
      BY <1>2, <1>3, <1>4, EntriesAreRead
    <2> HIDE DEF list, unknown
    <2>2. PICK entries : entries = list
      OBVIOUS
    <2>3. EntriesRead(entries)
      BY <2>1, <2>2
    <2>4. pc' = "apply" /\ ranges' = ranges /\ result' = "none"
      BY <1>4
    <2>5. /\ ModelFields(model') /\ model'.additional = model.additional /\ model'.main = model.main
          /\ model'.files = Some(entries)
      BY <1>2, <1>4, <2>2 DEF ModelFields
    <2> QED BY <1>1, <2>3, <2>4, <2>5, FilesChange
  <1>5. Done \in BOOLEAN
    OBVIOUS
  <1> HIDE DEF Done
  <1> QED BY <1>1, <1>4, <1>5, StretchModels

\* Names and values from an additional stream.
LEMMA ApplyPropertyModels ==
    ASSUME ModelInvariant, ApplyProperty
    PROVE  ModelInvariant'
  <1> DEFINE property == model.external[applied + 1]
             data     == input.streams[property.index + 1]
             old      == model.files[1]
             verdict  == IF property.index >= Len(input.streams) THEN "Format"
                         ELSE IF property.id = ID_NAME THEN NameVerdict(data, 1, Len(old))
                         ELSE IF CountTrue(property.defined, Len(old)) # Len(data) THEN "Format"
                         ELSE "Ok"
             values   == DefinedFields(data, 1, property.defined)
             Applied(k) ==
                 IF property.id = ID_NAME
                 THEN [old[k] EXCEPT !.name = Some(NameAt(data, 1, k))]
                 ELSE IF property.defined[k]
                 THEN [old[k] EXCEPT !.values[property.id] = Some(values[k])]
                 ELSE old[k]
             list     == [k \in DOMAIN old |-> Applied(k)]
             Done     == /\ model' = [model EXCEPT !.files = Some(list)]
                         /\ applied' = applied + 1
                         /\ UNCHANGED <<pc, section, ranges, packs, drafts, size_cursor, crc_cursor, built>>
  <1>1. Validates(verdict, Done) /\ pc = "apply"
    BY DEF ApplyProperty
  <1>2. ModelRead /\ ModelFields(model)
    BY DEF ModelInvariant, ModelRead, ModelFields
  <1>3. PICK entries : model.files = Some(entries) /\ EntriesRead(entries)
    BY <1>1 DEF ModelInvariant
  <1>4. old = entries /\ DOMAIN entries = 1..Len(entries)
    BY <1>3 DEF Some, EntriesRead, IsSequence
  <1>5. ASSUME NEW k \in 1..Len(entries)
        PROVE  /\ EntryRead(Applied(k)) /\ Applied(k).has_stream = entries[k].has_stream
               /\ Applied(k).stream = entries[k].stream
    <2>1. EntryRead(entries[k])
      BY <1>3 DEF EntriesRead
    <2> HIDE DEF property, data, values
    <2>2. ASSUME NEW n PROVE LET e == [entries[k] EXCEPT !.name = n]
                             IN  EntryRead(e) /\ e.has_stream = entries[k].has_stream
                                 /\ e.stream = entries[k].stream
      BY <2>1 DEF EntryRead
    <2>3. ASSUME NEW i, NEW v PROVE LET e == [entries[k] EXCEPT !.values[i] = v]
                                    IN  EntryRead(e) /\ e.has_stream = entries[k].has_stream
                                        /\ e.stream = entries[k].stream
      BY <2>1 DEF EntryRead
    <2>4. \/ Applied(k) = entries[k]
          \/ \E n : Applied(k) = [entries[k] EXCEPT !.name = n]
          \/ \E i, v : Applied(k) = [entries[k] EXCEPT !.values[i] = v]
      <3>1. CASE property.id = ID_NAME
        <4>1. Applied(k) = [entries[k] EXCEPT !.name = Some(NameAt(data, 1, k))]
          BY <1>4, <3>1
        <4> QED BY <4>1
      <3>2. CASE property.id # ID_NAME /\ property.defined[k]
        <4>1. Applied(k) = [entries[k] EXCEPT !.values[property.id] = Some(values[k])]
          BY <1>4, <3>2
        <4> QED BY <4>1
      <3>3. CASE property.id # ID_NAME /\ ~property.defined[k]
        BY <1>4, <3>3
      <3> QED BY <3>1, <3>2, <3>3
    <2> HIDE DEF Applied
    <2>5. CASE \E n : Applied(k) = [entries[k] EXCEPT !.name = n]
      BY <2>2, <2>5
    <2>6. CASE \E i, v : Applied(k) = [entries[k] EXCEPT !.values[i] = v]
      <3>1. PICK i : \E v : Applied(k) = [entries[k] EXCEPT !.values[i] = v]
        BY <2>6
      <3>2. PICK v : Applied(k) = [entries[k] EXCEPT !.values[i] = v]
        BY <3>1
      <3> DEFINE e == [entries[k] EXCEPT !.values[i] = v]
      <3>3. EntryRead(e) /\ e.has_stream = entries[k].has_stream /\ e.stream = entries[k].stream
        BY <2>3
      <3>4. Applied(k) = e
        BY <3>2
      <3> HIDE DEF e
      <3> QED BY <3>3, <3>4
    <2> QED BY <2>1, <2>4, <2>5, <2>6
  <1>6. list = [k \in 1..Len(entries) |-> list[k]] /\ \A k \in 1..Len(entries) : list[k] = Applied(k)
    BY <1>4
  <1> HIDE DEF list, Applied, verdict
  <1>7. EntriesRead(list)
    BY <1>2, <1>3, <1>5, <1>6, EntriesStayRead
  <1>8. ASSUME Done, UNCHANGED <<input, result, parseVars>>, result = "none"
        PROVE  ModelInvariant'
    <2>1. PICK changed : changed = list
      OBVIOUS
    <2>2. EntriesRead(changed)
      BY <1>7, <2>1
    <2>3. pc' = "apply" /\ ranges' = ranges /\ result' = "none"
      BY <1>1, <1>8
    <2>4. /\ ModelFields(model') /\ model'.additional = model.additional /\ model'.main = model.main
          /\ model'.files = Some(changed)
      BY <1>2, <1>8, <2>1 DEF ModelFields
    <2> QED BY <1>1, <2>2, <2>3, <2>4, FilesChange
  <1>9. Done \in BOOLEAN
    OBVIOUS
  <1> HIDE DEF Done
  <1> QED BY <1>1, <1>8, <1>9, StretchModels
-----------------------------------------------------------------------------
\* Sound sections whose ranges do not overlap make a sound model.
LEMMA SectionsMakeModel ==
    RangeList /\ ModelRead /\ RangesApart /\ ~Overlap(ranges) /\ EntriesPlaced => ModelSound
  <1> SUFFICES ASSUME RangeList, ModelRead, RangesApart, ~Overlap(ranges), EntriesPlaced
               PROVE  ModelSound
    OBVIOUS
  <1>1. PacksDisjoint
    BY PacksAreDisjoint
  <1>2. \A x : Range(None) = {} /\ Range(Some(x)) = {x}
    BY DEF Range, None, Some
  <1>3. ASSUME NEW s, SectionSound(s) PROVE PacksDealtOut(s) /\ \A f \in Range(s.folders) : MembersFill(f)
    <2>1. PacksDealtOut(s) /\ DOMAIN s.folders = 1..Len(s.folders)
      BY <1>3 DEF SectionSound, IsSequence
    <2>2. \A k \in 1..Len(s.folders) : MembersFill(s.folders[k])
      BY <1>3 DEF SectionSound
    <2>3. \A f \in Range(s.folders) : MembersFill(f)
      BY <2>1, <2>2 DEF Range
    <2> QED BY <2>1, <2>3
  <1>4. ASSUME NEW s \in Range(model.additional \o model.main) PROVE SectionSound(s)
    <2>1. CASE model.additional = None /\ model.main = None
      BY <1>2, <2>1, OptionsConcatenate
    <2>2. ASSUME NEW a, model.additional = Some(a), SectionSound(a), model.main = None
          PROVE  SectionSound(s)
      <3>1. model.additional \o model.main = Some(a)
        BY <2>2, OptionsConcatenate
      <3>2. s = a
        BY <1>2, <3>1
      <3> QED BY <2>2, <3>2
    <2>3. ASSUME NEW m, model.main = Some(m), SectionSound(m), model.additional = None
          PROVE  SectionSound(s)
      <3>1. model.additional \o model.main = Some(m)
        BY <2>3, OptionsConcatenate
      <3>2. s = m
        BY <1>2, <3>1
      <3> QED BY <2>3, <3>2
    <2>4. ASSUME NEW a, NEW m, model.additional = Some(a), model.main = Some(m),
                 SectionSound(a), SectionSound(m)
          PROVE  SectionSound(s)
      <3> DEFINE both == Some(a) \o Some(m)
      <3>1. IsSequence(both) /\ Len(both) = 2 /\ both[1] = a /\ both[2] = m
        BY OptionsConcatenate
      <3>2. s \in Range(both)
        BY <2>4
      <3> HIDE DEF both
      <3>3. DOMAIN both = 1..2
        BY <3>1 DEF IsSequence
      <3>4. PICK i \in 1..2 : s = both[i]
        BY <3>2, <3>3 DEF Range
      <3>5. i = 1 \/ i = 2
        OBVIOUS
      <3> QED BY <2>4, <3>1, <3>4, <3>5
    <2> QED BY <2>1, <2>2, <2>3, <2>4 DEF ModelRead
  <1>5. \A entries \in Range(model.files) : EntriesMapped(entries)
    BY <1>2 DEF EntriesPlaced, EntriesRead
  <1> QED BY <1>1, <1>3, <1>4, <1>5 DEF ModelSound

\* The model is complete, and sound.
LEMMA FinishHeaderModels ==
    ASSUME ModelInvariant, FinishHeader
    PROVE  ModelInvariant'
  <1>1. /\ pc' = "done" /\ result' = "Ok" /\ ranges' = ranges /\ model' = model
        /\ pc \in {"apply", "finish"}
    BY DEF FinishHeader, Fails, validateVars
  <1>2. ModelFields(model') /\ ModelRead /\ ~Overlap(ranges)
    BY <1>1 DEF ModelInvariant, ModelRead, ModelFields
  <1>3. Current' = <<>>
    BY <1>1 DEF Current
  <1>4. RangeList' /\ ModelRead' /\ RangesApart'
    BY <1>1, <1>2, <1>3, SectionsStay
  <1>5. ~Overlap(ranges)'
    BY <1>1, <1>2
  <1>6. EntriesPlaced'
    <2>1. CASE pc = "finish"
      BY <1>1, <2>1 DEF ModelInvariant, EntriesPlaced
    <2>2. CASE pc = "apply"
      <3>1. PICK entries : model.files = Some(entries) /\ EntriesRead(entries)
        BY <2>2 DEF ModelInvariant
      <3>2. EntriesRead(entries)'
        BY <1>1, <1>2, <1>4, <3>1, EntriesStay
      <3> QED BY <1>1, <3>1, <3>2 DEF EntriesPlaced
    <2> QED BY <1>1, <2>1, <2>2
  <1> QED BY <1>1, <1>4, <1>5, <1>6 DEF ModelInvariant

\* Nothing happens.
LEMMA StutterModels ==
    ASSUME ModelInvariant, UNCHANGED vars
    PROVE  ModelInvariant'
  <1>1. /\ pc' = pc /\ result' = result /\ ranges' = ranges /\ model' = model /\ packs' = packs
        /\ drafts' = drafts /\ built' = built /\ raw' = raw /\ section' = section
    BY DEF vars, parseVars, validateVars
  <1>2. ModelFields(model') /\ ModelRead
    BY <1>1 DEF ModelInvariant, ModelRead, ModelFields
  <1>3. Current' = Current
    BY <1>1 DEF Current
  <1>4. RangeList' /\ ModelRead' /\ RangesApart'
    BY <1>1, <1>2, <1>3, SectionsStay
  <1>5. \A entries : EntriesRead(entries) => EntriesRead(entries)'
    BY <1>1, <1>2, <1>4, EntriesStay
  <1>6. EntriesPlaced => EntriesPlaced'
    BY <1>1, <1>5 DEF EntriesPlaced
  <1>7. SectionDrafted' <=> SectionDrafted
    <2>1. Raw' = Raw
      BY <1>1 DEF Raw, Section, Sections
    <2> QED BY <1>1, <2>1 DEF SectionDrafted
  <1>8. Overlap(ranges)' <=> Overlap(ranges)
    BY <1>1 DEF Overlap
  <1> QED BY <1>1, <1>4, <1>5, <1>6, <1>7, <1>8 DEF ModelInvariant

\* Every step of the parser and the validator.
LEMMA StepModels == HeaderInvariant /\ ModelInvariant /\ [Next]_vars => ModelInvariant'
  <1> SUFFICES ASSUME HeaderInvariant, ModelInvariant, [Next]_vars PROVE ModelInvariant'
    OBVIOUS
  <1>1. CASE ParseStep /\ UNCHANGED validateVars
    BY <1>1, ParseModels
  <1> QED BY <1>1, StutterModels, ValidatePackModels, ValidateFoldersModels, BuildSubstreamsModels,
             StreamsValidatedModels, ValidatePendingModels, ResolveFoldersModels, CheckRangesModels,
             ValidateFilesModels, ApplyPropertyModels, FinishHeaderModels
          DEF Next

(***************************************************************************)
(* What the validator keeps of the sections that it accepted: the packed   *)
(* streams of each lie in the archive's data, those that have bytes under  *)
(* a range of their section, all dealt out to its folders, whose members   *)
(* fill them; and the entries, once read, are mapped to all members.       *)
(***************************************************************************)
THEOREM HeaderModels == Spec => []ModelInvariant
  <1>1. Init => ModelInvariant
    BY InitModels
  <1>2. HeaderInvariant /\ ModelInvariant /\ [Next]_vars => ModelInvariant'
    BY StepModels
  <1> QED BY <1>1, <1>2, HeaderCounts, PTL DEF Spec

(***************************************************************************)
(* validate_next_header, whatever the tokens, the limits and the coders:   *)
(* the model that opening an archive returns is sound.                     *)
(***************************************************************************)
THEOREM AcceptedModelIsSound == Spec => []ModelSound
  <1>1. ModelInvariant => ModelSound
    <2>1. ModelInvariant /\ result = "Ok" => ModelSound
      BY SectionsMakeModel DEF ModelInvariant
    <2>2. result # "Ok" => ModelSound
      BY DEF ModelSound
    <2> QED BY <2>1, <2>2
  <1> QED BY <1>1, HeaderModels, PTL
=============================================================================
