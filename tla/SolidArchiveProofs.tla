------------------------- MODULE SolidArchiveProofs -------------------------
(***************************************************************************)
(* Facts about the validated archive, for every archive and all limits:    *)
(* how the sizes of a folder's substreams add up, what the preflight lets  *)
(* through and what it refuses, what several folders decode to together,   *)
(* and which substream follows which in the mapping of the entries.  First *)
(* what several proofs need: the least element of a set of naturals, which *)
(* is how this development argues by induction, and sums.                  *)
(***************************************************************************)
EXTENDS SolidArchive, WellFoundedInduction, SequenceTheorems, TLAPS

\* A set of naturals that is not empty has a least element.
LEMMA LeastNatural ==
    ASSUME NEW S \in SUBSET Nat, S # {}
    PROVE  \E n \in S : \A m \in S : n <= m
  <1> DEFINE R == OpToRel(<, Nat)
  <1>1. IsWellFoundedOn(R, Nat)
    BY NatLessThanWellFounded
  <1>2. \E n \in S : \A m \in S : ~(<<m, n>> \in R)
    <2> HIDE DEF R
    <2> QED BY <1>1, WFMin
  <1>3. \A m, n \in Nat : ~(<<m, n>> \in R) => n <= m
    BY DEF OpToRel
  <1> QED BY <1>2, <1>3

-----------------------------------------------------------------------------
(***************************************************************************)
(* g holds the partial sums of v[1], ..., v[n], as the recursive functions *)
(* of the modules define them.                                             *)
(***************************************************************************)
PartialSums(v, n, g) == g = [m \in 0..n |-> IF m = 0 THEN 0 ELSE g[m - 1] + v[m]]

Total(v, n) == LET sums == CHOOSE g : PartialSums(v, n, g) IN sums[n]

\* Partial sums exist, as far as there are addends.
LEMMA PartialSumsExist ==
    ASSUME NEW k \in Nat, NEW v \in [1..k -> Int], NEW n \in 0..k
    PROVE  \E g \in [0..n -> Int] : PartialSums(v, n, g)
  <1> DEFINE Bad == {m \in 0..k : ~\E g \in [0..m -> Int] : PartialSums(v, m, g)}
  <1>1. SUFFICES ASSUME Bad # {} PROVE FALSE
    OBVIOUS
  <1>2. PICK b \in Bad : \A m \in Bad : b <= m
    <2>1. Bad \in SUBSET Nat
      OBVIOUS
    <2> HIDE DEF Bad
    <2> QED BY <2>1, <1>1, LeastNatural
  <1>3. b # 0
    <2>1. PartialSums(v, 0, [m \in 0..0 |-> 0]) /\ [m \in 0..0 |-> 0] \in [0..0 -> Int]
      BY DEF PartialSums
    <2> QED BY <2>1
  <1>4. PICK g \in [0..(b - 1) -> Int] : PartialSums(v, b - 1, g)
    BY <1>2, <1>3
  <1> DEFINE h == [m \in 0..b |-> IF m = b THEN g[b - 1] + v[b] ELSE g[m]]
  <1>5. h \in [0..b -> Int]
    BY <1>3
  <1>6. PartialSums(v, b, h)
    <2>1. \A m \in 0..(b - 1) : g[m] = IF m = 0 THEN 0 ELSE g[m - 1] + v[m]
      BY <1>4 DEF PartialSums
    <2>2. \A m \in 0..b : h[m] = IF m = 0 THEN 0 ELSE h[m - 1] + v[m]
      <3> TAKE m \in 0..b
      <3>1. CASE m = b
        <4>1. b - 1 \in 0..b /\ b - 1 # b /\ b \in 0..b
          BY <1>3
        <4>2. h[b] = g[b - 1] + v[b] /\ h[b - 1] = g[b - 1]
          BY <4>1
        <4> HIDE DEF h
        <4> QED BY <1>3, <3>1, <4>2
      <3>2. CASE m # b
        <4>1. h[m] = g[m] /\ m \in 0..(b - 1)
          BY <3>2
        <4>2. m # 0 => h[m - 1] = g[m - 1]
          BY <3>2
        <4> HIDE DEF h
        <4> QED BY <2>1, <4>1, <4>2
      <3> QED BY <3>1, <3>2
    <2> HIDE DEF h
    <2> QED BY <2>2, <1>5 DEF PartialSums
  <1> QED BY <1>5, <1>6, <1>2

\* Two functions of partial sums agree where both are defined.
LEMMA PartialSumsUnique ==
    ASSUME NEW n \in Nat, NEW k \in 0..n, NEW v,
           NEW g, NEW h, PartialSums(v, n, g), PartialSums(v, k, h)
    PROVE  \A m \in 0..k : g[m] = h[m]
  <1> DEFINE Bad == {m \in 0..k : g[m] # h[m]}
  <1>1. SUFFICES ASSUME Bad # {} PROVE FALSE
    OBVIOUS
  <1>2. PICK m \in Bad : \A j \in Bad : m <= j
    <2>1. Bad \in SUBSET Nat
      OBVIOUS
    <2> HIDE DEF Bad
    <2> QED BY <2>1, <1>1, LeastNatural
  <1>3. m # 0
    BY DEF PartialSums
  <1>4. g[m - 1] = h[m - 1]
    BY <1>2, <1>3
  <1>5. g[m] = g[m - 1] + v[m] /\ h[m] = h[m - 1] + v[m]
    BY <1>3, <1>2 DEF PartialSums
  <1> QED BY <1>4, <1>5

\* One function holds all the totals up to n.
LEMMA TotalsOf ==
    ASSUME NEW k \in Nat, NEW v \in [1..k -> Int], NEW n \in 0..k
    PROVE  \E g \in [0..n -> Int] : /\ g[0] = 0 /\ \A m \in 1..n : g[m] = g[m - 1] + v[m]
                                    /\ \A m \in 0..n : Total(v, m) = g[m]
  <1>1. PICK g \in [0..n -> Int] : PartialSums(v, n, g)
    BY PartialSumsExist
  <1>2. g[0] = 0 /\ \A m \in 1..n : g[m] = g[m - 1] + v[m]
    BY <1>1 DEF PartialSums
  <1>3. ASSUME NEW m \in 0..n PROVE Total(v, m) = g[m]
    <2> DEFINE s == CHOOSE h : PartialSums(v, m, h)
    <2>0. m \in 0..k
      OBVIOUS
    <2>1. \E h : PartialSums(v, m, h)
      BY <2>0, PartialSumsExist
    <2>2. PartialSums(v, m, s)
      <3> HIDE DEF PartialSums
      <3> QED BY <2>1
    <2>3. Total(v, m) = s[m]
      BY DEF Total
    <2> HIDE DEF s
    <2> QED BY <1>1, <2>2, <2>3, PartialSumsUnique
  <1> QED BY <1>1, <1>2, <1>3

\* How a total grows, one addend at a time.
LEMMA TotalFacts ==
    ASSUME NEW k \in Nat, NEW v \in [1..k -> Int]
    PROVE  /\ Total(v, 0) = 0
           /\ \A n \in 0..k : Total(v, n) \in Int
           /\ \A n \in 1..k : Total(v, n) = Total(v, n - 1) + v[n]
  <1>1. PICK g \in [0..k -> Int] : /\ g[0] = 0 /\ \A m \in 1..k : g[m] = g[m - 1] + v[m]
                                   /\ \A m \in 0..k : Total(v, m) = g[m]
    <2>1. k \in 0..k
      OBVIOUS
    <2> QED BY <2>1, TotalsOf
  <1>2. \A n \in 1..k : n - 1 \in 0..k /\ n \in 0..k
    OBVIOUS
  <1> QED BY <1>1, <1>2

\* Greater addends, greater totals; and totals of naturals grow.
LEMMA TotalsCompare ==
    ASSUME NEW k \in Nat, NEW v \in [1..k -> Int], NEW w \in [1..k -> Int],
           \A m \in 1..k : v[m] <= w[m]
    PROVE  \A n \in 0..k : Total(v, n) <= Total(w, n)
  <1> DEFINE Bad == {n \in 0..k : ~(Total(v, n) <= Total(w, n))}
  <1>1. SUFFICES ASSUME Bad # {} PROVE FALSE
    OBVIOUS
  <1>2. PICK b \in Bad : \A m \in Bad : b <= m
    <2>1. Bad \in SUBSET Nat
      OBVIOUS
    <2> HIDE DEF Bad
    <2> QED BY <2>1, <1>1, LeastNatural
  <1>3. b # 0
    <2>1. Total(v, 0) = 0 /\ Total(w, 0) = 0
      BY TotalFacts
    <2> QED BY <2>1
  <1>4. b \in 1..k /\ b - 1 \in 0..k /\ b - 1 \notin Bad
    BY <1>2, <1>3
  <1>5. Total(v, b - 1) <= Total(w, b - 1)
    BY <1>4
  <1>6. /\ Total(v, b) = Total(v, b - 1) + v[b] /\ Total(w, b) = Total(w, b - 1) + w[b]
        /\ Total(v, b - 1) \in Int /\ Total(w, b - 1) \in Int
    BY <1>4, TotalFacts
  <1>7. v[b] \in Int /\ w[b] \in Int /\ v[b] <= w[b]
    BY <1>4
  <1> QED BY <1>5, <1>6, <1>7

\* Totals of naturals never shrink.
LEMMA TotalsGrow ==
    ASSUME NEW k \in Nat, NEW v \in [1..k -> Nat], NEW l \in 0..k
    PROVE  \A n \in l..k : Total(v, l) <= Total(v, n)
  <1> DEFINE Bad == {n \in l..k : ~(Total(v, l) <= Total(v, n))}
  <1>1. SUFFICES ASSUME Bad # {} PROVE FALSE
    OBVIOUS
  <1>2. PICK b \in Bad : \A m \in Bad : b <= m
    <2>1. Bad \in SUBSET Nat
      OBVIOUS
    <2> HIDE DEF Bad
    <2> QED BY <2>1, <1>1, LeastNatural
  <1>3. v \in [1..k -> Int] /\ Total(v, l) \in Int
    <2>1. v \in [1..k -> Int]
      OBVIOUS
    <2> QED BY <2>1, TotalFacts
  <1>4. b # l
    BY <1>3
  <1>5. b \in 1..k /\ b - 1 \in l..k /\ b - 1 \in 0..k /\ b - 1 \notin Bad
    BY <1>2, <1>4
  <1>6. Total(v, b) = Total(v, b - 1) + v[b] /\ Total(v, b - 1) \in Int
    BY <1>3, <1>5, TotalFacts
  <1>7. v[b] \in Nat /\ Total(v, l) <= Total(v, b - 1)
    BY <1>5
  <1> QED BY <1>3, <1>6, <1>7

\* One addend more.
LEMMA TotalChanged ==
    ASSUME NEW k \in Nat, NEW v \in [1..k -> Int], NEW w \in [1..k -> Int],
           NEW j \in 1..k, \A m \in 1..k : m # j => w[m] = v[m]
    PROVE  Total(w, k) = Total(v, k) + w[j] - v[j]
  <1> DEFINE Bad == {n \in 0..k : Total(w, n) # IF n < j THEN Total(v, n) ELSE Total(v, n) + w[j] - v[j]}
  <1>1. SUFFICES ASSUME Bad # {} PROVE FALSE
    OBVIOUS
  <1>2. PICK b \in Bad : \A m \in Bad : b <= m
    <2>1. Bad \in SUBSET Nat
      OBVIOUS
    <2> HIDE DEF Bad
    <2> QED BY <2>1, <1>1, LeastNatural
  <1>3. b # 0
    <2>1. Total(v, 0) = 0 /\ Total(w, 0) = 0
      BY TotalFacts
    <2> QED BY <2>1
  <1>4. b \in 1..k /\ b - 1 \in 0..k /\ b - 1 \notin Bad
    BY <1>2, <1>3
  <1>5. Total(w, b - 1) = IF b - 1 < j THEN Total(v, b - 1) ELSE Total(v, b - 1) + w[j] - v[j]
    BY <1>4
  <1>6. /\ Total(v, b) = Total(v, b - 1) + v[b] /\ Total(w, b) = Total(w, b - 1) + w[b]
        /\ Total(v, b - 1) \in Int /\ Total(w, b - 1) \in Int
    BY <1>4, TotalFacts
  <1>7. v[b] \in Int /\ w[b] \in Int /\ v[j] \in Int /\ w[j] \in Int /\ (b # j => w[b] = v[b])
    BY <1>4
  <1>8. CASE b < j
    BY <1>4, <1>5, <1>6, <1>7, <1>8, <1>2
  <1>9. CASE b = j
    BY <1>4, <1>5, <1>6, <1>7, <1>9, <1>2
  <1>10. CASE b > j
    BY <1>4, <1>5, <1>6, <1>7, <1>10, <1>2
  <1> QED BY <1>4, <1>8, <1>9, <1>10

-----------------------------------------------------------------------------

\* What validation guarantees of a folder, field by field.
LEMMA FolderFacts ==
    ASSUME NEW f \in FolderRecords
    PROVE  /\ f.root \in Int /\ f.root >= -1 /\ f.actual \in Nat
           /\ f.root # Unknown => f.actual = f.root
           /\ f.crc_mismatch \in BOOLEAN /\ f.encrypted \in BOOLEAN
           /\ Last(f) \in Nat
           /\ DOMAIN f.substreams = 1..Last(f)
           /\ \A s \in 1..Last(f) : /\ SizeOf(f, s) \in Nat \cup {Unknown}
                                    /\ f.substreams[s].crc \in {"None", "Same", "Other"}
  <1>1. /\ f.root \in Nat \cup {Unknown} /\ f.actual \in Nat
        /\ f.substreams \in Seq([size : Nat \cup {Unknown}, crc : {"None", "Same", "Other"}])
        /\ f.root # Unknown => f.actual = f.root
        /\ f.crc_mismatch \in BOOLEAN /\ f.encrypted \in BOOLEAN
    BY DEF FolderRecords
  <1>2. Last(f) \in Nat /\ DOMAIN f.substreams = 1..Last(f)
    BY <1>1, LenProperties DEF Last
  <1>3. \A s \in 1..Last(f) :
            f.substreams[s] \in [size : Nat \cup {Unknown}, crc : {"None", "Same", "Other"}]
    BY <1>1, ElementOfSeq DEF Last
  <1> QED BY <1>1, <1>2, <1>3 DEF Unknown, SizeOf

-----------------------------------------------------------------------------
(***************************************************************************)
(* The sizes of the first substreams, added up.                            *)
(***************************************************************************)
Known(f) == [s \in 1..Last(f) |-> IF SizeOf(f, s) = Unknown THEN 0 ELSE SizeOf(f, s)]

SumsKnown(f, n, g) ==
    g = [m \in 0..n |-> IF m = 0 THEN 0
                        ELSE g[m - 1] + IF SizeOf(f, m) = Unknown THEN 0 ELSE SizeOf(f, m)]

\* The sum of the known sizes is a total of naturals.
LEMMA KnownSumIsTotal ==
    ASSUME NEW f \in FolderRecords, NEW n \in 0..Last(f)
    PROVE  KnownSum(f, n) = Total(Known(f), n)
  <1>1. Last(f) \in Nat /\ Known(f) \in [1..Last(f) -> Int]
    BY FolderFacts DEF Known, Unknown
  <1>2. ASSUME NEW g PROVE SumsKnown(f, n, g) <=> PartialSums(Known(f), n, g)
    <2>1. \A m \in 0..n : m # 0 => m \in 1..Last(f)
      BY <1>1
    <2>2. \A m \in 1..Last(f) : Known(f)[m] = IF SizeOf(f, m) = Unknown THEN 0 ELSE SizeOf(f, m)
      BY DEF Known
    <2>3. [m \in 0..n |-> IF m = 0 THEN 0
                          ELSE g[m - 1] + IF SizeOf(f, m) = Unknown THEN 0 ELSE SizeOf(f, m)]
            = [m \in 0..n |-> IF m = 0 THEN 0 ELSE g[m - 1] + Known(f)[m]]
      BY <2>1, <2>2
    <2> QED BY <2>3 DEF SumsKnown, PartialSums
  <1> DEFINE s == CHOOSE g : SumsKnown(f, n, g)
  <1>3. PICK h \in [0..n -> Int] : /\ PartialSums(Known(f), n, h) 
    BY <1>1, PartialSumsExist
  <1>4. PartialSums(Known(f), n, s)
    <2>1. SumsKnown(f, n, h)
      BY <1>2, <1>3
    <2>2. SumsKnown(f, n, s)
      <3> HIDE DEF SumsKnown
      <3> QED BY <2>1
    <2> HIDE DEF s
    <2> QED BY <1>2, <2>2
  <1>5. KnownSum(f, n) = s[n]
    BY DEF KnownSum, SumsKnown
  <1> DEFINE t == CHOOSE g : PartialSums(Known(f), n, g)
  <1>6. PartialSums(Known(f), n, t)
    <2> HIDE DEF PartialSums
    <2> QED BY <1>3
  <1>7. Total(Known(f), n) = t[n]
    BY DEF Total
  <1> HIDE DEF s, t
  <1>8. n \in Nat /\ n \in 0..n
    BY <1>1
  <1>9. s[n] = t[n]
    BY <1>4, <1>6, <1>8, PartialSumsUnique
  <1> QED BY <1>5, <1>7, <1>9

\* These sums begin at 0, grow by each size and never shrink.
LEMMA KnownSumFacts ==
    ASSUME NEW f \in FolderRecords
    PROVE  /\ KnownSum(f, 0) = 0
           /\ \A n \in 0..Last(f) : KnownSum(f, n) \in Nat
           /\ \A n \in 1..Last(f) : KnownSum(f, n) =
                  KnownSum(f, n - 1) + IF SizeOf(f, n) = Unknown THEN 0 ELSE SizeOf(f, n)
           /\ \A l \in 0..Last(f) : \A n \in l..Last(f) : KnownSum(f, l) <= KnownSum(f, n)
  <1> DEFINE k == Last(f)
             v == Known(f)
  <1>1. k \in Nat /\ v \in [1..k -> Nat] /\ v \in [1..k -> Int]
        /\ \A n \in 1..k : v[n] = IF SizeOf(f, n) = Unknown THEN 0 ELSE SizeOf(f, n)
    BY FolderFacts DEF Known, Unknown
  <1>2. \A n \in 0..k : KnownSum(f, n) = Total(v, n)
    BY KnownSumIsTotal
  <1> HIDE DEF k, v
  <1>3. /\ Total(v, 0) = 0
        /\ \A n \in 0..k : Total(v, n) \in Int
        /\ \A n \in 1..k : Total(v, n) = Total(v, n - 1) + v[n]
    BY <1>1, TotalFacts
  <1>4. \A l \in 0..k : \A n \in l..k : Total(v, l) <= Total(v, n)
    BY <1>1, TotalsGrow
  <1>5. \A n \in 0..k : Total(v, n) \in Nat
    <2>1. \A n \in 0..k : Total(v, 0) <= Total(v, n)
      BY <1>1, <1>4
    <2> QED BY <1>3, <2>1
  <1>6. KnownSum(f, 0) = 0
    BY <1>1, <1>2, <1>3
  <1>7. \A n \in 1..k : KnownSum(f, n) =
            KnownSum(f, n - 1) + IF SizeOf(f, n) = Unknown THEN 0 ELSE SizeOf(f, n)
    <2>1. \A n \in 1..k : n \in 0..k /\ n - 1 \in 0..k
      BY <1>1
    <2> QED BY <1>1, <1>2, <1>3, <2>1
  <1>8. \A l \in 0..k : \A n \in l..k : n \in 0..k
    BY <1>1
  <1> QED BY <1>2, <1>4, <1>5, <1>6, <1>7, <1>8 DEF k

\* Where a substream begins and ends.
LEMMA ByteFacts ==
    ASSUME NEW f \in FolderRecords, NEW s \in 1..Last(f)
    PROVE  /\ FirstByte(f, s) \in Nat /\ LastByte(f, s) \in Nat
           /\ FirstByte(f, s) = KnownSum(f, s - 1)
           /\ SizeOf(f, s) = Unknown => /\ LastByte(f, s) = f.actual
                                        /\ KnownSum(f, s) = FirstByte(f, s)
           /\ SizeOf(f, s) # Unknown => /\ SizeOf(f, s) \in Nat
                                        /\ LastByte(f, s) = FirstByte(f, s) + SizeOf(f, s)
                                        /\ LastByte(f, s) = KnownSum(f, s)
  <1>1. Last(f) \in Nat /\ f.actual \in Nat /\ SizeOf(f, s) \in Nat \cup {Unknown}
    BY FolderFacts
  <1>2. s - 1 \in 0..Last(f)
    BY <1>1
  <1>3. KnownSum(f, s - 1) \in Nat
    BY <1>2, KnownSumFacts
  <1>4. KnownSum(f, s) = KnownSum(f, s - 1) + IF SizeOf(f, s) = Unknown THEN 0 ELSE SizeOf(f, s)
    BY KnownSumFacts
  <1> QED BY <1>1, <1>3, <1>4 DEF FirstByte, LastByte

-----------------------------------------------------------------------------
(***************************************************************************)
(* folder_decode_maximum against the reference.                            *)
(***************************************************************************)
\* What the preflight has established of a folder it admitted.
Admitted(f) ==
    /\ Refused(f) = {}
    /\ Last(f) > 0 /\ ~UnknownFinal(f) => f.root = KnownSum(f, Last(f))

\* A folder the preflight refuses cannot be tiled by its substreams.
LEMMA RefusedIsNotTiled ==
    ASSUME NEW f \in FolderRecords, Refused(f) # {}
    PROVE  ~Tiled(f)
  <1>1. PICK s \in 1..Last(f) : \/ SizeOf(f, s) > MaxEntryOutput
                                \/ SizeOf(f, s) = Unknown /\ s < Last(f)
    BY DEF Refused
  <1>2. Last(f) \in Nat /\ MaxEntryOutput \in Nat
    BY FolderFacts, LimitsAssumption
  <1>3. CASE SizeOf(f, s) = Unknown
    <2>1. s < Last(f)
      BY <1>1, <1>2, <1>3 DEF Unknown
    <2> QED BY <1>2, <1>3, <2>1 DEF Tiled
  <1>4. CASE SizeOf(f, s) # Unknown
    <2>1. /\ SizeOf(f, s) \in Nat /\ LastByte(f, s) = FirstByte(f, s) + SizeOf(f, s)
          /\ FirstByte(f, s) \in Nat
      BY <1>4, ByteFacts
    <2>2. LastByte(f, s) - FirstByte(f, s) \notin 0..MaxEntryOutput
      BY <1>1, <1>2, <1>4, <2>1
    <2> QED BY <2>2 DEF Tiled
  <1> QED BY <1>3, <1>4

\* Nor can one whose sizes do not add up to its own.
LEMMA UnsummedIsNotTiled ==
    ASSUME NEW f \in FolderRecords, Last(f) > 0, ~UnknownFinal(f), f.root # KnownSum(f, Last(f))
    PROVE  ~Tiled(f)
  <1>1. SUFFICES ASSUME Tiled(f) PROVE FALSE
    OBVIOUS
  <1>2. Last(f) \in 1..Last(f) /\ SizeOf(f, Last(f)) # Unknown
    BY FolderFacts DEF UnknownFinal
  <1>3. LastByte(f, Last(f)) = KnownSum(f, Last(f))
    BY <1>2, ByteFacts
  <1>4. f.root # Unknown /\ LastByte(f, Last(f)) = f.actual
    BY <1>1 DEF Tiled
  <1> QED BY <1>3, <1>4, FolderFacts

PreflightErrors == {"TotalOutputBytes", "Unsupported", "EntryOutputBytes", "Format"}

\* What is admitted, and that what is not admitted could not be delivered.
LEMMA PreflightFacts ==
    ASSUME NEW f \in FolderRecords, NEW remaining \in Nat
    PROVE  /\ Preflight(f, remaining) = "Ok" => Admitted(f)
           /\ Preflight(f, remaining) # "Ok" =>
                 /\ Preflight(f, remaining) \in PreflightErrors
                 /\ ~Tiled(f) \/ f.actual > remaining
  <1>1. CASE ~RootAdmitted(f, remaining)
    <2>1. Preflight(f, remaining) = "TotalOutputBytes"
      BY <1>1 DEF Preflight
    <2>2. f.actual > remaining
      BY <1>1, FolderFacts DEF RootAdmitted
    <2> QED BY <2>1, <2>2 DEF PreflightErrors
  <1>2. CASE RootAdmitted(f, remaining) /\ Refused(f) # {}
    <2>1. Preflight(f, remaining) \in {"Unsupported", "EntryOutputBytes"}
      BY <1>2 DEF Preflight
    <2> QED BY <1>2, <2>1, RefusedIsNotTiled DEF PreflightErrors
  <1>3. CASE RootAdmitted(f, remaining) /\ Refused(f) = {}
    <2>1. CASE Last(f) > 0 /\ ~UnknownFinal(f) /\ f.root # KnownSum(f, Last(f))
      <3>1. Preflight(f, remaining) = "Format"
        BY <1>3, <2>1 DEF Preflight
      <3> QED BY <2>1, <3>1, UnsummedIsNotTiled DEF PreflightErrors
    <2>2. CASE ~(Last(f) > 0 /\ ~UnknownFinal(f) /\ f.root # KnownSum(f, Last(f)))
      <3>1. Preflight(f, remaining) = "Ok"
        BY <1>3, <2>2 DEF Preflight
      <3> QED BY <1>3, <2>2, <3>1 DEF Admitted
    <2> QED BY <2>1, <2>2
  <1> QED BY <1>1, <1>2, <1>3

\* The decoder is allowed no more than remains, and enough for what is tiled.
LEMMA PermittedFacts ==
    ASSUME NEW f \in FolderRecords, NEW remaining \in Nat
    PROVE  /\ Permitted(f, remaining) \in Nat /\ Permitted(f, remaining) <= remaining
           /\ Admitted(f) /\ Permitted(f, remaining) < f.actual =>
                  ~Tiled(f) \/ f.actual > remaining
  <1> DEFINE sum == KnownSum(f, Last(f)) + IF UnknownFinal(f) THEN MaxEntryOutput ELSE 0
  <1>1. /\ Last(f) \in Nat /\ Last(f) \in 0..Last(f) /\ f.actual \in Nat /\ f.root >= -1
        /\ f.root # Unknown => f.actual = f.root
    BY FolderFacts
  <1>2. KnownSum(f, Last(f)) \in Nat /\ sum \in Nat
    BY <1>1, KnownSumFacts, LimitsAssumption
  <1>3. Permitted(f, remaining) = IF Last(f) = 0 \/ remaining < sum THEN remaining ELSE sum
    BY DEF Permitted
  <1>4. Permitted(f, remaining) \in Nat /\ Permitted(f, remaining) <= remaining
    <2> HIDE DEF sum
    <2> QED BY <1>2, <1>3
  <1>5. ASSUME Admitted(f), Permitted(f, remaining) < f.actual, Tiled(f), ~(f.actual > remaining)
        PROVE  FALSE
    <2>1. Last(f) # 0 /\ sum < f.actual
      <3> HIDE DEF sum
      <3> QED BY <1>1, <1>2, <1>3, <1>5
    <2>2. CASE UnknownFinal(f)
      <3>1. Last(f) \in 1..Last(f) /\ SizeOf(f, Last(f)) = Unknown
        BY <1>1, <2>1, <2>2 DEF UnknownFinal
      <3>2. /\ LastByte(f, Last(f)) = f.actual
            /\ KnownSum(f, Last(f)) = FirstByte(f, Last(f))
        BY <3>1, ByteFacts
      <3>3. LastByte(f, Last(f)) - FirstByte(f, Last(f)) \in 0..MaxEntryOutput
        BY <1>5, <3>1 DEF Tiled
      <3> QED BY <1>1, <1>2, <2>1, <2>2, <3>2, <3>3, LimitsAssumption
    <2>3. CASE ~UnknownFinal(f)
      <3>1. f.root = KnownSum(f, Last(f))
        BY <1>1, <1>5, <2>1, <2>3 DEF Admitted
      <3>2. f.actual = KnownSum(f, Last(f))
        BY <1>1, <1>2, <3>1 DEF Unknown
      <3> QED BY <1>2, <2>1, <2>3, <3>2
    <2> QED BY <2>2, <2>3
  <1> QED BY <1>4, <1>5

\* In an admitted folder the members follow each other and fill it.
LEMMA AdmittedFacts ==
    ASSUME NEW f \in FolderRecords, Admitted(f)
    PROVE  /\ \A s \in 1..Last(f) : SizeOf(f, s) = Unknown => s = Last(f)
           /\ \A s \in 1..Last(f) : SizeOf(f, s) <= MaxEntryOutput
           /\ \A s \in 1..Last(f) : s < Last(f) => FirstByte(f, s + 1) = LastByte(f, s)
           /\ Last(f) > 0 => LastByte(f, Last(f)) = f.actual
           /\ Last(f) > 0 => UnknownFinal(f) \/ f.root # Unknown
  <1>1. /\ Last(f) \in Nat /\ f.actual \in Nat /\ f.root >= -1 /\ f.root \in Int
        /\ f.root # Unknown => f.actual = f.root
        /\ \A s \in 1..Last(f) : SizeOf(f, s) \in Nat \cup {Unknown}
        /\ MaxEntryOutput \in Nat
    BY FolderFacts, LimitsAssumption
  <1>2. \A s \in 1..Last(f) : /\ SizeOf(f, s) <= MaxEntryOutput
                              /\ SizeOf(f, s) = Unknown => s = Last(f)
    <2> TAKE s \in 1..Last(f)
    <2>1. ~(SizeOf(f, s) > MaxEntryOutput) /\ ~(SizeOf(f, s) = Unknown /\ s < Last(f))
      BY DEF Admitted, Refused
    <2> QED BY <1>1, <2>1 DEF Unknown
  <1>3. ASSUME NEW s \in 1..Last(f), s < Last(f) PROVE FirstByte(f, s + 1) = LastByte(f, s)
    <2>1. SizeOf(f, s) # Unknown
      BY <1>1, <1>2, <1>3
    <2>2. LastByte(f, s) = KnownSum(f, s)
      BY <2>1, ByteFacts
    <2>3. s + 1 \in 1..Last(f) /\ s + 1 - 1 = s
      BY <1>1, <1>3
    <2>4. FirstByte(f, s + 1) = KnownSum(f, s + 1 - 1)
      BY <2>3, ByteFacts
    <2> QED BY <2>2, <2>3, <2>4
  <1>4. ASSUME Last(f) > 0
        PROVE  LastByte(f, Last(f)) = f.actual /\ (UnknownFinal(f) \/ f.root # Unknown)
    <2>1. Last(f) \in 1..Last(f)
      BY <1>1, <1>4
    <2>2. CASE UnknownFinal(f)
      BY <2>1, <2>2, ByteFacts DEF UnknownFinal
    <2>3. CASE ~UnknownFinal(f)
      <3>1. f.root = KnownSum(f, Last(f)) /\ SizeOf(f, Last(f)) # Unknown
        BY <1>4, <2>3 DEF Admitted, UnknownFinal
      <3>2. KnownSum(f, Last(f)) \in Nat
        BY <1>1, KnownSumFacts
      <3> QED BY <1>1, <2>1, <3>1, <3>2, ByteFacts DEF Unknown
    <2> QED BY <2>2, <2>3
  <1> QED BY <1>2, <1>3, <1>4

\* A member that ends beyond its folder, or is too long, is not tiled.
LEMMA OverrunIsNotTiled ==
    ASSUME NEW f \in FolderRecords, Admitted(f), NEW s \in 1..Last(f),
           \/ LastByte(f, s) > f.actual
           \/ LastByte(f, s) - FirstByte(f, s) > MaxEntryOutput
           \/ LastByte(f, s) < FirstByte(f, s)
    PROVE  ~Tiled(f)
  <1>1. SUFFICES ASSUME Tiled(f) PROVE FALSE
    OBVIOUS
  <1>2. /\ Last(f) \in Nat /\ f.actual \in Nat /\ MaxEntryOutput \in Nat
        /\ FirstByte(f, s) \in Nat /\ LastByte(f, s) \in Nat
    BY FolderFacts, LimitsAssumption, ByteFacts
  <1>3. LastByte(f, s) - FirstByte(f, s) \in 0..MaxEntryOutput
    BY <1>1 DEF Tiled
  <1>4. LastByte(f, s) > f.actual
    BY <1>2, <1>3
  <1>5. SizeOf(f, s) # Unknown
    BY <1>2, <1>4, ByteFacts
  <1>6. LastByte(f, s) = KnownSum(f, s)
    BY <1>5, ByteFacts
  <1>7. Last(f) \in 1..Last(f) /\ Last(f) \in 0..Last(f) /\ Last(f) > 0
    BY <1>2
  <1>8. LastByte(f, Last(f)) = f.actual /\ LastByte(f, Last(f)) - FirstByte(f, Last(f)) \in 0..MaxEntryOutput
    BY <1>1, <1>7 DEF Tiled
  <1>9. s # Last(f)
    BY <1>2, <1>4, <1>8
  <1>10. s \in 0..Last(f) /\ Last(f) - 1 \in s..Last(f)
    BY <1>2, <1>9
  <1>11. KnownSum(f, s) <= KnownSum(f, Last(f) - 1)
    BY <1>10, KnownSumFacts
  <1>12. FirstByte(f, Last(f)) = KnownSum(f, Last(f) - 1) /\ FirstByte(f, Last(f)) \in Nat
    BY <1>7, ByteFacts
  <1> QED BY <1>2, <1>4, <1>6, <1>8, <1>11, <1>12

\* A folder whose every substream could be delivered is tiled by them.
LEMMA DeliveredIsTiled ==
    ASSUME NEW f \in FolderRecords, Admitted(f),
           \A s \in 1..Last(f) : LastByte(f, s) - FirstByte(f, s) \in 0..MaxEntryOutput
    PROVE  Tiled(f)
  BY AdmittedFacts DEF Tiled

-----------------------------------------------------------------------------
(***************************************************************************)
(* What several folders decode to, together.                               *)
(***************************************************************************)
Actuals(folders, S) == [n \in 1..Len(folders) |-> IF n \in S THEN folders[n].actual ELSE 0]

SumsActual(folders, S, g) ==
    g = [n \in 0..Len(folders) |-> IF n = 0 THEN 0
                                   ELSE g[n - 1] + IF n \in S THEN folders[n].actual ELSE 0]

\* The sizes counted for a set of folders, as a function.
LEMMA ActualsFacts ==
    ASSUME NEW folders \in Seq(FolderRecords), NEW S
    PROVE  /\ Len(folders) \in Nat /\ DOMAIN folders = 1..Len(folders)
           /\ \A n \in 1..Len(folders) : folders[n] \in FolderRecords /\ folders[n].actual \in Nat
           /\ Actuals(folders, S) \in [1..Len(folders) -> Nat]
           /\ Actuals(folders, S) \in [1..Len(folders) -> Int]
  <1>1. Len(folders) \in Nat /\ DOMAIN folders = 1..Len(folders)
    BY LenProperties
  <1>2. \A n \in 1..Len(folders) : folders[n] \in FolderRecords
    BY ElementOfSeq
  <1>3. \A n \in 1..Len(folders) : folders[n].actual \in Nat
    BY <1>2, FolderFacts
  <1> QED BY <1>1, <1>2, <1>3 DEF Actuals

\* The output of a set of folders is a total of naturals.
LEMMA OutputIsTotal ==
    ASSUME NEW folders \in Seq(FolderRecords), NEW S
    PROVE  OutputOf(folders, S) = Total(Actuals(folders, S), Len(folders))
  <1> DEFINE k == Len(folders)
             v == Actuals(folders, S)
  <1>1. k \in Nat /\ v \in [1..k -> Int] /\ k \in 0..k
    BY ActualsFacts
  <1>2. ASSUME NEW g PROVE SumsActual(folders, S, g) <=> PartialSums(v, k, g)
    <2>1. \A n \in 0..k : n # 0 => n \in 1..k
      BY <1>1
    <2>2. \A n \in 1..k : v[n] = IF n \in S THEN folders[n].actual ELSE 0
      BY DEF Actuals
    <2>3. [n \in 0..k |-> IF n = 0 THEN 0 ELSE g[n - 1] + IF n \in S THEN folders[n].actual ELSE 0]
            = [n \in 0..k |-> IF n = 0 THEN 0 ELSE g[n - 1] + v[n]]
      <3> HIDE DEF k, v
      <3> QED BY <2>1, <2>2
    <2> QED BY <2>3 DEF SumsActual, PartialSums
  <1> DEFINE s == CHOOSE g : SumsActual(folders, S, g)
             t == CHOOSE g : PartialSums(v, k, g)
  <1>3. OutputOf(folders, S) = s[k] /\ Total(v, k) = t[k]
    BY DEF OutputOf, SumsActual, Total
  <1> HIDE DEF k, v
  <1>4. PICK h \in [0..k -> Int] : PartialSums(v, k, h)
    BY <1>1, PartialSumsExist
  <1>5. SumsActual(folders, S, h)
    BY <1>2, <1>4
  <1>6. PartialSums(v, k, t)
    <2> HIDE DEF PartialSums
    <2> QED BY <1>4
  <1>7. SumsActual(folders, S, s)
    <2> HIDE DEF SumsActual
    <2> QED BY <1>5
  <1> HIDE DEF s, t
  <1>8. PartialSums(v, k, s)
    BY <1>2, <1>7
  <1>9. s[k] = t[k]
    BY <1>1, <1>6, <1>8, PartialSumsUnique
  <1> QED BY <1>3, <1>9 DEF k, v

\* No folders, no output.
LEMMA NoOutput ==
    ASSUME NEW folders \in Seq(FolderRecords)
    PROVE  OutputOf(folders, {}) = 0
  <1> DEFINE k == Len(folders)
             v == Actuals(folders, {})
             Bad == {n \in 0..k : Total(v, n) # 0}
  <1>1. k \in Nat /\ v \in [1..k -> Int] /\ k \in 0..k /\ \A n \in 1..k : v[n] = 0
    BY ActualsFacts DEF Actuals
  <1>2. OutputOf(folders, {}) = Total(v, k)
    BY OutputIsTotal
  <1> HIDE DEF k, v
  <1>3. /\ Total(v, 0) = 0 /\ \A n \in 0..k : Total(v, n) \in Int
        /\ \A n \in 1..k : Total(v, n) = Total(v, n - 1) + v[n]
    BY <1>1, TotalFacts
  <1>4. SUFFICES ASSUME Bad # {} PROVE FALSE
    BY <1>1, <1>2
  <1>5. PICK b \in Bad : \A m \in Bad : b <= m
    <2>1. Bad \in SUBSET Nat
      BY <1>1
    <2> HIDE DEF Bad
    <2> QED BY <2>1, <1>4, LeastNatural
  <1>6. b \in 1..k /\ b - 1 \in 0..k /\ b - 1 \notin Bad
    BY <1>1, <1>3, <1>5
  <1> QED BY <1>1, <1>3, <1>5, <1>6

\* One folder more adds its own output.
LEMMA OutputFacts ==
    ASSUME NEW folders \in Seq(FolderRecords), NEW S
    PROVE  /\ OutputOf(folders, S) \in Nat
           /\ \A g \in 1..Len(folders) : g \notin S =>
                  OutputOf(folders, S \cup {g}) = OutputOf(folders, S) + folders[g].actual
  <1> DEFINE k == Len(folders)
             v(T) == Actuals(folders, T)
  <1>1. k \in Nat /\ \A n \in 1..k : folders[n].actual \in Nat
    BY ActualsFacts
  <1>2. \A T : v(T) \in [1..k -> Nat] /\ v(T) \in [1..k -> Int]
    BY ActualsFacts
  <1>3. \A T : OutputOf(folders, T) = Total(v(T), k)
    BY OutputIsTotal
  <1>4. \A T : \A n \in 1..k : v(T)[n] = IF n \in T THEN folders[n].actual ELSE 0
    BY DEF Actuals
  <1> HIDE DEF k, v
  <1>5. OutputOf(folders, S) \in Nat
    <2>1. Total(v(S), 0) = 0 /\ Total(v(S), k) \in Int
      BY <1>1, <1>2, TotalFacts
    <2>2. Total(v(S), 0) <= Total(v(S), k)
      <3>1. 0 \in 0..k /\ k \in 0..k
        BY <1>1
      <3> QED BY <1>1, <1>2, <3>1, TotalsGrow
    <2> QED BY <1>3, <2>1, <2>2
  <1>6. ASSUME NEW g \in 1..k, g \notin S
        PROVE  OutputOf(folders, S \cup {g}) = OutputOf(folders, S) + folders[g].actual
    <2>1. \A m \in 1..k : m # g => v(S \cup {g})[m] = v(S)[m]
      BY <1>4
    <2>2. v(S \cup {g})[g] = folders[g].actual /\ v(S)[g] = 0
      BY <1>4, <1>6
    <2>3. Total(v(S \cup {g}), k) = Total(v(S), k) + v(S \cup {g})[g] - v(S)[g]
      BY <1>1, <1>2, <2>1, TotalChanged
    <2> QED BY <1>1, <1>3, <1>5, <2>2, <2>3
  <1> QED BY <1>5, <1>6 DEF k

\* More folders, no less output.
LEMMA OutputGrows ==
    ASSUME NEW folders \in Seq(FolderRecords), NEW S, NEW T, S \subseteq T
    PROVE  OutputOf(folders, S) <= OutputOf(folders, T)
  <1> DEFINE k == Len(folders)
             v(U) == Actuals(folders, U)
  <1>1. k \in Nat /\ k \in 0..k /\ \A n \in 1..k : folders[n].actual \in Nat
    BY ActualsFacts
  <1>2. \A U : v(U) \in [1..k -> Int]
    BY ActualsFacts
  <1>3. \A U : OutputOf(folders, U) = Total(v(U), k)
    BY OutputIsTotal
  <1>4. \A U : \A n \in 1..k : v(U)[n] = IF n \in U THEN folders[n].actual ELSE 0
    BY DEF Actuals
  <1> HIDE DEF k, v
  <1>5. \A m \in 1..k : v(S)[m] <= v(T)[m]
    BY <1>1, <1>4
  <1>6. Total(v(S), k) <= Total(v(T), k)
    BY <1>1, <1>2, <1>5, TotalsCompare
  <1> QED BY <1>3, <1>6

-----------------------------------------------------------------------------
(***************************************************************************)
(* The mapping of the streamed entries to the folders' substreams.         *)
(***************************************************************************)
LEMMA ArchiveFacts ==
    ASSUME NEW a, IsArchive(a)
    PROVE  /\ Len(a.entries) \in Nat /\ DOMAIN a.entries = 1..Len(a.entries)
           /\ Len(a.folders) \in Nat /\ DOMAIN a.folders = 1..Len(a.folders)
           /\ Len(a.additional) \in Nat /\ DOMAIN a.additional = 1..Len(a.additional)
           /\ \A f \in 1..Len(a.folders) : a.folders[f] \in FolderRecords
           /\ \A f \in 1..Len(a.additional) : a.additional[f] \in FolderRecords
           /\ \A e \in 1..Len(a.entries) :
                  /\ a.entries[e].kind \in {"file", "empty", "anti", "directory"}
                  /\ a.entries[e].kind = "file" <=> e \in Streamed(a)
  <1>1. /\ a.folders \in Seq(FolderRecords) /\ a.additional \in Seq(FolderRecords)
        /\ a.entries \in Seq([kind : {"file", "empty", "anti", "directory"}, folder : Nat, substream : Nat])
    BY DEF IsArchive
  <1>2. /\ Len(a.entries) \in Nat /\ DOMAIN a.entries = 1..Len(a.entries)
        /\ Len(a.folders) \in Nat /\ DOMAIN a.folders = 1..Len(a.folders)
        /\ Len(a.additional) \in Nat /\ DOMAIN a.additional = 1..Len(a.additional)
    BY <1>1, LenProperties
  <1>3. /\ \A f \in 1..Len(a.folders) : a.folders[f] \in FolderRecords
        /\ \A f \in 1..Len(a.additional) : a.additional[f] \in FolderRecords
    BY <1>1, ElementOfSeq
  <1>4. \A e \in 1..Len(a.entries) :
            a.entries[e] \in [kind : {"file", "empty", "anti", "directory"}, folder : Nat, substream : Nat]
    BY <1>1, ElementOfSeq
  <1> QED BY <1>2, <1>3, <1>4 DEF Streamed

\* Entries with a stream name a folder and a substream that exist, in order.
LEMMA MappingFacts ==
    ASSUME NEW a, IsArchive(a)
    PROVE  /\ \A e \in Streamed(a) :
                  /\ e \in 1..Len(a.entries)
                  /\ a.entries[e].folder \in 1..Len(a.folders)
                  /\ a.entries[e].substream \in 1..Last(a.folders[a.entries[e].folder])
                  /\ a.entries[e].folder \in Nat /\ a.entries[e].substream \in Nat
           /\ \A f \in 1..Len(a.folders) : \A s \in 1..Last(a.folders[f]) :
                  \E e \in Streamed(a) : a.entries[e].folder = f /\ a.entries[e].substream = s
           /\ \A d, e \in Streamed(a) : d < e =>
                  \/ a.entries[d].folder < a.entries[e].folder
                  \/ /\ a.entries[d].folder = a.entries[e].folder
                     /\ a.entries[d].substream < a.entries[e].substream
  <1>1. /\ {SlotOf(a, e) : e \in Streamed(a)} = Slots(a)
        /\ \A d, e \in Streamed(a) : d < e => SlotBefore(SlotOf(a, d), SlotOf(a, e))
    BY DEF IsArchive, MappedInOrder
  <1>2. /\ DOMAIN a.entries = 1..Len(a.entries) /\ DOMAIN a.folders = 1..Len(a.folders)
        /\ Len(a.folders) \in Nat
        /\ \A f \in 1..Len(a.folders) : a.folders[f] \in FolderRecords
    BY ArchiveFacts
  <1>3. \A f \in 1..Len(a.folders) : /\ DOMAIN a.folders[f].substreams = 1..Last(a.folders[f])
                                     /\ Last(a.folders[f]) \in Nat
    BY <1>2, FolderFacts
  <1>4. \A x : x \in Slots(a) <=> \E f \in 1..Len(a.folders) : \E s \in 1..Last(a.folders[f]) : x = <<f, s>>
    BY <1>2, <1>3 DEF Slots
  <1>5. ASSUME NEW e \in Streamed(a)
        PROVE  /\ e \in 1..Len(a.entries)
               /\ a.entries[e].folder \in 1..Len(a.folders)
               /\ a.entries[e].substream \in 1..Last(a.folders[a.entries[e].folder])
               /\ a.entries[e].folder \in Nat /\ a.entries[e].substream \in Nat
    <2>1. e \in 1..Len(a.entries)
      BY <1>2 DEF Streamed
    <2>2. SlotOf(a, e) \in Slots(a)
      BY <1>1
    <2>3. PICK f \in 1..Len(a.folders) : \E s \in 1..Last(a.folders[f]) : SlotOf(a, e) = <<f, s>>
      BY <1>4, <2>2
    <2>4. PICK s \in 1..Last(a.folders[f]) : SlotOf(a, e) = <<f, s>>
      BY <2>3
    <2>5. a.entries[e].folder = f /\ a.entries[e].substream = s
      BY <2>4 DEF SlotOf
    <2> QED BY <1>2, <1>3, <2>1, <2>4, <2>5
  <1>6. ASSUME NEW f \in 1..Len(a.folders), NEW s \in 1..Last(a.folders[f])
        PROVE  \E e \in Streamed(a) : a.entries[e].folder = f /\ a.entries[e].substream = s
    <2>1. <<f, s>> \in Slots(a)
      BY <1>4
    <2>2. PICK e \in Streamed(a) : SlotOf(a, e) = <<f, s>>
      BY <1>1, <2>1
    <2> QED BY <2>2 DEF SlotOf
  <1>7. ASSUME NEW d \in Streamed(a), NEW e \in Streamed(a), d < e
        PROVE  \/ a.entries[d].folder < a.entries[e].folder
               \/ /\ a.entries[d].folder = a.entries[e].folder
                  /\ a.entries[d].substream < a.entries[e].substream
    <2>1. SlotBefore(SlotOf(a, d), SlotOf(a, e))
      BY <1>1, <1>7
    <2> QED BY <2>1 DEF SlotBefore, SlotOf
  <1> QED BY <1>5, <1>6, <1>7

(***************************************************************************)
(* A pass over the streamed entries is before entry e with n substreams of *)
(* folder c behind it (0 when no folder was entered).                      *)
(***************************************************************************)
Behind(a, d, c, n) ==
    \/ a.entries[d].folder < c
    \/ a.entries[d].folder = c /\ a.entries[d].substream <= n

Placed(a, e, c, n) ==
    /\ c \in 0..Len(a.folders) /\ n \in Nat
    /\ IF c = 0 THEN n = 0 ELSE n <= Last(a.folders[c])
    /\ \A d \in Streamed(a) : d < e <=> Behind(a, d, c, n)

\* The substream of an entry that is not behind comes at the entry or later.
LEMMA NotBehind ==
    ASSUME NEW a, IsArchive(a), NEW e \in Nat, NEW c, NEW n, Placed(a, e, c, n),
           NEW f \in 1..Len(a.folders), NEW s \in 1..Last(a.folders[f]),
           f > c \/ (f = c /\ s > n)
    PROVE  \E d \in Streamed(a) : /\ d \in Nat /\ d >= e
                                  /\ a.entries[d].folder = f /\ a.entries[d].substream = s
  <1>1. PICK d \in Streamed(a) : a.entries[d].folder = f /\ a.entries[d].substream = s
    BY MappingFacts
  <1>2. d \in Nat
    BY MappingFacts, ArchiveFacts
  <1>3. f \in Int /\ s \in Int /\ c \in Int /\ n \in Int
    <2>1. Len(a.folders) \in Nat /\ Last(a.folders[f]) \in Nat
      BY ArchiveFacts, FolderFacts
    <2> QED BY <2>1 DEF Placed
  <1>4. ~Behind(a, d, c, n)
    BY <1>1, <1>3 DEF Behind
  <1>5. ~(d < e)
    BY <1>4 DEF Placed
  <1> QED BY <1>1, <1>2, <1>5

\* The next entry of the same folder has the next substream.
LEMMA NextInFolder ==
    ASSUME NEW a, IsArchive(a), NEW e \in Streamed(a), NEW c, NEW n, Placed(a, e, c, n),
           a.entries[e].folder = c
    PROVE  a.entries[e].substream = n + 1
  <1>1. /\ c \in 1..Len(a.folders) /\ a.entries[e].substream \in 1..Last(a.folders[c])
        /\ e \in Nat /\ n \in Nat /\ Last(a.folders[c]) \in Nat /\ Len(a.folders) \in Nat
    <2>1. c \in 1..Len(a.folders) /\ a.entries[e].substream \in 1..Last(a.folders[c]) /\ n \in Nat
      BY MappingFacts DEF Placed
    <2>2. a.folders[c] \in FolderRecords /\ Len(a.folders) \in Nat /\ Len(a.entries) \in Nat
      BY <2>1, ArchiveFacts
    <2>3. e \in Nat
      BY <2>2, MappingFacts
    <2> QED BY <2>1, <2>2, <2>3, FolderFacts
  <1>2. ~Behind(a, e, c, n)
    BY <1>1 DEF Placed
  <1>3. a.entries[e].substream > n
    BY <1>1, <1>2 DEF Behind
  <1>4. n + 1 \in 1..Last(a.folders[c]) /\ n + 1 > n
    BY <1>1, <1>3
  <1>5. PICK d \in Streamed(a) : /\ d \in Nat /\ d >= e
                                 /\ a.entries[d].folder = c /\ a.entries[d].substream = n + 1
    BY <1>1, <1>4, NotBehind
  <1>6. ~(e < d)
    <2>1. e < d => \/ a.entries[e].folder < a.entries[d].folder
                   \/ a.entries[e].substream < a.entries[d].substream
      BY MappingFacts
    <2> QED BY <1>1, <1>3, <1>5, <2>1
  <1>7. d = e
    BY <1>1, <1>5, <1>6
  <1> QED BY <1>5, <1>7

\* An entry of another folder comes after all substreams of those before.
LEMMA NextFolder ==
    ASSUME NEW a, IsArchive(a), NEW e \in Streamed(a), NEW c, NEW n, Placed(a, e, c, n),
           a.entries[e].folder # c
    PROVE  /\ a.entries[e].folder > c
           /\ c # 0 => n = Last(a.folders[c])
           /\ \A h \in (c + 1)..(a.entries[e].folder - 1) : Last(a.folders[h]) = 0
           /\ Last(a.folders[a.entries[e].folder]) > 0
           /\ Placed(a, e, a.entries[e].folder, 0)
  <1> DEFINE g == a.entries[e].folder
  <1>1. /\ g \in 1..Len(a.folders) /\ a.entries[e].substream \in 1..Last(a.folders[g])
        /\ e \in Nat /\ n \in Nat /\ c \in 0..Len(a.folders) /\ Len(a.folders) \in Nat
        /\ Last(a.folders[g]) \in Nat
        /\ \A h \in 1..Len(a.folders) : Last(a.folders[h]) \in Nat
    <2>1. /\ g \in 1..Len(a.folders) /\ a.entries[e].substream \in 1..Last(a.folders[g]) /\ n \in Nat
          /\ c \in 0..Len(a.folders)
      BY MappingFacts DEF Placed
    <2>2. Len(a.folders) \in Nat /\ Len(a.entries) \in Nat
          /\ \A h \in 1..Len(a.folders) : a.folders[h] \in FolderRecords
      BY <2>1, ArchiveFacts
    <2>3. e \in Nat
      BY <2>2, MappingFacts
    <2> QED BY <2>1, <2>2, <2>3, FolderFacts
  <1>2. ~Behind(a, e, c, n)
    BY <1>1 DEF Placed
  <1>3. g > c
    BY <1>1, <1>2 DEF Behind
  <1>4. \A d \in Streamed(a) : d \in Nat /\ (e < d => a.entries[d].folder >= g)
    <2> TAKE d \in Streamed(a)
    <2>1. d \in Nat /\ a.entries[d].folder \in Nat
      BY MappingFacts, ArchiveFacts
    <2>2. e < d => g < a.entries[d].folder \/ g = a.entries[d].folder
      BY MappingFacts
    <2>3. g \in Nat
      BY <1>1
    <2> HIDE DEF g
    <2> QED BY <2>1, <2>2, <2>3
  <1>5. ASSUME NEW f \in 1..Len(a.folders), NEW s \in 1..Last(a.folders[f]),
               f > c \/ (f = c /\ s > n)
        PROVE  f >= g
    <2>1. PICK d \in Streamed(a) : /\ d \in Nat /\ d >= e
                                   /\ a.entries[d].folder = f /\ a.entries[d].substream = s
      <3> HIDE DEF g
      <3>1. e \in Nat
        BY <1>1
      <3> QED BY <1>5, <3>1, NotBehind
    <2>2. CASE d = e
      BY <1>1, <2>1, <2>2
    <2>3. CASE d > e
      BY <1>4, <2>1, <2>3
    <2> QED BY <1>1, <2>1, <2>2, <2>3
  <1>6. ASSUME c # 0 PROVE n = Last(a.folders[c])
    <2>1. SUFFICES ASSUME n # Last(a.folders[c]) PROVE FALSE
      OBVIOUS
    <2>2. c \in 1..Len(a.folders) /\ n + 1 \in 1..Last(a.folders[c]) /\ n + 1 > n
      BY <1>1, <1>6, <2>1 DEF Placed
    <2>3. c >= g
      BY <1>5, <2>2
    <2> QED BY <1>1, <1>3, <2>3
  <1>7. ASSUME NEW h \in (c + 1)..(g - 1) PROVE Last(a.folders[h]) = 0
    <2>1. h \in 1..Len(a.folders) /\ h > c /\ ~(h >= g)
      BY <1>1
    <2>2. 1 \notin 1..Last(a.folders[h])
      BY <1>5, <2>1
    <2> QED BY <1>1, <2>1, <2>2
  <1>8. Placed(a, e, g, 0)
    <2>1. SUFFICES ASSUME NEW d \in Streamed(a) PROVE d < e <=> Behind(a, d, g, 0)
      BY <1>1 DEF Placed
    <2>2. /\ d \in Nat /\ a.entries[d].folder \in Nat /\ a.entries[d].substream \in Nat
          /\ a.entries[d].substream >= 1
      <3>1. /\ a.entries[d].folder \in 1..Len(a.folders)
            /\ a.entries[d].substream \in 1..Last(a.folders[a.entries[d].folder])
        BY MappingFacts
      <3>2. d \in Nat
        BY <1>4
      <3>3. Len(a.folders) \in Nat /\ Last(a.folders[a.entries[d].folder]) \in Nat
        BY <1>1, <3>1
      <3> QED BY <3>1, <3>2, <3>3
    <2>3. ASSUME d < e PROVE Behind(a, d, g, 0)
      <3>1. Behind(a, d, c, n)
        BY <2>3 DEF Placed
      <3> QED BY <1>1, <1>3, <2>2, <3>1 DEF Behind
    <2>4. ASSUME Behind(a, d, g, 0) PROVE d < e
      <3>1. a.entries[d].folder < g
        BY <2>2, <2>4 DEF Behind
      <3>2. ~(e < d)
        <4>1. e < d => a.entries[d].folder >= g
          BY <1>4
        <4>2. g \in Nat
          BY <1>1
        <4> HIDE DEF g
        <4> QED BY <2>2, <3>1, <4>1, <4>2
      <3>3. d # e
        BY <1>1, <3>1
      <3>4. e \in Nat
        BY <1>1
      <3> QED BY <2>2, <3>2, <3>3, <3>4
    <2> QED BY <2>3, <2>4
  <1> QED BY <1>1, <1>3, <1>6, <1>7, <1>8

\* Past the last entry every substream is behind.
LEMMA AllBehind ==
    ASSUME NEW a, IsArchive(a), NEW e \in Nat, NEW c, NEW n, Placed(a, e, c, n),
           \A d \in Streamed(a) : d < e
    PROVE  /\ c # 0 => n = Last(a.folders[c])
           /\ \A h \in (c + 1)..Len(a.folders) : Last(a.folders[h]) = 0
  <1>1. /\ n \in Nat /\ c \in 0..Len(a.folders) /\ Len(a.folders) \in Nat
        /\ \A h \in 1..Len(a.folders) : Last(a.folders[h]) \in Nat
    BY ArchiveFacts, FolderFacts DEF Placed
  <1>2. ASSUME NEW f \in 1..Len(a.folders), NEW s \in 1..Last(a.folders[f]),
               f > c \/ (f = c /\ s > n)
        PROVE  FALSE
    <2>1. PICK d \in Streamed(a) : d \in Nat /\ d >= e
      BY <1>1, <1>2, NotBehind
    <2> QED BY <2>1
  <1>3. ASSUME c # 0 PROVE n = Last(a.folders[c])
    <2>1. SUFFICES ASSUME n # Last(a.folders[c]) PROVE FALSE
      OBVIOUS
    <2>2. c \in 1..Len(a.folders) /\ n + 1 \in 1..Last(a.folders[c]) /\ n + 1 > n
      BY <1>1, <1>3, <2>1 DEF Placed
    <2> QED BY <1>2, <2>2
  <1>4. ASSUME NEW h \in (c + 1)..Len(a.folders) PROVE Last(a.folders[h]) = 0
    <2>1. h \in 1..Len(a.folders) /\ h > c
      BY <1>1
    <2>2. 1 \notin 1..Last(a.folders[h])
      BY <1>2, <2>1
    <2> QED BY <1>1, <2>1, <2>2
  <1> QED BY <1>3, <1>4

\* Stepping over an entry: one without a stream, or the next member.
LEMMA StepStreamless ==
    ASSUME NEW a, IsArchive(a), NEW e \in Nat, NEW c, NEW n, Placed(a, e, c, n), e \notin Streamed(a)
    PROVE  Placed(a, e + 1, c, n)
  <1>1. \A d \in Streamed(a) : d \in Nat
    BY MappingFacts, ArchiveFacts
  <1>2. \A d \in Streamed(a) : d < e + 1 <=> d < e
    BY <1>1
  <1> QED BY <1>2 DEF Placed

\* After a member, the mapping continues with the next entry.
LEMMA StepMember ==
    ASSUME NEW a, IsArchive(a), NEW e \in Streamed(a), NEW c, NEW n, Placed(a, e, c, n),
           a.entries[e].folder = c
    PROVE  Placed(a, e + 1, c, n + 1) /\ n + 1 \in 1..Last(a.folders[c]) /\ c \in 1..Len(a.folders)
  <1>1. a.entries[e].substream = n + 1
    BY NextInFolder
  <1>2. /\ c \in 1..Len(a.folders) /\ n + 1 \in 1..Last(a.folders[c]) /\ n \in Nat
        /\ e \in Nat /\ Len(a.folders) \in Nat /\ Last(a.folders[c]) \in Nat
    <2>1. c \in 1..Len(a.folders) /\ n + 1 \in 1..Last(a.folders[c]) /\ n \in Nat
      BY <1>1, MappingFacts DEF Placed
    <2> QED BY <2>1, ArchiveFacts, FolderFacts, MappingFacts
  <1>3. ASSUME NEW d \in Streamed(a) PROVE d < e + 1 <=> Behind(a, d, c, n + 1)
    <2>1. d \in Nat /\ a.entries[d].folder \in Nat /\ a.entries[d].substream \in Nat
      BY MappingFacts, ArchiveFacts
    <2>2. d < e <=> Behind(a, d, c, n)
      BY DEF Placed
    <2>3. Behind(a, d, c, n + 1) <=>
              (Behind(a, d, c, n) \/ (a.entries[d].folder = c /\ a.entries[d].substream = n + 1))
      BY <1>2, <2>1 DEF Behind
    <2>4. a.entries[d].folder = c /\ a.entries[d].substream = n + 1 => d = e
      <3>1. ASSUME NEW x \in Streamed(a), NEW y \in Streamed(a), x < y, SlotOf(a, x) = <<c, n + 1>>,
                   SlotOf(a, y) = <<c, n + 1>>
            PROVE  FALSE
        <4>1. \/ a.entries[x].folder < a.entries[y].folder
              \/ /\ a.entries[x].folder = a.entries[y].folder
                 /\ a.entries[x].substream < a.entries[y].substream
          BY <3>1, MappingFacts
        <4>2. /\ a.entries[x].folder = c /\ a.entries[x].substream = n + 1
              /\ a.entries[y].folder = c /\ a.entries[y].substream = n + 1
          BY <3>1 DEF SlotOf
        <4> QED BY <1>2, <4>1, <4>2
      <3>2. SlotOf(a, e) = <<c, n + 1>>
        BY <1>1 DEF SlotOf
      <3>3. SUFFICES ASSUME a.entries[d].folder = c, a.entries[d].substream = n + 1
                     PROVE  d = e
        OBVIOUS
      <3>4. SlotOf(a, d) = <<c, n + 1>>
        BY <3>3 DEF SlotOf
      <3>5. ~(d < e) /\ ~(e < d)
        BY <3>1, <3>2, <3>4
      <3> QED BY <1>2, <2>1, <3>5
    <2>5. d = e => a.entries[d].folder = c /\ a.entries[d].substream = n + 1
      BY <1>1
    <2>6. d < e + 1 <=> d < e \/ d = e
      BY <1>2, <2>1
    <2> QED BY <2>2, <2>3, <2>4, <2>5, <2>6
  <1>4. c \in 0..Len(a.folders) /\ n + 1 \in Nat /\ (IF c = 0 THEN n + 1 = 0 ELSE n + 1 <= Last(a.folders[c]))
    BY <1>2
  <1> QED BY <1>2, <1>3, <1>4 DEF Placed
=============================================================================
