----------------------- MODULE FolderExecutionProofs -----------------------
(***************************************************************************)
(* Proofs about decode_folder, for every set of raw folders and supported  *)
(* arities: the verdict of the validator is the reference's, its schedule  *)
(* is topological, and the executor, running an accepted folder along that *)
(* schedule, never meets one of its internal errors and routes every       *)
(* stream where the folder binds it.                                       *)
(***************************************************************************)
EXTENDS FolderExecution, WellFoundedInduction, FiniteSetTheorems, SequenceTheorems, TLAPS

\* A set of naturals that is not empty has a least element.
LEMMA LeastNatural ==
    ASSUME NEW S \in SUBSET Nat, S # {}
    PROVE  \E n \in S : \A m \in S : n <= m
  <1> DEFINE R == OpToRel(<, Nat)
  <1>1. IsWellFoundedOn(R, Nat)
    BY NatLessThanWellFounded
  <1>2. \E n \in S : \A m \in S : ~(<<m, n>> \in R)
    <2> HIDE DEF R
    <2> QED BY <1>1, WFMin
  <1>3. \A m, n \in Nat : ~(<<m, n>> \in R) => n <= m
    BY DEF OpToRel
  <1> QED BY <1>2, <1>3

(***************************************************************************)
(* First validate_folder_graph: the port checks decide the reference's     *)
(* connectedness, Kahn's algorithm accepts exactly the acyclic graphs, its *)
(* schedule is topological and its degrees never underflow.                *)
(***************************************************************************)

PortsValid == BindPairsValid /\ (\E o \in Outputs : IsRoot(o)) /\ PackedValid

InReady(c) == \E m \in 1..Len(ready) : ready[m] = c

\* The inner loop is past edge k: its source was dequeued, and if it is the coder
\* being scanned the loop index is beyond k.
Scanned(k) == \E m \in 1..cursor : /\ ready[m] = Source(k)
                                   /\ phase = "scan" /\ m = cursor => k < index

Waiting(c) == {k \in Pairs : Destination(k) = c /\ ~Scanned(k)}

Typed ==
    /\ raw \in RawFolders
    /\ phase \in {"ports", "seed", "drain", "scan", "valid", "done"}
    /\ phase # "done" => result = "none"
    /\ indegree \in [Coders -> Nat] /\ ready \in Seq(Coders)
    /\ cursor \in 0..Len(ready) /\ index \in Nat

\* Each degree counts the edges into its coder that are still to be scanned.
DegreesCount == \A c \in Coders : indegree[c] = Cardinality(Waiting(c))

Distinct == \A m, n \in 1..Len(ready) : ready[m] = ready[n] => m = n

\* A coder is queued behind every coder it reads from.
Ordered == \A n \in 1..Len(ready) : \A k \in Pairs :
               Destination(k) = ready[n] => \E m \in 1..(n - 1) : ready[m] = Source(k)

Sorting ==
    /\ PortsValid
    /\ DegreesCount /\ Distinct /\ Ordered
    /\ phase = "seed" => /\ cursor = 0 /\ index <= raw.coders
                         /\ \A c \in Coders : InReady(c) <=> c < index /\ indegree[c] = 0
    /\ phase # "seed" => \A c \in Coders : InReady(c) <=> indegree[c] = 0
    /\ phase = "scan" => cursor >= 1 /\ index \in 1..(Len(raw.bind_pairs) + 1)
    /\ phase = "valid" => cursor = Len(ready) /\ Len(ready) = raw.coders

GInv ==
    /\ Typed
    /\ phase = "ports" => ready = <<>> /\ cursor = 0 /\ index = 0
    /\ phase \in {"seed", "drain", "scan", "valid"} => Sorting
    /\ VerdictIsReference /\ DegreesNeverUnderflow

-----------------------------------------------------------------------------
\* What parse_folder guarantees of the raw folder.
LEMMA RawFacts ==
    ASSUME raw \in RawFolders
    PROVE  /\ raw.coders \in Nat \ {0} /\ raw.inputs \in Nat /\ raw.outputs \in Nat
           /\ raw.input_owners \in [Inputs -> Coders]
           /\ raw.output_owners \in [Outputs -> Coders]
           /\ raw.bind_pairs \in Seq([input : Nat, output : Nat])
           /\ raw.packed_indices \in Seq(Nat)
           /\ Len(raw.bind_pairs) \in Nat /\ Len(raw.bind_pairs) = raw.outputs - 1
           /\ raw.inputs > Len(raw.bind_pairs)
           /\ raw.listed = (raw.inputs - Len(raw.bind_pairs) # 1)
           /\ raw.listed => Len(raw.packed_indices) = raw.inputs - Len(raw.bind_pairs)
           /\ \A k \in Pairs : raw.bind_pairs[k].input \in Nat /\ raw.bind_pairs[k].output \in Nat
  <1>1. IsRawFolder(raw)
    BY RawFoldersAssumption
  <1>2. \A k \in Pairs : raw.bind_pairs[k] \in [input : Nat, output : Nat]
    BY <1>1, ElementOfSeq DEF IsRawFolder, Pairs
  <1> QED BY <1>1, <1>2, LenProperties DEF IsRawFolder, Coders, Inputs, Outputs

\* With the ports in range every edge joins two coders.
LEMMA EdgeFacts ==
    ASSUME raw \in RawFolders,
           \A k \in Pairs : raw.bind_pairs[k].input \in Inputs /\ raw.bind_pairs[k].output \in Outputs
    PROVE  \A k \in Pairs : Source(k) \in Coders /\ Destination(k) \in Coders
  BY RawFacts DEF Source, Destination

\* The first unbound input exists if any input is unbound, and is packed then.
LEMMA PackedFacts ==
    ASSUME raw \in RawFolders, raw.listed \/ Inputs \ BoundInputs # {}
    PROVE  /\ PackedIndices \in Seq(Nat) /\ Len(PackedIndices) \in Nat
           /\ DOMAIN PackedIndices = 1..Len(PackedIndices)
           /\ Len(PackedIndices) = raw.inputs - Len(raw.bind_pairs)
           /\ ~raw.listed => /\ PackedIndices = <<FirstUnbound>>
                             /\ FirstUnbound \in Inputs \ BoundInputs
  <1>1. CASE raw.listed
    BY <1>1, RawFacts, LenProperties DEF PackedIndices
  <1>2. CASE ~raw.listed
    <2>1. Inputs \ BoundInputs \in SUBSET Nat
      BY RawFacts DEF Inputs
    <2>2. \E i \in Inputs \ BoundInputs : \A j \in Inputs \ BoundInputs : i <= j
      BY <2>1, <1>2, LeastNatural
    <2>3. FirstUnbound \in Inputs \ BoundInputs
      BY <2>2 DEF FirstUnbound
    <2>4. PackedIndices = <<FirstUnbound>> /\ FirstUnbound \in Nat
      BY <2>1, <2>3, <1>2 DEF PackedIndices
    <2>5. Len(raw.bind_pairs) \in Nat /\ raw.inputs - Len(raw.bind_pairs) = 1
      BY <1>2, RawFacts
    <2> QED BY <2>3, <2>4, <2>5, <1>2
  <1> QED BY <1>1, <1>2

\* Feeders and consumers are finite, so that one means a single element.
LEMMA FeedersFinite ==
    ASSUME raw \in RawFolders, raw.listed \/ Inputs \ BoundInputs # {}, NEW i
    PROVE  IsFiniteSet(Feeders(i))
  <1>1. Len(PackedIndices) \in Nat /\ DOMAIN PackedIndices = 1..Len(PackedIndices)
    BY PackedFacts
  <1>2. Len(raw.bind_pairs) \in Nat
    BY RawFacts
  <1> DEFINE n == Len(raw.bind_pairs) + Len(PackedIndices)
  <1>3. IsFiniteSet({"pair", "packed"} \X (1..n))
    <2>1. n \in Nat
      BY <1>1, <1>2
    <2>2. IsFiniteSet(1..n)
      BY <2>1, FS_Interval
    <2>3. IsFiniteSet({"pair"} \cup {"packed"})
      BY FS_Singleton, FS_AddElement
    <2>4. {"pair", "packed"} = {"pair"} \cup {"packed"}
      OBVIOUS
    <2> HIDE DEF n
    <2> QED BY <2>2, <2>3, <2>4, FS_Product
  <1>4. Feeders(i) \subseteq {"pair", "packed"} \X (1..n)
    BY <1>1, <1>2 DEF Feeders, Pairs
  <1> HIDE DEF n
  <1> QED BY <1>3, <1>4, FS_Subset

\* A folder has finitely many bind pairs.
LEMMA PairsFinite ==
    ASSUME raw \in RawFolders
    PROVE  IsFiniteSet(Pairs)
  <1>1. Len(raw.bind_pairs) \in Int
    BY RawFacts
  <1> QED BY <1>1, FS_Interval DEF Pairs

\* An output has finitely many consumers.
LEMMA ConsumersFinite ==
    ASSUME raw \in RawFolders, NEW o
    PROVE  IsFiniteSet(Consumers(o))
  BY PairsFinite, FS_Subset DEF Consumers

(***************************************************************************)
(* The port checks of validate_folder_graph, one by one, are together the  *)
(* reference: every input fed once, every output but one consumed once.    *)
(***************************************************************************)
LEMMA ConnectedIsValid ==
    ASSUME raw \in RawFolders, PortsConnected
    PROVE  PortsValid
  <1>1. \A i \in Inputs : \E x : Feeders(i) = {x}
    BY FeedersFinite, FS_Singleton DEF PortsConnected
  <1>2. \A i \in Inputs : \A x, y \in Feeders(i) : x = y
    BY <1>1
  <1>3. BindPairsValid
    <2>1. ASSUME NEW k \in Pairs, NEW j \in Pairs, j # k,
                 raw.bind_pairs[j].input = raw.bind_pairs[k].input
          PROVE  FALSE
      <3>1. <<"pair", j>> \in Feeders(raw.bind_pairs[k].input) /\ <<"pair", k>> \in Feeders(raw.bind_pairs[k].input)
        BY <2>1 DEF Feeders
      <3>2. <<"pair", j>> = <<"pair", k>>
        BY <3>1, <1>2 DEF PortsConnected, PortsInRange
      <3> QED BY <3>2, <2>1
    <2>2. ASSUME NEW k \in Pairs, NEW j \in Pairs, j # k,
                 raw.bind_pairs[j].output = raw.bind_pairs[k].output
          PROVE  FALSE
      <3> DEFINE o == raw.bind_pairs[k].output
      <3>1. j \in Consumers(o) /\ k \in Consumers(o) /\ o \in Outputs
        BY <2>2 DEF Consumers, PortsConnected, PortsInRange
      <3>2. Cardinality(Consumers(o)) \in {0, 1}
        BY <3>1 DEF PortsConnected
      <3>3. \A x, y \in Consumers(o) : x = y
        <4> HIDE DEF o
        <4> QED BY <3>2, ConsumersFinite, FS_EmptySet, FS_Singleton
      <3> QED BY <3>1, <3>3, <2>2
    <2> QED BY <2>1, <2>2 DEF BindPairsValid, PortsConnected, PortsInRange
  <1>4. \E o \in Outputs : IsRoot(o)
    <2>1. PICK root \in Outputs :
              \A o \in Outputs : Cardinality(Consumers(o)) = IF o = root THEN 0 ELSE 1
      BY DEF PortsConnected
    <2>2. Consumers(root) = {}
      BY <2>1, ConsumersFinite, FS_EmptySet
    <2>3. ASSUME NEW o \in Outputs, o # root PROVE \E k \in Pairs : raw.bind_pairs[k].output = o
      <3>1. Cardinality(Consumers(o)) # 0
        BY <2>1, <2>3
      <3>2. Consumers(o) # {}
        BY <3>1, ConsumersFinite, FS_EmptySet
      <3> QED BY <3>2 DEF Consumers
    <2>4. BoundOutputs = Outputs \ {root}
      BY <2>2, <2>3 DEF BoundOutputs, Consumers, PortsConnected, PortsInRange
    <2> QED BY <2>4 DEF IsRoot
  <1>5. PackedValid
    <2>1. raw.listed \/ Inputs \ BoundInputs # {}
      BY DEF PortsConnected
    <2>2. \A j \in DOMAIN PackedIndices : PackedIndices[j] \in Inputs
      <3>1. CASE raw.listed
        BY <3>1 DEF PackedIndices, PortsConnected, PortsInRange
      <3>2. CASE ~raw.listed
        BY <3>2, <2>1, PackedFacts
      <3> QED BY <3>1, <3>2
    <2>3. ASSUME NEW j \in DOMAIN PackedIndices PROVE PackedIndices[j] \notin BoundInputs
      <3>1. SUFFICES ASSUME NEW k \in Pairs, raw.bind_pairs[k].input = PackedIndices[j] PROVE FALSE
        BY DEF BoundInputs
      <3>2. <<"pair", k>> \in Feeders(PackedIndices[j]) /\ <<"packed", j>> \in Feeders(PackedIndices[j])
        BY <3>1 DEF Feeders
      <3>3. <<"pair", k>> = <<"packed", j>>
        BY <3>2, <1>2, <2>2
      <3> QED BY <3>3
    <2>4. ASSUME NEW j \in DOMAIN PackedIndices, NEW m \in DOMAIN PackedIndices,
                 m # j, PackedIndices[m] = PackedIndices[j]
          PROVE  FALSE
      <3>1. <<"packed", m>> \in Feeders(PackedIndices[j]) /\ <<"packed", j>> \in Feeders(PackedIndices[j])
        BY <2>4 DEF Feeders
      <3>2. <<"packed", m>> = <<"packed", j>>
        BY <3>1, <1>2, <2>2
      <3> QED BY <3>2, <2>4
    <2>5. ASSUME NEW i \in Inputs PROVE (i \in BoundInputs) # (i \in PackedInputs)
      <3>1. i \in BoundInputs \/ i \in PackedInputs
        BY <1>1 DEF Feeders, BoundInputs, PackedInputs
      <3>2. ~(i \in BoundInputs /\ i \in PackedInputs)
        BY <2>3 DEF PackedInputs
      <3> QED BY <3>1, <3>2
    <2> QED BY <2>1, <2>2, <2>3, <2>4, <2>5, PackedFacts DEF PackedValid
  <1> QED BY <1>3, <1>4, <1>5 DEF PortsValid

\* Ports that pass the checks are all connected.
LEMMA ValidIsConnected ==
    ASSUME raw \in RawFolders, PortsValid
    PROVE  PortsConnected
  <1>1. BindPairsValid /\ PackedValid
    BY DEF PortsValid
  <1>2. PortsInRange
    BY <1>1 DEF PortsInRange, BindPairsValid, PackedValid, PackedIndices
  <1>3. raw.listed \/ Inputs \ BoundInputs # {}
    BY <1>1 DEF PackedValid
  <1>4. ASSUME NEW i \in Inputs PROVE Cardinality(Feeders(i)) = 1
    <2>1. CASE i \in BoundInputs
      <3>1. PICK k \in Pairs : raw.bind_pairs[k].input = i
        BY <2>1 DEF BoundInputs
      <3>2. i \notin PackedInputs
        BY <2>1, <1>1 DEF PackedValid
      <3>3. Feeders(i) = {<<"pair", k>>}
        BY <3>1, <3>2, <1>1 DEF Feeders, PackedInputs, BindPairsValid
      <3> QED BY <3>3, FS_Singleton
    <2>2. CASE i \notin BoundInputs
      <3>1. PICK j \in DOMAIN PackedIndices : PackedIndices[j] = i
        BY <2>2, <1>1 DEF PackedValid, PackedInputs
      <3>2. \A m \in DOMAIN PackedIndices : PackedIndices[m] = i => m = j
        BY <3>1, <1>1 DEF PackedValid
      <3>3. Feeders(i) = {<<"packed", j>>}
        BY <3>1, <3>2, <2>2 DEF Feeders, BoundInputs
      <3> QED BY <3>3, FS_Singleton
    <2> QED BY <2>1, <2>2
  <1>5. PICK root \in Outputs : BoundOutputs = Outputs \ {root}
    BY DEF PortsValid, IsRoot
  <1>6. Cardinality(Consumers(root)) = 0
    <2>1. Consumers(root) = {}
      BY <1>5 DEF Consumers, BoundOutputs
    <2> QED BY <2>1, FS_EmptySet
  <1>7. ASSUME NEW o \in Outputs, o # root PROVE Cardinality(Consumers(o)) = 1
    <2>1. PICK k \in Pairs : raw.bind_pairs[k].output = o
      BY <1>5, <1>7 DEF BoundOutputs
    <2>2. Consumers(o) = {k}
      BY <2>1, <1>1 DEF Consumers, BindPairsValid
    <2> QED BY <2>2, FS_Singleton
  <1> QED BY <1>2, <1>3, <1>4, <1>6, <1>7 DEF PortsConnected

-----------------------------------------------------------------------------
\* Everything that is defined of the raw folder alone stays.
LEMMA RawFixed ==
    ASSUME raw' = raw
    PROVE  /\ Coders' = Coders /\ Inputs' = Inputs /\ Outputs' = Outputs /\ Pairs' = Pairs
           /\ \A k : Source(k)' = Source(k) /\ Destination(k)' = Destination(k)
           /\ PortsValid' = PortsValid /\ PortsConnected' = PortsConnected
           /\ Cyclic' = Cyclic
           /\ Root' = Root /\ PackedIndices' = PackedIndices
           /\ BoundInputs' = BoundInputs /\ BoundOutputs' = BoundOutputs
  <1>1. Coders' = Coders /\ Inputs' = Inputs /\ Outputs' = Outputs /\ Pairs' = Pairs
    BY DEF Coders, Inputs, Outputs, Pairs
  <1>2. \A k : Source(k)' = Source(k) /\ Destination(k)' = Destination(k)
    BY DEF Source, Destination
  <1>3. BoundInputs' = BoundInputs /\ BoundOutputs' = BoundOutputs
    BY <1>1 DEF BoundInputs, BoundOutputs
  <1>4. Root' = Root /\ FirstUnbound' = FirstUnbound
    BY <1>1, <1>3 DEF Root, FirstUnbound
  <1>5. PackedIndices' = PackedIndices
    BY <1>4 DEF PackedIndices
  <1>6. PortsValid' = PortsValid
    BY <1>1, <1>3, <1>5 DEF PortsValid, BindPairsValid, IsRoot, PackedValid, PackedInputs
  <1>7. \A i : Feeders(i)' = Feeders(i) /\ Consumers(i)' = Consumers(i)
    BY <1>1, <1>5 DEF Feeders, Consumers
  <1>8. PortsConnected' = PortsConnected
    BY <1>1, <1>3, <1>7 DEF PortsConnected, PortsInRange
  <1>9. Cyclic' = Cyclic
    BY <1>1, <1>2 DEF Cyclic, Deadlocked
  <1> QED BY <1>1, <1>2, <1>3, <1>4, <1>5, <1>6, <1>8, <1>9

\* Edges still to be scanned are finitely many.
LEMMA WaitingFinite ==
    ASSUME raw \in RawFolders, NEW c
    PROVE  IsFiniteSet(Waiting(c)) /\ Cardinality(Waiting(c)) \in Nat
  <1>1. IsFiniteSet(Waiting(c))
    BY PairsFinite, FS_Subset DEF Waiting
  <1> QED BY <1>1, FS_CardinalityType

\* Every edge of a folder whose ports are valid joins two coders.
LEMMA ValidEdges ==
    ASSUME raw \in RawFolders, PortsValid
    PROVE  \A k \in Pairs : Source(k) \in Coders /\ Destination(k) \in Coders
  BY EdgeFacts DEF PortsValid, BindPairsValid

\* A duplicate-free queue as long as there are coders holds all of them, and one
\* that holds all of them is as long as there are coders.
LEMMA AllReady ==
    ASSUME Typed, Distinct
    PROVE  Len(ready) = raw.coders <=> \A c \in Coders : InReady(c)
  <1>1. /\ Len(ready) \in Nat /\ ready \in [1..Len(ready) -> Coders]
        /\ raw.coders \in Nat /\ raw.coders # 0
    BY RawFacts, LenProperties DEF Typed
  <1>2. IsFiniteSet(Coders) /\ Cardinality(Coders) = raw.coders
    <2>1. 0 \in Int /\ raw.coders - 1 \in Int /\ ~(0 > raw.coders - 1)
      BY <1>1
    <2>2. IsFiniteSet(0..(raw.coders - 1)) /\ Cardinality(0..(raw.coders - 1)) = raw.coders - 1 - 0 + 1
      BY <2>1, FS_Interval
    <2> QED BY <2>2, <1>1 DEF Coders
  <1>3. IsFiniteSet(1..Len(ready)) /\ Cardinality(1..Len(ready)) = Len(ready)
    <2>1. /\ IsFiniteSet(1..Len(ready))
          /\ Cardinality(1..Len(ready)) = IF 1 > Len(ready) THEN 0 ELSE Len(ready) - 1 + 1
      <3>1. 1 \in Int /\ Len(ready) \in Int
        BY <1>1
      <3> QED BY <3>1, FS_Interval
    <2> QED BY <2>1, <1>1
  <1>4. ready \in Injection(1..Len(ready), Coders)
    BY <1>1 DEF Injection, IsInjective, Distinct
  <1>5. Cardinality(1..Len(ready)) = Cardinality(Coders) <=> ready \in Surjection(1..Len(ready), Coders)
    BY <1>2, <1>4, FS_Injection
  <1>6. ready \in Surjection(1..Len(ready), Coders) <=> \A c \in Coders : InReady(c)
    BY <1>1 DEF Surjection, InReady
  <1> QED BY <1>2, <1>3, <1>5, <1>6

\* A complete schedule leaves no set of coders that wait for each other.
LEMMA OrderedIsAcyclic ==
    ASSUME Typed, Ordered, \A c \in Coders : InReady(c)
    PROVE  ~Cyclic
  <1>1. SUFFICES ASSUME NEW S \in SUBSET Coders, S # {}, Deadlocked(S) PROVE FALSE
    BY DEF Cyclic
  <1> DEFINE Places == {m \in 1..Len(ready) : ready[m] \in S}
  <1>2. Places \in SUBSET Nat /\ Places # {}
    <2>1. Len(ready) \in Nat
      BY LenProperties DEF Typed
    <2>2. PICK c \in S : TRUE
      BY <1>1
    <2>3. PICK m \in 1..Len(ready) : ready[m] = c
      BY <2>2, <1>1 DEF InReady
    <2> QED BY <2>1, <2>2, <2>3
  <1>3. PICK n \in Places : \A m \in Places : n <= m
    <2> HIDE DEF Places
    <2> QED BY <1>2, LeastNatural
  <1>4. PICK k \in Pairs : Destination(k) = ready[n] /\ Source(k) \in S
    BY <1>1, <1>3 DEF Deadlocked
  <1>5. PICK m \in 1..(n - 1) : ready[m] = Source(k)
    BY <1>3, <1>4 DEF Ordered
  <1>6. m \in Places /\ m < n
    BY <1>4, <1>5, <1>3, LenProperties DEF Typed
  <1> QED BY <1>3, <1>6, LenProperties DEF Typed

\* Coders that never became ready wait for each other.
LEMMA UnreadyIsCyclic ==
    ASSUME Typed, Sorting, phase = "drain", cursor = Len(ready), Len(ready) # raw.coders
    PROVE  Cyclic
  <1> DEFINE S == {c \in Coders : ~InReady(c)}
  <1>1. S # {}
    BY AllReady DEF Sorting
  <1>2. ASSUME NEW c \in S PROVE \E k \in Pairs : Destination(k) = c /\ Source(k) \in S
    <2>1. indegree[c] # 0
      BY DEF Sorting
    <2>2. Cardinality(Waiting(c)) # 0
      BY <2>1 DEF Sorting, DegreesCount
    <2>3. Waiting(c) # {}
      BY <2>2, FS_EmptySet
    <2>4. PICK k \in Pairs : Destination(k) = c /\ ~Scanned(k)
      BY <2>3 DEF Waiting
    <2>5. ~InReady(Source(k))
      BY <2>4 DEF Scanned, InReady
    <2> QED BY <2>4, <2>5, ValidEdges DEF Typed, Sorting
  <1>3. Deadlocked(S)
    BY <1>2 DEF Deadlocked
  <1> HIDE DEF S
  <1>4. S \in SUBSET Coders
    BY DEF S
  <1> QED BY <1>1, <1>3, <1>4 DEF Cyclic

-----------------------------------------------------------------------------
\* Validation begins with nothing scheduled.
LEMMA GraphInitEstablishes == GraphInit => GInv
  <1> SUFFICES ASSUME GraphInit PROVE GInv
    OBVIOUS
  <1> QED BY DEF GraphInit, GInv, Typed, VerdictIsReference, DegreesNeverUnderflow

\* The ports are valid and every edge is counted, or the reference rejects them.
LEMMA ValidatePortsPreserves == ASSUME GInv, ValidatePorts PROVE GInv'
  <1>1. /\ Typed /\ phase = "ports" /\ ready = <<>> /\ cursor = 0 /\ index = 0 /\ result = "none"
        /\ raw' = raw /\ ready' = ready /\ cursor' = cursor /\ index' = index
        /\ raw \in RawFolders
    BY DEF GInv, Typed, ValidatePorts
  <1>2. CASE PortsValid
    <2>1. /\ phase' = "seed" /\ result' = "none"
          /\ indegree' = [c \in Coders |-> Cardinality({k \in Pairs : Destination(k) = c})]
      BY <1>1, <1>2 DEF ValidatePorts, PortsValid
    <2>2. \A c : Waiting(c)' = {k \in Pairs : Destination(k) = c}
      BY <1>1, RawFixed DEF Waiting, Scanned
    <2>3. \A c : IsFiniteSet({k \in Pairs : Destination(k) = c})
      BY PairsFinite, FS_Subset, <1>1
    <2>4. \A c : Cardinality({k \in Pairs : Destination(k) = c}) \in Nat
      BY <2>3, FS_CardinalityType
    <2>5. Typed'
      BY <1>1, <2>1, <2>4, RawFixed DEF Typed
    <2>6. Sorting'
      <3>1. DegreesCount'
        BY <2>1, <2>2, <1>1, RawFixed DEF DegreesCount
      <3>2. raw.coders \in Nat /\ \A c \in Coders : c >= 0
        BY <1>1, RawFacts DEF Coders
      <3>3. Distinct' /\ Ordered'
        BY <1>1 DEF Distinct, Ordered
      <3>4. \A c \in Coders : ~InReady(c)' /\ ~(c < index')
        BY <1>1, <3>2 DEF InReady, Coders
      <3> QED BY <1>1, <1>2, <2>1, <3>1, <3>2, <3>3, <3>4, RawFixed DEF Sorting
    <2> QED BY <2>1, <2>5, <2>6 DEF GInv, VerdictIsReference, DegreesNeverUnderflow
  <1>3. CASE ~PortsValid
    <2>1. phase' = "done" /\ result' = "malformed" /\ indegree' = indegree
      BY <1>1, <1>3 DEF ValidatePorts, PortsValid, Ends
    <2>2. ~PortsConnected'
      BY <1>1, <1>3, ConnectedIsValid, RawFixed
    <2>3. Typed'
      BY <1>1, <2>1, RawFixed DEF Typed
    <2> QED BY <2>1, <2>2, <2>3 DEF GInv, VerdictIsReference, DegreesNeverUnderflow
  <1> QED BY <1>2, <1>3

\* A coder put at the end of the queue leaves the others where they were.
LEMMA AppendFacts ==
    ASSUME ready \in Seq(Coders), NEW c \in Coders, NEW q, q = Append(ready, c)
    PROVE  /\ q \in Seq(Coders) /\ Len(q) = Len(ready) + 1 /\ Len(ready) \in Nat
           /\ \A m \in 1..Len(ready) : q[m] = ready[m]
           /\ q[Len(ready) + 1] = c
  BY AppendProperties, LenProperties

\* One queue entry more: what is ready then, that nothing is queued twice, and
\* that the entries stay ordered.
LEMMA QueueGrows ==
    ASSUME Typed, Distinct, Ordered, raw' = raw, NEW c \in Coders,
           ready' = Append(ready, c), ~InReady(c),
           \A k \in Pairs : Destination(k) = c => InReady(Source(k))
    PROVE  /\ ready' \in Seq(Coders) /\ Len(ready') = Len(ready) + 1 /\ Len(ready) \in Nat
           /\ \A m \in 1..Len(ready) : ready'[m] = ready[m]
           /\ ready'[Len(ready) + 1] = c
           /\ \A d : InReady(d)' <=> InReady(d) \/ d = c
           /\ Distinct' /\ Ordered'
  <1>1. /\ ready' \in Seq(Coders) /\ Len(ready') = Len(ready) + 1 /\ Len(ready) \in Nat
        /\ \A m \in 1..Len(ready) : ready'[m] = ready[m]
        /\ ready'[Len(ready) + 1] = c
    BY AppendFacts DEF Typed
  <1>2. \A d : InReady(d)' <=> InReady(d) \/ d = c
    <2> TAKE d
    <2>1. ASSUME InReady(d)' PROVE InReady(d) \/ d = c
      <3>1. PICK m \in 1..(Len(ready) + 1) : ready'[m] = d
        BY <1>1, <2>1 DEF InReady
      <3>2. m \in 1..Len(ready) \/ m = Len(ready) + 1
        BY <1>1
      <3> QED BY <3>1, <3>2, <1>1 DEF InReady
    <2>2. ASSUME InReady(d) PROVE InReady(d)'
      <3>1. PICK m \in 1..Len(ready) : ready[m] = d
        BY <2>2 DEF InReady
      <3>2. m \in 1..Len(ready') /\ ready'[m] = d
        BY <3>1, <1>1
      <3> QED BY <3>2 DEF InReady
    <2>3. ASSUME d = c PROVE InReady(d)'
      <3>1. Len(ready) + 1 \in 1..Len(ready') /\ ready'[Len(ready) + 1] = d
        BY <2>3, <1>1
      <3> QED BY <3>1 DEF InReady
    <2> QED BY <2>1, <2>2, <2>3
  <1>3. Distinct'
    <2>1. SUFFICES ASSUME NEW m \in 1..(Len(ready) + 1), NEW n \in 1..(Len(ready) + 1),
                          ready'[m] = ready'[n]
                   PROVE  m = n
      BY <1>1 DEF Distinct
    <2>2. /\ m \in 1..Len(ready) \/ m = Len(ready) + 1
          /\ n \in 1..Len(ready) \/ n = Len(ready) + 1
      BY <1>1
    <2>3. \A x \in 1..Len(ready) : ready[x] # c
      BY DEF InReady
    <2> QED BY <1>1, <2>1, <2>2, <2>3 DEF Distinct
  <1>4. Ordered'
    <2>1. SUFFICES ASSUME NEW n \in 1..(Len(ready) + 1), NEW k \in Pairs, Destination(k) = ready'[n]
                   PROVE  \E m \in 1..(n - 1) : ready'[m] = Source(k)
      <3>1. Pairs' = Pairs /\ \A k : Source(k)' = Source(k) /\ Destination(k)' = Destination(k)
        BY RawFixed
      <3>2. 1..Len(ready') = 1..(Len(ready) + 1)
        BY <1>1
      <3> QED BY <3>1, <3>2, Zenon DEF Ordered
    <2>2. CASE n \in 1..Len(ready)
      <3>1. PICK m \in 1..(n - 1) : ready[m] = Source(k)
        BY <1>1, <2>1, <2>2 DEF Ordered
      <3>2. m \in 1..Len(ready)
        BY <2>2, <1>1
      <3> QED BY <3>1, <3>2, <1>1
    <2>3. CASE n = Len(ready) + 1
      <3>1. PICK m \in 1..Len(ready) : ready[m] = Source(k)
        BY <1>1, <2>1, <2>3 DEF InReady
      <3>2. m \in 1..(n - 1)
        BY <2>3, <1>1
      <3> QED BY <3>1, <3>2, <1>1
    <2> QED BY <2>2, <2>3, <1>1
  <1> QED BY <1>1, <1>2, <1>3, <1>4

\* A coder whose degree is zero has no edge left to be scanned.
LEMMA ZeroDegree ==
    ASSUME Typed, DegreesCount, NEW c \in Coders, indegree[c] = 0
    PROVE  \A k \in Pairs : Destination(k) = c => Scanned(k)
  <1>1. Waiting(c) = {}
    BY WaitingFinite, FS_EmptySet DEF Typed, DegreesCount
  <1> QED BY <1>1 DEF Waiting

\* The source of a scanned edge has been queued.
LEMMA ScannedIsReady ==
    ASSUME Typed, NEW k, Scanned(k)
    PROVE  InReady(Source(k))
  <1>1. Len(ready) \in Nat
    BY LenProperties DEF Typed
  <1>2. PICK m \in 1..cursor : ready[m] = Source(k)
    BY DEF Scanned
  <1>3. m \in 1..Len(ready)
    BY <1>1, <1>2 DEF Typed
  <1> QED BY <1>2, <1>3 DEF InReady

\* Coders that wait for nothing are queued first.
LEMMA SeedReadyPreserves == ASSUME GInv, SeedReady PROVE GInv'
  <1>1. /\ Typed /\ Sorting /\ phase = "seed" /\ cursor = 0 /\ result = "none"
        /\ raw' = raw /\ result' = result /\ indegree' = indegree /\ cursor' = cursor
        /\ raw \in RawFolders /\ index \in Nat /\ index <= raw.coders
    BY DEF GInv, Typed, SeedReady, Sorting
  <1>2. raw.coders \in Nat \ {0} /\ Len(ready) \in Nat
    BY <1>1, RawFacts, LenProperties DEF Typed
  <1>3. \A k : ~Scanned(k) /\ ~Scanned(k)'
    BY <1>1 DEF Scanned
  <1>4. \A c : Waiting(c)' = Waiting(c)
    BY <1>1, <1>3, RawFixed DEF Waiting
  <1>5. DegreesCount'
    BY <1>1, <1>4, RawFixed DEF DegreesCount, Sorting
  <1>6. CASE index \in Coders /\ indegree[index] = 0
    <2>1. index' = index + 1 /\ ready' = Append(ready, index) /\ phase' = "seed"
      BY <1>1, <1>6 DEF SeedReady
    <2>2. ~InReady(index)
      BY <1>1, <1>6 DEF Sorting
    <2>3. \A k \in Pairs : Destination(k) = index => InReady(Source(k))
      BY <1>1, <1>3, <1>6, ZeroDegree DEF Sorting
    <2>4. /\ ready' \in Seq(Coders) /\ Len(ready') = Len(ready) + 1
          /\ \A d : InReady(d)' <=> InReady(d) \/ d = index
          /\ Distinct' /\ Ordered'
      BY <1>1, <1>6, <2>1, <2>2, <2>3, QueueGrows DEF Sorting
    <2>5. Typed'
      BY <1>1, <1>2, <2>1, <2>4, RawFixed DEF Typed
    <2>6. \A c \in Coders : InReady(c)' <=> c < index' /\ indegree[c] = 0
      BY <1>1, <1>6, <2>1, <2>4 DEF Sorting, Coders
    <2>7. index' <= raw.coders
      BY <1>1, <1>2, <1>6, <2>1 DEF Coders
    <2>8. Sorting'
      BY <1>1, <1>5, <2>1, <2>4, <2>6, <2>7, RawFixed DEF Sorting
    <2> QED BY <1>1, <2>1, <2>5, <2>8 DEF GInv, VerdictIsReference, DegreesNeverUnderflow
  <1>7. CASE ~(index \in Coders /\ indegree[index] = 0)
    <2>1. ready' = ready
      BY <1>1, <1>7 DEF SeedReady
    <2>2. \/ phase' = "seed" /\ index' = index + 1 /\ index \in Coders
          \/ phase' = "drain" /\ index' = 0 /\ index \notin Coders
      BY <1>1 DEF SeedReady
    <2>3. Distinct' /\ Ordered' /\ \A c : InReady(c)' <=> InReady(c)
      BY <1>1, <2>1, RawFixed DEF Sorting, Distinct, Ordered, InReady
    <2>4. Typed'
      BY <1>1, <2>1, <2>2, RawFixed DEF Typed
    <2>5. phase' = "seed" => /\ index' <= raw.coders
                             /\ \A c \in Coders : InReady(c)' <=> c < index' /\ indegree[c] = 0
      BY <1>1, <1>2, <1>7, <2>2, <2>3 DEF Sorting, Coders
    <2>6. phase' # "seed" => \A c \in Coders : InReady(c)' <=> indegree[c] = 0
      BY <1>1, <1>2, <2>2, <2>3 DEF Sorting, Coders
    <2>7. Sorting'
      BY <1>1, <1>5, <2>2, <2>3, <2>5, <2>6, RawFixed DEF Sorting
    <2> QED BY <1>1, <2>2, <2>4, <2>7 DEF GInv, VerdictIsReference, DegreesNeverUnderflow
  <1> QED BY <1>6, <1>7

\* A queued coder is scheduled after all it waits for.
LEMMA DequeueCoderPreserves == ASSUME GInv, DequeueCoder PROVE GInv'
  <1>1. /\ Typed /\ Sorting /\ phase = "drain" /\ result = "none" /\ cursor < Len(ready)
        /\ raw' = raw /\ result' = result /\ indegree' = indegree /\ ready' = ready
        /\ cursor' = cursor + 1 /\ index' = 1 /\ phase' = "scan" /\ raw \in RawFolders
    BY DEF GInv, Typed, DequeueCoder
  <1>2. Len(ready) \in Nat /\ cursor \in Nat /\ Len(raw.bind_pairs) \in Nat
    BY <1>1, RawFacts, LenProperties DEF Typed
  <1>3. \A k \in Pairs : Scanned(k)' <=> Scanned(k)
    BY <1>1, <1>2, RawFixed DEF Scanned, Pairs
  <1>4. \A c : Waiting(c)' = Waiting(c)
    BY <1>1, <1>3, RawFixed DEF Waiting
  <1>5. DegreesCount'
    BY <1>1, <1>4, RawFixed DEF DegreesCount, Sorting
  <1>6. Distinct' /\ Ordered' /\ \A c : InReady(c)' <=> InReady(c)
    BY <1>1, RawFixed DEF Sorting, Distinct, Ordered, InReady
  <1>7. Sorting'
    BY <1>1, <1>2, <1>5, <1>6, RawFixed DEF Sorting
  <1>8. Typed'
    BY <1>1, <1>2, RawFixed DEF Typed
  <1> QED BY <1>1, <1>7, <1>8 DEF GInv, VerdictIsReference, DegreesNeverUnderflow

\* All consumers of the scheduled coder are counted down.
LEMMA ScanDonePreserves == ASSUME GInv, ScanDone PROVE GInv'
  <1>1. /\ Typed /\ Sorting /\ phase = "scan" /\ result = "none" /\ index \notin Pairs
        /\ raw' = raw /\ result' = result /\ indegree' = indegree /\ ready' = ready
        /\ cursor' = cursor /\ index' = index /\ phase' = "drain" /\ raw \in RawFolders
    BY DEF GInv, Typed, ScanDone
  <1>2. Len(ready) \in Nat /\ cursor \in Nat /\ Len(raw.bind_pairs) \in Nat
    BY <1>1, RawFacts, LenProperties DEF Typed
  <1>3. \A k \in Pairs : k < index
    BY <1>1, <1>2 DEF Sorting, Pairs
  <1>4. \A k \in Pairs : Scanned(k)' <=> Scanned(k)
    BY <1>1, <1>3, RawFixed DEF Scanned
  <1>5. \A c : Waiting(c)' = Waiting(c)
    BY <1>1, <1>4, RawFixed DEF Waiting
  <1>6. DegreesCount'
    BY <1>1, <1>5, RawFixed DEF DegreesCount, Sorting
  <1>7. Distinct' /\ Ordered' /\ \A c : InReady(c)' <=> InReady(c)
    BY <1>1, RawFixed DEF Sorting, Distinct, Ordered, InReady
  <1>8. Sorting'
    BY <1>1, <1>6, <1>7, RawFixed DEF Sorting
  <1>9. Typed'
    BY <1>1, RawFixed DEF Typed
  <1> QED BY <1>1, <1>8, <1>9 DEF GInv, VerdictIsReference, DegreesNeverUnderflow

\* The order is complete, or the rest waits in a cycle.
LEMMA FinishOrderPreserves == ASSUME GInv, FinishOrder PROVE GInv'
  <1>1. /\ Typed /\ Sorting /\ phase = "drain" /\ result = "none" /\ cursor = Len(ready)
        /\ raw' = raw /\ indegree' = indegree /\ ready' = ready
        /\ cursor' = cursor /\ index' = index /\ raw \in RawFolders
    BY DEF GInv, Typed, FinishOrder
  <1>2. Len(order) = Len(ready)
    BY <1>1, LenProperties, SubSeqProperties DEF order, Typed
  <1>3. Typed' /\ PortsConnected
    <2>1. phase' \in {"valid", "done"} /\ (phase' = "valid" => result' = "none")
      BY <1>1 DEF FinishOrder, Ends
    <2> QED BY <1>1, <2>1, RawFixed, ValidIsConnected DEF Typed, Sorting
  <1>4. CASE Len(ready) # raw.coders
    <2>1. phase' = "done" /\ result' = "cycle"
      BY <1>1, <1>2, <1>4 DEF FinishOrder, Ends
    <2>2. Cyclic
      BY <1>1, <1>4, UnreadyIsCyclic
    <2> QED BY <1>1, <1>3, <2>1, <2>2, RawFixed DEF GInv, VerdictIsReference, DegreesNeverUnderflow
  <1>5. CASE Len(ready) = raw.coders
    <2>1. phase' = "valid" /\ result' = result
      BY <1>1, <1>2, <1>5 DEF FinishOrder
    <2>2. ~Cyclic
      BY <1>1, <1>5, AllReady, OrderedIsAcyclic DEF Sorting
    <2>3. \A k \in Pairs : Scanned(k)' <=> Scanned(k)
      BY <1>1, <2>1, RawFixed DEF Scanned
    <2>4. \A c : Waiting(c)' = Waiting(c)
      BY <1>1, <2>3, RawFixed DEF Waiting
    <2>5. DegreesCount'
      BY <1>1, <2>4, RawFixed DEF DegreesCount, Sorting
    <2>6. Distinct' /\ Ordered' /\ \A c : InReady(c)' <=> InReady(c)
      BY <1>1, RawFixed DEF Sorting, Distinct, Ordered, InReady
    <2>7. Sorting'
      BY <1>1, <1>5, <2>1, <2>5, <2>6, RawFixed DEF Sorting
    <2> QED BY <1>1, <1>3, <2>1, <2>2, <2>7, RawFixed DEF GInv, VerdictIsReference, DegreesNeverUnderflow
  <1> QED BY <1>4, <1>5

\* A checkpoint may fail anywhere.
LEMMA InterruptedPreserves == ASSUME GInv, Interrupted PROVE GInv'
  <1>1. /\ Typed /\ raw' = raw /\ indegree' = indegree /\ ready' = ready
        /\ cursor' = cursor /\ index' = index /\ phase' = "done" /\ result' = "interrupted"
    BY DEF GInv, Interrupted, Ends
  <1>2. Typed'
    BY <1>1, RawFixed DEF Typed
  <1> QED BY <1>1, <1>2 DEF GInv, VerdictIsReference, DegreesNeverUnderflow

(***************************************************************************)
(* An edge out of the dequeued coder is waited for by its destination, as  *)
(* coders are dequeued once: the degree is positive and counts it.         *)
(***************************************************************************)
LEMMA ScanEdgePreserves == ASSUME GInv, ScanEdge PROVE GInv'
  <1>1. /\ Typed /\ Sorting /\ phase = "scan" /\ result = "none" /\ index \in Pairs
        /\ raw' = raw /\ cursor' = cursor /\ index' = index + 1 /\ raw \in RawFolders
    BY DEF GInv, Typed, ScanEdge
  <1>2. /\ Len(ready) \in Nat /\ cursor \in 1..Len(ready) /\ Len(raw.bind_pairs) \in Nat
        /\ index \in 1..Len(raw.bind_pairs) /\ index' \in 1..(Len(raw.bind_pairs) + 1)
    BY <1>1, RawFacts, LenProperties DEF Typed, Sorting, Pairs
  <1>3. CASE Source(index) # ready[cursor]
    <2>1. phase' = phase /\ result' = result /\ indegree' = indegree /\ ready' = ready
      BY <1>1, <1>3 DEF ScanEdge
    <2>2. \A k \in Pairs : Scanned(k)' <=> Scanned(k)
      <3> TAKE k \in Pairs
      <3>1. k \in Nat /\ index \in Nat
        BY <1>2 DEF Pairs
      <3>2. k # index => (k < index + 1 <=> k < index)
        BY <3>1
      <3> QED BY <1>1, <1>3, <2>1, <3>2, RawFixed DEF Scanned
    <2>3. \A c : Waiting(c)' = Waiting(c)
      BY <1>1, <2>2, RawFixed DEF Waiting
    <2>4. DegreesCount'
      BY <1>1, <2>1, <2>3, RawFixed DEF DegreesCount, Sorting
    <2>5. Distinct' /\ Ordered' /\ \A c : InReady(c)' <=> InReady(c)
      BY <1>1, <2>1, RawFixed DEF Sorting, Distinct, Ordered, InReady
    <2>6. Sorting'
      BY <1>1, <1>2, <2>1, <2>4, <2>5, RawFixed DEF Sorting
    <2>7. Typed'
      BY <1>1, <1>2, <2>1, RawFixed DEF Typed
    <2> QED BY <1>1, <2>1, <2>6, <2>7 DEF GInv, VerdictIsReference, DegreesNeverUnderflow
  <1>4. CASE Source(index) = ready[cursor]
    <2> DEFINE to == Destination(index)
    <2>1. to \in Coders /\ indegree[to] \in Nat
      BY <1>1, ValidEdges DEF Sorting, Typed
    <2>2. ~Scanned(index)
      BY <1>1, <1>2, <1>4 DEF Scanned, Sorting, Distinct
    <2>3. index \in Waiting(to)
      BY <1>1, <2>2 DEF Waiting
    <2>4. /\ IsFiniteSet(Waiting(to)) /\ Cardinality(Waiting(to)) \in Nat
          /\ indegree[to] = Cardinality(Waiting(to)) /\ indegree[to] # 0
      BY <1>1, <2>1, <2>3, WaitingFinite, FS_EmptySet DEF Sorting, DegreesCount
    <2>5. /\ indegree' = [indegree EXCEPT ![to] = @ - 1]
          /\ ready' = IF indegree[to] = 1 THEN Append(ready, to) ELSE ready
          /\ phase' = phase /\ result' = result
      BY <1>1, <1>4, <2>4 DEF ScanEdge
    <2>6. indegree' \in [Coders -> Nat] /\ indegree'[to] = indegree[to] - 1
          /\ \A c \in Coders : c # to => indegree'[c] = indegree[c]
      BY <1>1, <2>1, <2>4, <2>5 DEF Typed
    <2>7. ~InReady(to)
      BY <1>1, <2>1, <2>4 DEF Sorting
    <2>8. ASSUME indegree[to] = 1
          PROVE  \A k \in Pairs : Destination(k) = to => InReady(Source(k))
      <3>1. PICK x : Waiting(to) = {x}
        BY <2>4, <2>8, FS_Singleton
      <3>2. Waiting(to) = {index}
        BY <2>3, <3>1
      <3>3. \A k \in Pairs : Destination(k) = to /\ k # index => Scanned(k)
        BY <3>2 DEF Waiting
      <3>4. InReady(Source(index))
        BY <1>2, <1>4 DEF InReady
      <3> QED BY <1>1, <3>3, <3>4, ScannedIsReady
    <2>9. /\ ready' \in Seq(Coders) /\ Len(ready') \in Nat /\ Len(ready') >= Len(ready)
          /\ \A m \in 1..Len(ready) : ready'[m] = ready[m]
          /\ \A d : InReady(d)' <=> InReady(d) \/ (d = to /\ indegree[to] = 1)
          /\ Distinct' /\ Ordered'
      <3>1. CASE indegree[to] = 1
        <4>1. ready' = Append(ready, to)
          BY <2>5, <3>1
        <4> HIDE DEF to
        <4> QED BY <4>1, <3>1, <1>1, <2>1, <2>7, <2>8, QueueGrows DEF Sorting
      <3>2. CASE indegree[to] # 1
        <4>1. ready' = ready
          BY <2>5, <3>2
        <4>2. Distinct' /\ Ordered' /\ \A d : InReady(d)' <=> InReady(d)
          BY <1>1, <4>1, RawFixed DEF Sorting, Distinct, Ordered, InReady
        <4>3. ready' \in Seq(Coders) /\ Len(ready') \in Nat /\ Len(ready') >= Len(ready)
          BY <1>1, <1>2, <4>1 DEF Typed
        <4> HIDE DEF to
        <4> QED BY <4>1, <4>2, <4>3, <3>2
      <3> QED BY <3>1, <3>2
    <2>10. \A k \in Pairs : Scanned(k)' <=> Scanned(k) \/ k = index
      <3> TAKE k \in Pairs
      <3>1. k \in Nat /\ index \in Nat
        BY <1>2 DEF Pairs
      <3>2. \A m \in 1..cursor : ready'[m] = ready[m]
        BY <1>2, <2>9
      <3>3. CASE k = index
        BY <1>1, <1>2, <1>4, <2>5, <3>1, <3>2, <3>3, RawFixed DEF Scanned
      <3>4. CASE k # index
        <4>1. k < index + 1 <=> k < index
          BY <3>1, <3>4
        <4> QED BY <1>1, <2>5, <3>2, <3>4, <4>1, RawFixed DEF Scanned
      <3> QED BY <3>3, <3>4
    <2>11. \A c : Waiting(c)' = Waiting(c) \ {index}
      BY <1>1, <2>10, RawFixed DEF Waiting
    <2>12. DegreesCount'
      <3>1. SUFFICES ASSUME NEW c \in Coders PROVE indegree'[c] = Cardinality(Waiting(c)')
        BY <1>1, RawFixed DEF DegreesCount
      <3>2. CASE c = to
        <4>1. Cardinality(Waiting(to) \ {index}) = Cardinality(Waiting(to)) - 1
          <5> HIDE DEF to
          <5> QED BY <2>3, <2>4, FS_RemoveElement
        <4> QED BY <3>2, <4>1, <2>4, <2>6, <2>11
      <3>3. CASE c # to
        <4>1. index \notin Waiting(c)
          BY <3>3 DEF Waiting
        <4>2. Waiting(c)' = Waiting(c)
          BY <2>11, <4>1
        <4> QED BY <1>1, <3>3, <4>2, <2>6 DEF Sorting, DegreesCount
      <3> QED BY <3>2, <3>3
    <2>13. \A c \in Coders : InReady(c)' <=> indegree'[c] = 0
      <3> TAKE c \in Coders
      <3>1. CASE c = to
        BY <3>1, <2>1, <2>4, <2>6, <2>7, <2>9
      <3>2. CASE c # to
        BY <1>1, <3>2, <2>6, <2>9 DEF Sorting
      <3> QED BY <3>1, <3>2
    <2> HIDE DEF to
    <2>14. Sorting'
      BY <1>1, <1>2, <2>5, <2>9, <2>12, <2>13, RawFixed DEF Sorting
    <2>15. Typed'
      BY <1>1, <1>2, <2>5, <2>6, <2>9, RawFixed DEF Typed
    <2> QED BY <1>1, <2>5, <2>14, <2>15 DEF GInv, VerdictIsReference, DegreesNeverUnderflow
  <1> QED BY <1>3, <1>4

\* What leaves the validator's variables alone leaves its invariant alone.
LEMMA GraphUnchanged == ASSUME GInv, UNCHANGED graphVars PROVE GInv'
  <1>1. /\ raw' = raw /\ phase' = phase /\ result' = result /\ indegree' = indegree
        /\ ready' = ready /\ cursor' = cursor /\ index' = index
    BY DEF graphVars
  <1>2. Typed'
    BY <1>1, RawFixed DEF GInv, Typed
  <1>3. \A k : Scanned(k)' <=> Scanned(k)
    BY <1>1, RawFixed DEF Scanned
  <1>4. \A c : Waiting(c)' = Waiting(c)
    BY <1>1, <1>3, RawFixed DEF Waiting
  <1>5. Sorting => Sorting'
    BY <1>1, <1>4, RawFixed DEF Sorting, DegreesCount, Distinct, Ordered, InReady
  <1>6. VerdictIsReference' /\ DegreesNeverUnderflow'
    <2>1. (PortsConnected' <=> PortsConnected) /\ (Cyclic' <=> Cyclic)
      BY <1>1, RawFixed
    <2>2. VerdictIsReference /\ DegreesNeverUnderflow
      BY DEF GInv
    <2> QED BY <1>1, <2>1, <2>2 DEF VerdictIsReference, DegreesNeverUnderflow
  <1> QED BY <1>1, <1>2, <1>5, <1>6 DEF GInv

\* Every step keeps the invariant.
LEMMA GraphNextPreserves == ASSUME GInv, GraphNext PROVE GInv'
  BY ValidatePortsPreserves, SeedReadyPreserves, DequeueCoderPreserves, ScanEdgePreserves,
     ScanDonePreserves, FinishOrderPreserves, InterruptedPreserves DEF GraphNext, GraphStep

\* The schedule of an accepted folder, as ScheduleIsTopological states it.
LEMMA ScheduleFacts ==
    ASSUME GInv, phase = "valid"
    PROVE  /\ order \in Seq(Coders) /\ Len(order) = raw.coders
           /\ DOMAIN order = 1..raw.coders
           /\ \A c \in Coders : \E m \in 1..raw.coders : order[m] = c
           /\ \A m, n \in 1..raw.coders : order[m] = order[n] => m = n
           /\ \A k \in Pairs : \A n \in 1..raw.coders : order[n] = Destination(k) =>
                  \E m \in 1..(n - 1) : order[m] = Source(k)
  <1>1. /\ Typed /\ Sorting /\ cursor = Len(ready) /\ Len(ready) = raw.coders
        /\ ready \in Seq(Coders) /\ raw \in RawFolders
    BY DEF GInv, Sorting, Typed
  <1>2. order = ready
    BY <1>1, SubSeqFull DEF order
  <1>3. \A c \in Coders : InReady(c)
    BY <1>1, AllReady DEF Sorting
  <1>4. DOMAIN ready = 1..Len(ready)
    BY <1>1, LenProperties
  <1> QED BY <1>1, <1>2, <1>3, <1>4 DEF Sorting, Distinct, Ordered, InReady

\* The finished order is topological.
LEMMA ScheduleFromInvariant == GInv => ScheduleIsTopological
  <1> SUFFICES ASSUME GInv, phase = "valid" PROVE ScheduleIsTopological
    BY DEF ScheduleIsTopological
  <1>1. raw.coders \in Nat
    BY RawFacts DEF GInv, Typed
  <1>2. ASSUME NEW k \in Pairs, NEW m \in 1..raw.coders, NEW n \in 1..raw.coders,
               order[m] = Source(k), order[n] = Destination(k)
        PROVE  m < n
    <2>1. PICK x \in 1..(n - 1) : order[x] = Source(k)
      BY <1>2, ScheduleFacts
    <2>2. x = m
      BY <2>1, <1>1, <1>2, ScheduleFacts
    <2> QED BY <2>1, <2>2, <1>1
  <1> QED BY <1>2, ScheduleFacts DEF ScheduleIsTopological

-----------------------------------------------------------------------------
Ran(c) == \E m \in 1..step : order[m] = c

Streams == [from : {"none", "packed", "coder"}, id : Int, packed : SUBSET DOMAIN PackedIndices]

Registered == \A c \in Coders : \E o \in Outputs : OutputsOf(c) = {o}

PortsTyped == /\ input_ports \in [Inputs -> Streams]
              /\ output_ports \in [Outputs -> Streams]
              /\ destinations \in [Outputs -> Inputs \cup {NoInput}]
              /\ loaded \in 0..Len(PackedIndices) /\ step \in 0..raw.coders

\* A packed stream is in its port from its loading until its coder runs.
PackedHeld ==
    \A j \in DOMAIN PackedIndices :
        input_ports[PackedIndices[j]] =
            IF j <= loaded /\ ~Ran(raw.input_owners[PackedIndices[j]])
            THEN PackedStream(j) ELSE None

\* A bound port holds a stream between the runs of its two coders.
BoundHeld ==
    \A k \in Pairs :
        LET port == input_ports[raw.bind_pairs[k].input]
        IN  IF Ran(Source(k)) /\ ~Ran(Destination(k))
            THEN port.from = "coder" /\ port.id = Source(k)
            ELSE port = None

RootHeld ==
    \A o \in Outputs :
        IF o = Root /\ Ran(raw.output_owners[o])
        THEN output_ports[o].from = "coder" /\ output_ports[o].id = raw.output_owners[o]
        ELSE output_ports[o] = None

\* The destination of an output is there until its coder takes it.
DestinationsHeld ==
    /\ \A k \in Pairs : destinations[raw.bind_pairs[k].output] =
                            IF Ran(Source(k)) THEN NoInput ELSE raw.bind_pairs[k].input
    /\ destinations[Root] = NoInput

\* No packed stream that was loaded is lost on its way to the root.
NoneLost ==
    \A j \in 1..loaded : \/ \E i \in Inputs : j \in input_ports[i].packed
                         \/ j \in output_ports[Root].packed

Flow ==
    /\ Registered /\ PortsTyped /\ PackedHeld /\ BoundHeld /\ RootHeld
    /\ DestinationsHeld /\ NoneLost
    /\ stage = "load" => step = 0
    /\ stage = "run" => loaded = Len(PackedIndices)

Idle == /\ loaded = 0 /\ step = 0
        /\ input_ports = [i \in Inputs |-> None]
        /\ output_ports = [o \in Outputs |-> None]
        /\ destinations = [o \in Outputs |-> NoInput]

EInv ==
    /\ stage \in {"idle", "load", "run", "done"}
    /\ stage # "idle" => phase = "valid"
    /\ stage # "done" => outcome = "none"
    /\ outcome \notin Internal
    /\ stage = "idle" => Idle
    /\ stage \in {"load", "run"} => Flow
    /\ StreamsRoutedAsBound

Inv == GInv /\ EInv

-----------------------------------------------------------------------------
\* What the validator established of the ports of an accepted folder.
LEMMA PortFacts ==
    ASSUME raw \in RawFolders, PortsValid
    PROVE  /\ Root \in Outputs /\ BoundOutputs = Outputs \ {Root}
           /\ Len(PackedIndices) \in Nat /\ DOMAIN PackedIndices = 1..Len(PackedIndices)
           /\ \A j \in DOMAIN PackedIndices : PackedIndices[j] \in Inputs
           /\ \A j, m \in DOMAIN PackedIndices : PackedIndices[j] = PackedIndices[m] => j = m
           /\ \A k \in Pairs : /\ raw.bind_pairs[k].input \in Inputs
                               /\ raw.bind_pairs[k].output \in Outputs
                               /\ raw.bind_pairs[k].output # Root
           /\ \A j, k \in Pairs : raw.bind_pairs[j].input = raw.bind_pairs[k].input => j = k
           /\ \A j, k \in Pairs : raw.bind_pairs[j].output = raw.bind_pairs[k].output => j = k
           /\ \A j \in DOMAIN PackedIndices : \A k \in Pairs :
                  PackedIndices[j] # raw.bind_pairs[k].input
           /\ \A i \in Inputs : \/ \E k \in Pairs : raw.bind_pairs[k].input = i
                               \/ \E j \in DOMAIN PackedIndices : PackedIndices[j] = i
           /\ \A o \in Outputs : o # Root => \E k \in Pairs : raw.bind_pairs[k].output = o
           /\ NoInput \notin Inputs
  <1>1. BindPairsValid /\ PackedValid /\ \E o \in Outputs : IsRoot(o)
    BY DEF PortsValid
  <1>2. Root \in Outputs /\ BoundOutputs = Outputs \ {Root}
    <2>1. PICK o \in Outputs : BoundOutputs = Outputs \ {o}
      BY <1>1 DEF IsRoot
    <2>2. Root \in Outputs /\ Root \notin BoundOutputs
      BY <2>1 DEF Root
    <2> QED BY <2>1, <2>2
  <1>3. Len(PackedIndices) \in Nat /\ DOMAIN PackedIndices = 1..Len(PackedIndices)
    BY <1>1, PackedFacts DEF PackedValid
  <1>4. /\ \A j \in DOMAIN PackedIndices : PackedIndices[j] \in Inputs \ BoundInputs
        /\ \A j, m \in DOMAIN PackedIndices : PackedIndices[j] = PackedIndices[m] => j = m
        /\ \A i \in Inputs : i \in BoundInputs \/ i \in PackedInputs
    BY <1>1 DEF PackedValid
  <1>5. \A k \in Pairs : /\ raw.bind_pairs[k].input \in BoundInputs
                        /\ raw.bind_pairs[k].output \in BoundOutputs
    BY DEF BoundInputs, BoundOutputs
  <1>6. NoInput \notin Inputs
    BY RawFacts DEF NoInput, Inputs
  <1>7. \A i \in Inputs : \/ \E k \in Pairs : raw.bind_pairs[k].input = i
                         \/ \E j \in DOMAIN PackedIndices : PackedIndices[j] = i
    BY <1>4 DEF BoundInputs, PackedInputs
  <1>8. \A o \in Outputs : o # Root => \E k \in Pairs : raw.bind_pairs[k].output = o
    BY <1>2 DEF BoundOutputs
  <1>9. /\ \A j, k \in Pairs : raw.bind_pairs[j].input = raw.bind_pairs[k].input => j = k
        /\ \A j, k \in Pairs : raw.bind_pairs[j].output = raw.bind_pairs[k].output => j = k
        /\ \A k \in Pairs : /\ raw.bind_pairs[k].input \in Inputs
                            /\ raw.bind_pairs[k].output \in Outputs
    BY <1>1 DEF BindPairsValid
  <1>10. \A j \in DOMAIN PackedIndices : \A k \in Pairs :
             PackedIndices[j] # raw.bind_pairs[k].input
    BY <1>4, <1>5
  <1>11. \A k \in Pairs : raw.bind_pairs[k].output # Root
    BY <1>2, <1>5
  <1> QED BY <1>2, <1>3, <1>4, <1>6, <1>7, <1>8, <1>9, <1>10, <1>11

\* What a step that only touches the executor leaves alone.
LEMMA FolderFixed ==
    ASSUME raw' = raw
    PROVE  /\ \A c : InputsOf(c)' = InputsOf(c) /\ OutputsOf(c)' = OutputsOf(c)
           /\ Streams' = Streams
           /\ (Registered' <=> Registered)
           /\ PackedIndices' = PackedIndices /\ Root' = Root
           /\ Coders' = Coders /\ Inputs' = Inputs /\ Outputs' = Outputs /\ Pairs' = Pairs
           /\ \A k : Source(k)' = Source(k) /\ Destination(k)' = Destination(k)
  <1>1. \A c : InputsOf(c)' = InputsOf(c) /\ OutputsOf(c)' = OutputsOf(c)
    BY RawFixed DEF InputsOf, OutputsOf
  <1>2. Streams' = Streams
    BY RawFixed DEF Streams
  <1>3. Registered' <=> Registered
    BY <1>1, RawFixed DEF Registered
  <1> QED BY <1>1, <1>2, <1>3, RawFixed

\* Execution begins with nothing bound.
LEMMA InitEstablishes == Init => Inv
  <1> SUFFICES ASSUME Init PROVE Inv
    OBVIOUS
  <1>1. GInv
    BY GraphInitEstablishes DEF Init
  <1>2. Idle /\ stage = "idle" /\ outcome = "none"
    BY DEF Init, ExecInit, Idle
  <1>3. StreamsRoutedAsBound
    BY <1>2 DEF Idle, StreamsRoutedAsBound, None
  <1> QED BY <1>1, <1>2, <1>3 DEF Inv, EInv, Internal

\* The validator moves only before the executor starts.
LEMMA ValidatorPreserves == ASSUME Inv, GraphNext, UNCHANGED execVars PROVE Inv'
  <1>1. GInv'
    BY GraphNextPreserves DEF Inv
  <1>2. phase # "valid" /\ raw' = raw
    BY DEF GraphNext, GraphStep, ValidatePorts, SeedReady, DequeueCoder, ScanEdge, ScanDone,
           FinishOrder, Interrupted
  <1>3. /\ stage' = stage /\ outcome' = outcome /\ loaded' = loaded /\ step' = step
        /\ input_ports' = input_ports /\ output_ports' = output_ports
        /\ destinations' = destinations
    BY DEF execVars
  <1>4. stage = "idle" /\ Idle /\ outcome = "none"
    BY <1>2 DEF Inv, EInv
  <1>5. Idle'
    BY <1>2, <1>3, <1>4, RawFixed DEF Idle, None
  <1>6. StreamsRoutedAsBound'
    BY <1>3, <1>4, <1>5 DEF Idle, StreamsRoutedAsBound, None
  <1> QED BY <1>1, <1>3, <1>4, <1>5, <1>6 DEF Inv, EInv, Internal

\* Routing looks at the folder, the ports and the outcome only.
LEMMA RoutingUnchanged ==
    ASSUME StreamsRoutedAsBound, raw' = raw, input_ports' = input_ports, outcome' # "decoded"
    PROVE  StreamsRoutedAsBound'
  BY FolderFixed DEF StreamsRoutedAsBound

\* A checkpoint, limit or codec may fail anywhere.
LEMMA ExecutionFailsPreserves == ASSUME Inv, ExecutionFails PROVE Inv'
  <1>1. /\ raw' = raw /\ phase' = "valid" /\ UNCHANGED graphVars /\ stage' = "done" /\ outcome' = "error"
        /\ input_ports' = input_ports
    BY DEF ExecutionFails, Terminates, graphVars
  <1>2. GInv'
    BY <1>1, GraphUnchanged DEF Inv
  <1>3. StreamsRoutedAsBound'
    BY <1>1, RoutingUnchanged DEF Inv, EInv
  <1> QED BY <1>1, <1>2, <1>3 DEF Inv, EInv, Internal

\* Every coder is given its ports.
LEMMA RegisterCodersPreserves == ASSUME Inv, RegisterCoders PROVE Inv'
  <1>1. /\ raw' = raw /\ phase' = phase /\ UNCHANGED graphVars /\ phase = "valid" /\ stage = "idle"
        /\ loaded' = loaded /\ step' = step /\ input_ports' = input_ports /\ output_ports' = output_ports
        /\ outcome = "none" /\ Idle /\ raw \in RawFolders /\ PortsValid
    BY DEF RegisterCoders, graphVars, Inv, EInv, GInv, Typed, Sorting
  <1>2. GInv'
    BY <1>1, GraphUnchanged DEF Inv
  <1>3. CASE ~(\A c \in Coders : /\ Cardinality(OutputsOf(c)) = 1
                                 /\ Cardinality(InputsOf(c)) \in SupportedInputs)
    <2>1. stage' = "done" /\ outcome' = "unsupported"
      BY <1>3 DEF RegisterCoders, Terminates
    <2>2. StreamsRoutedAsBound'
      BY <1>1, <2>1, RoutingUnchanged DEF Inv, EInv
    <2> QED BY <1>1, <1>2, <2>1, <2>2 DEF Inv, EInv, Internal
  <1>4. CASE \A c \in Coders : /\ Cardinality(OutputsOf(c)) = 1
                               /\ Cardinality(InputsOf(c)) \in SupportedInputs
    <2> DEFINE D(o) == IF o \in BoundOutputs
                       THEN raw.bind_pairs[CHOOSE k \in Pairs : raw.bind_pairs[k].output = o].input
                       ELSE NoInput
    <2>1. stage' = "load" /\ outcome' = "none" /\ destinations' = [o \in Outputs |-> D(o)]
      BY <1>1, <1>4 DEF RegisterCoders
    <2>2. Registered
      <3>1. IsFiniteSet(Outputs)
        <4>1. 0 \in Int /\ raw.outputs - 1 \in Int
          BY <1>1, RawFacts
        <4> QED BY <4>1, FS_Interval DEF Outputs
      <3>2. ASSUME NEW c \in Coders PROVE \E o \in Outputs : OutputsOf(c) = {o}
        <4>1. IsFiniteSet(OutputsOf(c)) /\ Cardinality(OutputsOf(c)) = 1
          BY <1>4, <3>1, FS_Subset DEF OutputsOf
        <4>2. PICK o : OutputsOf(c) = {o}
          BY <4>1, FS_Singleton
        <4> QED BY <4>2 DEF OutputsOf
      <3> QED BY <3>2 DEF Registered
    <2>3. ASSUME NEW k \in Pairs PROVE D(raw.bind_pairs[k].output) = raw.bind_pairs[k].input
      <3>1. raw.bind_pairs[k].output \in BoundOutputs
        BY DEF BoundOutputs
      <3>2. (CHOOSE x \in Pairs : raw.bind_pairs[x].output = raw.bind_pairs[k].output) = k
        BY <1>1, PortFacts
      <3> QED BY <3>1, <3>2
    <2>4. D(Root) = NoInput
      BY <1>1, PortFacts
    <2>5. \A o \in Outputs : D(o) \in Inputs \cup {NoInput}
      <3> TAKE o \in Outputs
      <3>1. CASE o = Root
        BY <3>1, <2>4
      <3>2. CASE o # Root
        <4>1. PICK k \in Pairs : raw.bind_pairs[k].output = o
          BY <1>1, <3>2, PortFacts
        <4> QED BY <1>1, <2>3, <4>1, PortFacts
      <3> QED BY <3>1, <3>2
    <2> HIDE DEF D
    <2>6. \A c : ~Ran(c)'
      BY <1>1 DEF Ran, Idle
    <2>7. None \in Streams
      BY DEF None, Streams
    <2>8. PortsTyped'
      <3>1. raw.coders \in Nat /\ Len(PackedIndices) \in Nat
        BY <1>1, RawFacts, PortFacts
      <3> QED BY <1>1, <2>1, <2>5, <2>7, <3>1, FolderFixed DEF PortsTyped, Idle
    <2>9. DestinationsHeld'
      BY <1>1, <2>1, <2>3, <2>4, <2>6, PortFacts, FolderFixed DEF DestinationsHeld
    <2>10. PackedHeld'
      <3>1. \A j \in DOMAIN PackedIndices : PackedIndices[j] \in Inputs /\ ~(j <= 0)
        BY <1>1, PortFacts
      <3> QED BY <1>1, <3>1, FolderFixed DEF PackedHeld, Idle
    <2>11. BoundHeld' /\ RootHeld'
      BY <1>1, <2>6, PortFacts, FolderFixed DEF BoundHeld, RootHeld, Idle
    <2>12. NoneLost'
      BY <1>1 DEF NoneLost, Idle
    <2>13. Flow'
      BY <1>1, <2>1, <2>2, <2>8, <2>9, <2>10, <2>11, <2>12, FolderFixed DEF Flow, Idle
    <2>14. StreamsRoutedAsBound'
      BY <1>1, <2>1, RoutingUnchanged DEF Inv, EInv
    <2> QED BY <1>1, <1>2, <2>1, <2>13, <2>14 DEF Inv, EInv, Internal
  <1> QED BY <1>3, <1>4

\* A packed stream is bound to the input that the folder names.
LEMMA LoadPackedInputPreserves == ASSUME Inv, LoadPackedInput PROVE Inv'
  <1>1. /\ raw' = raw /\ phase' = phase /\ UNCHANGED graphVars /\ phase = "valid" /\ stage = "load"
        /\ step' = step /\ step = 0 /\ output_ports' = output_ports /\ destinations' = destinations
        /\ outcome = "none" /\ Flow /\ raw \in RawFolders /\ PortsValid
    BY DEF LoadPackedInput, graphVars, Inv, EInv, Flow, GInv, Typed, Sorting
  <1>2. GInv'
    BY <1>1, GraphUnchanged DEF Inv
  <1>3. \A c : ~Ran(c) /\ ~Ran(c)'
    BY <1>1 DEF Ran
  <1>4. /\ Len(PackedIndices) \in Nat /\ DOMAIN PackedIndices = 1..Len(PackedIndices)
        /\ loaded \in 0..Len(PackedIndices)
    BY <1>1, PortFacts DEF Flow, PortsTyped
  <1>5. RootHeld' /\ DestinationsHeld'
    BY <1>1, <1>3, FolderFixed DEF Flow, RootHeld, DestinationsHeld
  <1>6. CASE loaded < Len(PackedIndices)
    <2> DEFINE port == PackedIndices[loaded + 1]
    <2>1. loaded + 1 \in DOMAIN PackedIndices /\ port \in Inputs
      BY <1>1, <1>4, <1>6, PortFacts
    <2>2. input_ports[port] = None
      BY <1>1, <1>4, <2>1 DEF Flow, PackedHeld
    <2>3. /\ input_ports' = [input_ports EXCEPT ![port] = PackedStream(loaded + 1)]
          /\ loaded' = loaded + 1 /\ stage' = stage /\ outcome' = outcome
      BY <1>1, <1>6, <2>2 DEF LoadPackedInput, PackedPort, IsSome, None
    <2>4. /\ input_ports'[port] = PackedStream(loaded + 1)
          /\ \A i \in Inputs : i # port => input_ports'[i] = input_ports[i]
      BY <1>1, <2>1, <2>3 DEF Flow, PortsTyped
    <2>5. PackedStream(loaded + 1) \in Streams
      BY <1>4, <2>1 DEF PackedStream, Streams
    <2>6. PortsTyped'
      <3>1. input_ports' \in [Inputs -> Streams]
        BY <1>1, <2>3, <2>5 DEF Flow, PortsTyped
      <3>2. loaded' \in 0..Len(PackedIndices)
        BY <1>4, <1>6, <2>3
      <3> QED BY <1>1, <3>1, <3>2, FolderFixed DEF Flow, PortsTyped
    <2>7. PackedHeld'
      <3>1. SUFFICES ASSUME NEW j \in DOMAIN PackedIndices
                     PROVE  input_ports'[PackedIndices[j]] = IF j <= loaded + 1 THEN PackedStream(j) ELSE None
        BY <1>1, <1>3, <2>3, FolderFixed DEF PackedHeld
      <3>2. CASE j = loaded + 1
        BY <1>4, <2>4, <3>2
      <3>3. CASE j # loaded + 1
        <4>1. PackedIndices[j] # port /\ PackedIndices[j] \in Inputs
          BY <1>1, <2>1, <3>3, PortFacts
        <4>2. j <= loaded + 1 <=> j <= loaded
          BY <1>4, <3>3
        <4>3. input_ports[PackedIndices[j]] = IF j <= loaded THEN PackedStream(j) ELSE None
          BY <1>1, <1>3 DEF Flow, PackedHeld
        <4> QED BY <2>4, <4>1, <4>2, <4>3
      <3> QED BY <3>2, <3>3
    <2>8. BoundHeld'
      <3>1. SUFFICES ASSUME NEW k \in Pairs PROVE input_ports'[raw.bind_pairs[k].input] = None
        BY <1>1, <1>3, FolderFixed DEF BoundHeld
      <3>2. raw.bind_pairs[k].input \in Inputs /\ raw.bind_pairs[k].input # port
        BY <1>1, <2>1, PortFacts
      <3>3. input_ports[raw.bind_pairs[k].input] = None
        BY <1>1, <1>3 DEF Flow, BoundHeld
      <3> QED BY <2>4, <3>2, <3>3
    <2>9. NoneLost'
      <3>1. SUFFICES ASSUME NEW j \in 1..(loaded + 1)
                     PROVE  \/ \E i \in Inputs : j \in input_ports'[i].packed
                            \/ j \in output_ports[Root].packed
        BY <1>1, <2>3, FolderFixed DEF NoneLost
      <3>2. CASE j = loaded + 1
        BY <2>1, <2>4, <3>2 DEF PackedStream
      <3>3. CASE j # loaded + 1
        <4>1. j \in 1..loaded
          BY <1>4, <3>3
        <4>2. CASE j \in output_ports[Root].packed
          BY <4>2
        <4>3. CASE \E i \in Inputs : j \in input_ports[i].packed
          <5>1. PICK i \in Inputs : j \in input_ports[i].packed
            BY <4>3
          <5>2. i # port
            BY <2>2, <5>1 DEF None
          <5> QED BY <2>4, <5>1, <5>2
        <4> QED BY <1>1, <4>1, <4>2, <4>3 DEF Flow, NoneLost
      <3> QED BY <3>2, <3>3
    <2>10. Flow'
      BY <1>1, <1>5, <2>3, <2>6, <2>7, <2>8, <2>9, FolderFixed DEF Flow
    <2>11. StreamsRoutedAsBound'
      <3>1. SUFFICES ASSUME NEW i \in Inputs
                     PROVE  /\ input_ports'[i].from = "packed" => PackedIndices[input_ports'[i].id] = i
                            /\ input_ports'[i].from = "coder" =>
                                  \E k \in Pairs : raw.bind_pairs[k].input = i /\ Source(k) = input_ports'[i].id
        BY <1>1, <2>3, FolderFixed DEF StreamsRoutedAsBound
      <3>2. CASE i = port
        BY <2>4, <3>2 DEF PackedStream
      <3>3. CASE i # port
        <4>1. input_ports'[i] = input_ports[i]
          BY <2>4, <3>3
        <4> QED BY <4>1 DEF StreamsRoutedAsBound, Inv, EInv
      <3> QED BY <3>2, <3>3
    <2> QED BY <1>1, <1>2, <2>3, <2>10, <2>11 DEF Inv, EInv, Internal
  <1>7. CASE ~(loaded < Len(PackedIndices))
    <2>1. /\ stage' = "run" /\ outcome' = outcome /\ loaded' = loaded /\ input_ports' = input_ports
          /\ loaded = Len(PackedIndices)
      <3>1. loaded = Len(PackedIndices)
        <4>1. \A n \in Nat : \A l \in 0..n : ~(l < n) => l = n
          OBVIOUS
        <4> QED BY <1>4, <1>7, <4>1
      <3>2. stage' = "run" /\ outcome' = outcome /\ loaded' = loaded /\ input_ports' = input_ports
        BY <1>7 DEF LoadPackedInput
      <3> QED BY <3>1, <3>2
    <2>2. PortsTyped' /\ NoneLost'
      BY <1>1, <2>1, FolderFixed DEF Flow, PortsTyped, NoneLost
    <2>3. PackedHeld'
      BY <1>1, <1>3, <2>1, FolderFixed DEF Flow, PackedHeld
    <2>4. BoundHeld'
      BY <1>1, <1>3, <2>1, FolderFixed DEF Flow, BoundHeld
    <2>5. Flow'
      BY <1>1, <1>5, <2>1, <2>2, <2>3, <2>4, FolderFixed DEF Flow
    <2>6. StreamsRoutedAsBound'
      BY <1>1, <2>1, RoutingUnchanged DEF Inv, EInv
    <2> QED BY <1>1, <1>2, <2>1, <2>5, <2>6 DEF Inv, EInv, Internal
  <1> QED BY <1>6, <1>7

\* Every coder ran: the ports are empty, and the root holds what was loaded.
LEMMA CollectRootPreserves == ASSUME Inv, CollectRoot PROVE Inv'
  <1>1. /\ raw' = raw /\ phase' = phase /\ UNCHANGED graphVars /\ phase = "valid" /\ stage = "run"
        /\ input_ports' = input_ports /\ output_ports' = output_ports /\ stage' = "done"
        /\ step = Len(order) /\ Flow /\ raw \in RawFolders /\ PortsValid /\ GInv
    BY DEF CollectRoot, Terminates, graphVars, Inv, EInv, GInv, Typed, Sorting
  <1>2. GInv'
    BY <1>1, GraphUnchanged DEF Inv
  <1>3. \A c \in Coders : Ran(c)
    BY <1>1, ScheduleFacts DEF Ran
  <1>4. ASSUME NEW i \in Inputs PROVE input_ports[i] = None
    <2>1. CASE \E k \in Pairs : raw.bind_pairs[k].input = i
      <3>1. PICK k \in Pairs : raw.bind_pairs[k].input = i
        BY <2>1
      <3>2. Ran(Destination(k))
        BY <1>1, <1>3, ValidEdges
      <3> QED BY <1>1, <3>1, <3>2 DEF Flow, BoundHeld
    <2>2. CASE \E j \in DOMAIN PackedIndices : PackedIndices[j] = i
      <3>1. PICK j \in DOMAIN PackedIndices : PackedIndices[j] = i
        BY <2>2
      <3>2. Ran(raw.input_owners[i])
        BY <1>1, <1>3, RawFacts
      <3> QED BY <1>1, <3>1, <3>2 DEF Flow, PackedHeld
    <2> QED BY <1>1, <2>1, <2>2, PortFacts
  <1>5. Root \in Outputs /\ raw.output_owners[Root] \in Coders
    BY <1>1, RawFacts, PortFacts
  <1>6. /\ output_ports[Root].from = "coder" /\ output_ports[Root].id = raw.output_owners[Root]
        /\ \A o \in Outputs \ {Root} : output_ports[o] = None
    BY <1>1, <1>3, <1>5 DEF Flow, RootHeld
  <1>7. outcome' = "decoded"
    <2>1. /\ ~\E i \in Inputs : IsSome(input_ports[i])
          /\ ~\E o \in Outputs \ {Root} : IsSome(output_ports[o])
          /\ IsSome(output_ports[Root])
      BY <1>4, <1>6 DEF IsSome, None
    <2> QED BY <2>1 DEF CollectRoot, Terminates
  <1>8. output_ports[Root].packed = DOMAIN PackedIndices
    <2>1. output_ports[Root].packed \subseteq DOMAIN PackedIndices
      BY <1>1, <1>5 DEF Flow, PortsTyped, Streams
    <2>2. DOMAIN PackedIndices = 1..loaded
      BY <1>1, PortFacts DEF Flow
    <2>3. \A j \in 1..loaded : j \in output_ports[Root].packed
      BY <1>1, <1>4 DEF Flow, NoneLost, None
    <2> QED BY <2>1, <2>2, <2>3
  <1>9. StreamsRoutedAsBound'
    <2>1. \A i \in Inputs : input_ports'[i].from = "none"
      BY <1>1, <1>4 DEF None
    <2> QED BY <1>1, <1>6, <1>8, <2>1, FolderFixed DEF StreamsRoutedAsBound
  <1> QED BY <1>1, <1>2, <1>7, <1>9 DEF Inv, EInv, Internal

\* The coder next in the schedule has not run, and what it reads from has.
LEMMA NextCoder ==
    ASSUME Inv, stage = "run", step < Len(order), NEW c, c = order[step + 1]
    PROVE  /\ c \in Coders /\ ~Ran(c)
           /\ step \in Nat /\ step + 1 \in 0..raw.coders
           /\ \A k \in Pairs : Destination(k) = c => Ran(Source(k))
           /\ \A k \in Pairs : Source(k) = c => Destination(k) # c /\ ~Ran(Destination(k))
  <1>1. GInv /\ phase = "valid" /\ step \in 0..raw.coders /\ raw \in RawFolders
    BY DEF Inv, EInv, Flow, PortsTyped, GInv, Typed
  <1>2. /\ Len(order) = raw.coders /\ raw.coders \in Nat /\ order \in [1..raw.coders -> Coders]
    <2>1. order \in Seq(Coders) /\ Len(order) = raw.coders /\ raw.coders \in Nat
      BY <1>1, ScheduleFacts, RawFacts
    <2> QED BY <2>1, LenProperties
  <1>3. step \in Nat /\ step + 1 \in 1..raw.coders
    BY <1>1, <1>2
  <1>4. c \in Coders
    BY <1>2, <1>3
  <1>5. ~Ran(c)
    <2>1. SUFFICES ASSUME NEW m \in 1..step, order[m] = c PROVE FALSE
      BY DEF Ran
    <2>2. m \in 1..raw.coders
      BY <1>2, <1>3
    <2>3. m = step + 1
      BY <1>1, <1>3, <2>1, <2>2, ScheduleFacts
    <2> QED BY <1>3, <2>3
  <1>6. ASSUME NEW k \in Pairs, Destination(k) = c PROVE Ran(Source(k))
    <2>1. PICK m \in 1..(step + 1 - 1) : order[m] = Source(k)
      BY <1>1, <1>3, <1>6, ScheduleFacts
    <2>2. m \in 1..step
      BY <1>3
    <2> QED BY <2>1, <2>2 DEF Ran
  <1>7. ASSUME NEW k \in Pairs, Source(k) = c PROVE ~Ran(Destination(k))
    <2>1. SUFFICES ASSUME NEW n \in 1..step, order[n] = Destination(k) PROVE FALSE
      BY DEF Ran
    <2>2. n \in 1..raw.coders
      BY <1>2, <1>3
    <2>3. PICK m \in 1..(n - 1) : order[m] = Source(k)
      BY <1>1, <2>1, <2>2, ScheduleFacts
    <2>4. m \in 1..step
      BY <1>3
    <2> QED BY <1>5, <1>7, <2>3, <2>4 DEF Ran
  <1> QED BY <1>2, <1>3, <1>4, <1>5, <1>6, <1>7

(***************************************************************************)
(* One coder: its streams are all there, its output's port is free, and    *)
(* what its streams derive from moves on with its output.                  *)
(***************************************************************************)
LEMMA RunCoderPreserves == ASSUME Inv, RunCoder PROVE Inv'
  <1>1. /\ raw' = raw /\ phase' = phase /\ UNCHANGED graphVars /\ phase = "valid" /\ stage = "run"
        /\ step < Len(order) /\ loaded' = loaded /\ loaded = Len(PackedIndices)
        /\ outcome = "none" /\ Flow /\ raw \in RawFolders /\ PortsValid
    BY DEF RunCoder, graphVars, Inv, EInv, Flow, GInv, Typed, Sorting
  <1>2. GInv'
    BY <1>1, GraphUnchanged DEF Inv
  <1> DEFINE c == order[step + 1]
             slot == OutputOf(c)
             target == destinations[slot]
             taken == [i \in Inputs |-> IF i \in InputsOf(c) THEN None ELSE input_ports[i]]
  <1>3. /\ c \in Coders /\ ~Ran(c)
        /\ step \in Nat /\ step + 1 \in 0..raw.coders
        /\ \A k \in Pairs : Destination(k) = c => Ran(Source(k))
        /\ \A k \in Pairs : Source(k) = c => Destination(k) # c /\ ~Ran(Destination(k))
    BY <1>1, NextCoder
  <1>4. order' = order
    BY DEF RunCoder, order, graphVars
  <1>5. /\ slot \in Outputs /\ raw.output_owners[slot] = c
        /\ \A o \in Outputs : raw.output_owners[o] = c => o = slot
    <2>1. PICK o \in Outputs : OutputsOf(c) = {o}
      BY <1>1, <1>3 DEF Flow, Registered
    <2>2. slot \in Outputs /\ raw.output_owners[slot] = c
      BY <2>1 DEF OutputOf, OutputsOf
    <2> QED BY <2>1, <2>2 DEF OutputsOf
  <1>6. ASSUME NEW i \in InputsOf(c) PROVE IsSome(input_ports[i])
    <2>1. i \in Inputs /\ raw.input_owners[i] = c
      BY DEF InputsOf
    <2>2. CASE \E k \in Pairs : raw.bind_pairs[k].input = i
      <3>1. PICK k \in Pairs : raw.bind_pairs[k].input = i
        BY <2>2
      <3>2. Destination(k) = c
        BY <2>1, <3>1 DEF Destination
      <3>3. input_ports[i].from = "coder"
        BY <1>1, <1>3, <3>1, <3>2 DEF Flow, BoundHeld
      <3> QED BY <3>3 DEF IsSome
    <2>3. CASE \E j \in DOMAIN PackedIndices : PackedIndices[j] = i
      <3>1. PICK j \in DOMAIN PackedIndices : PackedIndices[j] = i
        BY <2>3
      <3>2. j <= loaded
        BY <1>1, PortFacts
      <3>3. input_ports[i] = PackedStream(j)
        BY <1>1, <1>3, <2>1, <3>1, <3>2 DEF Flow, PackedHeld
      <3> QED BY <3>3 DEF IsSome, PackedStream
    <2> QED BY <1>1, <2>1, <2>2, <2>3, PortFacts
  <1>7. /\ destinations' = [destinations EXCEPT ![slot] = NoInput] /\ step' = step + 1
        /\ IF target # NoInput
           THEN /\ input_ports' = [taken EXCEPT ![target] = DecodedStream(c)]
                /\ output_ports' = output_ports
                /\ IF IsSome(taken[target])
                   THEN Terminates("internal: bound input populated twice")
                   ELSE stage' = stage /\ outcome' = outcome
           ELSE /\ output_ports' = [output_ports EXCEPT ![slot] = DecodedStream(c)]
                /\ input_ports' = taken
                /\ IF IsSome(output_ports[slot])
                   THEN Terminates("internal: root populated twice")
                   ELSE stage' = stage /\ outcome' = outcome
    BY <1>6 DEF RunCoder
  <1>8. \A d : Ran(d)' <=> Ran(d) \/ d = c
    <2> TAKE d
    <2>1. Ran(d)' <=> \E m \in 1..(step + 1) : order[m] = d
      BY <1>4, <1>7 DEF Ran
    <2>2. 1..(step + 1) = (1..step) \cup {step + 1}
      BY <1>3
    <2> QED BY <2>1, <2>2 DEF Ran
  <1>9. DecodedStream(c) \in Streams /\ DecodedStream(c).from = "coder" /\ DecodedStream(c).id = c
        /\ \A i \in InputsOf(c) : input_ports[i].packed \subseteq DecodedStream(c).packed
    <2>1. \A i \in InputsOf(c) : input_ports[i].packed \in SUBSET DOMAIN PackedIndices
      BY <1>1 DEF Flow, PortsTyped, Streams, InputsOf
    <2>2. c \in Int
      BY <1>1, <1>3, RawFacts DEF Coders
    <2>3. UNION {input_ports[i].packed : i \in InputsOf(c)} \in SUBSET DOMAIN PackedIndices
      BY <2>1
    <2> HIDE DEF c
    <2> QED BY <2>2, <2>3 DEF DecodedStream, Streams
  <1>10. \A i \in Inputs : taken[i] = IF raw.input_owners[i] = c THEN None ELSE input_ports[i]
    BY DEF InputsOf
  <1>11. taken \in [Inputs -> Streams]
    BY <1>1 DEF Flow, PortsTyped, None, Streams
  <1>12. destinations' \in [Outputs -> Inputs \cup {NoInput}]
    BY <1>1, <1>7 DEF Flow, PortsTyped
  <1>13. DestinationsHeld'
    <2>1. ASSUME NEW k \in Pairs
          PROVE  destinations'[raw.bind_pairs[k].output] =
                     IF Ran(Source(k)) \/ Source(k) = c THEN NoInput ELSE raw.bind_pairs[k].input
      <3>1. raw.bind_pairs[k].output \in Outputs
        BY <1>1, PortFacts
      <3>2. raw.bind_pairs[k].output = slot <=> Source(k) = c
        BY <1>5, <3>1 DEF Source
      <3>3. destinations[raw.bind_pairs[k].output] = IF Ran(Source(k)) THEN NoInput ELSE raw.bind_pairs[k].input
        BY <1>1 DEF Flow, DestinationsHeld
      <3>4. destinations'[raw.bind_pairs[k].output] =
                IF raw.bind_pairs[k].output = slot THEN NoInput ELSE destinations[raw.bind_pairs[k].output]
        BY <1>1, <1>7, <3>1 DEF Flow, PortsTyped
      <3> QED BY <3>2, <3>3, <3>4
    <2>2. destinations'[Root] = NoInput
      <3>1. Root \in Outputs /\ destinations[Root] = NoInput
        BY <1>1, PortFacts DEF Flow, DestinationsHeld
      <3> QED BY <1>1, <1>7, <3>1 DEF Flow, PortsTyped
    <2> QED BY <1>1, <1>8, <2>1, <2>2, FolderFixed DEF DestinationsHeld
  <1> HIDE DEF c, slot, target, taken
  \* The packed ports lose the streams the coder took and are otherwise left alone.
  <1>14. ASSUME \A j \in DOMAIN PackedIndices : input_ports'[PackedIndices[j]] = taken[PackedIndices[j]]
         PROVE  PackedHeld'
    <2>1. SUFFICES ASSUME NEW j \in DOMAIN PackedIndices
                   PROVE  input_ports'[PackedIndices[j]] =
                            IF /\ j <= loaded
                               /\ ~Ran(raw.input_owners[PackedIndices[j]])
                               /\ raw.input_owners[PackedIndices[j]] # c
                            THEN PackedStream(j) ELSE None
      BY <1>1, <1>8, FolderFixed DEF PackedHeld
    <2>2. PackedIndices[j] \in Inputs
      BY <1>1, PortFacts
    <2>3. input_ports[PackedIndices[j]] = IF j <= loaded /\ ~Ran(raw.input_owners[PackedIndices[j]])
                                          THEN PackedStream(j) ELSE None
      BY <1>1 DEF Flow, PackedHeld
    <2> QED BY <1>10, <1>14, <2>2, <2>3
  <1>15. CASE slot = Root
    <2>1. target = NoInput /\ output_ports[slot] = None
      BY <1>1, <1>3, <1>5, <1>15 DEF target, Flow, DestinationsHeld, RootHeld
    <2>2. /\ output_ports' = [output_ports EXCEPT ![slot] = DecodedStream(c)] /\ input_ports' = taken
          /\ stage' = stage /\ outcome' = outcome
      BY <1>7, <2>1 DEF IsSome, None
    <2>3. /\ output_ports'[Root] = DecodedStream(c)
          /\ \A o \in Outputs : o # Root => output_ports'[o] = output_ports[o]
      BY <1>1, <1>5, <1>15, <2>2 DEF Flow, PortsTyped
    <2>4. \A k \in Pairs : Source(k) # c
      BY <1>1, <1>5, <1>15, PortFacts DEF Source
    <2>5. PackedHeld'
      BY <1>14, <2>2
    <2>6. BoundHeld'
      <3>1. SUFFICES ASSUME NEW k \in Pairs
                     PROVE  LET port == taken[raw.bind_pairs[k].input]
                            IN  IF Ran(Source(k)) /\ ~(Ran(Destination(k)) \/ Destination(k) = c)
                                THEN port.from = "coder" /\ port.id = Source(k)
                                ELSE port = None
        BY <1>1, <1>8, <2>2, <2>4, FolderFixed DEF BoundHeld
      <3>2. raw.bind_pairs[k].input \in Inputs
        BY <1>1, PortFacts
      <3>3. taken[raw.bind_pairs[k].input] =
                IF Destination(k) = c THEN None ELSE input_ports[raw.bind_pairs[k].input]
        BY <1>10, <3>2 DEF Destination
      <3> QED BY <1>1, <3>3 DEF Flow, BoundHeld
    <2>7. RootHeld'
      <3>1. ASSUME NEW o \in Outputs, o # Root PROVE output_ports'[o] = None
        BY <1>1, <2>3, <3>1 DEF Flow, RootHeld
      <3>2. raw.output_owners[Root] = c
        BY <1>5, <1>15
      <3>3. output_ports'[Root].from = "coder" /\ output_ports'[Root].id = c
        BY <1>9, <2>3
      <3> QED BY <1>1, <1>8, <3>1, <3>2, <3>3, FolderFixed DEF RootHeld
    <2>8. NoneLost'
      <3>1. SUFFICES ASSUME NEW j \in 1..loaded
                     PROVE  \/ \E i \in Inputs : j \in taken[i].packed
                            \/ j \in DecodedStream(c).packed
        BY <1>1, <2>2, <2>3, FolderFixed DEF NoneLost
      <3>2. j \notin output_ports[Root].packed
        BY <1>15, <2>1 DEF None
      <3>3. PICK i \in Inputs : j \in input_ports[i].packed
        BY <1>1, <3>2 DEF Flow, NoneLost
      <3>4. CASE raw.input_owners[i] = c
        BY <1>9, <3>3, <3>4 DEF InputsOf
      <3>5. CASE raw.input_owners[i] # c
        BY <1>10, <3>3, <3>5
      <3> QED BY <3>4, <3>5
    <2>9. PortsTyped'
      <3>1. output_ports' \in [Outputs -> Streams]
        BY <1>1, <1>5, <1>9, <2>2 DEF Flow, PortsTyped
      <3> QED BY <1>1, <1>3, <1>7, <1>11, <1>12, <2>2, <3>1, FolderFixed DEF Flow, PortsTyped
    <2>10. Flow'
      BY <1>1, <1>13, <2>2, <2>5, <2>6, <2>7, <2>8, <2>9, FolderFixed DEF Flow
    <2>11. StreamsRoutedAsBound'
      <3>1. \A i \in Inputs : input_ports'[i] = None \/ input_ports'[i] = input_ports[i]
        BY <1>10, <2>2
      <3>2. ASSUME NEW i \in Inputs
            PROVE  /\ input_ports'[i].from = "packed" => PackedIndices[input_ports'[i].id] = i
                   /\ input_ports'[i].from = "coder" =>
                         \E k \in Pairs : raw.bind_pairs[k].input = i /\ Source(k) = input_ports'[i].id
        <4>1. CASE input_ports'[i] = None
          BY <4>1 DEF None
        <4>2. CASE input_ports'[i] = input_ports[i]
          BY <4>2 DEF StreamsRoutedAsBound, Inv, EInv
        <4> QED BY <3>1, <4>1, <4>2
      <3> QED BY <1>1, <2>2, <3>2, FolderFixed DEF StreamsRoutedAsBound
    <2> QED BY <1>1, <1>2, <2>2, <2>10, <2>11 DEF Inv, EInv, Internal
  <1>16. CASE slot # Root
    <2>1. PICK b \in Pairs : raw.bind_pairs[b].output = slot
      BY <1>1, <1>5, <1>16, PortFacts
    <2>2. /\ Source(b) = c /\ \A k \in Pairs : Source(k) = c => k = b
          /\ Destination(b) # c /\ ~Ran(Destination(b))
      <3>1. Source(b) = c
        BY <1>5, <2>1 DEF Source
      <3>2. \A k \in Pairs : Source(k) = c => raw.bind_pairs[k].output = slot
        BY <1>1, <1>5, PortFacts DEF Source
      <3> QED BY <1>1, <1>3, <2>1, <3>1, <3>2, PortFacts
    <2>3. /\ target = raw.bind_pairs[b].input /\ target \in Inputs /\ target # NoInput
          /\ raw.input_owners[target] # c
      <3>1. target = raw.bind_pairs[b].input
        BY <1>1, <1>3, <2>1, <2>2 DEF target, Flow, DestinationsHeld
      <3> QED BY <1>1, <2>2, <3>1, PortFacts DEF Destination
    <2>4. input_ports[target] = None /\ taken[target] = None
      <3>1. input_ports[target] = None
        BY <1>1, <1>3, <2>2, <2>3 DEF Flow, BoundHeld
      <3> QED BY <1>10, <2>3, <3>1
    <2>5. /\ input_ports' = [taken EXCEPT ![target] = DecodedStream(c)] /\ output_ports' = output_ports
          /\ stage' = stage /\ outcome' = outcome
      BY <1>7, <2>3, <2>4 DEF IsSome, None
    <2>6. /\ input_ports'[target] = DecodedStream(c)
          /\ \A i \in Inputs : i # target => input_ports'[i] = taken[i]
      BY <1>11, <2>3, <2>5
    <2>7. PackedHeld'
      BY <1>1, <1>14, <2>3, <2>6, PortFacts
    <2>8. BoundHeld'
      <3>1. SUFFICES ASSUME NEW k \in Pairs
                     PROVE  LET port == input_ports'[raw.bind_pairs[k].input]
                            IN  IF /\ Ran(Source(k)) \/ Source(k) = c
                                   /\ ~(Ran(Destination(k)) \/ Destination(k) = c)
                                THEN port.from = "coder" /\ port.id = Source(k)
                                ELSE port = None
        BY <1>1, <1>8, FolderFixed DEF BoundHeld
      <3>2. CASE k = b
        BY <1>9, <2>2, <2>3, <2>6, <3>2
      <3>3. CASE k # b
        <4>1. raw.bind_pairs[k].input \in Inputs /\ raw.bind_pairs[k].input # target /\ Source(k) # c
          BY <1>1, <2>2, <2>3, <3>3, PortFacts
        <4>2. input_ports'[raw.bind_pairs[k].input] =
                  IF Destination(k) = c THEN None ELSE input_ports[raw.bind_pairs[k].input]
          BY <1>10, <2>6, <4>1 DEF Destination
        <4> QED BY <1>1, <4>1, <4>2 DEF Flow, BoundHeld
      <3> QED BY <3>2, <3>3
    <2>9. RootHeld'
      <3>1. \A o \in Outputs : o = Root => raw.output_owners[o] # c
        BY <1>5, <1>16
      <3> QED BY <1>1, <1>8, <2>5, <3>1, FolderFixed DEF Flow, RootHeld
    <2>10. NoneLost'
      <3>1. SUFFICES ASSUME NEW j \in 1..loaded
                     PROVE  \/ \E i \in Inputs : j \in input_ports'[i].packed
                            \/ j \in output_ports[Root].packed
        BY <1>1, <2>5, FolderFixed DEF NoneLost
      <3>2. CASE j \in output_ports[Root].packed
        BY <3>2
      <3>3. CASE \E i \in Inputs : j \in input_ports[i].packed
        <4>1. PICK i \in Inputs : j \in input_ports[i].packed
          BY <3>3
        <4>2. CASE raw.input_owners[i] = c
          <5>1. j \in DecodedStream(c).packed
            BY <1>9, <4>1, <4>2 DEF InputsOf
          <5> QED BY <2>3, <2>6, <5>1
        <4>3. CASE raw.input_owners[i] # c
          <5>1. i # target
            BY <2>4, <4>1 DEF None
          <5> QED BY <1>10, <2>6, <4>1, <4>3, <5>1
        <4> QED BY <4>2, <4>3
      <3> QED BY <1>1, <3>2, <3>3 DEF Flow, NoneLost
    <2>11. PortsTyped'
      <3>1. input_ports' \in [Inputs -> Streams]
        BY <1>9, <1>11, <2>3, <2>5
      <3> QED BY <1>1, <1>3, <1>7, <1>12, <2>5, <3>1, FolderFixed DEF Flow, PortsTyped
    <2>12. Flow'
      BY <1>1, <1>13, <2>5, <2>7, <2>8, <2>9, <2>10, <2>11, FolderFixed DEF Flow
    <2>13. StreamsRoutedAsBound'
      <3>1. ASSUME NEW i \in Inputs
            PROVE  /\ input_ports'[i].from = "packed" => PackedIndices[input_ports'[i].id] = i
                   /\ input_ports'[i].from = "coder" =>
                         \E k \in Pairs : raw.bind_pairs[k].input = i /\ Source(k) = input_ports'[i].id
        <4>1. CASE i = target
          BY <1>9, <2>2, <2>3, <2>6, <4>1
        <4>2. CASE i # target /\ raw.input_owners[i] = c
          BY <1>10, <2>6, <4>2 DEF None
        <4>3. CASE i # target /\ raw.input_owners[i] # c
          <5>1. input_ports'[i] = input_ports[i]
            BY <1>10, <2>6, <4>3
          <5> QED BY <5>1 DEF StreamsRoutedAsBound, Inv, EInv
        <4> QED BY <4>1, <4>2, <4>3
      <3> QED BY <1>1, <2>5, <3>1, FolderFixed DEF StreamsRoutedAsBound
    <2> QED BY <1>1, <1>2, <2>5, <2>12, <2>13 DEF Inv, EInv, Internal
  <1> QED BY <1>15, <1>16

\* A step that changes nothing.
LEMMA StutterPreserves == ASSUME Inv, UNCHANGED vars PROVE Inv'
  <1>1. /\ UNCHANGED graphVars /\ raw' = raw /\ phase' = phase /\ stage' = stage /\ outcome' = outcome
        /\ loaded' = loaded /\ step' = step /\ input_ports' = input_ports
        /\ output_ports' = output_ports /\ destinations' = destinations /\ order' = order
    BY DEF vars, graphVars, execVars, order
  <1>2. GInv'
    BY <1>1, GraphUnchanged DEF Inv
  <1>3. \A c : Ran(c)' <=> Ran(c)
    BY <1>1 DEF Ran
  <1>4. Flow => Flow'
    <2> SUFFICES ASSUME Flow PROVE Flow'
      OBVIOUS
    <2>1. PackedHeld' /\ BoundHeld'
      BY <1>1, <1>3, FolderFixed DEF Flow, PackedHeld, BoundHeld
    <2>2. RootHeld' /\ DestinationsHeld' /\ NoneLost' /\ PortsTyped'
      BY <1>1, <1>3, FolderFixed DEF Flow, RootHeld, DestinationsHeld, NoneLost, PortsTyped
    <2> QED BY <1>1, <2>1, <2>2, FolderFixed DEF Flow
  <1>5. Idle => Idle'
    BY <1>1, FolderFixed DEF Idle, None
  <1>6. StreamsRoutedAsBound'
    BY <1>1, FolderFixed DEF Inv, EInv, StreamsRoutedAsBound
  <1> QED BY <1>1, <1>2, <1>4, <1>5, <1>6 DEF Inv, EInv

\* The invariant holds in every state of every run.
LEMMA Invariance == Spec => []Inv
  <1>1. Inv /\ [Next]_vars => Inv'
    <2> SUFFICES ASSUME Inv, [Next]_vars PROVE Inv'
      OBVIOUS
    <2> QED BY ValidatorPreserves, RegisterCodersPreserves, LoadPackedInputPreserves,
               RunCoderPreserves, CollectRootPreserves, ExecutionFailsPreserves,
               StutterPreserves DEF Next, ExecStep
  <1> QED BY InitEstablishes, <1>1, PTL DEF Spec

-----------------------------------------------------------------------------
(***************************************************************************)
(* Kahn's algorithm and the port checks together decide the reference: a   *)
(* folder is accepted only when connected and acyclic, called a cycle only *)
(* when some coders wait for each other, and otherwise malformed.          *)
(***************************************************************************)
THEOREM GraphVerdict == Spec => []VerdictIsReference
  <1>1. Inv => VerdictIsReference
    BY DEF Inv, GInv
  <1> QED BY <1>1, Invariance, PTL

\* The schedule topological_order returns is a topological order of the coders.
THEOREM TopologicalSchedule == Spec => []ScheduleIsTopological
  <1>1. Inv => ScheduleIsTopological
    BY ScheduleFromInvariant DEF Inv
  <1> QED BY <1>1, Invariance, PTL

\* decode_folder never meets the internal errors it re-checks at run time.
THEOREM ExecutorChecksNeverFire == Spec => []NoInternalError
  <1>1. Inv => NoInternalError
    BY DEF Inv, GInv, EInv, NoInternalError
  <1> QED BY <1>1, Invariance, PTL

\* Streams are in the ports they are bound to; the root derives from all of them.
THEOREM RoutedStreams == Spec => []StreamsRoutedAsBound
  <1>1. Inv => StreamsRoutedAsBound
    BY DEF Inv, EInv
  <1> QED BY <1>1, Invariance, PTL
=============================================================================
