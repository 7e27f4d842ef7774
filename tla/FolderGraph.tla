---------------------------- MODULE FolderGraph ----------------------------
(***************************************************************************)
(* validate_folder_graph and topological_order (graph.rs): a folder's      *)
(* coders are connected by bind pairs from output ports to input ports,    *)
(* the remaining input ports are fed by packed streams, and one output     *)
(* port is the folder's root.  The validator accepts a raw folder with a   *)
(* schedule of its coders, found by Kahn's algorithm, or rejects it.       *)
(*                                                                         *)
(* A raw folder is what parse_folder (raw.rs) hands over.  Ports carry     *)
(* their owning coder directly: the port ranges of coder i are the ports p *)
(* with owner i, in order, as the two owner vectors of the validator.      *)
(***************************************************************************)
EXTENDS Integers, Sequences, FiniteSets

CONSTANT RawFolders   \* the raw folders to validate

(***************************************************************************)
(* What parse_folder guarantees: every coder has a stream in and a stream  *)
(* out, there is one bind pair fewer than there are outputs, and the       *)
(* packed indices are listed exactly when there are several.  Indices come *)
(* from the archive and may be out of range or repeated.                   *)
(***************************************************************************)
IsRawFolder(r) ==
    /\ r.coders \in Nat \ {0} /\ r.inputs \in Nat /\ r.outputs \in Nat
    /\ r.input_owners \in [0..(r.inputs - 1) -> 0..(r.coders - 1)]
    /\ r.output_owners \in [0..(r.outputs - 1) -> 0..(r.coders - 1)]
    /\ \A c \in 0..(r.coders - 1) :
           /\ \E i \in 0..(r.inputs - 1) : r.input_owners[i] = c
           /\ \E o \in 0..(r.outputs - 1) : r.output_owners[o] = c
    /\ r.bind_pairs \in Seq([input : Nat, output : Nat])
    /\ Len(r.bind_pairs) = r.outputs - 1
    /\ r.inputs > Len(r.bind_pairs)
    /\ r.listed = (r.inputs - Len(r.bind_pairs) # 1)
    /\ r.packed_indices \in Seq(Nat)
    /\ r.listed => Len(r.packed_indices) = r.inputs - Len(r.bind_pairs)

ASSUME RawFoldersAssumption == \A r \in RawFolders : IsRawFolder(r)

VARIABLES
    raw,        \* the raw folder
    phase,      \* where validation, and later execution, is
    result,     \* "none" while running, then how it ended
    indegree,   \* indegree of every coder, decremented as edges are scanned
    ready,      \* the FIFO of coders without unscanned predecessors
    cursor,     \* entries of ready already dequeued
    index       \* the loop index of the inner loop of the current phase

graphVars == <<raw, phase, result, indegree, ready, cursor, index>>

Coders  == 0..(raw.coders - 1)
Inputs  == 0..(raw.inputs - 1)
Outputs == 0..(raw.outputs - 1)
Pairs   == 1..Len(raw.bind_pairs)

\* Edge k of the coder graph runs from Source(k) to Destination(k).
Source(k)      == raw.output_owners[raw.bind_pairs[k].output]
Destination(k) == raw.input_owners[raw.bind_pairs[k].input]

BoundInputs  == {raw.bind_pairs[k].input : k \in Pairs}
BoundOutputs == {raw.bind_pairs[k].output : k \in Pairs}

\* The schedule so far: order receives a coder when it leaves ready.
order == SubSeq(ready, 1, cursor)

-----------------------------------------------------------------------------
(***************************************************************************)
(* The port checks of validate_folder_graph, all failing as Format.        *)
(***************************************************************************)
\* validate_bind_pair on every pair: in range and never used before.
BindPairsValid ==
    \A k \in Pairs :
        /\ raw.bind_pairs[k].input \in Inputs
        /\ raw.bind_pairs[k].output \in Outputs
        /\ \A j \in Pairs : j # k =>
               /\ raw.bind_pairs[j].input # raw.bind_pairs[k].input
               /\ raw.bind_pairs[j].output # raw.bind_pairs[k].output

\* root_output: the only output no pair binds.
IsRoot(o) == o \in Outputs /\ BoundOutputs = Outputs \ {o}
Root      == CHOOSE o \in Outputs : o \notin BoundOutputs

\* The listed packed indices, or the first unbound input.
FirstUnbound == CHOOSE i \in Inputs \ BoundInputs :
                    \A j \in Inputs \ BoundInputs : i <= j

PackedIndices == IF raw.listed THEN raw.packed_indices ELSE <<FirstUnbound>>

PackedInputs == {PackedIndices[j] : j \in DOMAIN PackedIndices}

PackedValid ==
    /\ raw.listed \/ Inputs \ BoundInputs # {}
    /\ Len(PackedIndices) = raw.inputs - Len(raw.bind_pairs)
    /\ \A j \in DOMAIN PackedIndices :
           /\ PackedIndices[j] \in Inputs \ BoundInputs
           /\ \A m \in DOMAIN PackedIndices :
                  m # j => PackedIndices[m] # PackedIndices[j]
    /\ \A i \in Inputs : (i \in BoundInputs) # (i \in PackedInputs)

-----------------------------------------------------------------------------
GraphInit ==
    /\ raw \in RawFolders
    /\ phase = "ports"
    /\ result = "none"
    /\ indegree = [c \in Coders |-> 0]
    /\ ready = <<>>
    /\ cursor = 0
    /\ index = 0

Ends(outcome) == phase' = "done" /\ result' = outcome

(***************************************************************************)
(* Everything up to the call of topological_order, and its first loop,     *)
(* which counts the edges into every coder.                                *)
(***************************************************************************)
ValidatePorts ==
    /\ phase = "ports"
    /\ IF BindPairsValid /\ (\E o \in Outputs : IsRoot(o)) /\ PackedValid
       THEN /\ phase' = "seed" /\ UNCHANGED result
            /\ indegree' = [c \in Coders |->
                                Cardinality({k \in Pairs : Destination(k) = c})]
       ELSE Ends("malformed") /\ UNCHANGED indegree
    /\ UNCHANGED <<raw, ready, cursor, index>>

\* The loop that makes the coders of indegree zero ready, in index order.
SeedReady ==
    /\ phase = "seed"
    /\ IF index \in Coders
       THEN /\ index' = index + 1
            /\ ready' = IF indegree[index] = 0 THEN Append(ready, index) ELSE ready
            /\ UNCHANGED phase
       ELSE phase' = "drain" /\ index' = 0 /\ UNCHANGED ready
    /\ UNCHANGED <<raw, result, indegree, cursor>>

\* while let Some(coder) = ready.get(cursor): schedule it, then scan edges.
DequeueCoder ==
    /\ phase = "drain" /\ cursor < Len(ready)
    /\ cursor' = cursor + 1
    /\ index' = 1
    /\ phase' = "scan"
    /\ UNCHANGED <<raw, result, indegree, ready>>

(***************************************************************************)
(* One edge of the inner loop: an edge out of the dequeued coder lowers    *)
(* its destination's indegree, which becomes ready at zero.                *)
(***************************************************************************)
ScanEdgeMutant ==   \* an edge lowers the degree whatever its source
    /\ phase = "scan" /\ index \in Pairs
    /\ LET to == Destination(index)
       IN  /\ indegree' = [indegree EXCEPT ![to] = @ - 1]
           /\ ready' = IF indegree[to] = 1 THEN Append(ready, to) ELSE ready
    /\ index' = index + 1
    /\ UNCHANGED <<raw, phase, result, cursor>>

ScanEdge ==
    /\ phase = "scan" /\ index \in Pairs
    /\ LET to == Destination(index)
       IN  IF Source(index) # ready[cursor]
           THEN UNCHANGED <<phase, result, indegree, ready>>
           ELSE IF indegree[to] = 0
           THEN Ends("internal: degree underflows") /\ UNCHANGED <<indegree, ready>>
           ELSE /\ indegree' = [indegree EXCEPT ![to] = @ - 1]
                /\ ready' = IF indegree[to] = 1 THEN Append(ready, to) ELSE ready
                /\ UNCHANGED <<phase, result>>
    /\ index' = index + 1
    /\ UNCHANGED <<raw, cursor>>

ScanDone ==
    /\ phase = "scan" /\ index \notin Pairs
    /\ phase' = "drain"
    /\ UNCHANGED <<raw, result, indegree, ready, cursor, index>>

\* The queue is empty: a cycle unless every coder was scheduled.
FinishOrderMutant ==   \* the length of the schedule is not compared
    /\ phase = "drain" /\ cursor = Len(ready)
    /\ phase' = "valid"
    /\ UNCHANGED <<raw, result, indegree, ready, cursor, index>>

FinishOrder ==
    /\ phase = "drain" /\ cursor = Len(ready)
    /\ IF Len(order) # raw.coders
       THEN Ends("cycle")
       ELSE phase' = "valid" /\ UNCHANGED result
    /\ UNCHANGED <<raw, indegree, ready, cursor, index>>

(***************************************************************************)
(* A checkpoint that fails, in any loop above: the token is set or the     *)
(* budget exhausted.  Nothing of the validation survives.                  *)
(***************************************************************************)
Interrupted ==
    /\ phase \in {"ports", "seed", "drain", "scan"}
    /\ Ends("interrupted")
    /\ UNCHANGED <<raw, indegree, ready, cursor, index>>

GraphStep == \/ ValidatePorts \/ SeedReady \/ DequeueCoder \/ ScanEdge
             \/ ScanDone \/ FinishOrder

GraphNext == GraphStep \/ Interrupted

GraphSpec == GraphInit /\ [][GraphNext]_graphVars

-----------------------------------------------------------------------------
(***************************************************************************)
(* Reference definition, independent of the algorithm.  Every input is fed *)
(* once, by a bind pair or a packed stream; every output but one feeds one *)
(* input; and no set of coders waits only for itself.                      *)
(***************************************************************************)
Feeders(i) ==
    {<<"pair", k>> : k \in {k \in Pairs : raw.bind_pairs[k].input = i}}
    \cup {<<"packed", j>> : j \in {j \in DOMAIN PackedIndices : PackedIndices[j] = i}}

Consumers(o) == {k \in Pairs : raw.bind_pairs[k].output = o}

PortsInRange ==
    /\ \A k \in Pairs : /\ raw.bind_pairs[k].input \in Inputs
                        /\ raw.bind_pairs[k].output \in Outputs
    /\ raw.listed => \A j \in DOMAIN raw.packed_indices :
                         raw.packed_indices[j] \in Inputs

PortsConnected ==
    /\ PortsInRange
    /\ raw.listed \/ Inputs \ BoundInputs # {}
    /\ \A i \in Inputs : Cardinality(Feeders(i)) = 1
    /\ \E root \in Outputs : \A o \in Outputs :
           Cardinality(Consumers(o)) = IF o = root THEN 0 ELSE 1

Deadlocked(S) == \A c \in S : \E k \in Pairs : Destination(k) = c /\ Source(k) \in S

Cyclic == \E S \in SUBSET Coders : S # {} /\ Deadlocked(S)

(***************************************************************************)
(* The verdict is the reference's: a folder is accepted only when its      *)
(* ports are connected and its coders acyclic, reported as cyclic only     *)
(* when some coders wait for each other, and otherwise malformed           *)
(* (validate_folder_graph, topological_order).                             *)
(***************************************************************************)
VerdictIsReference ==
    /\ phase = "valid" => PortsConnected /\ ~Cyclic
    /\ result = "cycle" => PortsConnected /\ Cyclic
    /\ result = "malformed" => ~PortsConnected

(***************************************************************************)
(* The schedule of an accepted folder names every coder once and each one  *)
(* after the coders whose outputs it reads (topological_coder_order).      *)
(***************************************************************************)
ScheduleIsTopological ==
    phase = "valid" =>
        /\ \A c \in Coders : \E m \in DOMAIN order : order[m] = c
        /\ \A m, n \in DOMAIN order : order[m] = order[n] => m = n
        /\ \A k \in Pairs : \A m, n \in DOMAIN order :
               order[m] = Source(k) /\ order[n] = Destination(k) => m < n

(***************************************************************************)
(* The checked subtraction on a coder's indegree never underflows.         *)
(***************************************************************************)
DegreesNeverUnderflow == result # "internal: degree underflows"
=============================================================================
