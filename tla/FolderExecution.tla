-------------------------- MODULE FolderExecution --------------------------
(***************************************************************************)
(* decode_folder (execute.rs) on a folder that FolderGraph accepted: load  *)
(* the packed streams into their input ports, run every coder in schedule  *)
(* order, moving its output to the input port bound to it or to the root   *)
(* slot, and collect the root stream.  The executor re-checks at run time  *)
(* what the validator promised; each of those checks is an "internal"      *)
(* outcome here.                                                           *)
(*                                                                         *)
(* A stream is its producer and the packed streams its bytes derive from.  *)
(***************************************************************************)
EXTENDS FolderGraph

CONSTANT SupportedInputs   \* input counts of registered methods: {1, 4}

VARIABLES
    stage,          \* "idle" | "load" | "run" | "done"
    outcome,        \* "none" while running, then what decode_folder returned
    loaded,         \* packed streams already in their ports
    step,           \* coders already run
    input_ports,    \* Vec<Option<Vec<u8>>>
    output_ports,   \* Vec<Option<Vec<u8>>>
    destinations    \* output_destinations: the input bound to an output

execVars == <<stage, outcome, loaded, step, input_ports, output_ports, destinations>>
vars     == <<graphVars, execVars>>

None    == [from |-> "none", id |-> 0, packed |-> {}]
NoInput == -1

PackedStream(j) == [from |-> "packed", id |-> j, packed |-> {j}]

IsSome(port) == port.from # "none"

InputsOf(c)  == {i \in Inputs : raw.input_owners[i] = c}
OutputsOf(c) == {o \in Outputs : raw.output_owners[o] = c}
OutputOf(c)  == CHOOSE o \in Outputs : raw.output_owners[o] = c

\* What coder c produces from the streams in its ports.
DecodedStream(c) ==
    [from |-> "coder", id |-> c,
     packed |-> UNION {input_ports[i].packed : i \in InputsOf(c)}]

Terminates(result_) == stage' = "done" /\ outcome' = result_

-----------------------------------------------------------------------------
ExecInit ==
    /\ stage = "idle"
    /\ outcome = "none"
    /\ loaded = 0
    /\ step = 0
    /\ input_ports = [i \in Inputs |-> None]
    /\ output_ports = [o \in Outputs |-> None]
    /\ destinations = [o \in Outputs |-> NoInput]

Init == GraphInit /\ ExecInit

(***************************************************************************)
(* The preamble: every coder must be registered with the arity of its      *)
(* method before any packed byte is copied; output_destinations inverts    *)
(* the bind pairs.                                                         *)
(***************************************************************************)
RegisterCoders ==
    /\ phase = "valid" /\ stage = "idle"
    /\ IF \A c \in Coders : /\ Cardinality(OutputsOf(c)) = 1
                            /\ Cardinality(InputsOf(c)) \in SupportedInputs
       THEN /\ stage' = "load"
            /\ destinations' =
                 [o \in Outputs |->
                    IF o \in BoundOutputs
                    THEN raw.bind_pairs[CHOOSE k \in Pairs :
                                          raw.bind_pairs[k].output = o].input
                    ELSE NoInput]
            /\ UNCHANGED outcome
       ELSE Terminates("unsupported") /\ UNCHANGED destinations
    /\ UNCHANGED <<graphVars, loaded, step, input_ports, output_ports>>

\* The port of the packed stream with this ordinal (from 1).
PackedPortMutant(ordinal) == PackedIndices[Len(PackedIndices) + 1 - ordinal]

PackedPort(ordinal) == PackedIndices[ordinal]

\* One iteration of load_packed_inputs.
LoadPackedInput ==
    /\ stage = "load"
    /\ IF loaded < Len(PackedIndices)
       THEN LET port == PackedPort(loaded + 1)
            IN  IF IsSome(input_ports[port])
                THEN /\ Terminates("internal: packed port populated twice")
                     /\ UNCHANGED <<loaded, input_ports>>
                ELSE /\ input_ports' = [input_ports EXCEPT
                                          ![port] = PackedStream(loaded + 1)]
                     /\ loaded' = loaded + 1
                     /\ UNCHANGED <<stage, outcome>>
       ELSE stage' = "run" /\ UNCHANGED <<outcome, loaded, input_ports>>
    /\ UNCHANGED <<graphVars, step, output_ports, destinations>>

(***************************************************************************)
(* One iteration of the schedule loop: take the coder's inputs, decode,    *)
(* take the destination of its output and move the output there.           *)
(***************************************************************************)
RunCoder ==
    /\ stage = "run" /\ step < Len(order)
    /\ LET c      == order[step + 1]
           taken  == [i \in Inputs |-> IF i \in InputsOf(c) THEN None
                                                            ELSE input_ports[i]]
           slot   == OutputOf(c)
           target == destinations[slot]
       IN  IF \E i \in InputsOf(c) : ~IsSome(input_ports[i])
           THEN /\ Terminates("internal: input stream unavailable")
                /\ UNCHANGED <<step, input_ports, output_ports, destinations>>
           ELSE /\ destinations' = [destinations EXCEPT ![slot] = NoInput]
                /\ step' = step + 1
                /\ IF target # NoInput
                   THEN /\ input_ports' = [taken EXCEPT ![target] = DecodedStream(c)]
                        /\ UNCHANGED output_ports
                        /\ IF IsSome(taken[target])
                           THEN Terminates("internal: bound input populated twice")
                           ELSE UNCHANGED <<stage, outcome>>
                   ELSE /\ output_ports' = [output_ports EXCEPT ![slot] = DecodedStream(c)]
                        /\ input_ports' = taken
                        /\ IF IsSome(output_ports[slot])
                           THEN Terminates("internal: root populated twice")
                           ELSE UNCHANGED <<stage, outcome>>
    /\ UNCHANGED <<graphVars, loaded>>

\* The checks after the loop.
CollectRoot ==
    /\ stage = "run" /\ step = Len(order)
    /\ Terminates(
         IF \E i \in Inputs : IsSome(input_ports[i])
         THEN "internal: input stream unconsumed"
         ELSE IF ~IsSome(output_ports[Root])
         THEN "internal: root stream unavailable"
         ELSE IF \E o \in Outputs \ {Root} : IsSome(output_ports[o])
         THEN "internal: multiple root streams"
         ELSE "decoded")
    /\ UNCHANGED <<graphVars, loaded, step, input_ports, output_ports, destinations>>

(***************************************************************************)
(* Every error a legal folder may end in: a dictionary or output limit, a  *)
(* packed-stream CRC, a decoder's error, a failing checkpoint.             *)
(***************************************************************************)
ExecutionFails ==
    /\ phase = "valid" /\ stage # "done"
    /\ Terminates("error")
    /\ UNCHANGED <<graphVars, loaded, step, input_ports, output_ports, destinations>>

ExecStep == RegisterCoders \/ LoadPackedInput \/ RunCoder \/ CollectRoot

Next == \/ GraphNext /\ UNCHANGED execVars
        \/ ExecStep
        \/ ExecutionFails

Spec == Init /\ [][Next]_vars

-----------------------------------------------------------------------------
Internal == {"internal: packed port populated twice",
             "internal: input stream unavailable",
             "internal: bound input populated twice",
             "internal: root populated twice",
             "internal: input stream unconsumed",
             "internal: root stream unavailable",
             "internal: multiple root streams"}

(***************************************************************************)
(* No accepted folder reaches one of the executor's internal errors:       *)
(* streams are there when a coder takes them, no port is filled twice,     *)
(* nothing is left over (decode_folder, load_packed_inputs); nor does the  *)
(* validator's own checked subtraction underflow (topological_order).      *)
(***************************************************************************)
NoInternalError == outcome \notin Internal /\ DegreesNeverUnderflow

(***************************************************************************)
(* Routing: a port holds the packed stream of its ordinal or the output of *)
(* the coder bound to it, never another stream ("route the wrong bytes");  *)
(* and the root stream of a decoded folder comes from the coder that owns  *)
(* the root output and derives from every packed stream, so that no branch *)
(* of an accepted graph is decoded in vain.                                *)
(***************************************************************************)
StreamsRoutedAsBound ==
    /\ \A i \in Inputs :
          /\ input_ports[i].from = "packed" =>
                 PackedIndices[input_ports[i].id] = i
          /\ input_ports[i].from = "coder" =>
                 \E k \in Pairs : /\ raw.bind_pairs[k].input = i
                                  /\ Source(k) = input_ports[i].id
    /\ outcome = "decoded" =>
          /\ output_ports[Root].id = raw.output_owners[Root]
          /\ output_ports[Root].packed = DOMAIN PackedIndices
=============================================================================
