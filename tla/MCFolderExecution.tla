------------------------- MODULE MCFolderExecution -------------------------
(***************************************************************************)
(* Small raw folders with every choice of bind pairs and packed indices:   *)
(* coder counts, input counts and output counts as listed below.  They hold*)
(* chains, two-input joins, a coder with two outputs, rings of two and     *)
(* three coders beside a root, self loops.  Folders of up to SparePorts    *)
(* ports also get an index out of range on either side.                    *)
(***************************************************************************)
EXTENDS FolderExecution

CONSTANT SparePorts

\* Owner vectors of p ports over n coders: contiguous, every coder owns one.
OwnerVectors(n, p) ==
    {f \in [0..(p - 1) -> 0..(n - 1)] :
        /\ \A c \in 0..(n - 1) : \E i \in 0..(p - 1) : f[i] = c
        /\ \A i, j \in 0..(p - 1) : i <= j => f[i] <= f[j]}

RawFoldersOf(n, ins, outs) ==
    LET packed == ins - (outs - 1)
        extra  == IF ins + outs <= SparePorts THEN 1 ELSE 0
    IN  IF packed < 1 THEN {} ELSE
        {[coders |-> n, inputs |-> ins, outputs |-> outs,
          input_owners |-> f, output_owners |-> g,
          bind_pairs |-> pairs, listed |-> packed # 1, packed_indices |-> indices]
         : f \in OwnerVectors(n, ins), g \in OwnerVectors(n, outs),
           pairs \in [1..(outs - 1) -> [input : 0..(ins - 1 + extra),
                                        output : 0..(outs - 1 + extra)]],
           indices \in IF packed = 1 THEN {<<>>}
                       ELSE [1..packed -> 0..(ins - 1 + extra)]}

MCRawFolders ==
    RawFoldersOf(1, 1, 1) \cup RawFoldersOf(1, 2, 1) \cup RawFoldersOf(1, 2, 2)
    \cup RawFoldersOf(2, 2, 2) \cup RawFoldersOf(2, 3, 2) \cup RawFoldersOf(2, 3, 3)
    \cup RawFoldersOf(3, 3, 3) \cup RawFoldersOf(3, 4, 3) \cup RawFoldersOf(4, 4, 4)
=============================================================================
