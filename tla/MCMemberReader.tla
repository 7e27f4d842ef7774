--------------------------- MODULE MCMemberReader ---------------------------
(***************************************************************************)
(* A small instance of MemberReader: control chunks of 2 bytes, loop       *)
(* buffers of 4 (two control chunks, as 8192 is to 4096), members of up to *)
(* 5 bytes, caller buffers below, at and above a control chunk, bounded    *)
(* budgets that run out anywhere in a member, and budgets whose consumed   *)
(* counter runs into u64::MAX.                                             *)
(***************************************************************************)
EXTENDS MemberReader

MCMembers ==
    [length : {0, 1, 3, 5}, expected : {"None", "Same", "Other"},
     folder_crc_mismatch : BOOLEAN, encrypted : BOOLEAN]

MCBudgets ==
    {[bounded |-> TRUE, remaining |-> r, consumed |-> 1] : r \in 0..6}
    \cup {[bounded |-> FALSE, remaining |-> 0, consumed |-> c] : c \in {0, 8, 10}}
    \cup {[bounded |-> TRUE, remaining |-> 6, consumed |-> 9]}
=============================================================================
