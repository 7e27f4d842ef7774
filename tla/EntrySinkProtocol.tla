------------------------- MODULE EntrySinkProtocol -------------------------
(***************************************************************************)
(* What Archive::extract_entries_to promises the EntrySink it drives,      *)
(* whatever folders, limits, cancellation and callbacks do: members come   *)
(* one at a time in archive order; a member's chunks add up to the size it *)
(* was announced with; it is finished only when complete and intact; after *)
(* an error nothing is started or finished any more; and success means     *)
(* that every extractable member was finished.                             *)
(***************************************************************************)
EXTENDS Integers, FiniteSets

VARIABLES
    extractable,  \* the members that produce sink events (never changes)
    intact,       \* those whose applicable CRCs agree (never changes)
    open,         \* the begun member that is not finished yet, or 0
    announced,    \* the size given to begin_entry
    received,     \* bytes written to the open member
    last,         \* the highest member begun so far, or 0
    finished,     \* members for which finish_entry succeeded
    returned      \* "running" | "Ok" | "Err"

vars == <<extractable, intact, open, announced, received, last, finished, returned>>

Init ==
    /\ extractable \subseteq Nat \ {0}
    /\ intact \subseteq extractable
    /\ open = 0 /\ announced = 0 /\ received = 0 /\ last = 0
    /\ finished = {}
    /\ returned = "running"

Begin(m) ==
    /\ returned = "running" /\ open = 0
    /\ m \in extractable /\ m > last
    /\ \A e \in extractable : e < m => e \in finished   \* none is skipped
    /\ open' = m /\ last' = m /\ announced' \in Nat /\ received' = 0
    /\ UNCHANGED <<extractable, intact, finished, returned>>

Write ==
    /\ returned = "running" /\ open # 0
    /\ received' \in (received + 1)..announced
    /\ UNCHANGED <<extractable, intact, open, announced, last, finished, returned>>

Finish ==
    /\ returned = "running" /\ open # 0
    /\ received = announced /\ open \in intact
    /\ finished' = finished \cup {open}
    /\ open' = 0
    /\ UNCHANGED <<extractable, intact, announced, received, last, returned>>

ReturnOk ==
    /\ returned = "running" /\ open = 0 /\ finished = extractable
    /\ returned' = "Ok"
    /\ UNCHANGED <<extractable, intact, open, announced, received, last, finished>>

ReturnErr ==
    /\ returned = "running"
    /\ returned' = "Err"
    /\ UNCHANGED <<extractable, intact, open, announced, received, last, finished>>

Next == (\E m \in extractable : Begin(m)) \/ Write \/ Finish \/ ReturnOk \/ ReturnErr

Spec == Init /\ [][Next]_vars
=============================================================================
