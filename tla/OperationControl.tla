-------------------------- MODULE OperationControl --------------------------
(***************************************************************************)
(* The per-operation controls that every reader, parser and decoder of     *)
(* un7z threads through its calls: the sticky cancellation token and the   *)
(* work budget (cancel.rs), and the checkpoint that consults both          *)
(* (parse_util.rs).  A budget is a value; the modules that own one keep it *)
(* in a variable and replace it by Charged(budget, units).                 *)
(***************************************************************************)
EXTENDS Integers

CONSTANT U64Max      \* u64::MAX, the largest value of either counter

ASSUME U64MaxAssumption == U64Max \in Nat

(***************************************************************************)
(* WorkBudget { remaining: Option<u64>, consumed: u64 }.  bounded = FALSE  *)
(* stands for remaining = None, and then the field remaining is unused.    *)
(***************************************************************************)
Budget == [bounded : BOOLEAN, remaining : 0..U64Max, consumed : 0..U64Max]

BoundedBudget(units) == [bounded |-> TRUE, remaining |-> units, consumed |-> 0]
UnlimitedBudget      == [bounded |-> FALSE, remaining |-> 0, consumed |-> 0]

(***************************************************************************)
(* charge(units) succeeds exactly when both checked operations do; a       *)
(* failed charge changes nothing.                                          *)
(***************************************************************************)
CanCharge(budget, units) ==
    /\ budget.bounded => units <= budget.remaining
    /\ budget.consumed + units <= U64Max

Charged(budget, units) ==
    [bounded   |-> budget.bounded,
     remaining |-> IF budget.bounded THEN budget.remaining - units
                                     ELSE budget.remaining,
     consumed  |-> budget.consumed + units]

(***************************************************************************)
(* checkpoint(units): the token is consulted before the budget, so a       *)
(* cancelled operation reports Cancelled even when its budget is exhausted *)
(* too.                                                                    *)
(***************************************************************************)
Checkpoint(cancelled, budget, units) ==
    IF cancelled THEN "Cancelled"
    ELSE IF CanCharge(budget, units) THEN "Ok" ELSE "WorkUnits"

\* The largest total that can still be charged.
Headroom(budget) ==
    IF budget.bounded /\ budget.remaining < U64Max - budget.consumed
    THEN budget.remaining
    ELSE U64Max - budget.consumed
=============================================================================
