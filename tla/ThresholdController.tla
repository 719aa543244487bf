------------------------ MODULE ThresholdController ------------------------
(***************************************************************************)
(* The adaptive merge threshold of dynamic training                        *)
(* (DynamicThresholdController).  A controller is a record; its methods    *)
(* are operators from a controller to the next one.                        *)
(*                                                                         *)
(* The rates the code compares as f64 quotients are compared here as exact *)
(* fractions, by cross multiplication: the rounding of f64 division is not *)
(* modelled.                                                               *)
(***************************************************************************)
EXTENDS Integers

CONSTANTS
    MinThreshold,       \* 2
    MaxThreshold,       \* u8::MAX, 255
    MinCheckInterval    \* 64

ASSUME ThresholdAssumption ==
    /\ MinThreshold \in Nat \ {0}
    /\ MaxThreshold \in Nat
    /\ MinThreshold <= MaxThreshold
    /\ MinCheckInterval \in Nat \ {0}

Controller ==
    [capacity : Nat, scanBudget : Nat, checkInterval : Nat \ {0},
     threshold : MinThreshold .. MaxThreshold,
     entriesCreated : Nat, bytesScanned : Nat,
     entriesAtCheck : Nat, bytesAtCheck : Nat, nextCheckpoint : Nat]

CheckInterval(capacity) ==
    IF capacity \div 128 > MinCheckInterval THEN capacity \div 128 ELSE MinCheckInterval

NewController(capacity, budget) ==
    [capacity       |-> capacity,
     scanBudget     |-> budget,
     checkInterval  |-> CheckInterval(capacity),
     threshold      |-> MinThreshold,
     entriesCreated |-> 0,
     bytesScanned   |-> 0,
     entriesAtCheck |-> 0,
     bytesAtCheck   |-> 0,
     nextCheckpoint |-> CheckInterval(capacity)]

BudgetExhausted(c) == c.bytesScanned > c.scanBudget

OnBytesScanned(c, n) == [c EXCEPT !.bytesScanned = @ + n]

(***************************************************************************)
(* recent rate / target rate, as a fraction: entries created per byte      *)
(* since the last checkpoint, over the entries per byte that would fill    *)
(* the rest of the dictionary with the rest of the budget.  Without a byte *)
(* scanned the recent rate counts as 1e9, above any multiple of a target.  *)
(***************************************************************************)
DeltaEntries(c) == c.entriesCreated - c.entriesAtCheck
DeltaBytes(c) == c.bytesScanned - c.bytesAtCheck
EntriesRemaining(c) ==
    IF c.capacity > c.entriesCreated THEN c.capacity - c.entriesCreated ELSE 1
BytesRemaining(c) ==
    IF c.scanBudget > c.bytesScanned THEN c.scanBudget - c.bytesScanned ELSE 1

TooFast(c) ==
    \/ DeltaBytes(c) <= 0
    \/ DeltaEntries(c) * BytesRemaining(c) > 2 * DeltaBytes(c) * EntriesRemaining(c)
TooSlow(c) ==
    /\ DeltaBytes(c) > 0
    /\ 2 * DeltaEntries(c) * BytesRemaining(c) < DeltaBytes(c) * EntriesRemaining(c)

Rebalance(c) ==
    [c EXCEPT
        !.threshold = IF TooFast(c) /\ @ < MaxThreshold THEN @ + 1
                      ELSE IF TooSlow(c) /\ @ > MinThreshold THEN @ - 1
                      ELSE @,
        !.entriesAtCheck = c.entriesCreated,
        !.bytesAtCheck   = c.bytesScanned,
        !.nextCheckpoint = c.entriesCreated + c.checkInterval]

\* Mutant: the checkpoint is due one entry late.
OnEntryCreated_OneLate(c) ==
    LET created == [c EXCEPT !.entriesCreated = @ + 1]
    IN  IF created.entriesCreated > created.nextCheckpoint THEN Rebalance(created)
        ELSE created

OnEntryCreated(c) ==
    LET created == [c EXCEPT !.entriesCreated = @ + 1]
    IN  IF created.entriesCreated >= created.nextCheckpoint THEN Rebalance(created)
        ELSE created
=============================================================================
