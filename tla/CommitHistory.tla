----------------------------- MODULE CommitHistory -----------------------------
(***************************************************************************)
(* What the catalog's log and checkpoints promise together: one history of *)
(* transactions.  A transaction is published whole, and only when every    *)
(* one before it is known to be durable; a power loss takes back at most   *)
(* the last.  Compaction, cleanup and recovery do not show.                *)
(***************************************************************************)
EXTENDS Sequences

CONSTANT Tx

VARIABLES
    history,   \* the transactions a reader sees
    sure       \* those that survive a power loss

vars == <<history, sure>>

Init == history = <<>> /\ sure = <<>>

Publish ==
    /\ history = sure
    /\ \E t \in Tx : history' = Append(history, t)
    /\ UNCHANGED sure

Settle == sure' = history /\ UNCHANGED history

Lose == history' = sure /\ UNCHANGED sure

Next == Publish \/ Settle \/ Lose

Spec == Init /\ [][Next]_vars
================================================================================
