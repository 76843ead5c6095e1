-------------------------------- MODULE MCWatch --------------------------------
EXTENDS Watch, TLC

CONSTANTS a, b, i, j, r

BothBelowR == [c \in {a, b} |-> r]
ABelowR == [c \in {a} |-> r]
OnlyAHoldsI == (a :> i) @@ (b :> None)
AHoldsI == [c \in {a} |-> i]
=============================================================================
