------------------------------ MODULE MCCallers ------------------------------
EXTENDS Callers, TLC

\* The real callers are alike.
AlikeCallers == Permutations(Clients \ Dry)
OneWish == {[k \in Keys |-> CHOOSE w \in Values : TRUE]}
=============================================================================
