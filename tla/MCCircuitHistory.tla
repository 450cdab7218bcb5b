-------------------------- MODULE MCCircuitHistory --------------------------
EXTENDS CircuitHistory

CONSTANTS c1, c2, c3

ThreeCalls == {c1, c2, c3}

AnyCall == {"call", "probe"}

CallSymmetry == Permutations(Calls)
=============================================================================
