-------------------------- MODULE MCCircuitBreaker --------------------------
EXTENDS CircuitBreaker

CONSTANTS c1, c2, c3

ThreeCalls == {c1, c2, c3}

NoCall       == {}
OrdinaryCall == {"call"}
AnyCall      == {"call", "probe"}
=============================================================================
