---------------------------- MODULE MCToolServer ----------------------------
EXTENDS ToolServer, TLC

CONSTANTS geocode, current, premium, h1, h2

ThreeNames  == {geocode, current, premium}
TwoHandlers == {h1, h2}

Symmetry == Permutations(Names) \cup Permutations(Handlers)
=============================================================================
