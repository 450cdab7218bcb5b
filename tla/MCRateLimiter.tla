--------------------------- MODULE MCRateLimiter ---------------------------
EXTENDS RateLimiter

CONSTANTS anonymous, premium, blocked

ThreeKeys == {anonymous, premium, blocked}

\* A limit of one, a limit above one, and a limit no call can meet.
Limits == [k \in Keys |-> IF k = anonymous THEN 1 ELSE IF k = premium THEN 3 ELSE 0]
=============================================================================
