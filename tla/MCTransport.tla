----------------------------- MODULE MCTransport -----------------------------
EXTENDS Transport

CONSTANTS q1, q2

TwoRequests == {q1, q2}

\* A tool call and the stream of a session.
OneStream == {q2}
=============================================================================
