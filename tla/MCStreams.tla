----------------------------- MODULE MCStreams -----------------------------
EXTENDS Streams

CONSTANTS c1, c2, p1, p2, free

TwoCalls == {c1, c2}
OneProcess == {p1}
TwoProcesses == {p1, p2}
BothKinds == {"shell", "jailed"}
=============================================================================
