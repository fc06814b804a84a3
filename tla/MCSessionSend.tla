--------------------------- MODULE MCSessionSend ----------------------------
\* Two callers of send(): the logic thread and any other.
EXTENDS SessionSend

CONSTANTS s1, s2

MCSender == {s1, s2}
=============================================================================
