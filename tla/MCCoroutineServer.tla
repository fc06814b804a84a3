------------------------- MODULE MCCoroutineServer --------------------------
\* Two clients.
EXTENDS CoroutineServer

CONSTANTS c1, c2

MCClient == {c1, c2}

\* One client sends two requests, of which the second may be empty; the other
\* one of any kind.
MCSends(c, n) ==
  IF c = c2 THEN (IF n = 1 THEN Kind ELSE {})
  ELSE IF n = 1 THEN {"known"} ELSE {"known", "empty"}
=============================================================================
