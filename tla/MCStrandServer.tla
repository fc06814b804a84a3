--------------------------- MODULE MCStrandServer ---------------------------
\* Two threads, interchangeable where no liveness is checked, and one client or
\* two.
EXTENDS StrandServer, TLC

CONSTANTS c1, c2, t1, t2

MCOne == {c1}
MCTwo == {c1, c2}
MCThread == {t1, t2}

\* One client sends well-formed requests, the other a single one that is too
\* long.
MCSends(c, n) ==
  IF c = c1 THEN {"known"} ELSE IF n = 1 THEN {"oversize"} ELSE {}

\* Requests of all kinds.
MCAll(c, n) == Kind

ThreadsInterchangeable == Permutations(MCThread)
=============================================================================
