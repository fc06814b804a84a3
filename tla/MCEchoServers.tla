---------------------------- MODULE MCEchoServers ----------------------------
(***************************************************************************)
(* Instance of EchoServers for TLC: one client that asks up to three       *)
(* times, running ahead of the answers, and one that asks once.            *)
(***************************************************************************)
EXTENDS EchoServers

CONSTANTS c1, c2

MCMaxAsked == [c \in Client |-> IF c = c1 THEN 3 ELSE 1]

\* The shortest and the longest line, then a short one.
MCTyped(k) == IF k = 1 THEN {0, 2047} ELSE {k}
=============================================================================
