------------------------- MODULE MCSessionCreation -------------------------
(* Small instances of SessionCreation for TLC: a fork and a normal creation *)
(* under one parent.                                                        *)
EXTENDS SessionCreation, TLC

CONSTANTS s1, s2

TwoSessions == {s1, s2}
OneFork == {s1}
=============================================================================
