------------------------ MODULE MCSessionAdmission ------------------------
(* A small instance of SessionAdmission for TLC.                           *)
EXTENDS SessionAdmission, TLC

CONSTANTS s1, s2, c1, c2

TwoSessions == {s1, s2}
TwoClients == {c1, c2}
===========================================================================
