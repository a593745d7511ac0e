------------------------- MODULE MCThreadResidency -------------------------
(* Small instances of ThreadResidency for TLC.                              *)
EXTENDS ThreadResidency, TLC

CONSTANTS u1, u2, k1, k2, b1

TwoUsers == {u1, u2}
TwoKeys == {k1, k2}
OneBlocker == {b1}
=============================================================================
