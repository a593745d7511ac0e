-------------------------- MODULE MCNavigationQueue --------------------------
(* Small instances of NavigationQueue for TLC: an edit, a second edit that    *)
(* refers to it, a deletion, and an automatic title.                          *)
EXTENDS NavigationQueue, TLC

CONSTANTS e1, e2, d, t, p1, p2

FourOps == {e1, e2, d, t}
OneDelete == {d}
OneTitle == {t}
TwoProcs == {p1, p2}

Chain == (e1 :> {}) @@ (e2 :> {e1}) @@ (d :> {e2}) @@ (t :> {})
ManyBatches == {<<e1, e2>>, <<e2, e1>>, <<e1>>, <<e2, d>>, <<t>>}
=============================================================================
