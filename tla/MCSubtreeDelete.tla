--------------------------- MODULE MCSubtreeDelete ---------------------------
(* Small instances of SubtreeDelete for TLC: a folder with a Session, a      *)
(* Session beside it and one that is published later.                        *)
EXTENDS SubtreeDelete, TLC

CONSTANTS f, a, b, d1, d2, top

TwoSessions == {a, b}
OneFolder == {f}
TwoOps == {d1, d2}
FolderAndSession == (f :> top) @@ (a :> f)
=============================================================================
