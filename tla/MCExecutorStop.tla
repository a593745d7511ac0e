--------------------------- MODULE MCExecutorStop ---------------------------
(* Model checking of ExecutorStop: a job that may be resumed once. *)
EXTENDS ExecutorStop
=============================================================================
