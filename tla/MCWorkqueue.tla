--------------------------- MODULE MCWorkqueue ----------------------------
(* Small instances of the work queue for TLC. *)
EXTENDS Workqueue

CONSTANTS t1, t2, w1, w2, w3
=============================================================================
