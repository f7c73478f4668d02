----------------------------- MODULE MCNetplay -----------------------------
(* Small instances of the netplay clients for TLC. *)
EXTENDS Netplay

CONSTANTS c1, c2

(* c1 controls player 0; c2 controls player 1, or watches. *)
MCOwner == [p \in 0 .. NumPlayers - 1 |-> IF p = 0 THEN c1 ELSE c2]
=============================================================================
