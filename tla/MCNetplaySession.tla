------------------------- MODULE MCNetplaySession -------------------------
(* A small instance of the netplay session for TLC. *)
EXTENDS NetplaySession

CONSTANTS c1, c2, c3

(* c1 would play both players, c2 the first, and c3 watches. *)
MCWants == [c \in {c1, c2, c3} |-> CASE c = c1 -> {0, 1} [] c = c2 -> {0} [] c = c3 -> {}]

(* A mempak in the first controller of each, a rumble pak in the second. *)
MCPads == [c \in {c1, c2, c3} |-> [i \in 0 .. NumPlayers - 1 |->
            IF i = 0 THEN "mempak" ELSE "rumble"]]

MCFiles == <<"mpk", "eep">>
=============================================================================
