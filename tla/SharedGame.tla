----------------------------- MODULE SharedGame -----------------------------
(***************************************************************************)
(* What starting a netplay game promises: for each thing the emulators     *)
(* have to agree on, a client that takes it up takes the value the others  *)
(* have taken up.  A client may drop out at any time; a thing may stop     *)
(* mattering (the controller of a player who has left) and is dropped by   *)
(* everybody at once.                                                      *)
(***************************************************************************)
CONSTANTS Clients, Parts, Values, Unknown

VARIABLES
    known,  \* known[c][x]: what c plays with for x
    alive   \* the parts that still matter

game == <<known, alive>>

Init ==
    /\ known = [c \in Clients |-> [x \in Parts |-> Unknown]]
    /\ alive = Parts

(* c takes up some of the parts that matter, each with the value that the  *)
(* others who have it play with, and changes its mind on none.             *)
Learn(c) ==
    /\ known' \in [Clients -> [Parts -> Values \cup {Unknown}]]
    /\ \A x \in Parts : known'[c][x] # known[c][x] =>
        /\ x \in alive /\ known[c][x] = Unknown
        /\ \A d \in Clients : known[d][x] \in {Unknown, known'[c][x]}
    /\ \A d \in Clients \ {c} : known'[d] = known[d]
    /\ UNCHANGED alive

Drop(c) ==
    /\ known' = [known EXCEPT ![c] = [x \in Parts |-> Unknown]]
    /\ UNCHANGED alive

Retire ==
    /\ alive' \in SUBSET alive
    /\ known' = [c \in Clients |->
                    [x \in Parts |-> IF x \in alive' THEN known[c][x] ELSE Unknown]]

Next == Retire \/ \E c \in Clients : Learn(c) \/ Drop(c)

Spec == Init /\ [][Next]_game
=============================================================================
