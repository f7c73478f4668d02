------------------------------ MODULE InputLog ------------------------------
(***************************************************************************)
(* What netplay promises the emulated game: each player has one log of     *)
(* inputs, and every client reads every log from its start, one entry at a *)
(* time, whatever happens to the datagrams in between.                     *)
(***************************************************************************)
EXTENDS Naturals, Sequences

CONSTANTS Clients, Players, Keys

VARIABLES
    log,   \* log[p]: the inputs of player p
    fed    \* fed[c][p]: those client c has played

Init ==
    /\ log = [p \in Players |-> << >>]
    /\ fed = [c \in Clients |-> [p \in Players |-> << >>]]

Assign(p) ==
    /\ \E k \in Keys : log' = [log EXCEPT ![p] = Append(@, k)]
    /\ UNCHANGED fed

Feed(c, p) ==
    /\ Len(fed[c][p]) < Len(log[p])
    /\ fed' = [fed EXCEPT ![c][p] = Append(@, log[p][Len(@) + 1])]
    /\ UNCHANGED log

Next == \E p \in Players : Assign(p) \/ \E c \in Clients : Feed(c, p)

Spec == Init /\ [][Next]_<<log, fed>>
=============================================================================
