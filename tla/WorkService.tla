--------------------------- MODULE WorkService ----------------------------
(***************************************************************************)
(* What the work queue promises its callers: work is started in the order  *)
(* it was submitted, each piece once, and all of it is finished when the   *)
(* service goes down.                                                      *)
(***************************************************************************)
EXTENDS Naturals, Sequences

CONSTANT Works

VARIABLES submitted, started, finished, down

Init ==
    /\ submitted = << >>
    /\ started = << >>
    /\ finished = {}
    /\ down = FALSE

Submit(w) ==
    /\ ~down
    /\ ~ \E i \in 1 .. Len(submitted) : submitted[i] = w
    /\ submitted' = Append(submitted, w)
    /\ UNCHANGED <<started, finished, down>>

Start ==
    /\ Len(started) < Len(submitted)
    /\ started' = Append(started, submitted[Len(started) + 1])
    /\ UNCHANGED <<submitted, finished, down>>

Finish(w) ==
    /\ \E i \in 1 .. Len(started) : started[i] = w
    /\ w \notin finished
    /\ finished' = finished \cup {w}
    /\ UNCHANGED <<submitted, started, down>>

GoDown ==
    /\ ~down
    /\ \A i \in 1 .. Len(submitted) : submitted[i] \in finished
    /\ down' = TRUE
    /\ UNCHANGED <<submitted, started, finished>>

Next == (\E w \in Works : Submit(w) \/ Finish(w)) \/ Start \/ GoDown

Spec == Init /\ [][Next]_<<submitted, started, finished, down>>
=============================================================================
