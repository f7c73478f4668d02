---------------------------- MODULE RoomService ----------------------------
(***************************************************************************)
(* What the relay promises to sockets that each host or enter one room: a  *)
(* room is opened by its owner under a fresh code, guests come and go, and *)
(* the room ends, for everybody at once, when its owner goes.              *)
(***************************************************************************)
CONSTANTS Clients, Codes, None

VARIABLES
    owner,    \* owner[r]: the socket that opened r, None when r is not open
    guests,   \* guests[r]: the sockets in r besides its owner
    entered,  \* the sockets that have opened or entered a room
    used      \* the codes that have named a room

rooms == <<owner, guests, entered, used>>

Init ==
    /\ owner = [r \in Codes |-> None]
    /\ guests = [r \in Codes |-> {}]
    /\ entered = {}
    /\ used = {}

Open(c, r) ==
    /\ c \notin entered
    /\ r \notin used
    /\ owner' = [owner EXCEPT ![r] = c]
    /\ entered' = entered \cup {c}
    /\ used' = used \cup {r}
    /\ UNCHANGED guests

Enter(c, r) ==
    /\ c \notin entered
    /\ owner[r] # None
    /\ guests' = [guests EXCEPT ![r] = @ \cup {c}]
    /\ entered' = entered \cup {c}
    /\ UNCHANGED <<owner, used>>

Leave(c, r) ==
    /\ c \in guests[r]
    /\ guests' = [guests EXCEPT ![r] = @ \ {c}]
    /\ UNCHANGED <<owner, entered, used>>

Dissolve(r) ==
    /\ owner[r] # None
    /\ owner' = [owner EXCEPT ![r] = None]
    /\ guests' = [guests EXCEPT ![r] = {}]
    /\ UNCHANGED <<entered, used>>

Next ==
    \E r \in Codes :
        \/ \E c \in Clients : Open(c, r) \/ Enter(c, r) \/ Leave(c, r)
        \/ Dissolve(r)

Spec == Init /\ [][Next]_rooms
=============================================================================
