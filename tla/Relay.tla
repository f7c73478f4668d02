------------------------------- MODULE Relay -------------------------------
(***************************************************************************)
(* The WebSocket relay of server/server.js.  One Node process keeps the    *)
(* room store and three fields on every socket; each "message" and "close" *)
(* event runs to completion in one turn of the event loop, so each handler *)
(* is one action.                                                          *)
(*                                                                         *)
(* A room's player and spectator arrays are kept as multiplicities: push   *)
(* adds one entry, filter removes them all, and forEach reaches each entry *)
(* once.  The order of the entries is not observable by any one client.    *)
(***************************************************************************)
EXTENDS Naturals, Sequences

CONSTANTS
    Clients,          \* the sockets that ever connect
    Codes,            \* the values generateRoomCode can return
    None,             \* null
    MaxMessages,      \* bound: messages one socket sends that are not ignored
    OneRolePerSocket, \* a socket never hosts or enters a second room
    UniqueCodes       \* generateRoomCode never returns a code twice

ASSUME ConstantsAssumption ==
    /\ None \notin Clients
    /\ None \notin Codes
    /\ MaxMessages \in Nat
    /\ OneRolePerSocket \in BOOLEAN
    /\ UniqueCodes \in BOOLEAN

VARIABLES
    conn,        \* the life of a socket, see Conn
    role,        \* ws.role
    roomCode,    \* ws.roomCode
    host,        \* rooms[r].host, None when the room store has no r
    players,     \* players[r][c]: entries of c in rooms[r].players
    spectators,  \* spectators[r][c]: entries of c in rooms[r].spectators
    issued,      \* the codes generateRoomCode has returned
    outbox,      \* the frames the server has sent on each socket, in order
    turns        \* the number of messages handled for each socket

store == <<host, players, spectators, issued>>
fields == <<role, roomCode>>
vars == <<conn, store, fields, outbox, turns>>

-----------------------------------------------------------------------------
(* EVICTED: the server called close(), the peer may still send; LEAVING:   *)
(* the peer closed.  Both have readyState CLOSING.                         *)
Conn == {"NEW", "OPEN", "EVICTED", "LEAVING", "CLOSED"}

Role == {"none", "host", "player", "spectator"}

Frame == [type : {"room_created", "joined", "spectating"}, code : Codes]
    \cup [type : {"error"}]
    \cup [type : {"player_joined"}, id : Clients]
    \cup [type : {"input"}, id : Clients, n : Nat]
    \cup [type : {"state"}, id : Clients, n : Nat, code : Codes]

Nobody == [c \in Clients |-> 0]

Members(r) == {c \in Clients : players[r][c] > 0 \/ spectators[r][c] > 0}

TypeOK ==
    /\ conn \in [Clients -> Conn]
    /\ role \in [Clients -> Role]
    /\ roomCode \in [Clients -> Codes \cup {None}]
    /\ host \in [Codes -> Clients \cup {None}]
    /\ players \in [Codes -> [Clients -> Nat]]
    /\ spectators \in [Codes -> [Clients -> Nat]]
    /\ issued \in SUBSET Codes
    /\ outbox \in [Clients -> Seq(Frame)]
    /\ turns \in [Clients -> 0 .. MaxMessages]

Init ==
    /\ conn = [c \in Clients |-> "NEW"]
    /\ role = [c \in Clients |-> "none"]
    /\ roomCode = [c \in Clients |-> None]
    /\ host = [r \in Codes |-> None]
    /\ players = [r \in Codes |-> Nobody]
    /\ spectators = [r \in Codes |-> Nobody]
    /\ issued = {}
    /\ outbox = [c \in Clients |-> << >>]
    /\ turns = [c \in Clients |-> 0]

-----------------------------------------------------------------------------
(* ws.send drops the frame silently unless readyState is OPEN. *)
Send(box, c, f) ==
    IF conn[c] = "OPEN" THEN [box EXCEPT ![c] = Append(@, f)] ELSE box

Copies(f, k) == [i \in 1 .. k |-> f]

Broadcast(box, count, f) ==
    [c \in Clients |->
        IF conn[c] = "OPEN" THEN box[c] \o Copies(f, count[c]) ELSE box[c]]

Turn(c) ==
    /\ conn[c] \in {"OPEN", "EVICTED"}
    /\ turns[c] < MaxMessages
    /\ turns' = [turns EXCEPT ![c] = @ + 1]

MayEnter(c) == OneRolePerSocket => role[c] = "none"

Become(c, ro, r) ==
    /\ role' = [role EXCEPT ![c] = ro]
    /\ roomCode' = [roomCode EXCEPT ![c] = r]

Connect(c) ==
    /\ conn[c] = "NEW"
    /\ conn' = [conn EXCEPT ![c] = "OPEN"]
    /\ UNCHANGED <<store, fields, outbox, turns>>

(* A message of type "host". *)
Host(c, r) ==
    /\ Turn(c)
    /\ MayEnter(c)
    /\ UniqueCodes => r \notin issued
    /\ issued' = issued \cup {r}
    /\ host' = [host EXCEPT ![r] = c]
    /\ players' = [players EXCEPT ![r] = Nobody]
    /\ spectators' = [spectators EXCEPT ![r] = Nobody]
    /\ Become(c, "host", r)
    /\ outbox' = Send(outbox, c, [type |-> "room_created", code |-> r])
    /\ UNCHANGED conn

(* A message of type "join" or "spectate" that names no room. *)
NotFound(c, r) ==
    /\ Turn(c)
    /\ MayEnter(c)
    /\ host[r] = None
    /\ outbox' = Send(outbox, c, [type |-> "error"])
    /\ UNCHANGED <<conn, store, fields>>

(* Mutant: the host is not told of the player. *)
JoinUnannounced(c, r) ==
    /\ Turn(c)
    /\ MayEnter(c)
    /\ host[r] # None
    /\ Become(c, "player", r)
    /\ players' = [players EXCEPT ![r][c] = @ + 1]
    /\ outbox' = Send(outbox, c, [type |-> "joined", code |-> r])
    /\ UNCHANGED <<conn, host, spectators, issued>>

(* A message of type "join".  A code that is drawn is never a name that    *)
(* every object has, such as "constructor"; messages with those are left   *)
(* out (lines 34-41, 92).                                                  *)
Join(c, r) ==
    /\ Turn(c)
    /\ MayEnter(c)
    /\ host[r] # None
    /\ Become(c, "player", r)
    /\ players' = [players EXCEPT ![r][c] = @ + 1]
    /\ outbox' = Send(Send(outbox, host[r], [type |-> "player_joined", id |-> c]),
                      c, [type |-> "joined", code |-> r])
    /\ UNCHANGED <<conn, host, spectators, issued>>

(* Mutant: a spectator is pushed to the players as well. *)
SpectateTwice(c, r) ==
    /\ Turn(c)
    /\ MayEnter(c)
    /\ host[r] # None
    /\ Become(c, "spectator", r)
    /\ players' = [players EXCEPT ![r][c] = @ + 1]
    /\ spectators' = [spectators EXCEPT ![r][c] = @ + 1]
    /\ outbox' = Send(outbox, c, [type |-> "spectating", code |-> r])
    /\ UNCHANGED <<conn, host, issued>>

(* A message of type "spectate". *)
Spectate(c, r) ==
    /\ Turn(c)
    /\ MayEnter(c)
    /\ host[r] # None
    /\ Become(c, "spectator", r)
    /\ spectators' = [spectators EXCEPT ![r][c] = @ + 1]
    /\ outbox' = Send(outbox, c, [type |-> "spectating", code |-> r])
    /\ UNCHANGED <<conn, host, players, issued>>

InRoom(c) == roomCode[c] # None /\ host[roomCode[c]] # None

(* A message of type "input" from a player goes to the host of its room.   *)
PlayerInput(c) ==
    /\ Turn(c)
    /\ InRoom(c)
    /\ role[c] = "player"
    /\ outbox' = Send(outbox, host[roomCode[c]],
                      [type |-> "input", id |-> c, n |-> turns'[c]])
    /\ UNCHANGED <<conn, store, fields>>

(* Mutant: a host's state is sent to every room. *)
HostStateEverywhere(c) ==
    /\ Turn(c)
    /\ InRoom(c)
    /\ role[c] = "host"
    /\ LET inAny == [d \in Clients |->
                        IF \E r \in Codes : d \in Members(r) THEN 1 ELSE 0]
       IN outbox' = Broadcast(outbox, inAny,
                        [type |-> "state", id |-> c, n |-> turns'[c],
                         code |-> roomCode[c]])
    /\ UNCHANGED <<conn, store, fields>>

(* A message of type "input" from a host goes to every entry of both       *)
(* lists.  The frame carries its sender and room here so that properties   *)
(* can name them.  Any other "input" is ignored, which is a stuttering step.          *)
HostState(c) ==
    /\ Turn(c)
    /\ InRoom(c)
    /\ role[c] = "host"
    /\ LET r == roomCode[c]
           entries == [d \in Clients |-> players[r][d] + spectators[r][d]]
       IN outbox' = Broadcast(outbox, entries,
                              [type |-> "state", id |-> c, n |-> turns'[c], code |-> r])
    /\ UNCHANGED <<conn, store, fields>>

(* The peer's close frame, or the loss of its connection. *)
PeerCloses(c) ==
    /\ conn[c] \in {"OPEN", "EVICTED"}
    /\ conn' = [conn EXCEPT ![c] = "LEAVING"]
    /\ UNCHANGED <<store, fields, outbox, turns>>

(* The "close" event comes after the closing handshake, or its timer. *)
Closing(c) == conn[c] \in {"EVICTED", "LEAVING"}

Evict(c, S) ==
    [d \in Clients |->
        IF d = c THEN "CLOSED"
        ELSE IF d \in S /\ conn[d] = "OPEN" THEN "EVICTED"
        ELSE conn[d]]

(* Mutants: only the players are closed; the room is emptied, not deleted. *)
HostClosedPlayersOnly(c) ==
    /\ Closing(c)
    /\ InRoom(c)
    /\ role[c] = "host"
    /\ conn' = Evict(c, {d \in Clients : players[roomCode[c]][d] > 0})
    /\ host' = [host EXCEPT ![roomCode[c]] = None]
    /\ players' = [players EXCEPT ![roomCode[c]] = Nobody]
    /\ spectators' = [spectators EXCEPT ![roomCode[c]] = Nobody]
    /\ UNCHANGED <<issued, fields, outbox, turns>>

HostClosedKeepsRoom(c) ==
    /\ Closing(c)
    /\ InRoom(c)
    /\ role[c] = "host"
    /\ conn' = Evict(c, Members(roomCode[c]))
    /\ players' = [players EXCEPT ![roomCode[c]] = Nobody]
    /\ spectators' = [spectators EXCEPT ![roomCode[c]] = Nobody]
    /\ UNCHANGED <<host, issued, fields, outbox, turns>>

HostClosed(c) ==
    /\ Closing(c)
    /\ InRoom(c)
    /\ role[c] = "host"
    /\ conn' = Evict(c, Members(roomCode[c]))
    /\ host' = [host EXCEPT ![roomCode[c]] = None]
    /\ players' = [players EXCEPT ![roomCode[c]] = Nobody]
    /\ spectators' = [spectators EXCEPT ![roomCode[c]] = Nobody]
    /\ UNCHANGED <<issued, fields, outbox, turns>>

(* Mutant: only one list is filtered. *)
GuestClosedOneList(c) ==
    /\ Closing(c)
    /\ InRoom(c)
    /\ role[c] # "host"
    /\ conn' = [conn EXCEPT ![c] = "CLOSED"]
    /\ players' = [players EXCEPT ![roomCode[c]][c] = 0]
    /\ UNCHANGED <<host, spectators, issued, fields, outbox, turns>>

GuestClosed(c) ==
    /\ Closing(c)
    /\ InRoom(c)
    /\ role[c] # "host"
    /\ conn' = [conn EXCEPT ![c] = "CLOSED"]
    /\ players' = [players EXCEPT ![roomCode[c]][c] = 0]
    /\ spectators' = [spectators EXCEPT ![roomCode[c]][c] = 0]
    /\ UNCHANGED <<host, issued, fields, outbox, turns>>

StrayClosed(c) ==
    /\ Closing(c)
    /\ ~InRoom(c)
    /\ conn' = [conn EXCEPT ![c] = "CLOSED"]
    /\ UNCHANGED <<store, fields, outbox, turns>>

CloseEvent(c) == HostClosed(c) \/ GuestClosed(c) \/ StrayClosed(c)

Next ==
    \E c \in Clients :
        \/ Connect(c)
        \/ \E r \in Codes :
            Host(c, r) \/ NotFound(c, r) \/ Join(c, r) \/ Spectate(c, r)
        \/ PlayerInput(c)
        \/ HostState(c)
        \/ PeerCloses(c)
        \/ CloseEvent(c)

Spec == Init /\ [][Next]_vars

-----------------------------------------------------------------------------
Live(c, r) == roomCode[c] = r /\ conn[c] # "CLOSED"

RoomExact(r) ==
    IF host[r] = None THEN Members(r) = {}
    ELSE /\ role[host[r]] = "host"
         /\ Live(host[r], r)
         /\ \A c \in Clients :
             /\ players[r][c] = IF Live(c, r) /\ role[c] = "player" THEN 1 ELSE 0
             /\ spectators[r][c] = IF Live(c, r) /\ role[c] = "spectator" THEN 1 ELSE 0

(* The room store and the socket fields agree: an open room lists exactly  *)
(* the live sockets whose role and roomCode say so, once each, and its     *)
(* host is live.  The handlers keep the two in step only by hand (lines    *)
(* 26-28, 39-41, 53-55, 84-93).                                            *)
RosterExact == \A r \in Codes : RoomExact(r)

States(c) == {i \in DOMAIN outbox[c] : outbox[c][i].type = "state"}

Latest(c, i) == \A k \in States(c) : k <= i

Adjacent(c, i, j) == i < j /\ \A k \in States(c) : k <= i \/ j <= k

(* The states a guest receives are those of one host, consecutive, without *)
(* gap or duplicate, and a guest still in the room that has received any   *)
(* state has the last one (lines 68-75).                                   *)
StateStream ==
    \A c \in Clients :
        /\ \A i, j \in States(c) : Adjacent(c, i, j) =>
            /\ outbox[c][j].id = outbox[c][i].id
            /\ outbox[c][j].n = outbox[c][i].n + 1
        /\ \A i \in States(c) : Latest(c, i) /\ conn[c] = "OPEN" =>
            outbox[c][i].n = turns[outbox[c][i].id]

(* A host hears an input only from a player it was told about before: the  *)
(* announcement of line 42 precedes every relayed input of line 66.        *)
InputAnnounced ==
    \A h \in Clients : \A i \in 1 .. Len(outbox[h]) :
        outbox[h][i].type = "input" =>
            \E j \in 1 .. i - 1 :
                outbox[h][j] = [type |-> "player_joined", id |-> outbox[h][i].id]

(* A socket receives the state of a room only after a "joined" or          *)
(* "spectating" frame admitted it to that room code, whatever rooms the    *)
(* sockets host and enter besides.  (Proved also for codes drawn twice.)   *)
StateAdmitted ==
    \A c \in Clients : \A i \in 1 .. Len(outbox[c]) :
        outbox[c][i].type = "state" =>
            \E j \in 1 .. i - 1 :
                /\ outbox[c][j].type \in {"joined", "spectating"}
                /\ outbox[c][j].code = outbox[c][i].code

(* "Host disconnect closes room" (line 87): no open room has a host whose  *)
(* connection is closed.                                                   *)
HostDisconnectClosesRoom ==
    \A r \in Codes : host[r] # None => conn[host[r]] # "CLOSED"

(* No guest is left behind: a socket that is OPEN and has entered a room   *)
(* finds it open.  The close of the host disconnects every guest of either *)
(* list (lines 88-90), one that entered while the host was CLOSING too.    *)
GuestsReleased == \A c \in Clients : conn[c] = "OPEN" /\ roomCode[c] # None => InRoom(c)

-----------------------------------------------------------------------------
Rooms == INSTANCE RoomService WITH
    owner <- host,
    guests <- [r \in Codes |-> Members(r)],
    entered <- {c \in Clients : role[c] # "none"},
    used <- issued

(* With sockets of one role and fresh codes the relay implements the room  *)
(* service: each handler is one step of it, or invisible to it.            *)
ImplementsRooms == Rooms!Spec
=============================================================================
