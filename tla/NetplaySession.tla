--------------------------- MODULE NetplaySession ---------------------------
(***************************************************************************)
(* How a netplay game begins and ends, main/netplay_ws.c with main_run: a  *)
(* client connects, asks for the players it controls, and on its way into  *)
(* the game sends its settings and saved memories to the server if it      *)
(* controls player 1, and otherwise takes those the server was sent; last  *)
(* it reads who plays.                                                     *)
(*                                                                         *)
(* The server is external, and so is the lobby that has the players ask    *)
(* before the first of them begins.  Data are named by the client they     *)
(* come from.  TCP keeps the order of what a client sends; a connection    *)
(* may be lost, which the receiving loops notice as -1 (an orderly end,    *)
(* read as 0, keeps every loop going for ever and is a client that takes   *)
(* no further step).                                                       *)
(***************************************************************************)
EXTENDS Integers, Sequences, FiniteSets

CONSTANTS
    Clients,
    NumPlayers,  \* 4
    Wants,       \* Wants[c]: the players the front end of c asks for
    Pads,        \* Pads[c][i]: the pak in the i-th controller of c
    Files,       \* the saved memories, in the order main_run opens them
    MaxLost,     \* bound: connections that are lost
    StackPaks,   \* bound: what an unreceived registration may look like
    Torn,        \* the content of a memory received in part
    None         \* no registration (id 0), nothing sent, no answer

Players == 0 .. NumPlayers - 1
Paks == {"none", "mempak", "rumble", "transfer"}

Absent == "absent"  \* Controls[i].Present is 0

ASSUME SessionAssumption ==
    /\ NumPlayers \in Nat \ {0}
    /\ Wants \in [Clients -> SUBSET Players]
    /\ Pads \in [Clients -> [Players -> Paks]]
    /\ Files \in Seq(STRING) /\ Files # << >>
    /\ MaxLost \in Nat
    /\ StackPaks \subseteq Paks \cup {None}
    /\ {Absent, Torn, None} \cap Clients = {}
    /\ None \notin [holder : Clients, pak : Paks] \cup [ok : BOOLEAN]

VARIABLES
    reg,       \* the server's registrations: who plays p, with which pak
    given,     \* the settings and saves the server has been sent
    left,      \* players taken off the registration after the game began
    tcp,       \* the connection: "none", "open", "lost" or "closed"
    udp,       \* l_udpSocket # NULL
    out,       \* requests on their way to the server
    reply,     \* the answer the client waits for, once sent
    init,      \* l_netplay_is_init
    phase,     \* where the client is
    waiting,   \* it has sent a request and is in its receiving loop
    asked,     \* the players its front end has asked for
    asking,    \* the one it is asking for
    control,   \* l_netplay_control
    next,      \* l_netplay_controller
    settings,  \* whose settings it plays with
    saves,     \* whose saves are in its saved memories
    at,        \* the index of the saved memory being opened
    controls   \* Controls[i]: the pak, or Absent

server == <<reg, given, left>>
link == <<tcp, out, reply>>
place == <<phase, waiting>>
seat == <<asked, asking, control, next>>
machine == <<settings, saves, at, controls>>
vars == <<server, link, udp, init, place, seat, machine>>

-----------------------------------------------------------------------------
FileNames == {Files[i] : i \in DOMAIN Files}
Data == {"settings"} \cup FileNames
Seats == [holder : Clients, pak : Paks] \cup {None}

Requests ==
    [kind : {"register"}, player : Players, pak : Paks]
    \cup [kind : {"upload", "fetch"}, what : Data]
    \cup [kind : {"registration", "leave"}]

Replies ==
    [ok : BOOLEAN] \cup [from : Clients] \cup [seats : [Players -> Seats]]

Phases == {"idle", "register", "settings", "saves", "registration", "run"}

TypeOK ==
    /\ reg \in [Players -> Seats]
    /\ given \in [Data -> Clients \cup {None}]
    /\ left \in SUBSET Players
    /\ tcp \in [Clients -> {"none", "open", "lost", "closed"}]
    /\ udp \in [Clients -> BOOLEAN]
    /\ out \in [Clients -> Seq(Requests)]
    /\ reply \in [Clients -> Replies \cup {None}]
    /\ init \in [Clients -> BOOLEAN]
    /\ phase \in [Clients -> Phases]
    /\ waiting \in [Clients -> BOOLEAN]
    /\ asked \in [Clients -> SUBSET Players]
    /\ asking \in [Clients -> Players]
    /\ control \in [Clients -> [Players -> Players \cup {-1}]]
    /\ next \in [Clients -> Nat]
    /\ settings \in [Clients -> Clients]
    /\ saves \in [Clients -> [FileNames -> Clients \cup {Torn}]]
    /\ at \in [Clients -> Nat]
    /\ controls \in [Clients -> [Players -> Paks \cup {Absent}]]

Init ==
    /\ reg = [p \in Players |-> None]
    /\ given = [x \in Data |-> None]
    /\ left = {}
    /\ tcp = [c \in Clients |-> "none"]
    /\ udp = [c \in Clients |-> FALSE]
    /\ out = [c \in Clients |-> << >>]
    /\ reply = [c \in Clients |-> None]
    /\ init = [c \in Clients |-> FALSE]
    /\ phase = [c \in Clients |-> "idle"]
    /\ waiting = [c \in Clients |-> FALSE]
    /\ asked = [c \in Clients |-> {}]
    /\ asking = [c \in Clients |-> 0]
    /\ control = [c \in Clients |-> [p \in Players |-> -1]]
    /\ next = [c \in Clients |-> 0]
    /\ settings = [c \in Clients |-> c]
    /\ saves = [c \in Clients |-> [f \in FileNames |-> c]]
    /\ at = [c \in Clients |-> 1]
    /\ controls = Pads

-----------------------------------------------------------------------------
(* The server, external: it handles the requests of each client in order,  *)
(* gives a player to the first that asks, keeps what it is sent and lets a *)
(* fetch wait until it has been sent it.                                   *)
Answer(c, r) == reply' = [reply EXCEPT ![c] = r]

Register(c, m) ==
    /\ reg' = IF reg[m.player] = None
                THEN [reg EXCEPT ![m.player] = [holder |-> c, pak |-> m.pak]] ELSE reg
    /\ Answer(c, [ok |-> reg[m.player] = None])
    /\ UNCHANGED <<given, left>>

Upload(c, m) ==
    /\ given' = [given EXCEPT ![m.what] = c]
    /\ UNCHANGED <<reg, left, reply>>

Fetch(c, m) ==
    /\ given[m.what] # None
    /\ Answer(c, [from |-> given[m.what]])
    /\ UNCHANGED server

Registration(c) ==
    /\ Answer(c, [seats |-> reg])
    /\ UNCHANGED server

Begun == \E c \in Clients : phase[c] \notin {"idle", "register"}

Leave(c) ==
    LET freed == {p \in Players : reg[p] # None /\ reg[p].holder = c} IN
    /\ reg' = [p \in Players |-> IF p \in freed THEN None ELSE reg[p]]
    /\ left' = IF Begun THEN left \cup freed ELSE left
    /\ UNCHANGED <<given, reply>>

Serve(c) ==
    /\ out[c] # << >>
    /\ LET m == Head(out[c]) IN
        \/ m.kind = "register" /\ Register(c, m)
        \/ m.kind = "upload" /\ Upload(c, m)
        \/ m.kind = "fetch" /\ Fetch(c, m)
        \/ m.kind = "registration" /\ Registration(c)
        \/ m.kind = "leave" /\ Leave(c)
    /\ out' = [out EXCEPT ![c] = Tail(@)]
    /\ UNCHANGED <<tcp, udp, init, place, seat, machine>>

(* A connection is lost, with all that is on its way. *)
Lose(c) ==
    /\ tcp[c] = "open"
    /\ Cardinality({d \in Clients : tcp[d] = "lost"}) < MaxLost
    /\ tcp' = [tcp EXCEPT ![c] = "lost"]
    /\ out' = [out EXCEPT ![c] = << >>]
    /\ reply' = [reply EXCEPT ![c] = None]
    /\ UNCHANGED <<server, udp, init, place, seat, machine>>

-----------------------------------------------------------------------------
(* TCP_Send: its result is ignored, so on a lost connection it does        *)
(* nothing.                                                                *)
TCP_Send(c, m) ==
    out' = [out EXCEPT ![c] = IF tcp[c] = "open" THEN Append(@, m) ELSE @]

(* netplay_start *)
netplay_start(c) ==
    /\ tcp[c] = "none"
    /\ tcp' = [tcp EXCEPT ![c] = "open"]
    /\ udp' = [udp EXCEPT ![c] = TRUE]
    /\ init' = [init EXCEPT ![c] = TRUE]
    /\ control' = [control EXCEPT ![c] = [p \in Players |-> -1]]
    /\ next' = [next EXCEPT ![c] = 0]
    /\ UNCHANGED <<server, out, reply, place, asked, asking, machine>>

(* It fails: only a host that cannot be resolved leaves the UDP socket.    *)
netplay_startFails(c) ==
    /\ tcp[c] = "none"
    /\ \E open \in BOOLEAN : udp' = [udp EXCEPT ![c] = open]
    /\ UNCHANGED <<server, link, init, place, seat, machine>>

(* netplay_stop, which the front end calls while no request is waited for. *)
(* The notice names the id this client last asked with.                    *)
netplay_stop(c) ==
    /\ udp[c]
    /\ phase[c] \in {"idle", "run"}
    /\ TCP_Send(c, [kind |-> "leave"])
    /\ udp' = [udp EXCEPT ![c] = FALSE]
    /\ init' = [init EXCEPT ![c] = FALSE]
    /\ tcp' = [tcp EXCEPT ![c] = IF @ = "open" THEN "closed" ELSE @]
    /\ UNCHANGED <<server, reply, place, seat, machine>>

-----------------------------------------------------------------------------
(* Mutant: the pak told is that of the controller numbered like the player. *)
netplay_register_playerOwn(c, p) ==
    /\ init[c]
    /\ phase[c] = "idle"
    /\ p \in Wants[c] \ asked[c]
    /\ TCP_Send(c, [kind |-> "register", player |-> p, pak |-> controls[c][p]])
    /\ asked' = [asked EXCEPT ![c] = @ \cup {p}]
    /\ asking' = [asking EXCEPT ![c] = p]
    /\ phase' = [phase EXCEPT ![c] = "register"]
    /\ UNCHANGED <<server, tcp, reply, udp, init, waiting, control, next, machine>>

(* netplay_register_player up to the receiving loop, for the command       *)
(* M64CMD_NETPLAY_CONTROL_PLAYER.                                          *)
netplay_register_player(c, p) ==
    /\ init[c]
    /\ phase[c] = "idle"
    /\ p \in Wants[c] \ asked[c]
    /\ TCP_Send(c, [kind |-> "register", player |-> p, pak |-> controls[c][next[c]]])
    /\ asked' = [asked EXCEPT ![c] = @ \cup {p}]
    /\ asking' = [asking EXCEPT ![c] = p]
    /\ phase' = [phase EXCEPT ![c] = "register"]
    /\ UNCHANGED <<server, tcp, reply, udp, init, waiting, control, next, machine>>

netplay_set_controller(c) ==
    /\ control' = [control EXCEPT ![c][asking[c]] = next[c]]
    /\ next' = [next EXCEPT ![c] = @ + 1]

(* Mutant: the answer is not heeded. *)
RegisteredAnyway(c, ok) ==
    /\ phase[c] = "register"
    /\ reply[c] = [ok |-> ok] \/ tcp[c] = "lost"
    /\ netplay_set_controller(c)
    /\ reply' = [reply EXCEPT ![c] = None]
    /\ phase' = [phase EXCEPT ![c] = "idle"]
    /\ UNCHANGED <<server, tcp, out, udp, init, waiting, asked, asking, machine>>

(* The answer; on a lost connection the loop ends at once, because the     *)
(* count is unsigned, and the answer is whatever was on the stack.         *)
Registered(c, ok) ==
    /\ phase[c] = "register"
    /\ reply[c] = [ok |-> ok] \/ tcp[c] = "lost"
    /\ IF ok THEN netplay_set_controller(c) ELSE UNCHANGED <<control, next>>
    /\ reply' = [reply EXCEPT ![c] = None]
    /\ phase' = [phase EXCEPT ![c] = "idle"]
    /\ UNCHANGED <<server, tcp, out, udp, init, waiting, asked, asking, machine>>

-----------------------------------------------------------------------------
(* The lobby, external: nobody begins before all have asked. *)
AllHaveAsked ==
    \A c \in Clients :
        \/ ~init[c] /\ tcp[c] # "none"
        \/ init[c] /\ asked[c] = Wants[c] /\ phase[c] # "register"

(* M64CMD_EXECUTE: main_run, whose first exchange is of the settings. *)
Execute(c) ==
    /\ init[c]
    /\ phase[c] = "idle"
    /\ AllHaveAsked
    /\ phase' = [phase EXCEPT ![c] = "settings"]
    /\ UNCHANGED <<server, link, udp, init, waiting, seat, machine>>

(* Mutant: whoever plays sends, and only those who watch ask. *)
IsPlayer1Any(c) == \E p \in Players : control[c][p] # -1

IsPlayer1(c) == control[c][0] # -1

(* The part of an exchange that player 1 does, and the one others do. *)
SendOurs(c, what) ==
    /\ IsPlayer1(c)
    /\ ~waiting[c]
    /\ TCP_Send(c, [kind |-> "upload", what |-> what])

AskForTheirs(c, what) ==
    /\ ~IsPlayer1(c)
    /\ ~waiting[c]
    /\ TCP_Send(c, [kind |-> "fetch", what |-> what])
    /\ waiting' = [waiting EXCEPT ![c] = TRUE]

Received(c) ==
    /\ waiting[c]
    /\ reply[c] # None
    /\ reply' = [reply EXCEPT ![c] = None]
    /\ waiting' = [waiting EXCEPT ![c] = FALSE]

(* netplay_sync_settings.  Its count is signed: on a lost connection the   *)
(* loop goes on for ever.  Of the six values received main_run goes by     *)
(* five: "settings" are those, without emumode (main.c:1704).              *)
netplay_sync_settings(c) ==
    /\ phase[c] = "settings"
    /\ \/ /\ SendOurs(c, "settings")
          /\ phase' = [phase EXCEPT ![c] = "saves"]
          /\ UNCHANGED <<reply, waiting, settings>>
       \/ /\ AskForTheirs(c, "settings")
          /\ UNCHANGED <<reply, phase, settings>>
       \/ /\ Received(c)
          /\ settings' = [settings EXCEPT ![c] = reply[c].from]
          /\ phase' = [phase EXCEPT ![c] = "saves"]
          /\ UNCHANGED out
    /\ UNCHANGED <<server, tcp, udp, init, seat, saves, at, controls>>

Opened(c) ==
    /\ at' = [at EXCEPT ![c] = @ + 1]
    /\ phase' = [phase EXCEPT ![c] = IF at[c] = Len(Files) THEN "registration" ELSE @]

(* Mutants: no save is waited for; only the first save is sent. *)
netplay_read_storageEarly(c) ==
    /\ phase[c] = "saves"
    /\ \/ SendOurs(c, Files[at[c]]) /\ Opened(c) /\ UNCHANGED waiting
       \/ AskForTheirs(c, Files[at[c]]) /\ UNCHANGED <<phase, at>>
       \/ waiting[c] /\ waiting' = [waiting EXCEPT ![c] = FALSE] /\ Opened(c) /\ UNCHANGED out
    /\ UNCHANGED <<server, tcp, reply, udp, init, seat, settings, saves, controls>>

netplay_read_storageFirst(c) ==
    /\ phase[c] = "saves"
    /\ \/ IsPlayer1(c) /\ at[c] > 1 /\ Opened(c) /\ UNCHANGED <<out, reply, waiting, saves>>
       \/ SendOurs(c, Files[at[c]]) /\ at[c] = 1 /\ Opened(c) /\ UNCHANGED <<reply, waiting, saves>>
       \/ AskForTheirs(c, Files[at[c]]) /\ UNCHANGED <<reply, phase, saves, at>>
       \/ /\ Received(c)
          /\ saves' = [saves EXCEPT ![c][Files[at[c]]] = reply[c].from]
          /\ Opened(c)
          /\ UNCHANGED out
    /\ UNCHANGED <<server, tcp, udp, init, seat, settings, controls>>

(* netplay_read_storage, for each saved memory in turn (open_mpk_file and  *)
(* so on).  On a lost connection the loop ends at once, with all, a part   *)
(* or none of the memory overwritten, and the game is begun with that.     *)
netplay_read_storage(c) ==
    /\ phase[c] = "saves"
    /\ LET file == Files[at[c]] IN
        \/ SendOurs(c, file) /\ Opened(c) /\ UNCHANGED <<reply, waiting, saves>>
        \/ AskForTheirs(c, file) /\ UNCHANGED <<reply, phase, saves, at>>
        \/ /\ Received(c)
           /\ saves' = [saves EXCEPT ![c][file] = reply[c].from]
           /\ Opened(c)
           /\ UNCHANGED out
        \/ /\ waiting[c]
           /\ tcp[c] = "lost"
           /\ \E what \in {c, Torn} : saves' = [saves EXCEPT ![c][file] = what]
           /\ waiting' = [waiting EXCEPT ![c] = FALSE]
           /\ Opened(c)
           /\ UNCHANGED <<out, reply>>
    /\ UNCHANGED <<server, tcp, udp, init, seat, settings, controls>>

(* What a registration plugs into controller p. *)
Plugged(p, pak) ==
    IF pak = "transfer" \/ (p > 0 /\ pak = "mempak") THEN "none" ELSE pak

ControlsOf(seats) ==
    [p \in Players |-> IF seats[p] = None THEN Absent ELSE Plugged(p, seats[p].pak)]

(* netplay_read_registration.  On a lost connection the loop ends at once  *)
(* and the registration is whatever was on the stack.                      *)
netplay_read_registration(c) ==
    /\ phase[c] = "registration"
    /\ \/ /\ ~waiting[c]
          /\ TCP_Send(c, [kind |-> "registration"])
          /\ waiting' = [waiting EXCEPT ![c] = TRUE]
          /\ UNCHANGED <<reply, phase, controls>>
       \/ /\ Received(c)
          /\ controls' = [controls EXCEPT ![c] = ControlsOf(reply[c].seats)]
          /\ phase' = [phase EXCEPT ![c] = "run"]
          /\ UNCHANGED out
       \/ /\ waiting[c]
          /\ tcp[c] = "lost"
          /\ \E paks \in [Players -> StackPaks] :
                controls' = [controls EXCEPT ![c] =
                    ControlsOf([p \in Players |->
                        IF paks[p] = None THEN None ELSE [holder |-> c, pak |-> paks[p]]])]
          /\ waiting' = [waiting EXCEPT ![c] = FALSE]
          /\ phase' = [phase EXCEPT ![c] = "run"]
          /\ UNCHANGED <<out, reply>>
    /\ UNCHANGED <<server, tcp, udp, init, seat, settings, saves, at>>

-----------------------------------------------------------------------------
FrontEnd(c) ==
    \/ netplay_start(c)
    \/ netplay_startFails(c)
    \/ netplay_stop(c)
    \/ \E p \in Players : netplay_register_player(c, p)
    \/ Execute(c)

Emulator(c) ==
    \/ \E ok \in BOOLEAN : Registered(c, ok)
    \/ netplay_sync_settings(c)
    \/ netplay_read_storage(c)
    \/ netplay_read_registration(c)

Next == \E c \in Clients : FrontEnd(c) \/ Emulator(c) \/ Serve(c) \/ Lose(c)

Spec == Init /\ [][Next]_vars

(* The server answers, and an emulator that has begun goes on. *)
FairSpec ==
    Spec /\ \A c \in Clients : WF_vars(Serve(c)) /\ WF_vars(Emulator(c))

-----------------------------------------------------------------------------
(* A client that is in the session, with its connection. *)
Joined(c) == init[c] /\ tcp[c] = "open"

HasSettings(c) == phase[c] \in {"saves", "registration", "run"}
HasSave(c, f) ==
    \/ phase[c] \in {"registration", "run"}
    \/ phase[c] = "saves" /\ \E i \in 1 .. at[c] - 1 : Files[i] = f

(* Whatever the order in which clients come, the settings and every saved  *)
(* memory a connected client has taken up come from one client, and that   *)
(* is one that controls player 1.                                          *)
OneSource ==
    \A c \in Clients : Joined(c) /\ HasSettings(c) =>
        /\ IsPlayer1(settings[c])
        /\ \A f \in FileNames : HasSave(c, f) => saves[c][f] = settings[c]

(* No client plays two players with one controller, and no two connected   *)
(* clients play one player.                                                *)
OnePlayerEach ==
    \A c, d \in Clients, p, q \in Players :
        control[c][p] # -1 =>
            /\ p # q => control[c][p] # control[c][q]
            /\ c # d /\ Joined(c) /\ Joined(d) => control[d][p] = -1

(* A connected client in the game sees a controller for exactly the        *)
(* players someone controls, with the pak of the controller they use: a    *)
(* player seen whom nobody controls would never press a key, and one not   *)
(* seen is never read.  Players who have left are not judged, nor are      *)
(* those whose client may have lost the answer to its own request.         *)
SeenAsPlayed ==
    \A c \in Clients, p \in Players \ left :
        Joined(c) /\ phase[c] = "run" =>
            \/ \E d \in Clients : p \in asked[d] /\ tcp[d] = "lost"
            \/ \E d \in Clients :
                /\ control[d][p] # -1
                /\ controls[c][p] = Plugged(p, Pads[d][control[d][p]])
            \/ /\ controls[c][p] = Absent
               /\ \A d \in Clients : init[d] => control[d][p] = -1

(* Once a client of player 1 is in the game, every other client that has   *)
(* begun gets there, unless its connection or that of player 1 is lost.    *)
Player1In(h) == IsPlayer1(h) /\ phase[h] = "run" /\ tcp[h] # "lost"

EveryoneGetsIn ==
    \A c \in Clients :
        ((\E h \in Clients : Player1In(h)) /\ phase[c] \notin {"idle", "register"})
            ~> (phase[c] = "run" \/ tcp[c] = "lost" \/ \A h \in Clients : ~Player1In(h))

(* Starting a game implements the shared game of SharedGame.tla: a client  *)
(* knows what it has taken up while it is connected, and a player who left *)
(* no longer matters.                                                      *)
Unknown == "unknown"

Parts == {<<"data", x>> : x \in Data} \cup {<<"seat", p>> : p \in Players}

Takes(c, x) ==
    CASE x = <<"data", "settings">> -> HasSettings(c)
      [] x[1] = "data" /\ x[2] # "settings" -> HasSave(c, x[2])
      [] x[1] = "seat" -> phase[c] = "run" /\ x[2] \notin left

PlaysWith(c, x) ==
    CASE x = <<"data", "settings">> -> settings[c]
      [] x[1] = "data" /\ x[2] # "settings" -> saves[c][x[2]]
      [] x[1] = "seat" -> controls[c][x[2]]

Shared == INSTANCE SharedGame WITH
    Values <- Clients \cup {Torn, Absent} \cup Paks,
    known <- [c \in Clients |-> [x \in Parts |->
                IF Joined(c) /\ Takes(c, x) THEN PlaysWith(c, x) ELSE Unknown]],
    alive <- Parts \ {<<"seat", p>> : p \in left}

ImplementsSharedGame == Shared!Spec
=============================================================================
