----------------------- MODULE NetplaySessionProofs -----------------------
(***************************************************************************)
(* Proofs about the start of a netplay game, for every number of clients,  *)
(* players and saved memories, whoever asks for whom.                      *)
(***************************************************************************)
EXTENDS NetplaySession, FiniteSetTheorems, TLAPS

Began(c) == phase[c] \notin {"idle", "register"}
Asks == {"register", "fetch", "registration"}
Fetching(c) == waiting[c] /\ phase[c] \in {"settings", "saves"}

(* A connection that is not there carries nothing; a client that has left  *)
(* is out of the game; the memory being opened is one of the list; the     *)
(* controllers handed out are distinct and at most as many as were asked   *)
(* for.                                                                    *)
ClientOK(c) ==
    /\ tcp[c] \in {"none", "lost"} => out[c] = << >> /\ reply[c] = None
    /\ tcp[c] = "none" => ~init[c] /\ phase[c] = "idle"
    /\ tcp[c] = "closed" => ~init[c] /\ phase[c] \in {"idle", "run"}
    /\ phase[c] = "register" => init[c]
    /\ ~ Began(c) => controls[c] = Pads[c]
    /\ waiting[c] => phase[c] \in {"settings", "saves", "registration"}
    /\ Fetching(c) => ~IsPlayer1(c)
    /\ phase[c] \in {"idle", "register", "settings"} => at[c] = 1
    /\ phase[c] = "saves" => at[c] \in 1 .. Len(Files)
    /\ phase[c] # "register" => next[c] <= Cardinality(asked[c])
    /\ phase[c] = "register" => next[c] + 1 <= Cardinality(asked[c])
    /\ \A p \in Players : control[c][p] < next[c]
    /\ \A p, q \in Players :
          control[c][p] # -1 /\ p # q => control[c][p] # control[c][q]

(* Every request on its way is the one its client waits for, the save of a *)
(* player 1, or the notice of a client that has left.                      *)
Justified(c, m) ==
    /\ m.kind = "register" => phase[c] = "register" /\ m.player = asking[c]
    /\ m.kind = "fetch" => Fetching(c)
    /\ m.kind = "registration" => waiting[c] /\ phase[c] = "registration"
    /\ m.kind = "upload" => IsPlayer1(c) /\ Began(c)
    /\ m.kind = "leave" => tcp[c] = "closed"
    /\ m.kind \in Asks => reply[c] = None

LinkOK(c) ==
    /\ \A i \in 1 .. Len(out[c]) : Justified(c, out[c][i])
    /\ \A i, j \in 1 .. Len(out[c]) :
          out[c][i].kind \in Asks /\ out[c][j].kind \in Asks => i = j

Sources == {h \in Clients : \E x \in Data : given[x] = h}

(* An answer is one to what the client has asked. *)
ReplyOK(c) ==
    reply[c] # None =>
        /\ tcp[c] = "open"
        /\ \/ /\ phase[c] = "register"
              /\ reply[c] \in [ok : BOOLEAN]
              /\ reply[c].ok => reg[asking[c]] # None /\ reg[asking[c]].holder = c
           \/ Fetching(c) /\ reply[c] \in [from : Sources]
           \/ /\ waiting[c] /\ phase[c] = "registration"
              /\ reply[c] \in [seats : [Players -> Seats]]

(* A connected client that plays a player is registered for it. *)
HoldsSeats(c) ==
    tcp[c] = "open" => \A p \in Players :
        control[c][p] # -1 => reg[p] # None /\ reg[p].holder = c

(* Once one client has begun, nobody asks for a player any more. *)
LobbyOver ==
    (\E c \in Clients : Began(c)) => \A d \in Clients :
        /\ tcp[d] # "none" /\ phase[d] # "register"
        /\ init[d] => asked[d] = Wants[d]

Uploader(h) ==
    \/ h \in Sources
    \/ \E i \in 1 .. Len(out[h]) : out[h][i].kind = "upload"

(* At most one client ever sends data, and it is registered as player 1 or *)
(* was until it left.                                                      *)
UploaderOK ==
    /\ \A h \in Clients : Uploader(h) =>
          IsPlayer1(h) /\ Began(h) /\ (reg[0] = None \/ reg[0].holder = h)
    /\ \A h, k \in Clients : Uploader(h) /\ Uploader(k) => h = k

(* A client's data are its own, unless it does not control player 1: then  *)
(* what it has taken up comes from the one that does.                      *)
DataOK(c) ==
    /\ IsPlayer1(c) \/ ~HasSettings(c) =>
          settings[c] = c /\ \A f \in FileNames : saves[c][f] = c
    /\ ~IsPlayer1(c) /\ Joined(c) =>
          /\ HasSettings(c) => settings[c] \in Sources
          /\ \A f \in FileNames : HasSave(c, f) => saves[c][f] \in Sources

ClientInv(c) == ClientOK(c) /\ LinkOK(c) /\ ReplyOK(c) /\ HoldsSeats(c) /\ DataOK(c)

IInv ==
    /\ TypeOK
    /\ LobbyOver
    /\ UploaderOK
    /\ \A c \in Clients : ClientInv(c)

LEMMA ConstantFacts ==
    /\ NumPlayers \in Nat \ {0} /\ 0 \in Players /\ Players \subseteq Nat
    /\ \A p \in Players : p < NumPlayers
    /\ Wants \in [Clients -> SUBSET Players] /\ Pads \in [Clients -> [Players -> Paks]]
    /\ StackPaks \subseteq Paks \cup {None}
    /\ None \notin Clients /\ None \notin [holder : Clients, pak : Paks]
    /\ None \notin [ok : BOOLEAN]
BY SessionAssumption DEF SessionAssumption, Players

LEMMA DataFacts ==
    /\ FileNames \subseteq STRING /\ "settings" \in Data /\ FileNames \subseteq Data
    /\ Len(Files) \in Nat \ {0}
    /\ \A i \in 1 .. Len(Files) : Files[i] \in FileNames
BY SessionAssumption DEF SessionAssumption, FileNames, Data

LEMMA FilesListed == \A f \in FileNames : \E i \in 1 .. Len(Files) : Files[i] = f
BY SessionAssumption DEF SessionAssumption, FileNames

LEMMA NoneAsked == Cardinality({}) = 0
BY FS_EmptySet

LEMMA InitOK == Init => IInv
<1> SUFFICES ASSUME Init PROVE IInv
    OBVIOUS
<1>1. TypeOK
    BY ConstantFacts, DataFacts DEF Init, TypeOK, Seats, Phases
<1>2. LobbyOver
    BY DEF Init, LobbyOver, Began
<1>3. UploaderOK
    BY ConstantFacts DEF Init, UploaderOK, Uploader, Sources
<1>4. ASSUME NEW c \in Clients
      PROVE  ClientInv(c)
    BY <1>4, NoneAsked, ConstantFacts, DataFacts
    DEF Init, ClientInv, ClientOK, Began, LinkOK, ReplyOK, HoldsSeats, DataOK, Fetching, HasSettings,
        HasSave, Joined
<1> QED BY <1>1, <1>2, <1>3, <1>4 DEF IInv

-----------------------------------------------------------------------------
(* What a step keeps: a client it does not touch, and the one uploader.    *)
Untouched(d) ==
    /\ tcp'[d] = tcp[d] /\ out'[d] = out[d] /\ reply'[d] = reply[d]
    /\ init'[d] = init[d] /\ phase'[d] = phase[d] /\ waiting'[d] = waiting[d]
    /\ asked'[d] = asked[d] /\ asking'[d] = asking[d]
    /\ control'[d] = control[d] /\ next'[d] = next[d]
    /\ settings'[d] = settings[d] /\ saves'[d] = saves[d] /\ at'[d] = at[d]
    /\ controls'[d] = controls[d]

LEMMA UntouchedKept ==
    ASSUME NEW d \in Clients, ClientInv(d), Untouched(d), UNCHANGED <<reg, given>>
    PROVE  ClientInv(d)'
<1>1. ClientOK(d)'
    BY DEF ClientInv, Untouched, ClientOK, Began, Fetching, IsPlayer1
<1>2. LinkOK(d)'
    BY DEF ClientInv, Untouched, LinkOK, Justified, Fetching, IsPlayer1, Began
<1>3. ReplyOK(d)'
    BY DEF ClientInv, Untouched, ReplyOK, Fetching, Sources
<1>4. HoldsSeats(d)'
    BY DEF ClientInv, Untouched, HoldsSeats
<1>5. DataOK(d)'
    BY DEF ClientInv, Untouched, DataOK, IsPlayer1, HasSettings, HasSave, Joined, Sources
<1> QED BY <1>1, <1>2, <1>3, <1>4, <1>5 DEF ClientInv

LEMMA UploaderKept ==
    ASSUME UploaderOK,
           \A h \in Clients : Uploader(h)' => Uploader(h),
           \A h \in Clients : Uploader(h) => IsPlayer1(h)' /\ Began(h)',
           reg'[0] \in {None, reg[0]}
    PROVE  UploaderOK'
BY DEF UploaderOK

-----------------------------------------------------------------------------
LEMMA AskedBound ==
    ASSUME NEW S \in SUBSET Players
    PROVE  IsFiniteSet(S) /\ Cardinality(S) \in Nat /\ Cardinality(S) <= NumPlayers
<1>1. IsFiniteSet(Players) /\ Cardinality(Players) = NumPlayers
    <2>1. NumPlayers - 1 \in Int /\ ~ (0 > NumPlayers - 1)
        BY ConstantFacts
    <2>2. \A a, b \in Int :
              IsFiniteSet(a .. b) /\ Cardinality(a .. b) = IF a > b THEN 0 ELSE b - a + 1
        BY FS_Interval
    <2>3. IsFiniteSet(0 .. NumPlayers - 1)
          /\ Cardinality(0 .. NumPlayers - 1) =
                IF 0 > NumPlayers - 1 THEN 0 ELSE (NumPlayers - 1) - 0 + 1
        BY <2>1, <2>2, 0 \in Int, Zenon
    <2> QED BY <2>1, <2>3, ConstantFacts DEF Players
<1> QED BY <1>1, FS_Subset, FS_CardinalityType

LEMMA SentIsTyped ==
    ASSUME TypeOK, NEW c \in Clients, NEW m \in Requests, TCP_Send(c, m)
    PROVE  out' \in [Clients -> Seq(Requests)]
BY DEF TypeOK, TCP_Send

(* A client that waits for nothing has asked for nothing.                  *)
NoAsks(c) == \A i \in 1 .. Len(out[c]) : out[c][i].kind \notin Asks

LEMMA NothingAsked ==
    ASSUME NEW c \in Clients, ClientInv(c), phase[c] # "register", ~ waiting[c]
    PROVE  reply[c] = None /\ NoAsks(c)
BY DEF ClientInv, LinkOK, ReplyOK, Justified, Fetching, Asks, NoAsks

(* A client that has its answer, or has lost its connection, is asking for *)
(* nothing.                                                                *)
LEMMA RegisterAnswered ==
    ASSUME NEW c \in Clients, NEW ok, ClientInv(c), Registered(c, ok), ok \in BOOLEAN
    PROVE  NoAsks(c)
<1>1. CASE reply[c] = [ok |-> ok]
    <2>1. reply[c] # None
        BY <1>1, ConstantFacts
    <2> QED BY <2>1 DEF ClientInv, LinkOK, Justified, NoAsks
<1>2. CASE tcp[c] = "lost"
    BY <1>2 DEF ClientInv, ClientOK, NoAsks
<1> QED BY <1>1, <1>2 DEF Registered

LEMMA SendKeepsLink ==
    ASSUME NEW c \in Clients, TypeOK, LinkOK(c), NoAsks(c),
           NEW m \in Requests, out'[c] \in {out[c], Append(out[c], m)},
           \A r \in Requests : Justified(c, r) /\ r.kind \notin Asks => Justified(c, r)',
           tcp[c] = "open" => Justified(c, m)',
           tcp[c] # "open" => out'[c] = out[c]
    PROVE  LinkOK(c)'
<1>1. out[c] \in Seq(Requests)
    BY DEF TypeOK
<1>2. \A i \in 1 .. Len(out[c]) : Justified(c, out[c][i]) /\ out[c][i] \in Requests
    BY <1>1 DEF LinkOK
<1>3. CASE out'[c] = out[c]
    <2>1. ASSUME NEW i \in 1 .. Len(out'[c]) PROVE Justified(c, out[c][i])'
        BY <1>2, <1>3, <2>1 DEF NoAsks
    <2> QED BY <1>3, <2>1 DEF LinkOK, NoAsks
<1>4. CASE out'[c] = Append(out[c], m) /\ out'[c] # out[c]
    <2>1. /\ Len(out'[c]) = Len(out[c]) + 1 /\ Len(out[c]) \in Nat
          /\ out'[c][Len(out[c]) + 1] = m
          /\ \A i \in 1 .. Len(out[c]) : out'[c][i] = out[c][i]
        BY <1>1, <1>4
    <2>2. ASSUME NEW i \in 1 .. Len(out'[c]) PROVE Justified(c, out[c][i])'
        BY <1>2, <1>4, <2>1, <2>2 DEF NoAsks
    <2>3. ASSUME NEW i \in 1 .. Len(out'[c]), NEW j \in 1 .. Len(out'[c]),
                 out'[c][i].kind \in Asks, out'[c][j].kind \in Asks
          PROVE  i = j
        BY <2>1, <2>3 DEF NoAsks
    <2> QED BY <2>2, <2>3 DEF LinkOK
<1> QED BY <1>3, <1>4

LEMMA SendUploads ==
    ASSUME TypeOK, NEW c \in Clients, NEW m \in Requests, TCP_Send(c, m), given' = given
    PROVE  \A h \in Clients :
              Uploader(h)' => Uploader(h) \/ (h = c /\ tcp[c] = "open" /\ m.kind = "upload")
<1> SUFFICES ASSUME NEW h \in Clients, Uploader(h)', ~ Uploader(h)
             PROVE  h = c /\ tcp[c] = "open" /\ m.kind = "upload"
    OBVIOUS
<1>1. PICK i \in 1 .. Len(out'[h]) : out'[h][i].kind = "upload"
    BY DEF Uploader, Sources
<1>2. h = c /\ tcp[c] = "open" /\ out'[c] = Append(out[c], m)
    BY <1>1 DEF TypeOK, TCP_Send, Uploader
<1>3. out[c] \in Seq(Requests)
    BY DEF TypeOK
<1>4. i = Len(out[c]) + 1 /\ out'[c][i] = m
    BY <1>1, <1>2, <1>3 DEF Uploader
<1> QED BY <1>1, <1>2, <1>4

(* A player 1 that sends is the one uploader.                              *)
LEMMA UploadKept ==
    ASSUME IInv, NEW c \in Clients, IsPlayer1(c), Began(c), tcp[c] = "open",
           UNCHANGED <<reg, control>>,
           \A h \in Clients : Began(h) => Began(h)',
           \A h \in Clients : Uploader(h)' => Uploader(h) \/ h = c
    PROVE  UploaderOK'
<1>1. reg[0] # None /\ reg[0].holder = c
    BY ConstantFacts DEF IInv, ClientInv, HoldsSeats, IsPlayer1
<1>2. \A h \in Clients : Uploader(h) => h = c
    BY <1>1 DEF IInv, UploaderOK
<1>3. \A h \in Clients : Uploader(h)' => h = c
    BY <1>2
<1>4. IsPlayer1(c)' /\ Began(c)'
    BY DEF IsPlayer1
<1> QED BY <1>1, <1>3, <1>4 DEF UploaderOK

LEMMA FetchAnswered ==
    ASSUME NEW c \in Clients, ClientInv(c), Received(c), phase[c] \in {"settings", "saves"}
    PROVE  /\ reply[c].from \in Sources /\ tcp[c] = "open" /\ ~ IsPlayer1(c)
           /\ NoAsks(c)
<1>1. reply[c] # None /\ waiting[c]
    BY DEF Received
<1>2. reply[c] \in [from : Sources] /\ tcp[c] = "open" /\ ~ IsPlayer1(c)
    BY <1>1 DEF ClientInv, ClientOK, ReplyOK, Fetching
<1>3. NoAsks(c)
    BY <1>1 DEF ClientInv, LinkOK, Justified, NoAsks
<1> QED BY <1>2, <1>3

LEMMA UnchangedKeeps ==
    ASSUME IInv, TypeOK', UNCHANGED <<server, link, init, place, seat, machine>>
    PROVE  IInv'
<1>1. LobbyOver'
    BY DEF IInv, LobbyOver, Began, link, place, seat
<1>2. UploaderOK'
    BY UploaderKept
    DEF IInv, UploaderOK, Uploader, Sources, IsPlayer1, Began, server, link, place, seat
<1>3. \A d \in Clients : ClientInv(d)'
    BY UntouchedKept DEF IInv, Untouched, server, link, place, seat, machine
<1> QED BY <1>1, <1>2, <1>3 DEF IInv

LEMMA LoseKeeps ==
    ASSUME IInv, NEW c \in Clients, Lose(c)
    PROVE  IInv'
<1>1. TypeOK'
    BY DEF IInv, TypeOK, Lose, server, place, seat, machine
<1>2. LobbyOver'
    BY DEF IInv, TypeOK, LobbyOver, Began, Lose, server, place, seat, machine
<1>3. UploaderOK'
    <2>1. \A h \in Clients : Uploader(h)' => Uploader(h)
        BY DEF IInv, TypeOK, Uploader, Sources, Lose, server
    <2> QED BY <2>1, UploaderKept
        DEF IInv, UploaderOK, IsPlayer1, Began, Lose, server, place, seat
<1>4. ASSUME NEW d \in Clients PROVE ClientInv(d)'
    <2>1. CASE d # c
        BY <1>4, <2>1, UntouchedKept
        DEF IInv, ClientInv, Untouched, TypeOK, Lose, server, place, seat, machine
    <2>2. CASE d = c
        BY <1>4, <2>2
        DEF IInv, TypeOK, Lose, ClientOK, LinkOK, Justified, ReplyOK, HoldsSeats, DataOK,
            Fetching, HasSettings, HasSave, Joined, IsPlayer1, Sources, Began, ClientInv,
            server, place, seat, machine
    <2> QED BY <2>1, <2>2
<1> QED BY <1>1, <1>2, <1>3, <1>4 DEF IInv, ClientInv

LEMMA StartKeeps ==
    ASSUME IInv, NEW c \in Clients, netplay_start(c)
    PROVE  IInv'
<1>1. TypeOK'
    BY DEF IInv, TypeOK, netplay_start, server, place, machine
<1>2. LobbyOver'
    BY DEF IInv, TypeOK, LobbyOver, Began, netplay_start, server, place, machine
<1>3. UploaderOK'
    <2>1. \A h \in Clients : Uploader(h)' => Uploader(h)
        BY DEF IInv, TypeOK, Uploader, Sources, netplay_start, server
    <2>2. \A h \in Clients : Uploader(h) => h # c
        BY DEF IInv, UploaderOK, LobbyOver, netplay_start
    <2> QED BY <2>1, <2>2, UploaderKept
        DEF IInv, TypeOK, UploaderOK, IsPlayer1, Began, netplay_start, server, place
<1>4. ASSUME NEW d \in Clients PROVE ClientInv(d)'
    <2>1. CASE d # c
        BY <1>4, <2>1, UntouchedKept
        DEF IInv, ClientInv, Untouched, TypeOK, netplay_start, server, place, machine
    <2>2. CASE d = c
        <3>1. ClientOK(c)'
            BY AskedBound
            DEF IInv, TypeOK, netplay_start, ClientOK, Began, ClientInv, IsPlayer1, Fetching,
                server, place, machine
        <3>2. LinkOK(c)' /\ ReplyOK(c)' /\ HoldsSeats(c)'
            BY DEF IInv, TypeOK, netplay_start, ClientOK, Began, ClientInv, LinkOK, ReplyOK,
                HoldsSeats, server
        <3>3. DataOK(c)'
            BY DEF IInv, TypeOK, netplay_start, ClientOK, Began, ClientInv, DataOK, IsPlayer1,
                HasSettings, HasSave, Joined, server, place, machine
        <3> QED BY <2>2, <3>1, <3>2, <3>3 DEF ClientInv
    <2> QED BY <2>1, <2>2
<1> QED BY <1>1, <1>2, <1>3, <1>4 DEF IInv

LEMMA StartFailsKeeps ==
    ASSUME IInv, NEW c \in Clients, netplay_startFails(c)
    PROVE  IInv'
<1>1. TypeOK'
    BY DEF IInv, TypeOK, netplay_startFails, server, link, place, seat, machine
<1>2. UNCHANGED <<server, link, init, place, seat, machine>>
    BY DEF netplay_startFails
<1> QED BY <1>1, <1>2, UnchangedKeeps

LEMMA StopKeeps ==
    ASSUME IInv, NEW c \in Clients, netplay_stop(c)
    PROVE  IInv'
<1>1. TypeOK'
    BY SentIsTyped DEF IInv, TypeOK, netplay_stop, TCP_Send, Requests, server, place, seat, machine
<1>2. LobbyOver'
    BY DEF IInv, TypeOK, LobbyOver, Began, netplay_stop, server, place, seat
<1>3. UploaderOK'
    <2>1. \A h \in Clients : Uploader(h)' => Uploader(h)
        BY DEF IInv, TypeOK, Uploader, Sources, netplay_stop, TCP_Send, Requests, server
    <2> QED BY <2>1, UploaderKept
        DEF IInv, TypeOK, UploaderOK, IsPlayer1, Began, netplay_stop, server, place, seat
<1>4. ASSUME NEW d \in Clients PROVE ClientInv(d)'
    <2>1. CASE d # c
        BY <1>4, <2>1, UntouchedKept
        DEF IInv, ClientInv, Untouched, TypeOK, netplay_stop, TCP_Send, server, place, seat, machine
    <2>2. CASE d = c
        <3>1. ClientOK(c)'
            BY DEF IInv, TypeOK, netplay_stop, TCP_Send, ClientOK, Began, ClientInv, IsPlayer1, Fetching,
                server, place, seat, machine
        <3>2. LinkOK(c)'
            <4>1. reply[c] = None /\ NoAsks(c)
                BY NothingAsked DEF IInv, ClientInv, ClientOK, netplay_stop
            <4>2. \A r \in Requests : Justified(c, r) /\ r.kind \notin Asks => Justified(c, r)'
                BY DEF IInv, TypeOK, netplay_stop, Justified, IsPlayer1, Began, Asks, place, seat
            <4>3. [kind |-> "leave"] \in Requests
                BY DEF Requests
            <4>4. tcp[c] = "open" => Justified(c, [kind |-> "leave"])'
                BY DEF IInv, TypeOK, netplay_stop, Justified, Asks
            <4>5. /\ out'[c] \in {out[c], Append(out[c], [kind |-> "leave"])}
                  /\ tcp[c] # "open" => out'[c] = out[c]
                BY DEF IInv, TypeOK, netplay_stop, TCP_Send
            <4> QED BY <4>1, <4>2, <4>3, <4>4, <4>5, SendKeepsLink DEF IInv, ClientInv
        <3>3. ReplyOK(c)' /\ HoldsSeats(c)'
            <4>1. tcp'[c] # "open" /\ reply'[c] = reply[c]
                BY DEF IInv, TypeOK, netplay_stop
            <4>2. phase[c] \notin {"register", "settings", "saves", "registration"}
                BY DEF netplay_stop
            <4>3. reply[c] = None
                BY <4>2 DEF IInv, ClientInv, ReplyOK, Fetching
            <4> QED BY <4>1, <4>3 DEF ReplyOK, HoldsSeats
        <3>4. DataOK(c)'
            BY DEF IInv, TypeOK, netplay_stop, ClientInv, DataOK, IsPlayer1, HasSettings,
                HasSave, Joined, server, place, seat, machine
        <3> QED BY <2>2, <3>1, <3>2, <3>3, <3>4 DEF ClientInv
    <2> QED BY <2>1, <2>2
<1> QED BY <1>1, <1>2, <1>3, <1>4 DEF IInv

LEMMA RegisterKeeps ==
    ASSUME IInv, NEW c \in Clients, NEW p \in Players, netplay_register_player(c, p)
    PROVE  IInv'
<1>1. /\ Cardinality(asked'[c]) = Cardinality(asked[c]) + 1 /\ Cardinality(asked[c]) \in Nat
      /\ next[c] < NumPlayers /\ next[c] \in Players
    <2>1. asked[c] \in SUBSET Players /\ asked'[c] = asked[c] \cup {p} /\ p \notin asked[c]
        BY DEF IInv, TypeOK, netplay_register_player
    <2>2. Cardinality(asked[c] \cup {p}) = Cardinality(asked[c]) + 1
        BY <2>1, AskedBound, FS_AddElement
    <2>3. Cardinality(asked[c] \cup {p}) <= NumPlayers
        BY <2>1, AskedBound
    <2>4. next[c] \in Nat /\ next[c] <= Cardinality(asked[c])
        BY DEF IInv, TypeOK, ClientInv, ClientOK, Began, netplay_register_player
    <2> QED BY <2>1, <2>2, <2>3, <2>4, AskedBound, ConstantFacts DEF Players
<1>2. PICK m \in Requests : TCP_Send(c, m) /\ m.kind = "register" /\ m.player = p
    <2>1. controls[c] = Pads[c]
        BY DEF IInv, ClientInv, ClientOK, Began, netplay_register_player
    <2>2. controls[c][next[c]] \in Paks
        BY <1>1, <2>1, ConstantFacts
    <2>3. [kind |-> "register", player |-> p, pak |-> controls[c][next[c]]] \in Requests
        BY <2>2 DEF Requests
    <2> QED BY <2>3 DEF netplay_register_player
<1>3. TypeOK'
    BY <1>2, SentIsTyped
    DEF IInv, TypeOK, netplay_register_player, Phases, server, machine
<1>4. LobbyOver'
    BY DEF IInv, TypeOK, LobbyOver, Began, netplay_register_player
<1>5. UploaderOK'
    <2>1. \A h \in Clients : Uploader(h)' => Uploader(h)
        BY DEF IInv, TypeOK, Uploader, Sources, netplay_register_player, TCP_Send, server
    <2>2. \A h \in Clients : Uploader(h) => h # c
        BY DEF IInv, UploaderOK, Began, netplay_register_player
    <2> QED BY <2>1, <2>2, UploaderKept
        DEF IInv, TypeOK, UploaderOK, IsPlayer1, Began, netplay_register_player, server
<1>6. ASSUME NEW d \in Clients PROVE ClientInv(d)'
    <2>1. CASE d # c
        BY <1>6, <2>1, UntouchedKept
        DEF IInv, Untouched, TypeOK, netplay_register_player, TCP_Send, server, machine
    <2>2. CASE d = c
        <3>1. ClientOK(c)'
            <4>1. ClientOK(c)
                BY DEF IInv, ClientInv
            <4>2. /\ phase[c] = "idle" /\ phase'[c] = "register" /\ init[c]
                  /\ next[c] <= Cardinality(asked[c]) /\ next'[c] + 1 <= Cardinality(asked'[c])
                BY <1>1, <4>1 DEF IInv, TypeOK, netplay_register_player, ClientOK
            <4> QED BY <4>1, <4>2
                DEF IInv, TypeOK, netplay_register_player, TCP_Send, ClientOK,
                    IsPlayer1, Began, Fetching, machine
        <3>2. LinkOK(c)'
            <4>1. reply[c] = None /\ NoAsks(c)
                BY NothingAsked DEF IInv, ClientInv, ClientOK, netplay_register_player
            <4>2. \A r \in Requests : Justified(c, r) /\ r.kind \notin Asks => Justified(c, r)'
                BY DEF IInv, TypeOK, netplay_register_player, Justified, IsPlayer1, Began, Asks
            <4>3. Justified(c, m)'
                BY <1>2, <4>1 DEF IInv, TypeOK, netplay_register_player, Justified, Asks
            <4>4. /\ out'[c] \in {out[c], Append(out[c], m)}
                  /\ tcp[c] # "open" => out'[c] = out[c]
                BY <1>2 DEF IInv, TypeOK, TCP_Send
            <4> QED BY <4>1, <4>2, <4>3, <4>4, SendKeepsLink DEF IInv, ClientInv
        <3>3. ReplyOK(c)' /\ HoldsSeats(c)'
            BY DEF IInv, TypeOK, netplay_register_player, ClientOK, Began, ClientInv, ReplyOK,
                HoldsSeats, Fetching, server
        <3>4. DataOK(c)'
            BY DEF IInv, TypeOK, netplay_register_player, ClientInv, DataOK, IsPlayer1,
                HasSettings, HasSave, Joined, server, machine
        <3> QED BY <2>2, <3>1, <3>2, <3>3, <3>4 DEF ClientInv
    <2> QED BY <2>1, <2>2
<1> QED BY <1>3, <1>4, <1>5, <1>6 DEF IInv

LEMMA RegisteredKeeps ==
    ASSUME IInv, NEW c \in Clients, NEW ok \in BOOLEAN, Registered(c, ok)
    PROVE  IInv'
<1> DEFINE p == asking[c]
<1>1. /\ next[c] \in Players /\ next[c] + 1 <= Cardinality(asked[c])
      /\ Cardinality(asked[c]) \in Nat
    <2>1. next[c] \in Nat /\ asked[c] \in SUBSET Players /\ next[c] + 1 <= Cardinality(asked[c])
        BY DEF IInv, TypeOK, ClientInv, ClientOK, Registered
    <2> QED BY <2>1, AskedBound, ConstantFacts DEF Players
<1>2. /\ control' = IF ok THEN [control EXCEPT ![c][p] = next[c]] ELSE control
      /\ next' = IF ok THEN [next EXCEPT ![c] = @ + 1] ELSE next
    BY DEF Registered, netplay_set_controller
<1>3. TypeOK'
    BY <1>1, <1>2 DEF IInv, TypeOK, Registered, Phases, server, machine
<1>4. LobbyOver'
    BY DEF IInv, TypeOK, LobbyOver, Began, Registered
<1>5. UploaderOK'
    <2>1. \A h \in Clients : Uploader(h)' => Uploader(h)
        BY DEF IInv, TypeOK, Uploader, Sources, Registered, server
    <2>2. \A h \in Clients : Uploader(h) => h # c
        BY DEF IInv, UploaderOK, Began, Registered
    <2> QED BY <1>2, <2>1, <2>2, UploaderKept
        DEF IInv, TypeOK, UploaderOK, IsPlayer1, Began, Registered, server
<1>6. ASSUME NEW d \in Clients PROVE ClientInv(d)'
    <2>1. CASE d # c
        BY <1>2, <1>6, <2>1, UntouchedKept
        DEF IInv, Untouched, TypeOK, Registered, server, machine
    <2>2. CASE d = c
        <3>1. ClientOK(c)'
            <4>1. ClientOK(c)
                BY DEF IInv, ClientInv
            <4>2. /\ next[c] \in Nat
                  /\ \A q \in Players : control[c][q] \in Int /\ control[c][q] < next[c]
                <5>1. next[c] \in Nat /\ \A q \in Players : control[c][q] \in Players \cup {-1}
                    BY DEF IInv, TypeOK
                <5>2. \A x \in Players \cup {-1} : x \in Int
                    BY ConstantFacts
                <5> QED BY <4>1, <5>1, <5>2 DEF ClientOK
            <4>3. /\ next'[c] = IF ok THEN next[c] + 1 ELSE next[c]
                  /\ \A q \in Players :
                        control'[c][q] = IF ok /\ q = p THEN next[c] ELSE control[c][q]
                BY <1>2 DEF IInv, TypeOK
            <4>4. \A q \in Players : control'[c][q] < next'[c]
                BY <4>2, <4>3
            <4>5. \A q, r \in Players :
                      control'[c][q] # -1 /\ q # r => control'[c][q] # control'[c][r]
                BY <4>1, <4>2, <4>3 DEF ClientOK
            <4> QED BY <1>1, <1>2, <4>1, <4>4, <4>5
                DEF IInv, TypeOK, Registered, ClientOK, Began, Fetching, machine
        <3>2. LinkOK(c)'
            <4>1. NoAsks(c) /\ out' = out
                BY RegisterAnswered DEF IInv, Registered
            <4> QED BY <4>1
                DEF IInv, TypeOK, ClientInv, LinkOK, NoAsks, Justified, Registered, Asks,
                    Began
        <3>3. ReplyOK(c)'
            BY DEF IInv, TypeOK, Registered, ReplyOK
        <3>4. HoldsSeats(c)'
            <4>1. ok /\ tcp[c] = "open" => reg[p] # None /\ reg[p].holder = c
                <5>1. SUFFICES ASSUME ok, tcp[c] = "open"
                      PROVE  reg[p] # None /\ reg[p].holder = c
                    OBVIOUS
                <5>2. reply[c] = [ok |-> ok] /\ reply[c] # None /\ phase[c] = "register"
                    <6>1. [ok |-> ok] \in [ok : BOOLEAN]
                        OBVIOUS
                    <6>2. reply[c] = [ok |-> ok] /\ phase[c] = "register"
                        BY <5>1 DEF Registered
                    <6> QED BY <6>1, <6>2, ConstantFacts
                <5>3. reply[c].ok
                    BY <5>1, <5>2
                <5> QED BY <5>2, <5>3 DEF IInv, ClientInv, ReplyOK, Fetching
            <4> QED BY <1>2, <4>1
                DEF IInv, TypeOK, ClientInv, Registered, HoldsSeats, server
        <3>5. DataOK(c)'
            BY DEF IInv, TypeOK, Registered, ClientInv, DataOK, HasSettings, HasSave, Joined,
                server, machine
        <3> QED BY <2>2, <3>1, <3>2, <3>3, <3>4, <3>5 DEF ClientInv
    <2> QED BY <2>1, <2>2
<1> QED BY <1>3, <1>4, <1>5, <1>6 DEF IInv

LEMMA ExecuteKeeps ==
    ASSUME IInv, NEW c \in Clients, Execute(c)
    PROVE  IInv'
<1>1. TypeOK'
    BY DEF IInv, TypeOK, Execute, Phases, server, link, seat, machine
<1>2. LobbyOver'
    <2>1. \A d \in Clients : tcp[d] # "none" /\ phase[d] # "register"
                             /\ (init[d] => asked[d] = Wants[d])
        BY DEF IInv, TypeOK, ClientInv, ClientOK, Execute, AllHaveAsked
    <2> QED BY <2>1 DEF IInv, TypeOK, LobbyOver, Execute, link, seat
<1>3. UploaderOK'
    <2>1. \A h \in Clients : Uploader(h)' => Uploader(h)
        BY DEF Uploader, Sources, Execute, server, link
    <2> QED BY <2>1, UploaderKept
        DEF IInv, TypeOK, UploaderOK, IsPlayer1, Began, Execute, server, seat
<1>4. ASSUME NEW d \in Clients PROVE ClientInv(d)'
    <2>1. CASE d # c
        BY <1>4, <2>1, UntouchedKept
        DEF IInv, Untouched, TypeOK, Execute, server, link, seat, machine
    <2>2. CASE d = c
        <3>1. ClientOK(c)'
            BY DEF IInv, TypeOK, ClientInv, ClientOK, Execute, Began, Fetching, IsPlayer1,
                link, seat, machine
        <3>2. LinkOK(c)' /\ reply' = reply /\ reply[c] = None
            <4>1. reply[c] = None /\ NoAsks(c) /\ UNCHANGED <<out, reply>>
                BY NothingAsked DEF IInv, ClientInv, ClientOK, Execute, link
            <4>2. ASSUME NEW i \in 1 .. Len(out[c]) PROVE Justified(c, out[c][i])'
                <5>1. Justified(c, out[c][i]) /\ out[c][i].kind \notin Asks
                    BY <4>1 DEF IInv, ClientInv, LinkOK, NoAsks
                <5> QED BY <4>1, <5>1
                    DEF IInv, TypeOK, Execute, Justified, Asks, IsPlayer1, Began, link, seat
            <4> QED BY <4>1, <4>2 DEF LinkOK, NoAsks
        <3>3. HoldsSeats(c)' /\ ReplyOK(c)'
            BY <3>2 DEF IInv, ClientInv, HoldsSeats, ReplyOK, Execute, server, link, seat
        <3>4. DataOK(c)'
            BY DEF IInv, TypeOK, Execute, ClientInv, DataOK, HasSettings, HasSave, Joined,
                IsPlayer1, server, link, seat, machine
        <3> QED BY <2>2, <3>1, <3>2, <3>3, <3>4 DEF ClientInv
    <2> QED BY <2>1, <2>2
<1> QED BY <1>1, <1>2, <1>3, <1>4 DEF IInv

LEMMA SyncKeeps ==
    ASSUME IInv, NEW c \in Clients, netplay_sync_settings(c)
    PROVE  IInv'
<1> USE DEF netplay_sync_settings
<1>1. phase[c] = "settings" /\ ClientInv(c) /\ Began(c) /\ TypeOK
    BY DEF IInv, Began
<1>2. \A kind \in {"upload", "fetch"} : [kind |-> kind, what |-> "settings"] \in Requests
    BY DataFacts DEF Requests
<1>3. \A d \in Clients : Began(d) <=> Began(d)'
    BY DEF IInv, TypeOK, Began
<1>4. LobbyOver'
    BY <1>1, <1>3 DEF IInv, TypeOK, LobbyOver, seat
<1>5. ASSUME NEW d \in Clients, d # c PROVE ClientInv(d)'
    BY <1>5, UntouchedKept
    DEF IInv, Untouched, TypeOK, server, seat, SendOurs, AskForTheirs, Received, TCP_Send
<1>6. CASE SendOurs(c, "settings") /\ phase' = [phase EXCEPT ![c] = "saves"]
           /\ UNCHANGED <<reply, waiting, settings>>
    <2>1. PICK m \in Requests : TCP_Send(c, m) /\ m.kind = "upload"
        BY <1>2, <1>6 DEF SendOurs
    <2>2. TypeOK'
        BY <1>6, <2>1, SentIsTyped DEF IInv, TypeOK, Phases, server, seat
    <2>3. UploaderOK'
        <3>1. \A h \in Clients : Uploader(h)' => Uploader(h) \/ (h = c /\ tcp[c] = "open")
            BY <1>1, <2>1, SendUploads DEF server
        <3>2. IsPlayer1(c)
            BY <1>6 DEF SendOurs
        <3>3. CASE tcp[c] = "open"
            BY <1>1, <1>3, <3>1, <3>2, <3>3, UploadKept DEF server, seat
        <3>4. CASE tcp[c] # "open"
            BY <1>3, <3>1, <3>4, UploaderKept DEF IInv, UploaderOK, IsPlayer1, server, seat
        <3> QED BY <3>3, <3>4
    <2>4. ClientInv(c)'
        <3>1. reply[c] = None /\ NoAsks(c) /\ ~ waiting[c] /\ IsPlayer1(c)
            BY <1>1, <1>6, NothingAsked DEF SendOurs
        <3>2. ClientOK(c)'
            BY <1>1, <1>6, <2>1, <3>1, DataFacts
            DEF TypeOK, ClientInv, ClientOK, TCP_Send, Began, Fetching, IsPlayer1, seat
        <3>3. LinkOK(c)'
            <4>1. \A r \in Requests : Justified(c, r) /\ r.kind \notin Asks => Justified(c, r)'
                BY <1>3 DEF Justified, IsPlayer1, Asks, seat
            <4>2. Justified(c, m)'
                BY <1>1, <1>3, <2>1, <3>1 DEF Justified, IsPlayer1, Asks, seat
            <4> QED BY <1>1, <2>1, <3>1, <4>1, <4>2, SendKeepsLink DEF TypeOK, TCP_Send, ClientInv
        <3>4. ReplyOK(c)' /\ HoldsSeats(c)'
            BY <1>1, <1>6, <3>1 DEF ClientInv, HoldsSeats, ReplyOK, server, seat
        <3>5. DataOK(c)'
            BY <1>1, <1>6, <3>1 DEF ClientInv, DataOK, IsPlayer1, HasSettings, seat
        <3> QED BY <3>2, <3>3, <3>4, <3>5 DEF ClientInv
    <2> QED BY <1>4, <1>5, <2>2, <2>3, <2>4 DEF IInv
<1>7. CASE AskForTheirs(c, "settings") /\ UNCHANGED <<reply, phase, settings>>
    <2>1. PICK m \in Requests : TCP_Send(c, m) /\ m.kind = "fetch"
        BY <1>2, <1>7 DEF AskForTheirs
    <2>2. TypeOK'
        BY <1>7, <2>1, SentIsTyped DEF IInv, TypeOK, AskForTheirs, server, seat
    <2>3. UploaderOK'
        <3>1. \A h \in Clients : Uploader(h)' => Uploader(h)
            BY <1>1, <2>1, SendUploads DEF server
        <3> QED BY <1>3, <3>1, UploaderKept DEF IInv, UploaderOK, IsPlayer1, server, seat
    <2>4. ClientInv(c)'
        <3>1. reply[c] = None /\ NoAsks(c) /\ ~ waiting[c] /\ ~ IsPlayer1(c) /\ waiting'[c]
            BY <1>1, <1>7, NothingAsked DEF AskForTheirs, TypeOK
        <3>2. ClientOK(c)'
            BY <1>1, <1>7, <2>1, <3>1
            DEF TypeOK, ClientInv, ClientOK, TCP_Send, Began, Fetching, IsPlayer1, seat
        <3>3. LinkOK(c)'
            <4>1. \A r \in Requests : Justified(c, r) /\ r.kind \notin Asks => Justified(c, r)'
                BY <1>3 DEF Justified, IsPlayer1, Asks, seat
            <4>2. Justified(c, m)'
                BY <1>1, <1>7, <2>1, <3>1 DEF Justified, Fetching, Asks
            <4> QED BY <1>1, <2>1, <3>1, <4>1, <4>2, SendKeepsLink DEF TypeOK, TCP_Send, ClientInv
        <3>4. ReplyOK(c)' /\ HoldsSeats(c)'
            BY <1>1, <1>7, <3>1 DEF ClientInv, HoldsSeats, ReplyOK, server, seat
        <3>5. DataOK(c)'
            BY <1>1, <1>7, <3>1
            DEF ClientInv, DataOK, IsPlayer1, HasSettings, HasSave, Joined, Sources, server, seat
        <3> QED BY <3>2, <3>3, <3>4, <3>5 DEF ClientInv
    <2> QED BY <1>4, <1>5, <2>2, <2>3, <2>4 DEF IInv
<1>8. CASE Received(c) /\ settings' = [settings EXCEPT ![c] = reply[c].from]
           /\ phase' = [phase EXCEPT ![c] = "saves"] /\ UNCHANGED out
    <2>1. reply[c].from \in Sources /\ tcp[c] = "open" /\ ~ IsPlayer1(c) /\ NoAsks(c)
        BY <1>1, <1>8, FetchAnswered
    <2>2. TypeOK'
        BY <1>8, <2>1 DEF IInv, TypeOK, Received, Sources, Phases, server, seat
    <2>3. UploaderOK'
        <3>1. \A h \in Clients : Uploader(h)' => Uploader(h)
            BY <1>8 DEF Uploader, Sources, server
        <3> QED BY <1>3, <3>1, UploaderKept DEF IInv, UploaderOK, IsPlayer1, server, seat
    <2>4. ClientInv(c)'
        <3>1. reply'[c] = None /\ ~ waiting'[c] /\ phase'[c] = "saves"
            BY <1>8 DEF TypeOK, IInv, Received
        <3>2. ClientOK(c)'
            BY <1>1, <1>8, <2>1, <3>1, DataFacts
            DEF TypeOK, ClientInv, ClientOK, Began, Fetching, IsPlayer1, seat
        <3>3. LinkOK(c)'
            BY <1>1, <1>3, <1>8, <2>1
            DEF ClientInv, LinkOK, NoAsks, Justified, IsPlayer1, Asks, seat
        <3>4. ReplyOK(c)' /\ HoldsSeats(c)'
            BY <1>1, <3>1 DEF ClientInv, HoldsSeats, ReplyOK, server, seat
        <3>5. DataOK(c)'
            BY <1>1, <1>8, <2>1, <3>1
            DEF TypeOK, ClientInv, ClientOK, DataOK, IsPlayer1, HasSettings, HasSave, Joined,
                Sources, server, seat
        <3> QED BY <3>2, <3>3, <3>4, <3>5 DEF ClientInv
    <2> QED BY <1>4, <1>5, <2>2, <2>3, <2>4 DEF IInv
<1> QED BY <1>6, <1>7, <1>8

LEMMA SavedSoFar ==
    ASSUME TypeOK, NEW c \in Clients, ClientOK(c), phase[c] = "saves", Opened(c)
    PROVE  /\ Files[at[c]] \in FileNames /\ at[c] \in 1 .. Len(Files)
           /\ at' \in [Clients -> Nat] /\ phase' \in [Clients -> Phases]
           /\ \A f \in FileNames : HasSave(c, f)' => HasSave(c, f) \/ f = Files[at[c]]
           /\ phase'[c] \in {"saves", "registration"}
           /\ phase'[c] = "saves" => at'[c] \in 1 .. Len(Files)
<1>1. Files[at[c]] \in FileNames /\ at[c] \in 1 .. Len(Files)
    BY DataFacts DEF ClientOK
<1>2. /\ at'[c] = at[c] + 1
      /\ phase'[c] = IF at[c] = Len(Files) THEN "registration" ELSE "saves"
      /\ at' \in [Clients -> Nat] /\ phase' \in [Clients -> Phases]
    BY <1>1 DEF TypeOK, Opened, Phases
<1>3. ASSUME NEW f \in FileNames, HasSave(c, f)'
      PROVE  HasSave(c, f) \/ f = Files[at[c]]
    <2>1. \E i \in 1 .. at[c] : Files[i] = f
        <3>1. CASE at[c] = Len(Files)
            BY <3>1, FilesListed
        <3>2. CASE at[c] # Len(Files)
            BY <1>1, <1>2, <1>3, <3>2, DataFacts DEF HasSave
        <3> QED BY <3>1, <3>2
    <2> QED BY <1>1, <2>1, DataFacts DEF HasSave
<1> QED BY <1>1, <1>2, <1>3, DataFacts

LEMMA StorageKeeps ==
    ASSUME IInv, NEW c \in Clients, netplay_read_storage(c)
    PROVE  IInv'
<1> DEFINE file == Files[at[c]]
<1> USE DEF netplay_read_storage
<1>1. phase[c] = "saves" /\ ClientInv(c) /\ ClientOK(c) /\ Began(c) /\ TypeOK
    BY DEF IInv, Began, ClientInv
<1>2. /\ file \in FileNames
      /\ \A kind \in {"upload", "fetch"} : [kind |-> kind, what |-> file] \in Requests
    BY <1>1, DataFacts DEF Requests, ClientOK
<1>3. \A d \in Clients : Began(d) <=> Began(d)'
    BY DEF IInv, TypeOK, Began, Opened
<1>4. LobbyOver'
    BY <1>1, <1>3 DEF IInv, TypeOK, LobbyOver, seat, Opened
<1>5. ASSUME NEW d \in Clients, d # c PROVE ClientInv(d)'
    BY <1>5, UntouchedKept
    DEF IInv, Untouched, TypeOK, server, seat, SendOurs, AskForTheirs, Received, TCP_Send,
        Opened
<1>6. CASE SendOurs(c, file) /\ Opened(c) /\ UNCHANGED <<reply, waiting, saves>>
    <2>1. PICK m \in Requests : TCP_Send(c, m) /\ m.kind = "upload"
        BY <1>2, <1>6 DEF SendOurs
    <2>2. TypeOK'
        BY <1>1, <1>6, <2>1, SentIsTyped, SavedSoFar DEF TypeOK, server, seat
    <2>3. UploaderOK'
        <3>1. \A h \in Clients : Uploader(h)' => Uploader(h) \/ (h = c /\ tcp[c] = "open")
            BY <1>1, <2>1, SendUploads DEF server
        <3>2. IsPlayer1(c)
            BY <1>6 DEF SendOurs
        <3>3. CASE tcp[c] = "open"
            BY <1>1, <1>3, <3>1, <3>2, <3>3, UploadKept DEF server, seat
        <3>4. CASE tcp[c] # "open"
            BY <1>3, <3>1, <3>4, UploaderKept DEF IInv, UploaderOK, IsPlayer1, server, seat
        <3> QED BY <3>3, <3>4
    <2>4. ClientInv(c)'
        <3>1. reply[c] = None /\ NoAsks(c) /\ ~ waiting[c] /\ IsPlayer1(c)
            BY <1>1, <1>6, NothingAsked DEF SendOurs
        <3>2. ClientOK(c)'
            BY <1>1, <1>6, <2>1, <3>1, SavedSoFar
            DEF TypeOK, ClientOK, TCP_Send, Began, Fetching, IsPlayer1, seat
        <3>3. LinkOK(c)'
            <4>1. \A r \in Requests : Justified(c, r) /\ r.kind \notin Asks => Justified(c, r)'
                BY <1>3 DEF Justified, IsPlayer1, Asks, seat
            <4>2. Justified(c, m)'
                BY <1>1, <1>3, <2>1, <3>1 DEF Justified, IsPlayer1, Asks, seat
            <4> QED BY <1>1, <2>1, <3>1, <4>1, <4>2, SendKeepsLink DEF TypeOK, TCP_Send, ClientInv
        <3>4. ReplyOK(c)' /\ HoldsSeats(c)'
            BY <1>1, <1>6, <3>1 DEF ClientInv, HoldsSeats, ReplyOK, server, seat
        <3>5. DataOK(c)'
            BY <1>1, <1>6, <3>1 DEF ClientInv, DataOK, IsPlayer1, HasSettings, seat
        <3> QED BY <3>2, <3>3, <3>4, <3>5 DEF ClientInv
    <2> QED BY <1>4, <1>5, <2>2, <2>3, <2>4 DEF IInv
<1>7. CASE AskForTheirs(c, file) /\ UNCHANGED <<reply, phase, saves, at>>
    <2>1. PICK m \in Requests : TCP_Send(c, m) /\ m.kind = "fetch"
        BY <1>2, <1>7 DEF AskForTheirs
    <2>2. TypeOK'
        BY <1>7, <2>1, SentIsTyped DEF IInv, TypeOK, AskForTheirs, server, seat
    <2>3. UploaderOK'
        <3>1. \A h \in Clients : Uploader(h)' => Uploader(h)
            BY <1>1, <2>1, SendUploads DEF server
        <3> QED BY <1>3, <3>1, UploaderKept DEF IInv, UploaderOK, IsPlayer1, server, seat
    <2>4. ClientInv(c)'
        <3>1. reply[c] = None /\ NoAsks(c) /\ ~ waiting[c] /\ ~ IsPlayer1(c) /\ waiting'[c]
            BY <1>1, <1>7, NothingAsked DEF AskForTheirs, TypeOK
        <3>2. ClientOK(c)'
            BY <1>1, <1>7, <2>1, <3>1
            DEF TypeOK, ClientOK, TCP_Send, Began, Fetching, IsPlayer1, seat
        <3>3. LinkOK(c)'
            <4>1. \A r \in Requests : Justified(c, r) /\ r.kind \notin Asks => Justified(c, r)'
                BY <1>3 DEF Justified, IsPlayer1, Asks, seat
            <4>2. Justified(c, m)'
                BY <1>1, <1>7, <2>1, <3>1 DEF Justified, Fetching, Asks
            <4> QED BY <1>1, <2>1, <3>1, <4>1, <4>2, SendKeepsLink DEF TypeOK, TCP_Send, ClientInv
        <3>4. ReplyOK(c)' /\ HoldsSeats(c)'
            BY <1>1, <1>7, <3>1 DEF ClientInv, HoldsSeats, ReplyOK, server, seat
        <3>5. DataOK(c)'
            BY <1>1, <1>7, <3>1
            DEF ClientInv, DataOK, IsPlayer1, HasSettings, HasSave, Joined, Sources, server, seat
        <3> QED BY <3>2, <3>3, <3>4, <3>5 DEF ClientInv
    <2> QED BY <1>4, <1>5, <2>2, <2>3, <2>4 DEF IInv
<1>8. CASE Received(c) /\ saves' = [saves EXCEPT ![c][file] = reply[c].from]
           /\ Opened(c) /\ UNCHANGED out
    <2>1. reply[c].from \in Sources /\ tcp[c] = "open" /\ ~ IsPlayer1(c) /\ NoAsks(c)
        BY <1>1, <1>8, FetchAnswered
    <2>2. TypeOK'
        BY <1>1, <1>2, <1>8, <2>1, SavedSoFar
        DEF TypeOK, Received, Sources, server, seat
    <2>3. UploaderOK'
        <3>1. \A h \in Clients : Uploader(h)' => Uploader(h)
            BY <1>8 DEF Uploader, Sources, server
        <3> QED BY <1>3, <3>1, UploaderKept DEF IInv, UploaderOK, IsPlayer1, server, seat
    <2>4. ClientInv(c)'
        <3>1. reply'[c] = None /\ ~ waiting'[c]
            BY <1>8 DEF TypeOK, IInv, Received
        <3>2. ClientOK(c)'
            BY <1>1, <1>8, <2>1, <3>1, SavedSoFar
            DEF TypeOK, ClientOK, Began, Fetching, IsPlayer1, seat
        <3>3. LinkOK(c)'
            BY <1>1, <1>3, <1>8, <2>1
            DEF ClientInv, LinkOK, NoAsks, Justified, IsPlayer1, Asks, seat
        <3>4. ReplyOK(c)' /\ HoldsSeats(c)'
            BY <1>1, <3>1 DEF ClientInv, HoldsSeats, ReplyOK, server, seat
        <3>5. DataOK(c)'
            <4>1. /\ ~ IsPlayer1(c)' /\ HasSettings(c) /\ HasSettings(c)' /\ (Joined(c)' => Joined(c))
                  /\ settings' = settings /\ Sources' = Sources
                BY <1>1, <1>8, <2>1, SavedSoFar DEF IsPlayer1, HasSettings, Joined, Sources, server, seat
            <4>2. ASSUME NEW f \in FileNames, Joined(c)', HasSave(c, f)' PROVE saves'[c][f] \in Sources
                <5>1. CASE f = file
                    BY <1>1, <1>2, <1>8, <2>1, <5>1 DEF TypeOK
                <5>2. CASE f # file
                    <6>1. HasSave(c, f) /\ Joined(c)
                        BY <1>1, <1>8, <4>1, <4>2, <5>2, SavedSoFar
                    <6>2. saves'[c][f] = saves[c][f]
                        BY <1>1, <1>2, <1>8, <5>2 DEF TypeOK
                    <6> QED BY <1>1, <2>1, <6>1, <6>2 DEF ClientInv, DataOK
                <5> QED BY <5>1, <5>2
            <4> QED BY <1>1, <2>1, <4>1, <4>2 DEF ClientInv, DataOK
        <3> QED BY <3>2, <3>3, <3>4, <3>5 DEF ClientInv
    <2> QED BY <1>4, <1>5, <2>2, <2>3, <2>4 DEF IInv
<1>9. ASSUME waiting[c], tcp[c] = "lost", NEW what \in {c, Torn},
             saves' = [saves EXCEPT ![c][file] = what],
             waiting' = [waiting EXCEPT ![c] = FALSE],
             Opened(c), UNCHANGED <<out, reply>>
      PROVE  IInv'
    <2>1. ~ IsPlayer1(c)
        BY <1>1, <1>9 DEF ClientOK, Fetching
    <2>2. TypeOK'
        BY <1>1, <1>2, <1>9, SavedSoFar DEF TypeOK, server, seat
    <2>3. UploaderOK'
        <3>1. \A h \in Clients : Uploader(h)' => Uploader(h)
            BY <1>9 DEF Uploader, Sources, server
        <3> QED BY <1>3, <3>1, UploaderKept DEF IInv, UploaderOK, IsPlayer1, server, seat
    <2>4. ClientInv(c)'
        <3>1. out'[c] = << >> /\ reply'[c] = None /\ ~ waiting'[c] /\ tcp'[c] = "lost"
            BY <1>1, <1>9 DEF TypeOK, ClientOK
        <3>2. ClientOK(c)'
            <4>1. /\ phase'[c] \in {"saves", "registration"}
                  /\ phase'[c] = "saves" => at'[c] \in 1 .. Len(Files)
                BY <1>1, <1>9, SavedSoFar
            <4>2. control' = control /\ next' = next /\ asked' = asked /\ init' = init
                BY DEF seat
            <4> QED BY <1>1, <3>1, <4>1, <4>2 DEF ClientOK, Began, Fetching, IsPlayer1
        <3>3. LinkOK(c)' /\ ReplyOK(c)' /\ HoldsSeats(c)'
            BY <3>1 DEF LinkOK, HoldsSeats, ReplyOK
        <3>4. DataOK(c)'
            BY <1>1, <1>9, <2>1, <3>1, SavedSoFar
            DEF TypeOK, ClientInv, DataOK, IsPlayer1, HasSettings, Joined, seat
        <3> QED BY <3>2, <3>3, <3>4 DEF ClientInv
    <2> QED BY <1>4, <1>5, <2>2, <2>3, <2>4 DEF IInv
<1> QED BY <1>6, <1>7, <1>8, <1>9

LEMMA RegistrationKeeps ==
    ASSUME IInv, NEW c \in Clients, netplay_read_registration(c)
    PROVE  IInv'
<1> USE DEF netplay_read_registration
<1>1. phase[c] = "registration" /\ ClientInv(c) /\ ClientOK(c) /\ Began(c) /\ TypeOK
    BY DEF IInv, Began, ClientInv
<1>2. [kind |-> "registration"] \in Requests
    BY DEF Requests
<1>3. \A d \in Clients : Began(d) <=> Began(d)'
    BY DEF IInv, TypeOK, Began
<1>4. LobbyOver'
    BY <1>1, <1>3 DEF IInv, TypeOK, LobbyOver, seat
<1>5. ASSUME NEW d \in Clients, d # c PROVE ClientInv(d)'
    BY <1>5, UntouchedKept DEF IInv, Untouched, TypeOK, server, seat, Received, TCP_Send
<1>6. CASE ~ waiting[c] /\ TCP_Send(c, [kind |-> "registration"])
           /\ waiting' = [waiting EXCEPT ![c] = TRUE] /\ UNCHANGED <<reply, phase, controls>>
    <2>1. PICK m \in Requests : TCP_Send(c, m) /\ m.kind = "registration"
        BY <1>2, <1>6
    <2>2. TypeOK'
        BY <1>6, <2>1, SentIsTyped DEF IInv, TypeOK, server, seat
    <2>3. UploaderOK'
        <3>1. \A h \in Clients : Uploader(h)' => Uploader(h)
            BY <1>1, <2>1, SendUploads DEF server
        <3> QED BY <1>3, <3>1, UploaderKept DEF IInv, UploaderOK, IsPlayer1, server, seat
    <2>4. ClientInv(c)'
        <3>1. reply[c] = None /\ NoAsks(c) /\ ~ waiting[c] /\ waiting'[c]
            BY <1>1, <1>6, NothingAsked DEF TypeOK
        <3>2. ClientOK(c)'
            BY <1>1, <1>6, <2>1, <3>1
            DEF TypeOK, ClientOK, TCP_Send, Began, Fetching, IsPlayer1, seat
        <3>3. LinkOK(c)'
            <4>1. \A r \in Requests : Justified(c, r) /\ r.kind \notin Asks => Justified(c, r)'
                BY <1>3 DEF Justified, IsPlayer1, Asks, seat
            <4>2. Justified(c, m)'
                BY <1>1, <1>6, <2>1, <3>1 DEF Justified, Fetching, Asks
            <4> QED BY <1>1, <2>1, <3>1, <4>1, <4>2, SendKeepsLink DEF TypeOK, TCP_Send, ClientInv
        <3>4. ReplyOK(c)' /\ HoldsSeats(c)'
            BY <1>1, <1>6, <3>1 DEF ClientInv, HoldsSeats, ReplyOK, server, seat
        <3>5. DataOK(c)'
            BY <1>1, <1>6
            DEF ClientInv, DataOK, IsPlayer1, HasSettings, HasSave, Joined, Sources, server, seat
        <3> QED BY <3>2, <3>3, <3>4, <3>5 DEF ClientInv
    <2> QED BY <1>4, <1>5, <2>2, <2>3, <2>4 DEF IInv
<1>7. ASSUME waiting[c], reply'[c] = None, reply' \in [Clients -> Replies \cup {None}],
             waiting' = [waiting EXCEPT ![c] = FALSE],
             NEW seats \in [Players -> Seats],
             controls' = [controls EXCEPT ![c] = ControlsOf(seats)],
             phase' = [phase EXCEPT ![c] = "run"], UNCHANGED out,
             NoAsks(c)
      PROVE  IInv'
    <2>1. ControlsOf(seats) \in [Players -> Paks \cup {Absent}]
        BY ConstantFacts DEF ControlsOf, Plugged, Seats, Paks
    <2>2. TypeOK'
        BY <1>1, <1>7, <2>1 DEF TypeOK, Phases, server, seat
    <2>3. UploaderOK'
        <3>1. \A h \in Clients : Uploader(h)' => Uploader(h)
            BY <1>7 DEF Uploader, Sources, server
        <3> QED BY <1>3, <3>1, UploaderKept DEF IInv, UploaderOK, IsPlayer1, server, seat
    <2>4. ClientInv(c)'
        <3>1. ~ waiting'[c] /\ phase'[c] = "run"
            BY <1>1, <1>7 DEF TypeOK
        <3>2. ClientOK(c)'
            BY <1>1, <1>3, <1>7, <3>1 DEF TypeOK, ClientOK, Fetching, IsPlayer1, seat
        <3>3. LinkOK(c)'
            BY <1>1, <1>3, <1>7
            DEF ClientInv, LinkOK, NoAsks, Justified, IsPlayer1, Asks, seat
        <3>4. ReplyOK(c)' /\ HoldsSeats(c)'
            BY <1>1, <1>7 DEF ClientInv, HoldsSeats, ReplyOK, server, seat
        <3>5. DataOK(c)'
            BY <1>1, <3>1
            DEF ClientInv, DataOK, IsPlayer1, HasSettings, HasSave, Joined, Sources, server, seat
        <3> QED BY <3>2, <3>3, <3>4, <3>5 DEF ClientInv
    <2> QED BY <1>4, <1>5, <2>2, <2>3, <2>4 DEF IInv
<1>8. CASE Received(c) /\ controls' = [controls EXCEPT ![c] = ControlsOf(reply[c].seats)]
           /\ phase' = [phase EXCEPT ![c] = "run"] /\ UNCHANGED out
    <2>1. reply[c] \in [seats : [Players -> Seats]] /\ NoAsks(c)
        BY <1>1, <1>8
        DEF ClientInv, ReplyOK, LinkOK, Justified, NoAsks, Received, Fetching
    <2>2. reply[c].seats \in [Players -> Seats]
        BY <2>1
    <2>3. waiting[c] /\ reply'[c] = None /\ reply' \in [Clients -> Replies \cup {None}]
          /\ waiting' = [waiting EXCEPT ![c] = FALSE]
        BY <1>1, <1>8 DEF TypeOK, Received
    <2> QED BY <1>7, <1>8, <2>1, <2>2, <2>3
<1>9. ASSUME waiting[c], tcp[c] = "lost", NEW paks \in [Players -> StackPaks],
             controls' = [controls EXCEPT ![c] =
                    ControlsOf([p \in Players |->
                        IF paks[p] = None THEN None ELSE [holder |-> c, pak |-> paks[p]]])],
             waiting' = [waiting EXCEPT ![c] = FALSE],
             phase' = [phase EXCEPT ![c] = "run"], UNCHANGED <<out, reply>>
      PROVE  IInv'
    <2> DEFINE seats == [p \in Players |->
                        IF paks[p] = None THEN None ELSE [holder |-> c, pak |-> paks[p]]]
    <2>1. seats \in [Players -> Seats]
        BY <1>9, ConstantFacts DEF Seats
    <2>2. reply[c] = None /\ out[c] = << >>
        BY <1>1, <1>9 DEF ClientOK
    <2>3. reply'[c] = None /\ NoAsks(c) /\ reply' \in [Clients -> Replies \cup {None}]
        BY <1>1, <1>9, <2>2 DEF TypeOK, NoAsks
    <2> HIDE DEF seats
    <2> QED BY <1>7, <1>9, <2>1, <2>3 DEF seats
<1> QED BY <1>6, <1>8, <1>9

LEMMA HeadServed ==
    ASSUME TypeOK, NEW c \in Clients, LinkOK(c), out[c] # << >>,
           out' = [out EXCEPT ![c] = Tail(@)]
    PROVE  /\ Head(out[c]) \in Requests /\ Justified(c, Head(out[c]))
           /\ \E i \in 1 .. Len(out[c]) : out[c][i] = Head(out[c])
           /\ out' \in [Clients -> Seq(Requests)]
           /\ Len(out'[c]) \in Nat /\ Len(out[c]) = Len(out'[c]) + 1
           /\ \A i \in 1 .. Len(out'[c]) : /\ out'[c][i] = out[c][i + 1]
                                           /\ i + 1 \in 1 .. Len(out[c])
                                           /\ out'[c][i] \in Requests
           /\ Head(out[c]).kind \in Asks =>
                 \A i \in 1 .. Len(out'[c]) : out'[c][i].kind \notin Asks
           /\ given' = given => \A h \in Clients : Uploader(h)' => Uploader(h)
<1>1. out[c] \in Seq(Requests) /\ out'[c] = Tail(out[c]) /\ out' \in [Clients -> Seq(Requests)]
    BY DEF TypeOK
<1>2. Head(out[c]) = out[c][1] /\ 1 \in 1 .. Len(out[c]) /\ Head(out[c]) \in Requests
    BY <1>1
<1>3. Len(out'[c]) \in Nat /\ Len(out[c]) = Len(out'[c]) + 1
    BY <1>1
<1>4. \A i \in 1 .. Len(out'[c]) : out'[c][i] = out[c][i + 1] /\ i + 1 \in 1 .. Len(out[c])
                                   /\ out'[c][i] \in Requests
    BY <1>1
<1>5. Justified(c, Head(out[c]))
    BY <1>2 DEF LinkOK
<1>6. Head(out[c]).kind \in Asks => \A i \in 1 .. Len(out'[c]) : out'[c][i].kind \notin Asks
    BY <1>2, <1>3, <1>4 DEF LinkOK
<1>7. ASSUME given' = given, NEW h \in Clients, Uploader(h)' PROVE Uploader(h)
    <2>1. CASE h # c
        BY <1>7, <2>1 DEF TypeOK, Uploader, Sources
    <2>2. CASE h = c
        BY <1>4, <1>7, <2>2 DEF Uploader, Sources
    <2> QED BY <2>1, <2>2
<1> QED BY <1>1, <1>2, <1>3, <1>4, <1>5, <1>6, <1>7

LEMMA LinkServed ==
    ASSUME TypeOK, NEW c \in Clients, LinkOK(c), Serve(c),
           Head(out[c]).kind \in Asks \/ reply' = reply
    PROVE  LinkOK(c)'
<1>1. out[c] # << >> /\ out' = [out EXCEPT ![c] = Tail(@)]
      /\ UNCHANGED <<tcp, phase, waiting, asking, control>>
    BY DEF Serve, place, seat
<1>2. ASSUME NEW i \in 1 .. Len(out'[c]) PROVE Justified(c, out[c][i])'
    <2>1. Justified(c, out'[c][i])
        BY <1>1, <1>2, HeadServed DEF LinkOK
    <2>2. out'[c][i].kind \in Asks => reply' = reply
        BY <1>1, <1>2, HeadServed
    <2> QED BY <1>1, <2>1, <2>2 DEF Justified, Fetching, IsPlayer1, Began
<1>3. ASSUME NEW i \in 1 .. Len(out'[c]), NEW j \in 1 .. Len(out'[c]),
             out'[c][i].kind \in Asks, out'[c][j].kind \in Asks
      PROVE  i = j
    <2>1. \A k \in 1 .. Len(out'[c]) :
              out'[c][k] = out[c][k + 1] /\ k + 1 \in 1 .. Len(out[c])
        BY <1>1, HeadServed
    <2>2. i + 1 = j + 1
        BY <1>3, <2>1 DEF LinkOK
    <2> QED BY <2>2
<1> QED BY <1>2, <1>3 DEF LinkOK

LEMMA ServeKeeps ==
    ASSUME IInv, NEW c \in Clients, Serve(c)
    PROVE  IInv'
<1> DEFINE m == Head(out[c])
<1>1. /\ TypeOK /\ ClientInv(c) /\ LinkOK(c) /\ out[c] # << >>
      /\ out' = [out EXCEPT ![c] = Tail(@)]
      /\ UNCHANGED <<tcp, udp, init, place, seat, machine>>
    BY DEF IInv, ClientInv, Serve
<1>2. m \in Requests /\ Justified(c, m) /\ out' \in [Clients -> Seq(Requests)]
    BY <1>1, HeadServed
<1>3. LobbyOver'
    BY <1>1 DEF IInv, LobbyOver, Began, place, seat
<1>4. ASSUME NEW d \in Clients, d # c, UNCHANGED <<reg, given>>, reply'[d] = reply[d]
      PROVE  ClientInv(d)'
    BY <1>1, <1>4, UntouchedKept DEF IInv, TypeOK, Untouched, place, seat, machine
<1>5. ASSUME NEW d \in Clients, out'[d] = << >> <=> (out[d] = << >>),
             tcp[d] \in {"none", "lost"} => out'[d] = << >> /\ reply'[d] = None
      PROVE  ClientOK(d)'
    BY <1>1, <1>5
    DEF IInv, ClientInv, ClientOK, Began, Fetching, IsPlayer1, place, seat, machine
<1>6. tcp[c] \in {"open", "closed"}
    BY <1>1 DEF TypeOK, ClientInv, ClientOK
<1>7. ClientOK(c)'
    BY <1>1, <1>6 DEF ClientInv, ClientOK, Began, Fetching, IsPlayer1, place, seat, machine
<1>8. ASSUME UNCHANGED reg, \A h \in Clients : h \in Sources => h \in Sources',
             NEW d \in Clients
      PROVE  HoldsSeats(d)' /\ DataOK(d)'
    <2>1. HoldsSeats(d)'
        BY <1>1, <1>8 DEF IInv, ClientInv, HoldsSeats, seat
    <2>2. Sources \subseteq Sources'
        BY <1>8 DEF Sources
    <2>3. DataOK(d)'
        BY <1>1, <2>2
        DEF IInv, ClientInv, DataOK, IsPlayer1, HasSettings, HasSave, Joined,
            place, seat, machine
    <2> QED BY <2>1, <2>3
<1>9. CASE m.kind = "register" /\ Register(c, m)
    <2>1. phase[c] = "register" /\ m.player = asking[c] /\ m.player \in Players
          /\ m.pak \in Paks /\ reply[c] = None /\ tcp[c] = "open"
        BY <1>1, <1>2, <1>6, <1>9
        DEF Justified, Requests, Asks, ClientInv, ClientOK, TypeOK
    <2>2. [holder |-> c, pak |-> m.pak] \in Seats /\ [holder |-> c, pak |-> m.pak] # None
        BY <2>1, ConstantFacts DEF Seats
    <2>3. TypeOK'
        BY <1>1, <1>2, <1>9, <2>1, <2>2
        DEF TypeOK, Register, Answer, Replies, place, seat, machine
    <2>4. \A h \in Clients : ~ Uploader(h)
        BY <2>1 DEF IInv, UploaderOK, LobbyOver
    <2>5. UploaderOK'
        BY <1>1, <1>9, <2>4, HeadServed DEF UploaderOK, Register
    <2>6. \A p \in Players : reg[p] # None => reg'[p] = reg[p]
        BY <1>1, <1>9 DEF Register, TypeOK
    <2>7. ASSUME NEW d \in Clients PROVE HoldsSeats(d)' /\ DataOK(d)'
        BY <1>1, <1>9, <2>6
        DEF IInv, ClientInv, HoldsSeats, DataOK, IsPlayer1, HasSettings, HasSave, Joined,
            Sources, place, seat, machine, Register
    <2>8. ASSUME NEW d \in Clients, d # c PROVE ClientInv(d)'
        <3>1. out'[d] = out[d] /\ reply'[d] = reply[d] /\ given' = given
            BY <1>1, <1>9, <2>8 DEF TypeOK, Register, Answer
        <3>2. ClientOK(d)'
            BY <1>5, <3>1 DEF IInv, ClientInv, ClientOK
        <3>3. LinkOK(d)'
            BY <1>1, <3>1 DEF IInv, ClientInv, LinkOK, Justified, Fetching, IsPlayer1, Began,
                place, seat
        <3>4. ReplyOK(d)'
            BY <1>1, <2>6, <3>1 DEF IInv, TypeOK, ClientInv, ReplyOK, Fetching, Sources, place, seat
        <3> QED BY <2>7, <3>2, <3>3, <3>4 DEF ClientInv
    <2>9. LinkOK(c)'
        BY <1>1, <1>9, LinkServed DEF Asks
    <2>10. ReplyOK(c)'
        <3>1. reply'[c] = [ok |-> reg[asking[c]] = None]
            BY <1>1, <1>9, <2>1 DEF Register, Answer, TypeOK
        <3>2. reply'[c] \in [ok : BOOLEAN] /\ reply'[c].ok = (reg[asking[c]] = None)
            BY <3>1
        <3>3. reg[asking[c]] = None =>
                 reg'[asking[c]] # None /\ reg'[asking[c]].holder = c
            BY <1>1, <1>9, <2>1, <2>2 DEF Register, TypeOK
        <3> QED BY <1>1, <2>1, <3>2, <3>3 DEF ReplyOK, place, seat
    <2> QED BY <1>3, <1>7, <2>3, <2>5, <2>7, <2>8, <2>9, <2>10 DEF IInv, ClientInv
<1>10. CASE m.kind = "upload" /\ Upload(c, m)
    <2>1. m.what \in Data
        BY <1>2, <1>10 DEF Requests
    <2>2. TypeOK'
        BY <1>1, <1>2, <1>10, <2>1 DEF TypeOK, Upload, place, seat, machine
    <2>3. Uploader(c) /\ \A h \in Clients : Uploader(h) => h = c
        BY <1>1, <1>10, HeadServed DEF IInv, UploaderOK, Uploader
    <2>4. \A h \in Clients : h \in Sources => h \in Sources'
        BY <1>10, <2>1, <2>2, <2>3 DEF Sources, Upload, TypeOK, Uploader
    <2>5. \A h \in Clients : Uploader(h)' => h = c
        <3>1. ASSUME NEW h \in Clients, Uploader(h)', h # c PROVE FALSE
            <4>1. out'[h] = out[h]
                BY <1>1, <3>1 DEF TypeOK
            <4>2. \A x \in Data : given'[x] = h => given[x] = h
                BY <1>1, <1>10, <3>1 DEF Upload, TypeOK
            <4> QED BY <2>3, <3>1, <4>1, <4>2 DEF Uploader, Sources
        <3> QED BY <3>1
    <2>6. UploaderOK'
        BY <1>1, <1>10, <2>3, <2>5
        DEF IInv, UploaderOK, IsPlayer1, Began, Upload, place, seat
    <2>7. UNCHANGED <<reg, reply>>
        BY <1>10 DEF Upload
    <2>8. ASSUME NEW d \in Clients PROVE ReplyOK(d)'
        BY <1>1, <2>4, <2>7, <2>8
        DEF IInv, ClientInv, ReplyOK, Fetching, Sources, place, seat
    <2>9. ASSUME NEW d \in Clients, d # c PROVE ClientOK(d)' /\ LinkOK(d)'
        <3>1. out'[d] = out[d]
            BY <1>1, <2>9 DEF TypeOK
        <3>2. ClientOK(d)'
            BY <1>5, <2>7, <3>1 DEF IInv, ClientInv, ClientOK
        <3>3. LinkOK(d)'
            <4>1. reply'[d] = reply[d]
                BY <2>7
            <4> QED BY <1>1, <3>1, <4>1
                DEF IInv, ClientInv, LinkOK, Justified, Fetching, IsPlayer1, Began, place, seat
        <3> QED BY <3>2, <3>3
    <2>10. LinkOK(c)'
        BY <1>1, <2>7, LinkServed
    <2> QED BY <1>3, <1>7, <1>8, <2>2, <2>4, <2>6, <2>7, <2>8, <2>9, <2>10 DEF IInv, ClientInv
<1>11. CASE \/ m.kind = "fetch" /\ Fetch(c, m)
            \/ m.kind = "registration" /\ Registration(c)
    <2>1. UNCHANGED server
        BY <1>11 DEF Fetch, Registration
    <2>2. PICK r \in Replies : reply' = [reply EXCEPT ![c] = r] /\
              \/ Fetching(c) /\ r \in [from : Sources]
              \/ waiting[c] /\ phase[c] = "registration" /\ r \in [seats : [Players -> Seats]]
        <3>1. CASE m.kind = "fetch" /\ Fetch(c, m)
            <4>1. m.what \in Data /\ Fetching(c)
                BY <1>2, <3>1 DEF Requests, Justified
            <4>2. given[m.what] \in Clients /\ given[m.what] \in Sources
                BY <1>1, <3>1, <4>1 DEF Fetch, TypeOK, Sources
            <4>3. [from |-> given[m.what]] \in Replies
                  /\ [from |-> given[m.what]] \in [from : Sources]
                BY <4>2 DEF Replies
            <4> HIDE DEF m
            <4> QED BY <3>1, <4>1, <4>3 DEF Fetch, Answer
        <3>2. CASE m.kind = "registration" /\ Registration(c)
            <4>1. waiting[c] /\ phase[c] = "registration" /\ reg \in [Players -> Seats]
                BY <1>1, <1>2, <3>2 DEF Justified, TypeOK
            <4>2. [seats |-> reg] \in Replies /\ [seats |-> reg] \in [seats : [Players -> Seats]]
                BY <4>1 DEF Replies
            <4> QED BY <3>2, <4>1, <4>2 DEF Registration, Answer
        <3> QED BY <1>11, <3>1, <3>2
    <2>3. TypeOK'
        BY <1>1, <1>2, <2>1, <2>2 DEF TypeOK, server, place, seat, machine
    <2>4. UploaderOK'
        <3>1. \A h \in Clients : Uploader(h)' => Uploader(h)
            BY <1>1, <2>1, HeadServed DEF server
        <3> QED BY <1>1, <2>1, <3>1, UploaderKept
            DEF IInv, UploaderOK, IsPlayer1, Began, server, place, seat
    <2>5. ASSUME NEW d \in Clients, d # c PROVE ClientInv(d)'
        BY <1>1, <1>4, <2>1, <2>2, <2>5 DEF TypeOK, server
    <2>6. tcp[c] = "open"
        <3>1. waiting[c]
            BY <1>2, <1>11 DEF Justified, Fetching
        <3> QED BY <1>1, <1>6, <3>1 DEF ClientInv, ClientOK
    <2>7. ReplyOK(c)'
        <3>1. reply'[c] = r
            BY <1>1, <2>2 DEF TypeOK
        <3>2. r \in [from : Sources] => r \in [from : Sources']
            BY <2>1 DEF Sources, server
        <3> QED BY <1>1, <2>1, <2>2, <2>6, <3>1, <3>2 DEF ReplyOK, Fetching, place, server
    <2>8. LinkOK(c)'
        BY <1>1, <1>11, LinkServed DEF Asks
    <2>9. HoldsSeats(c)' /\ DataOK(c)'
        BY <1>8, <2>1 DEF Sources, server
    <2> QED BY <1>3, <1>7, <2>3, <2>4, <2>5, <2>7, <2>8, <2>9 DEF IInv, ClientInv
<1>12. CASE m.kind = "leave" /\ Leave(c)
    <2>1. tcp[c] = "closed" /\ reply[c] = None
        BY <1>1, <1>2, <1>12 DEF Justified, ClientInv, ReplyOK
    <2>2. UNCHANGED <<given, reply>>
        BY <1>12 DEF Leave
    <2>3. /\ reg' \in [Players -> Seats] /\ left' \in SUBSET Players
          /\ \A p \in Players :
                reg'[p] = IF reg[p] # None /\ reg[p].holder = c THEN None ELSE reg[p]
        BY <1>1, <1>12 DEF Leave, TypeOK, Seats
    <2>4. TypeOK'
        BY <1>1, <1>2, <2>2, <2>3 DEF TypeOK, place, seat, machine
    <2>5. UploaderOK'
        <3>1. \A h \in Clients : Uploader(h)' => Uploader(h)
            BY <1>1, <2>2, HeadServed
        <3>2. reg'[0] \in {None, reg[0]}
            BY <2>3, ConstantFacts
        <3> QED BY <1>1, <3>1, <3>2, UploaderKept
            DEF IInv, UploaderOK, IsPlayer1, Began, place, seat
    <2>6. ASSUME NEW d \in Clients, d # c PROVE ClientInv(d)'
        <3>1. out'[d] = out[d]
            BY <1>1, <2>6 DEF TypeOK
        <3>2. ClientOK(d)'
            BY <1>5, <2>2, <3>1 DEF IInv, ClientInv, ClientOK
        <3>3. LinkOK(d)'
            <4>1. reply'[d] = reply[d]
                BY <2>2
            <4> QED BY <1>1, <3>1, <4>1
                DEF IInv, ClientInv, LinkOK, Justified, Fetching, IsPlayer1, Began, place, seat
        <3>4. ReplyOK(d)'
            BY <1>1, <2>2, <2>3, <2>6
            DEF IInv, TypeOK, ClientInv, ReplyOK, Fetching, Sources, place, seat
        <3>5. HoldsSeats(d)'
            BY <1>1, <2>3, <2>6 DEF IInv, TypeOK, ClientInv, HoldsSeats, seat
        <3>6. DataOK(d)'
            BY <1>1, <2>2
            DEF IInv, ClientInv, DataOK, IsPlayer1, HasSettings, HasSave, Joined, Sources,
                place, seat, machine
        <3> QED BY <3>2, <3>3, <3>4, <3>5, <3>6 DEF ClientInv
    <2>7. ReplyOK(c)' /\ HoldsSeats(c)'
        BY <1>1, <2>1, <2>2 DEF ReplyOK, HoldsSeats
    <2>8. DataOK(c)'
        BY <1>1, <2>2
        DEF IInv, ClientInv, DataOK, IsPlayer1, HasSettings, HasSave, Joined, Sources,
            place, seat, machine
    <2>9. LinkOK(c)'
        BY <1>1, <2>2, LinkServed
    <2> QED BY <1>3, <1>7, <2>4, <2>5, <2>6, <2>7, <2>8, <2>9 DEF IInv, ClientInv
<1> QED BY <1>9, <1>10, <1>11, <1>12 DEF Serve

LEMMA NextKeeps == IInv /\ [Next]_vars => IInv'
<1> SUFFICES ASSUME IInv, [Next]_vars PROVE IInv'
    OBVIOUS
<1>1. CASE UNCHANGED vars
    <2>1. UNCHANGED <<server, link, init, place, seat, machine>>
        BY <1>1 DEF vars
    <2>2. TypeOK'
        BY <1>1 DEF IInv, TypeOK, vars, server, link, place, seat, machine
    <2> QED BY <2>1, <2>2, UnchangedKeeps
<1>2. ASSUME NEW c \in Clients, FrontEnd(c) PROVE IInv'
    BY <1>2, StartKeeps, StartFailsKeeps, StopKeeps, RegisterKeeps, ExecuteKeeps DEF FrontEnd
<1>3. ASSUME NEW c \in Clients, Emulator(c) PROVE IInv'
    BY <1>3, RegisteredKeeps, SyncKeeps, StorageKeeps, RegistrationKeeps DEF Emulator
<1>4. ASSUME NEW c \in Clients, Serve(c) \/ Lose(c) PROVE IInv'
    BY <1>4, ServeKeeps, LoseKeeps
<1> QED BY <1>1, <1>2, <1>3, <1>4 DEF Next

LEMMA InvariantHolds == Spec => []IInv
BY InitOK, NextKeeps, PTL DEF Spec

-----------------------------------------------------------------------------
(* Every variable of a client, of its connection and of the server keeps   *)
(* its type, for every number of clients and players.                      *)
THEOREM SessionTypes == Spec => []TypeOK
<1>1. IInv => TypeOK
    BY DEF IInv
<1> QED BY <1>1, InvariantHolds, PTL

(* No client plays two players with one controller, and no two connected   *)
(* clients play one player: a client that is connected holds on the server *)
(* the seat of each player it plays, and numbers its controllers in the    *)
(* order in which it is given players (netplay_set_controller).            *)
THEOREM PlayersKeptApart == Spec => []OnePlayerEach
<1>1. ASSUME IInv, NEW c \in Clients, NEW d \in Clients, NEW p \in Players, NEW q \in Players,
             control[c][p] # -1
      PROVE  /\ p # q => control[c][p] # control[c][q]
             /\ c # d /\ Joined(c) /\ Joined(d) => control[d][p] = -1
    <2>1. p # q => control[c][p] # control[c][q]
        BY <1>1 DEF IInv, ClientInv, ClientOK
    <2>2. c # d /\ Joined(c) /\ Joined(d) => control[d][p] = -1
        BY <1>1 DEF IInv, ClientInv, HoldsSeats, Joined
    <2> QED BY <2>1, <2>2
<1>2. IInv => OnePlayerEach
    BY <1>1 DEF OnePlayerEach
<1> QED BY <1>2, InvariantHolds, PTL

(* Whatever the order in which clients come, are served and lose their     *)
(* connections, the settings and the saved memories that a connected       *)
(* client has taken up (netplay_sync_settings, netplay_read_storage) are   *)
(* those of one client, and it controls player 1.                          *)
THEOREM DataFromPlayer1 == Spec => []OneSource
<1>1. ASSUME IInv, NEW c \in Clients, Joined(c), HasSettings(c)
      PROVE  /\ IsPlayer1(settings[c])
             /\ \A f \in FileNames : HasSave(c, f) => saves[c][f] = settings[c]
    <2>1. CASE IsPlayer1(c)
        BY <1>1, <2>1 DEF IInv, ClientInv, DataOK
    <2>2. CASE ~ IsPlayer1(c)
        <3>1. settings[c] \in Sources
              /\ \A f \in FileNames : HasSave(c, f) => saves[c][f] \in Sources
            BY <1>1, <2>2 DEF IInv, ClientInv, DataOK
        <3>2. \A h \in Sources : h \in Clients /\ Uploader(h)
            BY DEF Uploader, Sources
        <3> QED BY <1>1, <3>1, <3>2 DEF IInv, UploaderOK
    <2> QED BY <2>1, <2>2
<1>2. IInv => OneSource
    BY <1>1 DEF OneSource
<1> QED BY <1>2, InvariantHolds, PTL

-----------------------------------------------------------------------------
(***************************************************************************)
(* What everybody sees.                                                    *)
(***************************************************************************)
(* Only players asked for are controlled, each asked for once. *)
AskedOK(c) ==
    /\ \A p \in Players : control[c][p] # -1 => p \in asked[c]
    /\ phase[c] = "register" => asking[c] \in asked[c] /\ control[c][asking[c]] = -1

(* A request tells the pak of the controller that will be used. *)
PakOK(c) ==
    \A i \in 1 .. Len(out[c]) : out[c][i].kind = "register" => out[c][i].pak = Pads[c][next[c]]

(* A registered player is controlled with the pak told, or is about to be, *)
(* unless the connection was lost in between.                              *)
Confirming(h, p) ==
    /\ phase[h] = "register" /\ asking[h] = p /\ reply[h] = [ok |-> TRUE]
    /\ reg[p].pak = Pads[h][next[h]]

Plays(h, p) == control[h][p] # -1 /\ reg[p].pak = Pads[h][control[h][p]]

SeatOK(p, h) ==
    /\ tcp[h] # "none" /\ p \in asked[h]
    /\ tcp[h] = "lost" \/ Confirming(h, p) \/ Plays(h, p)

SeatsOK == \A p \in Players : reg[p] # None => SeatOK(p, reg[p].holder)

(* What a client is told, and what it has made of it, is the registration, *)
(* but for those who left.                                                 *)
ViewOK(c) ==
    /\ reply[c] # None /\ phase[c] = "registration" =>
          \A p \in Players \ left : reply[c].seats[p] = reg[p]
    /\ phase[c] = "run" /\ tcp[c] = "open" =>
          \A p \in Players \ left : controls[c][p] = ControlsOf(reg)[p]

SeenOK(c) == AskedOK(c) /\ PakOK(c) /\ ViewOK(c)

SeenInv == SeatsOK /\ \A c \in Clients : SeenOK(c)

LEMMA SeenInitially == Init => SeenInv
<1> SUFFICES ASSUME Init PROVE SeenInv
    OBVIOUS
<1>1. SeatsOK
    BY DEF Init, SeatsOK
<1>2. ASSUME NEW c \in Clients PROVE SeenOK(c)
    BY <1>2 DEF Init, SeenOK, AskedOK, PakOK, ViewOK
<1> QED BY <1>1, <1>2 DEF SeenInv

LEMMA UntouchedSeen ==
    ASSUME NEW d \in Clients, SeenOK(d), Untouched(d), UNCHANGED <<reg, left>>
    PROVE  SeenOK(d)'
<1>1. AskedOK(d)' /\ PakOK(d)'
    BY DEF SeenOK, Untouched, AskedOK, PakOK
<1>2. ViewOK(d)'
    BY DEF SeenOK, Untouched, ViewOK, ControlsOf
<1> QED BY <1>1, <1>2 DEF SeenOK

LEMMA SeatHolder ==
    ASSUME IInv, NEW p \in Players, reg[p] # None
    PROVE  reg[p].holder \in Clients /\ reg[p] \in [holder : Clients, pak : Paks]
BY DEF IInv, TypeOK, Seats

(* One client is touched, and keeps its seats. *)
LEMMA SeatsKept ==
    ASSUME IInv, SeatsOK, NEW c \in Clients, reg' = reg,
           \A d \in Clients : d # c => Untouched(d),
           \A p \in Players : SeatOK(p, c) /\ reg[p] # None => SeatOK(p, c)'
    PROVE  SeatsOK'
<1> SUFFICES ASSUME NEW p \in Players, reg[p] # None PROVE SeatOK(p, reg[p].holder)'
    BY DEF SeatsOK
<1>1. PICK h \in Clients : h = reg[p].holder
    BY SeatHolder
<1>2. SeatOK(p, h)
    BY <1>1 DEF SeatsOK
<1>3. CASE h = c
    BY <1>1, <1>2, <1>3 DEF SeatOK, Confirming, Plays
<1>4. CASE h # c
    BY <1>1, <1>2, <1>4 DEF SeatOK, Confirming, Plays, Untouched
<1> QED BY <1>1, <1>3, <1>4 DEF SeatOK, Confirming, Plays

(* A client's own step touches no other client. *)
LEMMA OthersUntouched ==
    ASSUME TypeOK, NEW c \in Clients, FrontEnd(c) \/ Emulator(c) \/ Lose(c),
           NEW d \in Clients, d # c
    PROVE  Untouched(d)
<1>1. CASE netplay_start(c) \/ netplay_startFails(c) \/ Execute(c) \/ Lose(c)
    BY <1>1 DEF TypeOK, Untouched, netplay_start, netplay_startFails, Execute, Lose, link, place,
                seat, machine
<1>2. CASE netplay_stop(c)
    BY <1>2 DEF TypeOK, Untouched, netplay_stop, TCP_Send, place, seat, machine
<1>3. ASSUME NEW p \in Players, netplay_register_player(c, p) PROVE Untouched(d)
    BY <1>3 DEF TypeOK, Untouched, netplay_register_player, TCP_Send, machine
<1>4. ASSUME NEW ok, Registered(c, ok) PROVE Untouched(d)
    BY <1>4 DEF TypeOK, Untouched, Registered, netplay_set_controller, machine
<1>5. CASE netplay_sync_settings(c)
    BY <1>5 DEF TypeOK, Untouched, netplay_sync_settings, SendOurs, AskForTheirs, Received, TCP_Send,
                seat
<1>6. CASE netplay_read_storage(c)
    BY <1>6 DEF TypeOK, Untouched, netplay_read_storage, SendOurs, AskForTheirs, Received, TCP_Send,
                Opened, seat
<1>7. CASE netplay_read_registration(c)
    BY <1>7 DEF TypeOK, Untouched, netplay_read_registration, Received, TCP_Send, seat
<1> QED BY <1>1, <1>2, <1>3, <1>4, <1>5, <1>6, <1>7 DEF FrontEnd, Emulator

(* What is sent is added to what is on its way, or nothing is. *)
LEMMA SendKeepsPak ==
    ASSUME TypeOK, NEW c \in Clients, NEW m \in Requests, TCP_Send(c, m), PakOK(c),
           next'[c] = next[c], m.kind = "register" => m.pak = Pads[c][next[c]]
    PROVE  PakOK(c)'
<1>1. out[c] \in Seq(Requests) /\ out'[c] \in {out[c], Append(out[c], m)}
    BY DEF TypeOK, TCP_Send
<1>2. CASE out'[c] = out[c]
    BY <1>2 DEF PakOK
<1>3. CASE out'[c] = Append(out[c], m)
    <2>1. /\ Len(out'[c]) = Len(out[c]) + 1 /\ Len(out[c]) \in Nat
          /\ out'[c][Len(out[c]) + 1] = m
          /\ \A i \in 1 .. Len(out[c]) : out'[c][i] = out[c][i]
        BY <1>1, <1>3
    <2>2. ASSUME NEW i \in 1 .. Len(out'[c]), out'[c][i].kind = "register"
          PROVE  out'[c][i].pak = Pads[c][next[c]]
        <3>1. i \in 1 .. Len(out[c]) \/ i = Len(out[c]) + 1
            BY <2>1, <2>2
        <3> QED BY <2>1, <2>2, <3>1 DEF PakOK
    <2> QED BY <2>2 DEF PakOK
<1> QED BY <1>1, <1>2, <1>3

(* A step that touches one client, and no registration, is checked for it. *)
LEMMA OneTouched ==
    ASSUME IInv, SeenInv, NEW c \in Clients, UNCHANGED <<reg, left>>,
           \A d \in Clients : d # c => Untouched(d),
           \A p \in Players : SeatOK(p, c) /\ reg[p] # None => SeatOK(p, c)',
           SeenOK(c)'
    PROVE  SeenInv'
<1>1. SeatsOK'
    BY SeatsKept DEF SeenInv
<1>2. ASSUME NEW d \in Clients PROVE SeenOK(d)'
    <2>1. CASE d # c
        BY <2>1, UntouchedSeen DEF SeenInv
    <2>2. CASE d = c
        BY <2>2 DEF SeenOK, AskedOK, PakOK, ViewOK
    <2> QED BY <2>1, <2>2
<1> QED BY <1>1, <1>2 DEF SeenInv

LEMMA LoseSeen ==
    ASSUME IInv, SeenInv, NEW c \in Clients, Lose(c)
    PROVE  SeenInv'
<1>1. TypeOK /\ SeenOK(c) /\ UNCHANGED <<reg, left>>
    BY DEF IInv, SeenInv, Lose, server
<1>2. \A d \in Clients : d # c => Untouched(d)
    BY <1>1, OthersUntouched DEF FrontEnd, Emulator
<1>3. ASSUME NEW p \in Players, SeatOK(p, c) PROVE SeatOK(p, c)'
    BY <1>1, <1>3 DEF TypeOK, SeatOK, Lose, seat
<1>4. SeenOK(c)'
    BY <1>1 DEF TypeOK, SeenOK, AskedOK, PakOK, ViewOK, Lose, place, seat, machine
<1> QED BY <1>1, <1>2, <1>3, <1>4, OneTouched

(* A client that connects holds no seat yet. *)
LEMMA StartSeen ==
    ASSUME IInv, SeenInv, NEW c \in Clients, netplay_start(c)
    PROVE  SeenInv'
<1>1. TypeOK /\ ClientOK(c) /\ SeenOK(c) /\ UNCHANGED <<reg, left>>
    BY DEF IInv, ClientInv, SeenInv, netplay_start, server
<1>2. \A d \in Clients : d # c => Untouched(d)
    BY <1>1, OthersUntouched DEF FrontEnd, Emulator
<1>3. ASSUME NEW p \in Players, SeatOK(p, c) PROVE FALSE
    BY <1>3 DEF SeatOK, netplay_start
<1>4. SeenOK(c)'
    BY <1>1 DEF TypeOK, ClientOK, SeenOK, AskedOK, PakOK, ViewOK, netplay_start, place, machine
<1> QED BY <1>1, <1>2, <1>3, <1>4, OneTouched

LEMMA SameSeen ==
    ASSUME IInv, SeenInv, UNCHANGED <<server, link, init, place, seat, machine>>
    PROVE  SeenInv'
<1>1. UNCHANGED <<reg, left>> /\ \A d \in Clients : Untouched(d)
    BY DEF Untouched, server, link, place, seat, machine
<1>2. SeatsOK'
    BY DEF SeenInv, SeatsOK, SeatOK, Confirming, Plays, server, link, place, seat
<1>3. \A d \in Clients : SeenOK(d)'
    BY <1>1, UntouchedSeen DEF SeenInv
<1> QED BY <1>2, <1>3 DEF SeenInv

LEMMA StopSeen ==
    ASSUME IInv, SeenInv, NEW c \in Clients, netplay_stop(c)
    PROVE  SeenInv'
<1>1. TypeOK /\ SeenOK(c) /\ UNCHANGED <<reg, left>>
    BY DEF IInv, SeenInv, netplay_stop, server
<1>2. \A d \in Clients : d # c => Untouched(d)
    BY <1>1, OthersUntouched DEF FrontEnd, Emulator
<1>3. ASSUME NEW p \in Players, SeatOK(p, c) PROVE SeatOK(p, c)'
    BY <1>1, <1>3 DEF TypeOK, SeatOK, Confirming, Plays, netplay_stop, place, seat
<1>4. AskedOK(c)' /\ ViewOK(c)'
    BY <1>1 DEF TypeOK, SeenOK, AskedOK, ViewOK, netplay_stop, place, seat, machine
<1>5. PakOK(c)'
    <2>1. PICK m \in Requests : m = [kind |-> "leave"]
        BY DEF Requests
    <2>2. TCP_Send(c, m) /\ m.kind # "register" /\ next'[c] = next[c]
        BY <2>1 DEF netplay_stop, seat
    <2> QED BY <1>1, <2>2, SendKeepsPak DEF SeenOK
<1> QED BY <1>1, <1>2, <1>3, <1>4, <1>5, OneTouched DEF SeenOK

LEMMA RegisterSeen ==
    ASSUME IInv, SeenInv, NEW c \in Clients, NEW p \in Players, netplay_register_player(c, p)
    PROVE  SeenInv'
<1>1. TypeOK /\ ClientInv(c) /\ SeenOK(c) /\ UNCHANGED <<reg, left>>
    BY DEF IInv, SeenInv, netplay_register_player, server
<1>2. \A d \in Clients : d # c => Untouched(d)
    BY <1>1, OthersUntouched DEF FrontEnd, Emulator
<1>3. ASSUME NEW q \in Players, SeatOK(q, c) PROVE SeatOK(q, c)'
    BY <1>1, <1>3 DEF TypeOK, SeatOK, Confirming, Plays, netplay_register_player
<1>4. AskedOK(c)' /\ ViewOK(c)'
    BY <1>1 DEF TypeOK, SeenOK, AskedOK, ViewOK, netplay_register_player
<1>5. PakOK(c)'
    <2>1. /\ controls[c] = Pads[c] /\ NoAsks(c)
          /\ next[c] <= Cardinality(asked[c]) /\ next[c] \in Nat
        BY <1>1, NothingAsked
        DEF TypeOK, ClientInv, ClientOK, Began, netplay_register_player
    <2>2. next[c] \in Players
        <3>1. /\ asked[c] \in SUBSET Players /\ p \notin asked[c] /\ asked[c] \cup {p} \in SUBSET Players
            BY <1>1 DEF TypeOK, netplay_register_player
        <3>2. Cardinality(asked[c] \cup {p}) = Cardinality(asked[c]) + 1
            BY <3>1, AskedBound, FS_AddElement
        <3>3. Cardinality(asked[c] \cup {p}) <= NumPlayers /\ Cardinality(asked[c]) \in Nat
            BY <3>1, AskedBound
        <3> QED BY <2>1, <3>2, <3>3, ConstantFacts DEF Players
    <2>3. Pads[c][next[c]] \in Paks
        BY <2>2, ConstantFacts
    <2>4. PICK m \in Requests : m = [kind |-> "register", player |-> p, pak |-> Pads[c][next[c]]]
        BY <2>3 DEF Requests
    <2>5. /\ TCP_Send(c, m) /\ next'[c] = next[c] /\ PakOK(c)
          /\ m.kind = "register" => m.pak = Pads[c][next[c]]
        BY <1>1, <2>1, <2>4 DEF SeenOK, netplay_register_player
    <2> QED BY <1>1, <2>5, SendKeepsPak
<1> QED BY <1>1, <1>2, <1>3, <1>4, <1>5, OneTouched DEF SeenOK

(* A client that is told it has the player uses the controller it told of. *)
LEMMA RegisteredSeen ==
    ASSUME IInv, SeenInv, NEW c \in Clients, NEW ok \in BOOLEAN, Registered(c, ok)
    PROVE  SeenInv'
<1>1. TypeOK /\ ClientInv(c) /\ SeenOK(c) /\ UNCHANGED <<reg, left>>
    BY DEF IInv, SeenInv, Registered, server
<1>2. PICK a \in Players : a = asking[c]
    BY <1>1 DEF TypeOK
<1>3. /\ control' = IF ok THEN [control EXCEPT ![c][a] = next[c]] ELSE control
      /\ next' = IF ok THEN [next EXCEPT ![c] = @ + 1] ELSE next
      /\ phase[c] = "register" /\ phase'[c] = "idle" /\ a \in asked[c] /\ control[c][a] = -1
      /\ next[c] \in Nat
    BY <1>1, <1>2 DEF TypeOK, SeenOK, AskedOK, Registered, netplay_set_controller
<1>4. \A d \in Clients : d # c => Untouched(d)
    BY <1>1, OthersUntouched DEF FrontEnd, Emulator
<1>5. ASSUME NEW q \in Players, SeatOK(q, c) PROVE SeatOK(q, c)'
    <2>1. UNCHANGED <<reg, tcp, asked>> /\ tcp[c] # "none" /\ q \in asked[c]
        BY <1>1, <1>5 DEF Registered, SeatOK
    <2>2. CASE tcp[c] = "lost"
        BY <2>1, <2>2 DEF SeatOK
    <2>3. CASE Confirming(c, q) /\ tcp[c] # "lost"
        <3>1. q = a /\ reply[c] = [ok |-> TRUE] /\ reply[c] = [ok |-> ok]
            BY <1>2, <2>3 DEF Confirming, Registered
        <3>2. ok
            <4>1. [ok |-> ok].ok = TRUE
                BY <3>1
            <4> QED BY <4>1
        <3>3. control'[c][q] = next[c] /\ reg[q].pak = Pads[c][next[c]]
            BY <1>1, <1>3, <2>3, <3>1, <3>2 DEF TypeOK, Confirming
        <3>4. next[c] # -1
            BY <1>3
        <3> QED BY <2>1, <3>3, <3>4 DEF SeatOK, Plays
    <2>4. CASE Plays(c, q)
        <3>1. control'[c][q] = control[c][q]
            BY <1>1, <1>3, <2>4 DEF TypeOK, Plays
        <3> QED BY <2>1, <2>4, <3>1 DEF SeatOK, Plays
    <2> QED BY <1>5, <2>2, <2>3, <2>4 DEF SeatOK
<1>6. AskedOK(c)'
    <2>1. asked' = asked
        BY DEF Registered
    <2> QED BY <1>1, <1>3, <2>1 DEF TypeOK, SeenOK, AskedOK
<1>7. PakOK(c)' /\ ViewOK(c)'
    <2>1. NoAsks(c) /\ out' = out
        BY <1>1, RegisterAnswered DEF Registered
    <2> QED BY <1>1, <1>3, <2>1 DEF PakOK, ViewOK, NoAsks, Asks
<1> QED BY <1>1, <1>4, <1>5, <1>6, <1>7, OneTouched DEF SeenOK

-----------------------------------------------------------------------------
LEMMA ExecuteSeen ==
    ASSUME IInv, SeenInv, NEW c \in Clients, Execute(c)
    PROVE  SeenInv'
<1>1. TypeOK /\ SeenOK(c) /\ UNCHANGED <<reg, left>>
    BY DEF IInv, SeenInv, Execute, server
<1>2. \A d \in Clients : d # c => Untouched(d)
    BY <1>1, OthersUntouched DEF FrontEnd, Emulator
<1>3. ASSUME NEW q \in Players, SeatOK(q, c) PROVE SeatOK(q, c)'
    BY <1>1, <1>3 DEF TypeOK, SeatOK, Confirming, Plays, Execute, link, seat
<1>4. SeenOK(c)'
    BY <1>1 DEF TypeOK, SeenOK, AskedOK, PakOK, ViewOK, Execute, link, seat, machine
<1> QED BY <1>1, <1>2, <1>3, <1>4, OneTouched

LEMMA SyncSeen ==
    ASSUME IInv, SeenInv, NEW c \in Clients, netplay_sync_settings(c)
    PROVE  SeenInv'
<1>1. /\ TypeOK /\ ClientInv(c) /\ SeenOK(c) /\ UNCHANGED <<reg, left, tcp, asked, control, next>>
      /\ phase[c] = "settings" /\ phase'[c] \in {"settings", "saves"}
    BY DEF IInv, TypeOK, SeenInv, netplay_sync_settings, server, seat
<1>2. \A d \in Clients : d # c => Untouched(d)
    BY <1>1, OthersUntouched DEF FrontEnd, Emulator
<1>3. ASSUME NEW q \in Players, SeatOK(q, c) PROVE SeatOK(q, c)'
    BY <1>1, <1>3 DEF SeatOK, Confirming, Plays
<1>4. AskedOK(c)' /\ ViewOK(c)'
    BY <1>1 DEF SeenOK, AskedOK, ViewOK, netplay_sync_settings, seat
<1>5. PakOK(c)'
    <2>1. CASE SendOurs(c, "settings") \/ AskForTheirs(c, "settings")
        <3>1. PICK m \in Requests : TCP_Send(c, m) /\ m.kind # "register"
            BY <2>1, DataFacts DEF SendOurs, AskForTheirs, Requests
        <3> QED BY <1>1, <3>1, SendKeepsPak DEF SeenOK
    <2>2. CASE out' = out
        BY <1>1, <2>2 DEF SeenOK, PakOK
    <2> QED BY <2>1, <2>2 DEF netplay_sync_settings
<1> QED BY <1>1, <1>2, <1>3, <1>4, <1>5, OneTouched DEF SeenOK

(* On the way to the registration, the answer to the last fetch is gone. *)
LEMMA StorageSeen ==
    ASSUME IInv, SeenInv, NEW c \in Clients, netplay_read_storage(c)
    PROVE  SeenInv'
<1>1. /\ TypeOK /\ ClientInv(c) /\ SeenOK(c) /\ UNCHANGED <<reg, left, tcp, asked, control, next>>
      /\ phase[c] = "saves" /\ phase'[c] \in {"saves", "registration"}
    BY DEF IInv, TypeOK, SeenInv, netplay_read_storage, Opened, server, seat
<1>2. \A d \in Clients : d # c => Untouched(d)
    BY <1>1, OthersUntouched DEF FrontEnd, Emulator
<1>3. ASSUME NEW q \in Players, SeatOK(q, c) PROVE SeatOK(q, c)'
    BY <1>1, <1>3 DEF SeatOK, Confirming, Plays
<1>4. AskedOK(c)'
    BY <1>1 DEF SeenOK, AskedOK
<1>5. DEFINE file == Files[at[c]]
<1>6. file \in Data
    <2>1. at[c] \in 1 .. Len(Files)
        BY <1>1 DEF ClientInv, ClientOK
    <2> QED BY <2>1, DataFacts
<1>7. /\ \/ SendOurs(c, file) /\ UNCHANGED reply
         \/ AskForTheirs(c, file) /\ UNCHANGED <<reply, phase>>
         \/ Received(c) /\ UNCHANGED out
         \/ waiting[c] /\ tcp[c] = "lost" /\ UNCHANGED <<out, reply>>
    BY DEF netplay_read_storage
<1> HIDE DEF file
<1>8. ViewOK(c)'
    <2>1. reply'[c] = None \/ phase'[c] = "saves"
        <3>1. CASE SendOurs(c, file) /\ UNCHANGED reply
            BY <1>1, <3>1, NothingAsked DEF SendOurs
        <3>2. CASE AskForTheirs(c, file) /\ UNCHANGED <<reply, phase>>
            BY <1>1, <3>2
        <3>3. CASE Received(c)
            BY <1>1, <3>3 DEF TypeOK, Received
        <3>4. CASE tcp[c] = "lost" /\ UNCHANGED reply
            BY <1>1, <3>4 DEF ClientInv, ClientOK
        <3> QED BY <1>7, <3>1, <3>2, <3>3, <3>4
    <2> QED BY <1>1, <2>1 DEF ViewOK
<1>9. PakOK(c)'
    <2>1. CASE SendOurs(c, file) \/ AskForTheirs(c, file)
        <3>1. PICK m \in Requests : TCP_Send(c, m) /\ m.kind # "register"
            BY <1>6, <2>1 DEF SendOurs, AskForTheirs, Requests
        <3> QED BY <1>1, <3>1, SendKeepsPak DEF SeenOK
    <2>2. CASE out' = out
        BY <1>1, <2>2 DEF SeenOK, PakOK
    <2> QED BY <1>7, <2>1, <2>2
<1> QED BY <1>1, <1>2, <1>3, <1>4, <1>8, <1>9, OneTouched DEF SeenOK

(* A client plugs in what it was told, unless its connection is lost. *)
LEMMA RegistrationSeen ==
    ASSUME IInv, SeenInv, NEW c \in Clients, netplay_read_registration(c)
    PROVE  SeenInv'
<1>1. /\ TypeOK /\ ClientInv(c) /\ SeenOK(c) /\ UNCHANGED <<reg, left, tcp, asked, control, next>>
      /\ phase[c] = "registration" /\ phase'[c] \in {"registration", "run"}
    BY DEF IInv, TypeOK, SeenInv, netplay_read_registration, server, seat
<1>2. \A d \in Clients : d # c => Untouched(d)
    BY <1>1, OthersUntouched DEF FrontEnd, Emulator
<1>3. ASSUME NEW q \in Players, SeatOK(q, c) PROVE SeatOK(q, c)'
    BY <1>1, <1>3 DEF SeatOK, Confirming, Plays
<1>4. AskedOK(c)'
    BY <1>1 DEF SeenOK, AskedOK
<1>5. CASE TCP_Send(c, [kind |-> "registration"]) /\ UNCHANGED <<reply, phase, controls>>
    <2>1. PICK m \in Requests : m = [kind |-> "registration"]
        BY DEF Requests
    <2>2. PakOK(c)'
        BY <1>1, <1>5, <2>1, SendKeepsPak DEF SeenOK
    <2>3. ViewOK(c)'
        BY <1>1, <1>5 DEF SeenOK, ViewOK
    <2> QED BY <1>1, <1>2, <1>3, <1>4, <2>2, <2>3, OneTouched DEF SeenOK
<1>6. CASE /\ Received(c) /\ phase'[c] = "run" /\ out' = out
           /\ controls' = [controls EXCEPT ![c] = ControlsOf(reply[c].seats)]
    <2>1. PakOK(c)'
        BY <1>1, <1>6 DEF SeenOK, PakOK
    <2>2. \A p \in Players \ left : reply[c].seats[p] = reg[p]
        BY <1>1, <1>6 DEF SeenOK, ViewOK, Received
    <2>3. controls'[c] = ControlsOf(reply[c].seats)
        BY <1>1, <1>6 DEF TypeOK
    <2>4. ASSUME NEW p \in Players \ left PROVE controls'[c][p] = ControlsOf(reg')[p]
        BY <1>1, <2>2, <2>3, <2>4 DEF ControlsOf
    <2>5. ViewOK(c)'
        BY <1>1, <1>6, <2>4 DEF ViewOK
    <2> QED BY <1>1, <1>2, <1>3, <1>4, <2>1, <2>5, OneTouched DEF SeenOK
<1>7. CASE tcp[c] = "lost" /\ phase'[c] = "run" /\ UNCHANGED <<out, reply>>
    <2>1. PakOK(c)' /\ ViewOK(c)'
        BY <1>1, <1>7 DEF SeenOK, PakOK, ViewOK
    <2> QED BY <1>1, <1>2, <1>3, <1>4, <2>1, OneTouched DEF SeenOK
<1> QED BY <1>1, <1>5, <1>6, <1>7 DEF netplay_read_registration, TypeOK

-----------------------------------------------------------------------------
LEMMA RequestsServed ==
    ASSUME IInv, SeenInv, NEW c \in Clients, Serve(c), NEW d \in Clients
    PROVE  AskedOK(d)' /\ PakOK(d)'
<1>1. /\ TypeOK /\ LinkOK(c) /\ SeenOK(d) /\ out[c] # << >>
      /\ out' = [out EXCEPT ![c] = Tail(@)] /\ UNCHANGED <<phase, asking, asked, control, next>>
    BY DEF IInv, SeenInv, ClientInv, Serve, place, seat
<1>2. AskedOK(d)'
    BY <1>1 DEF SeenOK, AskedOK
<1>3. PakOK(d)'
    <2>1. PakOK(d) /\ next' = next
        BY <1>1 DEF SeenOK
    <2>2. CASE d = c
        <3>1. \A i \in 1 .. Len(out'[c]) : out'[c][i] = out[c][i + 1] /\ i + 1 \in 1 .. Len(out[c])
            BY <1>1, HeadServed
        <3> QED BY <2>1, <2>2, <3>1 DEF PakOK
    <2>3. CASE d # c
        <3>1. out'[d] = out[d]
            BY <1>1, <2>3 DEF TypeOK
        <3> QED BY <2>1, <3>1 DEF PakOK
    <2> QED BY <2>2, <2>3
<1> QED BY <1>2, <1>3

(* The server gives a player to a client that is about to play it. *)
LEMMA RegisterServed ==
    ASSUME IInv, SeenInv, NEW c \in Clients, Serve(c), NEW m \in Requests, m = Head(out[c]),
           m.kind = "register", Register(c, m)
    PROVE  SeenInv'
<1>1. /\ TypeOK /\ ClientInv(c) /\ LinkOK(c) /\ SeenOK(c) /\ LobbyOver /\ out[c] # << >>
      /\ out' = [out EXCEPT ![c] = Tail(@)]
      /\ UNCHANGED <<left, tcp, phase, asking, asked, control, next, controls>>
    BY DEF IInv, SeenInv, ClientInv, Serve, Register, place, seat, machine
<1>2. Justified(c, m) /\ \E i \in 1 .. Len(out[c]) : out[c][i] = m
    BY <1>1, HeadServed
<1>3. PICK a \in Players : a = m.player
    BY DEF Requests
<1>4. /\ phase[c] = "register" /\ a = asking[c] /\ m.pak = Pads[c][next[c]] /\ m.pak \in Paks
      /\ a \in asked[c] /\ control[c][a] = -1 /\ tcp[c] # "none" /\ reply[c] = None
    <2>1. phase[c] = "register" /\ a = asking[c] /\ reply[c] = None
        BY <1>2, <1>3 DEF Justified, Asks
    <2> QED BY <1>1, <1>2, <2>1 DEF SeenOK, AskedOK, PakOK, ClientInv, ClientOK, Requests
<1>5. \A d \in Clients : ~ Began(d)
    BY <1>1, <1>4 DEF LobbyOver
<1>6. \A d \in Clients : ViewOK(d)'
    BY <1>1, <1>5 DEF ViewOK, Began
<1>7. SeatsOK'
    <2> SUFFICES ASSUME NEW p \in Players, reg'[p] # None PROVE SeatOK(p, reg[p].holder)'
        BY DEF SeatsOK
    <2>1. \A d \in Clients : d # c => reply'[d] = reply[d]
        BY <1>1 DEF TypeOK, Register, Answer
    <2>2. CASE reg[a] = None /\ p = a
        <3>1. reg'[p] = [holder |-> c, pak |-> m.pak] /\ reply'[c] = [ok |-> TRUE]
            BY <1>1, <1>3, <2>2 DEF TypeOK, Register, Answer
        <3>2. reg'[p].holder = c /\ reg'[p].pak = m.pak
            BY <3>1
        <3> QED BY <1>1, <1>4, <2>2, <3>1, <3>2 DEF SeatOK, Confirming
    <2>3. CASE ~ (reg[a] = None /\ p = a)
        <3>1. reg'[p] = reg[p]
            BY <1>1, <1>3, <2>3 DEF TypeOK, Register
        <3>2. PICK h \in Clients : h = reg[p].holder
            BY <3>1, SeatHolder
        <3>3. SeatOK(p, h)
            BY <3>1, <3>2 DEF SeenInv, SeatsOK
        <3>4. ~ (Confirming(h, p) /\ h = c)
            <4>1. [ok |-> TRUE] \in [ok : BOOLEAN]
                OBVIOUS
            <4> QED BY <1>4, <4>1, ConstantFacts DEF Confirming
        <3> QED BY <1>1, <2>1, <3>1, <3>2, <3>3, <3>4 DEF SeatOK, Confirming, Plays
    <2> QED BY <2>2, <2>3
<1> QED BY <1>6, <1>7, RequestsServed DEF SeenInv, SeenOK

(* An answer of data, or none; or the registration as it is. *)
LEMMA AnswerServed ==
    ASSUME IInv, SeenInv, NEW c \in Clients, Serve(c), NEW m \in Requests, m = Head(out[c]),
           \/ m.kind = "upload" /\ Upload(c, m)
           \/ m.kind = "fetch" /\ Fetch(c, m)
           \/ m.kind = "registration" /\ Registration(c)
    PROVE  SeenInv'
<1>1. /\ TypeOK /\ LinkOK(c) /\ out[c] # << >> /\ out' = [out EXCEPT ![c] = Tail(@)]
      /\ UNCHANGED <<reg, left, tcp, phase, asking, asked, control, next, controls>>
    BY DEF IInv, ClientInv, Serve, Upload, Fetch, Registration, server, place, seat, machine
<1>2. Justified(c, m)
    BY <1>1, HeadServed
<1>3. \A d \in Clients : d # c => reply'[d] = reply[d]
    BY <1>1 DEF TypeOK, Upload, Fetch, Registration, Answer
<1>4. reply' = reply \/ phase[c] # "register"
    BY <1>2 DEF Justified, Fetching, Upload
<1>5. SeatsOK'
    <2> SUFFICES ASSUME NEW p \in Players, reg[p] # None PROVE SeatOK(p, reg[p].holder)'
        BY <1>1 DEF SeatsOK
    <2>1. PICK h \in Clients : h = reg[p].holder
        BY SeatHolder
    <2>2. SeatOK(p, h)
        BY <2>1 DEF SeenInv, SeatsOK
    <2> QED BY <1>1, <1>3, <1>4, <2>1, <2>2 DEF SeatOK, Confirming, Plays
<1>6. ASSUME NEW d \in Clients PROVE ViewOK(d)'
    <2>1. ViewOK(d)
        BY DEF SeenInv, SeenOK
    <2>2. CASE reply'[d] = reply[d]
        BY <1>1, <2>1, <2>2 DEF ViewOK, ControlsOf
    <2>3. CASE d = c /\ m.kind = "fetch"
        BY <1>1, <1>2, <2>1, <2>3 DEF ViewOK, ControlsOf, Justified, Fetching
    <2>4. CASE d = c /\ m.kind = "registration"
        <3>1. reply'[c].seats = reg
            BY <1>1, <2>4 DEF TypeOK, Registration, Answer
        <3> QED BY <1>1, <2>1, <2>4, <3>1 DEF ViewOK, ControlsOf
    <2> QED BY <1>3, <2>2, <2>3, <2>4 DEF Upload
<1> QED BY <1>5, <1>6, RequestsServed DEF SeenInv, SeenOK

(* Whoever leaves an ongoing game is judged no longer. *)
LEMMA LeaveServed ==
    ASSUME IInv, SeenInv, NEW c \in Clients, Serve(c), NEW m \in Requests, m = Head(out[c]),
           m.kind = "leave", Leave(c)
    PROVE  SeenInv'
<1>1. /\ TypeOK
      /\ UNCHANGED <<reply, tcp, phase, asking, asked, control, next, controls>>
    BY DEF IInv, Serve, Leave, place, seat, machine
<1>2. \A p \in Players :
          \/ reg'[p] = reg[p]
          \/ reg'[p] = None /\ (Begun => p \in left')
    BY <1>1 DEF Leave
<1>3. left \subseteq left'
    BY DEF Leave
<1>4. SeatsOK'
    <2> SUFFICES ASSUME NEW p \in Players, reg'[p] # None PROVE SeatOK(p, reg[p].holder)'
        BY DEF SeatsOK
    <2>1. reg'[p] = reg[p]
        BY <1>2
    <2> QED BY <1>1, <2>1 DEF SeenInv, SeatsOK, SeatOK, Confirming, Plays
<1>5. ASSUME NEW d \in Clients PROVE ViewOK(d)'
    <2>1. ViewOK(d) /\ (Begun \/ phase[d] \notin {"registration", "run"})
        BY DEF SeenInv, SeenOK, Begun
    <2>2. ASSUME Begun, NEW p \in Players \ left' PROVE reg'[p] = reg[p] /\ p \in Players \ left
        BY <1>2, <1>3, <2>2
    <2>3. ASSUME Begun, NEW p \in Players \ left' PROVE ControlsOf(reg')[p] = ControlsOf(reg)[p]
        BY <2>2, <2>3 DEF ControlsOf
    <2> QED BY <1>1, <2>1, <2>2, <2>3 DEF ViewOK
<1> QED BY <1>4, <1>5, RequestsServed DEF SeenInv, SeenOK

LEMMA ServeSeen ==
    ASSUME IInv, SeenInv, NEW c \in Clients, Serve(c)
    PROVE  SeenInv'
<1>1. PICK m \in Requests : m = Head(out[c])
    BY HeadServed DEF IInv, ClientInv, Serve
<1> QED BY <1>1, RegisterServed, AnswerServed, LeaveServed DEF Serve

LEMMA NextSeen == IInv /\ SeenInv /\ [Next]_vars => SeenInv'
<1> SUFFICES ASSUME IInv, SeenInv, [Next]_vars PROVE SeenInv'
    OBVIOUS
<1>1. ASSUME NEW c \in Clients, FrontEnd(c) PROVE SeenInv'
    <2>1. CASE netplay_startFails(c)
        BY <2>1, SameSeen DEF netplay_startFails, link
    <2> QED BY <1>1, <2>1, StartSeen, StopSeen, RegisterSeen, ExecuteSeen DEF FrontEnd
<1>2. ASSUME NEW c \in Clients, Emulator(c) PROVE SeenInv'
    BY <1>2, RegisteredSeen, SyncSeen, StorageSeen, RegistrationSeen DEF Emulator
<1>3. CASE UNCHANGED vars
    BY <1>3, SameSeen DEF vars
<1> QED BY <1>1, <1>2, <1>3, ServeSeen, LoseSeen DEF Next

LEMMA SeenInvariant == Spec => []SeenInv
<1>1. Spec => []IInv
    BY InvariantHolds
<1> QED BY <1>1, SeenInitially, NextSeen, PTL DEF Spec

(* What a connected client in the game sees is what is played, whatever    *)
(* the order in which the clients came, asked and left:                    *)
(* netplay_read_registration, netplay_register_player.                     *)
THEOREM SeenIsPlayed == Spec => []SeenAsPlayed
<1>1. IInv /\ SeenInv => SeenAsPlayed
    <2> SUFFICES ASSUME IInv, SeenInv, NEW c \in Clients, NEW p \in Players \ left,
                        Joined(c), phase[c] = "run",
                        \A d \in Clients : ~ (p \in asked[d] /\ tcp[d] = "lost")
                 PROVE  \/ \E d \in Clients :
                            /\ control[d][p] # -1
                            /\ controls[c][p] = Plugged(p, Pads[d][control[d][p]])
                        \/ /\ controls[c][p] = Absent
                           /\ \A d \in Clients : init[d] => control[d][p] = -1
        BY DEF SeenAsPlayed
    <2>1. p \in Players /\ controls[c][p] = ControlsOf(reg)[p]
        BY DEF SeenInv, SeenOK, ViewOK, Joined
    <2>2. CASE reg[p] = None
        <3>1. controls[c][p] = Absent
            BY <2>1, <2>2 DEF ControlsOf
        <3>2. ASSUME NEW d \in Clients, init[d], control[d][p] # -1 PROVE FALSE
            <4>1. p \in asked[d] /\ tcp[d] # "lost"
                BY <2>1, <3>2 DEF SeenInv, SeenOK, AskedOK
            <4>2. tcp[d] = "open"
                BY <3>2, <4>1 DEF IInv, TypeOK, ClientInv, ClientOK
            <4> QED BY <2>1, <2>2, <3>2, <4>2 DEF IInv, ClientInv, HoldsSeats
        <3> QED BY <3>1, <3>2
    <2>3. CASE reg[p] # None
        <3>1. PICK h \in Clients : h = reg[p].holder
            BY <2>1, <2>3, SeatHolder
        <3>2. SeatOK(p, h)
            BY <2>1, <2>3, <3>1 DEF SeenInv, SeatsOK
        <3>3. phase[h] # "register"
            BY DEF IInv, LobbyOver, Began
        <3>4. Plays(h, p)
            BY <3>2, <3>3 DEF SeatOK, Confirming
        <3>5. controls[c][p] = Plugged(p, Pads[h][control[h][p]])
            BY <2>1, <2>3, <3>4 DEF ControlsOf, Plays
        <3> QED BY <3>4, <3>5 DEF Plays
    <2> QED BY <2>2, <2>3
<1> QED BY <1>1, InvariantHolds, SeenInvariant, PTL

-----------------------------------------------------------------------------
(***************************************************************************)
(* The start of a game is a shared game.  Whoever has taken a thing up has *)
(* what the invariant says, so they agree; left to show is that a client   *)
(* changes its mind on nothing while it is connected.                      *)
(***************************************************************************)
(* What a client has taken up, it keeps as it is. *)
Steady(c) ==
    Joined(c) /\ Joined(c)' =>
        /\ HasSettings(c) => HasSettings(c)' /\ settings'[c] = settings[c]
        /\ \A f \in FileNames : HasSave(c, f) => HasSave(c, f)' /\ saves'[c][f] = saves[c][f]
        /\ phase[c] = "run" => phase'[c] = "run" /\ controls'[c] = controls[c]

(* A client that has taken nothing up. *)
Fresh(c) == phase[c] \in {"idle", "register", "settings"} /\ at[c] = 1

LEMMA FreshIsSteady ==
    ASSUME NEW c \in Clients, Fresh(c)
    PROVE  Steady(c)
BY DEF Fresh, Steady, HasSettings, HasSave

(* There is one sender of data, and it is player 1 while it is connected. *)
LEMMA OneSender ==
    ASSUME IInv
    PROVE  /\ \A h, k \in Sources : h = k
           /\ \A h \in Sources, d \in Clients : IsPlayer1(d) /\ Joined(d) => h = d
<1>1. \A h \in Sources : h \in Clients /\ Uploader(h) /\ IsPlayer1(h)
                         /\ (reg[0] = None \/ reg[0].holder = h)
    BY DEF IInv, UploaderOK, Uploader, Sources
<1>2. \A d \in Clients : IsPlayer1(d) /\ Joined(d) => reg[0] # None /\ reg[0].holder = d
    BY ConstantFacts DEF IInv, ClientInv, HoldsSeats, Joined, IsPlayer1
<1> QED BY <1>1, <1>2 DEF IInv, UploaderOK

LEMMA StorageIsSteady ==
    ASSUME IInv, NEW c \in Clients, netplay_read_storage(c)
    PROVE  Steady(c)
<1> SUFFICES ASSUME Joined(c), Joined(c)' PROVE Steady(c)
    BY DEF Steady
<1>1. /\ TypeOK /\ ClientInv(c) /\ phase[c] = "saves" /\ at[c] \in 1 .. Len(Files)
      /\ settings' = settings /\ phase'[c] \in {"saves", "registration"}
      /\ at'[c] \in {at[c], at[c] + 1}
    BY DEF IInv, TypeOK, ClientInv, ClientOK, netplay_read_storage, Opened
<1>2. ASSUME NEW f \in FileNames, HasSave(c, f) PROVE HasSave(c, f)'
    <2>1. PICK i \in 1 .. at[c] - 1 : Files[i] = f
        BY <1>1, <1>2 DEF HasSave
    <2>2. i \in 1 .. at'[c] - 1
        BY <1>1, <2>1, DataFacts
    <2> QED BY <1>1, <2>1, <2>2 DEF HasSave
<1>3. ASSUME NEW f \in FileNames, HasSave(c, f) PROVE saves'[c][f] = saves[c][f]
    <2>1. CASE saves' = saves
        BY <2>1
    <2>2. CASE Received(c) /\ saves' = [saves EXCEPT ![c][Files[at[c]]] = reply[c].from]
        <3>1. reply[c].from \in Sources /\ ~ IsPlayer1(c)
            BY <1>1, <2>2, FetchAnswered
        <3>2. saves[c][f] \in Sources
            BY <1>1, <1>3, <3>1 DEF ClientInv, DataOK
        <3>3. saves[c][f] = reply[c].from
            BY <3>1, <3>2, OneSender
        <3>4. saves[c] \in [FileNames -> Clients \cup {Torn}]
            BY <1>1 DEF TypeOK
        <3> QED BY <1>1, <2>2, <3>3, <3>4 DEF TypeOK
    <2>3. CASE tcp[c] = "lost"
        BY <2>3 DEF Joined
    <2> QED BY <2>1, <2>2, <2>3 DEF netplay_read_storage
<1> QED BY <1>1, <1>2, <1>3 DEF Steady, HasSettings

LEMMA RegistrationIsSteady ==
    ASSUME IInv, NEW c \in Clients, netplay_read_registration(c)
    PROVE  Steady(c)
BY DEF IInv, TypeOK, netplay_read_registration, Steady, HasSettings, HasSave

LEMMA ClientIsSteady ==
    ASSUME IInv, SeenInv, NEW c \in Clients, FrontEnd(c) \/ Emulator(c) \/ Lose(c)
    PROVE  /\ Steady(c) /\ left' = left
           /\ \A d \in Clients : d # c => Untouched(d)
<1>1. ASSUME netplay_start(c) \/ netplay_stop(c) \/ Lose(c)
      PROVE  Steady(c)
    BY <1>1 DEF IInv, TypeOK, Steady, Joined, netplay_start, netplay_stop, Lose
<1>2. ASSUME netplay_startFails(c) PROVE Steady(c)
    BY <1>2 DEF netplay_startFails, Steady, HasSettings, HasSave, place, machine
<1>3. ASSUME NEW p \in Players, netplay_register_player(c, p) PROVE Fresh(c)
    BY <1>3 DEF IInv, ClientInv, ClientOK, Fresh, netplay_register_player
<1>4. ASSUME NEW ok, Registered(c, ok) PROVE Fresh(c)
    BY <1>4 DEF IInv, ClientInv, ClientOK, Fresh, Registered
<1>5. ASSUME Execute(c) \/ netplay_sync_settings(c) PROVE Fresh(c)
    BY <1>5 DEF IInv, ClientInv, ClientOK, Fresh, Execute, netplay_sync_settings
<1>6. Steady(c)
    BY <1>1, <1>2, <1>3, <1>4, <1>5, FreshIsSteady, StorageIsSteady, RegistrationIsSteady
    DEF FrontEnd, Emulator
<1>7. left' = left
    BY DEF FrontEnd, Emulator, netplay_start, netplay_startFails, netplay_stop,
           netplay_register_player, Execute, Registered, netplay_sync_settings,
           netplay_read_storage, netplay_read_registration, Lose, server
<1>8. \A d \in Clients : d # c => Untouched(d)
    BY OthersUntouched DEF IInv
<1> QED BY <1>6, <1>7, <1>8

(* What the session maps to. *)
Known ==
    [c \in Clients |-> [x \in Parts |->
        IF Joined(c) /\ Takes(c, x) THEN PlaysWith(c, x) ELSE Unknown]]

Alive == Parts \ {<<"seat", p>> : p \in left}

LEMMA PartIsOneOf ==
    ASSUME NEW x \in Parts
    PROVE  \/ x = <<"data", "settings">>
           \/ \E f \in FileNames : f # "settings" /\ x = <<"data", f>>
           \/ \E p \in Players : x = <<"seat", p>>
BY DEF Parts, Data

LEMMA TakesData ==
    ASSUME NEW c \in Clients
    PROVE  /\ Takes(c, <<"data", "settings">>) <=> HasSettings(c)
           /\ PlaysWith(c, <<"data", "settings">>) = settings[c]
           /\ \A f \in FileNames : f # "settings" =>
                 /\ Takes(c, <<"data", f>>) <=> HasSave(c, f)
                 /\ PlaysWith(c, <<"data", f>>) = saves[c][f]
BY DEF Takes, PlaysWith

LEMMA TakesSeat ==
    ASSUME NEW c \in Clients, NEW p \in Players
    PROVE  /\ Takes(c, <<"seat", p>>) <=> phase[c] = "run" /\ p \notin left
           /\ PlaysWith(c, <<"seat", p>>) = controls[c][p]
BY DEF Takes, PlaysWith

(* Those who have taken a thing up play with the same. *)
Agreement ==
    \A c, d \in Clients, x \in Parts :
        Joined(c) /\ Takes(c, x) /\ Joined(d) /\ Takes(d, x) => PlaysWith(c, x) = PlaysWith(d, x)

LEMMA Agreed == IInv /\ SeenInv => Agreement
<1> SUFFICES ASSUME IInv, SeenInv, NEW c \in Clients, NEW d \in Clients, NEW x \in Parts,
                    Joined(c), Takes(c, x), Joined(d), Takes(d, x)
             PROVE  PlaysWith(c, x) = PlaysWith(d, x)
    BY DEF Agreement
<1>1. IsPlayer1(c) /\ IsPlayer1(d) => c = d
    BY ConstantFacts DEF IInv, ClientInv, HoldsSeats, Joined, IsPlayer1
<1>2. CASE x = <<"data", "settings">>
    <2>1. HasSettings(c) /\ HasSettings(d)
        BY <1>2, TakesData
    <2>2. settings[c] = settings[d]
        BY <1>1, <2>1, OneSender DEF IInv, ClientInv, DataOK
    <2> QED BY <1>2, <2>2, TakesData
<1>3. ASSUME NEW f \in FileNames, f # "settings", x = <<"data", f>>
      PROVE  PlaysWith(c, x) = PlaysWith(d, x)
    <2>1. HasSave(c, f) /\ HasSave(d, f)
        BY <1>3, TakesData
    <2>2. saves[c][f] = saves[d][f]
        BY <1>1, <2>1, OneSender DEF IInv, ClientInv, DataOK
    <2> QED BY <1>3, <2>2, TakesData
<1>4. ASSUME NEW p \in Players, x = <<"seat", p>>
      PROVE  PlaysWith(c, x) = PlaysWith(d, x)
    <2>1. phase[c] = "run" /\ phase[d] = "run" /\ p \in Players \ left
        BY <1>4, TakesSeat
    <2>2. controls[c][p] = controls[d][p]
        BY <2>1 DEF SeenInv, SeenOK, ViewOK, Joined
    <2> QED BY <1>4, <2>2, TakesSeat
<1> QED BY <1>2, <1>3, <1>4, PartIsOneOf

LEMMA KnownTyped ==
    TypeOK => Known \in [Clients -> [Parts -> (Clients \cup {Torn, Absent} \cup Paks) \cup {Unknown}]]
<1> SUFFICES ASSUME TypeOK, NEW c \in Clients, NEW x \in Parts
             PROVE  PlaysWith(c, x) \in Clients \cup {Torn, Absent} \cup Paks
    BY DEF Known
<1>1. CASE x = <<"data", "settings">>
    BY <1>1, TakesData DEF TypeOK
<1>2. ASSUME NEW f \in FileNames, f # "settings", x = <<"data", f>>
      PROVE  PlaysWith(c, x) \in Clients \cup {Torn}
    BY <1>2, TakesData DEF TypeOK
<1>3. ASSUME NEW p \in Players, x = <<"seat", p>>
      PROVE  PlaysWith(c, x) \in Paks \cup {Absent}
    BY <1>3, TakesSeat DEF TypeOK
<1> QED BY <1>1, <1>2, <1>3, PartIsOneOf

(* The step of one client, seen in the shared game: it drops out, or takes *)
(* up more.                                                                *)
LEMMA ClientPlays ==
    ASSUME IInv, SeenInv, IInv', SeenInv', NEW c \in Clients, Steady(c), left' = left,
           \A d \in Clients : d # c => Untouched(d)
    PROVE  Shared!Learn(c) \/ Shared!Drop(c)
<1>1. Alive' = Alive
    BY DEF Alive
<1>2. ASSUME NEW d \in Clients, d # c PROVE Known'[d] = Known[d]
    <2>1. /\ Joined(d)' <=> Joined(d)
          /\ HasSettings(d)' <=> HasSettings(d)
          /\ \A f \in FileNames : HasSave(d, f)' <=> HasSave(d, f)
          /\ phase'[d] = phase[d] /\ settings'[d] = settings[d] /\ saves'[d] = saves[d]
          /\ controls'[d] = controls[d]
        BY <1>2 DEF Untouched, Joined, HasSettings, HasSave
    <2>2. ASSUME NEW x \in Parts PROVE Known'[d][x] = Known[d][x]
        <3>1. CASE x = <<"data", "settings">>
            BY <2>1, <3>1 DEF Known, Takes, PlaysWith
        <3>2. ASSUME NEW f \in FileNames, f # "settings", x = <<"data", f>>
              PROVE  Known'[d][x] = Known[d][x]
            BY <2>1, <3>2 DEF Known, Takes, PlaysWith
        <3>3. ASSUME NEW p \in Players, x = <<"seat", p>>
              PROVE  Known'[d][x] = Known[d][x]
            BY <2>1, <3>3 DEF Known, Takes, PlaysWith
        <3> QED BY <3>1, <3>2, <3>3, PartIsOneOf
    <2> QED BY <2>2 DEF Known
<1>3. CASE ~ Joined(c)'
    <2>1. Known'[c] = [x \in Parts |-> Unknown]
        BY <1>3 DEF Known
    <2>2. Known' = [Known EXCEPT ![c] = [x \in Parts |-> Unknown]]
        BY <1>2, <2>1 DEF Known
    <2> QED BY <1>1, <2>2 DEF Shared!Drop, Known, Alive
<1>4. CASE Joined(c)'
    <2>1. (Known \in [Clients -> [Parts -> (Clients \cup {Torn, Absent} \cup Paks) \cup {Unknown}]])'
        <3>1. TypeOK'
            BY DEF IInv
        <3> QED BY <3>1, KnownTyped, PTL
    <2>2. Agreement'
        BY Agreed, PTL
    <2>3. ASSUME NEW x \in Parts, Joined(c), Takes(c, x)
          PROVE  Known'[c][x] = Known[c][x]
        <3>1. CASE x = <<"data", "settings">>
            BY <1>4, <2>3, <3>1 DEF Steady, Known, Takes, PlaysWith
        <3>2. ASSUME NEW f \in FileNames, f # "settings", x = <<"data", f>>
              PROVE  Known'[c][x] = Known[c][x]
            BY <1>4, <2>3, <3>2 DEF Steady, Known, Takes, PlaysWith
        <3>3. ASSUME NEW p \in Players, x = <<"seat", p>>
              PROVE  Known'[c][x] = Known[c][x]
            BY <1>4, <2>3, <3>3 DEF Steady, Known, Takes, PlaysWith
        <3> QED BY <3>1, <3>2, <3>3, PartIsOneOf
    <2>4. ASSUME NEW x \in Parts, Known'[c][x] # Known[c][x]
          PROVE  /\ x \in Alive /\ Known[c][x] = Unknown
                 /\ \A d \in Clients : Known[d][x] \in {Unknown, Known'[c][x]}
        <3>1. ~ (Joined(c) /\ Takes(c, x)) /\ Known[c][x] = Unknown
            BY <2>3, <2>4 DEF Known
        <3>2. Takes(c, x)' /\ Known'[c][x] = PlaysWith(c, x)'
            BY <2>4, <3>1 DEF Known
        <3>3. x \in Alive
            <4>1. ASSUME NEW p \in Players, x = <<"seat", p>> PROVE p \notin left
                BY <3>2, <4>1 DEF Takes
            <4>2. ASSUME NEW p \in left, x = <<"seat", p>> PROVE FALSE
                BY <4>1, <4>2 DEF IInv, TypeOK
            <4> QED BY <4>2 DEF Alive
        <3>4. ASSUME NEW d \in Clients, d # c PROVE Known[d][x] \in {Unknown, Known'[c][x]}
            <4>1. Known[d][x] = Known'[d][x]
                BY <1>2, <3>4
            <4> QED BY <1>4, <2>2, <3>2, <4>1 DEF Agreement, Known
        <3> QED BY <3>1, <3>3, <3>4
    <2> QED BY <1>1, <1>2, <2>1, <2>4 DEF Shared!Learn, Known, Alive
<1> QED BY <1>3, <1>4

(* The server takes nothing from anybody, but for the players who left.    *)
LEMMA ServerRetires ==
    ASSUME NEW c \in Clients, Serve(c)
    PROVE  Shared!Retire
<1>1. /\ left \subseteq left'
      /\ UNCHANGED <<tcp, init, phase, settings, saves, at, controls>>
    BY DEF Serve, Register, Upload, Fetch, Registration, Leave, server, place, machine
<1>2. Alive' \in SUBSET Alive
    BY <1>1 DEF Alive
<1>3. ASSUME NEW d \in Clients, NEW x \in Parts
      PROVE  Known'[d][x] = IF x \in Alive' THEN Known[d][x] ELSE Unknown
    <2>1. CASE x = <<"data", "settings">>
        BY <1>1, <2>1 DEF Known, Alive, Joined, Takes, PlaysWith, HasSettings
    <2>2. ASSUME NEW f \in FileNames, f # "settings", x = <<"data", f>>
          PROVE  Known'[d][x] = IF x \in Alive' THEN Known[d][x] ELSE Unknown
        BY <1>1, <2>2 DEF Known, Alive, Joined, Takes, PlaysWith, HasSave
    <2>3. ASSUME NEW p \in Players, x = <<"seat", p>>
          PROVE  Known'[d][x] = IF x \in Alive' THEN Known[d][x] ELSE Unknown
        BY <1>1, <2>3 DEF Known, Alive, Joined, Takes, PlaysWith
    <2> QED BY <2>1, <2>2, <2>3, PartIsOneOf
<1>4. Known' = [d \in Clients |-> [x \in Parts |-> IF x \in Alive' THEN Known[d][x] ELSE Unknown]]
    BY <1>3 DEF Known
<1> QED BY <1>2, <1>4 DEF Shared!Retire, Known, Alive

LEMMA GameStep ==
    ASSUME IInv, SeenInv, IInv', SeenInv', [Next]_vars
    PROVE  [Shared!Next]_Shared!game
<1>1. ASSUME NEW c \in Clients, FrontEnd(c) \/ Emulator(c) \/ Lose(c)
      PROVE  Shared!Learn(c) \/ Shared!Drop(c)
    BY <1>1, ClientIsSteady, ClientPlays
<1>2. CASE UNCHANGED vars
    <2>1. Known' = Known /\ Alive' = Alive
        BY <1>2 DEF vars, server, link, place, machine, Known, Alive, Joined, Takes, PlaysWith,
                    HasSettings, HasSave
    <2> QED BY <2>1 DEF Shared!game, Known, Alive
<1> QED BY <1>1, <1>2, ServerRetires DEF Next, Shared!Next

LEMMA GameBegins == Init => Shared!Init
<1> SUFFICES ASSUME Init PROVE Shared!Init
    OBVIOUS
<1>1. \A c \in Clients : ~ Joined(c)
    BY DEF Init, Joined
<1>2. Known = [c \in Clients |-> [x \in Parts |-> Unknown]]
    BY <1>1 DEF Known
<1>3. Alive = Parts
    BY DEF Init, Alive
<1> QED BY <1>2, <1>3 DEF Shared!Init, Known, Alive

(* The start of a netplay game is a shared game (netplay_sync_settings,    *)
(* netplay_read_storage, netplay_read_registration): whoever takes up the  *)
(* settings, a saved memory or a player takes it up as those who have it.  *)
THEOREM SharedGameImplemented == Spec => ImplementsSharedGame
<1> QED BY InvariantHolds, SeenInvariant, GameBegins, GameStep, PTL
        DEF Spec, ImplementsSharedGame, Shared!Spec
=============================================================================
