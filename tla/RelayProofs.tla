---------------------------- MODULE RelayProofs ----------------------------
(***************************************************************************)
(* Proofs about the relay, for every set of sockets and codes.             *)
(***************************************************************************)
EXTENDS Relay, SequenceTheorems, TLAPS

LEMMA SendType ==
    ASSUME TypeOK, NEW box \in [Clients -> Seq(Frame)],
           NEW c \in Clients, NEW f \in Frame
    PROVE  Send(box, c, f) \in [Clients -> Seq(Frame)]
BY DEF Send, TypeOK

LEMMA BroadcastType ==
    ASSUME TypeOK, NEW count \in [Clients -> Nat], NEW f \in Frame
    PROVE  Broadcast(outbox, count, f) \in [Clients -> Seq(Frame)]
<1>1. \A k \in Nat : Copies(f, k) \in Seq(Frame)
    BY DEF Copies
<1>2. ASSUME NEW c \in Clients
      PROVE  outbox[c] \o Copies(f, count[c]) \in Seq(Frame)
    <2>1. outbox[c] \in Seq(Frame) /\ count[c] \in Nat
        BY DEF TypeOK
    <2> QED BY <2>1, <1>1, ConcatProperties
<1> QED BY <1>2 DEF Broadcast, TypeOK

(* Every variable keeps its type in every reachable state. *)
THEOREM TypeCorrect == Spec => []TypeOK
<1>1. Init => TypeOK
    BY ConstantsAssumption DEF Init, TypeOK, Conn, Role, Nobody
<1>2. TypeOK /\ [Next]_vars => TypeOK'
    <2> SUFFICES ASSUME TypeOK, [Next]_vars PROVE TypeOK'
        OBVIOUS
    <2> USE ConstantsAssumption
    <2>1. ASSUME NEW c \in Clients, Connect(c) PROVE TypeOK'
        BY <2>1 DEF Connect, TypeOK, Conn, store, fields
    <2>2. ASSUME NEW c \in Clients, NEW r \in Codes, Host(c, r) PROVE TypeOK'
        <3>1. outbox' \in [Clients -> Seq(Frame)]
            BY <2>2, SendType DEF Host, TypeOK, Frame
        <3>2. turns' \in [Clients -> 0 .. MaxMessages]
            BY <2>2 DEF Host, Turn, TypeOK
        <3> QED BY <2>2, <3>1, <3>2 DEF Host, Become, TypeOK, Role, Nobody
    <2>3. ASSUME NEW c \in Clients, NEW r \in Codes, NotFound(c, r) PROVE TypeOK'
        <3>1. outbox' \in [Clients -> Seq(Frame)]
            BY <2>3, SendType DEF NotFound, TypeOK, Frame
        <3>2. turns' \in [Clients -> 0 .. MaxMessages]
            BY <2>3 DEF NotFound, Turn, TypeOK
        <3> QED BY <2>3, <3>1, <3>2 DEF NotFound, TypeOK, store, fields
    <2>4. ASSUME NEW c \in Clients, NEW r \in Codes, Join(c, r) PROVE TypeOK'
        <3>1. outbox' \in [Clients -> Seq(Frame)]
            <4>1. [type |-> "player_joined", id |-> c] \in Frame
                BY DEF Frame
            <4>2. [type |-> "joined", code |-> r] \in Frame
                BY DEF Frame
            <4>3. host[r] \in Clients
                BY <2>4 DEF Join, TypeOK
            <4> QED BY <2>4, <4>1, <4>2, <4>3, SendType DEF Join, TypeOK
        <3>2. turns' \in [Clients -> 0 .. MaxMessages]
            BY <2>4 DEF Join, Turn, TypeOK
        <3>3. players' \in [Codes -> [Clients -> Nat]]
            BY <2>4 DEF Join, TypeOK
        <3> QED BY <2>4, <3>1, <3>2, <3>3 DEF Join, Become, TypeOK, Role
    <2>5. ASSUME NEW c \in Clients, NEW r \in Codes, Spectate(c, r) PROVE TypeOK'
        <3>1. outbox' \in [Clients -> Seq(Frame)]
            BY <2>5, SendType DEF Spectate, TypeOK, Frame
        <3>2. turns' \in [Clients -> 0 .. MaxMessages]
            BY <2>5 DEF Spectate, Turn, TypeOK
        <3>3. spectators' \in [Codes -> [Clients -> Nat]]
            BY <2>5 DEF Spectate, TypeOK
        <3> QED BY <2>5, <3>1, <3>2, <3>3 DEF Spectate, Become, TypeOK, Role
    <2>6. ASSUME NEW c \in Clients, PlayerInput(c) PROVE TypeOK'
        <3>1. turns' \in [Clients -> 0 .. MaxMessages]
            BY <2>6 DEF PlayerInput, Turn, TypeOK
        <3>2. outbox' \in [Clients -> Seq(Frame)]
            <4>1. [type |-> "input", id |-> c, n |-> turns'[c]] \in Frame
                BY <3>1 DEF Frame
            <4>2. host[roomCode[c]] \in Clients
                BY <2>6 DEF PlayerInput, InRoom, TypeOK
            <4> QED BY <2>6, <4>1, <4>2, SendType DEF PlayerInput, TypeOK
        <3> QED BY <2>6, <3>1, <3>2 DEF PlayerInput, TypeOK, store, fields
    <2>7. ASSUME NEW c \in Clients, HostState(c) PROVE TypeOK'
        <3>1. turns' \in [Clients -> 0 .. MaxMessages]
            BY <2>7 DEF HostState, Turn, TypeOK
        <3>2. outbox' \in [Clients -> Seq(Frame)]
            <4> DEFINE r == roomCode[c]
                       entries == [d \in Clients |-> players[r][d] + spectators[r][d]]
            <4>1. r \in Codes
                BY <2>7 DEF HostState, InRoom, TypeOK
            <4>2. [type |-> "state", id |-> c, n |-> turns'[c], code |-> r] \in Frame
                BY <3>1, <4>1 DEF Frame
            <4>3. entries \in [Clients -> Nat]
                BY <4>1 DEF TypeOK
            <4> HIDE DEF entries
            <4>4. outbox' = Broadcast(outbox, entries,
                      [type |-> "state", id |-> c, n |-> turns'[c], code |-> r])
                BY <2>7 DEF HostState, entries
            <4> QED BY <4>2, <4>3, <4>4, BroadcastType
        <3> QED BY <2>7, <3>1, <3>2 DEF HostState, TypeOK, store, fields
    <2>8. ASSUME NEW c \in Clients, PeerCloses(c) PROVE TypeOK'
        BY <2>8 DEF PeerCloses, TypeOK, Conn, store, fields
    <2>9. ASSUME NEW c \in Clients, CloseEvent(c) PROVE TypeOK'
        <3>1. CASE HostClosed(c)
            BY <3>1 DEF HostClosed, Evict, TypeOK, Conn, Nobody, fields
        <3>2. CASE GuestClosed(c)
            <4>1. roomCode[c] \in Codes
                BY <3>2 DEF GuestClosed, InRoom, TypeOK
            <4> QED BY <3>2, <4>1 DEF GuestClosed, TypeOK, Conn, fields
        <3>3. CASE StrayClosed(c)
            BY <3>3 DEF StrayClosed, TypeOK, Conn, store, fields
        <3> QED BY <2>9, <3>1, <3>2, <3>3 DEF CloseEvent
    <2>10. CASE UNCHANGED vars
        BY <2>10 DEF vars, store, fields, TypeOK
    <2> QED BY <2>1, <2>2, <2>3, <2>4, <2>5, <2>6, <2>7, <2>8, <2>9, <2>10 DEF Next
<1> QED BY <1>1, <1>2, PTL DEF Spec

-----------------------------------------------------------------------------
(* One of the first k frames of s admits its socket to room r. *)
Admission(s, r, k) ==
    \E j \in 1 .. k : /\ s[j].type \in {"joined", "spectating"}
                      /\ s[j].code = r

(* The strengthening of StateAdmitted: an OPEN socket listed in a room has *)
(* the frame that admitted it.                                             *)
AdmittedInv ==
    /\ StateAdmitted
    /\ \A c \in Clients, r \in Codes : c \in Members(r) =>
        /\ conn[c] # "NEW"
        /\ conn[c] = "OPEN" => Admission(outbox[c], r, Len(outbox[c]))

LEMMA AdmissionKept ==
    ASSUME NEW s \in Seq(Frame), NEW t \in Seq(Frame), NEW r,
           NEW k \in 0 .. Len(s), NEW m \in Nat, k <= m,
           Admission(s, r, k),
           \A j \in 1 .. Len(s) : t[j] = s[j]
    PROVE  Admission(t, r, m)
<1>1. PICK j \in 1 .. k : s[j].type \in {"joined", "spectating"} /\ s[j].code = r
    BY DEF Admission
<1>2. j \in 1 .. m /\ j \in 1 .. Len(s)
    OBVIOUS
<1> QED BY <1>1, <1>2 DEF Admission

(* How sending changes what a socket has been sent. *)
LEMMA SendPrefix ==
    ASSUME TypeOK, NEW box \in [Clients -> Seq(Frame)],
           NEW c \in Clients, NEW f \in Frame, NEW d \in Clients
    PROVE  /\ Send(box, c, f)[d] \in Seq(Frame)
           /\ Len(box[d]) <= Len(Send(box, c, f)[d])
           /\ \A j \in 1 .. Len(box[d]) : Send(box, c, f)[d][j] = box[d][j]
           /\ \A j \in Len(box[d]) + 1 .. Len(Send(box, c, f)[d]) :
                Send(box, c, f)[d][j] = f
           /\ (d = c /\ conn[c] = "OPEN") =>
                Len(Send(box, c, f)[d]) = Len(box[d]) + 1
BY DEF Send, TypeOK

LEMMA SendPrefixOutbox ==
    ASSUME TypeOK, NEW c \in Clients, NEW f \in Frame, NEW d \in Clients
    PROVE  /\ Send(outbox, c, f)[d] \in Seq(Frame)
           /\ Len(outbox[d]) <= Len(Send(outbox, c, f)[d])
           /\ \A j \in 1 .. Len(outbox[d]) : Send(outbox, c, f)[d][j] = outbox[d][j]
           /\ \A j \in Len(outbox[d]) + 1 .. Len(Send(outbox, c, f)[d]) :
                Send(outbox, c, f)[d][j] = f
           /\ (d = c /\ conn[c] = "OPEN") =>
                Len(Send(outbox, c, f)[d]) = Len(outbox[d]) + 1
<1>1. outbox \in [Clients -> Seq(Frame)]
    BY DEF TypeOK
<1> QED BY <1>1, SendPrefix

LEMMA BroadcastPrefix ==
    ASSUME TypeOK, NEW count \in [Clients -> Nat], NEW f \in Frame,
           NEW d \in Clients
    PROVE  /\ Broadcast(outbox, count, f)[d] \in Seq(Frame)
           /\ Len(outbox[d]) <= Len(Broadcast(outbox, count, f)[d])
           /\ \A j \in 1 .. Len(outbox[d]) :
                Broadcast(outbox, count, f)[d][j] = outbox[d][j]
           /\ \A j \in Len(outbox[d]) + 1 .. Len(Broadcast(outbox, count, f)[d]) :
                /\ Broadcast(outbox, count, f)[d][j] = f
                /\ conn[d] = "OPEN"
                /\ count[d] > 0
<1> DEFINE B == Broadcast(outbox, count, f)[d]
           C == Copies(f, count[d])
<1>1. outbox[d] \in Seq(Frame) /\ count[d] \in Nat
    BY DEF TypeOK
<1>2. C \in Seq(Frame) /\ Len(C) = count[d] /\ \A j \in 1 .. count[d] : C[j] = f
    BY <1>1 DEF Copies
<1>3. B = IF conn[d] = "OPEN" THEN outbox[d] \o C ELSE outbox[d]
    BY DEF Broadcast
<1>4. CASE conn[d] = "OPEN"
    <2> HIDE DEF C
    <2>0. /\ outbox[d] \o C \in Seq(Frame)
          /\ Len(outbox[d] \o C) = Len(outbox[d]) + Len(C)
          /\ \A j \in 1 .. Len(outbox[d]) + Len(C) :
                (outbox[d] \o C)[j] = IF j <= Len(outbox[d]) THEN outbox[d][j]
                                      ELSE C[j - Len(outbox[d])]
        BY <1>1, <1>2, ConcatProperties
    <2>1. /\ outbox[d] \o C \in Seq(Frame)
          /\ Len(outbox[d] \o C) = Len(outbox[d]) + count[d]
          /\ \A j \in 1 .. Len(outbox[d]) + count[d] :
                (outbox[d] \o C)[j] = IF j <= Len(outbox[d]) THEN outbox[d][j]
                                      ELSE C[j - Len(outbox[d])]
        BY <2>0, <1>2
    <2>2. B = outbox[d] \o C
        BY <1>3, <1>4
    <2> HIDE DEF B
    <2>3. \A j \in Len(outbox[d]) + 1 .. Len(outbox[d]) + count[d] :
            B[j] = f /\ count[d] > 0
        <3> TAKE j \in Len(outbox[d]) + 1 .. Len(outbox[d]) + count[d]
        <3>1. j - Len(outbox[d]) \in 1 .. count[d]
            BY <1>1
        <3> QED BY <3>1, <2>1, <2>2, <1>2, <1>1
    <2>4. Len(B) = Len(outbox[d]) + count[d] /\ Len(outbox[d]) \in Nat
        BY <2>1, <2>2, <1>1
    <2>5. \A j \in 1 .. Len(outbox[d]) : B[j] = outbox[d][j]
        BY <2>1, <2>2, <1>1
    <2>6. B \in Seq(Frame)
        BY <2>1, <2>2
    <2> QED BY <1>1, <1>4, <2>3, <2>4, <2>5, <2>6 DEF B
<1>5. CASE conn[d] # "OPEN"
    <2>1. B = outbox[d]
        BY <1>3, <1>5
    <2> HIDE DEF B
    <2>2. Len(outbox[d]) + 1 .. Len(outbox[d]) = {} /\ Len(outbox[d]) <= Len(outbox[d])
        BY <1>1
    <2> QED BY <1>1, <2>1, <2>2 DEF B
<1> QED BY <1>4, <1>5

(* What a step must do to outbox for AdmittedInv to hold after it. *)
LEMMA AdmittedStep ==
    ASSUME TypeOK, TypeOK', AdmittedInv,
           \A d \in Clients :
               /\ Len(outbox[d]) <= Len(outbox'[d])
               /\ \A j \in 1 .. Len(outbox[d]) : outbox'[d][j] = outbox[d][j]
               /\ \A j \in Len(outbox[d]) + 1 .. Len(outbox'[d]) :
                    outbox'[d][j].type = "state" =>
                        /\ d \in Members(outbox'[d][j].code)
                        /\ outbox'[d][j].code \in Codes
                        /\ conn[d] = "OPEN",
           \A d \in Clients, r \in Codes : (d \in Members(r))' =>
               /\ conn'[d] # "NEW"
               /\ conn'[d] = "OPEN" =>
                    \/ d \in Members(r) /\ conn[d] = "OPEN"
                    \/ Admission(outbox'[d], r, Len(outbox'[d]))
    PROVE  AdmittedInv'
<1>1. \A d \in Clients : outbox[d] \in Seq(Frame) /\ outbox'[d] \in Seq(Frame)
    BY DEF TypeOK
<1>2. StateAdmitted'
    <2> SUFFICES ASSUME NEW c \in Clients, NEW i \in 1 .. Len(outbox'[c]),
                        outbox'[c][i].type = "state"
                 PROVE  Admission(outbox'[c], outbox'[c][i].code, i - 1)
        BY DEF StateAdmitted, Admission
    <2>1. CASE i <= Len(outbox[c])
        <3>1. i \in 1 .. Len(outbox[c]) /\ outbox'[c][i] = outbox[c][i]
            BY <2>1, <1>1
        <3>2. Admission(outbox[c], outbox[c][i].code, i - 1)
            BY <3>1 DEF AdmittedInv, StateAdmitted, Admission
        <3>3. i - 1 \in 0 .. Len(outbox[c]) /\ i - 1 \in Nat /\ i - 1 <= i - 1
            BY <3>1, <1>1
        <3> QED BY <1>1, <3>1, <3>2, <3>3, AdmissionKept
    <2>2. CASE ~(i <= Len(outbox[c]))
        <3>1. i \in Len(outbox[c]) + 1 .. Len(outbox'[c])
            BY <2>2, <1>1
        <3>2. /\ c \in Members(outbox'[c][i].code)
              /\ outbox'[c][i].code \in Codes
              /\ conn[c] = "OPEN"
            BY <3>1
        <3>3. Admission(outbox[c], outbox'[c][i].code, Len(outbox[c]))
            BY <3>2 DEF AdmittedInv
        <3>4. /\ Len(outbox[c]) \in 0 .. Len(outbox[c])
              /\ i - 1 \in Nat /\ Len(outbox[c]) <= i - 1
            BY <3>1, <1>1
        <3> QED BY <1>1, <3>3, <3>4, AdmissionKept
    <2> QED BY <2>1, <2>2
<1>3. ASSUME NEW c \in Clients, NEW r \in Codes, (c \in Members(r))'
      PROVE  /\ conn'[c] # "NEW"
             /\ conn'[c] = "OPEN" => Admission(outbox'[c], r, Len(outbox'[c]))
    <2>1. conn'[c] # "NEW"
        BY <1>3
    <2>2. ASSUME conn'[c] = "OPEN", c \in Members(r), conn[c] = "OPEN"
          PROVE  Admission(outbox'[c], r, Len(outbox'[c]))
        <3>1. Admission(outbox[c], r, Len(outbox[c]))
            BY <2>2 DEF AdmittedInv
        <3>2. /\ Len(outbox[c]) \in 0 .. Len(outbox[c])
              /\ Len(outbox'[c]) \in Nat /\ Len(outbox[c]) <= Len(outbox'[c])
            BY <1>1
        <3> QED BY <1>1, <3>1, <3>2, AdmissionKept
    <2> QED BY <1>3, <2>1, <2>2
<1> QED BY <1>2, <1>3 DEF AdmittedInv

(* A socket is sent a room's state only after it was admitted to the room, *)
(* with no assumption on roles or codes.                                   *)
THEOREM StateAdmittedCorrect == Spec => []StateAdmitted
<1>1. Init => AdmittedInv
    BY DEF Init, AdmittedInv, StateAdmitted, Members, Nobody
<1>2. TypeOK /\ TypeOK' /\ AdmittedInv /\ [Next]_vars => AdmittedInv'
    <2> SUFFICES ASSUME TypeOK, TypeOK', AdmittedInv, [Next]_vars PROVE AdmittedInv'
        OBVIOUS
    <2> USE ConstantsAssumption
    <2>1. ASSUME NEW c \in Clients, NEW r \in Codes,
                 Host(c, r) \/ NotFound(c, r) \/ Join(c, r) \/ Spectate(c, r)
          PROVE  AdmittedInv'
        <3>1. PICK d \in Clients, f \in Frame, g \in Frame, box \in [Clients -> Seq(Frame)] :
                /\ box = outbox \/ box = Send(outbox, d, g)
                /\ outbox' = Send(box, c, f)
                /\ f.type # "state" /\ g.type # "state"
                /\ (Join(c, r) \/ Spectate(c, r)) =>
                    f.type \in {"joined", "spectating"} /\ f.code = r
            <4>1. CASE Host(c, r)
                <5> DEFINE f == [type |-> "room_created", code |-> r]
                <5>1. f \in Frame /\ outbox \in [Clients -> Seq(Frame)]
                    BY DEF Frame, TypeOK
                <5>2. ~(Join(c, r) \/ Spectate(c, r))
                    BY <4>1 DEF Host, Join, Spectate, Become, TypeOK
                <5>3. outbox' = Send(outbox, c, f) /\ f.type # "state"
                    BY <4>1 DEF Host
                <5> HIDE DEF f
                <5> QED BY <5>1, <5>2, <5>3
            <4>2. CASE NotFound(c, r)
                <5> DEFINE f == [type |-> "error"]
                <5>1. f \in Frame /\ outbox \in [Clients -> Seq(Frame)]
                    BY DEF Frame, TypeOK
                <5>2. ~(Join(c, r) \/ Spectate(c, r))
                    BY <4>2 DEF NotFound, Join, Spectate
                <5>3. outbox' = Send(outbox, c, f) /\ f.type # "state"
                    BY <4>2 DEF NotFound
                <5> HIDE DEF f
                <5> QED BY <5>1, <5>2, <5>3
            <4>3. CASE Join(c, r)
                <5> DEFINE g == [type |-> "player_joined", id |-> c]
                           f == [type |-> "joined", code |-> r]
                <5>1. /\ f \in Frame /\ g \in Frame
                      /\ f.type = "joined" /\ g.type # "state" /\ f.code = r
                    BY DEF Frame
                <5>2. host[r] \in Clients
                    BY <4>3 DEF Join, TypeOK
                <5>3. Send(outbox, host[r], g) \in [Clients -> Seq(Frame)]
                    BY <5>1, <5>2, SendType DEF TypeOK
                <5>4. outbox' = Send(Send(outbox, host[r], g), c, f)
                    BY <4>3 DEF Join
                <5> HIDE DEF f, g
                <5> QED BY <5>1, <5>2, <5>3, <5>4
            <4>4. CASE Spectate(c, r)
                <5> DEFINE f == [type |-> "spectating", code |-> r]
                <5>1. /\ f \in Frame /\ outbox \in [Clients -> Seq(Frame)]
                      /\ f.type = "spectating" /\ f.code = r
                    BY DEF Frame, TypeOK
                <5>2. outbox' = Send(outbox, c, f)
                    BY <4>4 DEF Spectate
                <5> HIDE DEF f
                <5> QED BY <5>1, <5>2
            <4> QED BY <2>1, <4>1, <4>2, <4>3, <4>4
        <3>2. \A e \in Clients :
                /\ outbox[e] \in Seq(Frame) /\ box[e] \in Seq(Frame)
                /\ Len(outbox[e]) <= Len(box[e])
                /\ \A j \in 1 .. Len(outbox[e]) : box[e][j] = outbox[e][j]
                /\ \A j \in Len(outbox[e]) + 1 .. Len(box[e]) : box[e][j] = g
            <4>1. outbox \in [Clients -> Seq(Frame)]
                BY DEF TypeOK
            <4>2. \A e \in Clients : /\ outbox[e] \in Seq(Frame)
                                     /\ Len(outbox[e]) + 1 .. Len(outbox[e]) = {}
                                     /\ Len(outbox[e]) <= Len(outbox[e])
                BY <4>1
            <4>3. CASE box = outbox
                BY <4>2, <4>3
            <4>4. CASE box = Send(outbox, d, g)
                <5> SUFFICES ASSUME NEW e \in Clients
                    PROVE  /\ outbox[e] \in Seq(Frame)
                           /\ box[e] \in Seq(Frame)
                           /\ Len(outbox[e]) <= Len(box[e])
                           /\ \A j \in 1 .. Len(outbox[e]) : box[e][j] = outbox[e][j]
                           /\ \A j \in Len(outbox[e]) + 1 .. Len(box[e]) : box[e][j] = g
                    OBVIOUS
                <5> DEFINE S == Send(outbox, d, g)[e]
                <5>1. /\ S \in Seq(Frame)
                      /\ Len(outbox[e]) <= Len(S)
                      /\ \A j \in 1 .. Len(outbox[e]) : S[j] = outbox[e][j]
                      /\ \A j \in Len(outbox[e]) + 1 .. Len(S) : S[j] = g
                    BY SendPrefixOutbox
                <5>2. box[e] = S
                    BY <4>4
                <5> HIDE DEF S
                <5> QED BY <4>2, <5>1, <5>2
            <4> QED BY <3>1, <4>3, <4>4
        <3>3. ASSUME NEW e \in Clients
              PROVE  /\ outbox'[e] \in Seq(Frame)
                     /\ Len(box[e]) <= Len(outbox'[e])
                     /\ \A j \in 1 .. Len(box[e]) : outbox'[e][j] = box[e][j]
                     /\ \A j \in Len(box[e]) + 1 .. Len(outbox'[e]) : outbox'[e][j] = f
                     /\ (e = c /\ conn[c] = "OPEN") =>
                            Len(outbox'[e]) = Len(box[e]) + 1
            <4> DEFINE S == Send(box, c, f)
            <4>1. outbox' = S
                BY <3>1
            <4>2. /\ S[e] \in Seq(Frame)
                  /\ Len(box[e]) <= Len(S[e])
                  /\ \A j \in 1 .. Len(box[e]) : S[e][j] = box[e][j]
                  /\ \A j \in Len(box[e]) + 1 .. Len(S[e]) : S[e][j] = f
                  /\ (e = c /\ conn[c] = "OPEN") => Len(S[e]) = Len(box[e]) + 1
                BY ONLY TypeOK, c \in Clients, f \in Frame, e \in Clients,
                        box \in [Clients -> Seq(Frame)], SendPrefix, SMTT(30)
            <4> HIDE DEF S
            <4> QED BY <4>1, <4>2
        <3>4. ASSUME NEW e \in Clients
              PROVE  /\ Len(outbox[e]) <= Len(outbox'[e])
                     /\ \A j \in 1 .. Len(outbox[e]) : outbox'[e][j] = outbox[e][j]
                     /\ \A j \in Len(outbox[e]) + 1 .. Len(outbox'[e]) :
                            outbox'[e][j].type # "state"
            <4>1. /\ Len(outbox[e]) \in Nat /\ Len(box[e]) \in Nat
                  /\ Len(outbox'[e]) \in Nat
                BY <3>2, <3>3
            <4>2. Len(outbox[e]) <= Len(box[e]) /\ Len(box[e]) <= Len(outbox'[e])
                BY <3>2, <3>3
            <4>3. ASSUME NEW j \in 1 .. Len(outbox[e])
                  PROVE  outbox'[e][j] = outbox[e][j]
                <5>1. j \in 1 .. Len(box[e])
                    BY <4>1, <4>2
                <5> QED BY <5>1, <3>2, <3>3
            <4>4. ASSUME NEW j \in Len(outbox[e]) + 1 .. Len(outbox'[e])
                  PROVE  outbox'[e][j].type # "state"
                <5>1. CASE j <= Len(box[e])
                    <6>1. j \in Len(outbox[e]) + 1 .. Len(box[e]) /\ j \in 1 .. Len(box[e])
                        BY <5>1, <4>1, <4>2
                    <6> QED BY <6>1, <3>1, <3>2, <3>3
                <5>2. CASE ~(j <= Len(box[e]))
                    <6>1. j \in Len(box[e]) + 1 .. Len(outbox'[e])
                        BY <5>2, <4>1, <4>2
                    <6> QED BY <6>1, <3>1, <3>3
                <5> QED BY <5>1, <5>2
            <4> QED BY <4>1, <4>2, <4>3, <4>4
        <3>5. conn' = conn /\ conn[c] \in {"OPEN", "EVICTED"}
            BY <2>1 DEF Host, NotFound, Join, Spectate, Turn
        <3>6. ASSUME NEW e \in Clients, NEW q \in Codes, (e \in Members(q))',
                     ~(e \in Members(q))
              PROVE  e = c /\ q = r /\ (Join(c, r) \/ Spectate(c, r))
            <4>1. CASE Host(c, r)
                BY <4>1, <3>6 DEF Members, Host, Nobody, TypeOK
            <4>2. CASE NotFound(c, r)
                BY <4>2, <3>6 DEF Members, NotFound, store
            <4>3. CASE Join(c, r)
                BY <4>3, <3>6 DEF Members, Join, TypeOK
            <4>4. CASE Spectate(c, r)
                BY <4>4, <3>6 DEF Members, Spectate, TypeOK
            <4> QED BY <2>1, <4>1, <4>2, <4>3, <4>4
        <3>7. ASSUME Join(c, r) \/ Spectate(c, r), conn[c] = "OPEN"
              PROVE  Admission(outbox'[c], r, Len(outbox'[c]))
            <4>1. /\ Len(outbox'[c]) \in Len(box[c]) + 1 .. Len(outbox'[c])
                  /\ Len(outbox'[c]) \in 1 .. Len(outbox'[c])
                BY <3>2, <3>3, <3>7
            <4> QED BY <4>1, <3>1, <3>3, <3>7 DEF Admission
        <3>8. ASSUME NEW e \in Clients, NEW q \in Codes, (e \in Members(q))'
              PROVE  /\ conn'[e] # "NEW"
                     /\ conn'[e] = "OPEN" =>
                            \/ e \in Members(q) /\ conn[e] = "OPEN"
                            \/ Admission(outbox'[e], q, Len(outbox'[e]))
            <4>1. CASE e \in Members(q)
                BY <3>5, <4>1 DEF AdmittedInv
            <4>2. CASE ~(e \in Members(q))
                <5>1. e = c /\ q = r /\ (Join(c, r) \/ Spectate(c, r))
                    BY <3>6, <3>8, <4>2
                <5> QED BY <3>5, <3>7, <5>1
            <4> QED BY <4>1, <4>2
        <3> QED BY <3>4, <3>8, AdmittedStep
    <2>2. ASSUME NEW c \in Clients, PlayerInput(c) PROVE AdmittedInv'
        <3> DEFINE f == [type |-> "input", id |-> c, n |-> turns'[c]]
        <3>1. f \in Frame /\ host[roomCode[c]] \in Clients
            BY <2>2 DEF PlayerInput, InRoom, TypeOK, Frame
        <3>2. outbox' = Send(outbox, host[roomCode[c]], f)
            BY <2>2 DEF PlayerInput
        <3>3. ASSUME NEW e \in Clients
              PROVE  /\ Len(outbox[e]) <= Len(outbox'[e])
                     /\ \A j \in 1 .. Len(outbox[e]) : outbox'[e][j] = outbox[e][j]
                     /\ \A j \in Len(outbox[e]) + 1 .. Len(outbox'[e]) :
                            outbox'[e][j].type # "state"
            <4>1. f.type # "state"
                OBVIOUS
            <4>2. outbox \in [Clients -> Seq(Frame)]
                BY DEF TypeOK
            <4> HIDE DEF f
            <4>3. /\ Len(outbox[e]) <= Len(Send(outbox, host[roomCode[c]], f)[e])
                  /\ \A j \in 1 .. Len(outbox[e]) :
                        Send(outbox, host[roomCode[c]], f)[e][j] = outbox[e][j]
                  /\ \A j \in Len(outbox[e]) + 1
                                .. Len(Send(outbox, host[roomCode[c]], f)[e]) :
                        Send(outbox, host[roomCode[c]], f)[e][j] = f
                BY ONLY TypeOK, <3>1, e \in Clients, SendPrefixOutbox, SMTT(30)
            <4> QED BY <3>2, <4>1, <4>3
        <3>4. conn' = conn /\ \A q \in Codes : Members(q)' = Members(q)
            BY <2>2 DEF PlayerInput, Members, store
        <3> QED BY <3>3, <3>4, AdmittedStep DEF AdmittedInv
    <2>3. ASSUME NEW c \in Clients, HostState(c) PROVE AdmittedInv'
        <3> DEFINE r == roomCode[c]
                   f == [type |-> "state", id |-> c, n |-> turns'[c], code |-> r]
                   entries == [d \in Clients |-> players[r][d] + spectators[r][d]]
        <3>1. r \in Codes /\ f \in Frame /\ f.code = r
            BY <2>3 DEF HostState, InRoom, TypeOK, Frame
        <3>2. entries \in [Clients -> Nat]
            <4>1. players[r] \in [Clients -> Nat] /\ spectators[r] \in [Clients -> Nat]
                BY <3>1 DEF TypeOK
            <4> QED BY <4>1
        <3>3. \A d \in Clients : entries[d] > 0 => d \in Members(r)
            <4>1. \A d \in Clients : players[r][d] \in Nat /\ spectators[r][d] \in Nat
                BY <3>1 DEF TypeOK
            <4> QED BY <4>1 DEF Members
        <3>4. outbox' = Broadcast(outbox, entries, f)
            BY <2>3 DEF HostState
        <3>5. conn' = conn /\ \A q \in Codes : Members(q)' = Members(q)
            BY <2>3 DEF HostState, Members, store
        <3> HIDE DEF f, entries, r
        <3>6. ASSUME NEW e \in Clients
              PROVE  /\ Len(outbox[e]) <= Len(outbox'[e])
                     /\ \A j \in 1 .. Len(outbox[e]) : outbox'[e][j] = outbox[e][j]
                     /\ \A j \in Len(outbox[e]) + 1 .. Len(outbox'[e]) :
                            outbox'[e][j] = f /\ e \in Members(r) /\ conn[e] = "OPEN"
            <4> DEFINE B == Broadcast(outbox, entries, f)[e]
            <4>1. /\ Len(outbox[e]) <= Len(B)
                  /\ \A j \in 1 .. Len(outbox[e]) : B[j] = outbox[e][j]
                  /\ \A j \in Len(outbox[e]) + 1 .. Len(B) :
                        B[j] = f /\ conn[e] = "OPEN" /\ entries[e] > 0
                BY <3>1, <3>2, BroadcastPrefix
            <4>2. outbox'[e] = B
                BY <3>4
            <4> HIDE DEF B
            <4> QED BY <4>1, <4>2, <3>3
        <3> QED BY <3>1, <3>5, <3>6, AdmittedStep DEF AdmittedInv
    <2>4. ASSUME NEW c \in Clients, Connect(c) \/ PeerCloses(c) \/ CloseEvent(c)
          PROVE  AdmittedInv'
        <3>1. outbox' = outbox
            BY <2>4 DEF Connect, PeerCloses, CloseEvent, HostClosed, GuestClosed, StrayClosed
        <3>2. ASSUME NEW e \in Clients, NEW q \in Codes, (e \in Members(q))'
              PROVE  e \in Members(q)
            <4>1. CASE Connect(c) \/ PeerCloses(c) \/ StrayClosed(c)
                BY <4>1, <3>2 DEF Connect, PeerCloses, StrayClosed, Members, store
            <4>2. CASE HostClosed(c)
                BY <4>2, <3>2 DEF HostClosed, Members, Nobody, InRoom, TypeOK
            <4>3. CASE GuestClosed(c)
                BY <4>3, <3>2 DEF GuestClosed, Members, InRoom, TypeOK
            <4> QED BY <2>4, <4>1, <4>2, <4>3 DEF CloseEvent
        <3>3. ASSUME NEW e \in Clients
              PROVE  /\ conn'[e] = "OPEN" => conn[e] = "OPEN" \/ conn[e] = "NEW"
                     /\ conn'[e] = "NEW" => conn[e] = "NEW"
            <4>1. CASE Connect(c) \/ PeerCloses(c)
                BY <4>1 DEF Connect, PeerCloses, TypeOK
            <4>2. CASE CloseEvent(c)
                BY <4>2 DEF CloseEvent, HostClosed, GuestClosed, StrayClosed, Evict, TypeOK
            <4> QED BY <2>4, <4>1, <4>2
        <3>4. \A e \in Clients : Len(outbox[e]) + 1 .. Len(outbox[e]) = {}
                                 /\ Len(outbox[e]) <= Len(outbox[e])
            BY DEF TypeOK
        <3> QED BY <3>1, <3>2, <3>3, <3>4, AdmittedStep DEF AdmittedInv
    <2>5. CASE UNCHANGED vars
        BY <2>5 DEF vars, store, fields, AdmittedInv, StateAdmitted, Members
    <2> QED BY <2>1, <2>2, <2>3, <2>4, <2>5 DEF Next
<1>3. AdmittedInv => StateAdmitted
    BY DEF AdmittedInv
<1> QED BY <1>1, <1>2, <1>3, TypeCorrect, PTL DEF Spec

-----------------------------------------------------------------------------
(* The strengthening of RosterExact: a socket has a room code exactly when *)
(* it has a role, and the codes in use have been issued.                   *)
RosterInv ==
    /\ RosterExact
    /\ \A c \in Clients : roomCode[c] = None <=> role[c] = "none"
    /\ \A c \in Clients : roomCode[c] \in issued \cup {None}
    /\ \A r \in Codes : host[r] # None => r \in issued

LEMMA RosterStep ==
    ASSUME OneRolePerSocket, UniqueCodes, TypeOK, RosterInv, [Next]_vars
    PROVE  RosterInv'
<1> USE ConstantsAssumption
<1>0. /\ conn \in [Clients -> Conn]
      /\ role \in [Clients -> Role]
      /\ roomCode \in [Clients -> Codes \cup {None}]
      /\ host \in [Codes -> Clients \cup {None}]
      /\ players \in [Codes -> [Clients -> Nat]]
      /\ spectators \in [Codes -> [Clients -> Nat]]
      /\ issued \in SUBSET Codes
    BY DEF TypeOK
<1>1. ASSUME NEW c \in Clients, Connect(c) PROVE RosterInv'
    BY <1>1, <1>0 DEF Connect, RosterInv, RosterExact, RoomExact, Live, Members, store, fields
<1>2. ASSUME NEW c \in Clients, NEW r \in Codes, Host(c, r) PROVE RosterInv'
    <2>1. /\ role[c] = "none" /\ roomCode[c] = None /\ r \notin issued
          /\ \A d \in Clients : roomCode[d] # r
          /\ conn[c] # "CLOSED"
        BY <1>2 DEF Host, MayEnter, RosterInv, Turn
    <2>2. RosterExact'
        <3> SUFFICES ASSUME NEW q \in Codes
                     PROVE  RoomExact(q)'
            BY DEF RosterExact
        <3>1. CASE q = r
            BY <1>2, <2>1, <3>1, <1>0 DEF Host, Become, RosterInv, RosterExact, RoomExact, Live, Members, Nobody
        <3>2. CASE q # r
            BY <1>2, <2>1, <3>2, <1>0 DEF Host, Become, RosterInv, RosterExact, RoomExact, Live, Members
        <3> QED BY <3>1, <3>2
    <2> QED BY <1>2, <2>1, <2>2, <1>0 DEF Host, Become, RosterInv
<1>3. ASSUME NEW c \in Clients, NEW r \in Codes, NotFound(c, r) PROVE RosterInv'
    BY <1>3 DEF NotFound, RosterInv, RosterExact, RoomExact, Live, Members, store, fields
<1>4. ASSUME NEW c \in Clients, NEW r \in Codes, Join(c, r) PROVE RosterInv'
    <2>1. role[c] = "none" /\ roomCode[c] = None /\ conn[c] # "CLOSED"
        BY <1>4 DEF Join, MayEnter, RosterInv, Turn
    <2>2. RosterExact'
        <3> SUFFICES ASSUME NEW q \in Codes PROVE RoomExact(q)'
            BY DEF RosterExact
        <3>1. RoomExact(q) /\ (host[q] # None => host[q] # c)
            BY <2>1 DEF RosterInv, RosterExact, RoomExact
        <3>2. CASE q = r
            BY <1>4, <2>1, <3>1, <3>2, <1>0 DEF Join, Become, RoomExact, Live, Members
        <3>3. CASE q # r
            BY <1>4, <2>1, <3>1, <3>3, <1>0 DEF Join, Become, RoomExact, Live, Members
        <3> QED BY <3>2, <3>3
    <2> QED BY <1>4, <2>1, <2>2, <1>0 DEF Join, Become, RosterInv
<1>5. ASSUME NEW c \in Clients, NEW r \in Codes, Spectate(c, r) PROVE RosterInv'
    <2>1. role[c] = "none" /\ roomCode[c] = None /\ conn[c] # "CLOSED"
        BY <1>5 DEF Spectate, MayEnter, RosterInv, Turn
    <2>2. RosterExact'
        <3> SUFFICES ASSUME NEW q \in Codes PROVE RoomExact(q)'
            BY DEF RosterExact
        <3>1. RoomExact(q) /\ (host[q] # None => host[q] # c)
            BY <2>1 DEF RosterInv, RosterExact, RoomExact
        <3>2. CASE q = r
            BY <1>5, <2>1, <3>1, <3>2, <1>0 DEF Spectate, Become, RoomExact, Live, Members
        <3>3. CASE q # r
            BY <1>5, <2>1, <3>1, <3>3, <1>0 DEF Spectate, Become, RoomExact, Live, Members
        <3> QED BY <3>2, <3>3
    <2> QED BY <1>5, <2>1, <2>2, <1>0 DEF Spectate, Become, RosterInv
<1>6. ASSUME NEW c \in Clients, PlayerInput(c) \/ HostState(c) PROVE RosterInv'
    BY <1>6 DEF PlayerInput, HostState, RosterInv, RosterExact, RoomExact, Live, Members, store, fields
<1>7. ASSUME NEW c \in Clients, PeerCloses(c) PROVE RosterInv'
    BY <1>7, <1>0 DEF PeerCloses, RosterInv, RosterExact, RoomExact, Live, Members, store, fields
<1>8. ASSUME NEW c \in Clients, CloseEvent(c) PROVE RosterInv'
    <2>1. CASE HostClosed(c)
        <3>1. RosterExact'
            <4> SUFFICES ASSUME NEW q \in Codes PROVE RoomExact(q)'
                BY DEF RosterExact
            <4>1. RoomExact(q)
                BY DEF RosterInv, RosterExact
            <4>2. \A d \in Clients : conn'[d] = "CLOSED" <=> d = c \/ conn[d] = "CLOSED"
                BY <2>1 DEF HostClosed, Evict
            <4>3. CASE q = roomCode[c]
                <5>1. host'[q] = None /\ players'[q] = Nobody /\ spectators'[q] = Nobody
                    BY <2>1, <4>3, <1>0 DEF HostClosed
                <5>2. Members(q)' = {}
                    BY <5>1 DEF Members, Nobody
                <5> QED BY <5>1, <5>2 DEF RoomExact
            <4>4. CASE q # roomCode[c]
                <5>1. /\ host'[q] = host[q] /\ players'[q] = players[q] /\ spectators'[q] = spectators[q]
                      /\ role' = role /\ roomCode' = roomCode
                    BY <2>1, <4>4, <1>0 DEF HostClosed, fields
                <5>2. \A d \in Clients : roomCode[d] = q => (conn'[d] = "CLOSED" <=> conn[d] = "CLOSED")
                    BY <4>2, <4>4
                <5>3. Members(q)' = Members(q)
                    BY <5>1 DEF Members
                <5> QED BY <4>1, <5>1, <5>2, <5>3, <1>0 DEF RoomExact, Live
            <4> QED BY <4>3, <4>4
        <3> QED BY <2>1, <3>1, <1>0 DEF HostClosed, RosterInv, fields
    <2>2. CASE GuestClosed(c)
        <3>1. RosterExact'
            <4> SUFFICES ASSUME NEW q \in Codes PROVE RoomExact(q)'
                BY DEF RosterExact
            <4>0. RoomExact(q)
                BY DEF RosterInv, RosterExact
            <4>1. /\ RoomExact(q) /\ roomCode[c] \in Codes
                  /\ host[q] # None => host[q] # c
                <5>1. roomCode[c] \in Codes
                    BY <2>2, <1>0 DEF GuestClosed, InRoom
                <5>2. host[q] # None => host[q] # c
                    BY <2>2, <4>0 DEF GuestClosed, RoomExact
                <5> QED BY <4>0, <5>1, <5>2
            <4>2. CASE q = roomCode[c]
                BY <2>2, <4>1, <4>2, <1>0 DEF GuestClosed, InRoom, RoomExact, Live, Members, fields
            <4>3. CASE q # roomCode[c]
                BY <2>2, <4>1, <4>3, <1>0 DEF GuestClosed, RoomExact, Live, Members, fields
            <4> QED BY <4>2, <4>3
        <3> QED BY <2>2, <3>1, <1>0 DEF GuestClosed, RosterInv, fields
    <2>3. CASE StrayClosed(c)
        BY <2>3, <1>0 DEF StrayClosed, Closing, InRoom, RosterInv, RosterExact,
                    RoomExact, Live, Members, store, fields
    <2> QED BY <1>8, <2>1, <2>2, <2>3 DEF CloseEvent
<1>9. CASE UNCHANGED vars
    BY <1>9 DEF vars, store, fields, RosterInv, RosterExact, RoomExact, Live, Members
<1> QED BY <1>1, <1>2, <1>3, <1>4, <1>5, <1>6, <1>7, <1>8, <1>9 DEF Next

(* Sockets of one role and fresh codes: the room store and the fields of   *)
(* the sockets agree in every reachable state.                             *)
THEOREM RosterCorrect ==
    ASSUME OneRolePerSocket, UniqueCodes
    PROVE  Spec => []RosterExact
<1>1. Init => RosterInv
    BY ConstantsAssumption
    DEF Init, RosterInv, RosterExact, RoomExact, Members, Nobody
<1>2. TypeOK /\ RosterInv /\ [Next]_vars => RosterInv'
    BY RosterStep
<1>3. RosterInv => RosterExact
    BY DEF RosterInv
<1> QED BY <1>1, <1>2, <1>3, TypeCorrect, PTL DEF Spec

(* The strengthening of GuestsReleased: a live host hosts its own room. *)
OwnRoom(c) == role[c] = "host" /\ conn[c] # "CLOSED" => host[roomCode[c]] = c

ReleasedInv ==
    /\ GuestsReleased
    /\ \A c \in Clients : conn[c] = "NEW" => roomCode[c] = None
    /\ \A c \in Clients : OwnRoom(c)

LEMMA ReleasedStep ==
    ASSUME OneRolePerSocket, UniqueCodes, TypeOK, RosterInv, ReleasedInv, [Next]_vars
    PROVE  ReleasedInv'
<1> USE ConstantsAssumption
<1>0. /\ conn \in [Clients -> Conn] /\ role \in [Clients -> Role]
      /\ roomCode \in [Clients -> Codes \cup {None}] /\ host \in [Codes -> Clients \cup {None}]
    BY DEF TypeOK
<1>1. ASSUME NEW c \in Clients, Connect(c) \/ PeerCloses(c) PROVE ReleasedInv'
    <2>1. UNCHANGED <<host, roomCode, role>>
        BY <1>1 DEF Connect, PeerCloses, store, fields
    <2>2. \A d \in Clients : /\ conn'[d] = "OPEN" => conn[d] = "OPEN" \/ conn[d] = "NEW"
                             /\ conn'[d] = "NEW" => conn[d] = "NEW"
                             /\ conn'[d] # "CLOSED" => conn[d] # "CLOSED"
        BY <1>0, <1>1 DEF Connect, PeerCloses
    <2> QED BY <2>1, <2>2 DEF ReleasedInv, GuestsReleased, InRoom, OwnRoom
<1>2. ASSUME NEW c \in Clients, NEW r \in Codes,
             Host(c, r) \/ NotFound(c, r) \/ Join(c, r) \/ Spectate(c, r)
      PROVE  ReleasedInv'
    <2>1. conn' = conn /\ conn[c] # "NEW"
        BY <1>2 DEF Host, NotFound, Join, Spectate, Turn
    <2>2. \A q \in Codes : host[q] # None => host'[q] # None
        BY <1>0, <1>2 DEF Host, NotFound, Join, Spectate, store
    <2>3. /\ \A d \in Clients : d # c => roomCode'[d] = roomCode[d]
          /\ roomCode'[c] = roomCode[c] \/ (roomCode'[c] = r /\ host'[r] # None)
        BY <1>0, <1>2 DEF Host, NotFound, Join, Spectate, Become, fields
    <2>4. ASSUME NEW d \in Clients, conn'[d] = "OPEN", roomCode'[d] # None PROVE InRoom(d)'
        <3>1. CASE roomCode'[d] = roomCode[d]
            <4>1. roomCode[d] \in Codes /\ host[roomCode[d]] # None
                BY <1>0, <2>1, <2>4, <3>1 DEF ReleasedInv, GuestsReleased, InRoom
            <4> QED BY <2>2, <2>4, <3>1, <4>1 DEF InRoom
        <3>2. CASE roomCode'[d] # roomCode[d]
            BY <2>3, <2>4, <3>2 DEF InRoom
        <3> QED BY <3>1, <3>2
    <2>5. ASSUME NEW d \in Clients PROVE OwnRoom(d)'
        <3>1. CASE Host(c, r)
            <4>1. /\ host'[r] = c /\ roomCode'[c] = r /\ r \notin issued
                  /\ \A q \in Codes : q # r => host'[q] = host[q]
                  /\ \A e \in Clients : e # c => roomCode'[e] = roomCode[e] /\ role'[e] = role[e]
                BY <1>0, <3>1 DEF Host, Become
            <4>2. d # c /\ role[d] = "host" => roomCode[d] \in Codes /\ roomCode[d] # r
                BY <1>0, <4>1 DEF RosterInv
            <4> QED BY <2>1, <4>1, <4>2 DEF OwnRoom, ReleasedInv
        <3>2. CASE ~ Host(c, r)
            <4>1. /\ host' = host
                  /\ role'[d] = "host" => role[d] = "host" /\ roomCode'[d] = roomCode[d]
                BY <1>0, <1>2, <3>2 DEF NotFound, Join, Spectate, Become, store, fields
            <4> QED BY <2>1, <4>1 DEF OwnRoom, ReleasedInv
        <3> QED BY <3>1, <3>2
    <2> QED BY <2>1, <2>3, <2>4, <2>5 DEF ReleasedInv, GuestsReleased
<1>3. ASSUME NEW c \in Clients, PlayerInput(c) \/ HostState(c) \/ StrayClosed(c) \/ GuestClosed(c)
      PROVE  ReleasedInv'
    <2>1. UNCHANGED <<host, roomCode, role>>
        BY <1>3 DEF PlayerInput, HostState, StrayClosed, GuestClosed, store, fields
    <2>2. \A d \in Clients : conn'[d] = conn[d] \/ conn'[d] = "CLOSED"
        BY <1>0, <1>3 DEF PlayerInput, HostState, StrayClosed, GuestClosed
    <2> QED BY <2>1, <2>2 DEF ReleasedInv, GuestsReleased, InRoom, OwnRoom
(* The close of a host reaches every live socket with its room code: the   *)
(* room lists them all.                                                    *)
<1>4. ASSUME NEW c \in Clients, HostClosed(c) PROVE ReleasedInv'
    <2> DEFINE r == roomCode[c]
    <2>1. /\ r \in Codes /\ host[r] # None /\ roomCode' = roomCode /\ role' = role
          /\ \A q \in Codes : q # r => host'[q] = host[q]
          /\ \A d \in Clients : /\ conn'[d] = "OPEN" => conn[d] = "OPEN" /\ d # c /\ d \notin Members(r)
                                /\ conn'[d] = "NEW" => conn[d] = "NEW"
                                /\ conn'[d] # "CLOSED" => conn[d] # "CLOSED" /\ d # c
        BY <1>0, <1>4 DEF HostClosed, InRoom, Evict, fields
    <2>2. RoomExact(r) /\ host[r] \in Clients
        BY <1>0, <2>1 DEF RosterInv, RosterExact
    <2>3. ASSUME NEW d \in Clients, conn'[d] = "OPEN", roomCode[d] = r PROVE FALSE
        <3>1. Live(d, r) /\ role[d] # "none" /\ d \notin Members(r) /\ d # c
            BY <1>0, <2>1, <2>3 DEF Live, RosterInv
        <3>2. CASE role[d] = "host"
            <4>1. host[r] = d /\ host[r] = c
                BY <1>4, <2>3, <3>1, <3>2 DEF HostClosed, Closing, Live, ReleasedInv, OwnRoom
            <4> QED BY <3>1, <4>1
        <3>3. CASE role[d] \in {"player", "spectator"}
            BY <2>1, <2>2, <3>1, <3>3 DEF RoomExact, Members
        <3> QED BY <1>0, <3>1, <3>2, <3>3 DEF Role
    <2>4. ASSUME NEW d \in Clients, role'[d] = "host", conn'[d] # "CLOSED"
          PROVE  host'[roomCode'[d]] = d
        <3>1. role[d] = "host" /\ conn[d] # "CLOSED" /\ d # c
            BY <2>1, <2>4
        <3>2. host[roomCode[d]] = d /\ host[r] = c
            BY <1>4, <3>1 DEF HostClosed, Closing, ReleasedInv, OwnRoom
        <3>3. roomCode[d] \in Codes
            BY <1>0, <3>1 DEF RosterInv
        <3> QED BY <2>1, <3>1, <3>2, <3>3
    <2> QED BY <1>0, <2>1, <2>3, <2>4 DEF ReleasedInv, GuestsReleased, InRoom, OwnRoom
<1>5. CASE UNCHANGED vars
    BY <1>5 DEF vars, store, fields, ReleasedInv, GuestsReleased, InRoom, OwnRoom
<1> QED BY <1>1, <1>2, <1>3, <1>4, <1>5 DEF Next, CloseEvent

(* Sockets of one role and fresh codes: no socket stays OPEN in a room     *)
(* that is gone.                                                           *)
THEOREM GuestsReleasedCorrect ==
    ASSUME OneRolePerSocket, UniqueCodes
    PROVE  Spec => []GuestsReleased
<1>1. Init => RosterInv /\ ReleasedInv
    BY ConstantsAssumption
    DEF Init, RosterInv, RosterExact, RoomExact, Members, Nobody, ReleasedInv, GuestsReleased, OwnRoom
<1>2. TypeOK /\ RosterInv /\ ReleasedInv /\ [Next]_vars => RosterInv' /\ ReleasedInv'
    BY RosterStep, ReleasedStep
<1>3. ReleasedInv => GuestsReleased
    BY DEF ReleasedInv
<1> QED BY <1>1, <1>2, <1>3, TypeCorrect, PTL DEF Spec

-----------------------------------------------------------------------------
Guests == [r \in Codes |-> Members(r)]
Entered == {c \in Clients : role[c] # "none"}

LEMMA RoomsStep ==
    ASSUME OneRolePerSocket, UniqueCodes, TypeOK, RosterInv, [Next]_vars
    PROVE  [Rooms!Next]_(Rooms!rooms)
<1> USE ConstantsAssumption DEF Guests, Entered
<1>1. ASSUME NEW c \in Clients, NEW r \in Codes, Host(c, r) PROVE Rooms!Open(c, r)
    <2>1. role[c] = "none" /\ r \notin issued
        BY <1>1 DEF Host, MayEnter
    <2>2. Members(r) = {}
        BY <2>1 DEF RosterInv, RosterExact, RoomExact
    <2>3. Guests' = Guests
        <3> SUFFICES ASSUME NEW q \in Codes PROVE Members(q)' = Members(q)
            OBVIOUS
        <3>1. CASE q = r
            BY <1>1, <2>2, <3>1 DEF Host, Members, Nobody, TypeOK
        <3>2. CASE q # r
            BY <1>1, <3>2 DEF Host, Members, TypeOK
        <3> QED BY <3>1, <3>2
    <2>4. Entered' = Entered \cup {c}
        BY <1>1 DEF Host, Become, TypeOK
    <2>5. c \notin Entered
        BY <2>1
    <2> QED BY <1>1, <2>1, <2>3, <2>4, <2>5 DEF Rooms!Open, Host
<1>2. ASSUME NEW c \in Clients, NEW r \in Codes, Join(c, r) \/ Spectate(c, r)
      PROVE  Rooms!Enter(c, r)
    <2>1. role[c] = "none" /\ host[r] # None
        BY <1>2 DEF Join, Spectate, MayEnter
    <2>2. Guests' = [Guests EXCEPT ![r] = @ \cup {c}]
        <3>1. ASSUME NEW q \in Codes
              PROVE  Members(q)' = IF q = r THEN Members(q) \cup {c} ELSE Members(q)
            <4>0. /\ players \in [Codes -> [Clients -> Nat]]
                  /\ spectators \in [Codes -> [Clients -> Nat]]
                BY DEF TypeOK
            <4>1. CASE Join(c, r)
                BY <4>0, <4>1, SMTT(30) DEF Join, Members
            <4>2. CASE Spectate(c, r)
                BY <4>0, <4>2, SMTT(30) DEF Spectate, Members
            <4> QED BY <1>2, <4>1, <4>2
        <3> QED BY <3>1
    <2>3. Entered' = Entered \cup {c}
        BY <1>2 DEF Join, Spectate, Become, TypeOK
    <2>4. c \notin Entered
        BY <2>1
    <2> QED BY <1>2, <2>1, <2>2, <2>3, <2>4 DEF Rooms!Enter, Join, Spectate
<1>3. ASSUME NEW c \in Clients, HostClosed(c) PROVE Rooms!Dissolve(roomCode[c])
    <2> DEFINE r == roomCode[c]
    <2>1. r \in Codes /\ host[r] # None
        BY <1>3 DEF HostClosed, InRoom, TypeOK
    <2>2. Guests' = [Guests EXCEPT ![r] = {}]
        <3>1. ASSUME NEW q \in Codes
              PROVE  Members(q)' = IF q = r THEN {} ELSE Members(q)
            BY <1>3 DEF HostClosed, Members, Nobody, TypeOK
        <3> QED BY <3>1
    <2> QED BY <1>3, <2>1, <2>2 DEF Rooms!Dissolve, HostClosed, fields
<1>4. ASSUME NEW c \in Clients, GuestClosed(c) PROVE Rooms!Leave(c, roomCode[c])
    <2> DEFINE r == roomCode[c]
    <2>1. r \in Codes /\ host[r] # None /\ Live(c, r) /\ role[c] \in {"player", "spectator"}
        BY <1>4 DEF GuestClosed, Closing, InRoom, Live, RosterInv, TypeOK, Role
    <2>2. c \in Members(r)
        BY <2>1 DEF RosterInv, RosterExact, RoomExact, Members
    <2>3. Guests' = [Guests EXCEPT ![r] = @ \ {c}]
        <3>1. ASSUME NEW q \in Codes
              PROVE  Members(q)' = IF q = r THEN Members(q) \ {c} ELSE Members(q)
            <4>1. /\ players \in [Codes -> [Clients -> Nat]]
                  /\ spectators \in [Codes -> [Clients -> Nat]]
                BY DEF TypeOK
            <4> QED BY <1>4, <2>1, <4>1, SMTT(30) DEF GuestClosed, Members
        <3> QED BY <3>1
    <2> QED BY <1>4, <2>1, <2>2, <2>3 DEF Rooms!Leave, GuestClosed, fields
<1>5. ASSUME NEW c \in Clients,
             \/ Connect(c) \/ PlayerInput(c) \/ HostState(c) \/ PeerCloses(c) \/ StrayClosed(c)
             \/ \E r \in Codes : NotFound(c, r)
      PROVE  UNCHANGED Rooms!rooms
    <2>1. UNCHANGED <<store, fields>>
        BY <1>5 DEF Connect, PlayerInput, HostState, PeerCloses, StrayClosed, NotFound
    <2> QED BY <2>1 DEF Rooms!rooms, store, fields, Members
<1>6. CASE UNCHANGED vars
    BY <1>6 DEF vars, store, fields, Rooms!rooms, Members
<1>7. ASSUME NEW c \in Clients, HostClosed(c) \/ GuestClosed(c)
      PROVE  roomCode[c] \in Codes
    BY <1>7 DEF HostClosed, GuestClosed, InRoom, TypeOK
<1> QED BY <1>1, <1>2, <1>3, <1>4, <1>5, <1>6, <1>7 DEF Next, CloseEvent, Rooms!Next

(* Sockets of one role and fresh codes: the relay implements the room      *)
(* service.                                                                *)
THEOREM RoomsImplemented ==
    ASSUME OneRolePerSocket, UniqueCodes
    PROVE  Spec => ImplementsRooms
<1>1. Init => Rooms!Init
    BY DEF Init, Rooms!Init, Members, Nobody
<1>2. TypeOK /\ RosterInv /\ [Next]_vars => [Rooms!Next]_(Rooms!rooms)
    BY RoomsStep
<1>3. Init => RosterInv
    BY ConstantsAssumption
    DEF Init, RosterInv, RosterExact, RoomExact, Members, Nobody
<1>4. TypeOK /\ RosterInv /\ [Next]_vars => RosterInv'
    BY RosterStep
<1> QED BY <1>1, <1>2, <1>3, <1>4, TypeCorrect, PTL DEF Spec, ImplementsRooms, Rooms!Spec

-----------------------------------------------------------------------------
(* A socket whose close handler ran is in neither list of the room it was  *)
(* last in, even when it hosted or entered other rooms before (lines       *)
(* 84-95): what is left of RosterExact without its assumptions.            *)
ClosedIsForgotten ==
    \A c \in Clients :
        (conn[c] = "CLOSED" /\ roomCode[c] # None) => c \notin Members(roomCode[c])

(* The strengthening: a room that is not open lists nobody.                *)
ForgottenInv ==
    /\ ClosedIsForgotten
    /\ \A r \in Codes : host[r] = None => Members(r) = {}

Listed(list, r, c) == list[r][c] > 0

LEMMA ForgottenStep ==
    ASSUME TypeOK, ForgottenInv, [Next]_vars
    PROVE  ForgottenInv'
<1> USE ConstantsAssumption
<1>0. /\ conn \in [Clients -> Conn] /\ roomCode \in [Clients -> Codes \cup {None}]
      /\ host \in [Codes -> Clients \cup {None}]
      /\ players \in [Codes -> [Clients -> Nat]]
      /\ spectators \in [Codes -> [Clients -> Nat]]
    BY DEF TypeOK
<1>1. ASSUME NEW c \in Clients, Connect(c) \/ PeerCloses(c) PROVE ForgottenInv'
    BY <1>1, <1>0 DEF Connect, PeerCloses, ForgottenInv, ClosedIsForgotten, Members, store, fields
<1>2. ASSUME NEW c \in Clients, NEW r \in Codes, Host(c, r) PROVE ForgottenInv'
    <2>1. /\ conn' = conn /\ conn[c] # "CLOSED" /\ host'[r] = c
          /\ roomCode' = [roomCode EXCEPT ![c] = r] /\ \A q \in Codes : q # r => host'[q] = host[q]
        BY <1>2, <1>0 DEF Host, Turn, Become
    <2>2. \A q \in Codes, d \in Clients :
              Listed(players, q, d)' \/ Listed(spectators, q, d)' =>
                  q # r /\ (Listed(players, q, d) \/ Listed(spectators, q, d))
        BY <1>2, <1>0 DEF Host, Listed, Nobody
    <2> QED BY <2>1, <2>2, <1>0 DEF ForgottenInv, ClosedIsForgotten, Members, Listed
<1>3. ASSUME NEW c \in Clients,
             PlayerInput(c) \/ HostState(c) \/ \E r \in Codes : NotFound(c, r)
      PROVE  ForgottenInv'
    BY <1>3 DEF PlayerInput, HostState, NotFound, ForgottenInv, ClosedIsForgotten, Members,
                store, fields
<1>4. ASSUME NEW c \in Clients, NEW r \in Codes, Join(c, r) \/ Spectate(c, r)
      PROVE  ForgottenInv'
    <2>1. /\ conn' = conn /\ conn[c] # "CLOSED" /\ host[r] # None /\ host' = host
          /\ roomCode' = [roomCode EXCEPT ![c] = r]
        BY <1>4 DEF Join, Spectate, Turn, Become
    <2>2. \A q \in Codes, d \in Clients :
              Listed(players, q, d)' \/ Listed(spectators, q, d)' =>
                  Listed(players, q, d) \/ Listed(spectators, q, d) \/ (q = r /\ d = c)
        <3>1. CASE Join(c, r)
            BY <1>0, <3>1 DEF Join, Listed
        <3>2. CASE Spectate(c, r)
            BY <1>0, <3>2 DEF Spectate, Listed
        <3> QED BY <1>4, <3>1, <3>2
    <2>3. ClosedIsForgotten'
        <3> SUFFICES ASSUME NEW d \in Clients, conn'[d] = "CLOSED", roomCode'[d] # None
                     PROVE  ~ (Listed(players', roomCode'[d], d) \/ Listed(spectators', roomCode'[d], d))
            BY DEF ClosedIsForgotten, Members, Listed
        <3>1. d # c /\ roomCode'[d] = roomCode[d] /\ roomCode[d] \in Codes
            BY <1>0, <2>1
        <3>2. ~ (Listed(players, roomCode[d], d) \/ Listed(spectators, roomCode[d], d))
            BY <2>1, <3>1 DEF ForgottenInv, ClosedIsForgotten, Members, Listed
        <3> QED BY <2>2, <3>1, <3>2 DEF Listed
    <2>4. ASSUME NEW q \in Codes, host'[q] = None PROVE Members(q)' = {}
        <3>1. \A d \in Clients : ~ (Listed(players, q, d) \/ Listed(spectators, q, d))
            BY <2>1, <2>4 DEF ForgottenInv, Members, Listed
        <3> QED BY <2>1, <2>2, <2>4, <3>1 DEF Members, Listed
    <2> QED BY <2>3, <2>4 DEF ForgottenInv
<1>5. ASSUME NEW c \in Clients, HostClosed(c) PROVE ForgottenInv'
    <2> DEFINE r == roomCode[c]
    <2>1. /\ r \in Codes /\ fields' = fields
          /\ \A d \in Clients : conn'[d] = "CLOSED" => d = c \/ conn[d] = "CLOSED"
        BY <1>5, <1>0 DEF HostClosed, InRoom, Evict
    <2>2. /\ \A q \in Codes, d \in Clients :
              Listed(players, q, d)' \/ Listed(spectators, q, d)' =>
                  q # r /\ (Listed(players, q, d) \/ Listed(spectators, q, d))
          /\ \A q \in Codes : q # r => host'[q] = host[q]
        BY <1>5, <1>0 DEF HostClosed, Listed, Nobody
    <2> QED BY <2>1, <2>2, <1>0 DEF ForgottenInv, ClosedIsForgotten, fields, Members, Listed
<1>6. ASSUME NEW c \in Clients, GuestClosed(c) PROVE ForgottenInv'
    <2> DEFINE r == roomCode[c]
    <2>1. /\ r \in Codes /\ fields' = fields /\ host' = host
          /\ \A d \in Clients : conn'[d] = "CLOSED" => d = c \/ conn[d] = "CLOSED"
        BY <1>6, <1>0 DEF GuestClosed, InRoom
    <2>2. \A q \in Codes, d \in Clients :
              Listed(players, q, d)' \/ Listed(spectators, q, d)' =>
                  ~ (q = r /\ d = c) /\ (Listed(players, q, d) \/ Listed(spectators, q, d))
        BY <1>6, <2>1, <1>0 DEF GuestClosed, Listed
    <2> QED BY <2>1, <2>2, <1>0 DEF ForgottenInv, ClosedIsForgotten, fields, Members, Listed
<1>7. ASSUME NEW c \in Clients, StrayClosed(c) PROVE ForgottenInv'
    BY <1>7, <1>0 DEF StrayClosed, InRoom, ForgottenInv, ClosedIsForgotten, Members, store, fields
<1>8. CASE UNCHANGED vars
    BY <1>8 DEF vars, store, fields, ForgottenInv, ClosedIsForgotten, Members
<1> QED BY <1>1, <1>2, <1>3, <1>4, <1>5, <1>6, <1>7, <1>8 DEF Next, CloseEvent

(* No room lists a closed socket as long as the socket was last in it, for *)
(* sockets of any roles and with no assumption on the codes.               *)
THEOREM ClosedForgotten == Spec => []ClosedIsForgotten
<1>1. Init => ForgottenInv
    BY DEF Init, ForgottenInv, ClosedIsForgotten, Members, Nobody
<1>2. TypeOK /\ ForgottenInv /\ [Next]_vars => ForgottenInv'
    BY ForgottenStep
<1>3. ForgottenInv => ClosedIsForgotten
    BY DEF ForgottenInv
<1> QED BY <1>1, <1>2, <1>3, TypeCorrect, PTL DEF Spec

-----------------------------------------------------------------------------
(* One of the first k frames of s announces the player c. *)
Announcement(s, c, k) == \E j \in 1 .. k : s[j] = [type |-> "player_joined", id |-> c]

(* The strengthening of InputAnnounced: an OPEN host has been told of      *)
(* every player whose room it hosts.                                       *)
AnnouncedInv ==
    /\ InputAnnounced
    /\ \A c \in Clients : roomCode[c] \in issued \cup {None}
    /\ \A r \in Codes : host[r] # None => conn[host[r]] # "NEW" /\ r \in issued
    /\ \A c \in Clients :
          (InRoom(c) /\ role[c] = "player") =>
              LET h == host[roomCode[c]]
              IN conn[h] = "OPEN" => Announcement(outbox[h], c, Len(outbox[h]))

LEMMA AnnouncementKept ==
    ASSUME NEW s \in Seq(Frame), NEW t \in Seq(Frame), NEW c,
           NEW k \in 0 .. Len(s), NEW m \in Nat, k <= m,
           Announcement(s, c, k),
           \A j \in 1 .. Len(s) : t[j] = s[j]
    PROVE  Announcement(t, c, m)
<1>1. PICK j \in 1 .. k : s[j] = [type |-> "player_joined", id |-> c]
    BY DEF Announcement
<1>2. j \in 1 .. m /\ j \in 1 .. Len(s)
    OBVIOUS
<1> QED BY <1>1, <1>2 DEF Announcement

(* What a step must do to outbox for InputAnnounced to hold after it. *)
LEMMA AnnouncedStep ==
    ASSUME TypeOK, TypeOK', AnnouncedInv,
           \A d \in Clients :
               /\ Len(outbox[d]) <= Len(outbox'[d])
               /\ \A j \in 1 .. Len(outbox[d]) : outbox'[d][j] = outbox[d][j]
               /\ \A j \in Len(outbox[d]) + 1 .. Len(outbox'[d]) :
                    outbox'[d][j].type = "input" =>
                        Announcement(outbox[d], outbox'[d][j].id, Len(outbox[d]))
    PROVE  /\ InputAnnounced'
           /\ \A d, c \in Clients : Announcement(outbox[d], c, Len(outbox[d])) =>
                                       Announcement(outbox'[d], c, Len(outbox'[d]))
<1>1. \A d \in Clients : outbox[d] \in Seq(Frame) /\ outbox'[d] \in Seq(Frame)
    BY DEF TypeOK
<1>2. ASSUME NEW h \in Clients, NEW i \in 1 .. Len(outbox'[h]), outbox'[h][i].type = "input"
      PROVE  Announcement(outbox'[h], outbox'[h][i].id, i - 1)
    <2>1. CASE i <= Len(outbox[h])
        <3>1. i \in 1 .. Len(outbox[h]) /\ outbox'[h][i] = outbox[h][i]
            BY <1>1, <2>1
        <3>2. Announcement(outbox[h], outbox[h][i].id, i - 1)
            BY <1>2, <3>1 DEF AnnouncedInv, InputAnnounced, Announcement
        <3>3. i - 1 \in 0 .. Len(outbox[h]) /\ i - 1 \in Nat /\ i - 1 <= i - 1
            BY <1>1, <3>1
        <3> QED BY <1>1, <3>1, <3>2, <3>3, AnnouncementKept
    <2>2. CASE ~ (i <= Len(outbox[h]))
        <3>1. i \in Len(outbox[h]) + 1 .. Len(outbox'[h])
            BY <1>1, <2>2
        <3>2. Announcement(outbox[h], outbox'[h][i].id, Len(outbox[h]))
            BY <1>2, <3>1
        <3>3. Len(outbox[h]) \in 0 .. Len(outbox[h]) /\ i - 1 \in Nat /\ Len(outbox[h]) <= i - 1
            BY <1>1, <3>1
        <3> QED BY <1>1, <3>2, <3>3, AnnouncementKept
    <2> QED BY <2>1, <2>2
<1>3. ASSUME NEW d \in Clients, NEW c \in Clients, Announcement(outbox[d], c, Len(outbox[d]))
      PROVE  Announcement(outbox'[d], c, Len(outbox'[d]))
    <2>1. Len(outbox[d]) \in 0 .. Len(outbox[d]) /\ Len(outbox'[d]) \in Nat
        BY <1>1
    <2> QED BY <1>1, <1>3, <2>1, AnnouncementKept
<1> QED BY <1>2, <1>3 DEF InputAnnounced, Announcement

LEMMA AnnouncedNext ==
    ASSUME UniqueCodes, TypeOK, TypeOK', AnnouncedInv, [Next]_vars
    PROVE  AnnouncedInv'
<1> USE ConstantsAssumption
<1>0. /\ conn \in [Clients -> Conn] /\ roomCode \in [Clients -> Codes \cup {None}]
      /\ host \in [Codes -> Clients \cup {None}] /\ role \in [Clients -> Role]
      /\ issued \in SUBSET Codes /\ outbox \in [Clients -> Seq(Frame)]
      /\ \A d \in Clients : outbox[d] \in Seq(Frame) /\ outbox'[d] \in Seq(Frame)
    BY DEF TypeOK
<1>1. ASSUME NEW c \in Clients, Connect(c) \/ PeerCloses(c) \/ CloseEvent(c)
      PROVE  AnnouncedInv'
    <2>1. outbox' = outbox /\ fields' = fields /\ issued' = issued
        BY <1>1 DEF Connect, PeerCloses, CloseEvent, HostClosed, GuestClosed, StrayClosed, store
    <2>2. \A d \in Clients : /\ conn'[d] = "OPEN" => conn[d] = "OPEN" \/ conn[d] = "NEW"
                             /\ conn'[d] = "NEW" => conn[d] = "NEW"
        BY <1>0, <1>1 DEF Connect, PeerCloses, CloseEvent, HostClosed, GuestClosed, StrayClosed,
                          Evict, Closing
    <2>3. \A r \in Codes : host'[r] = host[r] \/ host'[r] = None
        BY <1>0, <1>1 DEF Connect, PeerCloses, CloseEvent, HostClosed, GuestClosed, StrayClosed, store
    <2>4. InputAnnounced'
        BY <2>1 DEF AnnouncedInv, InputAnnounced
    <2>5. \A d \in Clients : roomCode'[d] \in issued' \cup {None}
        BY <2>1 DEF AnnouncedInv, fields
    <2>6. \A r \in Codes : host'[r] # None => conn'[host'[r]] # "NEW" /\ r \in issued'
        BY <1>0, <2>1, <2>2, <2>3 DEF AnnouncedInv
    <2>7. ASSUME NEW d \in Clients, InRoom(d)', role'[d] = "player", conn'[host'[roomCode'[d]]] = "OPEN"
          PROVE  Announcement(outbox'[host'[roomCode'[d]]], d, Len(outbox'[host'[roomCode'[d]]]))
        <3>1. /\ roomCode'[d] = roomCode[d] /\ role[d] = "player" /\ roomCode[d] \in Codes
              /\ host'[roomCode[d]] = host[roomCode[d]] /\ InRoom(d) /\ host[roomCode[d]] \in Clients
            BY <1>0, <2>1, <2>3, <2>7 DEF InRoom, fields
        <3>2. host'[roomCode'[d]] = host[roomCode[d]] /\ conn[host[roomCode[d]]] # "NEW"
            BY <3>1 DEF AnnouncedInv, InRoom
        <3>3. conn[host[roomCode[d]]] = "OPEN"
            <4>1. conn'[host[roomCode[d]]] = "OPEN"
                BY <2>7, <3>2
            <4>2. host[roomCode[d]] \in Clients
                BY <3>1
            <4> QED BY <2>2, <3>2, <4>1, <4>2
        <3> QED BY <2>1, <3>1, <3>2, <3>3 DEF AnnouncedInv
    <2> QED BY <2>4, <2>5, <2>6, <2>7 DEF AnnouncedInv
<1>2. ASSUME NEW c \in Clients, NEW r \in Codes,
             Host(c, r) \/ NotFound(c, r) \/ Join(c, r) \/ Spectate(c, r)
      PROVE  AnnouncedInv'
    <2>1. PICK f \in Frame, g \in Frame, box \in [Clients -> Seq(Frame)] :
            /\ IF Join(c, r)
               THEN box = Send(outbox, host[r], g) /\ g = [type |-> "player_joined", id |-> c]
               ELSE box = outbox
            /\ outbox' = Send(box, c, f)
            /\ f.type # "input"
        <3>1. CASE Join(c, r)
            <4> DEFINE f == [type |-> "joined", code |-> r]
                       g == [type |-> "player_joined", id |-> c]
            <4>1. f \in Frame /\ g \in Frame /\ host[r] \in Clients
                BY <1>0, <3>1 DEF Frame, Join
            <4>2. Send(outbox, host[r], g) \in [Clients -> Seq(Frame)]
                BY <1>0, <4>1, SendType
            <4> QED BY <3>1, <4>1, <4>2 DEF Join
        <3>2. CASE ~ Join(c, r)
            <4> DEFINE f == IF Host(c, r) THEN [type |-> "room_created", code |-> r]
                            ELSE IF Spectate(c, r) THEN [type |-> "spectating", code |-> r]
                            ELSE [type |-> "error"]
            <4>1. f \in Frame /\ f.type # "input"
                BY DEF Frame
            <4>2. outbox' = Send(outbox, c, f)
                <5>1. CASE Host(c, r)
                    BY <5>1 DEF Host
                <5>2. CASE Spectate(c, r) /\ ~ Host(c, r)
                    BY <5>2 DEF Spectate
                <5>3. CASE NotFound(c, r) /\ ~ Host(c, r) /\ ~ Spectate(c, r)
                    BY <5>3 DEF NotFound
                <5> QED BY <1>2, <3>2, <5>1, <5>2, <5>3
            <4> HIDE DEF f
            <4> QED BY <1>0, <3>2, <4>1, <4>2
        <3> QED BY <3>1, <3>2
    <2>2. \A e \in Clients :
            /\ Len(box[e]) <= Len(outbox'[e])
            /\ \A j \in 1 .. Len(box[e]) : outbox'[e][j] = box[e][j]
            /\ \A j \in Len(box[e]) + 1 .. Len(outbox'[e]) : outbox'[e][j] = f
        <3> TAKE e \in Clients
        <3>1. outbox'[e] = Send(box, c, f)[e]
            BY <2>1
        <3>2. /\ Len(box[e]) <= Len(Send(box, c, f)[e])
              /\ \A j \in 1 .. Len(box[e]) : Send(box, c, f)[e][j] = box[e][j]
              /\ \A j \in Len(box[e]) + 1 .. Len(Send(box, c, f)[e]) : Send(box, c, f)[e][j] = f
            BY SendPrefix
        <3> QED BY <3>1, <3>2
    <2>3. ASSUME NEW e \in Clients
          PROVE  /\ box[e] \in Seq(Frame) /\ Len(outbox[e]) <= Len(box[e])
                 /\ \A j \in 1 .. Len(outbox[e]) : box[e][j] = outbox[e][j]
                 /\ \A j \in Len(outbox[e]) + 1 .. Len(box[e]) : box[e][j].type = "player_joined"
                 /\ (Join(c, r) /\ e = host[r] /\ conn[e] = "OPEN") =>
                       Announcement(box[e], c, Len(box[e]))
        <3>1. CASE Join(c, r)
            <4>1. host[r] \in Clients
                BY <1>0, <3>1 DEF Join
            <4>2. /\ box[e] \in Seq(Frame) /\ Len(outbox[e]) <= Len(box[e])
                  /\ \A j \in 1 .. Len(outbox[e]) : box[e][j] = outbox[e][j]
                  /\ \A j \in Len(outbox[e]) + 1 .. Len(box[e]) : box[e][j] = g
                  /\ (e = host[r] /\ conn[e] = "OPEN") => Len(box[e]) = Len(outbox[e]) + 1
                <5>1. box[e] = Send(outbox, host[r], g)[e]
                    BY <2>1, <3>1
                <5>2. LET t == Send(outbox, host[r], g)[e]
                      IN /\ t \in Seq(Frame) /\ Len(outbox[e]) <= Len(t)
                         /\ \A j \in 1 .. Len(outbox[e]) : t[j] = outbox[e][j]
                         /\ \A j \in Len(outbox[e]) + 1 .. Len(t) : t[j] = g
                         /\ (e = host[r] /\ conn[host[r]] = "OPEN") => Len(t) = Len(outbox[e]) + 1
                    BY <4>1, SendPrefixOutbox
                <5> QED BY <5>1, <5>2
            <4>3. g = [type |-> "player_joined", id |-> c] /\ g.type = "player_joined"
                BY <2>1, <3>1
            <4>4. (e = host[r] /\ conn[e] = "OPEN") => Announcement(box[e], c, Len(box[e]))
                <5> HAVE e = host[r] /\ conn[e] = "OPEN"
                <5>1. Len(box[e]) \in 1 .. Len(box[e]) /\ Len(box[e]) \in Len(outbox[e]) + 1 .. Len(box[e])
                    BY <1>0, <4>2
                <5>2. box[e][Len(box[e])] = [type |-> "player_joined", id |-> c]
                    BY <4>2, <4>3, <5>1
                <5> QED BY <5>1, <5>2 DEF Announcement
            <4> QED BY <4>2, <4>3, <4>4
        <3>2. CASE ~ Join(c, r)
            <4>1. box[e] = outbox[e] /\ outbox[e] \in Seq(Frame)
                BY <1>0, <2>1, <3>2
            <4>2. Len(outbox[e]) \in Nat /\ Len(outbox[e]) + 1 .. Len(outbox[e]) = {}
                BY <4>1
            <4> QED BY <3>2, <4>1, <4>2
        <3> QED BY <3>1, <3>2
    <2>4. ASSUME NEW e \in Clients
          PROVE  /\ Len(outbox[e]) <= Len(outbox'[e])
                 /\ \A j \in 1 .. Len(outbox[e]) : outbox'[e][j] = outbox[e][j]
                 /\ \A j \in Len(outbox[e]) + 1 .. Len(outbox'[e]) : outbox'[e][j].type # "input"
        <3>1. Len(outbox[e]) \in Nat /\ Len(box[e]) \in Nat /\ Len(outbox'[e]) \in Nat
            BY <1>0, <2>3
        <3>2. ASSUME NEW j \in Len(outbox[e]) + 1 .. Len(outbox'[e])
              PROVE  outbox'[e][j].type # "input"
            <4>1. CASE j <= Len(box[e])
                <5>1. j \in 1 .. Len(box[e]) /\ j \in Len(outbox[e]) + 1 .. Len(box[e])
                    BY <3>1, <4>1
                <5> QED BY <2>2, <2>3, <5>1
            <4>2. CASE ~ (j <= Len(box[e]))
                <5>1. j \in Len(box[e]) + 1 .. Len(outbox'[e])
                    BY <3>1, <4>2
                <5> QED BY <2>1, <2>2, <5>1
            <4> QED BY <4>1, <4>2
        <3>3. ASSUME NEW j \in 1 .. Len(outbox[e]) PROVE outbox'[e][j] = outbox[e][j]
            <4>1. j \in 1 .. Len(box[e])
                BY <2>3, <3>1
            <4> QED BY <2>2, <2>3, <4>1
        <3>4. Len(outbox[e]) <= Len(outbox'[e])
            BY <2>2, <2>3, <3>1
        <3> QED BY <3>2, <3>3, <3>4
    <2>5. /\ InputAnnounced'
          /\ \A e, d \in Clients : Announcement(outbox[e], d, Len(outbox[e])) =>
                                     Announcement(outbox'[e], d, Len(outbox'[e]))
        BY <2>4, AnnouncedStep
    <2>6. /\ conn' = conn /\ conn[c] # "NEW" /\ r # None
          /\ \A d \in Clients : d # c => roomCode'[d] = roomCode[d] /\ role'[d] = role[d]
        BY <1>0, <1>2 DEF Host, NotFound, Join, Spectate, Turn, Become, fields
    <2>7. CASE Host(c, r)
        <3>1. /\ r \notin issued /\ issued' = issued \cup {r} /\ roomCode'[c] = r /\ role'[c] = "host"
              /\ host'[r] = c /\ \A q \in Codes : q # r => host'[q] = host[q]
            BY <1>0, <2>7 DEF Host, Become
        <3>2. \A d \in Clients : roomCode'[d] \in issued' \cup {None}
            BY <2>6, <3>1 DEF AnnouncedInv
        <3>3. \A q \in Codes : host'[q] # None => conn'[host'[q]] # "NEW" /\ q \in issued'
            BY <2>6, <3>1 DEF AnnouncedInv
        <3>4. ASSUME NEW d \in Clients, InRoom(d)', role'[d] = "player",
                     conn'[host'[roomCode'[d]]] = "OPEN"
              PROVE  Announcement(outbox'[host'[roomCode'[d]]], d, Len(outbox'[host'[roomCode'[d]]]))
            <4>1. /\ d # c /\ roomCode'[d] = roomCode[d] /\ role[d] = "player"
                  /\ roomCode[d] \in Codes /\ roomCode[d] # r
                BY <1>0, <2>6, <3>1, <3>4 DEF AnnouncedInv, InRoom
            <4>2. host'[roomCode[d]] = host[roomCode[d]] /\ host[roomCode[d]] \in Clients /\ InRoom(d)
                BY <1>0, <3>1, <3>4, <4>1 DEF InRoom
            <4> QED BY <2>5, <2>6, <3>4, <4>1, <4>2 DEF AnnouncedInv
        <3> QED BY <2>5, <3>2, <3>3, <3>4 DEF AnnouncedInv
    <2>8. CASE ~ Host(c, r)
        <3>1. host' = host /\ issued' = issued
            BY <1>2, <2>8 DEF NotFound, Join, Spectate, store
        <3>2. \/ NotFound(c, r) /\ roomCode'[c] = roomCode[c] /\ role'[c] = role[c]
              \/ Join(c, r) /\ roomCode'[c] = r /\ host[r] # None
              \/ Spectate(c, r) /\ roomCode'[c] = r /\ host[r] # None /\ role'[c] = "spectator"
            BY <1>0, <1>2, <2>8 DEF NotFound, Join, Spectate, Become, fields
        <3>3. \A d \in Clients : roomCode'[d] \in issued' \cup {None}
            BY <2>6, <3>1, <3>2 DEF AnnouncedInv
        <3>4. \A q \in Codes : host'[q] # None => conn'[host'[q]] # "NEW" /\ q \in issued'
            BY <2>6, <3>1 DEF AnnouncedInv
        <3>5. ASSUME NEW d \in Clients, InRoom(d)', role'[d] = "player",
                     conn'[host'[roomCode'[d]]] = "OPEN"
              PROVE  Announcement(outbox'[host'[roomCode'[d]]], d, Len(outbox'[host'[roomCode'[d]]]))
            <4> DEFINE h == host[roomCode'[d]]
            <4>1. h \in Clients /\ conn[h] = "OPEN" /\ h = host'[roomCode'[d]]
                <5>1. roomCode'[d] \in Codes /\ host[roomCode'[d]] # None
                    <6>1. roomCode'[d] \in Codes \cup {None}
                        BY DEF TypeOK
                    <6> QED BY <3>1, <3>5, <6>1 DEF InRoom
                <5> QED BY <1>0, <2>6, <3>1, <3>5, <5>1
            <4>2. CASE d = c /\ Join(c, r)
                <5>1. h = host[r]
                    BY <2>8, <3>2, <4>2 DEF Join, Become, TypeOK
                <5>2. Announcement(box[h], c, Len(box[h]))
                    BY <2>3, <4>1, <4>2, <5>1
                <5>3. /\ Len(box[h]) \in 0 .. Len(box[h]) /\ Len(outbox'[h]) \in Nat
                      /\ Len(box[h]) <= Len(outbox'[h]) /\ box[h] \in Seq(Frame)
                      /\ \A j \in 1 .. Len(box[h]) : outbox'[h][j] = box[h][j]
                    <6>1. box[h] \in Seq(Frame) /\ outbox'[h] \in Seq(Frame)
                        BY <1>0, <2>3, <4>1
                    <6> HIDE DEF h
                    <6>2. /\ Len(box[h]) <= Len(outbox'[h])
                          /\ \A j \in 1 .. Len(box[h]) : outbox'[h][j] = box[h][j]
                        BY <2>2, <4>1
                    <6> QED BY <6>1, <6>2
                <5> HIDE DEF h
                <5>4. Announcement(outbox'[h], c, Len(outbox'[h]))
                    <6>1. outbox'[h] \in Seq(Frame)
                        BY <1>0, <4>1
                    <6> QED BY <5>2, <5>3, <6>1, AnnouncementKept
                <5> QED BY <4>1, <4>2, <5>4
            <4>3. CASE ~ (d = c /\ Join(c, r))
                <5>1. roomCode'[d] = roomCode[d] /\ role[d] = "player"
                    BY <2>6, <3>2, <3>5, <4>3
                <5>2. InRoom(d)
                    BY <3>1, <3>5, <5>1 DEF InRoom
                <5> QED BY <2>5, <3>5, <4>1, <5>1, <5>2 DEF AnnouncedInv
            <4> QED BY <4>2, <4>3
        <3> QED BY <2>5, <3>3, <3>4, <3>5 DEF AnnouncedInv
    <2> QED BY <2>7, <2>8
<1>3. ASSUME NEW c \in Clients, PlayerInput(c) \/ HostState(c)
      PROVE  AnnouncedInv'
    <2>1. UNCHANGED <<conn, store, fields>>
        BY <1>3 DEF PlayerInput, HostState
    <2>2. ASSUME NEW e \in Clients
          PROVE  /\ Len(outbox[e]) <= Len(outbox'[e])
                 /\ \A j \in 1 .. Len(outbox[e]) : outbox'[e][j] = outbox[e][j]
                 /\ \A j \in Len(outbox[e]) + 1 .. Len(outbox'[e]) :
                       outbox'[e][j].type = "input" =>
                           Announcement(outbox[e], outbox'[e][j].id, Len(outbox[e]))
        <3>1. CASE PlayerInput(c)
            <4> DEFINE f == [type |-> "input", id |-> c, n |-> turns'[c]]
                       h == host[roomCode[c]]
            <4>1. f \in Frame /\ h \in Clients /\ InRoom(c) /\ role[c] = "player"
                BY <1>0, <3>1 DEF PlayerInput, InRoom, Turn, TypeOK, Frame
            <4>2. outbox' = Send(outbox, h, f) /\ f.id = c
                BY <3>1 DEF PlayerInput
            <4>3. e # h \/ conn[h] # "OPEN" => outbox'[e] = outbox[e]
                BY <1>0, <4>1, <4>2 DEF Send
            <4>4. e = h /\ conn[h] = "OPEN" => Announcement(outbox[e], c, Len(outbox[e]))
                BY <4>1 DEF AnnouncedInv
            <4> HIDE DEF f, h
            <4>5. /\ Len(outbox[e]) <= Len(outbox'[e])
                  /\ \A j \in 1 .. Len(outbox[e]) : outbox'[e][j] = outbox[e][j]
                  /\ \A j \in Len(outbox[e]) + 1 .. Len(outbox'[e]) : outbox'[e][j] = f
                BY <4>1, <4>2, SendPrefixOutbox
            <4>6. CASE e = h /\ conn[h] = "OPEN"
                BY <4>2, <4>4, <4>5, <4>6
            <4>7. CASE ~ (e = h /\ conn[h] = "OPEN")
                <5>1. outbox'[e] = outbox[e] /\ Len(outbox[e]) + 1 .. Len(outbox[e]) = {}
                    BY <1>0, <4>3, <4>7
                <5> QED BY <4>5, <5>1
            <4> QED BY <4>6, <4>7
        <3>2. CASE HostState(c)
            <4> DEFINE r == roomCode[c]
                       entries == [d \in Clients |-> players[r][d] + spectators[r][d]]
                       f == [type |-> "state", id |-> c, n |-> turns'[c], code |-> r]
            <4>1. f \in Frame /\ entries \in [Clients -> Nat] /\ f.type # "input"
                <5>1. r \in Codes /\ turns'[c] \in Nat
                    BY <1>0, <3>2 DEF HostState, InRoom, TypeOK
                <5>2. players[r] \in [Clients -> Nat] /\ spectators[r] \in [Clients -> Nat]
                    BY <5>1 DEF TypeOK
                <5>3. entries \in [Clients -> Nat]
                    BY <5>2
                <5> HIDE DEF entries
                <5> QED BY <5>1, <5>3 DEF Frame
            <4>2. outbox' = Broadcast(outbox, entries, f)
                BY <3>2 DEF HostState
            <4> HIDE DEF f, entries
            <4> QED BY <4>1, <4>2, BroadcastPrefix
        <3> QED BY <1>3, <3>1, <3>2
    <2>3. /\ InputAnnounced'
          /\ \A e, d \in Clients : Announcement(outbox[e], d, Len(outbox[e])) =>
                                     Announcement(outbox'[e], d, Len(outbox'[e]))
        BY <2>2, AnnouncedStep
    <2>4. ASSUME NEW d \in Clients, InRoom(d) PROVE host[roomCode[d]] \in Clients
        BY <1>0, <2>4 DEF InRoom
    <2> QED BY <2>1, <2>3, <2>4 DEF AnnouncedInv, InRoom, store, fields
<1>4. CASE UNCHANGED vars
    BY <1>4 DEF vars, store, fields, AnnouncedInv, InputAnnounced, InRoom, Announcement
<1> QED BY <1>1, <1>2, <1>3, <1>4 DEF Next

(* Fresh codes: a host hears an input only from a player it was told of,   *)
(* whatever rooms the sockets host and enter besides.                      *)
THEOREM InputAnnouncedCorrect ==
    ASSUME UniqueCodes
    PROVE  Spec => []InputAnnounced
<1>1. Init => AnnouncedInv
    BY DEF Init, AnnouncedInv, InputAnnounced, InRoom
<1>2. TypeOK /\ TypeOK' /\ AnnouncedInv /\ [Next]_vars => AnnouncedInv'
    BY AnnouncedNext
<1>3. AnnouncedInv => InputAnnounced
    BY DEF AnnouncedInv
<1> QED BY <1>1, <1>2, <1>3, TypeCorrect, PTL DEF Spec

-----------------------------------------------------------------------------
(* The strengthening of StateStream: whoever has received a state is a     *)
(* guest, and while it is connected its room is that of the sender.        *)
HeardFromHost(c) ==
    \A i \in States(c) :
        /\ role[c] \in {"player", "spectator"}
        /\ conn[c] = "OPEN" => host[roomCode[c]] = outbox[c][i].id

StreamInv == StateStream /\ \A c \in Clients : HeardFromHost(c)

(* A step that sends c no state. *)
NoneNew(c) ==
    /\ States(c)' = States(c)
    /\ \A i \in States(c) : outbox'[c][i] = outbox[c][i]

LEMMA FrameKinds ==
    ASSUME TypeOK, NEW c \in Clients, NEW i \in DOMAIN outbox[c]
    PROVE  outbox[c][i] \in Frame
BY DEF TypeOK

LEMMA StateFrame ==
    ASSUME TypeOK, NEW c \in Clients, NEW i \in States(c)
    PROVE  i \in Nat /\ i \in 1 .. Len(outbox[c]) /\ outbox[c][i].id \in Clients /\ outbox[c][i].n \in Nat
<1>1. i \in DOMAIN outbox[c] /\ outbox[c] \in Seq(Frame) /\ outbox[c][i].type = "state"
    BY DEF States, TypeOK
<1>2. outbox[c][i] \in Frame
    BY <1>1, FrameKinds
<1>3. outbox[c][i] \in [type : {"state"}, id : Clients, n : Nat, code : Codes]
    BY <1>1, <1>2 DEF Frame
<1> QED BY <1>1, <1>3

LEMMA OtherFrames ==
    ASSUME TypeOK, TypeOK', NEW c \in Clients,
           Len(outbox[c]) <= Len(outbox'[c]),
           \A j \in 1 .. Len(outbox[c]) : outbox'[c][j] = outbox[c][j],
           \A j \in Len(outbox[c]) + 1 .. Len(outbox'[c]) : outbox'[c][j].type # "state"
    PROVE  NoneNew(c)
<1>1. outbox[c] \in Seq(Frame) /\ outbox'[c] \in Seq(Frame)
    BY DEF TypeOK
<1>2. /\ DOMAIN outbox[c] = 1 .. Len(outbox[c]) /\ DOMAIN outbox'[c] = 1 .. Len(outbox'[c])
      /\ Len(outbox[c]) \in Nat /\ Len(outbox'[c]) \in Nat
    BY <1>1
<1>3. \A j \in 1 .. Len(outbox'[c]) :
        j \in 1 .. Len(outbox[c]) \/ j \in Len(outbox[c]) + 1 .. Len(outbox'[c])
    BY <1>2
<1>4. \A j \in 1 .. Len(outbox[c]) : j \in 1 .. Len(outbox'[c])
    BY <1>2
<1>5. States(c)' = States(c)
    BY <1>2, <1>3, <1>4 DEF States
<1> QED BY <1>2, <1>5 DEF NoneNew, States

(* The streams of a socket that gets no state and whose host sends none. *)
LEMMA StreamKept ==
    ASSUME TypeOK, StreamInv, NEW c \in Clients, NoneNew(c),
           States(c) # {} =>
              /\ role'[c] = role[c]
              /\ conn'[c] = "OPEN" =>
                    /\ conn[c] = "OPEN"
                    /\ host'[roomCode'[c]] = host[roomCode[c]]
                    /\ turns'[host[roomCode[c]]] = turns[host[roomCode[c]]]
    PROVE  /\ \A i, j \in States(c)' : (Adjacent(c, i, j))' =>
                /\ outbox'[c][j].id = outbox'[c][i].id
                /\ outbox'[c][j].n = outbox'[c][i].n + 1
           /\ \A i \in States(c)' : (Latest(c, i))' /\ conn'[c] = "OPEN" =>
                outbox'[c][i].n = turns'[outbox'[c][i].id]
           /\ HeardFromHost(c)'
<1>1. States(c)' = States(c) /\ \A i \in States(c) : outbox'[c][i] = outbox[c][i]
    BY DEF NoneNew
<1>2. \A i, j \in States(c) : (Adjacent(c, i, j))' <=> Adjacent(c, i, j)
    BY <1>1 DEF Adjacent
<1>3. \A i \in States(c) : (Latest(c, i))' <=> Latest(c, i)
    BY <1>1 DEF Latest
<1>4. /\ \A i, j \in States(c) : Adjacent(c, i, j) =>
            /\ outbox[c][j].id = outbox[c][i].id
            /\ outbox[c][j].n = outbox[c][i].n + 1
      /\ \A i \in States(c) : Latest(c, i) /\ conn[c] = "OPEN" =>
            outbox[c][i].n = turns[outbox[c][i].id]
      /\ \A i \in States(c) :
            /\ role[c] \in {"player", "spectator"}
            /\ conn[c] = "OPEN" => host[roomCode[c]] = outbox[c][i].id
    BY DEF StreamInv, StateStream, HeardFromHost
<1>5. ASSUME NEW i \in States(c), Latest(c, i), conn'[c] = "OPEN"
      PROVE  outbox[c][i].n = turns'[outbox[c][i].id]
    BY <1>4, <1>5
<1>6. ASSUME NEW i \in States(c)
      PROVE  /\ role'[c] \in {"player", "spectator"}
             /\ conn'[c] = "OPEN" => host'[roomCode'[c]] = outbox[c][i].id
    BY <1>4, <1>6
<1>7. HeardFromHost(c)'
    BY <1>1, <1>6 DEF HeardFromHost
<1> QED BY <1>1, <1>2, <1>3, <1>4, <1>5, <1>7

LEMMA SentOther ==
    ASSUME TypeOK, TypeOK', NEW c \in Clients, NEW f \in Frame, f.type # "state",
           outbox' = Send(outbox, c, f), NEW d \in Clients
    PROVE  NoneNew(d)
<1>1. /\ Len(outbox[d]) <= Len(outbox'[d])
      /\ \A j \in 1 .. Len(outbox[d]) : outbox'[d][j] = outbox[d][j]
      /\ \A j \in Len(outbox[d]) + 1 .. Len(outbox'[d]) : outbox'[d][j] = f
    BY SendPrefixOutbox
<1> QED BY <1>1, OtherFrames

LEMMA SentNothing ==
    ASSUME outbox' = outbox, NEW d \in Clients
    PROVE  NoneNew(d)
BY DEF NoneNew, States

(* Only the host's input puts states into an outbox. *)
LEMMA OnlyHostSendsStates ==
    ASSUME TypeOK, TypeOK', [Next]_vars, NEW d \in Clients,
           \A c \in Clients : ~HostState(c)
    PROVE  NoneNew(d)
<1>1. ASSUME NEW c \in Clients, NEW r \in Codes, Host(c, r) PROVE NoneNew(d)
    <2> DEFINE f == [type |-> "room_created", code |-> r]
    <2>1. f \in Frame /\ f.type # "state"
        BY DEF Frame
    <2>2. outbox' = Send(outbox, c, f)
        BY <1>1 DEF Host
    <2> QED BY <2>1, <2>2, SentOther
<1>2. ASSUME NEW c \in Clients, NEW r \in Codes, NotFound(c, r) PROVE NoneNew(d)
    <2> DEFINE f == [type |-> "error"]
    <2>1. f \in Frame /\ f.type # "state"
        BY DEF Frame
    <2>2. outbox' = Send(outbox, c, f)
        BY <1>2 DEF NotFound
    <2> QED BY <2>1, <2>2, SentOther
<1>3. ASSUME NEW c \in Clients, NEW r \in Codes, Join(c, r) PROVE NoneNew(d)
    <2> DEFINE g == [type |-> "player_joined", id |-> c]
               f == [type |-> "joined", code |-> r]
               box == Send(outbox, host[r], g)
    <2>1. f \in Frame /\ f.type # "state" /\ g \in Frame /\ g.type # "state"
        BY DEF Frame
    <2>2. outbox' = Send(box, c, f) /\ host[r] \in Clients
        BY <1>3 DEF Join, TypeOK
    <2>3. box \in [Clients -> Seq(Frame)]
        BY <2>1, <2>2, SendType DEF TypeOK
    <2> HIDE DEF f, g
    <2>4. /\ box[d] \in Seq(Frame) /\ Len(outbox[d]) <= Len(box[d])
          /\ \A j \in 1 .. Len(outbox[d]) : box[d][j] = outbox[d][j]
          /\ \A j \in Len(outbox[d]) + 1 .. Len(box[d]) : box[d][j] = g
        BY <2>1, <2>2, SendPrefixOutbox
    <2> HIDE DEF box
    <2>5. /\ outbox'[d] \in Seq(Frame) /\ Len(box[d]) <= Len(outbox'[d])
          /\ \A j \in 1 .. Len(box[d]) : outbox'[d][j] = box[d][j]
          /\ \A j \in Len(box[d]) + 1 .. Len(outbox'[d]) : outbox'[d][j] = f
        BY <2>1, <2>2, <2>3, SendPrefix
    <2>6. Len(outbox[d]) \in Nat /\ Len(box[d]) \in Nat /\ Len(outbox'[d]) \in Nat
        BY <2>4, <2>5 DEF TypeOK
    <2>7. \A j \in 1 .. Len(outbox[d]) : outbox'[d][j] = outbox[d][j]
        BY <2>4, <2>5, <2>6
    <2>8. ASSUME NEW j \in Len(outbox[d]) + 1 .. Len(outbox'[d])
          PROVE  outbox'[d][j].type # "state"
        <3>1. CASE j <= Len(box[d])
            <4>1. j \in 1 .. Len(box[d]) /\ j \in Len(outbox[d]) + 1 .. Len(box[d])
                BY <2>6, <3>1
            <4> QED BY <2>1, <2>4, <2>5, <4>1
        <3>2. CASE ~(j <= Len(box[d]))
            <4>1. j \in Len(box[d]) + 1 .. Len(outbox'[d])
                BY <2>6, <3>2
            <4> QED BY <2>1, <2>5, <4>1
        <3> QED BY <3>1, <3>2
    <2>9. Len(outbox[d]) <= Len(outbox'[d])
        BY <2>4, <2>5, <2>6
    <2> QED BY <2>7, <2>8, <2>9, OtherFrames
<1>4. ASSUME NEW c \in Clients, NEW r \in Codes, Spectate(c, r) PROVE NoneNew(d)
    <2> DEFINE f == [type |-> "spectating", code |-> r]
    <2>1. f \in Frame /\ f.type # "state"
        BY DEF Frame
    <2>2. outbox' = Send(outbox, c, f)
        BY <1>4 DEF Spectate
    <2> QED BY <2>1, <2>2, SentOther
<1>5. ASSUME NEW c \in Clients, PlayerInput(c) PROVE NoneNew(d)
    <2> DEFINE f == [type |-> "input", id |-> c, n |-> turns'[c]]
    <2>1. f \in Frame /\ f.type # "state"
        BY DEF Frame, TypeOK
    <2>2. outbox' = Send(outbox, host[roomCode[c]], f) /\ host[roomCode[c]] \in Clients
        BY <1>5 DEF PlayerInput, InRoom, TypeOK
    <2> QED BY <2>1, <2>2, SentOther
<1>6. ASSUME NEW c \in Clients, Connect(c) \/ PeerCloses(c) \/ CloseEvent(c) PROVE NoneNew(d)
    <2>1. outbox' = outbox
        BY <1>6 DEF Connect, PeerCloses, CloseEvent, HostClosed, GuestClosed, StrayClosed
    <2> QED BY <2>1, SentNothing
<1>7. CASE UNCHANGED vars
    BY <1>7, SentNothing DEF vars
<1> QED BY <1>1, <1>2, <1>3, <1>4, <1>5, <1>6, <1>7 DEF Next

(* A guest that stays connected stays in its room, and the host of the room *)
(* has no turn but to send a state.                                         *)
LEMMA HostOnlySendsStates ==
    ASSUME OneRolePerSocket, UniqueCodes, TypeOK, RosterInv, ReleasedInv, [Next]_vars,
           \A c \in Clients : ~HostState(c),
           NEW d \in Clients, role[d] \in {"player", "spectator"}
    PROVE  /\ role'[d] = role[d]
           /\ conn'[d] = "OPEN" =>
                /\ conn[d] = "OPEN"
                /\ host'[roomCode'[d]] = host[roomCode[d]]
                /\ turns'[host[roomCode[d]]] = turns[host[roomCode[d]]]
<1> DEFINE r == roomCode[d]
           h == host[r]
           Same == /\ role'[d] = role[d] /\ roomCode'[d] = r
                   /\ conn'[d] = "OPEN" =>
                        conn[d] = "OPEN" /\ host'[r] = h /\ turns'[h] = turns[h]
<1> USE ConstantsAssumption
<1>0. /\ conn \in [Clients -> Conn] /\ role \in [Clients -> Role]
      /\ roomCode \in [Clients -> Codes \cup {None}] /\ host \in [Codes -> Clients \cup {None}]
      /\ turns \in [Clients -> 0 .. MaxMessages]
    BY DEF TypeOK
<1>1. r \in Codes /\ r \in issued
    BY <1>0 DEF RosterInv
<1>2. conn[d] # "NEW"
    BY <1>1 DEF ReleasedInv
<1>3. conn[d] = "OPEN" => h \in Clients /\ role[h] = "host" /\ roomCode[h] = r /\ RoomExact(r)
    BY <1>0, <1>1 DEF ReleasedInv, GuestsReleased, InRoom, RosterInv, RosterExact, RoomExact, Live
<1>4. ASSUME NEW c \in Clients, Connect(c) \/ PeerCloses(c) PROVE Same
    <2>1. UNCHANGED <<host, roomCode, role, turns>>
        BY <1>4 DEF Connect, PeerCloses, store, fields
    <2>2. conn'[d] = "OPEN" => conn[d] = "OPEN"
        BY <1>0, <1>2, <1>4 DEF Connect, PeerCloses
    <2> QED BY <2>1, <2>2
<1>5. ASSUME NEW c \in Clients, NEW q \in Codes,
             Host(c, q) \/ NotFound(c, q) \/ Join(c, q) \/ Spectate(c, q)
      PROVE  Same
    <2>1. role[c] = "none" /\ conn' = conn /\ turns' = [turns EXCEPT ![c] = @ + 1]
        BY <1>5 DEF Host, NotFound, Join, Spectate, Turn, MayEnter
    <2>2. c # d
        BY <2>1
    <2>3. role'[d] = role[d] /\ roomCode'[d] = r
        BY <1>0, <1>5, <2>2 DEF Host, NotFound, Join, Spectate, Become, fields
    <2>4. host'[r] = h
        BY <1>0, <1>1, <1>5 DEF Host, NotFound, Join, Spectate, store
    <2>5. conn[d] = "OPEN" => turns'[h] = turns[h]
        BY <1>0, <1>3, <2>1
    <2> QED BY <2>1, <2>3, <2>4, <2>5
<1>6. ASSUME NEW c \in Clients, PlayerInput(c) PROVE Same
    <2>1. UNCHANGED <<host, roomCode, role, conn>> /\ turns' = [turns EXCEPT ![c] = @ + 1]
          /\ role[c] = "player"
        BY <1>6 DEF PlayerInput, Turn, store, fields
    <2>2. conn[d] = "OPEN" => turns'[h] = turns[h]
        BY <1>0, <1>3, <2>1
    <2> QED BY <2>1, <2>2
<1>7. ASSUME NEW c \in Clients, HostClosed(c) PROVE Same
    <2>1. /\ UNCHANGED <<roomCode, role, turns>>
          /\ roomCode[c] \in Codes
          /\ host' = [host EXCEPT ![roomCode[c]] = None]
          /\ conn'[d] = "OPEN" => conn[d] = "OPEN" /\ d \notin Members(roomCode[c])
        BY <1>0, <1>7 DEF HostClosed, InRoom, Evict, fields
    <2>2. ASSUME conn[d] = "OPEN", d \notin Members(roomCode[c]) PROVE roomCode[c] # r
        <3>1. RoomExact(r) /\ h # None /\ Live(d, r)
            BY <1>0, <1>3, <2>2 DEF Live
        <3>2. d \in Members(r)
            BY <3>1 DEF RoomExact, Members
        <3> QED BY <2>2, <3>2
    <2>3. conn'[d] = "OPEN" => host'[r] = h
        BY <1>0, <1>1, <2>1, <2>2
    <2> QED BY <2>1, <2>3
<1>8. ASSUME NEW c \in Clients, GuestClosed(c) \/ StrayClosed(c) PROVE Same
    <2>1. UNCHANGED <<host, roomCode, role, turns>>
        BY <1>8 DEF GuestClosed, StrayClosed, store, fields
    <2>2. conn'[d] = "OPEN" => conn[d] = "OPEN"
        BY <1>0, <1>8 DEF GuestClosed, StrayClosed
    <2> QED BY <2>1, <2>2
<1>9. ASSUME UNCHANGED vars PROVE Same
    BY <1>9 DEF vars, store, fields
<1>10. Same
    <2> HIDE DEF Same, r, h
    <2> QED BY <1>4, <1>5, <1>6, <1>7, <1>8, <1>9 DEF Next, CloseEvent
<1> QED BY <1>10

(* A host's input reaches each connected guest of its room once. *)
LEMMA HostReaches ==
    ASSUME OneRolePerSocket, UniqueCodes, TypeOK, TypeOK', RosterInv, ReleasedInv,
           NEW c \in Clients, HostState(c), NEW d \in Clients
    PROVE  \/ /\ NoneNew(d)
              /\ ~(conn[d] = "OPEN" /\ roomCode[d] = roomCode[c]
                     /\ role[d] \in {"player", "spectator"})
           \/ /\ conn[d] = "OPEN" /\ roomCode[d] = roomCode[c]
              /\ role[d] \in {"player", "spectator"}
              /\ outbox'[d] = Append(outbox[d], [type |-> "state", id |-> c,
                                                n |-> turns'[c], code |-> roomCode[c]])
<1> USE ConstantsAssumption
<1> DEFINE r == roomCode[c]
           f == [type |-> "state", id |-> c, n |-> turns'[c], code |-> r]
           entries == [e \in Clients |-> players[r][e] + spectators[r][e]]
<1>1. r \in Codes /\ host[r] # None /\ RoomExact(r) /\ outbox' = Broadcast(outbox, entries, f)
    BY DEF HostState, InRoom, TypeOK, RosterInv, RosterExact
<1>2. outbox[d] \in Seq(Frame) /\ role[d] \in Role
    BY DEF TypeOK
<1>3. outbox'[d] = IF conn[d] = "OPEN" THEN outbox[d] \o Copies(f, entries[d]) ELSE outbox[d]
    BY <1>1 DEF Broadcast
<1>4. CASE conn[d] # "OPEN"
    BY <1>3, <1>4 DEF NoneNew, States
<1>5. CASE conn[d] = "OPEN" /\ roomCode[d] = r /\ role[d] \in {"player", "spectator"}
    <2>1. entries[d] = 1
        BY <1>1, <1>5 DEF RoomExact, Live
    <2> HIDE DEF entries, f
    <2>2. outbox'[d] = outbox[d] \o Copies(f, 1)
        BY <1>3, <1>5, <2>1
    <2>3. Copies(f, 1) = <<f>>
        BY DEF Copies
    <2>4. f \in Frame
        BY <1>1 DEF f, Frame, TypeOK
    <2>5. Append(outbox[d], f) = outbox[d] \o <<f>>
        BY <1>2, <2>4
    <2>6. outbox'[d] = Append(outbox[d], f)
        BY <2>2, <2>3, <2>5
    <2> QED BY <1>5, <2>6 DEF f
<1>6. CASE conn[d] = "OPEN" /\ ~(roomCode[d] = r /\ role[d] \in {"player", "spectator"})
    <2>1. entries[d] = 0
        BY <1>1, <1>6 DEF RoomExact, Live
    <2> HIDE DEF entries, f
    <2>2. outbox'[d] = outbox[d] \o Copies(f, 0)
        BY <1>3, <1>6, <2>1
    <2>3. Copies(f, 0) = << >>
        BY DEF Copies
    <2>4. outbox'[d] = outbox[d]
        BY <1>2, <2>2, <2>3
    <2> QED BY <1>6, <2>4 DEF NoneNew, States
<1> QED BY <1>4, <1>5, <1>6

LEMMA StreamStep ==
    ASSUME OneRolePerSocket, UniqueCodes, TypeOK, TypeOK', RosterInv, ReleasedInv,
           StreamInv, [Next]_vars
    PROVE  StreamInv'
<1> SUFFICES ASSUME NEW d \in Clients
             PROVE  /\ \A i, j \in States(d)' : (Adjacent(d, i, j))' =>
                         /\ outbox'[d][j].id = outbox'[d][i].id
                         /\ outbox'[d][j].n = outbox'[d][i].n + 1
                    /\ \A i \in States(d)' : (Latest(d, i))' /\ conn'[d] = "OPEN" =>
                         outbox'[d][i].n = turns'[outbox'[d][i].id]
                    /\ HeardFromHost(d)'
    BY DEF StreamInv, StateStream
<1>0. States(d) # {} => role[d] \in {"player", "spectator"}
    BY DEF StreamInv, HeardFromHost
<1>1. CASE \A c \in Clients : ~HostState(c)
    <2>1. NoneNew(d)
        BY <1>1, OnlyHostSendsStates
    <2>2. States(d) # {} =>
              /\ role'[d] = role[d]
              /\ conn'[d] = "OPEN" =>
                    /\ conn[d] = "OPEN"
                    /\ host'[roomCode'[d]] = host[roomCode[d]]
                    /\ turns'[host[roomCode[d]]] = turns[host[roomCode[d]]]
        BY <1>0, <1>1, HostOnlySendsStates
    <2> QED BY <2>1, <2>2, StreamKept
<1>2. ASSUME NEW c \in Clients, HostState(c)
      PROVE  /\ \A i, j \in States(d)' : (Adjacent(d, i, j))' =>
                  /\ outbox'[d][j].id = outbox'[d][i].id
                  /\ outbox'[d][j].n = outbox'[d][i].n + 1
             /\ \A i \in States(d)' : (Latest(d, i))' /\ conn'[d] = "OPEN" =>
                  outbox'[d][i].n = turns'[outbox'[d][i].id]
             /\ HeardFromHost(d)'
    <2> DEFINE r == roomCode[c]
               f == [type |-> "state", id |-> c, n |-> turns'[c], code |-> r]
    <2>1. /\ UNCHANGED <<conn, host, role, roomCode>>
          /\ turns' = [turns EXCEPT ![c] = @ + 1] /\ turns \in [Clients -> 0 .. MaxMessages]
          /\ r \in Codes /\ host[r] # None /\ role[c] = "host" /\ conn[c] # "CLOSED"
        BY <1>2 DEF HostState, Turn, InRoom, TypeOK, store, fields
    <2>2. host[r] = c
        BY <2>1 DEF ReleasedInv, OwnRoom
    <2>3. CASE NoneNew(d) /\ ~(conn[d] = "OPEN" /\ roomCode[d] = r
                                 /\ role[d] \in {"player", "spectator"})
        <3>1. ASSUME States(d) # {}, conn[d] = "OPEN"
              PROVE  turns'[host[roomCode[d]]] = turns[host[roomCode[d]]]
            <4>1. roomCode[d] # r /\ roomCode[d] \in Codes /\ host[roomCode[d]] \in Clients
                BY <1>0, <2>3, <3>1, ConstantsAssumption
                DEF RosterInv, ReleasedInv, GuestsReleased, InRoom, TypeOK
            <4>2. RoomExact(roomCode[d]) /\ host[roomCode[d]] # None
                BY <4>1, ConstantsAssumption DEF RosterInv, RosterExact
            <4>3. host[roomCode[d]] # c
                BY <4>1, <4>2 DEF RoomExact, Live
            <4> QED BY <2>1, <4>1, <4>3
        <3> QED BY <2>1, <2>3, <3>1, StreamKept
    <2>4. CASE /\ conn[d] = "OPEN" /\ roomCode[d] = r
               /\ role[d] \in {"player", "spectator"}
               /\ outbox'[d] = Append(outbox[d], f)
        <3> DEFINE N == Len(outbox[d]) + 1
        <3>1. outbox[d] \in Seq(Frame) /\ N \in Nat /\ f.type = "state" /\ f.id = c /\ f.n = turns'[c]
            BY DEF TypeOK
        <3> HIDE DEF f
        <3>2. /\ DOMAIN outbox[d] = 1 .. N - 1 /\ DOMAIN outbox'[d] = 1 .. N
              /\ outbox'[d][N] = f /\ \A i \in 1 .. N - 1 : outbox'[d][i] = outbox[d][i]
            BY <2>4, <3>1
        <3> HIDE DEF N
        <3>3. States(d)' = States(d) \cup {N}
            <4>1. 1 .. N = (1 .. N - 1) \cup {N}
                BY <3>1, <3>2 DEF N
            <4> QED BY <3>1, <3>2, <4>1 DEF States
        <3>4. \A i \in States(d) : i \in Nat /\ i < N /\ outbox'[d][i] = outbox[d][i]
            BY <3>1, <3>2 DEF States
        <3>5. \A i \in States(d) : outbox[d][i].id = c
            BY <2>2, <2>4 DEF StreamInv, HeardFromHost
        <3>6. turns'[c] = turns[c] + 1
            BY <2>1
        <3>7. ASSUME NEW i \in States(d)', NEW j \in States(d)', (Adjacent(d, i, j))'
              PROVE  /\ outbox'[d][j].id = outbox'[d][i].id
                     /\ outbox'[d][j].n = outbox'[d][i].n + 1
            <4>1. i < j /\ \A k \in States(d)' : k <= i \/ j <= k
                BY <3>7 DEF Adjacent
            <4>2. i \in States(d)
                BY <3>1, <3>3, <3>4, <4>1
            <4>3. CASE j = N
                <5>1. \A k \in States(d) : k <= i
                    BY <3>1, <3>3, <3>4, <4>1, <4>3
                <5>2. outbox[d][i].n = turns[outbox[d][i].id]
                    BY <2>4, <4>2, <5>1 DEF StreamInv, StateStream, Latest
                <5> QED BY <3>1, <3>2, <3>4, <3>5, <3>6, <4>2, <4>3, <5>2
            <4>4. CASE j \in States(d)
                <5>1. Adjacent(d, i, j)
                    BY <3>3, <4>1 DEF Adjacent
                <5>2. /\ outbox[d][j].id = outbox[d][i].id
                      /\ outbox[d][j].n = outbox[d][i].n + 1
                    BY <4>2, <4>4, <5>1 DEF StreamInv, StateStream
                <5> QED BY <3>4, <4>2, <4>4, <5>2
            <4> QED BY <3>3, <4>3, <4>4
        <3>8. ASSUME NEW i \in States(d)', (Latest(d, i))'
              PROVE  outbox'[d][i].n = turns'[outbox'[d][i].id]
            <4>1. N <= i
                BY <3>3, <3>8 DEF Latest
            <4>2. i = N
                BY <3>1, <3>3, <3>4, <4>1
            <4> QED BY <3>1, <3>2, <4>2
        <3>9. HeardFromHost(d)'
            <4> SUFFICES ASSUME NEW i \in States(d)'
                         PROVE  /\ role'[d] \in {"player", "spectator"}
                                /\ conn'[d] = "OPEN" => host'[roomCode'[d]] = outbox'[d][i].id
                BY DEF HeardFromHost
            <4>1. outbox'[d][i].id = c
                BY <3>1, <3>2, <3>3, <3>4, <3>5
            <4> QED BY <2>1, <2>2, <2>4, <4>1
        <3> QED BY <3>7, <3>8, <3>9
    <2> QED BY <1>2, <2>3, <2>4, HostReaches
<1> QED BY <1>1, <1>2

(* Sockets of one role and fresh codes: what a guest receives is one host's *)
(* states, each once and in order, and a connected guest is up to date.     *)
THEOREM StateStreamCorrect ==
    ASSUME OneRolePerSocket, UniqueCodes
    PROVE  Spec => []StateStream
<1>1. Init => RosterInv /\ ReleasedInv
    BY ConstantsAssumption
    DEF Init, RosterInv, RosterExact, RoomExact, Members, Nobody, ReleasedInv, GuestsReleased, OwnRoom
<1>2. Init => StreamInv
    <2>1. ASSUME Init, NEW c \in Clients PROVE States(c) = {}
        <3>1. outbox[c] = << >>
            BY <2>1 DEF Init
        <3>2. DOMAIN outbox[c] = {}
            BY <3>1
        <3> QED BY <3>2 DEF States
    <2> QED BY <2>1 DEF StreamInv, StateStream, HeardFromHost
<1>3. TypeOK /\ RosterInv /\ ReleasedInv /\ [Next]_vars => RosterInv' /\ ReleasedInv'
    BY RosterStep, ReleasedStep
<1>4. TypeOK /\ TypeOK' /\ RosterInv /\ ReleasedInv /\ StreamInv /\ [Next]_vars => StreamInv'
    BY StreamStep
<1>5. StreamInv => StateStream
    BY DEF StreamInv
<1> QED BY <1>1, <1>2, <1>3, <1>4, <1>5, TypeCorrect, PTL DEF Spec
=============================================================================
