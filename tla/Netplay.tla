------------------------------ MODULE Netplay ------------------------------
(***************************************************************************)
(* Input exchange of the netplay client, main/netplay_ws.c: every client   *)
(* sends the keys of the players it controls and reads the keys of every   *)
(* player back from the server, one input per player and frame.            *)
(*                                                                         *)
(* A client has two threads: the emulation thread (pc) and, while it waits *)
(* for an input, a requester thread (req) that repeats the request until   *)
(* the input is there or ten seconds have passed.  The server and UDP are  *)
(* external; the client relies on the server giving one value to each      *)
(* input.  Datagrams may be lost, repeated and reordered: an answer is any *)
(* run of inputs the server has, starting up to MaxStale inputs back.      *)
(***************************************************************************)
EXTENDS Naturals, Sequences, FiniteSets

CONSTANTS
    Clients,
    NumPlayers,   \* controllers present, at most 4
    Owner,        \* Owner[p]: the client with l_netplay_control[p] # -1
    Keys,         \* what a player can press
    NoKeys,       \* 0
    Modulus,      \* 2^32: the range of the uint32_t input counters
    MaxInputs,    \* bound: inputs per player the server assigns
    MaxRun,       \* most inputs in one answer
    MaxStale,     \* how far behind the client's count an answer may start
    BufferTarget, \* l_buffer_target
    LagValues,    \* values of the lag byte in answers
    CanTimeout,   \* answers may take more than ten seconds
    ServerFills   \* the server assigns an input it has not received

Players == 0 .. NumPlayers - 1

ASSUME ConstantsAssumption ==
    /\ NumPlayers \in Nat \ {0}
    /\ Owner \in [Players -> Clients]
    /\ NoKeys \in Keys
    /\ Modulus \in Nat /\ MaxInputs \in Nat /\ BufferTarget \in Nat
    /\ MaxRun \in Nat \ {0} /\ MaxStale \in Nat
    /\ 2 * MaxRun <= Modulus /\ 2 * MaxStale <= Modulus
    /\ LagValues \subseteq Nat /\ 0 \in LagValues
    /\ CanTimeout \in BOOLEAN /\ ServerFills \in BOOLEAN

VARIABLES
    log,      \* log[p]: the inputs the server has assigned to p (external)
    sent,     \* key info datagrams that have been sent
    pc,       \* the emulation thread
    at,       \* the player netplay_get_raw_input is at
    req,      \* the requester thread
    bound,    \* l_udpChannel # -1
    count,    \* netplay_count of each player's list
    buffer,   \* buffer[c][p][k]: the nodes with count k, in list order
    fed,      \* fed[c][p]: the inputs of p the emulation has consumed
    running,  \* the emulator has not been told to stop
    lag,      \* l_player_lag
    canFF,    \* l_canFF
    limiter   \* l_MainSpeedLimit

server == <<log, sent>>
threads == <<pc, at, req>>
lists == <<count, buffer>>
speed == <<lag, canFF, limiter>>
vars == <<server, threads, bound, lists, fed, running, speed>>

-----------------------------------------------------------------------------
Counts == 0 .. Modulus - 1

KeyInfo == [player : Players, n : Nat, keys : Keys]

TypeOK ==
    /\ log \in [Players -> Seq(Keys)]
    /\ sent \in SUBSET KeyInfo
    /\ pc \in [Clients -> {"idle", "poll", "wait", "join"}]
    /\ at \in [Clients -> Players]
    /\ req \in [Clients -> {"none", "check", "expired", "found", "lost"}]
    /\ bound \in [Clients -> BOOLEAN]
    /\ count \in [Clients -> [Players -> Counts]]
    /\ buffer \in [Clients -> [Players -> [Counts -> Seq(Keys)]]]
    /\ fed \in [Clients -> [Players -> Seq(Keys)]]
    /\ running \in [Clients -> BOOLEAN]
    /\ lag \in [Clients -> [Players -> LagValues]]
    /\ canFF \in [Clients -> BOOLEAN]
    /\ limiter \in [Clients -> BOOLEAN]

Init ==
    /\ log = [p \in Players |-> << >>]
    /\ sent = {}
    /\ pc = [c \in Clients |-> "idle"]
    /\ at = [c \in Clients |-> 0]
    /\ req = [c \in Clients |-> "none"]
    /\ bound = [c \in Clients |-> TRUE]
    /\ count = [c \in Clients |-> [p \in Players |-> 0]]
    /\ buffer = [c \in Clients |-> [p \in Players |-> [k \in Counts |-> << >>]]]
    /\ fed = [c \in Clients |-> [p \in Players |-> << >>]]
    /\ running = [c \in Clients |-> TRUE]
    /\ lag = [c \in Clients |-> [p \in Players |-> 0]]
    /\ canFF = [c \in Clients |-> FALSE]
    /\ limiter = [c \in Clients |-> TRUE]

-----------------------------------------------------------------------------
(* The server, external: it assigns the next input of p, from the datagram *)
(* for that input, or repeats the last one when it fills in.               *)
LastKeys(p) == IF log[p] = << >> THEN NoKeys ELSE log[p][Len(log[p])]

Assign(p) ==
    /\ Len(log[p]) < MaxInputs
    /\ \E k \in Keys :
        /\ \/ [player |-> p, n |-> Len(log[p]), keys |-> k] \in sent
           \/ ServerFills /\ k = LastKeys(p)
        /\ log' = [log EXCEPT ![p] = Append(@, k)]
    /\ UNCHANGED <<sent, threads, bound, lists, fed, running, speed>>

(* It assigns an input it has received. *)
AssignSent(p) == Assign(p) /\ [player |-> p, n |-> Len(log[p]), keys |-> LastKeys(p)'] \in sent

-----------------------------------------------------------------------------
Has(c, p, k) == buffer[c][p][k] # << >>

check_valid(c) == Has(c, at[c], count[c][at[c]])

(* A list holds at most MaxRun nodes (NoLeftovers), so the uint8_t of the  *)
(* code does not wrap.                                                     *)
buffer_size(c, p) ==
    Cardinality({node \in Counts \X (1 .. MaxInputs) :
                    node[2] <= Len(buffer[c][p][node[1]])})

(* Mutant: the input is sent under the count after next. *)
SendInputAhead(c) ==
    /\ pc[c] = "idle"
    /\ running[c]
    /\ \A p \in Players : Len(fed[c][p]) < MaxInputs
    /\ \E press \in [{p \in Players : Owner[p] = c} -> Keys] :
        sent' = sent \cup {[player |-> p, n |-> Len(fed[c][p]) + 1, keys |-> press[p]] :
                            p \in DOMAIN press}
    /\ pc' = [pc EXCEPT ![c] = "poll"]
    /\ UNCHANGED <<log, at, req, bound, lists, fed, running, speed>>

(* The emulator runs to its next controller poll: pif_update_ram calls     *)
(* netplay_update_input, which sends the input of every player this client *)
(* controls and goes on to read every player's.                            *)
SendInput(c) ==
    /\ pc[c] = "idle"
    /\ running[c]
    /\ \A p \in Players : Len(fed[c][p]) < MaxInputs
    /\ \E press \in [{p \in Players : Owner[p] = c} -> Keys] :
        sent' = sent \cup {[player |-> p, n |-> Len(fed[c][p]), keys |-> press[p]] :
                            p \in DOMAIN press}
    /\ pc' = [pc EXCEPT ![c] = "poll"]
    /\ UNCHANGED <<log, at, req, bound, lists, fed, running, speed>>

(* Mutants: inputs behind the count are kept; inputs already held are kept. *)
SkipHeld(c, p, k) == Has(c, p, k)
SkipBehind(c, p, k) ==
    (k + Modulus - count[c][p]) % Modulus > (Modulus - 1) \div 2

(* netplay_process takes one datagram.  Inputs behind the count, by the    *)
(* wrapping uint32_t difference, and inputs already held are skipped.      *)
Skip(c, p, k) ==
    \/ (k + Modulus - count[c][p]) % Modulus > (Modulus - 1) \div 2
    \/ Has(c, p, k)

Insert(c, p, first, last) ==
    [k \in Counts |->
        LET run == {n \in first .. last : n % Modulus = k}
        IN IF run = {} \/ Skip(c, p, k) THEN buffer[c][p][k]
           ELSE << log[p][(CHOOSE n \in run : TRUE) + 1] >> \o buffer[c][p][k]]

Answer(c, p, first, last) ==
    /\ first <= last /\ last < Len(log[p])
    /\ last < first + MaxRun
    /\ Len(fed[c][p]) <= first + MaxStale /\ first <= Len(fed[c][p])

Process(c) ==
    /\ pc[c] \in {"poll", "wait"}
    /\ \E p \in Players : \E first, last \in 0 .. MaxInputs - 1 :
        /\ Answer(c, p, first, last)
        /\ buffer' = [buffer EXCEPT ![c][p] = Insert(c, p, first, last)]
        /\ \/ \E v \in LagValues : lag' = [lag EXCEPT ![c][p] = v]
           \/ UNCHANGED lag   \* UDP_RECEIVE_KEY_INFO_GRATUITOUS
    /\ UNCHANGED <<server, threads, bound, count, fed, running, canFF, limiter>>

(* The input the emulation thread is waiting for arrives. *)
ProcessNeeded(c) == Process(c) /\ ~check_valid(c) /\ check_valid(c)'

-----------------------------------------------------------------------------
(* The loop of netplay_get_raw_input goes on to the next controller. *)
Advance(c) ==
    IF at[c] + 1 \in Players
    THEN /\ at' = [at EXCEPT ![c] = @ + 1]
         /\ pc' = [pc EXCEPT ![c] = "poll"]
    ELSE /\ at' = [at EXCEPT ![c] = 0]
         /\ pc' = [pc EXCEPT ![c] = "idle"]

(* Mutant: an input that arrived is read without taking its node off. *)
ConsumeKeeps(c) ==
    LET p == at[c]
        k == count[c][p]
    IN /\ fed' = [fed EXCEPT ![c][p] = Append(@, Head(buffer[c][p][k]))]
       /\ count' = [count EXCEPT ![c][p] = (@ + 1) % Modulus]
       /\ Advance(c)
       /\ UNCHANGED <<buffer, running>>

(* The end of netplay_get_input when netplay_ensure_valid returned 1.      *)
Consume(c) ==
    LET p == at[c]
        k == count[c][p]
    IN /\ fed' = [fed EXCEPT ![c][p] = Append(@, Head(buffer[c][p][k]))]
       /\ buffer' = [buffer EXCEPT ![c][p][k] = Tail(@)]
       /\ count' = [count EXCEPT ![c][p] = (@ + 1) % Modulus]
       /\ Advance(c)
       /\ UNCHANGED running

(* The end of netplay_get_input when netplay_ensure_valid returned 0: the  *)
(* emulator is told to stop and the controller reads 0.                    *)
LoseServer(c) ==
    /\ running' = [running EXCEPT ![c] = FALSE]
    /\ Advance(c)
    /\ UNCHANGED <<lists, fed>>

(* Mutant: l_canFF is cleared before the limiter is engaged. *)
FastForwardClearsFirst(c) ==
    LET behind == lag[c][at[c]] > 0 /\ buffer_size(c, at[c]) > BufferTarget
    IN /\ canFF' = [canFF EXCEPT ![c] = behind]
       /\ limiter' = [limiter EXCEPT ![c] = IF behind THEN FALSE ELSE @]
       /\ UNCHANGED lag

(* main_set_speedlimiter ignores the call unless l_canFF is set.  l_canFF  *)
(* is set before the limiter is released, and cleared after it is engaged. *)
FastForward(c) ==
    LET behind == lag[c][at[c]] > 0 /\ buffer_size(c, at[c]) > BufferTarget
    IN /\ canFF' = [canFF EXCEPT ![c] = behind]
       /\ limiter' = [limiter EXCEPT ![c] =
                        IF behind THEN FALSE ELSE IF canFF[c] THEN TRUE ELSE @]
       /\ UNCHANGED lag

(* netplay_get_input up to and into netplay_ensure_valid: the socket is    *)
(* drained, one request is sent, and then the input is there, or there is  *)
(* no connection, or a requester thread is started.                        *)
GetInput(c) ==
    /\ pc[c] = "poll"
    /\ FastForward(c)
    /\ \/ /\ check_valid(c)
          /\ Consume(c)
          /\ UNCHANGED req
       \/ /\ ~check_valid(c) /\ ~bound[c]
          /\ LoseServer(c)
          /\ UNCHANGED req
       \/ /\ ~check_valid(c) /\ bound[c]
          /\ req' = [req EXCEPT ![c] = "check"]
          /\ pc' = [pc EXCEPT ![c] = "wait"]
          /\ UNCHANGED <<at, lists, fed, running>>
    /\ UNCHANGED <<server, bound>>

(* The loop of netplay_ensure_valid ends. *)
StopWaiting(c) ==
    /\ pc[c] = "wait"
    /\ check_valid(c) \/ ~bound[c]
    /\ pc' = [pc EXCEPT ![c] = "join"]
    /\ UNCHANGED <<server, at, req, bound, lists, fed, running, speed>>

(* SDL_WaitThread returns what the requester thread returned. *)
Join(c) ==
    /\ pc[c] = "join"
    /\ \/ req[c] = "found" /\ Consume(c)
       \/ req[c] = "lost" /\ LoseServer(c)
    /\ req' = [req EXCEPT ![c] = "none"]
    /\ UNCHANGED <<server, bound, speed>>

-----------------------------------------------------------------------------
(* netplay_require_response.  A pass that neither finds the input nor runs *)
(* out of time repeats the request and sleeps, which changes no state.     *)
Found(c) ==
    /\ req[c] = "check"
    /\ check_valid(c)
    /\ req' = [req EXCEPT ![c] = "found"]
    /\ UNCHANGED <<server, pc, at, bound, lists, fed, running, speed>>

(* The input is not there when it looks, and then the time is up. *)
Expire(c) ==
    /\ CanTimeout
    /\ req[c] = "check"
    /\ ~check_valid(c)
    /\ req' = [req EXCEPT ![c] = "expired"]
    /\ UNCHANGED <<server, pc, at, bound, lists, fed, running, speed>>

(* Mutants: the timeout is reported as success; the channel stays bound. *)
UnbindFound(c) ==
    /\ req[c] = "expired"
    /\ bound' = [bound EXCEPT ![c] = FALSE]
    /\ req' = [req EXCEPT ![c] = "found"]
    /\ UNCHANGED <<server, pc, at, lists, fed, running, speed>>

UnbindNot(c) ==
    /\ req[c] = "expired"
    /\ req' = [req EXCEPT ![c] = "lost"]
    /\ UNCHANGED <<server, pc, at, bound, lists, fed, running, speed>>

Unbind(c) ==
    /\ req[c] = "expired"
    /\ bound' = [bound EXCEPT ![c] = FALSE]
    /\ req' = [req EXCEPT ![c] = "lost"]
    /\ UNCHANGED <<server, pc, at, lists, fed, running, speed>>

Emulate(c) == SendInput(c) \/ GetInput(c) \/ StopWaiting(c) \/ Join(c)
Require(c) == Found(c) \/ Expire(c) \/ Unbind(c)

Next ==
    \/ \E p \in Players : Assign(p)
    \/ \E c \in Clients : Emulate(c) \/ Process(c) \/ Require(c)

Spec == Init /\ [][Next]_vars

(* Both threads of a client keep being scheduled. *)
ThreadFairness == \A c \in Clients : WF_vars(Emulate(c)) /\ WF_vars(Require(c))

ThreadSpec == Spec /\ ThreadFairness

(* A request repeated every 5 ms is answered in the end, the server        *)
(* assigns an input it has received (it need not fill in any), and ten     *)
(* seconds are longer than all of this takes: a request times out only     *)
(* when nobody can go on.                                                  *)
GoesOn ==
    \/ \E c \in Clients : Emulate(c) \/ Found(c) \/ ProcessNeeded(c)
    \/ \E p \in Players : AssignSent(p)

NetworkFairness ==
    /\ \A c \in Clients : WF_vars(ProcessNeeded(c))
    /\ \A p \in Players : WF_vars(AssignSent(p))
    /\ []((\E c \in Clients : req[c] = "expired") => ~ ENABLED GoesOn)

-----------------------------------------------------------------------------
(* Lockstep: each client has consumed exactly the inputs the server        *)
(* assigned, in order, each once, so any two clients agree on every input  *)
(* both have consumed.                                                     *)
Agrees(s, p) == Len(s) <= Len(log[p]) /\ \A n \in 1 .. Len(s) : s[n] = log[p][n]

Lockstep == \A c \in Clients, p \in Players : Agrees(fed[c][p], p)

(* Nothing stale stays in the lists: a node is the only one with its count *)
(* and is one of the next MaxRun inputs, with the keys the server assigned.*)
(* A leftover would be found again when the counter wraps.                 *)
NoLeftovers ==
    \A c \in Clients, p \in Players, k \in Counts :
        Has(c, p, k) =>
            \E n \in Len(fed[c][p]) .. Len(fed[c][p]) + MaxRun - 1 :
                /\ n < Len(log[p])
                /\ k = n % Modulus
                /\ buffer[c][p][k] = << log[p][n + 1] >>

(* When the requester thread reports success the input is in the list, so  *)
(* the search of lines 507-509 does not run off its end.                   *)
EventPresent ==
    \A c \in Clients : req[c] = "found" => pc[c] \in {"wait", "join"} /\ check_valid(c)

(* The emulator is stopped only after a requester thread ran out of time,  *)
(* and the emulation thread waits on no requester thread but a live one.   *)
StopHasCause ==
    \A c \in Clients :
        /\ ~running[c] => ~bound[c]
        /\ pc[c] \in {"wait", "join"} <=> req[c] # "none"
        /\ req[c] = "lost" => ~bound[c]

(* The speed limiter is off only while netplay catches up, although the    *)
(* two are set by separate calls one of which may be refused.              *)
LimiterOffMeansBehind == \A c \in Clients : ~limiter[c] => canFF[c]

(* netplay_get_input returns, whatever the network does. *)
InputReturns ==
    \A c \in Clients, p \in Players :
        (pc[c] # "idle" /\ at[c] = p) ~> (pc[c] = "idle" \/ at[c] # p)

(* No client waits for ever on another: when every request is answered in  *)
(* time each client plays all the inputs.                                  *)
EveryonePlays ==
    NetworkFairness =>
        \A c \in Clients : <>(\A p \in Players : Len(fed[c][p]) = MaxInputs)

-----------------------------------------------------------------------------
Inputs == INSTANCE InputLog

(* The exchange implements one shared log of inputs per player that every  *)
(* client reads forward, one entry at a time.                              *)
ImplementsInputLog == Inputs!Spec
=============================================================================
