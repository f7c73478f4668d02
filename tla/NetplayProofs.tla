--------------------------- MODULE NetplayProofs ---------------------------
(***************************************************************************)
(* Proofs about the netplay clients, for every number of clients, players, *)
(* inputs and keys, and every modulus of the counters.                     *)
(***************************************************************************)
EXTENDS Netplay, SequenceTheorems, TLAPS

LEMMA PlayersFacts == 0 \in Players /\ Players \subseteq Nat
BY ConstantsAssumption DEF Players

LEMMA CountsFacts ==
    0 \in Counts /\ Modulus \in Nat \ {0} /\ \A k \in Nat : k % Modulus \in Counts
BY ConstantsAssumption DEF Counts

(* What inserting a datagram does to a list. *)
LEMMA InsertType ==
    ASSUME TypeOK, NEW c \in Clients, NEW p \in Players,
           NEW first \in Nat, NEW last \in Nat, last < Len(log[p])
    PROVE  /\ Insert(c, p, first, last) \in [Counts -> Seq(Keys)]
           /\ \A k \in Counts :
                Has(c, p, k) => Insert(c, p, first, last)[k] # << >>
<1> SUFFICES ASSUME NEW k \in Counts
             PROVE  /\ Insert(c, p, first, last)[k] \in Seq(Keys)
                    /\ Has(c, p, k) => Insert(c, p, first, last)[k] # << >>
    BY DEF Insert
<1> DEFINE run == {n \in first .. last : n % Modulus = k}
<1>1. buffer[c][p][k] \in Seq(Keys) /\ log[p] \in Seq(Keys)
    BY DEF TypeOK
<1>2. CASE run = {} \/ Skip(c, p, k)
    BY <1>1, <1>2 DEF Insert, Has
<1>3. CASE ~(run = {} \/ Skip(c, p, k))
    <2> DEFINE n == CHOOSE n \in run : TRUE
    <2>1. n \in run
        BY <1>3
    <2>2. n \in first .. last
        BY <2>1
    <2> HIDE DEF n
    <2>3. log[p][n + 1] \in Keys
        BY <2>2, <1>1
    <2>4. << log[p][n + 1] >> \in Seq(Keys)
        BY <2>3
    <2>5. /\ << log[p][n + 1] >> \o buffer[c][p][k] \in Seq(Keys)
          /\ Len(<< log[p][n + 1] >> \o buffer[c][p][k]) = 1 + Len(buffer[c][p][k])
        BY <2>4, <1>1, ConcatProperties
    <2>6. << log[p][n + 1] >> \o buffer[c][p][k] # << >>
        BY <2>5, <1>1, EmptySeq
    <2>7. Insert(c, p, first, last)[k] = << log[p][n + 1] >> \o buffer[c][p][k]
        BY <1>3 DEF Insert, n
    <2> QED BY <2>5, <2>6, <2>7
<1> QED BY <1>2, <1>3

LEMMA AdvanceType ==
    ASSUME TypeOK, NEW c \in Clients, Advance(c)
    PROVE  /\ at' \in [Clients -> Players]
           /\ pc' \in [Clients -> {"idle", "poll", "wait", "join"}]
           /\ pc'[c] \in {"idle", "poll"}
           /\ \A d \in Clients : d # c => at'[d] = at[d] /\ pc'[d] = pc[d]
<1>1. at \in [Clients -> Players] /\ pc \in [Clients -> {"idle", "poll", "wait", "join"}]
    BY DEF TypeOK
<1> QED BY <1>1, PlayersFacts DEF Advance

LEMMA ConsumeType ==
    ASSUME TypeOK, NEW c \in Clients, check_valid(c), Consume(c)
    PROVE  /\ fed' \in [Clients -> [Players -> Seq(Keys)]]
           /\ buffer' \in [Clients -> [Players -> [Counts -> Seq(Keys)]]]
           /\ count' \in [Clients -> [Players -> Counts]]
           /\ \A d \in Clients : d # c => buffer'[d] = buffer[d] /\ count'[d] = count[d]
<1> DEFINE p == at[c]
           k == count[c][p]
<1>1. p \in Players /\ k \in Counts
    BY DEF TypeOK
<1>2. buffer[c][p][k] \in Seq(Keys) /\ buffer[c][p][k] # << >> /\ fed[c][p] \in Seq(Keys)
    BY <1>1 DEF TypeOK, check_valid, Has
<1>3. Head(buffer[c][p][k]) \in Keys /\ Tail(buffer[c][p][k]) \in Seq(Keys)
    BY <1>2, HeadTailProperties
<1>4. (k + 1) % Modulus \in Counts
    BY <1>1, CountsFacts DEF Counts
<1>5. Append(fed[c][p], Head(buffer[c][p][k])) \in Seq(Keys)
    BY <1>2, <1>3
<1>6. fed' = [fed EXCEPT ![c][p] = Append(@, Head(buffer[c][p][k]))]
    BY DEF Consume
<1>7. buffer' = [buffer EXCEPT ![c][p][k] = Tail(@)]
    BY DEF Consume
<1>8. count' = [count EXCEPT ![c][p] = (@ + 1) % Modulus]
    BY DEF Consume
<1> HIDE DEF p, k
<1>9. fed' \in [Clients -> [Players -> Seq(Keys)]]
    BY <1>1, <1>5, <1>6 DEF TypeOK
<1>10. buffer' \in [Clients -> [Players -> [Counts -> Seq(Keys)]]]
    BY <1>1, <1>3, <1>7 DEF TypeOK
<1>11. count' \in [Clients -> [Players -> Counts]]
    BY <1>1, <1>4, <1>8 DEF TypeOK, k
<1>12. \A d \in Clients : d # c => buffer'[d] = buffer[d] /\ count'[d] = count[d]
    BY <1>7, <1>8 DEF TypeOK
<1> QED BY <1>9, <1>10, <1>11, <1>12

-----------------------------------------------------------------------------
(* What the two threads of one client agree on. *)
ClientOK(c) ==
    /\ req[c] = "found" => pc[c] \in {"wait", "join"} /\ check_valid(c)
    /\ ~running[c] => ~bound[c]
    /\ pc[c] \in {"wait", "join"} <=> req[c] # "none"
    /\ req[c] = "lost" => ~bound[c]

LEMMA ClientsOK ==
    EventPresent /\ StopHasCause <=> \A c \in Clients : ClientOK(c)
BY DEF EventPresent, StopHasCause, ClientOK

(* The inductive invariant: the types need it, because the search of the   *)
(* event list is typed only when the event is there.                       *)
ThreadInv == TypeOK /\ \A c \in Clients : ClientOK(c)

(* A client whose own state does not change stays as it is. *)
LEMMA ClientKept ==
    ASSUME NEW d \in Clients, ClientOK(d),
           pc'[d] = pc[d], at'[d] = at[d], req'[d] = req[d], bound'[d] = bound[d],
           count'[d] = count[d], buffer'[d] = buffer[d], running'[d] = running[d]
    PROVE  ClientOK(d)'
BY DEF ClientOK, check_valid, Has

LEMMA InitThreadInv == Init => ThreadInv
<1> SUFFICES ASSUME Init
             PROVE  ThreadInv
    OBVIOUS
<1>1. TypeOK
    <2>1. << >> \in Seq(Keys)
        OBVIOUS
    <2>2. 0 \in LagValues
        BY ConstantsAssumption
    <2> QED BY <2>1, <2>2, PlayersFacts, CountsFacts DEF Init, TypeOK
<1>2. \A c \in Clients : ClientOK(c)
    BY DEF Init, ClientOK
<1> QED BY <1>1, <1>2 DEF ThreadInv

LEMMA AssignKeeps ==
    ASSUME ThreadInv, NEW p \in Players, Assign(p)
    PROVE  ThreadInv'
<1> USE DEF ThreadInv
<1>1. PICK k \in Keys : log' = [log EXCEPT ![p] = Append(@, k)]
    BY DEF Assign
<1>2. log' \in [Players -> Seq(Keys)]
    BY <1>1 DEF TypeOK
<1>3. UNCHANGED <<sent, pc, at, req, bound, count, buffer, fed, running, lag, canFF, limiter>>
    BY DEF Assign, threads, lists, speed
<1>4. TypeOK'
    BY <1>2, <1>3 DEF TypeOK
<1>5. \A d \in Clients : ClientOK(d)'
    BY <1>3, ClientKept
<1> QED BY <1>4, <1>5

LEMMA SendInputKeeps ==
    ASSUME ThreadInv, NEW c \in Clients, SendInput(c)
    PROVE  ThreadInv'
<1> USE DEF ThreadInv
<1>1. PICK press \in [{p \in Players : Owner[p] = c} -> Keys] :
        sent' = sent \cup {[player |-> p, n |-> Len(fed[c][p]), keys |-> press[p]] :
                            p \in DOMAIN press}
    BY DEF SendInput
<1>2. sent' \in SUBSET KeyInfo
    <2>1. \A p \in DOMAIN press : p \in Players /\ press[p] \in Keys /\ Len(fed[c][p]) \in Nat
        BY DEF TypeOK
    <2> QED BY <1>1, <2>1 DEF TypeOK, KeyInfo
<1>3. /\ pc[c] = "idle" /\ pc' = [pc EXCEPT ![c] = "poll"]
      /\ UNCHANGED <<log, at, req, bound, count, buffer, fed, running, lag, canFF, limiter>>
    BY DEF SendInput, lists, speed
<1>4. TypeOK'
    BY <1>2, <1>3 DEF TypeOK
<1>5. ClientOK(c)'
    BY <1>3 DEF ClientOK, check_valid, Has, TypeOK
<1>6. \A d \in Clients : d # c => ClientOK(d)'
    BY <1>3, ClientKept DEF TypeOK
<1> QED BY <1>4, <1>5, <1>6

LEMMA ProcessKeeps ==
    ASSUME ThreadInv, NEW c \in Clients, Process(c)
    PROVE  ThreadInv'
<1> USE DEF ThreadInv
<1>1. PICK p \in Players, first \in 0 .. MaxInputs - 1, last \in 0 .. MaxInputs - 1 :
        /\ last < Len(log[p])
        /\ buffer' = [buffer EXCEPT ![c][p] = Insert(c, p, first, last)]
        /\ \/ \E v \in LagValues : lag' = [lag EXCEPT ![c][p] = v]
           \/ UNCHANGED lag
    BY DEF Process, Answer
<1>2. first \in Nat /\ last \in Nat
    BY ConstantsAssumption
<1>3. /\ Insert(c, p, first, last) \in [Counts -> Seq(Keys)]
      /\ \A k \in Counts : Has(c, p, k) => Insert(c, p, first, last)[k] # << >>
    BY <1>1, <1>2, InsertType
<1>4. UNCHANGED <<log, sent, pc, at, req, bound, count, fed, running, canFF, limiter>>
    BY DEF Process, server, threads
<1> DEFINE I == Insert(c, p, first, last)
<1>5. buffer' = [buffer EXCEPT ![c][p] = I]
    BY <1>1
<1>6. I \in [Counts -> Seq(Keys)] /\ \A k \in Counts : Has(c, p, k) => I[k] # << >>
    BY <1>3
<1> HIDE DEF I
<1>7. buffer' \in [Clients -> [Players -> [Counts -> Seq(Keys)]]]
    BY <1>5, <1>6 DEF TypeOK
<1>8. lag' \in [Clients -> [Players -> LagValues]]
    <2>1. lag \in [Clients -> [Players -> LagValues]]
        BY DEF TypeOK
    <2>2. CASE UNCHANGED lag
        BY <2>1, <2>2
    <2>3. CASE \E v \in LagValues : lag' = [lag EXCEPT ![c][p] = v]
        BY <2>1, <2>3
    <2> QED BY <1>1, <2>2, <2>3
<1>9. TypeOK'
    BY <1>4, <1>7, <1>8 DEF TypeOK
<1>10. check_valid(c) => check_valid(c)'
    <2>1. at[c] \in Players /\ count[c][at[c]] \in Counts
        BY DEF TypeOK
    <2>2. CASE at[c] = p
        BY <1>4, <1>5, <1>6, <2>1, <2>2 DEF check_valid, Has, TypeOK
    <2>3. CASE at[c] # p
        BY <1>4, <1>5, <2>1, <2>3 DEF check_valid, Has, TypeOK
    <2> QED BY <2>2, <2>3
<1>11. ClientOK(c)'
    BY <1>4, <1>10 DEF ClientOK
<1>12. \A d \in Clients : d # c => ClientOK(d)'
    BY <1>4, <1>5, ClientKept DEF TypeOK
<1> QED BY <1>9, <1>11, <1>12

(* The calls netplay_get_input makes before and after it has the input. *)
LEMMA FastForwardType ==
    ASSUME TypeOK, NEW c \in Clients, FastForward(c)
    PROVE  /\ canFF' \in [Clients -> BOOLEAN]
           /\ limiter' \in [Clients -> BOOLEAN]
           /\ lag' = lag
<1> DEFINE behind == lag[c][at[c]] > 0 /\ buffer_size(c, at[c]) > BufferTarget
<1>1. behind \in BOOLEAN
    OBVIOUS
<1>2. /\ canFF' = [canFF EXCEPT ![c] = behind]
      /\ limiter' = [limiter EXCEPT ![c] =
                       IF behind THEN FALSE ELSE IF canFF[c] THEN TRUE ELSE @]
      /\ lag' = lag
    BY DEF FastForward
<1> HIDE DEF behind
<1>3. canFF \in [Clients -> BOOLEAN] /\ limiter \in [Clients -> BOOLEAN]
    BY DEF TypeOK
<1>4. canFF' \in [Clients -> BOOLEAN]
    BY <1>1, <1>2, <1>3
<1>5. limiter' \in [Clients -> BOOLEAN]
    <2>1. CASE behind
        BY <1>2, <1>3, <2>1
    <2>2. CASE ~behind
        <3>1. (IF canFF[c] THEN TRUE ELSE limiter[c]) \in BOOLEAN
            BY <1>3
        <3> QED BY <1>2, <1>3, <2>2, <3>1
    <2> QED BY <2>1, <2>2
<1> QED BY <1>2, <1>4, <1>5

ReadTypes ==
    /\ fed' \in [Clients -> [Players -> Seq(Keys)]]
    /\ buffer' \in [Clients -> [Players -> [Counts -> Seq(Keys)]]]
    /\ count' \in [Clients -> [Players -> Counts]]
    /\ at' \in [Clients -> Players]
    /\ pc' \in [Clients -> {"idle", "poll", "wait", "join"}]
    /\ running' \in [Clients -> BOOLEAN]

ReadOwn(c) == pc'[c] \in {"idle", "poll"} /\ (~running'[c] => ~bound[c])

ReadOthers(c) ==
    \A d \in Clients : d # c =>
        /\ pc'[d] = pc[d] /\ at'[d] = at[d] /\ running'[d] = running[d]
        /\ buffer'[d] = buffer[d] /\ count'[d] = count[d]

(* A read that ends, with or without the input, leaves the thread idle or  *)
(* at the next controller, and nothing of another client touched.          *)
LEMMA ReadEnds ==
    ASSUME ThreadInv, NEW c \in Clients,
           \/ check_valid(c) /\ Consume(c)
           \/ LoseServer(c) /\ ~bound[c]
    PROVE  ReadTypes /\ ReadOwn(c) /\ ReadOthers(c)
<1> USE DEF ThreadInv, ReadTypes, ReadOwn, ReadOthers
<1>1. CASE check_valid(c) /\ Consume(c)
    <2>1. Advance(c) /\ running' = running
        BY <1>1 DEF Consume
    <2>2. running \in [Clients -> BOOLEAN] /\ (~running[c] => ~bound[c])
        BY DEF TypeOK, ClientOK
    <2> QED BY <1>1, <2>1, <2>2, ConsumeType, AdvanceType
<1>2. CASE LoseServer(c) /\ ~bound[c]
    <2>1. Advance(c) /\ running' = [running EXCEPT ![c] = FALSE]
          /\ UNCHANGED <<count, buffer, fed>>
        BY <1>2 DEF LoseServer, lists
    <2>2. /\ running \in [Clients -> BOOLEAN]
          /\ fed \in [Clients -> [Players -> Seq(Keys)]]
          /\ buffer \in [Clients -> [Players -> [Counts -> Seq(Keys)]]]
          /\ count \in [Clients -> [Players -> Counts]]
        BY DEF TypeOK
    <2> QED BY <1>2, <2>1, <2>2, AdvanceType
<1> QED BY <1>1, <1>2

LEMMA GetInputKeeps ==
    ASSUME ThreadInv, NEW c \in Clients, GetInput(c)
    PROVE  ThreadInv'
<1> USE DEF ThreadInv
<1>1. pc[c] = "poll" /\ FastForward(c) /\ UNCHANGED <<log, sent, bound>>
    BY DEF GetInput, server
<1>2. /\ canFF' \in [Clients -> BOOLEAN] /\ limiter' \in [Clients -> BOOLEAN]
      /\ lag' = lag
    BY <1>1, FastForwardType
<1>3. req[c] = "none"
    BY <1>1 DEF ClientOK
<1>4. CASE /\ (check_valid(c) /\ Consume(c)) \/ (LoseServer(c) /\ ~bound[c])
           /\ UNCHANGED req
    <2>1. ReadTypes /\ ReadOwn(c) /\ ReadOthers(c)
        BY <1>4, ReadEnds, Zenon
    <2>2. TypeOK'
        BY <1>1, <1>2, <1>4, <2>1 DEF TypeOK, ReadTypes
    <2>3. ClientOK(c)'
        BY <1>1, <1>3, <1>4, <2>1 DEF ClientOK, ReadOwn
    <2>4. \A d \in Clients : d # c => ClientOK(d)'
        BY <1>1, <1>4, <2>1, ClientKept DEF ReadOthers
    <2> QED BY <2>2, <2>3, <2>4
<1>5. CASE /\ bound[c] /\ req' = [req EXCEPT ![c] = "check"]
           /\ pc' = [pc EXCEPT ![c] = "wait"]
           /\ UNCHANGED <<at, lists, fed, running>>
    <2>1. TypeOK'
        BY <1>1, <1>2, <1>5 DEF TypeOK, lists
    <2>2. ClientOK(c)'
        BY <1>1, <1>5 DEF ClientOK, TypeOK
    <2>3. \A d \in Clients : d # c => ClientOK(d)'
        BY <1>1, <1>5, ClientKept DEF TypeOK, lists
    <2> QED BY <2>1, <2>2, <2>3
<1>6. \/ check_valid(c) /\ Consume(c) /\ UNCHANGED req
      \/ ~check_valid(c) /\ ~bound[c] /\ LoseServer(c) /\ UNCHANGED req
      \/ /\ ~check_valid(c) /\ bound[c]
         /\ req' = [req EXCEPT ![c] = "check"]
         /\ pc' = [pc EXCEPT ![c] = "wait"]
         /\ UNCHANGED <<at, lists, fed, running>>
    BY Zenon DEF GetInput
<1> QED BY <1>4, <1>5, <1>6, Zenon

LEMMA StopWaitingKeeps ==
    ASSUME ThreadInv, NEW c \in Clients, StopWaiting(c)
    PROVE  ThreadInv'
<1> USE DEF ThreadInv
<1>1. /\ pc[c] = "wait" /\ pc' = [pc EXCEPT ![c] = "join"]
      /\ UNCHANGED <<log, sent, at, req, bound, count, buffer, fed, running, lag, canFF, limiter>>
    BY DEF StopWaiting, server, lists, speed
<1>2. TypeOK'
    BY <1>1 DEF TypeOK
<1>3. ClientOK(c)'
    BY <1>1 DEF ClientOK, check_valid, Has, TypeOK
<1>4. \A d \in Clients : d # c => ClientOK(d)'
    BY <1>1, ClientKept DEF TypeOK
<1> QED BY <1>2, <1>3, <1>4

LEMMA JoinKeeps ==
    ASSUME ThreadInv, NEW c \in Clients, Join(c)
    PROVE  ThreadInv'
<1> USE DEF ThreadInv
<1>1. /\ req' = [req EXCEPT ![c] = "none"]
      /\ UNCHANGED <<log, sent, bound, lag, canFF, limiter>>
    BY DEF Join, server, speed
<1>2. (check_valid(c) /\ Consume(c)) \/ (LoseServer(c) /\ ~bound[c])
    BY DEF Join, ClientOK
<1>3. ReadTypes /\ ReadOwn(c) /\ ReadOthers(c)
    BY <1>2, ReadEnds, Zenon
<1>4. TypeOK'
    BY <1>1, <1>3 DEF TypeOK, ReadTypes
<1>5. ClientOK(c)'
    <2>1. req'[c] = "none" /\ bound' = bound
        BY <1>1 DEF TypeOK
    <2> QED BY <1>3, <2>1 DEF ClientOK, ReadOwn
<1>6. \A d \in Clients : d # c => ClientOK(d)'
    <2>1. \A d \in Clients : d # c => req'[d] = req[d] /\ bound'[d] = bound[d]
        BY <1>1 DEF TypeOK
    <2> QED BY <1>3, <2>1, ClientKept DEF ReadOthers
<1> QED BY <1>4, <1>5, <1>6

LEMMA RequireKeeps ==
    ASSUME ThreadInv, NEW c \in Clients, Require(c)
    PROVE  ThreadInv'
<1> USE DEF ThreadInv
<1>1. UNCHANGED <<log, sent, pc, at, count, buffer, fed, running, lag, canFF, limiter>>
    BY DEF Require, Found, Expire, Unbind, server, lists, speed
<1>2. CASE Found(c)
    <2>1. /\ req[c] = "check" /\ check_valid(c) /\ bound' = bound
          /\ req' = [req EXCEPT ![c] = "found"]
        BY <1>2 DEF Found
    <2>2. TypeOK'
        BY <1>1, <2>1 DEF TypeOK
    <2>3. ClientOK(c)'
        BY <1>1, <2>1 DEF ClientOK, check_valid, Has, TypeOK
    <2>4. \A d \in Clients : d # c => ClientOK(d)'
        BY <1>1, <2>1, ClientKept DEF TypeOK
    <2> QED BY <2>2, <2>3, <2>4
<1>3. CASE Expire(c)
    <2>1. req[c] = "check" /\ bound' = bound /\ req' = [req EXCEPT ![c] = "expired"]
        BY <1>3 DEF Expire
    <2>2. TypeOK'
        BY <1>1, <2>1 DEF TypeOK
    <2>3. ClientOK(c)'
        BY <1>1, <2>1 DEF ClientOK, TypeOK
    <2>4. \A d \in Clients : d # c => ClientOK(d)'
        BY <1>1, <2>1, ClientKept DEF TypeOK
    <2> QED BY <2>2, <2>3, <2>4
<1>4. CASE Unbind(c)
    <2>1. /\ req[c] = "expired" /\ req' = [req EXCEPT ![c] = "lost"]
          /\ bound' = [bound EXCEPT ![c] = FALSE]
        BY <1>4 DEF Unbind
    <2>2. TypeOK'
        BY <1>1, <2>1 DEF TypeOK
    <2>3. ClientOK(c)'
        BY <1>1, <2>1 DEF ClientOK, TypeOK
    <2>4. \A d \in Clients : d # c => ClientOK(d)'
        BY <1>1, <2>1, ClientKept DEF TypeOK
    <2> QED BY <2>2, <2>3, <2>4
<1> QED BY <1>2, <1>3, <1>4 DEF Require

LEMMA NextThreadInv == ThreadInv /\ [Next]_vars => ThreadInv'
<1> SUFFICES ASSUME ThreadInv, [Next]_vars
             PROVE  ThreadInv'
    OBVIOUS
<1>1. CASE UNCHANGED vars
    <2>1. UNCHANGED <<log, sent, pc, at, req, bound, count, buffer, fed, running,
                      lag, canFF, limiter>>
        BY <1>1 DEF vars, server, threads, lists, speed
    <2>2. TypeOK'
        BY <2>1 DEF ThreadInv, TypeOK
    <2>3. \A d \in Clients : ClientOK(d)'
        BY <2>1, ClientKept DEF ThreadInv
    <2> QED BY <2>2, <2>3 DEF ThreadInv
<1>2. CASE Next
    BY <1>2, AssignKeeps, SendInputKeeps, ProcessKeeps, GetInputKeeps,
       StopWaitingKeeps, JoinKeeps, RequireKeeps DEF Next, Emulate
<1> QED BY <1>1, <1>2

-----------------------------------------------------------------------------
LEMMA SpecThreadInv == Spec => []ThreadInv
BY InitThreadInv, NextThreadInv, PTL DEF Spec

(* Every counter stays a 32-bit value and every list a list of keys,       *)
(* whatever the network delivers to netplay_process and whatever the two   *)
(* threads of a client do in between.                                      *)
THEOREM TypeCorrect == Spec => []TypeOK
<1>1. ThreadInv => TypeOK
    BY DEF ThreadInv
<1> QED BY <1>1, SpecThreadInv, PTL

(* A requester thread that netplay_ensure_valid waited for and that        *)
(* reported success left the input in the list netplay_get_input searches. *)
THEOREM EventPresentCorrect == Spec => []EventPresent
<1>1. ThreadInv => EventPresent
    BY DEF ThreadInv, ClientOK, EventPresent
<1> QED BY <1>1, SpecThreadInv, PTL

(* The emulator is told to stop only after a requester thread ran out of   *)
(* time and closed the channel, and the emulation thread waits exactly     *)
(* while a requester thread exists.                                        *)
THEOREM StopHasCauseCorrect == Spec => []StopHasCause
<1>1. ThreadInv => StopHasCause
    BY DEF ThreadInv, ClientOK, StopHasCause
<1> QED BY <1>1, SpecThreadInv, PTL

-----------------------------------------------------------------------------
(* The speed limiter is off only while netplay catches up. *)
THEOREM LimiterCorrect == Spec => []LimiterOffMeansBehind
<1>1. Init => LimiterOffMeansBehind
    BY DEF Init, LimiterOffMeansBehind
<1>2. TypeOK /\ LimiterOffMeansBehind /\ [Next]_vars => LimiterOffMeansBehind'
    <2> SUFFICES ASSUME TypeOK, LimiterOffMeansBehind, [Next]_vars
                 PROVE  LimiterOffMeansBehind'
        OBVIOUS
    <2>1. canFF \in [Clients -> BOOLEAN] /\ limiter \in [Clients -> BOOLEAN]
        BY DEF TypeOK
    <2>2. ASSUME NEW c \in Clients, FastForward(c) PROVE LimiterOffMeansBehind'
        <3> DEFINE behind == lag[c][at[c]] > 0 /\ buffer_size(c, at[c]) > BufferTarget
        <3>1. /\ canFF' = [canFF EXCEPT ![c] = behind]
              /\ limiter' = [limiter EXCEPT ![c] =
                               IF behind THEN FALSE ELSE IF canFF[c] THEN TRUE ELSE @]
            BY <2>2 DEF FastForward
        <3> HIDE DEF behind
        <3> QED BY <2>1, <3>1 DEF LimiterOffMeansBehind
    <2>3. CASE UNCHANGED <<canFF, limiter>>
        BY <2>3 DEF LimiterOffMeansBehind
    <2>4. UNCHANGED <<canFF, limiter>> \/ \E c \in Clients : FastForward(c)
        BY DEF Next, vars, speed, Assign, Emulate, Process, Require, SendInput, GetInput,
               StopWaiting, Join, Found, Expire, Unbind
    <2> QED BY <2>2, <2>3, <2>4
<1> QED BY <1>1, <1>2, TypeCorrect, PTL DEF Spec

-----------------------------------------------------------------------------
(***************************************************************************)
(* Lockstep.  The counter of a list is the number of inputs read, wrapped. *)
(* Since the inputs held are fewer than half the range ahead, and an old   *)
(* answer is less than half of it behind, the wrapped difference tells     *)
(* them apart, and the node found under the counter is the next input.     *)
(***************************************************************************)
LEMMA ModulusFacts ==
    /\ Modulus \in Nat \ {0} /\ MaxRun \in Nat \ {0} /\ MaxStale \in Nat
    /\ 2 * MaxRun <= Modulus /\ 2 * MaxStale <= Modulus
BY ConstantsAssumption

(* The next MaxRun numbers after m. *)
LEMMA InReach ==
    ASSUME NEW m \in Nat, NEW n \in m .. m + MaxRun - 1
    PROVE  n \in Nat /\ m <= n /\ n < m + Modulus
BY ModulusFacts

LEMMA Within ==
    ASSUME NEW n \in Nat, NEW l \in Nat, n < l
    PROVE  n + 1 \in 1 .. l /\ \A r \in Nat : l <= r => n < r
OBVIOUS

LEMMA MultAtLeast ==
    ASSUME NEW d \in Int, d > 0
    PROVE  Modulus * d >= Modulus
<1> DEFINE M == Modulus
<1>1. M \in Nat \ {0}
    BY ModulusFacts
<1> HIDE DEF M
<1>2. M * d >= M
    BY <1>1, SMTT(30)
<1> QED BY <1>2 DEF M

LEMMA DivMod ==
    ASSUME NEW x \in Int
    PROVE  /\ x % Modulus \in 0 .. Modulus - 1 /\ x \div Modulus \in Int
           /\ x = Modulus * (x \div Modulus) + (x % Modulus)
<1> DEFINE M == Modulus
<1>1. M \in Nat \ {0}
    BY ModulusFacts
<1> HIDE DEF M
<1>2. x % M \in 0 .. M - 1 /\ x \div M \in Int /\ x = M * (x \div M) + (x % M)
    BY <1>1, SMTT(30)
<1> QED BY <1>2 DEF M

(* A difference below the range that is a number of turns is none.         *)
LEMMA NoTurns ==
    ASSUME NEW e \in Int, NEW d \in Int, e = Modulus * d, e < Modulus, -e < Modulus
    PROVE  e = 0
<1> DEFINE M == Modulus
<1>1. M \in Nat \ {0} /\ e = M * d /\ e < M /\ -e < M
    BY ModulusFacts
<1>2. \A k \in Int : k > 0 => M * k >= M
    BY MultAtLeast
<1> HIDE DEF M
<1>3. M * (-d) = -(M * d) /\ -d \in Int
    BY <1>1
<1>4. CASE d > 0
    BY <1>1, <1>2, <1>4
<1>5. CASE d < 0
    <2>1. M * (-d) >= M
        BY <1>2, <1>3, <1>5
    <2> QED BY <1>1, <1>3, <2>1
<1>6. CASE d = 0
    <2>1. M * d = 0
        BY <1>1, <1>6
    <2> QED BY <1>1, <2>1
<1> QED BY <1>4, <1>5, <1>6

LEMMA Distribute ==
    ASSUME NEW m \in Int, NEW i \in Int, NEW j \in Int, NEW k \in Int
    PROVE  m * j + m * k - m * i = m * (j + k - i) /\ j + k - i \in Int
BY SMTT(30)

(* Numbers that differ by turns have the same residue. *)
LEMMA SameResidue ==
    ASSUME NEW x \in Int, NEW y \in Int, NEW k \in Int, x = y + Modulus * k
    PROVE  x % Modulus = y % Modulus
<1> DEFINE a == x % Modulus  b == y % Modulus  i == x \div Modulus  j == y \div Modulus
           M == Modulus
<1>1. /\ a \in 0 .. M - 1 /\ i \in Int /\ x = M * i + a
      /\ b \in 0 .. M - 1 /\ j \in Int /\ y = M * j + b
      /\ M \in Int /\ x = y + M * k
    <2>1. a \in 0 .. M - 1 /\ i \in Int /\ x = M * i + a
        BY DivMod, Zenon
    <2>2. b \in 0 .. M - 1 /\ j \in Int /\ y = M * j + b
        BY DivMod, Zenon
    <2>3. M \in Int
        BY ModulusFacts
    <2> QED BY <2>1, <2>2, <2>3, Zenon
<1>2. \A e, d \in Int : e = M * d /\ e < M /\ -e < M => e = 0
    BY NoTurns
<1> HIDE DEF a, b, i, j, M
<1>3. a - b = M * j + M * k - M * i
    BY <1>1, SMTT(30)
<1>4. M * j + M * k - M * i = M * (j + k - i) /\ j + k - i \in Int
    BY <1>1, Distribute
<1>5. a - b \in Int /\ a - b < M /\ -(a - b) < M
    <2>1. a \in 0 .. M - 1 /\ b \in 0 .. M - 1 /\ M \in Int
        BY <1>1
    <2> QED BY <2>1
<1>6. a - b = 0
    BY <1>2, <1>3, <1>4, <1>5
<1>7. a = b
    BY <1>1, <1>6
<1> QED BY <1>7 DEF a, b

(* A residue differs from its number by turns. *)
LEMMA ResidueTurns ==
    ASSUME NEW x \in Int
    PROVE  \E k \in Int : x % Modulus = x + Modulus * k
<1> DEFINE a == x % Modulus  i == x \div Modulus  M == Modulus
<1>1. a \in 0 .. M - 1 /\ i \in Int /\ x = M * i + a /\ M \in Int
    <2>1. a \in 0 .. M - 1 /\ i \in Int /\ x = M * i + a
        BY DivMod, Zenon
    <2> QED BY <2>1, ModulusFacts
<1> HIDE DEF a, i, M
<1>2. a = x + M * (-i) /\ -i \in Int
    BY <1>1
<1> QED BY <1>2 DEF a, M

LEMMA SmallResidue ==
    ASSUME NEW x \in 0 .. Modulus - 1
    PROVE  x % Modulus = x
<1> DEFINE M == Modulus  a == x % Modulus  i == x \div Modulus
<1>1. a \in 0 .. M - 1 /\ i \in Int /\ x = M * i + a /\ M \in Int /\ x \in 0 .. M - 1
    <2>1. x \in Int /\ M \in Int
        BY ModulusFacts
    <2>2. a \in 0 .. M - 1 /\ i \in Int /\ x = M * i + a
        BY <2>1, DivMod, Zenon
    <2> QED BY <2>1, <2>2
<1>2. \A e, d \in Int : e = M * d /\ e < M /\ -e < M => e = 0
    BY NoTurns
<1> HIDE DEF a, i, M
<1>3. x - a \in Int /\ x - a = M * i /\ x - a < M /\ -(x - a) < M
    BY <1>1
<1>4. x - a = 0
    BY <1>1, <1>2, <1>3
<1> QED BY <1>1, <1>4 DEF a

(* Two numbers less than the range apart with one residue are equal.       *)
LEMMA OneNumber ==
    ASSUME NEW x \in Int, NEW y \in Int, x % Modulus = y % Modulus, x <= y, y < x + Modulus
    PROVE  x = y
<1> DEFINE M == Modulus  a == x % Modulus  i == x \div Modulus  j == y \div Modulus
<1>1. /\ a \in 0 .. M - 1 /\ i \in Int /\ x = M * i + a
      /\ j \in Int /\ y = M * j + a /\ M \in Int
    <2>1. a \in 0 .. M - 1 /\ i \in Int /\ x = M * i + a
        BY DivMod, Zenon
    <2>2. j \in Int /\ y = M * j + (y % Modulus)
        BY DivMod, Zenon
    <2>3. M \in Int /\ a = y % Modulus
        BY ModulusFacts
    <2> QED BY <2>1, <2>2, <2>3, Zenon
<1>2. \A e, d \in Int : e = M * d /\ e < M /\ -e < M => e = 0
    BY NoTurns
<1>3. x <= y /\ y < x + M
    OBVIOUS
<1> HIDE DEF a, i, j, M
<1>4. y - x = M * j - M * i
    BY <1>1
<1>5. M * j - M * i = M * (j - i) /\ j - i \in Int
    BY <1>1
<1>6. y - x \in Int /\ y - x < M /\ -(y - x) < M
    BY <1>1, <1>3
<1>7. y - x = 0
    BY <1>2, <1>4, <1>5, <1>6
<1> QED BY <1>7

(* The counter after one more input. *)
LEMMA NextCount ==
    ASSUME NEW n \in Nat
    PROVE  ((n % Modulus) + 1) % Modulus = (n + 1) % Modulus
<1>1. PICK k \in Int : n % Modulus = n + Modulus * k
    BY ResidueTurns
<1>2. (n % Modulus) + 1 = (n + 1) + Modulus * k
    BY <1>1, ModulusFacts
<1>3. (n % Modulus) + 1 \in Int
    BY DivMod, ModulusFacts
<1> QED BY <1>2, <1>3, SameResidue

(* An input read before is behind the counter. *)
LEMMA ReadIsBehind ==
    ASSUME NEW n \in Nat, NEW m \in Nat, n < m, m <= n + MaxStale
    PROVE  ((n % Modulus) + Modulus - (m % Modulus)) % Modulus > (Modulus - 1) \div 2
<1> DEFINE M == Modulus  e == m - n  x == (n % Modulus) + Modulus - (m % Modulus)
<1>1. e \in Nat /\ e > 0 /\ 2 * e <= M /\ M \in Nat
    BY ModulusFacts
<1>2. M - e \in 0 .. M - 1
    BY <1>1
<1>3. PICK i \in Int, j \in Int : n % M = n + M * i /\ m % M = m + M * j
    BY ResidueTurns
<1>4. x \in Int
    BY DivMod, ModulusFacts
<1>5. x = (M - e) + M * (i - j) /\ i - j \in Int
    BY <1>1, <1>3
<1>6. x % M = (M - e) % M
    BY <1>2, <1>4, <1>5, SameResidue
<1>7. (M - e) % M = M - e
    BY <1>2, SmallResidue
<1>8. (M - 1) \div 2 < M - e
    BY <1>1
<1> QED BY <1>6, <1>7, <1>8

-----------------------------------------------------------------------------
(* What a client has read and what it holds of player p. *)
NodeOK(c, p, k) ==
    Has(c, p, k) =>
        \E n \in Len(fed[c][p]) .. Len(fed[c][p]) + MaxRun - 1 :
            /\ n < Len(log[p])
            /\ k = n % Modulus
            /\ buffer[c][p][k] = << log[p][n + 1] >>

ReadOK(c, p) ==
    /\ Agrees(fed[c][p], p)
    /\ count[c][p] = Len(fed[c][p]) % Modulus
    /\ \A k \in Counts : NodeOK(c, p, k)

LogInv == \A c \in Clients, p \in Players : ReadOK(c, p)

LEMMA LogInitially == Init => LogInv
<1> SUFFICES ASSUME Init, NEW c \in Clients, NEW p \in Players
             PROVE  ReadOK(c, p)
    BY DEF LogInv
<1>1. /\ fed[c][p] = << >> /\ log[p] = << >> /\ count[c][p] = 0
      /\ \A k \in Counts : buffer[c][p][k] = << >>
    BY DEF Init
<1>2. 0 % Modulus = 0
    BY ModulusFacts, SmallResidue
<1> QED BY <1>1, <1>2 DEF ReadOK, Agrees, NodeOK, Has

(* A list that is not touched stays as it is, while the log grows.         *)
LEMMA ReadKept ==
    ASSUME TypeOK, NEW c \in Clients, NEW p \in Players, ReadOK(c, p),
           fed'[c][p] = fed[c][p], count'[c][p] = count[c][p], buffer'[c][p] = buffer[c][p],
           Len(log'[p]) \in Nat, Len(log[p]) <= Len(log'[p]),
           \A i \in 1 .. Len(log[p]) : log'[p][i] = log[p][i]
    PROVE  ReadOK(c, p)'
<1>1. Len(fed[c][p]) \in Nat /\ Len(log[p]) \in Nat
    BY DEF TypeOK
<1>2. Agrees(fed[c][p], p)'
    BY <1>1 DEF ReadOK, Agrees
<1>3. ASSUME NEW k \in Counts PROVE NodeOK(c, p, k)'
    <2> SUFFICES ASSUME Has(c, p, k)'
                 PROVE  \E n \in Len(fed[c][p]) .. Len(fed[c][p]) + MaxRun - 1 :
                            /\ n < Len(log'[p])
                            /\ k = n % Modulus
                            /\ buffer[c][p][k] = << log'[p][n + 1] >>
        BY DEF NodeOK
    <2>1. PICK n \in Len(fed[c][p]) .. Len(fed[c][p]) + MaxRun - 1 :
            n < Len(log[p]) /\ k = n % Modulus /\ buffer[c][p][k] = << log[p][n + 1] >>
        BY <1>3 DEF ReadOK, NodeOK, Has
    <2>2. n + 1 \in 1 .. Len(log[p]) /\ n < Len(log'[p])
        <3>1. n \in Nat
            BY <1>1, InReach
        <3> QED BY <1>1, <2>1, <3>1, Within
    <2>3. log'[p][n + 1] = log[p][n + 1]
        BY <2>2
    <2> QED BY <2>1, <2>2, <2>3
<1> QED BY <1>2, <1>3 DEF ReadOK, Agrees

(* The node under the counter holds the next input, and no other does. *)
LEMMA NextInput ==
    ASSUME TypeOK, LogInv, NEW c \in Clients, NEW p \in Players, Has(c, p, count[c][p])
    PROVE  /\ Len(fed[c][p]) < Len(log[p])
           /\ buffer[c][p][count[c][p]] = << log[p][Len(fed[c][p]) + 1] >>
<1> DEFINE m == Len(fed[c][p])
<1>1. ReadOK(c, p) /\ m \in Nat /\ count[c][p] \in Counts
    BY DEF LogInv, TypeOK
<1>2. PICK n \in m .. m + MaxRun - 1 :
        /\ n < Len(log[p]) /\ count[c][p] = n % Modulus
        /\ buffer[c][p][count[c][p]] = << log[p][n + 1] >>
    BY <1>1 DEF ReadOK, NodeOK
<1>3. n % Modulus = m % Modulus
    BY <1>1, <1>2 DEF ReadOK
<1>4. m <= n /\ n < m + Modulus /\ n \in Int
    BY <1>1, InReach
<1>5. m = n
    BY <1>1, <1>3, <1>4, OneNumber
<1> QED BY <1>2, <1>5

LEMMA ConsumeReads ==
    ASSUME TypeOK, LogInv, NEW c \in Clients, check_valid(c), Consume(c), log' = log
    PROVE  /\ LogInv'
           /\ Len(fed[c][at[c]]) < Len(log[at[c]])
           /\ fed' = [fed EXCEPT ![c][at[c]] = Append(@, log[at[c]][Len(@) + 1])]
<1>1. PICK p \in Players : p = at[c]
    BY DEF TypeOK
<1>2. PICK k \in Counts : k = count[c][p]
    BY DEF TypeOK
<1>3. PICK m \in Nat : m = Len(fed[c][p])
    BY DEF TypeOK
<1>4. m < Len(log[p]) /\ buffer[c][p][k] = << log[p][m + 1] >>
    BY <1>1, <1>2, <1>3, NextInput DEF check_valid
<1>5. /\ fed' = [fed EXCEPT ![c][p] = Append(@, log[p][m + 1])]
      /\ buffer' = [buffer EXCEPT ![c][p][k] = << >>]
      /\ count' = [count EXCEPT ![c][p] = (@ + 1) % Modulus]
    <2>1. Head(buffer[c][p][k]) = log[p][m + 1] /\ Tail(buffer[c][p][k]) = << >>
        BY <1>4
    <2>2. /\ fed' = [fed EXCEPT ![c][p] = Append(@, Head(buffer[c][p][k]))]
          /\ buffer' = [buffer EXCEPT ![c][p][k] = Tail(@)]
          /\ count' = [count EXCEPT ![c][p] = (@ + 1) % Modulus]
        BY <1>1, <1>2 DEF Consume
    <2> QED BY <2>1, <2>2
<1>6. /\ fed'[c][p] = Append(fed[c][p], log[p][m + 1]) /\ count'[c][p] = (k + 1) % Modulus
      /\ buffer'[c][p] = [buffer[c][p] EXCEPT ![k] = << >>]
    BY <1>2, <1>5 DEF TypeOK
<1>7. /\ fed[c][p] \in Seq(Keys) /\ log[p] \in Seq(Keys) /\ Len(log[p]) \in Nat
      /\ buffer[c][p] \in [Counts -> Seq(Keys)]
      /\ Agrees(fed[c][p], p) /\ k = m % Modulus /\ \A j \in Counts : NodeOK(c, p, j)
    BY <1>2, <1>3 DEF TypeOK, LogInv, ReadOK
<1>8. Len(fed'[c][p]) = m + 1 /\ log[p][m + 1] \in Keys
    BY <1>3, <1>4, <1>6, <1>7
<1>9. Agrees(fed[c][p], p)'
    <2>1. \A i \in 1 .. m + 1 : fed'[c][p][i] = log[p][i]
        BY <1>3, <1>6, <1>7, <1>8 DEF Agrees
    <2> QED BY <1>4, <1>7, <1>8, <2>1 DEF Agrees
<1>10. count'[c][p] = Len(fed'[c][p]) % Modulus
    BY <1>6, <1>7, <1>8, NextCount
<1>11. ASSUME NEW j \in Counts PROVE NodeOK(c, p, j)'
    <2>1. CASE j = k
        BY <1>6, <1>7, <2>1 DEF NodeOK, Has
    <2>2. CASE j # k
        <3>1. buffer'[c][p][j] = buffer[c][p][j]
            BY <1>6, <1>7, <2>2
        <3> SUFFICES ASSUME Has(c, p, j)
                     PROVE  \E n \in m + 1 .. (m + 1) + MaxRun - 1 :
                                /\ n < Len(log[p])
                                /\ j = n % Modulus
                                /\ buffer[c][p][j] = << log[p][n + 1] >>
            BY <1>8, <3>1 DEF NodeOK, Has
        <3>2. PICK n \in m .. m + MaxRun - 1 :
                n < Len(log[p]) /\ j = n % Modulus /\ buffer[c][p][j] = << log[p][n + 1] >>
            BY <1>3, <1>7 DEF NodeOK
        <3>3. n # m
            BY <1>7, <2>2, <3>2
        <3>4. n \in m + 1 .. (m + 1) + MaxRun - 1
            BY <3>2, <3>3, ModulusFacts
        <3> QED BY <3>2, <3>4
    <2> QED BY <2>1, <2>2
<1>12. ReadOK(c, p)'
    BY <1>9, <1>10, <1>11 DEF ReadOK
<1>13. ASSUME NEW d \in Clients, NEW q \in Players, d # c \/ q # p
       PROVE  ReadOK(d, q)'
    <2>1. /\ fed'[d][q] = fed[d][q] /\ count'[d][q] = count[d][q]
          /\ buffer'[d][q] = buffer[d][q]
        BY <1>5, <1>13 DEF TypeOK
    <2>2. ReadOK(d, q) /\ Len(log[q]) \in Nat
        BY DEF LogInv, TypeOK
    <2> QED BY <2>1, <2>2, ReadKept
<1>14. LogInv'
    <2> SUFFICES ASSUME NEW d \in Clients, NEW q \in Players PROVE ReadOK(d, q)'
        BY DEF LogInv
    <2>1. CASE d # c \/ q # p
        BY <1>13, <2>1
    <2>2. CASE d = c /\ q = p
        BY <1>12, <2>2
    <2> QED BY <2>1, <2>2
<1> QED BY <1>1, <1>3, <1>4, <1>5, <1>14

(* A datagram adds inputs the server has assigned, ahead of the counter    *)
(* and under counts where there is none.                                   *)
LEMMA ProcessHolds ==
    ASSUME TypeOK, LogInv, NEW c \in Clients, Process(c)
    PROVE  LogInv'
<1>1. PICK p \in Players, first \in 0 .. MaxInputs - 1, last \in 0 .. MaxInputs - 1 :
        Answer(c, p, first, last) /\ buffer' = [buffer EXCEPT ![c][p] = Insert(c, p, first, last)]
    BY DEF Process
<1>2. UNCHANGED <<log, count, fed>>
    BY DEF Process, server
<1>3. PICK m \in Nat : m = Len(fed[c][p])
    BY DEF TypeOK
<1>4. /\ first \in Nat /\ last \in Nat /\ first <= last /\ last < Len(log[p])
      /\ last < first + MaxRun /\ m <= first + MaxStale /\ first <= m
    BY <1>1, <1>3, ConstantsAssumption DEF Answer
<1>5. ReadOK(c, p) /\ count[c][p] = m % Modulus /\ buffer[c][p] \in [Counts -> Seq(Keys)]
    BY <1>3 DEF LogInv, ReadOK, TypeOK
<1>6. \A k \in Counts : buffer'[c][p][k] = Insert(c, p, first, last)[k]
    BY <1>1 DEF TypeOK
<1>7. ASSUME NEW k \in Counts PROVE NodeOK(c, p, k)'
    <2> DEFINE run == {n \in first .. last : n % Modulus = k}
    <2>1. CASE run = {} \/ Skip(c, p, k)
        <3>1. buffer'[c][p][k] = buffer[c][p][k]
            BY <1>6, <2>1 DEF Insert
        <3>2. NodeOK(c, p, k)
            BY <1>5 DEF ReadOK
        <3> QED BY <1>2, <3>1, <3>2 DEF NodeOK, Has
    <2>2. CASE ~ (run = {} \/ Skip(c, p, k))
        <3>1. PICK n \in run : n = CHOOSE i \in run : TRUE
            BY <2>2
        <3>2. n \in first .. last /\ n % Modulus = k /\ n \in Nat
            BY <1>4, <3>1
        <3>3. buffer'[c][p][k] = << log[p][n + 1] >> \o buffer[c][p][k]
            BY <1>6, <2>2, <3>1 DEF Insert
        <3> HIDE DEF run
        <3>4. buffer[c][p][k] = << >> /\ ~ ((k + Modulus - count[c][p]) % Modulus > (Modulus - 1) \div 2)
            BY <2>2 DEF Skip, Has
        <3>5. log[p][n + 1] \in Keys
            BY <1>4, <3>2 DEF TypeOK
        <3>6. buffer'[c][p][k] = << log[p][n + 1] >>
            <4>1. << log[p][n + 1] >> \in Seq(Keys)
                BY <3>5
            <4> QED BY <3>3, <3>4, <4>1
        <3>7. m <= n
            <4> SUFFICES ASSUME n < m PROVE FALSE
                BY <3>2
            <4>1. m <= n + MaxStale
                BY <1>4, <3>2, ModulusFacts
            <4>2. ((n % Modulus) + Modulus - (m % Modulus)) % Modulus > (Modulus - 1) \div 2
                BY <3>2, <4>1, ReadIsBehind
            <4> QED BY <1>5, <3>2, <3>4, <4>2
        <3>8. n \in m .. m + MaxRun - 1 /\ n < Len(log[p])
            BY <1>4, <3>2, <3>7, ModulusFacts DEF TypeOK
        <3> QED BY <1>2, <1>3, <3>2, <3>6, <3>8 DEF NodeOK
    <2> QED BY <2>1, <2>2
<1>8. ReadOK(c, p)'
    BY <1>2, <1>5, <1>7 DEF ReadOK, Agrees
<1>9. ASSUME NEW d \in Clients, NEW q \in Players, d # c \/ q # p
      PROVE  ReadOK(d, q)'
    <2>1. buffer'[d][q] = buffer[d][q]
        BY <1>1, <1>9 DEF TypeOK
    <2>2. ReadOK(d, q) /\ Len(log[q]) \in Nat
        BY DEF LogInv, TypeOK
    <2> QED BY <1>2, <2>1, <2>2, ReadKept
<1> SUFFICES ASSUME NEW d \in Clients, NEW q \in Players PROVE ReadOK(d, q)'
    BY DEF LogInv
<1>10. CASE d # c \/ q # p
    BY <1>9, <1>10
<1>11. CASE d = c /\ q = p
    BY <1>8, <1>11
<1> QED BY <1>10, <1>11

(* The other steps touch no list. *)
LEMMA OthersHold ==
    ASSUME TypeOK, LogInv, UNCHANGED <<log, count, buffer, fed>>
    PROVE  LogInv'
<1> SUFFICES ASSUME NEW c \in Clients, NEW p \in Players PROVE ReadOK(c, p)'
    BY DEF LogInv
<1>1. ReadOK(c, p) /\ Len(log[p]) \in Nat
    BY DEF LogInv, TypeOK
<1> QED BY <1>1, ReadKept

LEMMA AssignHolds ==
    ASSUME TypeOK, LogInv, NEW p \in Players, Assign(p)
    PROVE  LogInv' /\ Inputs!Assign(p)
<1>1. PICK k \in Keys : log' = [log EXCEPT ![p] = Append(@, k)]
    BY DEF Assign
<1>2. UNCHANGED <<count, buffer, fed>>
    BY DEF Assign, lists
<1>3. ASSUME NEW c \in Clients, NEW q \in Players PROVE ReadOK(c, q)'
    <2>1. log[q] \in Seq(Keys) /\ log'[q] \in {log[q], Append(log[q], k)}
        BY <1>1 DEF TypeOK
    <2>2. /\ Len(log'[q]) \in Nat /\ Len(log[q]) <= Len(log'[q])
          /\ \A i \in 1 .. Len(log[q]) : log'[q][i] = log[q][i]
        BY <2>1
    <2>3. ReadOK(c, q)
        BY DEF LogInv
    <2> QED BY <1>2, <2>2, <2>3, ReadKept
<1>4. LogInv'
    BY <1>3 DEF LogInv
<1> QED BY <1>1, <1>2, <1>4 DEF Inputs!Assign

(* Every step keeps the lists in order, and is one of the shared logs or   *)
(* invisible to them.                                                      *)
LEMMA LogStep ==
    ASSUME ThreadInv, LogInv, [Next]_vars
    PROVE  LogInv' /\ [Inputs!Next]_<<log, fed>>
<1>1. TypeOK
    BY DEF ThreadInv
<1>2. CASE UNCHANGED <<log, count, buffer, fed>>
    BY <1>1, <1>2, OthersHold
<1>3. ASSUME NEW p \in Players, Assign(p) PROVE LogInv' /\ Inputs!Next
    BY <1>1, <1>3, AssignHolds DEF Inputs!Next
<1>4. ASSUME NEW c \in Clients, check_valid(c), Consume(c), log' = log
      PROVE  LogInv' /\ Inputs!Next
    <2>1. /\ LogInv' /\ at[c] \in Players
          /\ Len(fed[c][at[c]]) < Len(log[at[c]])
          /\ fed' = [fed EXCEPT ![c][at[c]] = Append(@, log[at[c]][Len(@) + 1])]
        BY <1>1, <1>4, ConsumeReads DEF TypeOK
    <2> QED BY <1>4, <2>1 DEF Inputs!Next, Inputs!Feed
<1>5. ASSUME NEW c \in Clients, Process(c)
      PROVE  LogInv' /\ UNCHANGED <<log, fed>>
    BY <1>1, <1>5, ProcessHolds DEF Process, server
<1>6. ASSUME NEW c \in Clients, Emulate(c)
      PROVE  \/ UNCHANGED <<log, count, buffer, fed>>
             \/ check_valid(c) /\ Consume(c) /\ log' = log
    <2>1. req[c] = "found" => check_valid(c)
        BY DEF ThreadInv, ClientOK
    <2> QED BY <1>6, <2>1
        DEF Emulate, SendInput, GetInput, StopWaiting, Join, LoseServer, server, lists
<1>7. ASSUME NEW c \in Clients, Require(c)
      PROVE  UNCHANGED <<log, count, buffer, fed>>
    BY <1>7 DEF Require, Found, Expire, Unbind, server, lists
<1>8. CASE UNCHANGED vars
    <2>1. UNCHANGED <<log, count, buffer, fed>>
        BY <1>8 DEF vars, server, lists
    <2> QED BY <1>2, <2>1
<1> QED BY <1>2, <1>3, <1>4, <1>5, <1>6, <1>7, <1>8 DEF Next

LEMMA SpecLogInv == Spec => []LogInv
<1>1. ThreadInv /\ LogInv /\ [Next]_vars => LogInv'
    BY LogStep
<1> QED BY <1>1, LogInitially, SpecThreadInv, PTL DEF Spec

(* Each client has read exactly the inputs the server assigned, in order,  *)
(* each once, for every range of the counters and however datagrams are    *)
(* lost, repeated and reordered: netplay_process, netplay_get_input.       *)
THEOREM LockstepCorrect == Spec => []Lockstep
<1>1. LogInv => Lockstep
    BY DEF LogInv, ReadOK, Lockstep
<1> QED BY <1>1, SpecLogInv, PTL

(* Nothing stale stays in an event list: every node is one of the next     *)
(* inputs, and alone under its count (netplay_process skips the others).   *)
THEOREM NoLeftoversCorrect == Spec => []NoLeftovers
<1>1. LogInv => NoLeftovers
    BY DEF LogInv, ReadOK, NodeOK, NoLeftovers
<1> QED BY <1>1, SpecLogInv, PTL

(* The exchange of inputs implements one shared log per player that every  *)
(* client reads forward, an input at a time.                               *)
THEOREM InputLogImplemented == Spec => ImplementsInputLog
<1>1. Init => Inputs!Init
    BY DEF Init, Inputs!Init
<1>2. ThreadInv /\ LogInv /\ [Next]_vars => [Inputs!Next]_<<log, fed>>
    BY LogStep
<1> QED BY <1>1, <1>2, SpecThreadInv, SpecLogInv, PTL DEF Spec, ImplementsInputLog, Inputs!Spec
=============================================================================
