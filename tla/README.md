# Verification of multiplayer-n64

multiplayer-n64 is a Nintendo 64 emulator (mupen64plus-next, under
`src/emulator/mupen64plus-next`) with two ways of playing together: a WebSocket
relay for rooms (`src/server/server.js`) and a netplay client inside the
emulator core (`mupen64plus-core/src/main/netplay_ws.c`). This directory holds
TLA+ models of the parts of it where order, timing and failure matter, the
instances TLC checks, and theorems TLAPS proves.

In what follows `core/` is `src/emulator/mupen64plus-next/mupen64plus-core/src/`.

    tlc -workers 2 -config MCRelay.cfg MCRelay    one of the runs
    tlapm RelayProofs.tla                         the proofs of a module

## 1. The system

| Component | Source | State | Operations | Model |
|---|---|---|---|---|
| Relay server | `server/server.js` | rooms; id, role and room of each socket | connect, host, join, spectate, input, close | `Relay` |
| Netplay input exchange | `core/main/netplay_ws.c` | input lists and counters, channel, lag, fast forward | send, process, request, get input | `Netplay` |
| Netplay session | `core/main/netplay_ws.c`, `core/api/frontend.c`, `core/main/main.c` | sockets, registration, controllers, settings, saved memories | start, register, settings, storage, read registration, stop | `NetplaySession` |
| Work queue | `core/main/workqueue.c` | list of work, list of idle threads | init, queue, take, sleep, shut down | `Workqueue` |
| Save states | `core/main/savestates.c` | job, slot, lock, files | set job, save, load, write | `Savestates` |
| Event queue and timer | `core/device/r4300/interrupt.c`, `cp0.c` | Count, Compare, Status, Cause, queue of events | add, remove, deliver, translate, save and load | `Interrupts` |
| MI, VI, PI | `core/device/rcp/{mi,vi,pi}` | pending and masked interrupts, vertical interrupt, DMA | register writes, end of DMA | `Interrupts` |
| AI, SI, SP, DP | `core/device/rcp/{ai,si,rsp,rdp}` | DMA fifos, task state, freeze | register writes, end of DMA | planned |
| PIF, controllers, paks | `core/device/pif`, `controllers` | channels | read, write | later |
| Cartridge, GB cartridge | `core/device/cart`, `gb` | flash, EEPROM, RTC | commands | later |
| 64DD | `core/device/dd` | disk controller | commands | no |
| TLB, code cache | `core/device/r4300/{tlb,cached_interp,r4300_core}.c` | entries, tables, blocks, validity, hashes | jump, compile, store, DMA, TLB write, reset, load | `Tlb`, `CodeCache` |
| CPU cores | `core/device/r4300` | registers | instructions | no |
| Main loop, libretro front end | `core/main/main.c`, `libretro/libretro.c` | run state, coroutines | run, stop, serialize | only what the others call |
| Plugins, vendored code, build, pages | `GLideN64`, ..., `frontend/` | | | no |

How they interact. The main loop runs the CPU; the CPU tests `cycle_count` after
each jump and calls `gen_interrupt`, which delivers events to the devices, starts
save state jobs and, through the VI and the PIF, polls the controllers. A
controller poll with netplay running sends the local inputs and blocks until the
server has answered with everybody's. A save hands a copy of the machine to the
work queue, whose thread writes the file. The relay is a separate process; no
page in the repository talks to it yet, so its clients are arbitrary.

What is hard. In the relay, membership is kept twice (in the rooms and on the
sockets) and closing handshakes overlap with messages. In netplay, two threads
share lists and a channel without a lock, over a network that loses, repeats and
reorders, with counters that wrap. When a game begins, every client
decides for itself whether it sends its settings and saved memories or takes
those of another, over a connection that may be lost in the middle. In the work
queue, wakeups may be lost or spurious. In save states, writing overlaps with loading, and a failure may leave
the lock behind. In the event queue, events are ordered by a 32-bit counter that
wraps and that programs write to, and a cached difference says when to stop. In
the code cache, decoded code must be given up whenever the memory under it
changes, through any of three addresses it has.
PROJECT.json lists the hazards at their lines with the properties that answer
them.

## 2. Modules

### Relay, RoomService

`Relay` has one action for each handler (`Host`, `Join`, `Spectate`, `NotFound`,
`PlayerInput`, `HostState`, and `HostClosed`, `GuestClosed`, `StrayClosed` for the
close event), as each runs to completion in one turn of the event loop. `conn` is
a socket's `readyState` with the two ways into CLOSING told apart; `role` and
`roomCode` are the fields of the socket; `host`, `players`, `spectators` are the
room store, where a list is kept as the number of its entries of each client
(`push` adds one, `filter` removes all, `forEach` reaches each). `outbox` is what
has been sent on each socket. A frame carries its sender and room for the
properties to name. `RoomService` is the abstract specification: open rooms with
an owner and a set of guests. `Relay` implements it by a refinement mapping.

Two assumptions of the code are constants, so that a run or a theorem can do
without them:
`OneRolePerSocket` (a socket hosts or enters one room in its life) and
`UniqueCodes` (`generateRoomCode` does not repeat itself).

### Netplay, InputLog

`pc` is the emulation thread in `netplay_get_input`, `req` the requester thread
of `netplay_require_response`. Each read or write of what the threads share
(`check_valid`, the clock, `l_udpChannel`) is a step of its own; `Expire` and
`Unbind` are apart since the answer may come in between. `buffer` is the linked
list by count. `Process` takes one datagram at any time the code receives, with
any run of inputs the server has (`Answer`): a subset of them lost, repeated or
out of order is one such run after another. The server is external: all that the
client relies on is that each input gets one value. `InputLog` is the abstract
specification: one log of inputs per player that every client reads forward.

### NetplaySession, SharedGame

How the clients of one game come in. `phase` is where a client is: `idle` (commands
of its front end), `register` (in the loop of `netplay_register_player`), then
`settings`, `saves` and `registration`, the three exchanges of `main_run`, and `run`.
`waiting` is the inside of a receiving loop. An exchange is one action per phase
(`netplay_sync_settings`, `netplay_read_storage`, `netplay_read_registration`) whose
disjuncts are what the client of player 1 does (`SendOurs`), the request of the
others (`AskForTheirs`), the answer (`Received`), and what the loop does once the
connection is lost. There the code is uneven, and so is the model: where the
count of received bytes is unsigned, the -1 of `TCP_Recv` ends the loop at once and
the rest of the buffer is what was there before; where it is signed
(`netplay_sync_settings`) the loop never ends. `control` and `next` are
`l_netplay_control` and `l_netplay_controller`. Data are named by the client they
come from; `Torn` is a memory received in part, `StackPaks` what an unreceived
registration may look like.

The server (`Serve`, with an operator for each request) and
the lobby (`AllHaveAsked`) are external: the server gives a player to the first
that asks and lets a fetch wait until it has the data, and nobody begins before
all have asked. `SharedGame` is the abstract specification: for each thing the
emulators have to agree on, whoever takes it up takes the value the others have.

### Workqueue, WorkService

A critical section is an action; `SDL_CondWait` may return unsignalled
(`WakeUnsignalled`). `WorkService` is the abstract specification: first come,
first served, each piece once, down only when all is done.

### Savestates

Extends `Workqueue`, whose thread runs `savestates_save_m64p_work`. The machine is
a number that `Play` counts up; a file holds such a number, nothing, a state
that does not fit (`Foreign`) or a broken one (`Torn`, also while it is being
written). The model is of the build without USE_SDL and __LIBRETRO__ (a pthread
mutex, files), which `core/../projects/unix` makes. `job`, `slot`, `lock` are the
globals of `savestates.c`; `EmuStep` is where `gen_interrupt` runs jobs.

### Interrupts

The machine is a record `m`, and the functions of `interrupt.c` are operators from
machines to machines (`Add`, `remove_event`, `Check`, `Translated`, ...), or to
sets of machines where the device may or may not be masked (`RaiseRcp`). An
action is an instruction or a register write, with `n` counts passing before it:
`Jump`, `ERET`, `MTC0_*`, `StartVi`, `PiDma`, `PiReset`, `Signal`, `Clear`, `WriteMask`,
`Fault`. The pending and mask bits of the MI are one bit `line`. `left` is a
history: how many counts there really are until an event is due, never wrapped.
`Jump`, `ERET` and `WriteMask`, where `gen_interrupt` is not in
`interrupt_unsafe_state`, may also end in the machine being reloaded from a state
saved there (`GenOrReload`); `MTC0_COUNT` and `MTC0_STATUS` set that flag first. `n` is
one instruction at least (`Lapses`), except where `cp0_update_count` runs before
the PC has moved on (`EarlyLapses`): `ERET` and writes to Count and Compare just
after a jump or a store. `FaultInSlot` is an exception in a delay slot, which zeroes
`cycle_count` and sets `skip_jump`, so that `gen_interrupt` is called, takes nothing
and works `cycle_count` out again (`SkipJump`).

`m.disciplined` says whether the program of this behaviour keeps three rules:
start the VI before half a turn of Count, take a signalled interrupt before the
next register access, and do not reset the PI while it is busy. Three properties
(`DueIsSeen`, `BusyHasEvent`, `PendingIsQueued`) are about such programs only, and say
so; the run has both kinds. Others can fill the pool, for example with the events of
DMAs they have reset, and the CHECK of an interrupt is then dropped (354-360). `InterruptsAssumption` is what the code's numbers satisfy: an even
modulus, delays and blocks short beside half a turn, a pool with room for one event
of each type (it has 16 nodes), an event taken before the next frame is due, and
two such waits and an instruction still less than half a turn.

### Tlb, CodeCache

`Tlb` has the entries and the two tables `LUT_r` and `LUT_w` that the emulator looks
addresses up in; `TLBWrite` unmaps what the old entry let through and maps the
new one. `CodeCache` extends it with memory and the cached interpreter. A page of
code is a frame seen through KSEG0 or KSEG1, or a mapped page; `c` is the cache:
for each page its byte of `invalid_code`, its block, and its `xxhash`, which is the
contents it is a hash of. `JumpTo` enters a page (`update_invalid_addr`, `init_block`,
or a TLB refill), `Compile` decodes from a word up to the next jump, `Store` and
`Dma` write memory and invalidate, `EmptyDma` is a DMA whose length `dma_pi_write` has
brought down to 0, which invalidates everything, `WriteEntry` is TLBWI and TLBWR with the hashes
they keep and compare, and `SoftReset` and `LoadState` replace everything. A block is
entered by a jump from another page; a program that writes to the page it runs
on goes on with the old code, and the properties are about what is entered next.

`ranAs` and `tidy` are histories: `tidy` says that every frame was run as one page
only (KSEG0 and KSEG1 taken together). The code does not keep the blocks of
several pages of one frame in step, so `MappedCodeIsCurrent` is about tidy programs.

A cartridge DMA may begin inside a word: `dma_pi_write` (`pi_controller.c` 94) and
`cart_rom_dma_write` (`cart_rom.c` 123) clear bit 0 of the address only. The loop that
invalidates (`cached_interp.c` 962) goes by four from there and may stop before the
last word, of which half has been written. In `Dma` the set `missed` says for which
segments this happens, any subset of the two, as a page before this one may have
brought the loop back to whole words. `overlooked` is the history of the words
missed since they were last written, and `aligned` says there never was one.
`DirectCodeIsCurrent` leaves out the overlooked words and holds for any program;
`MappedCodeIsCurrent` is about programs without any.

The MC modules only supply constants and, for the event queue and the code cache,
constraints. The
proof modules are `RelayProofs`, `NetplayProofs`, `NetplaySessionProofs`,
`WorkqueueProofs`, `SavestatesProofs`, `InterruptsProofs` and `CodeCacheProofs`. A definition whose comment begins with
"Mutant" is a plausible mistake in the one after it; no specification uses it, and
it is there to show that a property would notice.

## 3. Runs

| Run | Question | Bounds |
|---|---|---|
| relay | do rooms and sockets agree, are state streams whole, are guests released, who hears of and gets what, does the relay implement rooms | 3 sockets, 2 rooms, 3 messages each |
| relay_orphan (violated) | "Host disconnect closes room" | 2 sockets, 2 rooms |
| netplay_wrap | lockstep across the wrap of the counters, is the speed limiter put back | 2 clients, 1 player, 5 inputs mod 4, no timeouts |
| netplay_threads | success means the input is there, a stop has a cause, `netplay_get_input` returns, does everyone get to play | 2 clients, 2 players, 2 inputs, timeouts |
| netplay_session | one source of settings and memories, one client for each player, everybody sees who plays, everybody gets in | 3 clients, 2 players, 2 memories, 1 lost connection |
| workqueue | lost wakeups, order, all work done, shutdown ends | 2 threads, 3 works |
| savestates_files | whole files, snapshots, last save wins, loads answered, shutdown returns | 2 slots, 3 saves, 3 machine states, failing and broken files |
| savestates_faults (violated) | loads answered when a save fails | 1 save |
| interrupts | `cycle_count` is right, nothing early, the queue whole when the pool runs out; for disciplined programs due events are seen, DMAs end, pending interrupts have a CHECK | Count mod 10, blocks of 2, 5 nodes, DMAs of 0 and 2 counts, disciplined and other programs |
| interrupts_timer (violated) | the timer is not early | Count mod 20 |
| code_cache | what is entered is what is in memory, tables follow entries, blocks are there | 3 frames, 1 entry of 2 mapped pages, 1 word per page |
| code_cache_load (violated) | a loaded state runs its code | the same |

Why the bounds are enough. Rooms interact only through sockets, a socket of the
run is in one room, and a third socket is the bystander; the proofs have sockets
that change rooms. Two clients show every disagreement between clients; five
inputs at modulus 4 wrap the counter with stale answers two inputs behind; runs
of at most MaxRun and staleness of at most MaxStale stay within half the modulus,
as 2^31 inputs (over a year at 60 Hz) do in the code. In the session one client
would play both players, one wants a player that is taken, and one watches: these
are the three parts there are; any of them may be the one that loses its
connection, at any step. A registration on the stack is a mempak, which
`Plugged` leaves to the first player only, or nothing. Two threads are needed for a signal to
hit the wrong one, three works for order to matter; save states have one worker
thread, like the core. In `savestates_files` one slot's file is broken from the
start and the other's is of another version, so that a load that finds a broken
file in the second slot can only have met one being written. Once a file has
failed the lock is never free again; `failed` records that, and the properties that
need the lock allow for it. The event queue's Count is scaled down: one turn
holds a few events, half a turn more than the longest delay, and an event is at
most MaxLate counts late, standing for 2^31 counts (about 45 seconds). Five nodes,
one for each type of event, are all a disciplined program needs, and the others use
them up. Two
constraints keep the run small: an access at which no count has passed comes
right after a jump (`NoCountOnlyAfterJump`), and a program that keeps no rule is
followed only as long as the DMAs it starts are due at once (`ShortDmas`); the
proofs have neither. In the code cache F is the frame whose contents change, between two values that
symmetry takes as one; G is what the same page is mapped to instead; H holds
the exception vectors. Frames never hold the same code (`MCHolds`), since with equal
pages a hash fits the wrong frame; programs are followed while they are tidy, run
G through the TLB only, have only words of F overlooked, and then run F directly
(`Bounded`). A page has one word: a second one multiplies the states beyond what can be
searched. The proofs have none of these limits: the direct segments need none, a page
has any number of words, and the mapped pages need only what `MappedCodeIsCurrent` says.

CHECK_DEADLOCK is off where the system may stop: sockets close, clients stop, the
queue shuts down, messages are used up.

## 4. Fairness

- relay: none; its properties are about what has happened, and no client is
  assumed to do anything.
- netplay: the two threads of a client are scheduled (`ThreadFairness`); this is
  all `InputReturns` needs. `EveryonePlays` states its own assumption on the network,
  `NetworkFairness`: a request repeated every 5 ms is answered in the end, the server
  assigns what it has received, and ten seconds are longer than all of this takes,
  so that a request times out only when nobody can go on.
- session: the server answers what it can (`Serve`), and an emulator that has begun
  goes on (`Emulator`). Nothing makes a front end start, register or begin.
- work queue: threads run, `work->func` returns, a shutdown that has begun goes on.
- save states: the emulation thread reaches interrupts, the worker runs.

## 5. What the violated runs show

- relay_orphan: hosting again or joining elsewhere overwrites the role and room
  of the socket (lines 27-28, 39-40), and the close handler looks at the last
  room only; the first room stays open without a host.
- savestates_faults: the two error returns of `savestates_save_m64p_work` do not
  unlock (1604-1622); the next load blocks in `pthread_mutex_lock`.
- interrupts_timer: a state saved when Count equals Compare comes back with the
  timer due at once, as `load_eventqueue_infos` adds it without the extra
  count_per_op of its other three places.
- code_cache_load: `savestates_load_set_pc` jumps before it invalidates (459-460),
  so that a state whose pc lies on a page with a valid block goes on in the
  block of the machine before; `nmi_int_handler` does it the other way round.

One more disagreement has no run, as the model cannot tell it: the settings are one
atom there, taken as a whole. "During netplay, player 1 is the source of truth for
these settings" (`main.c` 1449) is said of six values of which one is the `emumode`;
`netplay_sync_settings` puts player 1's into the local variable `emumode` (1450), but
`init_device` is given the client's own `r4300_emumode` (1704). Clients whose front ends
choose different CPU cores so run different ones. `OneSource` and `SharedGame`, where
they speak of settings, speak of the other five.

More of what the code does is no disagreement with a document, or one too loose
to hold against it; unless it says otherwise the models have it, and no run is about
it. In netplay the requester looks (368), the answer arrives, the clock says timeout
(370): the client stops with the input in its list. In the event queue
`special_int_handler` removes the fake event before it queues the next (427-428);
without a running VI, and with the timer more than half a turn away, the
difference wraps in between and the timer is taken early. `TakenIsDue` leaves the
timer out for these reasons, and disciplined programs have the VI running. A
coprocessor fault assigns to Cause and so drops a pending timer bit (`cp0.c` 131). In
the session, a client whose connection is lost while it receives begins the game
with what was on its stack, or spins; its saved memories may be half another's;
a guest's memories are overwritten by player 1's; the notice of `netplay_stop`
names only the id asked with last (298), so a server that goes by it would keep the
other player of a client that has two; `Leave` takes both from the connection. In the
code cache, a frame that is run as two mapped pages keeps stale blocks, a page whose twin holds equal code is entered without
the marks that a later store would look for, and a TLB entry that holds the
running page is silently not replaced. A DMA that begins inside a word leaves the block
of its last word as it was (`cached_interp.c` 962), so that a program loaded so may run
an instruction that is no longer there; `overlooked` says which.

## 6. Proofs

`RelayProofs` and `NetplayProofs` hold for every value of the constants that meets
`ConstantsAssumption`, `NetplaySessionProofs` under `SessionAssumption` (any clients,
players and memories; the values that stand for nothing are no clients),
`WorkqueueProofs` under `WorkqueueAssumption` (finitely many threads, at least one, and
a dismissal that is no caller's work), `SavestatesProofs` under `SavestatesAssumption`
besides (one worker thread, `WORKQUEUE_THREADS`, and marks that are no states or
slots), `InterruptsProofs` under `InterruptsAssumption`, `CodeCacheProofs` under `TlbAssumption` and
`CodeCacheAssumption` (state files whose entries do not overlap and whose memory is within
`Holds`, and values that are not marks).

Relay. `TypeCorrect` is inductive as it stands. `StateAdmitted` is not: the proof
strengthens it with the fact that whoever is in a room's list has had the frame
that admitted it to that code, whoever hosts it now; this needs no assumption on
codes or roles, so it covers codes that `generateRoomCode` draws twice, which no
run does. `RosterExact` needs both assumptions and is strengthened by: a
socket without a role is in no list and has no room, and a code that was not
issued has no room. `GuestsReleased` adds that a live host hosts its own room;
`ClosedIsForgotten`, without assumptions, that a room that is not open lists nobody (where
sockets have one role this is part of `RosterExact`, so no run checks it by itself);
`InputAnnounced`, with fresh codes, that an open host has been told of every player
whose room it hosts, wherever those were before. The first invariant also gives `RoomsImplemented`: each action is
mapped to a step of `RoomService` or a stutter. `StateStream` is strengthened by
`HeardFromHost`: whoever has received a state is a guest, and while it is connected the
room it names is that of the sender. A step either sends a socket no state
(`StreamKept`), whose host then takes no turn either, or one more of its host's, the
turn that follows (`StreamStep`); that each guest gets one copy and not two is
`RosterExact`, and that none misses one is that a guest is listed until it closes.

Netplay. `EventPresent` and `StopHasCause` follow from one invariant, `ThreadInv`,
which relates `pc` and `req` of a client: a requester exists exactly while the
emulation thread waits or joins; if it is "found" the input is in the list
(nothing is consumed meanwhile and `Process` only adds); if it is "lost" the channel is
unbound; and a stopped client is unbound. It is local to each client, so the
number of clients and players and the network do not matter. `LimiterOffMeansBehind`
is inductive as it stands, for any lag the server reports.

`Lockstep` and `NoLeftovers` are parts of one more invariant, `LogInv`: what a client has
consumed agrees with the log; its count is the number of inputs consumed, modulo
`Modulus`; and each node in a list is alone under its count and is, with the keys
assigned, one of the next `MaxRun` inputs. Numbers of inputs are what the argument is
about, and the code has only their remainders. An answer may start up to
`MaxStale` inputs behind the client, or run up to `MaxRun` ahead, and both are within
half a turn, so the wrapped 32-bit comparison of `netplay_process` tells those that are
behind (`ReadIsBehind`), and two numbers in reach of each other with the same remainder
are one number (`DivMod`, `OneNumber`). The same steps show that each is a step of
`InputLog` or a stutter (`InputLogImplemented`).

Netplay session. `OneSource` and `OnePlayerEach` need one invariant, `IInv`, along
this argument. Every request on its way, and every answer, is the one its client
is waiting for (`LinkOK`, `ReplyOK`), so a yes to a registration is heard by the one
that asked and for that player. Hence a connected client that controls a player is
the one the server has there (`HoldsSeats`), and two of them cannot control one.
Controllers are handed out counting up, as many as were asked for at most
(`ClientOK`). Once one client has begun, nobody asks any more (`LobbyOver`), so whoever
sends data as player 1 is the only one that ever will, though it may be gone by
then (`UploaderOK`); all that the others take comes from it (`DataOK`). Lost
connections are in all of it: a client that hears no answer controls what the
stack says, and the statements that would break are about connected clients.

`SeenAsPlayed` adds `SeenInv`: who controls a player has asked for it, once (`AskedOK`);
a request tells the pak of the controller that will be used (`PakOK`); a registered
player is controlled, with the pak told, or about to be, unless the connection of its
client was lost (`SeatsOK`); and what a client was told, or has made of it, is the
registration but for those who left (`ViewOK`), which stays true as nobody registers
once a client has begun. For `SharedGameImplemented`, a client keeps what it has
taken up (`Steady`), and what it takes up is what the others have (`OneSender`,
`Agreement`).

Work queue. `WorkHasThread` (no lost wakeup) is not inductive: the proof adds that
every thread in `thread_queue` is asleep or has woken by itself (`ListedIdle`), which
is why the thread that `queue_work` signals always becomes one more that is coming;
that a list names no thread twice (in `WorkqueueTypeOK`); and that a running thread
holds work, not a dismissal (`RunsWork`). Lemmas on lists say what `list_del_init` and
taking the first entry leave; the rest counts the set `Coming`, one step lemma for
each action. So the property holds for any number of threads and works, any number
of unsignalled wakeups, and through a shutdown. `ServiceImplemented` maps each step
to one of `WorkService` or a stutter. It needs `OrderInv`: the list is what was submitted
and not started, in that order, and behind it the dismissals (`InOrder`); work that
was started is finished or one thread runs it (`RunsOnce`); a thread ends only when
all work has been started (`EndsLast`).

Save states. One invariant, `SavesInv`, gives the three properties; it has `OrderInv`
in it, for the queue under the saves. While the lock can still be had, a torn file
is the one the worker writes, lock in hand (`WriterHoldsLock`), so a load, which takes the
lock, finds whole files. The state a slot should hold in the end is that of the last
work submitted for it (`DueIsLast`), and the file holds that of the last one finished
(`FileIsLast`); with the queue's order these meet when no work is left. The one worker
matters: with two, `savestates_lock` would not keep the order.

Event queue. For every program the machine stays `Whole`: `cycle_count` is the
distance to the first event, every event's 32-bit count is Count and what is left
of its time, modulo a turn, no event is out of reach of half a turn, and each of
`SPECIAL`, `COMPARE` and `VI` is there once (the VI at most). `CycleIsCurrent`, `SelfQueuing`
and `TakenIsDue` are parts of it or follow at once. The exhausted pool is in it:
those three take a node back before they ask for one.

`PendingIsQueued`, `BusyHasEvent` and `DueIsSeen`, of programs that keep the rules,
need the order of the queue, and this is where counters that wrap make it hard.
The queue is sorted by distance from `Base`, which moves; so the proof gives
each event a key that does not. An event's key is what is left of its time; the
timer's, which may be up to a turn away and behind or before the rest, is that or
a turn less. `Framed` says that all keys lie in one turn that begins at the first
event when it is overdue; then comparing 32-bit distances and comparing keys is the
same (`AheadIsKey`), so adding an event sorts (`AddOrders`), the first key is
`-cycle_count` (`Settles`), and time may pass as long as no event waits longer than
`MaxLate` (`LapsedLevel`). The timer is keyed anew whenever it is added
(`AddCompareLevels`), an instruction ahead, which is what count_per_op is for: `Level` says
the queue is framed that far ahead. `Rules`, the inductive invariant, is then: nothing is
pending and the queue is level (`Open`), or a CHECK stands before a level queue and is
taken at the next jump (`Held`), by when Count is past the first event by `Slack`,
two waits, at most. Each handler, each register write and a reloaded queue lead from one to the
other. A loaded queue is built by a recursive function; that what holds of its
parts holds of the whole is an induction on their number, which the proof does on sets
of numbers (`NatSet`, `LoadedBy`), as no prover here can use a theorem about
all predicates. Where no
count passes (`LaterEarly`) the queue is only framed an instruction ahead; that is as
good as framed now once the first event is due, and without the timer's event always
(`FramedNow`), which are the two cases that need it.

Code cache. `Good` says of a cache and a memory that blocks are there where
they are valid, and that a direct page that would be entered as it is holds words not
compiled yet or those in memory, the overlooked words apart. Each helper keeps it: `Paired` only invalidates,
`Reset` empties, `Compile` copies what is there, and a write invalidates both
segments if it meets a compiled word among those it looks at, the rest becoming
overlooked (`WrittenGood`; a word marked NOTCOMPILED2 counts as compiled). The running page keeps its block
(`PcHasBlock`), since nothing removes blocks and an entry that maps it is not
replaced. `TablesMatchEntries` is inductive given that entries do not overlap.

`MappedCodeIsCurrent` relates hashes, marks and histories (`MappedInv`). A mapped page
that is valid shows a frame that was run as that page only, and its compiled words are
marked in the block of the frame's KSEG0 page (`Marked`); so a write to one of them
invalidates that page, and until one does they are the words in memory
(`RunsCurrent`). A hash that is kept is of what the page's one frame held when it was
entered, and the compiled words are those of that contents (`HashCurrent`). When a TLB
write compares it with what the page shows now and they are equal, the frame
is the same one, as different frames never hold the same code, and the page may be
revived with its block (`RevivedMapped`). A loaded state brings memory of its own: the
first attempt at the proof failed there, as a file could put one frame's code in
another; `Holds` now bounds the files too.

Only model-checked is liveness, as no prover here handles fairness or ENABLED:
`InputReturns`, `EveryonePlays`, `EveryoneGetsIn`, `WorkIsDone`, `ShutdownEnds`,
`LoadIsAnsweredUnlessFailed` and `ShutdownReturns`. Every other property of the
passing runs is a theorem.

## 7. Not modelled, and why

- Data that no property looks at: keys and plugin bytes, pixels, the layout of a
  save state.
- Relay: messages whose code is a name that every JavaScript object has, such as
  "constructor". `rooms[data.roomCode]` is then found (line 34), role and code are set,
  `push` throws and is caught (41), and the socket's close handler throws later (92).
  `generateRoomCode` draws no such code.
- Netplay: `netplay_check_sync`, whose datagram nothing in the repository reads;
  `netplay_send_config` and `netplay_receive_config`, which
  pass bytes of a plugin through and which none in the repository calls;
  a connection ended in order, at which the receiving loops spin (a client that
  takes no further step); a thread that cannot be created (454); the lists that
  `netplay_stop` frees under pointers on another stack (287). In `libretro.c` the
  `netplay_port` is a constant 0, so the libretro front end never starts a session.
- Event queue: writes to Count in a delay slot, which overwrite the zero that an
  exception there left in `cycle_count`, and a state loaded at the `gen_interrupt` of
  such an exception, which leaves `skip_jump` set; resets; software interrupts; the
  dynamic recompilers; a `count_per_op_denom_pot` other than 0. The 64DD removes events without adding one, which leaves
  `cycle_count` at the event that is gone.
- Code cache: the part of the next page that a block may run on into, pages of
  other sizes, ASIDs, cheats (`cheat.c` 78 invalidates KSEG0 only), DMA of the SP to
  RDRAM, which invalidates nothing, the few words that `pif_bootrom_hle_execute` leaves
  in the memory of the SP, and a DMA whose length is less than `dram_addr & 7`, which
  `dma_pi_write` makes a huge one.
- Save states: the libretro path. `retro_serialize` waits in a coroutine for a job
  that `new_vi` leaves by calling `retro_run()` (`main.c` 844) where it used to return,
  so there is no defined behaviour to model until that call is settled.
  `savestates_init` is never called, so with USE_SDL the mutex would be NULL. A
  load right after a save may get the lock first and read the old file (233), which
  the model has and no property forbids.
- A `workqueue_init` that fails half-way, whose result `CoreStartup` ignores.
- Most of the repository by lines is vendored or generated: graphics and RSP
  plugins, shaders, headers, libretro-common, the database of games, the dynamic
  recompilers. It is outside the program's own control and no module is about it.

## 8. Plan

1. Relay, netplay input exchange and session: done, all safety properties and
   refinements proved. Open: the frees of `netplay_stop` under live pointers.
2. Work queue and save states: done.
3. Event queue: all invariants that hold are proved; next the DMA fifos of AI
   and SP, SI and DP as modules that use its operators; the 64DD's events.
4. Code cache: all invariants proved; next the run-on into the next page.
5. Flash RAM, EEPROM and RTC state machines.
