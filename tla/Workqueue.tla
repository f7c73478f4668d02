---------------------------- MODULE Workqueue -----------------------------
(***************************************************************************)
(* The work queue of main/workqueue.c: callers append work under one lock, *)
(* worker threads take it off the front, and an idle thread sleeps on its  *)
(* own condition variable, in thread_queue, until a caller picks it.       *)
(*                                                                         *)
(* A critical section is one action; SDL_CondWait releases the lock and    *)
(* sleeps in one step, and may return without a signal.                    *)
(***************************************************************************)
EXTENDS Naturals, Sequences, FiniteSets, SequencesExt

CONSTANTS
    Threads,   \* the WORKQUEUE_THREADS threads workqueue_init starts
    Works,     \* the work_structs callers queue, each once
    Dismiss    \* the one whose func is workqueue_dismiss

ASSUME WorkqueueAssumption ==
    IsFiniteSet(Threads) /\ Threads # {} /\ Dismiss \notin Works

VARIABLES
    work_queue,    \* work waiting, in list order
    thread_queue,  \* threads that may be signalled, in list order
    thread,        \* what each thread does
    item,          \* the work a thread has taken
    dismissals,    \* dismissals workqueue_shutdown has queued
    down,          \* workqueue_shutdown has joined every thread
    submitted,     \* history: work in the order it was queued
    started,       \* history: work in the order threads took it
    finished       \* history: work whose func has returned

queues == <<work_queue, thread_queue>>
history == <<submitted, started, finished>>
wqvars == <<queues, thread, item, dismissals, down, history>>

-----------------------------------------------------------------------------
WorkqueueTypeOK ==
    /\ work_queue \in Seq(Works \cup {Dismiss})
    /\ thread_queue \in Seq(Threads)
    /\ \A i, j \in 1 .. Len(thread_queue) : thread_queue[i] = thread_queue[j] => i = j
    /\ thread \in [Threads -> {"get", "asleep", "run", "ended"}]
    /\ item \in [Threads -> Works \cup {Dismiss}]
    /\ dismissals \in 0 .. Cardinality(Threads)
    /\ down \in BOOLEAN
    /\ submitted \in Seq(Works)
    /\ started \in Seq(Works)
    /\ finished \in SUBSET Works

(* workqueue_init: a new thread starts in workqueue_get_work. *)
WorkqueueInit ==
    /\ work_queue = << >>
    /\ thread_queue = << >>
    /\ thread = [t \in Threads |-> "get"]
    /\ item = [t \in Threads |-> Dismiss]
    /\ dismissals = 0
    /\ down = FALSE
    /\ submitted = << >>
    /\ started = << >>
    /\ finished = {}

-----------------------------------------------------------------------------
(* Mutants: new work goes to the front of the list; the thread that is     *)
(* signalled stays in thread_queue.                                        *)
QueueFront(w) ==
    /\ work_queue' = << w >> \o work_queue
    /\ IF thread_queue = << >>
       THEN UNCHANGED <<thread_queue, thread>>
       ELSE /\ thread_queue' = Tail(thread_queue)
            /\ thread' = [thread EXCEPT ![Head(thread_queue)] =
                            IF @ = "asleep" THEN "get" ELSE @]

QueueKeepsThread(w) ==
    /\ work_queue' = Append(work_queue, w)
    /\ IF thread_queue = << >>
       THEN UNCHANGED thread
       ELSE thread' = [thread EXCEPT ![Head(thread_queue)] =
                        IF @ = "asleep" THEN "get" ELSE @]
    /\ UNCHANGED thread_queue

(* queue_work: the first thread in thread_queue leaves it and is signalled; *)
(* the signal is lost on a thread that has woken up by itself.              *)
queue_work(w) ==
    /\ work_queue' = Append(work_queue, w)
    /\ IF thread_queue = << >>
       THEN UNCHANGED <<thread_queue, thread>>
       ELSE /\ thread_queue' = Tail(thread_queue)
            /\ thread' = [thread EXCEPT ![Head(thread_queue)] =
                            IF @ = "asleep" THEN "get" ELSE @]

Submit(w) ==
    /\ dismissals = 0
    /\ ~ Contains(submitted, w)
    /\ queue_work(w)
    /\ submitted' = Append(submitted, w)
    /\ UNCHANGED <<item, dismissals, down, started, finished>>

-----------------------------------------------------------------------------
(* list_del_init(&thread->list): nothing happens to a thread that is in no *)
(* list.                                                                   *)
Unlinked(t) ==
    IF Contains(thread_queue, t)
    THEN RemoveAt(thread_queue, CHOOSE i \in 1 .. Len(thread_queue) : thread_queue[i] = t)
    ELSE thread_queue

(* Mutants: a thread that goes to sleep is not put in thread_queue; one    *)
(* that woke by itself is not taken off it.                                *)
SleepUnlisted(t) ==
    /\ work_queue = << >>
    /\ thread' = [thread EXCEPT ![t] = "asleep"]
    /\ thread_queue' = Unlinked(t)
    /\ UNCHANGED <<work_queue, item, started>>

SleepTwice(t) ==
    /\ work_queue = << >>
    /\ thread' = [thread EXCEPT ![t] = "asleep"]
    /\ thread_queue' = << t >> \o thread_queue
    /\ UNCHANGED <<work_queue, item, started>>

Take(t) ==
    /\ work_queue # << >>
    /\ item' = [item EXCEPT ![t] = Head(work_queue)]
    /\ work_queue' = Tail(work_queue)
    /\ thread_queue' = Unlinked(t)
    /\ IF Head(work_queue) = Dismiss
       THEN /\ thread' = [thread EXCEPT ![t] = "ended"]
            /\ UNCHANGED started
       ELSE /\ thread' = [thread EXCEPT ![t] = "run"]
            /\ started' = Append(started, Head(work_queue))

Sleep(t) ==
    /\ work_queue = << >>
    /\ thread' = [thread EXCEPT ![t] = "asleep"]
    /\ thread_queue' = << t >> \o Unlinked(t)
    /\ UNCHANGED <<work_queue, item, started>>

(* A pass of the loop of workqueue_get_work; list_del_init takes the       *)
(* thread off thread_queue first, if it is there.                          *)
GetWork(t) ==
    /\ thread[t] = "get"
    /\ Take(t) \/ Sleep(t)
    /\ UNCHANGED <<dismissals, down, submitted, finished>>

WakeUnsignalled(t) ==
    /\ thread[t] = "asleep"
    /\ thread' = [thread EXCEPT ![t] = "get"]
    /\ UNCHANGED <<queues, item, dismissals, down, history>>

(* work->func(work) returns to workqueue_thread_handler. *)
Finish(t) ==
    /\ thread[t] = "run"
    /\ thread' = [thread EXCEPT ![t] = "get"]
    /\ finished' = finished \cup {item[t]}
    /\ UNCHANGED <<queues, item, dismissals, down, submitted, started>>

-----------------------------------------------------------------------------
(* Mutant: one dismissal too few. *)
DismissFewer ==
    /\ dismissals + 1 < Cardinality(Threads)
    /\ dismissals' = dismissals + 1
    /\ queue_work(Dismiss)
    /\ UNCHANGED <<item, down, history>>

(* workqueue_shutdown queues a dismissal for each thread and joins them.   *)
(* It runs in CoreShutdown, after which nothing is queued.                 *)
QueueDismissal ==
    /\ dismissals < Cardinality(Threads)
    /\ dismissals' = dismissals + 1
    /\ queue_work(Dismiss)
    /\ UNCHANGED <<item, down, history>>

JoinThreads ==
    /\ ~down
    /\ dismissals = Cardinality(Threads)
    /\ \A t \in Threads : thread[t] = "ended"
    /\ down' = TRUE
    /\ UNCHANGED <<queues, thread, item, dismissals, history>>

Shutdown == (dismissals > 0 /\ QueueDismissal) \/ JoinThreads

WorkqueueNext ==
    \/ \E w \in Works : Submit(w)
    \/ QueueDismissal \/ JoinThreads
    \/ \E t \in Threads : GetWork(t) \/ WakeUnsignalled(t) \/ Finish(t)

WorkqueueSpec == WorkqueueInit /\ [][WorkqueueNext]_wqvars

(* Threads keep running, work returns, and a shutdown goes on; nobody has  *)
(* to call queue_work or to wake without a signal.                         *)
WorkqueueFairness ==
    /\ \A t \in Threads : WF_wqvars(GetWork(t)) /\ WF_wqvars(Finish(t))
    /\ WF_wqvars(Shutdown)

WorkqueueFairSpec == WorkqueueSpec /\ WorkqueueFairness

-----------------------------------------------------------------------------
(* No lost wakeup (lines 63-72, 177-185): while a thread can be signalled, *)
(* every waiting piece of work has a thread on its way to it, although a   *)
(* thread may wake by itself and be signalled while it is awake.           *)
Coming == {t \in Threads : thread[t] = "get" /\ ~ Contains(thread_queue, t)}

WorkHasThread ==
    /\ thread_queue # << >> => Len(work_queue) <= Cardinality(Coming)
    /\ \A t \in Threads : thread[t] = "asleep" => Contains(thread_queue, t)

(* Work that is queued is done, also when the queue is being shut down. *)
WorkIsDone ==
    \A w \in Works : Contains(submitted, w) ~> w \in finished

(* workqueue_shutdown does not hang in SDL_WaitThread. *)
ShutdownEnds == dismissals > 0 ~> down

Service == INSTANCE WorkService

(* Threads take the work in the order it was queued, each piece once, and  *)
(* workqueue_shutdown returns only when all of it is done: the warning of  *)
(* line 168 is never given.                                                *)
ImplementsService == Service!Spec
=============================================================================
