------------------------- MODULE SavestatesProofs -------------------------
(***************************************************************************)
(* Proofs about save states, for every number of slots and of saves.       *)
(***************************************************************************)
EXTENDS Savestates, WorkqueueProofs

(* The one worker thread, and the slot whose file it writes. *)
Worker == CHOOSE t \in Threads : TRUE
Writing == save[item[Worker]].to

(* The worker holds the lock while it writes, and a file that is half      *)
(* written is the one it writes, as long as the lock can still be had.     *)
WriterHoldsLock ==
    /\ lock = "worker" => thread[Worker] = "run"
    /\ lock # "left" => \A s \in Slots :
          file[s] = Torn => FirstFiles[s] = Torn \/ (lock = "worker" /\ s = Writing)

(* The last save to a slot is the last work that was submitted for it. *)
DueIsLast ==
    \A s \in Slots : due[s] # None =>
        \E i \in 1 .. Len(submitted) :
            /\ save[submitted[i]] = [to |-> s, state |-> due[s]]
            /\ \A j \in i + 1 .. Len(submitted) : save[submitted[j]].to # s

(* Of the saves that are finished, started[i] is the last to its slot. *)
LastFinished(i) ==
    /\ started[i] \in finished
    /\ \A j \in i + 1 .. Len(started) :
          save[started[j]].to = save[started[i]].to => started[j] \notin finished

(* The worker runs the work started last, and a slot's file holds the      *)
(* state of the last save that is finished, unless it is being written.    *)
FileIsLast ==
    /\ thread[Worker] = "run" =>
          Len(started) > 0 /\ item[Worker] = started[Len(started)]
    /\ ~failed => \A i \in 1 .. Len(started) : LastFinished(i) =>
          \/ file[save[started[i]].to] = save[started[i]].state
          \/ lock = "worker" /\ Writing = save[started[i]].to

SavesInv ==
    /\ WorkqueueInv /\ OrderInv /\ TypeOK
    /\ WriterHoldsLock /\ WholeFilesLoad
    /\ FilesAreSnapshots
    /\ DueIsLast /\ FileIsLast

-----------------------------------------------------------------------------
LEMMA OneWorker == Worker \in Threads /\ \A t \in Threads : t = Worker
    BY SavestatesAssumption DEF Worker

LEMMA SlotFacts ==
    /\ \A s \in Slots : s \in Nat
    /\ NextSlot = slot \/ Autoinc
    /\ slot \in Slots => NextSlot \in Slots
    /\ Torn \notin States /\ Absent \notin States /\ Foreign \notin States
    /\ None \notin States /\ Torn # Absent /\ 0 \in Slots /\ 0 \in States
    BY SavestatesAssumption, SMTT(30) DEF Slots, NextSlot, States

(* What a step does to the work queue is a step of the work queue. *)
LEMMA QueueSteps == [Next]_vars => [WorkqueueNext]_wqvars
<1> SUFFICES ASSUME [Next]_vars PROVE [WorkqueueNext]_wqvars
    OBVIOUS
<1>1. ASSUME NEW t \in Threads, TakeWork(t) \/ Open(t) \/ Written(t)
      PROVE  [WorkqueueNext]_wqvars
    BY <1>1 DEF TakeWork, Open, Written, WorkqueueNext
<1>2. ASSUME NEW t \in Threads, OpenFails(t) \/ WriteFails(t)
      PROVE  [WorkqueueNext]_wqvars
    BY <1>2 DEF OpenFails, WriteFails, WorkqueueNext
<1>3. CASE Save
    BY <1>3 DEF Save, WorkqueueNext
<1>4. CASE Load \/ LoadState \/ Play \/ Stop
    BY <1>4 DEF Load, LoadState, Play, Stop
<1>5. ASSUME NEW t \in Threads, WakeUnsignalled(t)
      PROVE  [WorkqueueNext]_wqvars
    BY <1>5 DEF WorkqueueNext
<1>6. CASE CoreShutdown
    BY <1>6 DEF CoreShutdown, WorkqueueNext
<1>7. CASE UNCHANGED vars
    BY <1>7 DEF vars
<1>8. ASSUME NEW j \in {"load", "save"}, SetJob(j) PROVE [WorkqueueNext]_wqvars
    BY <1>8 DEF SetJob
<1>9. ASSUME NEW s \in Slots, SelectSlot(s) PROVE [WorkqueueNext]_wqvars
    BY <1>9 DEF SelectSlot
<1> QED BY <1>1, <1>2, <1>3, <1>4, <1>5, <1>6, <1>7, <1>8, <1>9
        DEF Next, EmuStep, WorkerStep

LEMMA SavesInitially == Init => SavesInv
<1> SUFFICES ASSUME Init PROVE SavesInv
    OBVIOUS
<1>1. WorkqueueInv /\ OrderInv
    BY WorkqueueInitially, OrderInitially DEF Init
<1>2. /\ lock = "free" /\ file = FirstFiles /\ unread = None /\ failed = FALSE
      /\ due = [s \in Slots |-> None] /\ started = << >>
      /\ emu = "play" /\ job = "nothing" /\ slot = 0 /\ state = 0
      /\ save = [w \in Works |-> [to |-> 0, state |-> 0]]
      /\ thread = [t \in Threads |-> "get"]
    BY DEF Init, WorkqueueInit
<1>3. TypeOK
    <2>1. failed \in BOOLEAN
        BY ONLY <1>2, Zenon
    <2> QED BY <1>1, <1>2, <2>1, SlotFacts, SavestatesAssumption DEF TypeOK, WorkqueueInv
<1>4. WriterHoldsLock
    BY <1>2 DEF WriterHoldsLock
<1>5. WholeFilesLoad
    BY <1>2 DEF WholeFilesLoad
<1>6. FilesAreSnapshots
    BY <1>2 DEF FilesAreSnapshots
<1>7. DueIsLast
    BY <1>2 DEF DueIsLast
<1>8. FileIsLast
    BY <1>2, OneWorker DEF FileIsLast
<1> QED BY <1>1, <1>3, <1>4, <1>5, <1>6, <1>7, <1>8 DEF SavesInv

(* The slots and states of what has been saved. *)
LEMMA SaveTypes ==
    ASSUME SavesInv
    PROVE  /\ save \in [Works -> [to : Slots, state : States]]
           /\ file \in [Slots -> Content] /\ due \in [Slots -> States \cup {None}]
           /\ \A w \in Works : /\ save[w].to \in Slots /\ save[w].state \in States
                               /\ save[w] = [to |-> save[w].to, state |-> save[w].state]
           /\ \A i \in 1 .. Len(submitted) : submitted[i] \in Works
           /\ \A i \in 1 .. Len(started) :
                  started[i] \in Works /\ started[i] = submitted[i]
           /\ Len(started) \in Nat /\ Len(submitted) \in Nat /\ Len(started) <= Len(submitted)
<1>1. /\ save \in [Works -> [to : Slots, state : States]]
      /\ file \in [Slots -> Content] /\ due \in [Slots -> States \cup {None}]
    BY DEF SavesInv, TypeOK
<1>2. \A w \in Works : /\ save[w].to \in Slots /\ save[w].state \in States
                       /\ save[w] = [to |-> save[w].to, state |-> save[w].state]
    BY <1>1
<1>3. /\ Len(started) \in Nat /\ Len(submitted) \in Nat /\ Len(started) <= Len(submitted)
      /\ \A i \in 1 .. Len(submitted) : submitted[i] \in Works
      /\ \A i \in 1 .. Len(started) : started[i] \in Works /\ started[i] = submitted[i]
    BY OrderTypes DEF SavesInv, OrderInv, InOrder
<1> QED BY <1>1, <1>2, <1>3

(* A step that leaves the files, the saves and the lock alone. *)
LEMMA QuietSaves ==
    ASSUME SavesInv, WorkqueueInv', OrderInv', TypeOK',
           thread'[Worker] = "run" <=> thread[Worker] = "run",
           UNCHANGED <<item, submitted, started, finished>>,
           UNCHANGED <<lock, file, save, sshistory>>
    PROVE  SavesInv'
<1>1. UNCHANGED <<due, failed, unread>>
    BY DEF sshistory
<1>2. WriterHoldsLock'
    BY DEF SavesInv, WriterHoldsLock, Writing
<1>3. WholeFilesLoad' /\ FilesAreSnapshots' /\ DueIsLast'
    BY <1>1 DEF SavesInv, WholeFilesLoad, FilesAreSnapshots, DueIsLast
<1>4. FileIsLast'
    BY <1>1 DEF SavesInv, FileIsLast, LastFinished, Writing
<1> QED BY <1>2, <1>3, <1>4 DEF SavesInv

(* A load that finds a broken file leaves with the lock.  It was broken    *)
(* before, for the lock was free.                                          *)
LEMMA LoadStateSaves ==
    ASSUME SavesInv, LoadState, WorkqueueInv', OrderInv'
    PROVE  SavesInv'
<1>1. /\ emu = "load" /\ lock = "free" /\ slot \in Slots /\ emu' = "play" /\ job' = "nothing"
      /\ UNCHANGED <<wqvars, slot, file, save>>
    BY DEF LoadState, Acquires, SavesInv, TypeOK
<1>2. UNCHANGED <<thread, item, submitted, started, finished>>
    BY <1>1 DEF wqvars, history
<1>3. CASE UNCHANGED <<lock, sshistory>> /\ state' \in States
    <2>1. TypeOK'
        BY <1>1, <1>3 DEF SavesInv, TypeOK, sshistory, WorkqueueInv
    <2> QED BY <1>1, <1>2, <1>3, <2>1, QuietSaves
<1>4. CASE /\ file[slot] = Torn /\ lock' = "left" /\ failed' = TRUE /\ unread' = slot
           /\ UNCHANGED <<state, due>>
    <2>1. TypeOK'
        BY <1>1, <1>4 DEF SavesInv, TypeOK, WorkqueueInv
    <2>2. WriterHoldsLock'
        BY <1>4 DEF WriterHoldsLock
    <2>3. FirstFiles[slot] = Torn
        BY <1>1, <1>4 DEF SavesInv, WriterHoldsLock
    <2>4. WholeFilesLoad'
        BY <1>4, <2>3 DEF WholeFilesLoad
    <2>5. FilesAreSnapshots' /\ DueIsLast'
        BY <1>1, <1>2, <1>4 DEF SavesInv, FilesAreSnapshots, DueIsLast
    <2>6. FileIsLast'
        BY <1>2, <1>4 DEF SavesInv, FileIsLast
    <2> QED BY <2>1, <2>2, <2>4, <2>5, <2>6 DEF SavesInv
<1>5. state \in States
    BY DEF SavesInv, TypeOK
<1> QED BY <1>3, <1>4, <1>5, SlotFacts DEF LoadState

(* gzopen makes a file anew: it is the worker's, who has the lock. *)
LEMMA OpenSaves ==
    ASSUME SavesInv, NEW t \in Threads, Open(t), WorkqueueInv', OrderInv'
    PROVE  SavesInv'
<1>1. /\ t = Worker /\ thread[Worker] = "run" /\ lock = "free" /\ lock' = "worker"
      /\ file' = [file EXCEPT ![Writing] = Torn]
      /\ UNCHANGED <<emu, job, slot, state, save, due, failed, unread>>
      /\ UNCHANGED <<thread, item, submitted, started, finished>>
    BY OneWorker DEF Open, Acquires, Writing, wqvars, history, sshistory
<1>2. Writing' = Writing
    BY <1>1 DEF Writing
<1>3. Writing \in Slots
    BY <1>1, OneWorker, SaveTypes DEF SavesInv, WorkqueueInv, RunsWork, Writing
<1>4. /\ file'[Writing] = Torn
      /\ \A s \in Slots : s # Writing => file'[s] = file[s]
    BY <1>1, <1>3, SaveTypes
<1>5. TypeOK'
    BY <1>1, <1>3 DEF SavesInv, TypeOK, WorkqueueInv, Content
<1>6. WriterHoldsLock'
    BY <1>1, <1>2, <1>4 DEF SavesInv, WriterHoldsLock
<1>7. WholeFilesLoad' /\ DueIsLast'
    BY <1>1 DEF SavesInv, WholeFilesLoad, DueIsLast
<1>8. FilesAreSnapshots'
    BY <1>1, <1>4, SlotFacts DEF SavesInv, FilesAreSnapshots
<1>9. FileIsLast'
    <2> SUFFICES ASSUME ~failed', NEW i \in 1 .. Len(started'), LastFinished(i)',
                        save'[started'[i]].to # Writing'
                 PROVE  file'[save'[started'[i]].to] = save'[started'[i]].state
        BY <1>1 DEF SavesInv, FileIsLast
    <2>1. LastFinished(i) /\ i \in 1 .. Len(started)
        BY <1>1 DEF LastFinished
    <2>2. file[save[started[i]].to] = save[started[i]].state
        BY <1>1, <2>1 DEF SavesInv, FileIsLast
    <2>3. save[started[i]].to \in Slots
        BY <2>1, SaveTypes
    <2> QED BY <1>1, <1>2, <1>4, <2>2, <2>3
<1> QED BY <1>5, <1>6, <1>7, <1>8, <1>9 DEF SavesInv

(* The file is whole: of the saves that are finished, this is the last of  *)
(* all.                                                                    *)
LEMMA WrittenSaves ==
    ASSUME SavesInv, NEW t \in Threads, Written(t), WorkqueueInv', OrderInv'
    PROVE  SavesInv'
<1> DEFINE w == item[Worker]
<1>1. /\ t = Worker /\ thread[Worker] = "run" /\ lock = "worker" /\ lock' = "free"
      /\ file' = [file EXCEPT ![save[w].to] = save[w].state]
      /\ finished' = finished \cup {w}
      /\ UNCHANGED <<emu, job, slot, state, save, due, failed, unread>>
      /\ UNCHANGED <<item, submitted, started>>
    BY OneWorker DEF Written, Finish, queues, sshistory
<1>2. w \in Works /\ Writing = save[w].to
    BY <1>1, OneWorker DEF SavesInv, WorkqueueInv, RunsWork, Writing
<1>3. /\ save[w].to \in Slots /\ save[w].state \in States
      /\ save[w] = [to |-> save[w].to, state |-> save[w].state]
    BY <1>2, SaveTypes
<1> HIDE DEF w
<1>4. /\ file'[save[w].to] = save[w].state
      /\ \A s \in Slots : s # save[w].to => file'[s] = file[s]
    BY <1>1, <1>3, SaveTypes
<1>5. thread'[Worker] # "run"
    BY <1>1, OneWorker, OrderTypes DEF SavesInv, Written, Finish
<1>6. TypeOK'
    BY <1>1, <1>3 DEF SavesInv, TypeOK, WorkqueueInv, Content
<1>7. WriterHoldsLock'
    <2> SUFFICES ASSUME NEW s \in Slots, file'[s] = Torn PROVE FirstFiles[s] = Torn
        BY <1>1 DEF WriterHoldsLock
    <2>1. s # save[w].to /\ file[s] = Torn
        BY <1>3, <1>4, SlotFacts
    <2> QED BY <1>1, <1>2, <2>1 DEF SavesInv, WriterHoldsLock
<1>8. WholeFilesLoad' /\ DueIsLast'
    BY <1>1 DEF SavesInv, WholeFilesLoad, DueIsLast
<1>9. FilesAreSnapshots'
    <2> SUFFICES ASSUME NEW s \in Slots, file'[s] \in States \ {FirstFiles[s]}
                 PROVE  \E v \in finished' : save[v] = [to |-> s, state |-> file'[s]]
        BY <1>1 DEF FilesAreSnapshots
    <2>1. CASE s = save[w].to
        BY <1>1, <1>3, <1>4, <2>1
    <2>2. CASE s # save[w].to
        BY <1>1, <1>4, <2>2 DEF SavesInv, FilesAreSnapshots
    <2> QED BY <2>1, <2>2
<1>10. /\ Len(started) \in 1 .. Len(started) /\ started[Len(started)] = w
       /\ \A i \in 1 .. Len(started) : started[i] = w => i = Len(started)
    <2>1. Len(started) \in 1 .. Len(started) /\ started[Len(started)] = w
        BY <1>1, SaveTypes DEF SavesInv, FileIsLast, w
    <2> QED BY <2>1, SaveTypes DEF SavesInv, OrderInv, InOrder, Distinct
<1>11. FileIsLast'
    <2> SUFFICES ASSUME ~failed, NEW i \in 1 .. Len(started), LastFinished(i)'
                 PROVE  file'[save[started[i]].to] = save[started[i]].state
        BY <1>1, <1>5 DEF FileIsLast
    <2>1. CASE i = Len(started)
        BY <1>4, <1>10, <2>1
    <2>2. CASE i # Len(started)
        <3>1. started[i] # w /\ Len(started) \in i + 1 .. Len(started)
            BY <1>10, <2>2
        <3>2. save[started[i]].to # save[w].to
            BY <1>1, <1>10, <3>1 DEF LastFinished
        <3>3. LastFinished(i)
            BY <1>1, <3>1 DEF LastFinished
        <3>4. file[save[started[i]].to] = save[started[i]].state
            BY <1>1, <1>2, <3>2, <3>3 DEF SavesInv, FileIsLast
        <3> QED BY <1>4, <3>2, <3>4, SaveTypes
    <2> QED BY <2>1, <2>2
<1> QED BY <1>6, <1>7, <1>8, <1>9, <1>11 DEF SavesInv

(* A file that cannot be opened or written stays as it is, and the lock    *)
(* cannot be had any more.                                                 *)
LEMMA FailsSaves ==
    ASSUME SavesInv, NEW t \in Threads, OpenFails(t) \/ WriteFails(t),
           WorkqueueInv', OrderInv'
    PROVE  SavesInv'
<1>1. /\ t = Worker /\ lock' = "left" /\ failed' = TRUE
      /\ finished' = finished \cup {item[t]}
      /\ UNCHANGED <<emu, job, slot, state, file, save, due, unread>>
      /\ UNCHANGED <<submitted, started>>
    BY OneWorker DEF OpenFails, WriteFails, Finish
<1>2. thread'[Worker] # "run"
    BY <1>1, OneWorker, OrderTypes DEF SavesInv, OpenFails, WriteFails, Finish
<1>3. TypeOK'
    BY <1>1 DEF SavesInv, TypeOK, WorkqueueInv
<1>4. WriterHoldsLock' /\ WholeFilesLoad'
    BY <1>1 DEF SavesInv, WriterHoldsLock, WholeFilesLoad
<1>5. FilesAreSnapshots' /\ DueIsLast'
    BY <1>1 DEF SavesInv, FilesAreSnapshots, DueIsLast
<1>6. FileIsLast'
    BY <1>1, <1>2 DEF FileIsLast
<1> QED BY <1>3, <1>4, <1>5, <1>6 DEF SavesInv

(* The worker takes the next save, having finished the one before. *)
LEMMA TakeSaves ==
    ASSUME SavesInv, NEW t \in Threads, TakeWork(t), Take(t), WorkqueueInv', OrderInv'
    PROVE  SavesInv'
<1>1. /\ t = Worker /\ thread[Worker] = "get"
      /\ UNCHANGED <<emu, job, slot, lock, state, file, save, due, failed, unread>>
      /\ UNCHANGED <<submitted, finished>>
    BY OneWorker DEF TakeWork, GetWork, ssvars, sshistory
<1>2. /\ Head(work_queue) = Dismiss => started' = started /\ thread'[t] = "ended"
      /\ Head(work_queue) # Dismiss =>
            /\ Len(started) < Len(submitted)
            /\ started' = Append(started, submitted[Len(started) + 1])
            /\ thread'[t] = "run" /\ item'[t] = submitted[Len(started) + 1]
    <2>1. thread \in [Threads -> {"get", "asleep", "run", "ended"}]
        BY OrderTypes DEF SavesInv
    <2>2. Head(work_queue) = Dismiss => thread'[t] = "ended"
        BY <2>1 DEF Take
    <2> QED BY <2>2, TakeOrder DEF SavesInv, TakeWork, GetWork
<1>3. lock # "worker"
    BY <1>1 DEF SavesInv, WriterHoldsLock
<1>4. TypeOK'
    BY <1>1 DEF SavesInv, TypeOK, WorkqueueInv
<1>5. WriterHoldsLock' /\ WholeFilesLoad' /\ FilesAreSnapshots' /\ DueIsLast'
    BY <1>1, <1>3 DEF SavesInv, WriterHoldsLock, WholeFilesLoad, FilesAreSnapshots, DueIsLast
<1>6. FileIsLast'
    <2>1. CASE Head(work_queue) = Dismiss
        BY <1>1, <1>2, <1>3, <2>1 DEF SavesInv, FileIsLast, LastFinished
    <2>2. CASE Head(work_queue) # Dismiss
        <3> DEFINE n == Len(started)  next == submitted[n + 1]
        <3>1. /\ n \in Nat /\ n + 1 \in 1 .. Len(submitted) /\ next \in Works
            BY <1>2, <2>2, SaveTypes
        <3>2. /\ Len(started') = n + 1 /\ started'[n + 1] = next
              /\ \A i \in 1 .. n : started'[i] = started[i]
            BY <1>2, <2>2, <3>1, OrderTypes, AppendProperties DEF SavesInv
        <3>3. next \notin finished
            <4>1. ~ Contains(started, next)
                BY <3>1, SaveTypes DEF SavesInv, OrderInv, InOrder, Distinct, Contains
            <4> QED BY <4>1 DEF SavesInv, OrderInv, RunsOnce
        <3>4. Len(started') > 0 /\ item'[Worker] = started'[Len(started')]
            BY <1>1, <1>2, <2>2, <3>1, <3>2
        <3> HIDE DEF n, next
        <3>5. ASSUME ~failed, NEW i \in 1 .. n + 1, LastFinished(i)'
              PROVE  file[save[started'[i]].to] = save[started'[i]].state
            <4>1. i # n + 1
                BY <1>1, <3>2, <3>3, <3>5 DEF LastFinished
            <4>2. i \in 1 .. n
                BY <3>1, <4>1
            <4>3. LastFinished(i)
                <5>1. started[i] \in finished
                    BY <1>1, <3>2, <3>5, <4>2 DEF LastFinished
                <5>2. ASSUME NEW j \in i + 1 .. n, save[started[j]].to = save[started[i]].to
                      PROVE  started[j] \notin finished
                    <6>1. j \in 1 .. n /\ j \in i + 1 .. Len(started')
                        BY <3>1, <3>2, <4>2
                    <6> QED BY <1>1, <3>2, <3>5, <4>2, <5>2, <6>1 DEF LastFinished
                <5> QED BY <5>1, <5>2 DEF LastFinished, n
            <4> QED BY <1>3, <3>2, <3>5, <4>2, <4>3 DEF SavesInv, FileIsLast, n
        <3> QED BY <1>1, <1>2, <2>2, <3>2, <3>4, <3>5 DEF FileIsLast
    <2> QED BY <2>1, <2>2
<1> QED BY <1>4, <1>5, <1>6 DEF SavesInv

(* A save is work of its own: no work that is waiting or finished changes. *)
LEMMA SubmitSaves ==
    ASSUME SavesInv, NEW w \in Works, Submit(w),
           save' = [save EXCEPT ![w] = [to |-> slot, state |-> state]],
           due' = [due EXCEPT ![slot] = state],
           slot' = NextSlot, job' = "nothing",
           UNCHANGED <<emu, lock, state, file, failed, unread>>,
           WorkqueueInv', OrderInv'
    PROVE  SavesInv'
<1>1. /\ ~ Contains(submitted, w) /\ submitted' = Append(submitted, w) /\ queue_work(w)
      /\ UNCHANGED <<item, started, finished>>
    BY DEF Submit
<1>2. slot \in Slots /\ state \in States
    BY DEF SavesInv, TypeOK
<1>3. /\ save'[w] = [to |-> slot, state |-> state]
      /\ save'[w].to = slot
      /\ \A v \in Works : v # w => save'[v] = save[v]
      /\ due'[slot] = state
      /\ \A s \in Slots : s # slot => due'[s] = due[s]
    <2>1. save'[w] = [to |-> slot, state |-> state] /\ \A v \in Works : v # w => save'[v] = save[v]
        BY SaveTypes
    <2>2. due'[slot] = state /\ \A s \in Slots : s # slot => due'[s] = due[s]
        BY <1>2, SaveTypes
    <2> QED BY <2>1, <2>2
<1>4. /\ Len(submitted') = Len(submitted) + 1 /\ submitted'[Len(submitted) + 1] = w
      /\ \A i \in 1 .. Len(submitted) : submitted'[i] = submitted[i] /\ submitted[i] # w
    BY <1>1, OrderTypes, AppendProperties DEF SavesInv, Contains
<1>5. /\ \A i \in 1 .. Len(started) : started[i] # w
      /\ \A v \in finished : v \in Works /\ v # w
    <2>1. \A i \in 1 .. Len(started) : started[i] # w
        BY <1>4, SaveTypes
    <2>2. \A v \in finished : Contains(started, v)
        BY DEF SavesInv, OrderInv, RunsOnce
    <2> QED BY <2>1, <2>2, SaveTypes DEF Contains
<1>6. thread'[Worker] = "run" <=> thread[Worker] = "run"
    BY <1>1, OneWorker, QueueWorkThreads DEF SavesInv
<1>7. TypeOK'
    BY <1>2, SlotFacts DEF SavesInv, TypeOK, WorkqueueInv
<1>8. thread[Worker] = "run" => Writing' = Writing
    <2> SUFFICES ASSUME thread[Worker] = "run" PROVE Writing' = Writing
        OBVIOUS
    <2>1. item[Worker] \in Works /\ Contains(started, item[Worker])
        BY OneWorker DEF SavesInv, WorkqueueInv, RunsWork, OrderInv, RunsOnce
    <2>2. item[Worker] # w
        BY <1>5, <2>1 DEF Contains
    <2> QED BY <1>1, <1>3, <2>1, <2>2 DEF Writing
<1>9. WriterHoldsLock'
    BY <1>6, <1>8 DEF SavesInv, WriterHoldsLock
<1>10. WholeFilesLoad'
    BY DEF SavesInv, WholeFilesLoad
<1>11. FilesAreSnapshots'
    BY <1>1, <1>3, <1>5 DEF SavesInv, FilesAreSnapshots
<1>12. DueIsLast'
    <2> SUFFICES ASSUME NEW s \in Slots, due'[s] # None
                 PROVE  \E i \in 1 .. Len(submitted') :
                           /\ save'[submitted'[i]] = [to |-> s, state |-> due'[s]]
                           /\ \A j \in i + 1 .. Len(submitted') : save'[submitted'[j]].to # s
        BY DEF DueIsLast
    <2>1. CASE s = slot
        <3>1. Len(submitted) + 1 \in 1 .. Len(submitted')
            BY <1>4, SaveTypes
        <3>2. \A j \in (Len(submitted) + 1) + 1 .. Len(submitted') : FALSE
            BY <1>4, SaveTypes
        <3> QED BY <1>3, <1>4, <2>1, <3>1, <3>2
    <2>2. CASE s # slot
        <3>1. PICK i \in 1 .. Len(submitted) :
                  /\ save[submitted[i]] = [to |-> s, state |-> due[s]]
                  /\ \A j \in i + 1 .. Len(submitted) : save[submitted[j]].to # s
            BY <1>3, <2>2 DEF SavesInv, DueIsLast
        <3>2. i \in 1 .. Len(submitted')
            BY <1>4, SaveTypes
        <3>3. save'[submitted'[i]] = [to |-> s, state |-> due'[s]]
            BY <1>3, <1>4, <2>2, <3>1, SaveTypes
        <3>4. ASSUME NEW j \in i + 1 .. Len(submitted') PROVE save'[submitted'[j]].to # s
            <4>1. CASE j = Len(submitted) + 1
                BY <1>3, <1>4, <2>2, <4>1
            <4>2. CASE j # Len(submitted) + 1
                <5>1. j \in i + 1 .. Len(submitted) /\ j \in 1 .. Len(submitted)
                    <6>1. Len(submitted') = Len(submitted) + 1 /\ Len(submitted) \in Nat
                        BY <1>4, SaveTypes
                    <6> QED BY <4>2, <6>1
                <5> QED BY <1>3, <1>4, <3>1, <5>1, SaveTypes
            <4> QED BY <4>1, <4>2
        <3> QED BY <3>2, <3>3, <3>4
    <2> QED BY <2>1, <2>2
<1>13. FileIsLast'
    <2>1. thread'[Worker] = "run" =>
              Len(started') > 0 /\ item'[Worker] = started'[Len(started')]
        BY <1>1, <1>6 DEF SavesInv, FileIsLast
    <2>2. \A i \in 1 .. Len(started) : save'[started[i]] = save[started[i]]
        BY <1>3, <1>5, SaveTypes
    <2>3. ASSUME ~failed', NEW i \in 1 .. Len(started'), LastFinished(i)'
          PROVE  \/ file'[save'[started'[i]].to] = save'[started'[i]].state
                 \/ lock' = "worker" /\ Writing' = save'[started'[i]].to
        <3>1. LastFinished(i)
            <4>1. \A j \in i + 1 .. Len(started) : j \in 1 .. Len(started)
                BY <1>1, SaveTypes
            <4> QED BY <1>1, <2>2, <2>3, <4>1 DEF LastFinished
        <3>2. \/ file[save[started[i]].to] = save[started[i]].state
              \/ lock = "worker" /\ Writing = save[started[i]].to
            BY <1>1, <2>3, <3>1 DEF SavesInv, FileIsLast
        <3> QED BY <1>1, <1>8, <2>2, <3>2 DEF SavesInv, WriterHoldsLock
    <2> QED BY <2>1, <2>3 DEF FileIsLast
<1> QED BY <1>7, <1>9, <1>10, <1>11, <1>12, <1>13 DEF SavesInv

LEMMA SaveSaves ==
    ASSUME SavesInv, Save, WorkqueueInv', OrderInv'
    PROVE  SavesInv'
<1>1. CASE \E w \in Works :
             /\ Submit(w)
             /\ save' = [save EXCEPT ![w] = [to |-> slot, state |-> state]]
             /\ slot' = NextSlot
             /\ due' = [due EXCEPT ![slot] = state]
    BY <1>1, SubmitSaves DEF Save
<1>2. CASE slot' \in {slot, NextSlot} /\ UNCHANGED <<wqvars, save, due>>
    <2>1. /\ job' = "nothing" /\ slot' \in Slots
          /\ UNCHANGED <<emu, lock, state, file, failed, unread>>
        BY <1>2, SlotFacts DEF Save, SavesInv, TypeOK
    <2>2. TypeOK'
        BY <1>2, <2>1 DEF SavesInv, TypeOK, WorkqueueInv
    <2> QED BY <1>2, <2>1, <2>2, QuietSaves DEF wqvars, history, sshistory
<1> QED BY <1>1, <1>2 DEF Save

LEMMA SavesStep == SavesInv /\ [Next]_vars => SavesInv'
<1> SUFFICES ASSUME SavesInv, [Next]_vars PROVE SavesInv'
    OBVIOUS
<1>1. WorkqueueInv' /\ OrderInv'
    BY QueueSteps, WorkqueueStepInv, WorkqueueStepOrder DEF SavesInv
<1>2. TypeOK /\ WorkqueueTypeOK'
    BY <1>1 DEF SavesInv, WorkqueueInv
<1>3. CASE Save
    BY <1>1, <1>3, SaveSaves
<1>4. CASE LoadState
    BY <1>1, <1>4, LoadStateSaves
<1>5. CASE Play \/ Load \/ Stop
    <2>1. state' \in States
        BY <1>2, <1>5, SavestatesAssumption DEF Play, Load, Stop, TypeOK, States
    <2>2. TypeOK'
        BY <1>2, <1>5, <2>1 DEF Play, Load, Stop, TypeOK, sshistory
    <2> QED BY <1>1, <1>5, <2>2, QuietSaves DEF Play, Load, Stop, wqvars, history
<1>6. ASSUME NEW j \in {"load", "save"}, SetJob(j) PROVE SavesInv'
    <2>1. TypeOK'
        BY <1>2, <1>6 DEF SetJob, TypeOK, sshistory
    <2> QED BY <1>1, <1>6, <2>1, QuietSaves DEF SetJob, wqvars, history
<1>7. ASSUME NEW s \in Slots, SelectSlot(s) PROVE SavesInv'
    <2>1. TypeOK'
        BY <1>2, <1>7 DEF SelectSlot, TypeOK, sshistory
    <2> QED BY <1>1, <1>7, <2>1, QuietSaves DEF SelectSlot, wqvars, history
<1>8. ASSUME NEW t \in Threads, TakeWork(t), Take(t) PROVE SavesInv'
    BY <1>1, <1>8, TakeSaves
<1>9. ASSUME NEW t \in Threads,
              (TakeWork(t) /\ Sleep(t)) \/ (WakeUnsignalled(t) /\ UNCHANGED ssvars)
      PROVE  SavesInv'
    <2>1. TypeOK'
        BY <1>2, <1>9 DEF TakeWork, ssvars, TypeOK, sshistory
    <2>2. thread'[Worker] = "run" <=> thread[Worker] = "run"
        BY <1>9, OneWorker, OrderTypes
        DEF SavesInv, TakeWork, GetWork, Sleep, WakeUnsignalled
    <2>3. UNCHANGED <<item, submitted, started, finished, ssvars>>
        BY <1>9 DEF TakeWork, GetWork, Sleep, WakeUnsignalled, history
    <2> QED BY <1>1, <2>1, <2>2, <2>3, QuietSaves DEF ssvars
<1>10. ASSUME NEW t \in Threads, Open(t) PROVE SavesInv'
    BY <1>1, <1>10, OpenSaves
<1>11. ASSUME NEW t \in Threads, Written(t) PROVE SavesInv'
    BY <1>1, <1>11, WrittenSaves
<1>12. ASSUME NEW t \in Threads, OpenFails(t) \/ WriteFails(t) PROVE SavesInv'
    BY <1>1, <1>12, FailsSaves
<1>13. CASE CoreShutdown
    <2>1. TypeOK'
        BY <1>2, <1>13 DEF CoreShutdown, ssvars, TypeOK, sshistory
    <2>2. /\ thread'[Worker] = "run" <=> thread[Worker] = "run"
          /\ UNCHANGED <<item, submitted, started, finished, ssvars>>
        BY <1>13, OneWorker, QueueWorkThreads
        DEF SavesInv, CoreShutdown, QueueDismissal, JoinThreads, history
    <2> QED BY <1>1, <2>1, <2>2, QuietSaves DEF ssvars
<1>14. CASE UNCHANGED vars
    <2>1. TypeOK'
        BY <1>2, <1>14 DEF vars, ssvars, TypeOK, sshistory
    <2> QED BY <1>1, <1>14, <2>1, QuietSaves DEF vars, ssvars, wqvars, history
<1> QED BY <1>3, <1>4, <1>5, <1>6, <1>7, <1>8, <1>9, <1>10, <1>11, <1>12, <1>13, <1>14
        DEF Next, EmuStep, WorkerStep, TakeWork, GetWork

LEMMA SpecSavesInv == Spec => []SavesInv
    BY SavesInitially, SavesStep, PTL DEF Spec

(* Every variable of the save states keeps its type, the slots and states  *)
(* of saves that are on their way included.                                *)
THEOREM SavestateTypes == Spec => []TypeOK
<1>1. SavesInv => TypeOK
    BY DEF SavesInv
<1> QED BY <1>1, SpecSavesInv, PTL

(* savestates_load_m64p never reads a file that the worker has begun and   *)
(* not finished, nor one it could not write, whatever the order of saves,  *)
(* loads, failures and changes of the slot.                                *)
THEOREM WholeFilesLoaded == Spec => []WholeFilesLoad
<1>1. SavesInv => WholeFilesLoad
    BY DEF SavesInv
<1> QED BY <1>1, SpecSavesInv, PTL

(* However many saves are on their way and whatever files fail, a whole    *)
(* file is the machine as it was at one save to that slot.                 *)
THEOREM SnapshotsKept == Spec => []FilesAreSnapshots
<1>1. SavesInv => FilesAreSnapshots
    BY DEF SavesInv
<1> QED BY <1>1, SpecSavesInv, PTL

(* When nothing failed and no work is left, each slot holds the last state *)
(* saved to it: the queue does not let an older save overwrite it.         *)
THEOREM LastSaveKept == Spec => []LastSaveWins
<1>1. SavesInv => LastSaveWins
    <2> SUFFICES ASSUME SavesInv, ~failed,
                        \A i \in 1 .. Len(submitted) : submitted[i] \in finished,
                        NEW s \in Slots, due[s] # None
                 PROVE  file[s] = due[s]
        BY DEF LastSaveWins
    <2>1. PICK i \in 1 .. Len(submitted) :
              /\ save[submitted[i]] = [to |-> s, state |-> due[s]]
              /\ \A j \in i + 1 .. Len(submitted) : save[submitted[j]].to # s
        BY DEF SavesInv, DueIsLast
    <2>2. Contains(started, submitted[i])
        BY DEF SavesInv, OrderInv, RunsOnce
    <2>3. PICK k \in 1 .. Len(started) : started[k] = submitted[i]
        BY <2>2 DEF Contains
    <2>4. k = i
        BY <2>3, SaveTypes DEF SavesInv, OrderInv, InOrder, Distinct
    <2>5. save[started[i]].to = s /\ save[started[i]].state = due[s]
        BY <2>1, <2>3, <2>4
    <2>6. LastFinished(i)
        BY <2>1, <2>3, <2>4, <2>5, SaveTypes DEF LastFinished
    <2>7. lock # "worker"
        <3>1. thread[Worker] # "run"
            BY OneWorker, SaveTypes DEF SavesInv, OrderInv, RunsOnce, Contains
        <3> QED BY <3>1 DEF SavesInv, WriterHoldsLock
    <2> QED BY <2>3, <2>4, <2>5, <2>6, <2>7 DEF SavesInv, FileIsLast
<1> QED BY <1>1, SpecSavesInv, PTL
=============================================================================
