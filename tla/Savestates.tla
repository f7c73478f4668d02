---------------------------- MODULE Savestates ----------------------------
(***************************************************************************)
(* Save states: main/savestates.c on the work queue.  The emulation thread *)
(* sets a job (main_state_save, main_state_load) and runs it at its next   *)
(* interrupt.  A load reads the file there and then; a save copies the     *)
(* machine and hands the copy to the work queue, whose thread writes the   *)
(* file.  savestates_lock keeps the two away from each other's file.       *)
(*                                                                         *)
(* Modelled as built without USE_SDL and __LIBRETRO__, the configuration   *)
(* of projects/unix/Makefile and of build.sh: files, and a pthread mutex   *)
(* that is not recursive.                                                  *)
(***************************************************************************)
EXTENDS Workqueue

CONSTANTS
    NumSlots,    \* slots, 10 in the code
    FirstFiles,  \* the files there are at first
    Absent,      \* no file
    Foreign,     \* a state of another ROM or version
    Torn,        \* a file that does not hold a whole state
    None,
    MaxStates,   \* bound: machine states the emulation goes through
    Autoinc,     \* autoinc_save_slot
    Faults       \* opening and writing files may fail

Slots == 0 .. NumSlots - 1
States == 0 .. MaxStates
Content == States \cup {Absent, Foreign, Torn}

(* WORKQUEUE_THREADS is 1: there is one thread that writes files. *)
ASSUME SavestatesAssumption ==
    /\ \E t \in Threads : Threads = {t}
    /\ {Absent, Foreign, Torn, None} \cap States = {} /\ Torn # Absent
    /\ NumSlots \in Nat \ {0} /\ MaxStates \in Nat
    /\ FirstFiles \in [Slots -> Content]
    /\ Autoinc \in BOOLEAN /\ Faults \in BOOLEAN

VARIABLES
    emu,      \* the emulation thread
    job,      \* savestates_job
    slot,     \* the current slot
    lock,     \* savestates_lock; "left" is locked by a call that returned
    state,    \* the state of the emulated machine
    file,     \* the file of each slot
    save,     \* save[w]: the savestate_work of w
    due,      \* history: the state the last save to each slot took
    failed,   \* history: a file could not be opened, written or read
    unread    \* history: the slot of the file that could not be read

sshistory == <<due, failed, unread>>
ssvars == <<emu, job, slot, lock, state, file, save, sshistory>>
vars == <<wqvars, ssvars>>

-----------------------------------------------------------------------------
TypeOK ==
    /\ WorkqueueTypeOK
    /\ emu \in {"play", "load", "stopped"}
    /\ job \in {"nothing", "load", "save"}
    /\ slot \in Slots
    /\ lock \in {"free", "worker", "left"}
    /\ state \in States
    /\ file \in [Slots -> Content]
    /\ save \in [Works -> [to : Slots, state : States]]
    /\ due \in [Slots -> States \cup {None}]
    /\ failed \in BOOLEAN
    /\ unread \in Slots \cup {None}

Init ==
    /\ WorkqueueInit
    /\ emu = "play"
    /\ job = "nothing"
    /\ slot = 0
    /\ lock = "free"
    /\ state = 0
    /\ file = FirstFiles
    /\ save = [w \in Works |-> [to |-> 0, state |-> 0]]
    /\ due = [s \in Slots |-> None]
    /\ failed = FALSE
    /\ unread = None

-----------------------------------------------------------------------------
(* Mutant: nobody waits for the lock. *)
AcquiresAlways == TRUE

(* pthread_mutex_lock returns. *)
Acquires == lock = "free"

(* The machine runs on. *)
Play ==
    /\ emu = "play"
    /\ state' = IF state < MaxStates THEN state + 1 ELSE state
    /\ UNCHANGED <<wqvars, emu, job, slot, lock, file, save, sshistory>>

(* main_state_save and main_state_load: a later request replaces an        *)
(* earlier one that has not been run.                                      *)
SetJob(j) ==
    /\ emu = "play"
    /\ job' = j
    /\ UNCHANGED <<wqvars, emu, slot, lock, state, file, save, sshistory>>

SelectSlot(s) ==
    /\ emu = "play"
    /\ s # slot
    /\ slot' = s
    /\ UNCHANGED <<wqvars, emu, job, lock, state, file, save, sshistory>>

(* savestates_inc_slot *)
NextSlot == IF Autoinc THEN (slot + 1) % NumSlots ELSE slot

(* Mutant: the slot is read when the state is written. *)
SaveNextSlot ==
    /\ emu = "play"
    /\ job = "save"
    /\ \/ /\ \E w \in Works :
                /\ Submit(w)
                /\ save' = [save EXCEPT ![w] = [to |-> NextSlot, state |-> state]]
          /\ slot' = NextSlot
          /\ due' = [due EXCEPT ![slot] = state]
       \/ /\ slot' \in {slot, NextSlot}
          /\ UNCHANGED <<wqvars, save, due>>
    /\ job' = "nothing"
    /\ UNCHANGED <<emu, lock, state, file, failed, unread>>

(* savestates_save, at the end of gen_interrupt: the file name is that of  *)
(* the slot before it is counted up.  When memory is short nothing is      *)
(* queued, and the slot may have been counted up.                          *)
Save ==
    /\ emu = "play"
    /\ job = "save"
    /\ \/ /\ \E w \in Works :
                /\ Submit(w)
                /\ save' = [save EXCEPT ![w] = [to |-> slot, state |-> state]]
          /\ slot' = NextSlot
          /\ due' = [due EXCEPT ![slot] = state]
       \/ /\ slot' \in {slot, NextSlot}
          /\ UNCHANGED <<wqvars, save, due>>
    /\ job' = "nothing"
    /\ UNCHANGED <<emu, lock, state, file, failed, unread>>

(* savestates_load, at the start of gen_interrupt, finds the file. *)
Load ==
    /\ emu = "play"
    /\ job = "load"
    /\ IF file[slot] = Absent
       THEN job' = "nothing" /\ UNCHANGED emu
       ELSE emu' = "load" /\ UNCHANGED job
    /\ UNCHANGED <<wqvars, slot, lock, state, file, save, sshistory>>

(* savestates_load_m64p: it unlocks where version or ROM differ, memory is *)
(* short or the state is whole; where the file cannot be read or is no     *)
(* state the unlock is compiled in for USE_SDL only.                       *)
LoadState ==
    /\ emu = "load"
    /\ Acquires
    /\ \/ /\ file[slot] \in States
          /\ state' = file[slot]
          /\ UNCHANGED <<lock, sshistory>>
       \/ /\ file[slot] # Torn
          /\ UNCHANGED <<state, lock, sshistory>>
       \/ /\ file[slot] = Torn
          /\ lock' = "left"
          /\ failed' = TRUE
          /\ unread' = slot
          /\ UNCHANGED <<state, due>>
    /\ emu' = "play"
    /\ job' = "nothing"
    /\ UNCHANGED <<wqvars, slot, file, save>>

(* main_stop, and the emulation thread is gone. *)
Stop ==
    /\ emu = "play"
    /\ emu' = "stopped"
    /\ UNCHANGED <<wqvars, job, slot, lock, state, file, save, sshistory>>

-----------------------------------------------------------------------------
(* savestates_save_m64p_work: gzopen makes the file anew, or fails.        *)
Open(t) ==
    /\ thread[t] = "run"
    /\ Acquires
    /\ lock' = "worker"
    /\ file' = [file EXCEPT ![save[item[t]].to] = Torn]
    /\ UNCHANGED <<wqvars, emu, job, slot, state, save, sshistory>>

(* A failure is reported, and the function returns without unlocking. *)
OpenFails(t) ==
    /\ Faults
    /\ Acquires
    /\ Finish(t)
    /\ lock' = "left"
    /\ failed' = TRUE
    /\ UNCHANGED <<emu, job, slot, state, file, save, due, unread>>

WriteFails(t) ==
    /\ Faults
    /\ lock = "worker"
    /\ Finish(t)
    /\ lock' = "left"
    /\ failed' = TRUE
    /\ UNCHANGED <<emu, job, slot, state, file, save, due, unread>>

(* Mutants: the worker leaves without unlocking; it writes the machine as  *)
(* it is now.                                                              *)
WrittenKeepsLock(t) ==
    /\ lock = "worker"
    /\ Finish(t)
    /\ file' = [file EXCEPT ![save[item[t]].to] = save[item[t]].state]
    /\ lock' = "left"
    /\ UNCHANGED <<emu, job, slot, state, save, sshistory>>

WrittenLive(t) ==
    /\ lock = "worker"
    /\ Finish(t)
    /\ file' = [file EXCEPT ![save[item[t]].to] = state]
    /\ lock' = "free"
    /\ UNCHANGED <<emu, job, slot, state, save, sshistory>>

Written(t) ==
    /\ lock = "worker"
    /\ Finish(t)
    /\ file' = [file EXCEPT ![save[item[t]].to] = save[item[t]].state]
    /\ lock' = "free"
    /\ UNCHANGED <<emu, job, slot, state, save, sshistory>>

EmuStep == Save \/ Load \/ LoadState

TakeWork(t) == GetWork(t) /\ UNCHANGED ssvars

WorkerStep == \E t \in Threads : TakeWork(t) \/ Open(t) \/ Written(t)

(* CoreShutdown, once the emulation has stopped. *)
CoreShutdown == emu = "stopped" /\ (QueueDismissal \/ JoinThreads) /\ UNCHANGED ssvars

Next ==
    \/ Play \/ Stop
    \/ \E j \in {"load", "save"} : SetJob(j)
    \/ \E s \in Slots : SelectSlot(s)
    \/ EmuStep
    \/ WorkerStep
    \/ \E t \in Threads : OpenFails(t) \/ WriteFails(t)
    \/ \E t \in Threads : WakeUnsignalled(t) /\ UNCHANGED ssvars
    \/ CoreShutdown

Spec == Init /\ [][Next]_vars

(* Both threads keep being scheduled, interrupts keep coming, and a        *)
(* shutdown that has begun goes on.                                        *)
FairSpec ==
    /\ Spec
    /\ WF_vars(EmuStep)
    /\ WF_vars(WorkerStep)
    /\ WF_vars(dismissals > 0 /\ CoreShutdown)

-----------------------------------------------------------------------------
(* A load meets no half-written file: what the worker is writing is whole  *)
(* by the time savestates_load_m64p has the lock, although it looked for   *)
(* the file without it, and a file that could not be written is not loaded.*)
WholeFilesLoad == unread # None => FirstFiles[unread] = Torn

(* When the work queue is empty and nothing failed, each slot holds the    *)
(* state the machine was in at the last save to it, although the machine   *)
(* and the slot have moved on and several saves may have been on their way *)
(* to one file.                                                            *)
LastSaveWins ==
    (~failed /\ \A i \in 1 .. Len(submitted) : submitted[i] \in finished) =>
        \A s \in Slots : due[s] # None => file[s] = due[s]

(* Also when files cannot be opened or written, a whole file holds the     *)
(* machine as it was at one save to its slot, however long the save waited *)
(* and whatever slot was selected meanwhile.                               *)
FilesAreSnapshots ==
    \A s \in Slots : file[s] \in States \ {FirstFiles[s]} =>
        \E w \in finished : save[w] = [to |-> s, state |-> file[s]]

(* "1 if state loading was successful, 0 if state loading failed"          *)
(* (Core-Front-End.mediawiki 300): a load is answered, one way or the      *)
(* other, unless the emulation is stopped first.                           *)
LoadIsAnswered == job = "load" ~> (job # "load" \/ emu = "stopped")

(* As long as no file fails the emulation thread gets the lock, and every  *)
(* load is answered, whatever saves are on their way.                      *)
LoadIsAnsweredUnlessFailed ==
    job = "load" ~> (job # "load" \/ emu = "stopped" \/ failed)

(* CoreShutdown returns, the saves still waiting having been written,      *)
(* unless a file failed.                                                   *)
ShutdownReturns == dismissals > 0 ~> (down \/ failed)
=============================================================================
