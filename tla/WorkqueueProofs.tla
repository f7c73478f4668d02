-------------------------- MODULE WorkqueueProofs --------------------------
(***************************************************************************)
(* Proofs about the work queue, for every number of threads and of works.  *)
(***************************************************************************)
EXTENDS Workqueue, SequenceTheorems, FiniteSetTheorems, TLAPS

(* No entry is in the list s twice. *)
Distinct(s) == \A i, j \in 1 .. Len(s) : s[i] = s[j] => i = j

LEMMA RestOfList ==
    ASSUME NEW S, NEW s \in Seq(S), s # << >>, Distinct(s)
    PROVE  /\ Head(s) \in S /\ Contains(s, Head(s))
           /\ Tail(s) \in Seq(S) /\ Distinct(Tail(s))
           /\ \A u : Contains(Tail(s), u) <=> Contains(s, u) /\ u # Head(s)
<1>1. /\ Tail(s) \in Seq(S) /\ Len(s) \in Nat \ {0} /\ Len(Tail(s)) = Len(s) - 1
      /\ \A i \in 1 .. Len(Tail(s)) : Tail(s)[i] = s[i + 1]
      /\ Head(s) = s[1] /\ s[1] \in S
    BY HeadTailProperties, EmptySeq, LenProperties
<1>2. Contains(s, Head(s))
    BY <1>1 DEF Contains
<1>3. Distinct(Tail(s))
    BY <1>1 DEF Distinct
<1>4. ASSUME NEW u, Contains(Tail(s), u) PROVE Contains(s, u) /\ u # Head(s)
    <2>1. PICK i \in 1 .. Len(Tail(s)) : Tail(s)[i] = u
        BY <1>4 DEF Contains
    <2>2. i + 1 \in 1 .. Len(s) /\ s[i + 1] = u /\ 1 \in 1 .. Len(s) /\ i + 1 # 1
        BY <1>1, <2>1
    <2> QED BY <1>1, <2>2 DEF Contains, Distinct
<1>5. ASSUME NEW u, Contains(s, u), u # Head(s) PROVE Contains(Tail(s), u)
    <2>1. PICK i \in 1 .. Len(s) : s[i] = u
        BY <1>5 DEF Contains
    <2>2. i - 1 \in 1 .. Len(Tail(s)) /\ Tail(s)[i - 1] = u
        BY <1>1, <1>5, <2>1
    <2> QED BY <2>2 DEF Contains
<1> QED BY <1>1, <1>2, <1>3, <1>4, <1>5

(* list_del_init takes the thread, and no other, off thread_queue. *)
LEMMA UnlinkedList ==
    ASSUME WorkqueueTypeOK, NEW t \in Threads
    PROVE  /\ Unlinked(t) \in Seq(Threads) /\ Distinct(Unlinked(t))
           /\ \A u : Contains(Unlinked(t), u) <=> Contains(thread_queue, u) /\ u # t
<1> DEFINE q == thread_queue
<1>1. q \in Seq(Threads) /\ Distinct(q) /\ Len(q) \in Nat
    BY LenProperties DEF WorkqueueTypeOK, Distinct
<1>2. CASE ~ Contains(q, t)
    BY <1>1, <1>2 DEF Unlinked
<1>3. CASE Contains(q, t)
    <2> DEFINE k == CHOOSE i \in 1 .. Len(q) : q[i] = t
               front == SubSeq(q, 1, k - 1)
               back == SubSeq(q, k + 1, Len(q))
               U == Unlinked(t)
    <2>1. k \in 1 .. Len(q) /\ q[k] = t
        BY <1>3 DEF Contains
    <2>2. U = front \o back
        BY <1>3 DEF Unlinked, RemoveAt
    <2> HIDE DEF U, k
    <2>3. /\ front \in Seq(Threads) /\ Len(front) = k - 1
          /\ \A i \in 1 .. k - 1 : front[i] = q[i]
        BY <1>1, <2>1, SubSeqProperties
    <2>4. /\ back \in Seq(Threads) /\ Len(back) = Len(q) - k
          /\ \A i \in 1 .. Len(q) - k : back[i] = q[k + i]
        <3>1. \A i \in k + 1 .. Len(q) : q[i] \in Threads
            BY <1>1, <2>1
        <3>2. /\ back \in Seq(Threads)
              /\ Len(back) = IF k + 1 <= Len(q) THEN Len(q) - (k + 1) + 1 ELSE 0
              /\ \A i \in 1 .. Len(q) - (k + 1) + 1 : back[i] = q[k + 1 + i - 1]
            BY <1>1, <2>1, <3>1, SubSeqProperties
        <3> QED BY <1>1, <2>1, <3>2
    <2> HIDE DEF front, back
    <2>5. /\ U \in Seq(Threads) /\ Len(U) = Len(q) - 1
          /\ \A i \in 1 .. Len(q) - 1 : U[i] = IF i < k THEN q[i] ELSE q[i + 1]
        <3>1. /\ U \in Seq(Threads) /\ Len(U) = Len(front) + Len(back)
              /\ \A i \in 1 .. Len(front) + Len(back) :
                    U[i] = IF i <= Len(front) THEN front[i] ELSE back[i - Len(front)]
            BY <2>2, <2>3, <2>4, ConcatProperties
        <3>2. /\ U \in Seq(Threads) /\ Len(U) = Len(q) - 1
              /\ \A i \in 1 .. Len(q) - 1 :
                    U[i] = IF i <= k - 1 THEN front[i] ELSE back[i - (k - 1)]
            BY <1>1, <2>1, <2>3, <2>4, <3>1
        <3>3. ASSUME NEW i \in 1 .. Len(q) - 1, i < k PROVE U[i] = q[i]
            BY <1>1, <2>1, <2>3, <3>2, <3>3
        <3>4. ASSUME NEW i \in 1 .. Len(q) - 1, ~(i < k) PROVE U[i] = q[i + 1]
            <4>1. /\ i - (k - 1) \in 1 .. Len(q) - k /\ k + (i - (k - 1)) = i + 1
                  /\ ~(i <= k - 1)
                BY <1>1, <2>1, <3>4
            <4>2. U[i] = back[i - (k - 1)]
                BY <3>2, <4>1
            <4> QED BY <2>4, <4>1, <4>2
        <3> QED BY <3>2, <3>3, <3>4
    <2>6. Distinct(U)
        BY <1>1, <2>1, <2>5 DEF Distinct
    <2>7. ASSUME NEW u, Contains(U, u) PROVE Contains(q, u) /\ u # t
        <3>1. PICK i \in 1 .. Len(q) - 1 : U[i] = u
            BY <2>5, <2>7 DEF Contains
        <3>2. PICK j \in 1 .. Len(q) : q[j] = u /\ j # k
            <4>1. CASE i < k
                BY <1>1, <2>1, <2>5, <3>1, <4>1
            <4>2. CASE ~(i < k)
                <5>1. i + 1 \in 1 .. Len(q) /\ i + 1 # k /\ q[i + 1] = u
                    BY <1>1, <2>1, <2>5, <3>1, <4>2
                <5> QED BY <5>1
            <4> QED BY <4>1, <4>2
        <3> QED BY <1>1, <2>1, <3>2 DEF Contains, Distinct
    <2>8. ASSUME NEW u, Contains(q, u), u # t PROVE Contains(U, u)
        <3>1. PICK j \in 1 .. Len(q) : q[j] = u
            BY <2>8 DEF Contains
        <3>2. j # k
            BY <2>1, <2>8, <3>1
        <3>3. PICK i \in 1 .. Len(q) - 1 : U[i] = u
            <4>1. CASE j < k
                BY <1>1, <2>1, <2>5, <3>1, <4>1
            <4>2. CASE j > k
                <5>1. j - 1 \in 1 .. Len(q) - 1 /\ ~(j - 1 < k) /\ (j - 1) + 1 = j
                    BY <1>1, <2>1, <3>1, <4>2
                <5> QED BY <2>5, <3>1, <5>1
            <4> QED BY <1>1, <2>1, <3>1, <3>2, <4>1, <4>2
        <3> QED BY <2>5, <3>3 DEF Contains
    <2> QED BY <2>5, <2>6, <2>7, <2>8 DEF U
<1> QED BY <1>2, <1>3

-----------------------------------------------------------------------------
LEMMA QueueWorkType ==
    ASSUME WorkqueueTypeOK, NEW w \in Works \cup {Dismiss}, queue_work(w)
    PROVE  /\ work_queue' \in Seq(Works \cup {Dismiss})
           /\ Len(work_queue') = Len(work_queue) + 1
           /\ thread_queue' \in Seq(Threads) /\ Distinct(thread_queue')
           /\ thread' \in [Threads -> {"get", "asleep", "run", "ended"}]
<1>1. work_queue' \in Seq(Works \cup {Dismiss}) /\ Len(work_queue') = Len(work_queue) + 1
    BY AppendProperties DEF queue_work, WorkqueueTypeOK
<1>2. thread_queue \in Seq(Threads) /\ Distinct(thread_queue)
    BY DEF WorkqueueTypeOK, Distinct
<1>3. CASE thread_queue = << >>
    BY <1>1, <1>2, <1>3 DEF queue_work, WorkqueueTypeOK
<1>4. CASE thread_queue # << >>
    <2>1. /\ Head(thread_queue) \in Threads
          /\ Tail(thread_queue) \in Seq(Threads) /\ Distinct(Tail(thread_queue))
        BY <1>2, <1>4, RestOfList
    <2>2. thread' = [thread EXCEPT ![Head(thread_queue)] = IF @ = "asleep" THEN "get" ELSE @]
        BY <1>4 DEF queue_work
    <2>3. thread' \in [Threads -> {"get", "asleep", "run", "ended"}]
        BY <2>1, <2>2 DEF WorkqueueTypeOK
    <2> QED BY <1>1, <1>4, <2>1, <2>3 DEF queue_work
<1> QED BY <1>3, <1>4

(* A thread that goes to sleep is in thread_queue, once. *)
LEMMA SleepList ==
    ASSUME WorkqueueTypeOK, NEW t \in Threads, Sleep(t)
    PROVE  /\ thread_queue' \in Seq(Threads) /\ Distinct(thread_queue')
           /\ \A u : Contains(thread_queue', u) <=> Contains(thread_queue, u) \/ u = t
<1> DEFINE U == Unlinked(t)
           q == << t >> \o U
<1>1. /\ U \in Seq(Threads) /\ Distinct(U)
      /\ \A u : Contains(U, u) <=> Contains(thread_queue, u) /\ u # t
    BY UnlinkedList
<1> HIDE DEF U
<1>2. /\ q \in Seq(Threads) /\ Len(q) = Len(U) + 1 /\ Len(U) \in Nat
      /\ q[1] = t /\ \A i \in 1 .. Len(U) : q[i + 1] = U[i]
    <2>1. << t >> \in Seq(Threads) /\ Len(<< t >>) = 1 /\ << t >>[1] = t
        OBVIOUS
    <2>2. Len(U) \in Nat
        BY <1>1, LenProperties
    <2>3. /\ q \in Seq(Threads) /\ Len(q) = 1 + Len(U)
          /\ \A i \in 1 .. 1 + Len(U) : q[i] = IF i <= 1 THEN << t >>[i] ELSE U[i - 1]
        BY <1>1, <2>1, ConcatProperties
    <2> HIDE DEF q
    <2> QED BY <2>1, <2>2, <2>3
<1> HIDE DEF q
<1>3. \A i \in 2 .. Len(q) : i - 1 \in 1 .. Len(U) /\ q[i] = U[i - 1]
    BY <1>2
<1>4. ~ Contains(U, t)
    BY <1>1
<1>5. Distinct(q)
    BY <1>1, <1>2, <1>3, <1>4 DEF Distinct, Contains
<1>6. \A u : Contains(q, u) <=> Contains(U, u) \/ u = t
    <2>1. ASSUME NEW u, Contains(q, u), u # t PROVE Contains(U, u)
        BY <1>2, <1>3, <2>1 DEF Contains
    <2>2. ASSUME NEW u, Contains(U, u) PROVE Contains(q, u)
        BY <1>2, <2>2 DEF Contains
    <2>3. Contains(q, t)
        BY <1>2 DEF Contains
    <2> QED BY <2>1, <2>2, <2>3
<1>7. thread_queue' = q
    BY DEF Sleep, q, U
<1> QED BY <1>1, <1>2, <1>5, <1>6, <1>7

(* A thread that runs work has taken a work_struct, not a dismissal. *)
RunsWork == \A t \in Threads : thread[t] = "run" => item[t] \in Works

(* A thread in thread_queue is asleep, or has woken up by itself. *)
ListedIdle ==
    \A t \in Threads : Contains(thread_queue, t) => thread[t] \in {"asleep", "get"}

WorkqueueInv == WorkqueueTypeOK /\ RunsWork /\ ListedIdle /\ WorkHasThread

LEMMA ComingFinite == WorkqueueTypeOK => IsFiniteSet(Coming) /\ Cardinality(Coming) \in Nat
<1>1. IsFiniteSet(Coming)
    BY WorkqueueAssumption, FS_Subset DEF Coming
<1> QED BY <1>1, FS_CardinalityType

-----------------------------------------------------------------------------
(* The step lemmas: one for each kind of step, from the whole invariant.   *)

LEMMA WorkqueueInitially == WorkqueueInit => WorkqueueInv
<1> SUFFICES ASSUME WorkqueueInit PROVE WorkqueueInv
    OBVIOUS
<1>1. Cardinality(Threads) \in Nat
    BY FS_CardinalityType, WorkqueueAssumption
<1>2. /\ work_queue \in Seq(Works \cup {Dismiss}) /\ thread_queue \in Seq(Threads)
      /\ submitted \in Seq(Works) /\ started \in Seq(Works)
    BY EmptySeq DEF WorkqueueInit
<1>3. thread_queue = << >> /\ Len(thread_queue) = 0 /\ \A u : ~ Contains(thread_queue, u)
    BY DEF WorkqueueInit, Contains
<1>4. /\ thread \in [Threads -> {"get", "asleep", "run", "ended"}]
      /\ item \in [Threads -> Works \cup {Dismiss}]
      /\ \A t \in Threads : thread[t] = "get"
    BY DEF WorkqueueInit
<1>5. dismissals \in 0 .. Cardinality(Threads) /\ down \in BOOLEAN /\ finished \in SUBSET Works
    <2>1. dismissals = 0 /\ down = FALSE /\ finished = {}
        BY DEF WorkqueueInit
    <2>2. dismissals \in 0 .. Cardinality(Threads)
        BY <1>1, <2>1
    <2>3. down \in BOOLEAN
        BY ONLY <2>1, Zenon
    <2>4. finished \in SUBSET Works
        BY <2>1
    <2> QED BY <2>2, <2>3, <2>4
<1>6. WorkqueueTypeOK
    BY <1>2, <1>3, <1>4, <1>5 DEF WorkqueueTypeOK
<1>7. RunsWork
    BY <1>4 DEF RunsWork
<1>8. ListedIdle
    BY <1>3 DEF ListedIdle
<1>9. WorkHasThread
    BY <1>3, <1>4 DEF WorkHasThread
<1> QED BY <1>6, <1>7, <1>8, <1>9 DEF WorkqueueInv

(* queue_work: the thread it signals was not coming, and now is. *)
LEMMA QueueWorkStep ==
    ASSUME WorkqueueInv, NEW w \in Works \cup {Dismiss}, queue_work(w), UNCHANGED item
    PROVE  RunsWork' /\ ListedIdle' /\ WorkHasThread'
<1>0. /\ thread \in [Threads -> {"get", "asleep", "run", "ended"}]
      /\ thread_queue \in Seq(Threads) /\ Distinct(thread_queue)
      /\ Len(work_queue) \in Nat
    BY LenProperties DEF WorkqueueInv, WorkqueueTypeOK, Distinct
<1>1. Len(work_queue') = Len(work_queue) + 1
    BY QueueWorkType DEF WorkqueueInv
<1>2. CASE thread_queue = << >>
    <2>1. thread_queue' = thread_queue /\ thread' = thread /\ item' = item
        BY <1>2 DEF queue_work
    <2>2. RunsWork' /\ ListedIdle'
        BY <2>1 DEF WorkqueueInv, RunsWork, ListedIdle
    <2>3. WorkHasThread'
        BY <1>2, <2>1 DEF WorkqueueInv, WorkHasThread
    <2> QED BY <2>2, <2>3
<1>3. CASE thread_queue # << >>
    <2> DEFINE h == Head(thread_queue)
    <2>1. /\ h \in Threads /\ Contains(thread_queue, h)
          /\ \A u : Contains(thread_queue', u) <=> Contains(thread_queue, u) /\ u # h
        BY <1>0, <1>3, RestOfList DEF queue_work
    <2>2. thread[h] \in {"asleep", "get"}
        BY <2>1 DEF WorkqueueInv, ListedIdle
    <2>3. /\ thread'[h] = "get"
          /\ \A t \in Threads : t # h => thread'[t] = thread[t]
        BY <1>0, <1>3, <2>1, <2>2 DEF queue_work
    <2> HIDE DEF h
    <2>4. Coming' = Coming \cup {h} /\ h \notin Coming
        BY <2>1, <2>3 DEF Coming
    <2>5. Cardinality(Coming') = Cardinality(Coming) + 1
        BY <2>4, ComingFinite, FS_AddElement DEF WorkqueueInv
    <2>6. Len(work_queue') <= Cardinality(Coming')
        BY <1>0, <1>1, <1>3, <2>5, ComingFinite DEF WorkqueueInv, WorkHasThread
    <2>7. \A t \in Threads : thread'[t] = "asleep" => Contains(thread_queue', t)
        BY <2>1, <2>3 DEF WorkqueueInv, WorkHasThread
    <2>8. RunsWork'
        BY <2>3 DEF WorkqueueInv, RunsWork
    <2>9. ListedIdle'
        BY <2>1, <2>3 DEF WorkqueueInv, ListedIdle
    <2> QED BY <2>6, <2>7, <2>8, <2>9 DEF WorkHasThread
<1> QED BY <1>2, <1>3

(* workqueue_get_work, when there is work: whether the thread was signalled *)
(* or is still in thread_queue, the work it leaves has enough threads.      *)
LEMMA TakeStep ==
    ASSUME WorkqueueInv, NEW t \in Threads, thread[t] = "get", Take(t),
           UNCHANGED <<dismissals, down, submitted, finished>>
    PROVE  WorkqueueInv'
<1>1. /\ work_queue \in Seq(Works \cup {Dismiss}) /\ work_queue # << >>
      /\ thread \in [Threads -> {"get", "asleep", "run", "ended"}]
      /\ item \in [Threads -> Works \cup {Dismiss}]
      /\ started \in Seq(Works)
    BY DEF Take, WorkqueueInv, WorkqueueTypeOK
<1>2. /\ Head(work_queue) \in Works \cup {Dismiss}
      /\ work_queue' \in Seq(Works \cup {Dismiss})
      /\ Len(work_queue') = Len(work_queue) - 1 /\ Len(work_queue) \in Nat
    BY <1>1, HeadTailProperties, LenProperties DEF Take
<1>3. /\ thread_queue' \in Seq(Threads) /\ Distinct(thread_queue')
      /\ \A u : Contains(thread_queue', u) <=> Contains(thread_queue, u) /\ u # t
    BY UnlinkedList DEF Take, WorkqueueInv
<1>4. /\ thread'[t] = (IF Head(work_queue) = Dismiss THEN "ended" ELSE "run")
      /\ \A u \in Threads : u # t => thread'[u] = thread[u]
      /\ thread' \in [Threads -> {"get", "asleep", "run", "ended"}]
    <2>1. CASE Head(work_queue) = Dismiss
        BY <1>1, <2>1 DEF Take
    <2>2. CASE Head(work_queue) # Dismiss
        BY <1>1, <2>2 DEF Take
    <2> QED BY <2>1, <2>2
<1>5. /\ item'[t] = Head(work_queue)
      /\ \A u \in Threads : u # t => item'[u] = item[u]
      /\ item' \in [Threads -> Works \cup {Dismiss}]
    BY <1>1, <1>2 DEF Take
<1>6. started' \in Seq(Works)
    <2>1. CASE Head(work_queue) = Dismiss
        BY <1>1, <2>1 DEF Take
    <2>2. CASE Head(work_queue) # Dismiss
        <3>1. Head(work_queue) \in Works
            BY <1>2, <2>2
        <3>2. started' = Append(started, Head(work_queue))
            BY <2>2 DEF Take
        <3> QED BY <1>1, <3>1, <3>2, AppendProperties
    <2> QED BY <2>1, <2>2
<1>7. WorkqueueTypeOK'
    BY <1>2, <1>3, <1>4, <1>5, <1>6 DEF WorkqueueInv, WorkqueueTypeOK, Distinct
<1>8. RunsWork'
    BY <1>2, <1>4, <1>5 DEF WorkqueueInv, RunsWork
<1>9. ListedIdle'
    BY <1>3, <1>4 DEF WorkqueueInv, ListedIdle
<1>10. \A u \in Threads : thread'[u] = "asleep" => Contains(thread_queue', u)
    BY <1>3, <1>4 DEF WorkqueueInv, WorkHasThread
<1>11. ASSUME thread_queue' # << >> PROVE Len(work_queue') <= Cardinality(Coming')
    <2>1. Coming' = Coming \ {t}
        BY <1>3, <1>4 DEF Coming
    <2>2. thread_queue # << >>
        <3>1. thread_queue' = Unlinked(t)
            BY DEF Take
        <3>2. CASE Contains(thread_queue, t)
            BY <3>2 DEF Contains
        <3>3. CASE ~ Contains(thread_queue, t)
            BY <1>11, <3>1, <3>3 DEF Unlinked
        <3> QED BY <3>2, <3>3
    <2>3. Len(work_queue) <= Cardinality(Coming)
        BY <2>2 DEF WorkqueueInv, WorkHasThread
    <2>4. IsFiniteSet(Coming) /\ Cardinality(Coming) \in Nat
        BY ComingFinite DEF WorkqueueInv
    <2>5. CASE t \in Coming
        <3>1. Cardinality(Coming') = Cardinality(Coming) - 1
            BY <2>1, <2>4, <2>5, FS_RemoveElement
        <3> QED BY <1>2, <2>3, <2>4, <3>1
    <2>6. CASE t \notin Coming
        <3>1. Coming' = Coming
            BY <2>1, <2>6
        <3> QED BY <1>2, <2>3, <2>4, <3>1
    <2> QED BY <2>5, <2>6
<1>12. WorkHasThread'
    BY <1>10, <1>11 DEF WorkHasThread
<1> QED BY <1>7, <1>8, <1>9, <1>12 DEF WorkqueueInv

(* workqueue_get_work, when there is none. *)
LEMMA SleepStep ==
    ASSUME WorkqueueInv, NEW t \in Threads, thread[t] = "get", Sleep(t),
           UNCHANGED <<dismissals, down, submitted, finished>>
    PROVE  WorkqueueInv'
<1>1. /\ thread_queue' \in Seq(Threads) /\ Distinct(thread_queue')
      /\ \A u : Contains(thread_queue', u) <=> Contains(thread_queue, u) \/ u = t
    BY SleepList DEF WorkqueueInv
<1>2. thread \in [Threads -> {"get", "asleep", "run", "ended"}]
    BY DEF WorkqueueInv, WorkqueueTypeOK
<1>3. /\ thread'[t] = "asleep"
      /\ \A u \in Threads : u # t => thread'[u] = thread[u]
      /\ thread' \in [Threads -> {"get", "asleep", "run", "ended"}]
    BY <1>2 DEF Sleep
<1>4. work_queue' = << >> /\ work_queue' = work_queue /\ item' = item /\ started' = started
    BY DEF Sleep
<1>5. WorkqueueTypeOK'
    BY <1>1, <1>3, <1>4 DEF WorkqueueInv, WorkqueueTypeOK, Distinct
<1>6. RunsWork'
    BY <1>3, <1>4 DEF WorkqueueInv, RunsWork
<1>7. ListedIdle'
    BY <1>1, <1>3 DEF WorkqueueInv, ListedIdle
<1>8. \A u \in Threads : thread'[u] = "asleep" => Contains(thread_queue', u)
    BY <1>1, <1>3 DEF WorkqueueInv, WorkHasThread
<1>9. Len(work_queue') <= Cardinality(Coming')
    <2>1. Len(work_queue') = 0
        BY <1>4
    <2>2. IsFiniteSet(Coming')
        BY WorkqueueAssumption, FS_Subset DEF Coming
    <2> QED BY <2>1, <2>2, FS_CardinalityType
<1>10. WorkHasThread'
    BY <1>8, <1>9 DEF WorkHasThread
<1> QED BY <1>5, <1>6, <1>7, <1>10 DEF WorkqueueInv

(* SDL_CondWait returns without a signal: the thread stays in thread_queue. *)
LEMMA WakeStep ==
    ASSUME WorkqueueInv, NEW t \in Threads, WakeUnsignalled(t)
    PROVE  WorkqueueInv'
<1>1. /\ thread \in [Threads -> {"get", "asleep", "run", "ended"}]
      /\ thread[t] = "asleep" /\ Contains(thread_queue, t)
    BY DEF WakeUnsignalled, WorkqueueInv, WorkqueueTypeOK, WorkHasThread
<1>2. /\ thread'[t] = "get"
      /\ \A u \in Threads : u # t => thread'[u] = thread[u]
      /\ thread' \in [Threads -> {"get", "asleep", "run", "ended"}]
    BY <1>1 DEF WakeUnsignalled
<1>3. /\ UNCHANGED <<work_queue, thread_queue, item, dismissals, down>>
      /\ UNCHANGED <<submitted, started, finished>>
    BY DEF WakeUnsignalled, queues, history
<1>4. WorkqueueTypeOK'
    BY <1>2, <1>3 DEF WorkqueueInv, WorkqueueTypeOK
<1>5. RunsWork'
    BY <1>2, <1>3 DEF WorkqueueInv, RunsWork
<1>6. ListedIdle'
    BY <1>2, <1>3 DEF WorkqueueInv, ListedIdle
<1>7. Coming' = Coming
    BY <1>1, <1>2, <1>3 DEF Coming
<1>8. WorkHasThread'
    BY <1>2, <1>3, <1>7 DEF WorkqueueInv, WorkHasThread
<1> QED BY <1>4, <1>5, <1>6, <1>8 DEF WorkqueueInv

(* Work returns: its thread is in no list, so it comes for more. *)
LEMMA FinishStep ==
    ASSUME WorkqueueInv, NEW t \in Threads, Finish(t)
    PROVE  WorkqueueInv'
<1>1. /\ thread \in [Threads -> {"get", "asleep", "run", "ended"}]
      /\ thread[t] = "run" /\ item[t] \in Works /\ ~ Contains(thread_queue, t)
    BY DEF Finish, WorkqueueInv, WorkqueueTypeOK, RunsWork, ListedIdle
<1>2. /\ thread'[t] = "get"
      /\ \A u \in Threads : u # t => thread'[u] = thread[u]
      /\ thread' \in [Threads -> {"get", "asleep", "run", "ended"}]
    BY <1>1 DEF Finish
<1>3. /\ UNCHANGED <<work_queue, thread_queue, item, dismissals, down, submitted, started>>
      /\ finished' = finished \cup {item[t]}
    BY DEF Finish, queues
<1>4. WorkqueueTypeOK'
    BY <1>1, <1>2, <1>3 DEF WorkqueueInv, WorkqueueTypeOK
<1>5. RunsWork'
    BY <1>2, <1>3 DEF WorkqueueInv, RunsWork
<1>6. ListedIdle'
    BY <1>2, <1>3 DEF WorkqueueInv, ListedIdle
<1>7. Coming' = Coming \cup {t} /\ t \notin Coming
    BY <1>1, <1>2, <1>3 DEF Coming
<1>8. Cardinality(Coming') = Cardinality(Coming) + 1 /\ Cardinality(Coming) \in Nat
    BY <1>7, ComingFinite, FS_AddElement DEF WorkqueueInv
<1>9. Len(work_queue) \in Nat
    BY LenProperties DEF WorkqueueInv, WorkqueueTypeOK
<1>10. WorkHasThread'
    BY <1>2, <1>3, <1>8, <1>9 DEF WorkqueueInv, WorkHasThread
<1> QED BY <1>4, <1>5, <1>6, <1>10 DEF WorkqueueInv

(* queue_work called for work, and for a dismissal. *)
LEMMA SubmitStep ==
    ASSUME WorkqueueInv, NEW w \in Works, Submit(w)
    PROVE  WorkqueueInv'
<1>1. queue_work(w) /\ UNCHANGED <<item, dismissals, down, started, finished>>
    BY DEF Submit
<1>2. submitted' \in Seq(Works)
    BY AppendProperties DEF Submit, WorkqueueInv, WorkqueueTypeOK
<1>3. WorkqueueTypeOK'
    BY <1>1, <1>2, QueueWorkType DEF WorkqueueInv, WorkqueueTypeOK, Distinct
<1> QED BY <1>1, <1>3, QueueWorkStep DEF WorkqueueInv

LEMMA DismissalStep ==
    ASSUME WorkqueueInv, QueueDismissal
    PROVE  WorkqueueInv'
<1>1. /\ queue_work(Dismiss)
      /\ UNCHANGED <<item, down, submitted, started, finished>>
    BY DEF QueueDismissal, history
<1>2. dismissals' \in 0 .. Cardinality(Threads)
    BY FS_CardinalityType, WorkqueueAssumption
       DEF QueueDismissal, WorkqueueInv, WorkqueueTypeOK
<1>3. WorkqueueTypeOK'
    BY <1>1, <1>2, QueueWorkType DEF WorkqueueInv, WorkqueueTypeOK, Distinct
<1> QED BY <1>1, <1>3, QueueWorkStep DEF WorkqueueInv

(* workqueue_shutdown joins its threads, and the steps of others. *)
LEMMA QuietStep ==
    ASSUME WorkqueueInv,
           UNCHANGED <<work_queue, thread_queue, thread, item, dismissals>>,
           UNCHANGED <<submitted, started, finished>>, down' \in BOOLEAN
    PROVE  WorkqueueInv'
<1>1. WorkqueueTypeOK'
    BY DEF WorkqueueInv, WorkqueueTypeOK
<1>2. RunsWork' /\ ListedIdle'
    BY DEF WorkqueueInv, RunsWork, ListedIdle
<1>3. WorkHasThread'
    BY DEF WorkqueueInv, WorkHasThread, Coming
<1> QED BY <1>1, <1>2, <1>3 DEF WorkqueueInv

-----------------------------------------------------------------------------
LEMMA WorkqueueStepInv ==
    WorkqueueInv /\ [WorkqueueNext]_wqvars => WorkqueueInv'
<1> SUFFICES ASSUME WorkqueueInv, [WorkqueueNext]_wqvars PROVE WorkqueueInv'
    OBVIOUS
<1>1. ASSUME NEW w \in Works, Submit(w) PROVE WorkqueueInv'
    BY <1>1, SubmitStep
<1>2. CASE QueueDismissal
    BY <1>2, DismissalStep
<1>3. CASE JoinThreads
    BY <1>3, QuietStep DEF JoinThreads, queues, history
<1>4. ASSUME NEW t \in Threads, GetWork(t) PROVE WorkqueueInv'
    BY <1>4, TakeStep, SleepStep DEF GetWork
<1>5. ASSUME NEW t \in Threads, WakeUnsignalled(t) PROVE WorkqueueInv'
    BY <1>5, WakeStep
<1>6. ASSUME NEW t \in Threads, Finish(t) PROVE WorkqueueInv'
    BY <1>6, FinishStep
<1>7. CASE UNCHANGED wqvars
    <2>1. down' \in BOOLEAN
        BY <1>7 DEF wqvars, WorkqueueInv, WorkqueueTypeOK
    <2> QED BY <1>7, <2>1, QuietStep DEF wqvars, queues, history
<1> QED BY <1>1, <1>2, <1>3, <1>4, <1>5, <1>6, <1>7 DEF WorkqueueNext

(* The conjunction is an invariant of the work queue. *)
THEOREM WorkqueueSafe == WorkqueueSpec => []WorkqueueInv
<1>1. WorkqueueInit => WorkqueueInv
    BY WorkqueueInitially
<1> QED BY <1>1, WorkqueueStepInv, PTL DEF WorkqueueSpec

(* Every variable of the work queue keeps its type, and no thread is in    *)
(* thread_queue twice (line 66 takes it off before line 70 adds it).       *)
THEOREM WorkqueueTypeCorrect == WorkqueueSpec => []WorkqueueTypeOK
<1>1. WorkqueueInv => WorkqueueTypeOK
    BY DEF WorkqueueInv
<1> QED BY <1>1, WorkqueueSafe, PTL

(* No wakeup is lost (queue_work, workqueue_get_work): however many threads *)
(* there are, while one of them could still be signalled each waiting piece *)
(* of work has a thread on its way to it, and a thread that sleeps can be   *)
(* signalled.                                                               *)
THEOREM NoLostWakeup == WorkqueueSpec => []WorkHasThread
<1>1. WorkqueueInv => WorkHasThread
    BY DEF WorkqueueInv
<1> QED BY <1>1, WorkqueueSafe, PTL

-----------------------------------------------------------------------------
(* The order of work.  What waits in work_queue is what has been submitted *)
(* and not been started, and behind it the dismissals.                     *)

Waiting(i) ==
    IF Len(started) + i <= Len(submitted) THEN submitted[Len(started) + i] ELSE Dismiss

InOrder ==
    /\ Distinct(submitted)
    /\ Len(started) <= Len(submitted)
    /\ \A i \in 1 .. Len(started) : started[i] = submitted[i]
    /\ Len(started) + Len(work_queue) >= Len(submitted)
    /\ \A i \in 1 .. Len(work_queue) : work_queue[i] = Waiting(i)
    /\ dismissals = 0 => Len(started) + Len(work_queue) = Len(submitted)

(* Work that was started is finished, or one thread runs it. *)
RunsOnce ==
    /\ \A w \in finished : Contains(started, w)
    /\ \A t \in Threads : thread[t] = "run" =>
          Contains(started, item[t]) /\ item[t] \notin finished
    /\ \A t, u \in Threads :
          thread[t] = "run" /\ thread[u] = "run" /\ item[t] = item[u] => t = u
    /\ \A i \in 1 .. Len(started) : started[i] \notin finished =>
          \E t \in Threads : thread[t] = "run" /\ item[t] = started[i]

(* A thread ends when all work has been started. *)
EndsLast ==
    /\ \A t \in Threads : thread[t] = "ended" =>
          dismissals > 0 /\ Len(started) = Len(submitted)
    /\ down => dismissals > 0

OrderInv == InOrder /\ RunsOnce /\ EndsLast

LEMMA OrderTypes ==
    ASSUME WorkqueueInv
    PROVE  /\ work_queue \in Seq(Works \cup {Dismiss}) /\ Len(work_queue) \in Nat
           /\ submitted \in Seq(Works) /\ Len(submitted) \in Nat
           /\ started \in Seq(Works) /\ Len(started) \in Nat
           /\ thread \in [Threads -> {"get", "asleep", "run", "ended"}]
           /\ item \in [Threads -> Works \cup {Dismiss}]
           /\ Cardinality(Threads) \in Nat \ {0}
           /\ dismissals \in 0 .. Cardinality(Threads)
<1>1. Cardinality(Threads) \in Nat \ {0}
    BY WorkqueueAssumption, FS_CardinalityType, FS_EmptySet
<1> QED BY <1>1, LenProperties DEF WorkqueueInv, WorkqueueTypeOK

LEMMA OrderInitially == WorkqueueInit => OrderInv
<1> SUFFICES ASSUME WorkqueueInit PROVE OrderInv
    OBVIOUS
<1>1. InOrder
    BY DEF WorkqueueInit, InOrder, Distinct
<1>2. RunsOnce
    BY DEF WorkqueueInit, RunsOnce
<1>3. EndsLast
    BY DEF WorkqueueInit, EndsLast
<1> QED BY <1>1, <1>2, <1>3 DEF OrderInv

(* queue_work wakes a thread up at most. *)
LEMMA QueueWorkThreads ==
    ASSUME WorkqueueInv, NEW w \in Works \cup {Dismiss}, queue_work(w), NEW t \in Threads
    PROVE  /\ thread'[t] = "run" <=> thread[t] = "run"
           /\ thread'[t] = "ended" <=> thread[t] = "ended"
<1>1. thread \in [Threads -> {"get", "asleep", "run", "ended"}]
    BY OrderTypes
<1>2. CASE thread_queue = << >>
    BY <1>2 DEF queue_work
<1>3. CASE thread_queue # << >>
    BY <1>1, <1>3 DEF queue_work
<1> QED BY <1>2, <1>3

LEMMA SubmitOrder ==
    ASSUME WorkqueueInv, OrderInv, NEW w \in Works, Submit(w)
    PROVE  OrderInv'
<1>1. /\ dismissals = 0 /\ ~ Contains(submitted, w) /\ queue_work(w)
      /\ submitted' = Append(submitted, w)
      /\ UNCHANGED <<item, dismissals, down, started, finished>>
    BY DEF Submit
<1>2. /\ Len(submitted') = Len(submitted) + 1 /\ submitted'[Len(submitted) + 1] = w
      /\ \A i \in 1 .. Len(submitted) : submitted'[i] = submitted[i]
    BY <1>1, OrderTypes, AppendProperties
<1>3. /\ Len(work_queue') = Len(work_queue) + 1 /\ work_queue'[Len(work_queue) + 1] = w
      /\ \A i \in 1 .. Len(work_queue) : work_queue'[i] = work_queue[i]
    BY <1>1, OrderTypes, AppendProperties DEF queue_work
<1>4. Len(started) + Len(work_queue) = Len(submitted)
    BY <1>1 DEF OrderInv, InOrder
<1>5. Distinct(submitted)'
    BY <1>1, <1>2, OrderTypes DEF OrderInv, InOrder, Distinct, Contains
<1>6. \A i \in 1 .. Len(work_queue') : work_queue'[i] = Waiting(i)'
    <2> SUFFICES ASSUME NEW i \in 1 .. Len(work_queue') PROVE work_queue'[i] = Waiting(i)'
        OBVIOUS
    <2>1. CASE i = Len(work_queue) + 1
        <3>1. Len(started') + i = Len(submitted')
            BY <1>1, <1>2, <1>4, <2>1, OrderTypes
        <3> QED BY <1>2, <1>3, <1>4, <2>1, <3>1, OrderTypes DEF Waiting
    <2>2. CASE i # Len(work_queue) + 1
        <3>1. i \in 1 .. Len(work_queue)
            BY <1>3, <2>2, OrderTypes
        <3>2. work_queue[i] = Waiting(i) /\ Len(started) + i \in 1 .. Len(submitted)
            BY <1>4, <3>1, OrderTypes DEF OrderInv, InOrder
        <3> QED BY <1>1, <1>2, <1>3, <3>1, <3>2, OrderTypes DEF Waiting
    <2> QED BY <2>1, <2>2
<1>7. InOrder'
    BY <1>1, <1>2, <1>3, <1>4, <1>5, <1>6, OrderTypes DEF OrderInv, InOrder
<1>8. RunsOnce'
    BY <1>1, QueueWorkThreads DEF OrderInv, RunsOnce
<1>9. EndsLast'
    BY <1>1, QueueWorkThreads DEF OrderInv, EndsLast
<1> QED BY <1>7, <1>8, <1>9 DEF OrderInv

LEMMA DismissalOrder ==
    ASSUME WorkqueueInv, OrderInv, QueueDismissal
    PROVE  OrderInv'
<1>1. /\ queue_work(Dismiss) /\ dismissals' = dismissals + 1
      /\ UNCHANGED <<item, down, submitted, started, finished>>
    BY DEF QueueDismissal, history
<1>2. /\ Len(work_queue') = Len(work_queue) + 1 /\ work_queue'[Len(work_queue) + 1] = Dismiss
      /\ \A i \in 1 .. Len(work_queue) : work_queue'[i] = work_queue[i]
    BY <1>1, OrderTypes, AppendProperties DEF queue_work
<1>3. \A i \in 1 .. Len(work_queue') : work_queue'[i] = Waiting(i)'
    <2> SUFFICES ASSUME NEW i \in 1 .. Len(work_queue') PROVE work_queue'[i] = Waiting(i)'
        OBVIOUS
    <2>1. Waiting(i)' = Waiting(i)
        BY <1>1 DEF Waiting
    <2>2. CASE i = Len(work_queue) + 1
        <3>1. ~(Len(started) + i <= Len(submitted))
            BY <2>2, OrderTypes DEF OrderInv, InOrder
        <3> QED BY <1>2, <2>1, <2>2, <3>1 DEF Waiting
    <2>3. CASE i # Len(work_queue) + 1
        <3>1. i \in 1 .. Len(work_queue)
            <4>1. Len(work_queue') = Len(work_queue) + 1 /\ Len(work_queue) \in Nat
                BY <1>2, OrderTypes
            <4> QED BY <2>3, <4>1
        <3> QED BY <1>2, <2>1, <3>1 DEF OrderInv, InOrder
    <2> QED BY <2>2, <2>3
<1>4. InOrder'
    BY <1>1, <1>2, <1>3, OrderTypes DEF OrderInv, InOrder
<1>5. RunsOnce'
    BY <1>1, QueueWorkThreads DEF OrderInv, RunsOnce
<1>6. EndsLast'
    BY <1>1, QueueWorkThreads, OrderTypes DEF OrderInv, EndsLast
<1> QED BY <1>4, <1>5, <1>6 DEF OrderInv

(* A thread takes the next work that was submitted, or, when all of it was *)
(* started, a dismissal.                                                   *)
LEMMA TakeOrder ==
    ASSUME WorkqueueInv, OrderInv, NEW t \in Threads, thread[t] = "get", Take(t),
           UNCHANGED <<dismissals, down, submitted, finished>>
    PROVE  /\ OrderInv'
           /\ Head(work_queue) = Dismiss => started' = started
           /\ Head(work_queue) # Dismiss =>
                 /\ Len(started) < Len(submitted)
                 /\ started' = Append(started, submitted[Len(started) + 1])
                 /\ thread'[t] = "run" /\ item'[t] = submitted[Len(started) + 1]
<1> DEFINE h == Head(work_queue)
<1>1. /\ work_queue # << >> /\ Len(work_queue) >= 1 /\ h = work_queue[1]
      /\ h = Waiting(1) /\ h \in Works \cup {Dismiss}
    <2>1. work_queue # << >>
        BY DEF Take
    <2>2. Len(work_queue) >= 1 /\ h = work_queue[1] /\ h \in Works \cup {Dismiss}
        BY <2>1, OrderTypes, EmptySeq, HeadTailProperties
    <2> QED BY <2>1, <2>2, OrderTypes DEF OrderInv, InOrder
<1>2. /\ Len(work_queue') = Len(work_queue) - 1
      /\ \A i \in 1 .. Len(work_queue') : work_queue'[i] = work_queue[i + 1]
    BY <1>1, OrderTypes, HeadTailProperties DEF Take
<1>3. /\ item' = [item EXCEPT ![t] = h]
      /\ \A u \in Threads : u # t => item'[u] = item[u]
      /\ item'[t] = h
    BY OrderTypes DEF Take
<1>4. \A i \in 1 .. Len(submitted) : submitted[i] \in Works
    BY OrderTypes
<1> HIDE DEF h
<1>5. CASE h = Dismiss
    <2>1. started' = started /\ thread' = [thread EXCEPT ![t] = "ended"]
        BY <1>5 DEF Take, h
    <2>2. thread'[t] = "ended" /\ \A u \in Threads : u # t => thread'[u] = thread[u]
        BY <2>1, OrderTypes
    <2>3. Len(started) = Len(submitted)
        BY <1>1, <1>4, <1>5, OrderTypes, WorkqueueAssumption DEF OrderInv, InOrder, Waiting
    <2>4. dismissals > 0
        BY <1>1, <2>3, OrderTypes DEF OrderInv, InOrder
    <2>5. \A i \in 1 .. Len(work_queue') : work_queue'[i] = Waiting(i)'
        <3> SUFFICES ASSUME NEW i \in 1 .. Len(work_queue') PROVE work_queue'[i] = Waiting(i)'
            OBVIOUS
        <3>1. i + 1 \in 1 .. Len(work_queue) /\ work_queue'[i] = work_queue[i + 1]
            BY <1>2, OrderTypes
        <3>2. ~(Len(started) + i <= Len(submitted)) /\ ~(Len(started) + (i + 1) <= Len(submitted))
            BY <2>3, OrderTypes
        <3>3. work_queue[i + 1] = Dismiss
            BY <3>1, <3>2 DEF OrderInv, InOrder, Waiting
        <3>4. Waiting(i)' = Dismiss
            BY <2>1, <3>2 DEF Waiting
        <3> QED BY <3>1, <3>3, <3>4
    <2>6. InOrder'
        <3>1. Len(started) + Len(work_queue') >= Len(submitted)
            BY <1>1, <1>2, <2>3, OrderTypes
        <3> QED BY <2>1, <2>4, <2>5, <3>1, OrderTypes DEF OrderInv, InOrder
    <2>7. RunsOnce'
        BY <1>3, <2>1, <2>2 DEF OrderInv, RunsOnce
    <2>8. EndsLast'
        BY <2>1, <2>2, <2>3, <2>4 DEF OrderInv, EndsLast
    <2> QED BY <1>5, <2>1, <2>6, <2>7, <2>8 DEF OrderInv, h
<1>6. CASE h # Dismiss
    <2>1. started' = Append(started, h) /\ thread' = [thread EXCEPT ![t] = "run"]
        BY <1>6 DEF Take, h
    <2>2. thread'[t] = "run" /\ \A u \in Threads : u # t => thread'[u] = thread[u]
        BY <2>1, OrderTypes
    <2>3. Len(started) < Len(submitted) /\ h = submitted[Len(started) + 1]
        BY <1>1, <1>6, OrderTypes DEF Waiting
    <2>4. h \in Works
        BY <1>1, <1>6
    <2>5. /\ Len(started') = Len(started) + 1 /\ started'[Len(started) + 1] = h
          /\ \A i \in 1 .. Len(started) : started'[i] = started[i]
        BY <2>1, <2>4, OrderTypes, AppendProperties
    <2>6. ~ Contains(started, h)
        BY <2>3, OrderTypes DEF OrderInv, InOrder, Distinct, Contains
    <2>7. \A w : Contains(started', w) <=> Contains(started, w) \/ w = h
        <3>1. ASSUME NEW w, Contains(started', w), w # h PROVE Contains(started, w)
            BY <2>5, <3>1, OrderTypes DEF Contains
        <3>2. ASSUME NEW w, Contains(started, w) PROVE Contains(started', w)
            BY <2>5, <3>2, OrderTypes DEF Contains
        <3>3. Contains(started', h)
            BY <2>5, OrderTypes DEF Contains
        <3> QED BY <3>1, <3>2, <3>3
    <2>8. \A i \in 1 .. Len(work_queue') : work_queue'[i] = Waiting(i)'
        <3> SUFFICES ASSUME NEW i \in 1 .. Len(work_queue') PROVE work_queue'[i] = Waiting(i)'
            OBVIOUS
        <3>1. i + 1 \in 1 .. Len(work_queue) /\ work_queue'[i] = work_queue[i + 1]
            BY <1>2, OrderTypes
        <3>2. Waiting(i)' = Waiting(i + 1)
            <4>1. Len(started') + i = Len(started) + (i + 1)
                BY <2>5, OrderTypes, <1>2
            <4> QED BY <4>1 DEF Waiting
        <3> QED BY <3>1, <3>2 DEF OrderInv, InOrder
    <2>9. InOrder'
        <3>1. Len(started') + Len(work_queue') = Len(started) + Len(work_queue)
            BY <1>2, <2>5, OrderTypes
        <3>2. ASSUME NEW i \in 1 .. Len(started') PROVE started'[i] = submitted'[i]
            <4>1. CASE i = Len(started) + 1
                BY <2>3, <2>5, <4>1
            <4>2. CASE i # Len(started) + 1
                BY <2>5, <4>2, OrderTypes DEF OrderInv, InOrder
            <4> QED BY <4>1, <4>2
        <3>3. Len(started') <= Len(submitted')
            BY <2>3, <2>5, OrderTypes
        <3> QED BY <2>8, <3>1, <3>2, <3>3 DEF OrderInv, InOrder
    <2>10. RunsOnce'
        <3>1. \A w \in finished' : Contains(started', w)
            BY <2>7 DEF OrderInv, RunsOnce
        <3>2. h \notin finished
            BY <2>6 DEF OrderInv, RunsOnce
        <3>3. \A u \in Threads : thread'[u] = "run" =>
                  Contains(started', item'[u]) /\ item'[u] \notin finished'
            BY <1>3, <2>2, <2>7, <3>2 DEF OrderInv, RunsOnce
        <3>4. \A u, v \in Threads :
                  thread'[u] = "run" /\ thread'[v] = "run" /\ item'[u] = item'[v] => u = v
            BY <1>3, <2>2, <2>6 DEF OrderInv, RunsOnce
        <3>5. ASSUME NEW i \in 1 .. Len(started'), started'[i] \notin finished'
              PROVE  \E u \in Threads : thread'[u] = "run" /\ item'[u] = started'[i]
            <4>1. CASE i = Len(started) + 1
                BY <1>3, <2>2, <2>5, <4>1
            <4>2. CASE i # Len(started) + 1
                <5>1. i \in 1 .. Len(started) /\ started'[i] = started[i]
                    BY <2>5, <4>2, OrderTypes
                <5>2. PICK u \in Threads : thread[u] = "run" /\ item[u] = started[i]
                    BY <3>5, <5>1 DEF OrderInv, RunsOnce
                <5>3. u # t
                    BY <5>2
                <5> QED BY <1>3, <2>2, <5>1, <5>2, <5>3
            <4> QED BY <4>1, <4>2
        <3> QED BY <3>1, <3>3, <3>4, <3>5 DEF RunsOnce
    <2>11. EndsLast'
        BY <2>2, <2>3 DEF OrderInv, EndsLast
    <2> QED BY <1>3, <1>6, <2>1, <2>2, <2>3, <2>9, <2>10, <2>11 DEF OrderInv, h
<1> QED BY <1>5, <1>6 DEF h

(* Work returns: no other thread runs it. *)
LEMMA FinishOrder ==
    ASSUME WorkqueueInv, OrderInv, NEW t \in Threads, Finish(t)
    PROVE  OrderInv' /\ Contains(started, item[t]) /\ item[t] \notin finished
<1>1. /\ thread[t] = "run" /\ finished' = finished \cup {item[t]}
      /\ UNCHANGED <<work_queue, thread_queue, item, dismissals, down, submitted, started>>
    BY DEF Finish, queues
<1>2. thread'[t] = "get" /\ \A u \in Threads : u # t => thread'[u] = thread[u]
    BY OrderTypes DEF Finish
<1>3. InOrder'
    BY <1>1 DEF OrderInv, InOrder, Waiting
<1>4. Contains(started, item[t]) /\ item[t] \notin finished
    BY <1>1 DEF OrderInv, RunsOnce
<1>5. RunsOnce'
    <2>1. \A w \in finished' : Contains(started', w)
        BY <1>1, <1>4 DEF OrderInv, RunsOnce
    <2>2. \A u \in Threads : thread'[u] = "run" =>
              Contains(started', item'[u]) /\ item'[u] \notin finished'
        BY <1>1, <1>2 DEF OrderInv, RunsOnce
    <2>3. \A u, v \in Threads :
              thread'[u] = "run" /\ thread'[v] = "run" /\ item'[u] = item'[v] => u = v
        BY <1>1, <1>2 DEF OrderInv, RunsOnce
    <2>4. ASSUME NEW i \in 1 .. Len(started'), started'[i] \notin finished'
          PROVE  \E u \in Threads : thread'[u] = "run" /\ item'[u] = started'[i]
        <3>1. PICK u \in Threads : thread[u] = "run" /\ item[u] = started[i]
            BY <1>1, <2>4 DEF OrderInv, RunsOnce
        <3>2. u # t
            BY <1>1, <2>4, <3>1
        <3> QED BY <1>1, <1>2, <3>1, <3>2
    <2> QED BY <2>1, <2>2, <2>3, <2>4 DEF RunsOnce
<1>6. EndsLast'
    BY <1>1, <1>2 DEF OrderInv, EndsLast
<1> QED BY <1>3, <1>4, <1>5, <1>6 DEF OrderInv

(* Threads that sleep and wake up, and what happens elsewhere. *)
LEMMA QuietOrder ==
    ASSUME OrderInv,
           \A t \in Threads : thread'[t] = "run" <=> thread[t] = "run",
           \A t \in Threads : thread'[t] = "ended" => thread[t] = "ended",
           UNCHANGED <<work_queue, item, dismissals, submitted, started, finished>>,
           down' => dismissals > 0
    PROVE  OrderInv'
<1>1. InOrder'
    BY DEF OrderInv, InOrder, Waiting
<1>2. RunsOnce'
    <2>1. RunsOnce /\ UNCHANGED <<item, started, finished>>
        BY DEF OrderInv
    <2>2. \A t \in Threads : thread'[t] = "run" <=> thread[t] = "run"
        OBVIOUS
    <2> QED BY ONLY <2>1, <2>2 DEF RunsOnce
<1>3. EndsLast'
    <2>1. EndsLast /\ UNCHANGED <<dismissals, submitted, started>>
        BY DEF OrderInv
    <2>2. \A t \in Threads : thread'[t] = "ended" => thread[t] = "ended"
        OBVIOUS
    <2>3. down' => dismissals > 0
        OBVIOUS
    <2> QED BY ONLY <2>1, <2>2, <2>3 DEF EndsLast
<1> QED BY <1>1, <1>2, <1>3 DEF OrderInv

(* All threads have ended when workqueue_shutdown has joined them, so all  *)
(* work is finished.                                                       *)
LEMMA JoinOrder ==
    ASSUME WorkqueueInv, OrderInv, JoinThreads
    PROVE  OrderInv' /\ \A i \in 1 .. Len(submitted) : submitted[i] \in finished
<1>1. /\ \A t \in Threads : thread[t] = "ended" /\ thread'[t] = thread[t]
      /\ dismissals = Cardinality(Threads) /\ down'
      /\ UNCHANGED <<work_queue, item, dismissals, submitted, started, finished>>
    BY DEF JoinThreads, queues, history
<1>2. dismissals > 0
    BY <1>1, OrderTypes
<1>3. Len(started) = Len(submitted)
    BY <1>1, WorkqueueAssumption DEF OrderInv, EndsLast
<1>4. \A i \in 1 .. Len(submitted) : submitted[i] \in finished
    BY <1>1, <1>3 DEF OrderInv, InOrder, RunsOnce
<1> QED BY <1>1, <1>2, <1>4, QuietOrder

LEMMA WorkqueueStepOrder ==
    WorkqueueInv /\ OrderInv /\ [WorkqueueNext]_wqvars => OrderInv'
<1> SUFFICES ASSUME WorkqueueInv, OrderInv, [WorkqueueNext]_wqvars PROVE OrderInv'
    OBVIOUS
<1>1. ASSUME NEW w \in Works, Submit(w) PROVE OrderInv'
    BY <1>1, SubmitOrder
<1>2. CASE QueueDismissal
    BY <1>2, DismissalOrder
<1>3. CASE JoinThreads
    BY <1>3, JoinOrder
<1>4. ASSUME NEW t \in Threads, GetWork(t), Take(t) PROVE OrderInv'
    BY <1>4, TakeOrder DEF GetWork
<1>5. ASSUME NEW t \in Threads, GetWork(t), Sleep(t) PROVE OrderInv'
    BY <1>5, QuietOrder, OrderTypes DEF GetWork, Sleep, OrderInv, EndsLast
<1>6. ASSUME NEW t \in Threads, WakeUnsignalled(t) PROVE OrderInv'
    BY <1>6, QuietOrder, OrderTypes DEF WakeUnsignalled, queues, history, OrderInv, EndsLast
<1>7. ASSUME NEW t \in Threads, Finish(t) PROVE OrderInv'
    BY <1>7, FinishOrder
<1>8. CASE UNCHANGED wqvars
    BY <1>8, QuietOrder DEF wqvars, queues, history, OrderInv, EndsLast
<1> QED BY <1>1, <1>2, <1>3, <1>4, <1>5, <1>6, <1>7, <1>8 DEF WorkqueueNext, GetWork

LEMMA ServiceStep ==
    WorkqueueInv /\ OrderInv /\ [WorkqueueNext]_wqvars =>
        [Service!Next]_<<submitted, started, finished, down>>
<1> SUFFICES ASSUME WorkqueueInv, OrderInv, [WorkqueueNext]_wqvars
             PROVE  [Service!Next]_<<submitted, started, finished, down>>
    OBVIOUS
<1>1. ASSUME NEW w \in Works, Submit(w) PROVE Service!Submit(w)
    BY <1>1 DEF Submit, Service!Submit, OrderInv, EndsLast, Contains
<1>2. CASE QueueDismissal
    BY <1>2 DEF QueueDismissal, history
<1>3. CASE JoinThreads
    <2>1. Service!GoDown
        BY <1>3, JoinOrder DEF JoinThreads, Service!GoDown, history
    <2> QED BY <2>1 DEF Service!Next
<1>4. ASSUME NEW t \in Threads, GetWork(t), Take(t)
      PROVE  Service!Start \/ UNCHANGED <<submitted, started, finished, down>>
    BY <1>4, TakeOrder DEF GetWork, Service!Start
<1>5. ASSUME NEW t \in Threads, GetWork(t), Sleep(t)
      PROVE  UNCHANGED <<submitted, started, finished, down>>
    BY <1>5 DEF GetWork, Sleep
<1>6. ASSUME NEW t \in Threads, WakeUnsignalled(t)
      PROVE  UNCHANGED <<submitted, started, finished, down>>
    BY <1>6 DEF WakeUnsignalled, history
<1>7. ASSUME NEW t \in Threads, Finish(t)
      PROVE  item[t] \in Works /\ Service!Finish(item[t])
    BY <1>7, FinishOrder DEF Finish, Service!Finish, WorkqueueInv, RunsWork, Contains
<1>8. CASE UNCHANGED wqvars
    BY <1>8 DEF wqvars, history
<1> QED BY <1>1, <1>2, <1>3, <1>4, <1>5, <1>6, <1>7, <1>8
        DEF WorkqueueNext, GetWork, Service!Next

(* The work queue implements the service its callers count on: with any    *)
(* number of threads, work is started in the order it was queued, each     *)
(* piece once, and workqueue_shutdown returns when all of it is done.      *)
THEOREM ServiceImplemented == WorkqueueSpec => ImplementsService
<1>1. WorkqueueInit => WorkqueueInv /\ OrderInv
    BY WorkqueueInitially, OrderInitially
<1>2. WorkqueueInit => Service!Init
    BY DEF WorkqueueInit, Service!Init
<1> QED BY <1>1, <1>2, WorkqueueStepInv, WorkqueueStepOrder, ServiceStep, PTL
        DEF WorkqueueSpec, ImplementsService, Service!Spec

=============================================================================
