-------------------------- MODULE QThreadPoolProofs --------------------------
(***************************************************************************)
(* The queue of the thread pool is served in order, and stop returns only  *)
(* when it is empty: for every number of threads and every set of tasks.   *)
(***************************************************************************)
EXTENDS QThreadPool, SequenceTheorems, TLAPS

USE DEF Workers

-----------------------------------------------------------------------------
(* Sequences                                                               *)

\* A task pushed at the end of the queue is the last one accepted.
LEMMA PushLast ==
    ASSUME NEW S, NEW s \in Seq(S), NEW q \in Seq(S), NEW t \in S
    PROVE  s \o Append(q, t) = Append(s \o q, t)
<1>1. /\ Append(q, t) \in Seq(S) /\ Len(Append(q, t)) = Len(q) + 1
      /\ \A i \in 1 .. Len(q) + 1 : Append(q, t)[i] = IF i <= Len(q) THEN q[i] ELSE t
    OBVIOUS
<1>2. /\ s \o q \in Seq(S) /\ Len(s \o q) = Len(s) + Len(q)
      /\ \A i \in 1 .. Len(s) + Len(q) :
            (s \o q)[i] = IF i <= Len(s) THEN s[i] ELSE q[i - Len(s)]
    BY ConcatProperties
<1>3. /\ s \o Append(q, t) \in Seq(S) /\ Len(s \o Append(q, t)) = Len(s) + Len(q) + 1
      /\ \A i \in 1 .. Len(s) + Len(q) + 1 :
            (s \o Append(q, t))[i] = IF i <= Len(s) THEN s[i] ELSE Append(q, t)[i - Len(s)]
    <2> DEFINE a == Append(q, t)
    <2>1. a \in Seq(S) /\ Len(a) = Len(q) + 1
        BY <1>1
    <2> HIDE DEF a
    <2>2. /\ s \o a \in Seq(S) /\ Len(s \o a) = Len(s) + Len(a)
          /\ \A i \in 1 .. Len(s) + Len(a) : (s \o a)[i] = IF i <= Len(s) THEN s[i] ELSE a[i - Len(s)]
        BY <2>1, ConcatProperties
    <2>3. Len(s) \in Nat /\ Len(q) \in Nat
        BY LenProperties
    <2>4. Len(s) + Len(a) = Len(s) + Len(q) + 1
        BY <2>1, <2>3
    <2>5. /\ s \o a \in Seq(S) /\ Len(s \o a) = Len(s) + Len(q) + 1
          /\ \A i \in 1 .. Len(s) + Len(q) + 1 :
                (s \o a)[i] = IF i <= Len(s) THEN s[i] ELSE a[i - Len(s)]
        BY <2>2, <2>4
    <2>6. QED
        BY <2>5 DEF a
<1>4. /\ Append(s \o q, t) \in Seq(S) /\ Len(Append(s \o q, t)) = Len(s) + Len(q) + 1
      /\ \A i \in 1 .. Len(s) + Len(q) + 1 :
            Append(s \o q, t)[i] = IF i <= Len(s) + Len(q) THEN (s \o q)[i] ELSE t
    BY <1>2
<1>5. ASSUME NEW i \in 1 .. Len(s) + Len(q) + 1
      PROVE  (s \o Append(q, t))[i] = Append(s \o q, t)[i]
    <2>1. Len(s) \in Nat /\ Len(q) \in Nat
        BY LenProperties
    <2>2. CASE i <= Len(s)
        BY <2>1, <2>2, <1>2, <1>3, <1>4
    <2>3. CASE i > Len(s) /\ i <= Len(s) + Len(q)
        <3>1. i - Len(s) \in 1 .. Len(q)
            BY <2>1, <2>3
        <3>2. (s \o Append(q, t))[i] = q[i - Len(s)]
            BY <2>1, <2>3, <3>1, <1>1, <1>3
        <3>3. Append(s \o q, t)[i] = q[i - Len(s)]
            BY <2>1, <2>3, <1>2, <1>4
        <3>4. QED
            BY <3>2, <3>3
    <2>4. CASE i = Len(s) + Len(q) + 1
        <3>1. i - Len(s) = Len(q) + 1
            BY <2>1, <2>4
        <3>2. (s \o Append(q, t))[i] = t
            BY <2>1, <2>4, <3>1, <1>1, <1>3
        <3>3. Append(s \o q, t)[i] = t
            BY <2>1, <2>4, <1>4
        <3>4. QED
            BY <3>2, <3>3
    <2>5. QED
        BY <2>1, <2>2, <2>3, <2>4
<1>6. QED
    BY <1>3, <1>4, <1>5, SeqEqual, Zenon

\* A task taken from the head of the queue is the next one started.
LEMMA TakeFirst ==
    ASSUME NEW S, NEW s \in Seq(S), NEW q \in Seq(S), q # <<>>
    PROVE  Append(s, Head(q)) \o Tail(q) = s \o q
<1>1. /\ Head(q) \in S /\ Head(q) = q[1] /\ Tail(q) \in Seq(S) /\ Len(Tail(q)) = Len(q) - 1
      /\ Len(q) \in Nat \ {0}
      /\ \A i \in 1 .. Len(q) - 1 : Tail(q)[i] = q[i + 1]
    BY HeadTailProperties, EmptySeq
<1>2. /\ Append(s, Head(q)) \in Seq(S) /\ Len(Append(s, Head(q))) = Len(s) + 1
      /\ \A i \in 1 .. Len(s) + 1 : Append(s, Head(q))[i] = IF i <= Len(s) THEN s[i] ELSE q[1]
    BY <1>1
<1>3. /\ s \o q \in Seq(S) /\ Len(s \o q) = Len(s) + Len(q)
      /\ \A i \in 1 .. Len(s) + Len(q) :
            (s \o q)[i] = IF i <= Len(s) THEN s[i] ELSE q[i - Len(s)]
    BY ConcatProperties
<1> DEFINE u == Append(s, Head(q)) \o Tail(q)
<1>4. /\ u \in Seq(S) /\ Len(u) = Len(Append(s, Head(q))) + Len(Tail(q))
      /\ \A i \in 1 .. Len(Append(s, Head(q))) + Len(Tail(q)) :
            u[i] = IF i <= Len(Append(s, Head(q))) THEN Append(s, Head(q))[i]
                                                   ELSE Tail(q)[i - Len(Append(s, Head(q)))]
    BY <1>1, <1>2, ConcatProperties
<1>5. Len(s) \in Nat
    BY LenProperties
<1>6. Len(u) = Len(s) + Len(q)
    BY <1>1, <1>2, <1>4, <1>5
<1>7. ASSUME NEW i \in 1 .. Len(s) + Len(q)
      PROVE  u[i] = (s \o q)[i]
    <2>1. u[i] = IF i <= Len(s) + 1 THEN Append(s, Head(q))[i] ELSE Tail(q)[i - (Len(s) + 1)]
        BY <1>1, <1>2, <1>4, <1>5
    <2>2. CASE i <= Len(s)
        BY <2>1, <2>2, <1>2, <1>3, <1>5
    <2>3. CASE i = Len(s) + 1
        BY <2>1, <2>3, <1>1, <1>2, <1>3, <1>5
    <2>4. CASE i > Len(s) + 1
        <3>1. i - (Len(s) + 1) \in 1 .. Len(q) - 1 /\ (i - (Len(s) + 1)) + 1 = i - Len(s)
            BY <2>4, <1>1, <1>5
        <3>2. Tail(q)[i - (Len(s) + 1)] = q[i - Len(s)]
            BY <3>1, <1>1
        <3>3. QED
            BY <2>1, <2>4, <3>2, <1>3, <1>5
    <2>5. QED
        BY <2>2, <2>3, <2>4, <1>5
<1>8. QED
    BY <1>3, <1>4, <1>6, <1>7, SeqEqual, Zenon

-----------------------------------------------------------------------------
(* Types                                                                   *)

\* The type invariant and the tasks held are kept by every step.
LEMMA TypeStep == TypeOK /\ HeldWhileRunning /\ [Next]_vars => TypeOK'
<1> SUFFICES ASSUME TypeOK, HeldWhileRunning, [Next]_vars PROVE TypeOK'
    OBVIOUS
<1> USE PoolAssumption DEF TypeOK, OwnerStates, WorkerStates, initVars, history
<1>1. ASSUME NEW n \in 0 .. num_threads, init(n) PROVE TypeOK'
    BY <1>1 DEF init
<1>2. CASE init_wait
    BY <1>2 DEF init_wait
<1>3. ASSUME NEW w \in Workers, NEW ok \in BOOLEAN, thread_init(w, ok) PROVE TypeOK'
    BY <1>3 DEF thread_init
<1>4. ASSUME NEW w \in Workers, thread_take(w) PROVE TypeOK'
    <2>1. CASE tasks # <<>>
        <3>1. Head(tasks) \in Tasks /\ Tail(tasks) \in Seq(Tasks)
            BY <2>1, HeadTailProperties
        <3>2. started' \in Seq(Tasks)
            <4>1. started' = Append(started, Head(tasks))
                BY <1>4, <2>1 DEF thread_take
            <4>2. started \in Seq(Tasks)
                OBVIOUS
            <4>3. QED
                BY <4>1, <4>2, <3>1
        <3>3. QED
            BY <1>4, <2>1, <3>1, <3>2 DEF thread_take, popped
    <2>2. CASE tasks = <<>>
        BY <1>4, <2>2 DEF thread_take
    <2>3. QED
        BY <2>1, <2>2
<1>5. ASSUME NEW w \in Workers, spurious_wakeup(w) \/ thread_run(w) \/ thread_exit(w) PROVE TypeOK'
    BY <1>5 DEF spurious_wakeup, thread_run, thread_exit
<1>6. ASSUME NEW w \in Workers, thread_finish(w) PROVE TypeOK'
    <2>1. task_data[w] \in Tasks
        BY <1>6 DEF thread_finish, HeldWhileRunning
    <2>2. completed_tasks' \in Seq(Tasks)
        BY <1>6, <2>1 DEF thread_finish, finished_task
    <2>3. QED
        BY <1>6, <2>2 DEF thread_finish
<1>7. ASSUME NEW t \in Tasks, enqueue(t) PROVE TypeOK'
    <2>1. worker' \in [Workers -> WorkerStates]
        BY <1>7 DEF enqueue, woken
    <2>2. tasks' \in Seq(Tasks) /\ accepted' \in Seq(Tasks)
        BY <1>7 DEF enqueue
    <2>3. QED
        BY <1>7, <2>1, <2>2 DEF enqueue
<1>8. CASE process_in_main_thread
    BY <1>8 DEF process_in_main_thread
<1>9. CASE callback
    BY <1>9 DEF callback
<1>10. CASE process_end
    BY <1>10, EmptySeq DEF process_end, cleared
<1>11. CASE stop
    BY <1>11 DEF stop, awake
<1>12. CASE join
    <2>1. owner' \in OwnerStates /\ next' \in Nat
        BY <1>12 DEF join
    <2>2. joins' \in [Workers -> Nat]
        <3>1. CASE UNCHANGED joins
            BY <3>1
        <3>2. CASE joins' = [joins EXCEPT ![next] = @ + 1]
            <4>1. \A w \in Workers : joins[w] + 1 \in Nat
                OBVIOUS
            <4>2. QED
                BY <3>2, <4>1
        <3>3. QED
            BY <1>12, <3>1, <3>2 DEF join
    <2>3. QED
        BY <1>12, <2>1, <2>2 DEF join
<1>13. CASE joined
    BY <1>13 DEF joined
<1>14. CASE UNCHANGED vars
    BY <1>14 DEF vars
<1>15. QED
    BY <1>1, <1>2, <1>3, <1>4, <1>5, <1>6, <1>7, <1>8, <1>9, <1>10, <1>11, <1>12, <1>13, <1>14
       DEF Next, WorkerStep

-----------------------------------------------------------------------------
(* The queue                                                               *)

\* Taking and pushing keep the queue the rest of what was accepted.
LEMMA OrderStep == TypeOK /\ StartedInOrder /\ [Next]_vars => StartedInOrder'
<1> SUFFICES ASSUME TypeOK, StartedInOrder, [Next]_vars PROVE StartedInOrder'
    OBVIOUS
<1>1. ASSUME NEW w \in Workers, thread_take(w) PROVE StartedInOrder'
    <2>1. CASE tasks # <<>>
        <3>1. started' = Append(started, Head(tasks)) /\ tasks' = Tail(tasks) /\ accepted' = accepted
            BY <1>1, <2>1 DEF thread_take, popped
        <3>2. started \in Seq(Tasks) /\ tasks \in Seq(Tasks)
            BY DEF TypeOK
        <3>3. Append(started, Head(tasks)) \o Tail(tasks) = started \o tasks
            BY <2>1, <3>2, TakeFirst
        <3>4. QED
            BY <3>1, <3>3 DEF StartedInOrder
    <2>2. CASE tasks = <<>>
        BY <1>1, <2>2 DEF thread_take, StartedInOrder
    <2>3. QED
        BY <2>1, <2>2
<1>2. ASSUME NEW t \in Tasks, enqueue(t) PROVE StartedInOrder'
    <2>1. started' = started /\ tasks' = Append(tasks, t) /\ accepted' = Append(accepted, t)
        BY <1>2 DEF enqueue
    <2>2. started \in Seq(Tasks) /\ tasks \in Seq(Tasks)
        BY DEF TypeOK
    <2>3. started \o Append(tasks, t) = Append(started \o tasks, t)
        BY <2>2, PushLast
    <2>4. QED
        BY <2>1, <2>3 DEF StartedInOrder
<1>3. CASE UNCHANGED <<started, tasks, accepted>>
    BY <1>3 DEF StartedInOrder
<1>4. QED
    BY <1>1, <1>2, <1>3
       DEF Next, WorkerStep, init, init_wait, thread_init, spurious_wakeup, thread_run, thread_finish,
           thread_exit, process_in_main_thread, callback, process_end, stop, join, joined, history, vars

\* Only thread_take fills task_data and only thread_finish clears it.
LEMMA HeldStep == TypeOK /\ HeldWhileRunning /\ QueueOpen /\ [Next]_vars => HeldWhileRunning'
<1> SUFFICES ASSUME TypeOK, HeldWhileRunning, QueueOpen, [Next]_vars PROVE HeldWhileRunning'
    OBVIOUS
<1> USE DEF TypeOK, HeldWhileRunning
<1>1. ASSUME NEW n \in 0 .. num_threads, init(n) PROVE HeldWhileRunning'
    BY <1>1 DEF init, QueueOpen
<1>4. ASSUME NEW w \in Workers, thread_take(w) PROVE HeldWhileRunning'
    <2>1. CASE tasks # <<>>
        <3>1. Head(tasks) \in Tasks
            BY <2>1, HeadTailProperties
        <3>2. QED
            BY <1>4, <2>1, <3>1 DEF thread_take
    <2>2. CASE tasks = <<>>
        BY <1>4, <2>2 DEF thread_take
    <2>3. QED
        BY <2>1, <2>2
<1>5. ASSUME NEW w \in Workers, NEW ok \in BOOLEAN,
             thread_init(w, ok) \/ spurious_wakeup(w) \/ thread_run(w) \/ thread_exit(w)
      PROVE  HeldWhileRunning'
    BY <1>5 DEF thread_init, spurious_wakeup, thread_run, thread_exit
<1>6. ASSUME NEW w \in Workers, thread_finish(w) PROVE HeldWhileRunning'
    BY <1>6 DEF thread_finish
<1>7. ASSUME NEW t \in Tasks, enqueue(t) PROVE HeldWhileRunning'
    BY <1>7 DEF enqueue, woken
<1>8. CASE stop
    BY <1>8 DEF stop, awake
<1>9. CASE UNCHANGED <<worker, task_data>>
    BY <1>9
<1>10. QED
    BY <1>1, <1>4, <1>5, <1>6, <1>7, <1>8, <1>9
       DEF Next, WorkerStep, init_wait, process_in_main_thread, callback, process_end, join, joined, vars

\* A worker that leaves has seen the queue stopped and empty, and nothing is pushed after that.
LEMMA LeaveStep == TypeOK /\ QueueOpen /\ LeavesEmpty /\ [Next]_vars => LeavesEmpty'
<1> SUFFICES ASSUME TypeOK, QueueOpen, LeavesEmpty, [Next]_vars PROVE LeavesEmpty'
    OBVIOUS
<1> USE DEF TypeOK, LeavesEmpty, initVars
<1>1. ASSUME NEW n \in 0 .. num_threads, init(n) PROVE LeavesEmpty'
    BY <1>1 DEF init, QueueOpen
<1>2. ASSUME NEW w \in Workers, NEW ok \in BOOLEAN, thread_init(w, ok) PROVE LeavesEmpty'
    BY <1>2 DEF thread_init
<1>3. ASSUME NEW w \in Workers, thread_take(w) PROVE LeavesEmpty'
    <2>1. CASE tasks # <<>>
        BY <1>3, <2>1 DEF thread_take
    <2>2. CASE tasks = <<>>
        BY <1>3, <2>2 DEF thread_take
    <2>3. QED
        BY <2>1, <2>2
<1>4. ASSUME NEW w \in Workers,
             spurious_wakeup(w) \/ thread_run(w) \/ thread_finish(w) \/ thread_exit(w)
      PROVE  LeavesEmpty'
    BY <1>4 DEF spurious_wakeup, thread_run, thread_finish, thread_exit
<1>5. ASSUME NEW t \in Tasks, enqueue(t) PROVE LeavesEmpty'
    BY <1>5 DEF enqueue, woken, QueueOpen
<1>6. CASE stop
    BY <1>6 DEF stop, awake
<1>7. CASE UNCHANGED <<worker, initialized, stop_flag, tasks>>
    BY <1>7
<1>8. QED
    BY <1>1, <1>2, <1>3, <1>4, <1>5, <1>6, <1>7
       DEF Next, WorkerStep, init_wait, process_in_main_thread, callback, process_end, join, joined, vars

\* enqueue comes before stop and after a worker was initialised.
LEMMA OpenStep == TypeOK /\ QueueOpen /\ LeavesEmpty /\ [Next]_vars => QueueOpen'
<1> SUFFICES ASSUME TypeOK, QueueOpen, LeavesEmpty, [Next]_vars PROVE QueueOpen'
    OBVIOUS
<1> USE DEF TypeOK, QueueOpen, initVars
<1>1. ASSUME NEW n \in 0 .. num_threads, init(n) PROVE QueueOpen'
    BY <1>1 DEF init
<1>2. ASSUME NEW w \in Workers, NEW ok \in BOOLEAN, thread_init(w, ok) PROVE QueueOpen'
    BY <1>2 DEF thread_init, LeavesEmpty
<1>3. ASSUME NEW w \in Workers, thread_take(w) PROVE QueueOpen'
    BY <1>3 DEF thread_take
<1>4. ASSUME NEW w \in Workers,
             spurious_wakeup(w) \/ thread_run(w) \/ thread_finish(w) \/ thread_exit(w)
      PROVE  QueueOpen'
    <2>1. UNCHANGED <<owner, stop_flag, tasks, initialized, initialized_threads>>
        BY <1>4 DEF spurious_wakeup, thread_run, thread_finish, thread_exit
    <2>2. owner # "new"
        BY <1>4 DEF spurious_wakeup, thread_run, thread_finish, thread_exit
    <2>3. QED
        BY <2>1, <2>2
<1>5. ASSUME NEW t \in Tasks, enqueue(t) PROVE QueueOpen'
    BY <1>5 DEF enqueue
<1>6. CASE init_wait \/ process_in_main_thread \/ callback \/ process_end \/ stop \/ join \/ joined
    <2>1. UNCHANGED <<tasks, initialized, initialized_threads>> /\ owner' # "new"
        BY <1>6 DEF init_wait, process_in_main_thread, callback, process_end, stop, join, joined
    <2>2. \/ owner' \in {"joining", "stopped", "destroyed", "crashed"}
          \/ stop_flag' = stop_flag /\ owner \in {"init_check", "ready", "callbacks"}
        BY <1>6 DEF init_wait, process_in_main_thread, callback, process_end, stop, join, joined
    <2>3. QED
        BY <2>1, <2>2
<1>7. CASE UNCHANGED vars
    BY <1>7 DEF vars
<1>8. QED
    BY <1>1, <1>2, <1>3, <1>4, <1>5, <1>6, <1>7 DEF Next, WorkerStep

\* A thread that has ended does nothing more, so the joined ones stay so.
LEMMA JoinStep == TypeOK /\ JoinedDone /\ [Next]_vars => JoinedDone'
<1> SUFFICES ASSUME TypeOK, JoinedDone, [Next]_vars PROVE JoinedDone'
    OBVIOUS
<1> USE PoolAssumption DEF TypeOK, JoinedDone, initVars
<1>1. ASSUME NEW n \in 0 .. num_threads, init(n) PROVE JoinedDone'
    BY <1>1 DEF init
<1>2. ASSUME NEW w \in Workers, NEW ok \in BOOLEAN, thread_init(w, ok) PROVE JoinedDone'
    BY <1>2 DEF thread_init
<1>3. ASSUME NEW w \in Workers, thread_take(w) PROVE JoinedDone'
    BY <1>3 DEF thread_take
<1>4. ASSUME NEW w \in Workers,
             spurious_wakeup(w) \/ thread_run(w) \/ thread_finish(w) \/ thread_exit(w)
      PROVE  JoinedDone'
    BY <1>4 DEF spurious_wakeup, thread_run, thread_finish, thread_exit
<1>5. ASSUME NEW t \in Tasks, enqueue(t) PROVE JoinedDone'
    BY <1>5 DEF enqueue
<1>6. CASE init_wait \/ process_in_main_thread \/ callback \/ process_end
    BY <1>6 DEF init_wait, process_in_main_thread, callback, process_end
<1>7. CASE stop
    BY <1>7 DEF stop, awake
<1>8. CASE join
    <2>1. CASE joinable(next) /\ next' = next + 1 /\ UNCHANGED owner
        BY <1>8, <2>1 DEF join, joinable
    <2>2. CASE owner' = "crashed"
        BY <1>8, <2>2
    <2>3. QED
        BY <1>8, <2>1, <2>2 DEF join
<1>9. CASE joined
    BY <1>9 DEF joined
<1>10. CASE UNCHANGED vars
    BY <1>10 DEF vars
<1>11. QED
    BY <1>1, <1>2, <1>3, <1>4, <1>5, <1>6, <1>7, <1>8, <1>9, <1>10 DEF Next, WorkerStep

-----------------------------------------------------------------------------
(* Theorems                                                                *)

\* PoolInv holds at the start and is kept by every step of the owner and of the workers.
THEOREM PoolInductive == Spec => []PoolInv
<1>1. Init => PoolInv
    <2> SUFFICES ASSUME Init PROVE PoolInv
        OBVIOUS
    <2> USE PoolAssumption DEF Init
    <2>1. TypeOK
        BY EmptySeq DEF TypeOK, OwnerStates, WorkerStates
    <2>2. StartedInOrder
        <3>1. <<>> \o <<>> = <<>>
            BY ConcatEmptySeq, EmptySeq
        <3>2. QED
            BY <3>1 DEF StartedInOrder
    <2>3. HeldWhileRunning /\ QueueOpen /\ LeavesEmpty /\ JoinedDone
        BY DEF HeldWhileRunning, QueueOpen, LeavesEmpty, JoinedDone
    <2>4. QED
        BY <2>1, <2>2, <2>3 DEF PoolInv
<1>2. PoolInv /\ [Next]_vars => PoolInv'
    BY TypeStep, OrderStep, HeldStep, LeaveStep, OpenStep, JoinStep DEF PoolInv
<1>3. QED
    BY <1>1, <1>2, PTL DEF Spec

\* Every variable of the pool keeps its type.
THEOREM PoolTypes == Spec => []TypeOK
<1>1. PoolInv => TypeOK
    BY DEF PoolInv
<1>2. QED
    BY <1>1, PoolInductive, PTL

\* With any number of workers, tasks are taken once each and in the order of enqueue.
THEOREM InOrder == Spec => []StartedInOrder
<1>1. PoolInv => StartedInOrder
    BY DEF PoolInv
<1>2. QED
    BY <1>1, PoolInductive, PTL

\* With any number of workers, stop returns only when the queue is empty and no worker holds
\* a task: what an initialised worker leaves is an empty queue, and a task can be in the queue
\* only if a worker was initialised.
THEOREM Drains == Spec => []StopDrains
<1>1. PoolInv => StopDrains
    <2> SUFFICES ASSUME PoolInv, owner \in {"stopped", "destroyed"}
                 PROVE  tasks = <<>> /\ \A w \in Workers : task_data[w] = NoTask /\ worker[w] = "done"
        BY DEF StopDrains
    <2>1. \A w \in Workers : worker[w] = "done"
        BY DEF PoolInv, JoinedDone
    <2>2. \A w \in Workers : task_data[w] = NoTask
        BY <2>1 DEF PoolInv, HeldWhileRunning
    <2>3. tasks = <<>>
        BY <2>1 DEF PoolInv, QueueOpen, LeavesEmpty
    <2>4. QED
        BY <2>1, <2>2, <2>3
<1>2. QED
    BY <1>1, PoolInductive, PTL

-----------------------------------------------------------------------------
(* Where each task is                                                      *)

\* The members of a sequence.
In(s) == {s[i] : i \in 1 .. Len(s)}

\* No member of the sequence comes twice.
Once(s) == \A i, j \in 1 .. Len(s) : s[i] = s[j] => i = j

\* A task moves from the queue to a worker, to completed_tasks and to the callbacks: it is never
\* in two of these places, nor twice in one.
Whereabouts ==
    /\ Once(tasks) /\ In(tasks) \cap In(started) = {}
    /\ In(tasks) \subseteq In(accepted) /\ In(started) \subseteq In(accepted)
    /\ Once(completed_tasks) /\ In(completed_tasks) \subseteq In(started)
    /\ notified \subseteq In(started)
    /\ \A w \in Workers : task_data[w] # NoTask =>
          /\ task_data[w] \in In(started) \ In(completed_tasks)
          /\ task_data[w] \notin notified
          /\ \A v \in Workers : task_data[v] = task_data[w] => v = w

\* The callbacks before the loop index were called.
CallbacksCalled ==
    owner = "callbacks" =>
        /\ next >= 1
        /\ \A i \in 1 .. Len(completed_tasks) :
              i < next /\ completed_tasks[i] \in Notified => completed_tasks[i] \in notified

\* A task that was taken is held, or completed, or notified.
Accounted ==
    \A t \in In(started) \cap Notified :
        (\E w \in Workers : task_data[w] = t) \/ t \in In(completed_tasks) \cup notified

\* What the owner has still to go through was not notified.
NotTwice ==
    \A i \in 1 .. Len(completed_tasks) :
        completed_tasks[i] \in notified => owner = "callbacks" /\ i < next

\* The inductive invariant of the tasks.
TaskInv == PoolInv /\ Whereabouts /\ CallbacksCalled /\ Accounted /\ NotTwice

\* Members of a sequence with one more element.
LEMMA InAppend ==
    ASSUME NEW S, NEW s \in Seq(S), NEW x \in S
    PROVE  /\ In(Append(s, x)) = In(s) \cup {x}
           /\ Once(s) /\ x \notin In(s) => Once(Append(s, x))
<1> DEFINE a == Append(s, x)
<1>1. /\ a \in Seq(S) /\ Len(a) = Len(s) + 1 /\ Len(s) \in Nat
      /\ \A i \in 1 .. Len(s) : a[i] = s[i]
      /\ a[Len(s) + 1] = x
    BY AppendProperties, LenProperties
<1> HIDE DEF a
<1>2. In(a) = In(s) \cup {x}
    <2>1. \A i \in 1 .. Len(a) : a[i] \in In(s) \cup {x}
        BY <1>1 DEF In
    <2>2. \A i \in 1 .. Len(s) : s[i] \in In(a)
        BY <1>1 DEF In
    <2>3. x \in In(a)
        BY <1>1 DEF In
    <2>4. QED
        BY <2>1, <2>2, <2>3 DEF In
<1>3. Once(s) /\ x \notin In(s) => Once(a)
    BY <1>1 DEF In, Once
<1>4. QED
    BY <1>2, <1>3 DEF a

\* Members of a sequence without its head.
LEMMA InTail ==
    ASSUME NEW S, NEW s \in Seq(S), s # <<>>
    PROVE  /\ In(s) = In(Tail(s)) \cup {Head(s)} /\ Head(s) \in S
           /\ Once(s) => Once(Tail(s)) /\ Head(s) \notin In(Tail(s))
<1> DEFINE q == Tail(s)
           h == Head(s)
<1>1. /\ h \in S /\ h = s[1] /\ q \in Seq(S) /\ Len(q) = Len(s) - 1 /\ Len(s) \in Nat \ {0}
      /\ \A i \in 1 .. Len(s) - 1 : q[i] = s[i + 1]
    BY HeadTailProperties, EmptySeq
<1> HIDE DEF q, h
<1>2. In(s) = In(q) \cup {h}
    <2>1. \A i \in 1 .. Len(s) : s[i] \in In(q) \cup {h}
        <3> TAKE i \in 1 .. Len(s)
        <3>1. CASE i = 1
            BY <1>1, <3>1
        <3>2. CASE i # 1
            <4>1. i - 1 \in 1 .. Len(q) /\ q[i - 1] = s[i]
                BY <1>1, <3>2
            <4>2. QED
                BY <4>1 DEF In
        <3>3. QED
            BY <3>1, <3>2
    <2>2. \A i \in 1 .. Len(q) : q[i] \in In(s)
        BY <1>1 DEF In
    <2>3. h \in In(s)
        BY <1>1 DEF In
    <2>4. QED
        BY <2>1, <2>2, <2>3 DEF In
<1>3. ASSUME Once(s) PROVE Once(q) /\ h \notin In(q)
    <2>1. \A i \in 1 .. Len(q) : i + 1 \in 1 .. Len(s) /\ q[i] = s[i + 1] /\ i + 1 # 1
        BY <1>1
    <2>2. Once(q)
        <3> SUFFICES ASSUME NEW i \in 1 .. Len(q), NEW j \in 1 .. Len(q), q[i] = q[j] PROVE i = j
            BY DEF Once
        <3>1. i + 1 = j + 1
            BY <1>3, <2>1 DEF Once
        <3>2. QED
            BY <3>1
    <2>3. \A i \in 1 .. Len(q) : q[i] # h
        <3> SUFFICES ASSUME NEW i \in 1 .. Len(q), q[i] = h PROVE FALSE
            OBVIOUS
        <3>1. 1 \in 1 .. Len(s) /\ s[i + 1] = s[1]
            BY <1>1, <2>1
        <3>2. QED
            BY <1>3, <2>1, <3>1 DEF Once
    <2>4. QED
        BY <2>2, <2>3 DEF In
<1>4. QED
    BY <1>1, <1>2, <1>3 DEF q, h

\* Accounted and NotTwice are NothingLost in terms of members.
LEMMA AccountedNothingLost == Accounted /\ NotTwice => NothingLost
BY DEF Accounted, NotTwice, NothingLost, In

\* A worker takes the head of the queue: no one else holds it, and no callback knows it yet.
LEMMA TakeTask ==
    ASSUME TaskInv, NEW w \in Workers, thread_take(w)
    PROVE  Whereabouts' /\ CallbacksCalled' /\ Accounted' /\ NotTwice'
<1>1. CASE tasks = <<>>
    BY <1>1 DEF thread_take, TaskInv, Whereabouts, CallbacksCalled, Accounted, NotTwice
<1>2. CASE tasks # <<>>
    <2> DEFINE h == Head(tasks)
    <2>1. tasks \in Seq(Tasks) /\ started \in Seq(Tasks) /\ task_data \in [Workers -> Tasks \cup {NoTask}]
        BY DEF TaskInv, PoolInv, TypeOK
    <2>2. /\ task_data' = [task_data EXCEPT ![w] = h] /\ tasks' = Tail(tasks)
          /\ started' = Append(started, h)
          /\ UNCHANGED <<owner, next, completed_tasks, accepted, notified>>
        BY <1>2 DEF thread_take, popped
    <2>3. /\ In(tasks) = In(tasks') \cup {h} /\ h \in Tasks
          /\ Once(tasks) => Once(tasks') /\ h \notin In(tasks')
        BY <1>2, <2>1, <2>2, InTail
    <2>4. In(started') = In(started) \cup {h}
        BY <2>1, <2>2, <2>3, InAppend
    <2>5. task_data[w] = NoTask
        BY DEF thread_take, TaskInv, PoolInv, HeldWhileRunning
    <2>6. /\ h # NoTask /\ h \notin In(started) /\ h \notin In(completed_tasks) /\ h \notin notified
          /\ \A v \in Workers : task_data[v] # h
        BY PoolAssumption, <2>3 DEF TaskInv, Whereabouts
    <2>7. \A v \in Workers : task_data'[v] = IF v = w THEN h ELSE task_data[v]
        BY <2>1, <2>2
    <2> HIDE DEF h
    <2>8. Whereabouts'
        <3>1. /\ Once(tasks') /\ In(tasks') \cap In(started') = {}
              /\ In(tasks') \subseteq In(accepted') /\ In(started') \subseteq In(accepted')
              /\ Once(completed_tasks') /\ In(completed_tasks') \subseteq In(started')
              /\ notified' \subseteq In(started')
            BY <2>2, <2>3, <2>4 DEF TaskInv, Whereabouts
        <3>2. ASSUME NEW u \in Workers, task_data'[u] # NoTask
              PROVE  /\ task_data'[u] \in In(started') \ In(completed_tasks')
                     /\ task_data'[u] \notin notified'
                     /\ \A v \in Workers : task_data'[v] = task_data'[u] => v = u
            BY <2>2, <2>4, <2>6, <2>7, <3>2 DEF TaskInv, Whereabouts
        <3>3. QED
            BY <3>1, <3>2 DEF Whereabouts
    <2>9. CallbacksCalled'
        BY <2>2 DEF TaskInv, CallbacksCalled
    <2>10. Accounted' /\ NotTwice'
        <3>1. \A t \in In(started') \cap Notified :
                 (\E v \in Workers : task_data'[v] = t) \/ t \in In(completed_tasks') \cup notified'
            <4> TAKE t \in In(started') \cap Notified
            <4>1. CASE t = h
                BY <2>7, <4>1
            <4>2. CASE t # h
                <5>1. t \in In(started) \cap Notified /\ t # NoTask
                    BY <2>4, <4>2, PoolAssumption
                <5>2. (\E v \in Workers : task_data[v] = t) \/ t \in In(completed_tasks) \cup notified
                    BY <5>1 DEF TaskInv, Accounted
                <5>3. QED
                    BY <2>2, <2>5, <2>7, <5>1, <5>2
            <4>3. QED
                BY <4>1, <4>2
        <3>2. \A i \in 1 .. Len(completed_tasks') :
                 completed_tasks'[i] \in notified' => owner' = "callbacks" /\ i < next'
            BY <2>2 DEF TaskInv, NotTwice
        <3>3. QED
            BY <3>1, <3>2 DEF Accounted, NotTwice
    <2>11. QED
        BY <2>8, <2>9, <2>10
<1>3. QED
    BY <1>1, <1>2

\* A worker hands its task to completed_tasks, while no callbacks run.
LEMMA FinishTask ==
    ASSUME TaskInv, NEW w \in Workers, thread_finish(w)
    PROVE  Whereabouts' /\ CallbacksCalled' /\ Accounted' /\ NotTwice'
<1> DEFINE d == task_data[w]
<1>1. /\ d \in Tasks /\ d # NoTask /\ completed_tasks \in Seq(Tasks)
      /\ task_data \in [Workers -> Tasks \cup {NoTask}]
    BY PoolAssumption DEF thread_finish, TaskInv, PoolInv, TypeOK, HeldWhileRunning
<1>2. /\ completed_tasks' = Append(completed_tasks, d)
      /\ task_data' = [task_data EXCEPT ![w] = NoTask]
      /\ owner # "callbacks"
      /\ UNCHANGED <<owner, next, tasks, accepted, started, notified>>
    BY DEF thread_finish, finished_task, history
<1>3. /\ d \in In(started) /\ d \notin In(completed_tasks) /\ d \notin notified
      /\ \A v \in Workers : task_data[v] = d => v = w
    BY <1>1 DEF TaskInv, Whereabouts
<1>4. \A v \in Workers : task_data'[v] = IF v = w THEN NoTask ELSE task_data[v]
    BY <1>1, <1>2
<1> HIDE DEF d
<1>5. In(completed_tasks') = In(completed_tasks) \cup {d} /\ Once(completed_tasks')
    BY <1>1, <1>2, <1>3, InAppend DEF TaskInv, Whereabouts
<1>6. Whereabouts'
    <2>1. /\ Once(tasks') /\ In(tasks') \cap In(started') = {}
          /\ In(tasks') \subseteq In(accepted') /\ In(started') \subseteq In(accepted')
          /\ In(completed_tasks') \subseteq In(started') /\ notified' \subseteq In(started')
        BY <1>2, <1>3, <1>5 DEF TaskInv, Whereabouts
    <2>2. ASSUME NEW u \in Workers, task_data'[u] # NoTask
          PROVE  /\ task_data'[u] \in In(started') \ In(completed_tasks')
                 /\ task_data'[u] \notin notified'
                 /\ \A v \in Workers : task_data'[v] = task_data'[u] => v = u
        BY <1>2, <1>3, <1>4, <1>5, <2>2 DEF TaskInv, Whereabouts
    <2>3. QED
        BY <1>5, <2>1, <2>2 DEF Whereabouts
<1>7. CallbacksCalled'
    BY <1>2 DEF CallbacksCalled
<1>8. Accounted' /\ NotTwice'
    <2>1. \A t \in In(started') \cap Notified :
             (\E v \in Workers : task_data'[v] = t) \/ t \in In(completed_tasks') \cup notified'
        <3> TAKE t \in In(started') \cap Notified
        <3>1. (\E v \in Workers : task_data[v] = t) \/ t \in In(completed_tasks) \cup notified
            BY <1>2 DEF TaskInv, Accounted
        <3>2. CASE t = d
            BY <1>5, <3>2
        <3>3. CASE t # d
            <4>1. \A v \in Workers : task_data[v] = t => task_data'[v] = t
                BY <1>4, <3>3 DEF d
            <4>2. QED
                BY <1>2, <1>5, <3>1, <4>1
        <3>4. QED
            BY <3>2, <3>3
    <2>2. \A i \in 1 .. Len(completed_tasks') : completed_tasks'[i] \notin notified'
        <3>1. \A t \in In(completed_tasks) : t \notin notified
            BY <1>2 DEF TaskInv, NotTwice, In
        <3>2. \A i \in 1 .. Len(completed_tasks') : completed_tasks'[i] \in In(completed_tasks')
            BY DEF In
        <3>3. QED
            BY <1>2, <1>3, <1>5, <3>1, <3>2
    <2>3. QED
        BY <2>1, <2>2 DEF Accounted, NotTwice
<1>9. QED
    BY <1>6, <1>7, <1>8

\* A callback is called once: its task is behind the loop index from now on.
LEMMA CallbackTask ==
    ASSUME TaskInv, callback
    PROVE  Whereabouts' /\ CallbacksCalled' /\ Accounted' /\ NotTwice'
<1> DEFINE d == completed_tasks[next]
<1>1. /\ owner = "callbacks" /\ next' = next + 1 /\ notified' = notified \cup ({d} \cap Notified)
      /\ UNCHANGED <<owner, task_data, tasks, completed_tasks, accepted, started>>
      /\ next \in 1 .. Len(completed_tasks)
    BY LenProperties DEF callback, TaskInv, CallbacksCalled, PoolInv, TypeOK
<1>2. d \in In(completed_tasks) /\ d \in In(started) /\ \A w \in Workers : task_data[w] # NoTask => task_data[w] # d
    BY <1>1 DEF In, TaskInv, Whereabouts
<1>3. \A i \in 1 .. Len(completed_tasks) : completed_tasks[i] = d => i = next
    BY <1>1 DEF TaskInv, Whereabouts, Once
<1> HIDE DEF d
<1>4. Whereabouts'
    <2>1. /\ Once(tasks') /\ In(tasks') \cap In(started') = {}
          /\ In(tasks') \subseteq In(accepted') /\ In(started') \subseteq In(accepted')
          /\ Once(completed_tasks') /\ In(completed_tasks') \subseteq In(started')
          /\ notified' \subseteq In(started')
        BY <1>1, <1>2 DEF TaskInv, Whereabouts
    <2>2. ASSUME NEW u \in Workers, task_data'[u] # NoTask
          PROVE  /\ task_data'[u] \in In(started') \ In(completed_tasks')
                 /\ task_data'[u] \notin notified'
                 /\ \A v \in Workers : task_data'[v] = task_data'[u] => v = u
        BY <1>1, <1>2, <2>2 DEF TaskInv, Whereabouts
    <2>3. QED
        BY <2>1, <2>2 DEF Whereabouts
<1>5. CallbacksCalled'
    <2> SUFFICES ASSUME NEW i \in 1 .. Len(completed_tasks), i < next + 1, completed_tasks[i] \in Notified
                 PROVE  completed_tasks[i] \in notified'
        BY <1>1 DEF CallbacksCalled
    <2>1. i < next \/ i = next
        BY <1>1
    <2>2. CASE i < next
        BY <1>1, <2>2 DEF TaskInv, CallbacksCalled
    <2>3. CASE i = next
        BY <1>1, <2>3 DEF d
    <2>4. QED
        BY <2>1, <2>2, <2>3
<1>6. Accounted' /\ NotTwice'
    <2>1. \A t \in In(started') \cap Notified :
             (\E v \in Workers : task_data'[v] = t) \/ t \in In(completed_tasks') \cup notified'
        BY <1>1 DEF TaskInv, Accounted
    <2>2. \A i \in 1 .. Len(completed_tasks') :
             completed_tasks'[i] \in notified' => owner' = "callbacks" /\ i < next'
        <3> SUFFICES ASSUME NEW i \in 1 .. Len(completed_tasks), completed_tasks[i] \in notified'
                     PROVE  i < next + 1
            BY <1>1
        <3>1. CASE completed_tasks[i] \in notified
            <4>1. i < next
                BY <3>1 DEF TaskInv, NotTwice
            <4>2. QED
                BY <1>1, <4>1
        <3>2. CASE completed_tasks[i] = d
            BY <1>1, <1>3, <3>2
        <3>3. QED
            BY <1>1, <3>1, <3>2
    <2>3. QED
        BY <2>1, <2>2 DEF Accounted, NotTwice
<1>7. QED
    BY <1>4, <1>5, <1>6

\* The owner pushes a task nobody knows yet.
LEMMA EnqueueTask ==
    ASSUME TaskInv, NEW t \in Tasks, enqueue(t)
    PROVE  Whereabouts' /\ CallbacksCalled' /\ Accounted' /\ NotTwice'
<1>1. tasks \in Seq(Tasks) /\ accepted \in Seq(Tasks)
    BY DEF TaskInv, PoolInv, TypeOK
<1>2. /\ tasks' = Append(tasks, t) /\ accepted' = Append(accepted, t)
      /\ UNCHANGED <<owner, next, task_data, completed_tasks, started, notified>>
      /\ \A i \in 1 .. Len(accepted) : accepted[i] # t
    BY DEF enqueue
<1>3. t \notin In(accepted)
    BY <1>2 DEF In
<1>4. /\ In(tasks') = In(tasks) \cup {t} /\ In(accepted') = In(accepted) \cup {t}
      /\ Once(tasks) /\ t \notin In(tasks) => Once(tasks')
    BY <1>1, <1>2, InAppend
<1>5. Whereabouts'
    BY <1>2, <1>3, <1>4 DEF TaskInv, Whereabouts
<1>6. CallbacksCalled' /\ Accounted' /\ NotTwice'
    BY <1>2 DEF TaskInv, CallbacksCalled, Accounted, NotTwice
<1>7. QED
    BY <1>5, <1>6

\* The list is cleared when all its callbacks were called.
LEMMA EndTasks ==
    ASSUME TaskInv, process_end
    PROVE  Whereabouts' /\ CallbacksCalled' /\ Accounted' /\ NotTwice'
<1>1. /\ owner = "callbacks" /\ next > Len(completed_tasks) /\ owner' = "ready"
      /\ completed_tasks' = <<>>
      /\ UNCHANGED <<task_data, tasks, accepted, started, notified>>
    BY DEF process_end, callbacks_done, cleared, history
<1>2. In(completed_tasks') = {} /\ Once(completed_tasks') /\ Len(completed_tasks') = 0
    BY <1>1, EmptySeq DEF In, Once
<1>3. In(completed_tasks) \cap Notified \subseteq notified
    <2> SUFFICES ASSUME NEW i \in 1 .. Len(completed_tasks), completed_tasks[i] \in Notified
                 PROVE  completed_tasks[i] \in notified
        BY DEF In
    <2>1. i < next
        BY <1>1, LenProperties DEF TaskInv, PoolInv, TypeOK
    <2>2. QED
        BY <1>1, <2>1 DEF TaskInv, CallbacksCalled
<1>4. Whereabouts'
    BY <1>1, <1>2 DEF TaskInv, Whereabouts
<1>5. CallbacksCalled' /\ NotTwice'
    BY <1>1, <1>2 DEF CallbacksCalled, NotTwice
<1>6. Accounted'
    BY <1>1, <1>2, <1>3 DEF TaskInv, Accounted
<1>7. QED
    BY <1>4, <1>5, <1>6

\* The steps that move no task.
LEMMA NoTaskMoves ==
    ASSUME TaskInv, UNCHANGED <<task_data, tasks, completed_tasks, accepted, started, notified>>,
           \/ UNCHANGED <<owner, next>>
           \/ owner # "callbacks" /\ owner' # "callbacks"
           \/ owner # "callbacks" /\ next' = 1
    PROVE  Whereabouts' /\ CallbacksCalled' /\ Accounted' /\ NotTwice'
<1>1. Whereabouts' /\ Accounted'
    BY DEF TaskInv, Whereabouts, Accounted
<1>2. CallbacksCalled'
    BY DEF TaskInv, CallbacksCalled
<1>3. NotTwice'
    BY DEF TaskInv, NotTwice
<1>4. QED
    BY <1>1, <1>2, <1>3

\* Every step keeps the tasks accounted for.
LEMMA TaskStep == TaskInv /\ [Next]_vars => TaskInv'
<1> SUFFICES ASSUME TaskInv, [Next]_vars PROVE TaskInv'
    OBVIOUS
<1> DEFINE Kept == Whereabouts' /\ CallbacksCalled' /\ Accounted' /\ NotTwice'
<1>1. PoolInv'
    BY TypeStep, OrderStep, HeldStep, LeaveStep, OpenStep, JoinStep DEF PoolInv, TaskInv
<1> DEFINE Same == UNCHANGED <<task_data, tasks, completed_tasks, accepted, started, notified>>
<1>2. ASSUME NEW w \in Workers,
             \/ \E ok \in BOOLEAN : thread_init(w, ok)
             \/ spurious_wakeup(w) \/ thread_run(w) \/ thread_exit(w)
      PROVE  Kept
    <2>1. Same
        BY <1>2 DEF thread_init, spurious_wakeup, thread_run, thread_exit, history
    <2>2. UNCHANGED <<owner, next>> \/ (owner # "callbacks" /\ owner' # "callbacks")
        BY <1>2 DEF thread_init, spurious_wakeup, thread_run, thread_exit
    <2>3. QED
        BY <2>1, <2>2, NoTaskMoves
<1>3. ASSUME NEW w \in Workers, thread_take(w) PROVE Kept
    BY <1>3, TakeTask
<1>4. ASSUME NEW w \in Workers, thread_finish(w) PROVE Kept
    BY <1>4, FinishTask
<1>5. ASSUME NEW t \in Tasks, enqueue(t) PROVE Kept
    BY <1>5, EnqueueTask
<1>6. ASSUME callback PROVE Kept
    BY <1>6, CallbackTask
<1>7. ASSUME process_end PROVE Kept
    BY <1>7, EndTasks
<1>8. ASSUME \/ \E n \in 0 .. num_threads : init(n)
             \/ init_wait \/ process_in_main_thread \/ stop \/ join \/ joined
      PROVE  Kept
    <2>1. Same
        BY <1>8 DEF init, init_wait, process_in_main_thread, stop, join, joined, history
    <2>2. \/ owner # "callbacks" /\ owner' # "callbacks"
          \/ owner # "callbacks" /\ next' = 1
        BY <1>8 DEF init, init_wait, process_in_main_thread, stop, join, joined
    <2>3. QED
        BY <2>1, <2>2, NoTaskMoves
<1>9. ASSUME UNCHANGED vars PROVE Kept
    <2>1. Same /\ UNCHANGED <<owner, next>>
        BY <1>9 DEF vars, history
    <2>2. QED
        BY <2>1, NoTaskMoves
<1> HIDE DEF Kept
<1>10. Kept
    BY <1>2, <1>3, <1>4, <1>5, <1>6, <1>7, <1>8, <1>9 DEF Next, WorkerStep
<1>11. QED
    BY <1>1, <1>10 DEF TaskInv, Kept

\* With any number of workers, a task that was taken is with its worker, or waits for the owner,
\* or was notified, and no callback is called twice: process_in_main_thread clears the list it
\* went through before a worker adds to it.
THEOREM Accounts == Spec => []NothingLost
<1>1. Init => Whereabouts /\ CallbacksCalled /\ Accounted /\ NotTwice
    <2> SUFFICES ASSUME Init PROVE Whereabouts /\ CallbacksCalled /\ Accounted /\ NotTwice
        OBVIOUS
    <2>1. In(<<>>) = {} /\ Once(<<>>) /\ Len(<<>>) = 0
        BY EmptySeq DEF In, Once
    <2>2. QED
        BY <2>1 DEF Init, Whereabouts, CallbacksCalled, Accounted, NotTwice
<1>2. TaskInv /\ [Next]_vars => TaskInv'
    BY TaskStep
<1>3. TaskInv => NothingLost
    BY AccountedNothingLost DEF TaskInv
<1>4. PoolInv /\ Whereabouts /\ CallbacksCalled /\ Accounted /\ NotTwice => TaskInv
    BY DEF TaskInv
<1>5. QED
    BY <1>1, <1>2, <1>3, <1>4, PoolInductive, PTL DEF Spec
====
