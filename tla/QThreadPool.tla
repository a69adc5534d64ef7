----------------------------- MODULE QThreadPool -----------------------------
(***************************************************************************)
(* The thread pool of the servers (src/networkcommon/source/qthreadpool.hpp) *)
(*                                                                         *)
(* One owner thread calls init, enqueue, process_in_main_thread and stop;  *)
(* the workers run thread_func.  A critical section is one action, and so  *)
(* is each stretch of code between two of them.  completed_mutex is held   *)
(* over several actions, those of the completion callbacks.                *)
(***************************************************************************)
EXTENDS Integers, Sequences, FiniteSets

CONSTANTS
    num_threads,   \* size of the pool
    Tasks,         \* the tasks, each enqueued at most once
    Notified,      \* the tasks enqueued with a completion callback
    NoTask         \* task_data of a worker that has none

ASSUME PoolAssumption == num_threads \in Nat /\ Notified \subseteq Tasks /\ NoTask \notin Tasks

Workers == 1 .. num_threads

VARIABLES
    owner,                \* where the owner thread is
    next,                 \* the owner's loop index: thread to join, callback to call
    worker,               \* where each worker is
    task_data,            \* the task each worker holds, NoTask when none
    initialized,          \* context.initialized of each worker
    initialized_threads,
    failed_threads,
    stop_flag,
    tasks,                \* the queue
    completed_tasks,
    joins,                \* how often pthread_join was called on each thread
    accepted,             \* tasks pushed so far, in order
    started,              \* tasks taken by a worker so far, in order
    notified              \* completion callbacks called so far

initVars == <<initialized, initialized_threads, failed_threads>>
history  == <<accepted, started, notified>>
vars == <<owner, next, worker, task_data, initVars, stop_flag, tasks, completed_tasks,
          joins, history>>

\* "init_check" re-evaluates the loop condition of init, "init_wait" and "wait" are in
\* pthread_cond_wait, "callbacks" holds completed_mutex.
OwnerStates  == {"new", "init_check", "init_wait", "ready", "callbacks", "joining",
                 "stopped", "destroyed", "crashed"}
WorkerStates == {"none", "init", "loop", "wait", "run", "finish", "shutdown", "done"}

Init ==
    /\ owner = "new"
    /\ next = 0
    /\ worker = [w \in Workers |-> "none"]
    /\ task_data = [w \in Workers |-> NoTask]
    /\ initialized = [w \in Workers |-> FALSE]
    /\ initialized_threads = 0
    /\ failed_threads = 0
    /\ stop_flag = FALSE
    /\ tasks = <<>>
    /\ completed_tasks = <<>>
    /\ joins = [w \in Workers |-> 0]
    /\ accepted = <<>>
    /\ started = <<>>
    /\ notified = {}

-----------------------------------------------------------------------------
(* init                                                                    *)

\* The threads 1 .. n are created; pthread_create fails for the next one, if any, and
\* init returns -1.
init(n) ==
    /\ owner = "new"
    /\ worker' = [w \in Workers |-> IF w <= n THEN "init" ELSE "none"]
    /\ owner' = IF n = num_threads THEN "init_check" ELSE "ready"
    /\ UNCHANGED <<next, task_data, initVars, stop_flag, tasks, completed_tasks, joins, history>>

all_threads_initialized == initialized_threads + failed_threads >= num_threads

init_wait ==
    /\ owner = "init_check"
    /\ owner' = IF all_threads_initialized THEN "ready" ELSE "init_wait"
    /\ UNCHANGED <<next, worker, task_data, initVars, stop_flag, tasks, completed_tasks,
                   joins, history>>

\* The thread whose count completes the pool signals all_threads_initialized_cond.
signals_init(ok) == initialized_threads + failed_threads + 1 = num_threads

\* The worker has called init_callback, with result ok, and reports it.
thread_init(w, ok) ==
    /\ worker[w] = "init"
    /\ initialized' = [initialized EXCEPT ![w] = ok]
    /\ initialized_threads' = initialized_threads + (IF ok THEN 1 ELSE 0)
    /\ failed_threads' = failed_threads + (IF ok THEN 0 ELSE 1)
    /\ owner' = IF owner = "init_wait" /\ signals_init(ok) THEN "init_check" ELSE owner
    /\ worker' = [worker EXCEPT ![w] = IF ok THEN "loop" ELSE "shutdown"]
    /\ UNCHANGED <<next, task_data, stop_flag, tasks, completed_tasks, joins, history>>

-----------------------------------------------------------------------------
(* enqueue and the workers                                                 *)

\* Mutant: nobody is woken up.
woken_none == {worker}

\* pthread_cond_signal: one of the waiting workers goes on, if there is one.
woken ==
    IF \A w \in Workers : worker[w] # "wait" THEN {worker}
    ELSE {[worker EXCEPT ![w] = "loop"] : w \in {v \in Workers : worker[v] = "wait"}}

\* Called by the owner, in a completion callback too.
enqueue(t) ==
    /\ owner \in {"ready", "callbacks"}
    /\ \A i \in 1 .. Len(accepted) : accepted[i] # t
    /\ initialized_threads > 0
    /\ tasks' = Append(tasks, t)
    /\ accepted' = Append(accepted, t)
    /\ worker' \in woken
    /\ UNCHANGED <<owner, next, task_data, initVars, stop_flag, completed_tasks, joins,
                   started, notified>>

\* Mutant: the task is left at the head of the queue.
popped_not == tasks

popped == Tail(tasks)

\* With queue_mutex: take the next task, or wait, or leave once stopped and empty.
thread_take(w) ==
    /\ worker[w] = "loop"
    /\ IF tasks # <<>>
       THEN /\ task_data' = [task_data EXCEPT ![w] = Head(tasks)]
            /\ tasks' = popped
            /\ started' = Append(started, Head(tasks))
            /\ worker' = [worker EXCEPT ![w] = "run"]
       ELSE /\ worker' = [worker EXCEPT ![w] = IF stop_flag THEN "shutdown" ELSE "wait"]
            /\ UNCHANGED <<task_data, tasks, started>>
    /\ UNCHANGED <<owner, next, initVars, stop_flag, completed_tasks, joins, accepted, notified>>

\* pthread_cond_wait may return without a signal; the loop looks again.
spurious_wakeup(w) ==
    /\ worker[w] = "wait"
    /\ worker' = [worker EXCEPT ![w] = "loop"]
    /\ UNCHANGED <<owner, next, task_data, initVars, stop_flag, tasks, completed_tasks,
                   joins, history>>

\* The task itself.
thread_run(w) ==
    /\ worker[w] = "run"
    /\ worker' = [worker EXCEPT ![w] = "finish"]
    /\ UNCHANGED <<owner, next, task_data, initVars, stop_flag, tasks, completed_tasks,
                   joins, history>>

\* Mutant: task_data was moved away before it is pushed.
finished_task_moved(w) == NoTask

finished_task(w) == task_data[w]

\* With completed_mutex, which the owner holds during its callbacks.
thread_finish(w) ==
    /\ worker[w] = "finish"
    /\ owner # "callbacks"
    /\ completed_tasks' = Append(completed_tasks, finished_task(w))
    /\ task_data' = [task_data EXCEPT ![w] = NoTask]
    /\ worker' = [worker EXCEPT ![w] = "loop"]
    /\ UNCHANGED <<owner, next, initVars, stop_flag, tasks, joins, history>>

\* shutdown_callback, and the thread ends.
thread_exit(w) ==
    /\ worker[w] = "shutdown"
    /\ worker' = [worker EXCEPT ![w] = "done"]
    /\ UNCHANGED <<owner, next, task_data, initVars, stop_flag, tasks, completed_tasks,
                   joins, history>>

-----------------------------------------------------------------------------
(* process_in_main_thread                                                  *)

process_in_main_thread ==
    /\ owner = "ready"
    /\ owner' = "callbacks"
    /\ next' = 1
    /\ UNCHANGED <<worker, task_data, initVars, stop_flag, tasks, completed_tasks, joins, history>>

\* One turn of the loop; enqueue may come in between, as part of a callback.
callback ==
    /\ owner = "callbacks"
    /\ next <= Len(completed_tasks)
    /\ next' = next + 1
    /\ notified' = notified \cup ({completed_tasks[next]} \cap Notified)
    /\ UNCHANGED <<owner, worker, task_data, initVars, stop_flag, tasks, completed_tasks, joins,
                   accepted, started>>

\* Mutant: the loop ends before the last callback.
callbacks_done_early == next >= Len(completed_tasks)

callbacks_done == next > Len(completed_tasks)

cleared == <<>>

process_end ==
    /\ owner = "callbacks"
    /\ callbacks_done
    /\ completed_tasks' = cleared
    /\ owner' = "ready"
    /\ UNCHANGED <<next, worker, task_data, initVars, stop_flag, tasks, joins, history>>

-----------------------------------------------------------------------------
(* stop and the destructor                                                 *)

\* Mutant: stop signals instead of broadcasting.
awake_one ==
    LET waiting == {w \in Workers : worker[w] = "wait"} IN
    IF waiting = {} THEN worker ELSE [worker EXCEPT ![CHOOSE w \in waiting : TRUE] = "loop"]

\* pthread_cond_broadcast.
awake == [w \in Workers |-> IF worker[w] = "wait" THEN "loop" ELSE worker[w]]

\* stop, called explicitly or by the destructor, which calls it again after an
\* explicit stop.
stop ==
    /\ owner \in {"ready", "stopped"}
    /\ owner' = "joining"
    /\ next' = 1
    /\ stop_flag' = TRUE
    /\ worker' = awake
    /\ UNCHANGED <<task_data, initVars, tasks, completed_tasks, joins, history>>

\* Mutant: stop does not wait for the thread.
joinable_always(w) == worker[w] # "none"

\* pthread_join returns.
joinable(w) == worker[w] = "done"

\* pthread_join on a thread that was never created follows a null handle; on one that
\* was joined before it may return an error or fail the same way.
join ==
    /\ owner = "joining"
    /\ next <= num_threads
    /\ \/ /\ joinable(next)
          /\ joins' = [joins EXCEPT ![next] = @ + 1]
          /\ next' = next + 1
          /\ UNCHANGED owner
       \/ /\ worker[next] = "none" \/ joins[next] > 0
          /\ owner' = "crashed"
          /\ UNCHANGED <<joins, next>>
    /\ UNCHANGED <<worker, task_data, initVars, stop_flag, tasks, completed_tasks, history>>

joined ==
    /\ owner = "joining"
    /\ next > num_threads
    /\ owner' = IF \A w \in Workers : joins[w] < 2 THEN "stopped" ELSE "destroyed"
    /\ UNCHANGED <<next, worker, task_data, initVars, stop_flag, tasks, completed_tasks,
                   joins, history>>

-----------------------------------------------------------------------------
WorkerStep(w) ==
    \/ \E ok \in BOOLEAN : thread_init(w, ok)
    \/ thread_take(w)
    \/ thread_run(w)
    \/ thread_finish(w)
    \/ thread_exit(w)

Next ==
    \/ \E n \in 0 .. num_threads : init(n)
    \/ init_wait
    \/ \E w \in Workers : WorkerStep(w) \/ spurious_wakeup(w)
    \/ \E t \in Tasks : enqueue(t)
    \/ process_in_main_thread
    \/ callback
    \/ process_end
    \/ stop
    \/ join
    \/ joined

Spec == Init /\ [][Next]_vars

\* Threads are scheduled, tasks and callbacks return, and a worker that waits for
\* completed_mutex gets it between two rounds of callbacks, which are 1.5 s apart.
Fairness ==
    /\ \A w \in Workers : WF_vars(WorkerStep(w)) /\ SF_vars(thread_finish(w))
    /\ WF_vars(init_wait)
    /\ WF_vars(callback)
    /\ WF_vars(process_end)
    /\ WF_vars(join)
    /\ WF_vars(joined)

FairSpec == Spec /\ Fairness

-----------------------------------------------------------------------------
(* Correctness                                                             *)

\* Every variable keeps its type.
TypeOK ==
    /\ owner \in OwnerStates
    /\ next \in Nat
    /\ worker \in [Workers -> WorkerStates]
    /\ task_data \in [Workers -> Tasks \cup {NoTask}]
    /\ initialized \in [Workers -> BOOLEAN]
    /\ initialized_threads \in Nat
    /\ failed_threads \in Nat
    /\ stop_flag \in BOOLEAN
    /\ tasks \in Seq(Tasks)
    /\ completed_tasks \in Seq(Tasks)
    /\ joins \in [Workers -> Nat]
    /\ accepted \in Seq(Tasks)
    /\ started \in Seq(Tasks)
    /\ notified \in SUBSET Notified

\* Whatever the workers' interleaving, every task pushed is taken by one worker, once,
\* and in the order of the pushes.
StartedInOrder == started \o tasks = accepted

\* A task that was taken and has a callback is still with its worker, or waits in
\* completed_tasks, or its callback was called: none falls between the three.  And no
\* callback is called twice: what the owner has still to go through was not notified before.
NothingLost ==
    /\ \A i \in 1 .. Len(started) : started[i] \in Notified =>
          \/ \E w \in Workers : task_data[w] = started[i]
          \/ \E j \in 1 .. Len(completed_tasks) : completed_tasks[j] = started[i]
          \/ started[i] \in notified
    /\ \A i \in 1 .. Len(completed_tasks) :
          completed_tasks[i] \in notified => owner = "callbacks" /\ i < next

\* stop returns only when the queue was drained and no worker holds a task any more.
StopDrains ==
    owner \in {"stopped", "destroyed"} =>
        /\ tasks = <<>>
        /\ \A w \in Workers : task_data[w] = NoTask /\ worker[w] = "done"

\* A worker holds a task exactly while it runs it and reports it.
HeldWhileRunning ==
    \A w \in Workers : IF worker[w] \in {"run", "finish"} THEN task_data[w] \in Tasks
                                                        ELSE task_data[w] = NoTask

\* Nothing is enqueued once stop was called, and nothing before a worker is there to take it.
QueueOpen ==
    /\ owner \in {"new", "init_check", "init_wait", "ready", "callbacks"} => ~stop_flag
    /\ owner = "new" => \A w \in Workers : worker[w] = "none"
    /\ tasks # <<>> => \E w \in Workers : initialized[w]
    /\ initialized_threads > 0 => \E w \in Workers : initialized[w]

\* An initialised worker leaves only a queue that is stopped and empty.
LeavesEmpty ==
    \A w \in Workers : initialized[w] =>
        /\ worker[w] \notin {"none", "init"}
        /\ worker[w] \in {"shutdown", "done"} => stop_flag /\ tasks = <<>>

\* The threads joined so far have ended.
JoinedDone ==
    /\ owner = "joining" => \A w \in Workers : w < next => worker[w] = "done"
    /\ owner \in {"stopped", "destroyed"} => \A w \in Workers : worker[w] = "done"

\* The inductive invariant of the pool: thread_func, enqueue and stop together keep the queue
\* in order and drain it before stop returns.
PoolInv ==
    TypeOK /\ StartedInOrder /\ HeldWhileRunning /\ QueueOpen /\ LeavesEmpty /\ JoinedDone

\* A task in the queue is taken by a worker: no wake-up is lost.
TasksRun ==
    \A t \in Tasks : (\E i \in 1 .. Len(tasks) : tasks[i] = t) ~>
                     (\E i \in 1 .. Len(started) : started[i] = t)

\* The first stop of a pool whose threads were all created comes back: no worker misses the
\* broadcast and sleeps on.  Left out are the two calls that may end in pthread_join with a
\* handle that is not one of a thread any more, or never was: a stop after a stop (the
\* destructor's), and that of a pool one of whose threads could not be created.
StopReturns ==
    (owner = "joining" /\ \A w \in Workers : worker[w] # "none" /\ joins[w] = 0)
        ~> owner = "stopped"
====
