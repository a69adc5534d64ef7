----------------------------- MODULE QZookeeper -----------------------------
(***************************************************************************)
(* The ZooKeeper client of a server and the configuration it keeps         *)
(* (src/qzookeeper/source/qzookeeper.cpp,                                  *)
(* src/networkcommon/source/serverconfig.cpp).                             *)
(*                                                                         *)
(* Three threads share the client: the server's thread connects, loads the *)
(* configuration and shuts down; the client's own thread checks the        *)
(* connection every 3 seconds and replaces the handle of a lost session;   *)
(* the completion thread of the ZooKeeper library calls watcher and the    *)
(* completions.  The library and the service are external.                 *)
(***************************************************************************)
EXTENDS Integers, Sequences, FiniteSets

CONSTANTS
    Keys,             \* nodes named by the configuration file; all of them exist
    MAX_RETRY,        \* retry_count of the check timer, 5
    MaxHandles,       \* bound: calls of zookeeper_init that succeed
    MaxChanges,       \* bound: changes of a node
    MaxFaults         \* bound: lost connections, lost sessions and read-only servers met

ASSUME ZkAssumption ==
    /\ MAX_RETRY \in Nat
    /\ MaxHandles \in Nat /\ MaxChanges \in Nat /\ MaxFaults \in Nat

Handles == 1 .. MaxHandles
Garbage == MaxHandles + 1    \* an id no session has: myid before it is assigned

\* What the completion thread of a handle has to deliver.
Session(state, id) == [type |-> "session", state |-> state, id |-> id]
Changed(k) == [type |-> "changed", key |-> k]
Data(v) == [type |-> "data", value |-> v]     \* value 0: an error

VARIABLES
    caller,                  \* the server's thread: pc, keys to load, key being loaded
    zkpc,                    \* the client's thread
    wpc,                     \* the completion thread in watcher: handle, pc, keys to fetch
    zh, newh,                \* the handle, and one zookeeper_init has not returned yet
    connection_state, connection_in_progress, myid, retry_count,
    running, timer,          \* timer: connection_check_timer and mainloop exist
    stop,                    \* ev_break was called
    op_in_progress, get_result,
    pending_config_updates,
    configs,                 \* serverconfig: key -> value, 0 for no entry
    handle,                  \* the library: state, client id, events, watches of each handle
    session,                 \* the service: the session it knows, 0 for none
    store,                   \*   and its nodes
    faults,
    missed                   \* keys whose watch went with its handle, or that changed before
                             \* they were stored, and were not fetched since

zkVars == <<zh, newh, retry_count, running, timer>>
opVars == <<op_in_progress, get_result>>
watchVars == <<wpc, connection_state, connection_in_progress, myid, pending_config_updates>>
libVars == <<handle, session, store, faults>>
vars == <<caller, zkpc, zkVars, stop, watchVars, opVars, configs, libVars, missed>>

Idle == [h |-> 0, pc |-> "idle", todo |-> {}]
NoHandle == [st |-> "none", id |-> 0, events |-> <<>>, watch |-> [k \in Keys |-> 0]]

\* myid is not initialised by the constructor: 0 or anything.
Init ==
    /\ caller = [pc |-> "new", todo |-> Keys, key |-> {}]
    /\ zkpc = "none"
    /\ wpc = Idle
    /\ zh = 0 /\ newh = 0
    /\ connection_state = "none"
    /\ connection_in_progress = FALSE
    /\ myid \in {0, Garbage}
    /\ retry_count = 0
    /\ running = FALSE /\ timer = FALSE /\ stop = FALSE
    /\ op_in_progress = FALSE /\ get_result = 0
    /\ pending_config_updates = {}
    /\ configs = [k \in Keys |-> 0]
    /\ handle = [h \in Handles |-> NoHandle]
    /\ session = 0
    /\ store = [k \in Keys |-> 1]
    /\ faults = 0
    /\ missed = {}

-----------------------------------------------------------------------------
(* The library                                                             *)

Open(h) == handle[h].st \in {"connecting", "connected", "readonly", "expired"}

\* The answer to the request under way that has not been delivered, and whether one is due.
Answers(h) ==
    {handle[h].events[i].value : i \in {j \in 1 .. Len(handle[h].events) :
                                           handle[h].events[j].type = "data"}}
Unanswered(h) == op_in_progress /\ Answers(h) = {}

\* A new handle that asks for session id; its threads run before zookeeper_init returns.
zookeeper_init(id) ==
    \E h \in Handles :
        /\ handle[h].st = "none" /\ \A g \in Handles : g < h => handle[g].st # "none"
        /\ handle' = [handle EXCEPT ![h].st = "connecting", ![h].id = id]
        /\ newh' = h

\* zookeeper_close stops the threads of the handle: no further event is delivered, a
\* synchronous call that waits fails.
close_begins(h) == handle' = [handle EXCEPT ![h].st = "closing"]

\* It returns once the completion thread is out of its callback.  The service ends the
\* session, the watches go, and a pending completion gets its answer or ZCLOSING.
close_returns(h) ==
    /\ handle' = [handle EXCEPT ![h] = [NoHandle EXCEPT !.st = "closed"]]
    /\ session' = IF session = handle[h].id THEN 0 ELSE session
    /\ op_in_progress' = FALSE
    /\ get_result' = IF Answers(h) = {} THEN get_result ELSE CHOOSE v \in Answers(h) : TRUE
    /\ missed' = Keys

-----------------------------------------------------------------------------
(* The server's thread: connect, serverconfig::load, shutdown              *)

connect ==
    /\ caller.pc = "new"
    /\ caller' = [caller EXCEPT !.pc = "connecting"]
    /\ connection_in_progress' = TRUE
    /\ zkpc' = "init"
    /\ UNCHANGED <<zkVars, stop, wpc, connection_state, myid, pending_config_updates, opVars,
                   configs, libVars, missed>>

connect_returns ==
    /\ caller.pc = "connecting"
    /\ ~connection_in_progress
    /\ caller' = [caller EXCEPT !.pc = IF connection_state = "connected" THEN "load" ELSE "failed"]
    /\ UNCHANGED <<zkpc, zkVars, stop, watchVars, opVars, configs, libVars, missed>>

retry_in_progress == zkpc = "retry"

\* get_data of the next key looks at zh and connection_state; any error of it ends load.
get_data(k) ==
    /\ caller.pc = "load"
    /\ k \in caller.todo
    /\ ~retry_in_progress
    /\ caller' = IF zh # 0 /\ connection_state = "connected"
                 THEN [pc |-> "asking", todo |-> caller.todo \ {k}, key |-> {k}]
                 ELSE [caller EXCEPT !.pc = "failed"]
    /\ UNCHANGED <<zkpc, zkVars, stop, watchVars, opVars, configs, libVars, missed>>

\* It then asks the handle, which another thread may have closed or replaced since.  The
\* library refuses a null handle and an expired one; what it takes while it closes the handle
\* it answers before it is done.
zoo_aget ==
    /\ caller.pc = "asking"
    /\ IF zh # 0 /\ handle[zh].st # "expired"
       THEN /\ caller' = [caller EXCEPT !.pc = "waiting"]
            /\ op_in_progress' = TRUE
            /\ get_result' = 0
       ELSE caller' = [caller EXCEPT !.pc = "failed"] /\ UNCHANGED opVars
    /\ UNCHANGED <<zkpc, zkVars, stop, watchVars, configs, libVars, missed>>

\* configs[key] is assigned what the completion left in get_result.
iterate_and_load_keys ==
    /\ caller.pc = "waiting"
    /\ ~op_in_progress
    /\ \/ /\ get_result # 0
          /\ configs' = [k \in Keys |-> IF k \in caller.key THEN get_result ELSE configs[k]]
          /\ caller' = [pc |-> IF caller.todo = {} THEN "serving" ELSE "load",
                        todo |-> caller.todo, key |-> {}]
       \/ get_result = 0 /\ caller' = [caller EXCEPT !.pc = "failed"] /\ UNCHANGED configs
    /\ UNCHANGED <<zkpc, zkVars, stop, watchVars, opVars, libVars, missed>>

\* Called by the server's thread at its end, which then waits for is_running.
shutdown ==
    /\ caller.pc = "serving"
    /\ caller' = [caller EXCEPT !.pc = "stopping"]
    /\ timer' = FALSE
    /\ stop' = (stop \/ timer)
    /\ UNCHANGED <<zkpc, zh, newh, retry_count, running, watchVars, opVars, configs, libVars, missed>>

is_running ==
    /\ caller.pc = "stopping"
    /\ ~running
    /\ caller' = [caller EXCEPT !.pc = "stopped"]
    /\ UNCHANGED <<zkpc, zkVars, stop, watchVars, opVars, configs, libVars, missed>>

-----------------------------------------------------------------------------
(* The client's thread                                                     *)

close_mutex_free == wpc.pc # "close" /\ zkpc # "close"

\* connect_internal up to zookeeper_init; when that fails the thread ends as it is.
connect_internal ==
    /\ zkpc = "init"
    /\ running' = TRUE
    /\ \/ zookeeper_init(myid) /\ zkpc' = "assign"
       \/ zkpc' = "exited" /\ UNCHANGED <<handle, newh>>
    /\ UNCHANGED <<caller, zh, retry_count, timer, stop, watchVars, opVars, configs, session,
                   store, faults, missed>>

zookeeper_init_returns ==
    /\ zkpc \in {"assign", "retry"}
    /\ zh' = newh
    /\ newh' = 0
    /\ zkpc' = IF zkpc = "assign" THEN "schedule" ELSE "loop"
    /\ UNCHANGED <<caller, retry_count, running, timer, stop, watchVars, opVars, configs, libVars,
                   missed>>

\* mainloop and connection_check_timer are made.
schedule_repeat_timer ==
    /\ zkpc = "schedule"
    /\ zkpc' = "loop"
    /\ timer' = TRUE
    /\ UNCHANGED <<caller, zh, newh, retry_count, running, stop, watchVars, opVars, configs, libVars,
                   missed>>

\* The timer: a connection that is neither up nor coming up is closed, whatever the watcher
\* is told in between.
check_connection ==
    /\ zkpc = "loop"
    /\ timer /\ ~stop
    /\ connection_state \notin {"connecting", "connected"}
    /\ zkpc' = "tested"
    /\ UNCHANGED <<caller, zkVars, stop, watchVars, opVars, configs, libVars, missed>>

close_zk_begins ==
    /\ zkpc = "tested"
    /\ \/ /\ close_mutex_free /\ zh # 0
          /\ close_begins(zh)
          /\ zkpc' = "close"
       \/ ~(close_mutex_free /\ zh # 0) /\ zkpc' = "check" /\ UNCHANGED handle
    /\ UNCHANGED <<caller, zkVars, stop, watchVars, opVars, configs, session, store, faults, missed>>

close_zk ==
    /\ zkpc = "close"
    /\ wpc.h # zh
    /\ close_returns(zh)
    /\ zh' = 0
    /\ zkpc' = "check"
    /\ UNCHANGED <<caller, newh, retry_count, running, timer, stop, watchVars, configs, store, faults>>

use_fresh == connection_state = "expired"

\* Mutant: does not look whether there is a handle already.
retry_connection_anyway ==
    \/ /\ retry_count' = retry_count + 1
       /\ zookeeper_init(IF use_fresh THEN 0 ELSE myid) /\ zkpc' = "retry"
    \/ UNCHANGED <<retry_count, handle, newh>> /\ zkpc' = "loop"

retry_connection ==
    \/ zh # 0 /\ UNCHANGED <<retry_count, handle, newh>> /\ zkpc' = "loop"
    \/ /\ zh = 0
       /\ retry_count' = retry_count + 1
       /\ \/ zookeeper_init(IF use_fresh THEN 0 ELSE myid) /\ zkpc' = "retry"
          \/ UNCHANGED <<handle, newh>> /\ zkpc' = "loop"

\* Mutant: one retry too many.
retries_over == retry_count <= MAX_RETRY

retries_left == retry_count < MAX_RETRY

\* The rest of the timer's callback.
retry_or_break ==
    /\ zkpc = "check"
    /\ \/ retries_left /\ retry_connection /\ UNCHANGED stop
       \/ ~retries_left /\ stop' = TRUE /\ zkpc' = "loop" /\ UNCHANGED <<retry_count, handle, newh>>
    /\ UNCHANGED <<caller, zh, running, timer, watchVars, opVars, configs, session, store, faults,
                   missed>>

\* ev_run ends at ev_break, or when shutdown left it without a timer.  zookeeper_close is
\* called without close_mutex.
mainloop_exits ==
    /\ zkpc = "loop"
    /\ stop \/ ~timer
    /\ zkpc' = "exit"
    /\ IF zh # 0 THEN close_begins(zh) ELSE UNCHANGED handle
    /\ UNCHANGED <<caller, zkVars, stop, watchVars, opVars, configs, session, store, faults, missed>>

thread_exits ==
    /\ zkpc = "exit"
    /\ zh # 0 => wpc.h # zh
    /\ IF zh # 0 THEN close_returns(zh) ELSE UNCHANGED <<handle, session, opVars, missed>>
    /\ zh' = 0
    /\ connection_in_progress' = FALSE
    /\ running' = FALSE
    /\ timer' = FALSE
    /\ zkpc' = "exited"
    /\ UNCHANGED <<caller, newh, retry_count, stop, wpc, connection_state, myid,
                   pending_config_updates, configs, store, faults>>

-----------------------------------------------------------------------------
(* The completion thread                                                   *)

\* my_data_completion, called for the oldest event of h.
my_data_completion(h) ==
    /\ Open(h) /\ wpc.h # h
    /\ handle[h].events # <<>> /\ Head(handle[h].events).type = "data"
    /\ handle' = [handle EXCEPT ![h].events = Tail(@)]
    /\ get_result' = Head(handle[h].events).value
    /\ op_in_progress' = FALSE
    /\ UNCHANGED <<caller, zkpc, zkVars, stop, watchVars, configs, session, store, faults, missed>>

\* close_zk in the watcher of h: it gives up when the client's thread has close_mutex.
watcher_close_zk(h, hs) ==
    IF close_mutex_free /\ zh # 0
    THEN wpc' = [h |-> h, pc |-> "close", todo |-> {}] /\ handle' = [hs EXCEPT ![zh].st = "closing"]
    ELSE wpc' = Idle /\ handle' = hs

\* Mutant: connect is not told that the session is up.
session_up_silently ==
    /\ retry_count' = 0
    /\ pending_config_updates' = {}
    /\ UNCHANGED connection_in_progress

\* A connected session counts as up once its id is known and all pending updates are in.
session_up ==
    /\ retry_count' = 0
    /\ connection_in_progress' = FALSE
    /\ pending_config_updates' = {}

\* The watcher is called for the oldest event of h; watcher_gaurd_mutex admits one thread.
watcher(h) ==
    LET e  == Head(handle[h].events)
        hs == [handle EXCEPT ![h].events = Tail(@)]
    IN /\ Open(h) /\ wpc = Idle
       /\ handle[h].events # <<>> /\ e.type # "data"
       /\ \/ /\ e.type = "changed"
             /\ connection_state' = "connected"
             /\ wpc' = [h |-> h, pc |-> "changed", todo |-> {e.key}]
             /\ handle' = hs
             /\ UNCHANGED <<myid, retry_count, connection_in_progress, pending_config_updates>>
          \/ /\ e.type = "session" /\ e.state = "connected" /\ (myid = 0 \/ myid # e.id)
             /\ connection_state' = "connected"
             /\ myid' = e.id
             /\ IF pending_config_updates = {} THEN session_up /\ wpc' = Idle
                ELSE /\ wpc' = [h |-> h, pc |-> "pending", todo |-> pending_config_updates]
                     /\ UNCHANGED <<retry_count, connection_in_progress, pending_config_updates>>
             /\ handle' = hs
          \/ /\ e.type = "session" /\ ~(e.state = "connected" /\ (myid = 0 \/ myid # e.id))
             /\ connection_state' = e.state
             /\ IF e.state = "expired" THEN watcher_close_zk(h, hs)
                ELSE wpc' = Idle /\ handle' = hs
             /\ UNCHANGED <<myid, retry_count, connection_in_progress, pending_config_updates>>
       /\ UNCHANGED <<caller, zkpc, zh, newh, running, timer, stop, opVars, configs, session, store,
                      faults, missed>>

\* broadcast_value_change_to_all: try_update_value leaves a key alone that load has not stored.
try_update_value(k, v) == configs' = [configs EXCEPT ![k] = IF @ = 0 THEN 0 ELSE v]

\* Mutant: the value is read without a new watch.
zoo_get(h, k) == UNCHANGED handle

zoo_wget(h, k) == handle' = [handle EXCEPT ![h].watch[k] = store[k]]

\* The fetch of one key succeeds.
watcher_fetched(k) ==
    /\ wpc.pc \in {"changed", "pending"} /\ k \in wpc.todo
    /\ handle[wpc.h].st = "connected"
    /\ zoo_wget(wpc.h, k)
    /\ try_update_value(k, store[k])
    /\ missed' = IF configs[k] = 0 THEN missed \cup {k} ELSE missed \ {k}
    /\ wpc' = IF wpc.todo = {k} THEN Idle ELSE [wpc EXCEPT !.todo = @ \ {k}]
    /\ IF wpc.pc = "pending" /\ wpc.todo = {k} THEN session_up
       ELSE UNCHANGED <<retry_count, connection_in_progress, pending_config_updates>>
    /\ UNCHANGED <<caller, zkpc, zh, newh, running, timer, stop, connection_state, myid, opVars,
                   session, store, faults>>

push_back(k) == pending_config_updates' = pending_config_updates \cup {k}

\* The fetch fails: the connection is lost, or the handle is being closed.
watcher_fetch_failed(k) ==
    /\ wpc.pc \in {"changed", "pending"} /\ k \in wpc.todo
    /\ handle[wpc.h].st # "connected"
    /\ \/ wpc.pc = "changed" /\ push_back(k) /\ wpc' = Idle /\ UNCHANGED handle
       \/ wpc.pc = "pending" /\ watcher_close_zk(wpc.h, handle) /\ UNCHANGED pending_config_updates
    /\ UNCHANGED <<caller, zkpc, zkVars, stop, connection_state, connection_in_progress, myid,
                   opVars, configs, session, store, faults, missed>>

watcher_close_returns ==
    /\ wpc.pc = "close"
    /\ IF zh # 0 THEN close_returns(zh) ELSE UNCHANGED <<handle, session, opVars, missed>>
    /\ zh' = 0
    /\ wpc' = Idle
    /\ UNCHANGED <<caller, zkpc, newh, retry_count, running, timer, stop, connection_state,
                   connection_in_progress, myid, pending_config_updates, configs, store, faults>>

-----------------------------------------------------------------------------
(* The service and the network                                             *)

libUnchanged == UNCHANGED <<caller, zkpc, zkVars, stop, watchVars, opVars, configs>>

\* A handle without a session, or whose session is known, is connected; the others are told
\* that theirs expired.
server_answers(h) ==
    /\ handle[h].st = "connecting"
    /\ LET id == IF handle[h].id = 0 THEN h ELSE handle[h].id
       IN IF handle[h].id \in {0, session}
          THEN /\ handle' = [handle EXCEPT ![h].st = "connected", ![h].id = id,
                                           ![h].events = Append(@, Session("connected", id))]
               /\ session' = id
          ELSE /\ handle' = [handle EXCEPT ![h].st = "expired",
                                           ![h].events = Append(@, Session("expired", 0))]
               /\ UNCHANGED session
    /\ libUnchanged /\ UNCHANGED <<store, faults, missed>>

\* The connection breaks, that to a read-only server too: the library reports it as
\* connecting and fails what was asked.
connection_lost(h) ==
    /\ handle[h].st \in {"connected", "readonly"}
    /\ faults < MaxFaults /\ faults' = faults + 1
    /\ handle' = [handle EXCEPT ![h].st = "connecting",
                                ![h].events = @ \o (IF Unanswered(h) THEN <<Data(0)>> ELSE <<>>)
                                                \o <<Session("connecting", 0)>>]
    /\ libUnchanged /\ UNCHANGED <<session, store, missed>>

session_lost ==
    /\ session # 0
    /\ \A h \in Handles : handle[h].st = "connected" => handle[h].id # session
    /\ faults < MaxFaults /\ faults' = faults + 1
    /\ session' = 0
    /\ libUnchanged /\ UNCHANGED <<handle, store, missed>>

\* Only a read-only server can be reached.
readonly_server(h) ==
    /\ handle[h].st = "connecting"
    /\ faults < MaxFaults /\ faults' = faults + 1
    /\ handle' = [handle EXCEPT ![h].st = "readonly", ![h].events = Append(@, Session("readonly", 0))]
    /\ libUnchanged /\ UNCHANGED <<session, store, missed>>

\* The answer to zoo_aget with a watch: the value, or the error of an attempt to connect.
request_answered(h) ==
    /\ Unanswered(h)
    /\ \E k \in caller.key :
          \/ /\ handle[h].st = "connected"
             /\ handle' = [handle EXCEPT ![h].watch[k] = store[k],
                                         ![h].events = Append(@, Data(store[k]))]
             /\ missed' = missed \ {k}
          \/ /\ handle[h].st \in {"connecting", "readonly"}
             /\ handle' = [handle EXCEPT ![h].events = Append(@, Data(0))]
             /\ UNCHANGED missed
    /\ libUnchanged /\ UNCHANGED <<session, store, faults>>

node_changes(k) ==
    /\ store[k] <= MaxChanges
    /\ store' = [store EXCEPT ![k] = @ + 1]
    /\ libUnchanged /\ UNCHANGED <<handle, session, faults, missed>>

\* A watch fires once; the library sets the watches of a handle again when it reconnects.
watch_fires(h, k) ==
    /\ handle[h].st = "connected"
    /\ handle[h].watch[k] \notin {0, store[k]}
    /\ handle' = [handle EXCEPT ![h].watch[k] = 0, ![h].events = Append(@, Changed(k))]
    /\ libUnchanged /\ UNCHANGED <<session, store, faults, missed>>

-----------------------------------------------------------------------------

zk_thread ==
    \/ connect_internal \/ zookeeper_init_returns \/ schedule_repeat_timer
    \/ check_connection \/ close_zk_begins \/ close_zk \/ retry_or_break
    \/ mainloop_exits \/ thread_exits

completion_thread ==
    \/ \E h \in Handles : my_data_completion(h) \/ watcher(h)
    \/ \E k \in Keys : watcher_fetched(k) \/ watcher_fetch_failed(k)
    \/ watcher_close_returns

server_thread ==
    \/ connect \/ connect_returns \/ zoo_aget \/ iterate_and_load_keys \/ is_running
    \/ \E k \in Keys : get_data(k)

Next ==
    \/ zk_thread \/ completion_thread \/ server_thread
    \/ shutdown
    \/ \E h \in Handles : server_answers(h) \/ connection_lost(h) \/ readonly_server(h) \/ request_answered(h)
    \/ session_lost
    \/ \E k \in Keys : node_changes(k) \/ \E h \in Handles : watch_fires(h, k)

Spec == Init /\ [][Next]_vars

\* The threads run and the timer fires; the library answers a request, if only by giving its
\* connection up.  The service need not answer a handle that connects.
FairSpec ==
    /\ Spec
    /\ WF_vars(zk_thread) /\ WF_vars(completion_thread) /\ WF_vars(server_thread)
    /\ \A h \in Handles : WF_vars(request_answered(h))

\* The service can be reached from some time on, and sends what its watches saw.
ServiceSpec ==
    /\ FairSpec
    /\ \A h \in Handles : WF_vars(server_answers(h))
    /\ \A h \in Handles, k \in Keys : WF_vars(watch_fires(h, k))

-----------------------------------------------------------------------------
(* Properties                                                              *)

TypeOK ==
    /\ caller \in [pc : {"new", "connecting", "load", "asking", "waiting", "serving", "failed", "stopping", "stopped"},
                   todo : SUBSET Keys, key : SUBSET Keys]
    /\ zkpc \in {"none", "init", "assign", "schedule", "loop", "tested", "close", "check", "retry", "exit", "exited"}
    /\ wpc \in [h : 0 .. MaxHandles, pc : {"idle", "changed", "pending", "close"}, todo : SUBSET Keys]
    /\ zh \in 0 .. MaxHandles /\ newh \in 0 .. MaxHandles
    /\ connection_state \in {"none", "connecting", "connected", "readonly", "expired"}
    /\ connection_in_progress \in BOOLEAN
    /\ myid \in 0 .. Garbage
    /\ retry_count \in 0 .. MAX_RETRY
    /\ {running, timer, stop, op_in_progress} \subseteq BOOLEAN
    /\ get_result \in 0 .. MaxChanges + 1
    /\ pending_config_updates \subseteq Keys
    /\ configs \in [Keys -> 0 .. MaxChanges + 1]
    /\ session \in 0 .. MaxHandles
    /\ store \in [Keys -> 1 .. MaxChanges + 1]
    /\ faults \in 0 .. MaxFaults
    /\ missed \subseteq Keys

\* However the check timer and the watcher race to close and to replace the handle, no handle
\* is lost: an open one is the one in zh or the one zookeeper_init is about to return, and
\* there is never a second one.
OneHandle ==
    /\ \A h \in Handles : Open(h) => h \in {zh, newh}
    /\ zh # 0 => newh = 0

\* A stored value that is out of date is going to be replaced (a watch is set or has fired, a
\* fetch is under way) or its fetch failed and is pending, unless its watch was lost with its
\* handle or the change came before load stored the key.
ConfigCurrent ==
    \A k \in Keys : configs[k] \notin {0, store[k]} =>
        \/ k \in missed \cup pending_config_updates
        \/ \E h \in Handles :
              /\ handle[h].st \notin {"none", "closed"}
              /\ \/ handle[h].watch[k] # 0
                 \/ \E i \in 1 .. Len(handle[h].events) : handle[h].events[i] = Changed(k)
                 \/ wpc.h = h /\ k \in wpc.todo

\* The state connecting was reported to the watcher and nothing follows: no server answers
\* the handle, or there is none.  The check timer does nothing in this state.
StuckConnecting ==
    /\ connection_state = "connecting"
    /\ zh # 0 => handle[zh].st = "connecting"

\* connect and load end, with the service up, down or failing, although both spin on flags
\* that other threads reset.  Two cases are left out, in which connect does not come back: a
\* first zookeeper_init that fails, after which connection_in_progress stays set without a
\* thread; and a read-only server, the first one reached, that is lost again, after which
\* the client is stuck for ever in the state connecting.
StartReturns ==
    (caller.pc = "connecting") ~>
        \/ caller.pc \notin {"connecting", "load", "asking", "waiting"}
        \/ zkpc = "exited" /\ connection_in_progress
        \/ [](StuckConnecting /\ caller.pc = "connecting")

\* serverconfig "supports dynamic updates through Zookeeper callbacks"
\* (docs/sphinx/source/reads/serverconfig_read.rst): once the server serves with the current
\* value of a node, later changes of the node reach it while it serves.
ConfigFollows ==
    \A k \in Keys : [](caller.pc = "serving" /\ configs[k] = store[k] =>
        []((configs[k] # store[k]) =>
            <>(configs[k] = store[k] \/ caller.pc # "serving" \/ zkpc = "exited")))
=============================================================================
