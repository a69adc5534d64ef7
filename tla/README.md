# Verification of gearsdk

TLA+ models of gearsdk, a C++ toolkit for multiplayer game back ends built on
quiche (QUIC and HTTP/3), libev, Redis and ZooKeeper. Paths are those of the
repository under `src/`.

## 1. The system

| Part | State | Operations | Interacts with |
|---|---|---|---|
| **qserver / qnetworkserver** (`qserver/source/qnetworkserver.*`) | table of `qconn_io` by connection id, flags, heartbeat time | accept a packet, time out, purge by heartbeat, kick (`close`), destroy, end of the loop | calls `roomserver` back through `bridge_qpeerconnection` |
| **qserver / roomserver** (`roomserver.*`, `gameserver.*`) | `new_connections`, `connection_map`, `waiting_rooms`, `rooms` | match request, reconnection, shutdown request, zombie sweep, Redis notification | owns the rooms, writes the room counters to Redis |
| **qserver / room** (`room.*`) | state, `playermap`, `disconnected_players`, `count_down_timer` | `try_add_connection`, `remove_connection`, countdown, destructor | sends roster events to clients, reports to `observer_qserver_events` (the plugins) |
| **networkcommon / qtimer** | list of timers of a scheduler | schedule, cancel, destroy, callback | libev; rooms and servers inherit the scheduler |
| **networkcommon / qthreadpool** | task queue, completed list, thread contexts, counters | `init`, `enqueue`, worker loop, `process_in_main_thread`, `stop` | for blocking Redis work of the servers (compiled in only with `QTHREADPOOL`, which qnetworkserver.hpp sets to 0) |
| **networkcommon / loggers** | records, waiting records, session flags | log, flush, start and end session, rollover | one thread per logger, waited for by the servers at exit; plugins' threads log too; a crawler takes finished files |
| **networkcommon / configuration** (`serverconfig.*`) | `configs`: key, value and node of each configuration entry | `load`, `try_update_value`, getters | qzookeeper, whose watches call it back on another thread |
| **networkcommon / messages** | JSON messages | encode, decode | clients |
| **qclient** | connection state, last room and hash | connect, heartbeat, reconnect | qserver |
| **qh3server / router** (`qh3router*.cpp`, `http3_command_server.*`) | `routes`, `unresponsive_routes`, `command_route`, `server_counter` | relay a packet, take a server's report, check for unresponsive routes, shut down | servers by datagrams, Redis directory `servers:<ip>`, command center |
| **qh3server / server** (`qh3server.cpp`) | connections with request, response, `stream_id`, `total_sent_bytes` | request, response in chunks, resumption, timeout, reports to the router | router, plugin |
| **qh3client** | one request | request, response | router or server |
| **qhiredis** | one synchronous and one asynchronous connection | INCRBY, DECRBY, SET, DEL, EXPIRE, notifications | Redis |
| **qzookeeper** | handle `zh`, session id, connection state, `op_in_progress`, `pending_config_updates` | connect, check timer, watcher, `get_data`, shutdown | ZooKeeper library and service, serverconfig |
| **serverplugin** | `response_queue` between Node or Lua and the server's thread, `ev_async`, raw room pointers | queue a response, wake the server | qserver, qh3server |
| crawlers, load testers, samples, `sandbox` | - | - | - |

What is hard here. The game server is single-threaded, but its callbacks come
in any order: a packet, a timeout of quiche, a heartbeat purge, a countdown tick,
a zombie sweep and a Redis notification may follow each other in orders no test
drives, and five containers (`conns`, `new_connections`, `connection_map`,
`waiting_rooms`/`rooms`, `playermap`) hold raw pointers to each other's objects.
Rooms end and are deleted in the middle of such callbacks. Clients come back with
a room number and a connection hash from their own memory. Counters live in
another process, Redis, whose notifications come late. The thread pool and the
loggers are really concurrent. The HTTP/3 router knows its servers only by datagrams
that may be lost, from servers that crash and come back on the same port, and its
heartbeats are rarer than its timeout. A response is written as far as quiche has room, with a
counter that has to survive the cut, while the plugin's thread queues others. The ZooKeeper
client is shared by three threads that synchronise with plain flags, and a watch fires only once.

## 2. Modules

| Module | What it is |
|---|---|
| `RoomServer` | the connection table, matchmaking, rooms and Redis counters, one action per callback |
| `RoomService` | what a client is promised: rooms that open, fill, start, keep the seats of those who leave, end and disappear. Knows nothing of connections, lists, timers or Redis |
| `MCRoomServer` | sets of connections and configurations for TLC |
| `RoomServerProofs` | the inductive invariant of `RoomServer` and its consequences, proved |
| `RoomServiceProofs` | `RoomServer` implements `RoomService`; rosters and observer, proved |
| `RoomCountProofs` | the Redis counters and the single waiting room, proved |
| `QThreadPool` | the task queue, its workers, the completed list and the shutdown, at the grain of the mutexes |
| `QThreadPoolProofs` | its inductive invariant, the order of the queue, the drain at stop and the account of every task, proved |
| `QTextFileLogger` | log file, record queues, flush and rollover, session, the wait at exit, files left to the next process |
| `QTextFileLoggerProofs` | its inductive invariant: finished files, records kept once and in order, proved |
| `QH3Router` | the HTTP/3 router, its command center and the reports of the servers behind it, with crashes and lost datagrams |
| `QH3RouterProofs` | its lists, its directory and how they follow the servers, proved |
| `QH3Server` | a qh3server: requests, the plugin's response queue and its wake-up, responses in chunks over limited send capacity |
| `QH3ServerProofs` | what `send_in_chunks` sends, and that responses go out in order and on their streams, proved |
| `QZookeeper` | the ZooKeeper client with its three threads, and the configuration kept current through it |
| `QZookeeperProofs` | the single handle and the tracking of every stored key, proved |
| `MCQThreadPool`, `MCQTextFileLogger`, `MCQH3Router`, `MCQH3Server`, `MCQZookeeper` | instances of them |

### RoomServer

One libev loop runs everything, so a callback is an atomic action. The
correspondence is by name; what is less obvious:

- A connection is its `cid_hash_val` and is not used twice. `conn` is the life of
  its `qconn_io`: not seen yet, in handshake, `open` (established), `closing` (closed
  by the peer or by `qconn_io::close`; quiche drops its packets, but it is in the
  table until its draining timer ends), `gone`.
- A room is its `ROOM_ID`, handed out in order. `waiting_rooms` is a vector in the
  code; rooms are appended on creation, so its order is that of `ROOM_ID` and a set
  with "smallest first" says the same.
- `config[r]` holds `MIN_PLAYERS`, `MAX_PLAYERS` and `ALLOW_JOIN_AFTER_START`. What
  clients ask for (`Configs`) is any integers: `msg_room_config::deserialize` checks
  the type only. A maximum below 1 makes the new room refuse the connection it is opened for; the code ignores that
  and makes the entry in `connection_map`. `refused` is the history of these connections. Their entries outlive the
  room, and `deleted_room_read` is what a message or the end of such a connection then does with freed memory: the
  process ends (`server` is "crashed"), or nothing happens.
- `process_match_request(c, k, prev, id)` is the whole handler: the flag, the erase
  from `new_connections`, the search of `do_process_roomjoin`, `try_add_connection`
  with its events, countdown and possible start, `onroom_pre_start` with its Redis
  commands, `create_waiting_room`. `prev` and `id` are whatever the client remembers.
- `destroy_connection(c)` is the whole of `qnetworkserver::destroy_connection`, from any
  of its three callers, with `remove_connection`, the end of the room, the kicks and the
  deletion of the room.
- `check_zombie_rooms(tw, tr)`: ages are not modelled, their order is. A room's age
  grows with time and rooms are created in the order of their ids, so "waiting for
  20 s" is "id below `tw`" and "an hour old" is "id below `tr`", `tr <= tw`.
- `redis_expire` stands for the TTL of 60 s on a "wroom:" key. Creating a room renews
  it and a waiting room is swept within 45 s, so a key expires only when no room of
  its signature waits. Redis commands succeed in the model.
- `view` is the roster in the last event a client was sent, `observed` the players of a
  room according to the observer's events: they exist to state properties.

Undecodable messages, messages of placed clients (forwarded to the observer) and the
first "hi" of a client that already said it change nothing and are left out.

### QThreadPool

The pool is a template over the user's context; a task is a member of `Tasks`. Each
critical section of the code is one action, and so is each stretch between two of
them (running a task, running a completion callback). `init` and the workers' start are
modelled with failing initialisations and failing `pthread_create`. `stop` may be called
by its user and is called by the destructor, so up to twice; `pthread_join` on a thread
that was never created, or was joined before, may crash. The destruction of the mutexes at the
end of `stop` and the unlocked insertion in `contexts` are not modelled. `started`,
`accepted` and `notified` are histories.

### QTextFileLogger

One logger of a server. `at[p]` is where thread `p` is in `log` or `log_buffer` (which
differ in the text only), `flushing` where the logger's thread is in `flush`, `thread` where it is in
`run_log_session`. `log_mutex` is only ever tried, so what happens without it is the point:

- A thread that gets it moves the pending records and appends its own (`log_finish`). One that
  does not looks at `fp` (`log_check`), later again in `create_new_record`, and pushes to
  `records_waiting` (`log_push`). If another thread is at that vector the record may be lost: this is
  the outcome of the data race. Other outcomes of it (a torn vector) are left out.
- `flush` writes, renames and closes in one step with the mutex held, and opens the next file in
  another, because `fp` is null in between and other threads look at it.
- The destructor moves pending records without the mutex and only tries it for its flush.
- Files are numbered by the major and minor counter taken as one number and hold sequences of
  records; sizes count records. `restart` loses memory and keeps files.
- A thread inside `log` when the `qlogfile` is gone crashes.

`log_begin` counts the records of a thread; `accepted` and `mishap` are there to state
properties. `uv_async_init` is called from another thread than the loop's, which libuv does not
allow; here the cancellation always arrives. A second session in one process does not occur.

### QH3Router

The router is one libev loop, so its callbacks are atomic: `cmd_feedback_from_client` reads one
datagram, `check_and_remove_unresponsive_routes` and `update_redis_about_servers` are timers. Servers are threads or processes of
their own: `node[n]` is off, starting, up or stopping.

- All run on one host, so datagrams keep their order. `report` may lose one: the socket's buffer is
  full, `sendto` or `getaddrinfo` failed. A lost "start" or "shut-ack" is a
  fault, because it is not repeated; a lost heartbeat is not.
- Times are not modelled: the check may find any subset of the routes expired. The code's numbers allow
  that, since a heartbeat comes every 20 s and the timeout is 10 s.
- A route is a server's port and the `server_id` from `server_counter`. `Init` is the state after the
  router has spawned its own servers and the command center.
- The command center's heartbeats only avoid a warning and are left out. Its "/shutdown_test" to
  the router's port reaches the one server that the router relays it to, so
  `send_shutdown_to_all` stops one.
- `router` is "break" between `ev_break` and the end of the loop: the callback goes on reading. It is "aborted" where
  an assertion fails or a null or deleted `command_route` is used.

### QH3Server

The server's thread and the plugin's thread. A packet (`recv_cb`) brings a request or an
acknowledgement that makes capacity; `send_in_chunks` gives quiche whole chunks of `SEND_CHUNK_SIZE`, each of which may be
taken in part or not at all; what is left goes out with later packets.

- Lengths count units, so that a response of 4 has two chunks of 2. `out` is what quiche was given,
  by stream: it is what the client will read, since QUIC streams are reliable.
- `http_request`, `http_response`, `stream_id` and `total_sent_bytes` belong to the connection, not to the
  stream, and a client may send a request before it has its last answer (100 streams are allowed). The new request then takes
  `stream_id` over: the stream before gets no end, and its answer goes out on a later stream. `overlapped` is the first
  stream to which this happened, and `Mixed(c, s)` the streams from there on; the properties except exactly these.
- Headers that are refused for lack of capacity are never sent, because the code ignores the
  result; `ResponseCompletes` speaks of responses whose headers were taken.
- `http_request` keeps the first ":path" it gets (`add_or_get_header`) until it is reset.
- `notify_main_thread` is `ev_async_send`: `async` is a flag, so wake-ups coalesce. The callback takes
  the queue's elements one at a time under its mutex.

### QZookeeper

`caller` is the server's thread in `connect`, `load` and `shutdown`; `zkpc` the client's own thread, which
opens the handle and runs the check timer; `wpc` the completion thread of the ZooKeeper
library in `watcher`. The library, per handle, keeps its state, the events to be delivered and its watches; the
service keeps the session and the nodes.

- AUTH_FAILED takes the branch of an expired session and ASSOCIATING that of connecting; they are merged with
  them. A read-only server is a state of its own.
- All configured nodes exist (the error for a missing node is not modelled). Only one thread
  calls `get_data`, so `op_in_progress` never refuses it. `reconnect_mutex` is taken by the client's thread only.
- `retry_with_backoff` is its result, success or failure. A second close of a handle does nothing.
- The constructor does not set `myid`: it is 0 or a value no session has.
- `get_data` tests `zh` and the state and then asks the handle (`zoo_aget`), the check timer tests the state and then closes
  (`close_zk_begins`): other threads may come between. A request on a handle that is being closed is
  answered by the library; one on a handle whose memory `zookeeper_close` has released, before `zh` is null, is not modelled.
- A connection to a read-only server can be lost like any other and is then reported as CONNECTING, a state in which
  the check timer does nothing (`StuckConnecting`).
- `missed` holds the keys for which the code has nothing under way: their watch went with its
  handle, or the change was notified before `load` stored the key and `try_update_value`
  found no entry. `ConfigCurrent` excepts these, and only these.
- `set_data` and `delete_path` have the control of `get_data` and are not separate actions.

## 3. Runs

Every cfg says `CHECK_DEADLOCK FALSE` where the system really may stop: connection ids
are used once and a stopped server does nothing, a pool ends when it is destroyed, a logger when its
process is, the router after its loop, a qh3server when its clients have sent all their requests, the ZooKeeper client
after its shutdown.

| Run | Instance | Checks |
|---|---|---|
| `room_party` | 4 connections, rooms of 2 to 3 and a configuration with a maximum of 0, 2 rooms, countdown of 2 | `TypeOK`, `MembershipConsistent`, `OneWaitingRoom`, `SeatsKept`, `CountdownSound`, `RosterAgreement`, `ObserverBalanced`, `RoomMovesForward`, `OnlyReturnsAfterStart`, `ImplementsService` |
| `room_mixed` | 4 connections, rooms of 1 to 2 and a configuration with min above max, 3 rooms | `RoomCountExact`, `WaitingCountCovers`, `ListsMatchState` |
| `room_live` | 3 connections, the same configurations, 2 rooms, fairness, no symmetry | `EndedRoomDeleted`, `WaitingRoomResolves` |
| `pool_all` | 3 threads, 3 tasks, 2 of them with a callback, fairness | `TypeOK`, `StartedInOrder`, `NothingLost`, `StopDrains`, `TasksRun`, `StopReturns` |
| `log_files` | 4 records of the server, files of 2, a restart, failing calls | `TypeOK`, `RecordsKept`, `FinishedUntouched` |
| `log_threads` | server and a plugin's thread with 2 records each, files of 1, fairness | `OrderKept`, `ExitCompletes`, `QueueWritten` |
| `log_rollover` | 3 records of the server, files of 1 | `RecordAllocated`, violated |
| `router_all` | 2 servers, 1 of them spawned by the router, 2 more starts, 2 datagrams in the socket, fairness | `TypeOK`, `DirectoryConsistent`, `RoutesTrackServers`, `ShutdownEnds`, `ActiveAgain` |
| `router_last` | the same servers | `CommandCenterLast`, violated |
| `h3_all` | 1 connection with 3 requests, responses of 1 and 4, chunks of 2, capacities 1 and 3, fairness | `TypeOK`, `BodyInOrder`, `ResponseCompletes`, `QueueDrained` |
| `zk_all` | 2 keys, 1 retry, 3 handles, 2 changes, 2 faults, fairness | `TypeOK`, `OneHandle`, `ConfigCurrent`, `StartReturns` |
| `zk_update` | 1 key, 3 handles, 1 change, 2 faults, a service that can be reached | `ConfigFollows`, violated |

What the properties say is in the comment before each. In short:

- the connection map and the playermaps agree and never dangle, but for the entry of a refused connection; of the waiting
  rooms at most one can ever start; seats are kept for those who left,
  clients and observers see the same rosters, and every step of `RoomServer` is a step
  `RoomService` allows; the counters in Redis agree with the lists (the one of waiting rooms may
  be too high);
- the pool takes tasks once and in order, runs each callback once, and `stop` drains and returns (the first one, of a pool
  whose threads were all created: the others join what is no thread and may crash);
- the logger writes each record once and in its thread's order, touches no finished file and ends; the wait for it at exit comes
  back unless the process is killed or a plugin's thread that still logs crashes it;
- the router has one route for a server in one of two lists that follow the servers, brings back a living server that
  was found unresponsive, and ends when the last server did;
- a response is sent whole, in order and on its own stream, however quiche cuts it, as long as the requests of a connection do
  not overlap; whatever the requests, a stream carries runs of responses without a gap; no response stays in the plugin's queue;
- the ZooKeeper client never loses or doubles its handle, comes back from `connect` and
  `load` (but for a first `zookeeper_init` that fails and a read-only server that is lost), and has an update under way for a stale value, except for the keys in `missed`.

Four connections fill a room of three, let one leave and come back as the fourth; three
rooms are enough for room 0 (whose Redis counter is special), a later one of the same
signature and one of another. A countdown of 2 has a tick that does not start the room
and one that does; the code's 5 adds more of the first kind. Connections are symmetric
(nothing orders or chooses among them) where no liveness is checked.

Three workers and three tasks are the fewest where one worker waits, one runs and one
finishes while the queue is not empty. Four records and files of two let two lives of a process each
finish a file with the same number; with files of two a file can also be left half full and
continued.

Two servers let one start, crash or stop while the other's datagrams are in the socket, and two starts
let the same port be used again. A socket of two datagrams holds the "shut-ack" of one life of a server
and the "start" of the next. A response of 4 in chunks of 2 is cut inside its first chunk by capacity 1 and
inside its second by capacity 3, while one of 1 is never cut; the second request of a
connection meets what the first one left in it, and the third one that comes with two streams unanswered, or after one answered and
one abandoned. Connections share nothing but the plugin's queue and its wake-up, and three overlapping requests of one
connection fill that queue as those of several would; the proofs are for any number of connections. Three
handles are a first session and two replaced ones; two faults are a connection lost and the session expired, a read-only
server met and lost, or two of a kind.

Fairness of `room_live`: a closing connection is destroyed (quiche's draining timer always
fires), the sweep comes (a libev timer, and waiting rooms grow old), and a
loop that was broken ends. Nothing is assumed of clients or of open connections.

Fairness of `pool_all`: threads are scheduled, tasks and callbacks return, and a worker gets
`completed_mutex` (strong fairness) because rounds of callbacks are 1.5 s apart. Of
`log_threads`: threads are scheduled, the timers repeat, the flush finds the mutex free
now and then and the loop gets to the cancellation (strong fairness, since flush and log
disable these steps for moments only).

Fairness of `router_all`: threads run and timers fire, so a server that stops reports it and the router reads its
socket; of the heartbeats of a living server not all are lost (strong fairness); a request for the command
center is answered when it can be. Nothing makes a server start, stop or crash. Of `h3_all`: both threads
run, and a client whose connection lives acknowledges what it gets, since QUIC retransmits; the plugin need
not answer. Of `zk_all`: the three threads run and the library answers a request, if only with an
error; the service need not answer. `zk_update` also assumes that the service can be reached from some
time on and sends what its watches saw, for without that no update could be expected.

The violations are disagreements with what the code's comments, messages or docs say:

- `log_rollover`: a thread without the mutex finds a file, a rollover closes it, and
  `create_new_record` returns null to a caller that does not look.
- `router_last`: qh3router.cpp:288 says "command center must be destroyed last" and asserts it; a command
  center whose start failed, or that is asked by "/shutdown_cmd_center", ends before
  the servers.
- `zk_update`: serverconfig_read.rst:84 says that configuration "supports dynamic updates". When the fetch
  after a watch fails on a lost connection, the key is kept for a retry that
  the same session, once reconnected, skips (qzookeeper.cpp:100), and its watch is used up.

Reading the code showed more places that the models have as behaviours and for which no
run is kept:

- a match request with a maximum of 0 or less is refused by the room that was just created for it, whatever the comment at
  roomserver.cpp:464 says ("no need to check for limit since he is our first user in this room"), and `connection_map` points to
  a room that does not hold the connection, after the sweep to one that is deleted: `MembershipConsistent` excepts this entry,
  and `EndedRoomDeleted` and `WaitingRoomResolves` a process that ended over it;
- the refresh of an expired key (roomserver.cpp:528) adds to it, so a room created after the expiry
  and before its notification is counted twice: `WaitingCountCovers` says at least, not exactly;
- after a failed `pthread_create` the pool's `stop` joins threads that were never created, and the
  destructor joins again what an explicit `stop` joined;
- the logger's `finished` is set before the destructor's flush, so the servers' wait at exit does not wait for it;
- `config.finished` is true before the thread has started, so the retry of `end_session` "till
  we get a success" (qnetworkserver.cpp:675) may stop without one;
- a `.tmp` file at or above the limit at exit is skipped by later processes (`usable`) and never
  finalised "for processing" (qtextfilelogger.cpp:121);
- with several threads the pending queue can lose records (`log_push`), not only have the
  "ordering issue" of qtextfilelogger.cpp:27. `RecordsKept` names the exceptions it makes in
  `mishap`: this race, a file that could not be opened, a thread that logs while the session
  ends;
- a first `zookeeper_init` that fails leaves `connection_in_progress` set and `connect` spins for ever, and so it does when a
  read-only server was reached first and is lost again: `StartReturns` excepts both;
- a request that comes before the last answer is complete redirects what is left of it to the new stream (qh3server.cpp:528):
  `BodyInOrder` and `ResponseCompletes` except the streams concerned;
- a "start" that is lost is not sent again, so the router ignores that server's heartbeats: `RoutesTrackServers`
  assumes that none was lost.

## 4. Proofs

`RoomServerProofs` shows `Spec => []IndInv` for every finite set of
connections, every set of configurations and every number of rooms, and from it `TypeOK`,
`MembershipConsistent`, `ListsMatchState`, `SeatsKept` and `CountdownSound`. Assumptions:
`Conns` finite, `NoConn` not one of them, integer limits, `MaxRooms` a natural number,
`MAX_COUNT_DOWN` at least 1. Of the configurations nothing is assumed: they may admit nobody.

None of the five is inductive by itself. `MembershipConsistent` needs
`FreshUnplaced` (a connection that has not asked for a room is in none, so a join
never leaves an older entry behind); a join into a new room needs `IdsInOrder`
(its id is unused); that a refused connection disturbs nobody is `RefusedNowhere` (its room stays empty until it is
deleted); `SeatsKept` needs `SeatsOfTheGone` (a seat belongs to a connection that
is gone, so it is not also a player) and `CountdownSound` (a countdown that ends starts a
room with enough players); both need `ConfigsAsked` and `ListsMatchState`. There is one
lemma per callback (`NetworkStep`, `MatchStep`, `DestroyStep`, `CountdownStep`, `ZombieStep`,
`EndStep`, `RedisStep`), each with one step per conjunct it can disturb; `PlayerAdded`
and `DeleteRooms` hold what two callers share.

`QThreadPoolProofs` shows `Spec => []PoolInv` for every number of threads and every set of tasks,
and from it `TypeOK`, `StartedInOrder` and `StopDrains`. `StopDrains` is the one that
needs help: a stopped pool has an empty queue because a task is queued only when some
worker was initialised (`QueueOpen`), an initialised worker leaves only an empty and stopped
queue and nothing is pushed afterwards (`LeavesEmpty`), and all workers have left
(`JoinedDone`). `StartedInOrder` rests on two lemmas about sequences, `PushLast` and `TakeFirst`.

`Accounts` (`NothingLost`) needs to know where a task that was taken is: with one worker, in the
completed list once, or in `notified` (`Whereabouts`, `NotTwice`), and that `process_in_main_thread` goes through a
list nobody else shortens (`CallbacksCalled`).

`RoomServiceProofs` shows the refinement `ImplementsService` and the invariant `EventInv`,
which is `IndInv` with `RosterAgreement`, `ObserverBalanced` and `EndedBelowMin`.
A match request has one of four outcomes (`OpensRoom`, `OpensEmpty`, `EntersRoom`, `TakesSeat`), and each is an action of
`RoomService`; the other callbacks are departures, starts, ends and deletions, step by step. `EndedBelowMin` is what the
refinement needs beyond `IndInv`: an ended room has fewer players than its minimum and gets none, so no player
who leaves it can end it again. `RoomMovesForward` and `OnlyReturnsAfterStart` follow from the same effects.

`RoomCountProofs` adds the counters (`CountInv`). `RoomCountExact` is not inductive because the first room
sets its counter to 1 instead of adding 1: it needs `FirstRoomAlone`, while room 0 waits and can start
it is the only room, and this needs `WaitingNotFull`, a waiting room that can start is not full, since a second room is
created only when the first takes no more players. `OneWaitingRoom` rests on
`WaitingNotFull` too.

`QH3RouterProofs` shows `Spec => []RouterInv` for every number of servers, starts and datagrams, and from it
`TypeOK`, `DirectoryConsistent` and `RoutesTrackServers`; it assumes finitely many servers, since their list is
counted. `RoutesTrackServers` speaks of what is in the socket; the invariant (`WordsInOrder`) also says in which order: the
last of a server's words that is still to be read, or the lists when there is none, agrees with
what the server is. Order is kept because the socket is first in, first out.

`QZookeeperProofs` shows `Spec => []ConfigInv` for any number of keys, retries, handles, changes and faults. For `OneHandle`
the invariant is `Base`: the two closing threads exclude each other (`Closing`), and a handle that is not closed
is in `zh` or is the one `zookeeper_init` is about to return, which happens only while `zh` is null (`HandleKept`).
For `ConfigCurrent`, every key that is stored, or whose value is on its way to `load`, is in `missed`, pending, or
followed on a live handle by a watch, a Changed event or the watcher's own list (`Following`); that this is kept needs at
most one answer under way, so that it belongs to the key that is asked (`Answering`), and a watcher whose handle
is still open (`Watching`).

`QH3ServerProofs` shows `Spec => []BodyInv` for any connections, requests, lengths, capacities and chunk
size, overlapping requests included, and from it `TypeOK` and `BodyInOrder`. `ChunksInOrder` is about the loop alone: although it steps by whole chunks
whatever quiche took, it sends the next min(capacity, rest) units without a gap, and the end with the last. The
invariant says that each stream carries runs of responses (`StreamsOK`) and that `stream_id` is the stream of the last request (`RequestsKept`), that `total_sent_bytes` and `http_response`
are those of that stream (`Progress`), that, of a connection whose requests did not overlap, an answer still asked for or queued
is the only one and meets a stream on which nothing was sent (`AnsweredOnce`), and that a refused request leaves only the empty payload, which
`try_send_response` then sends again to the next one (`Refused`).

`QTextFileLoggerProofs` shows `Spec => []LoggerInv` for any finite set of plugins, any bounds and any size of
files, and from it `TypeOK`, `FinishedUntouched`, `OrderKept` and `RecordsKept`; `Absent` is assumed to be no sequence of
records. `FinishedUntouched` needs only that the open file is a .tmp file whose number has no .log file
(`OneFile`), in spite of races and crashes. The rest holds as long as `mishap` is empty (`Sound`): then whoever is in
`log` keeps the file open (`Opened`, with `Mutex`), so a flush always finds a file and the destructor always finds the
mutex free; and the record being logged is newer than all others of its thread (`Fresh`). That a rollover, or a
later process that starts at number 0 again, never appends old records after new ones is the hard part. It
takes three facts about the .tmp files: those this process has passed are full, also when their rename failed
(`Passed`); those still ahead of it hold older records than it has (`Ahead`); and behind one that is not full
there are only older ones (`Older`), which gives `Ahead` again for the file that `create_new_logfile` stops at.
`Written` is about what `flush` prints, the records without those whose fprintf fails, in their order.

Each invariant was model-checked on the instance of a run of section 3 before it was proved. The conjuncts
that state properties of interest are the invariants of those runs.

Only model-checked:

- liveness (`EndedRoomDeleted`, `WaitingRoomResolves`, `TasksRun`, `StopReturns`, `ExitCompletes`, `QueueWritten`, `ShutdownEnds`,
  `ActiveAgain`, `ResponseCompletes`, `QueueDrained`, `StartReturns`): it rests on fairness and on ENABLED, which the provers do not treat.

## 5. Plan

1. `RoomServer`, `RoomService`, `QThreadPool`, their runs and first proofs;
   `QTextFileLogger`. Done.
2. `QH3Router`, `QH3Server` with the plugin's response queue, `QZookeeper` with the
   configuration. Done.
3. Proofs of the refinement, the rosters, the observer and the counters of `RoomServer`, the tasks of the pool,
   the router, the ZooKeeper client, the HTTP/3 server and the logger. Done: every invariant that a run checks is proved.
4. The list of timers of a scheduler; failing Redis commands and a restart with keys left over in `RoomServer`.

### Not modelled

Most of the repository's lines are vendored: rapidjson, nlohmann and dpp, libbson and libmongoc, libpgsql, libuv,
quiche, the ZooKeeper and hiredis headers, uthash, zlib, nvwa. They make up some
260,000 of its 300,000 lines, so the models, which cover the control of the repository's own servers, stand for
a small share of all lines. Also left out:

- QUIC itself: its effect on a connection is `create_conn`, `peer_close`, `destroy_connection` in `RoomServer` and
  the capacity in `QH3Server`; version negotiation, retry and tokens;
- qclient: its threads share a connection under mutexes that are only tried, inside assertions, so in a release build
  overlapping calls are undefined behaviour and a model of it would be mostly that. The server's side of a
  reconnection is in `RoomServer`;
- messages, buffers and helpers: conversions and containers without concurrency;
- crawlers, load testers, samples, `sandbox`, scripts: I/O and drivers.
