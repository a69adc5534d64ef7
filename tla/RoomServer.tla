----------------------------- MODULE RoomServer -----------------------------
(***************************************************************************)
(* The stateful game server: the connection table of qnetworkserver, the   *)
(* matchmaking of roomserver, the rooms themselves and the room counters   *)
(* kept in Redis (src/qserver/source).                                     *)
(*                                                                         *)
(* Everything here runs on one libev loop, so every callback is one atomic *)
(* action; what the model explores is the order of the callbacks: packets, *)
(* connection timeouts, heartbeat purges, countdown ticks, zombie sweeps,  *)
(* Redis notifications and the shutdown.                                   *)
(*                                                                         *)
(* A connection is identified by its cid_hash_val and a room by its        *)
(* ROOM_ID.  Neither is used twice.                                        *)
(***************************************************************************)
EXTENDS Integers, FiniteSets

CONSTANTS
    Conns,           \* the connections (their cid_hash_val)
    NoConn,          \* prev_cid_hash_val = 0: no previous connection
    Configs,         \* the room configurations the clients ask for
    MaxRooms,        \* bound: how many rooms may be created
    MAX_COUNT_DOWN   \* ticks before a room that reached MIN_PLAYERS starts

ASSUME ConnsAssumption == IsFiniteSet(Conns) /\ NoConn \notin Conns
ASSUME ConfigsAssumption == Configs \subseteq [min: Int, max: Int, after: BOOLEAN]
ASSUME BoundsAssumption == MaxRooms \in Nat /\ MAX_COUNT_DOWN \in Nat \ {0}

RoomIds == 0 .. MaxRooms - 1

\* connection_map has no entry; also room_id of a request that names no room.
NoRoom == -1

\* The members of roomconfig before a message fills them.
DefaultConfig == [min |-> 1, max |-> 1, after |-> FALSE]

\* What get_room_signature keeps of a configuration: the bet and the reward
\* are never filled from a message.
Signature(k) == <<k.min, k.max>>
Signatures == {Signature(k) : k \in Configs}

VARIABLES
    server,           \* "running", "stopping" after ev_break, "stopped", "crashed"
    conn,             \* life of each qconn_io
    user_data,        \* flags of each qconn_io
    new_connections,
    connection_map,
    waiting_rooms,    \* vector in order of creation, that is of ROOM_ID
    rooms,
    room_id_counter,
    refused,          \* history: connections that the room opened for them refused
    state,            \* life of each room
    config,           \* ROOM_CONFIG
    playermap,
    disconnected,     \* disconnected_players, by hash
    count_down,       \* remaining count of count_down_timer, 0: no timer
    view,             \* roster in the last player event sent to a client
    observed,         \* players of a room according to the observer's events
    wroom_count,      \* Redis: value of "wroom:<signature>" (0 when absent)
    wroom_keys,       \* Redis: signatures whose "wroom:" key exists
    room_count,       \* Redis: value of "room:<signature>"
    expired           \* "wroom:" expiry notifications on their way

connVars  == <<conn, user_data, new_connections>>
roomVars  == <<state, config, playermap, disconnected, count_down>>
redisVars == <<wroom_count, wroom_keys, room_count, expired>>
vars == <<server, connVars, connection_map, waiting_rooms, rooms,
          room_id_counter, refused, roomVars, view, observed, redisVars>>

ConnStates == {"idle", "handshake", "open", "closing", "gone"}
RoomStates == {"none", "waiting", "start", "end", "deleted"}

\* The loop runs, or finishes the callbacks at hand after ev_break.
Up == server \in {"running", "stopping"}

Live(c) == conn[c] \in {"handshake", "open", "closing"}

-----------------------------------------------------------------------------
Init ==
    /\ server = "running"
    /\ conn = [c \in Conns |-> "idle"]
    /\ user_data = [c \in Conns |-> {}]
    /\ new_connections = {}
    /\ connection_map = [c \in Conns |-> NoRoom]
    /\ waiting_rooms = {}
    /\ rooms = {}
    /\ room_id_counter = 0
    /\ refused = {}
    /\ state = [r \in RoomIds |-> "none"]
    /\ config = [r \in RoomIds |-> DefaultConfig]
    /\ playermap = [r \in RoomIds |-> {}]
    /\ disconnected = [r \in RoomIds |-> {}]
    /\ count_down = [r \in RoomIds |-> 0]
    /\ view = [c \in Conns |-> {}]
    /\ observed = [r \in RoomIds |-> {}]
    /\ wroom_count = [s \in Signatures |-> 0]
    /\ wroom_keys = {}
    /\ room_count = [s \in Signatures |-> 0]
    /\ expired = {}

-----------------------------------------------------------------------------
(* Connections (qnetworkserver)                                            *)

\* A validated Initial packet: the qconn_io enters the table.
create_conn(c) ==
    /\ Up
    /\ conn[c] = "idle"
    /\ conn' = [conn EXCEPT ![c] = "handshake"]
    /\ UNCHANGED <<server, user_data, new_connections, connection_map, waiting_rooms,
                   rooms, room_id_counter, refused, roomVars, view, observed, redisVars>>

\* recv_cb_internal sees the connection established for the first time.
onconnection_connected(c) ==
    /\ Up
    /\ conn[c] = "handshake"
    /\ conn' = [conn EXCEPT ![c] = "open"]
    /\ new_connections' = new_connections \cup {c}
    /\ UNCHANGED <<server, user_data, connection_map, waiting_rooms, rooms,
                   room_id_counter, refused, roomVars, view, observed, redisVars>>

\* The peer closes: quiche drains the connection, whose packets are dropped from
\* now on, and reports it closed later.
peer_close(c) ==
    /\ Up
    /\ conn[c] = "open"
    /\ conn' = [conn EXCEPT ![c] = "closing"]
    /\ UNCHANGED <<server, user_data, new_connections, connection_map, waiting_rooms,
                   rooms, room_id_counter, refused, roomVars, view, observed, redisVars>>

\* Mutant: the players are told goodbye but not closed.
Kicked_none(P) == conn

\* qconn_io::close on every connection of P (kick_all_except): only an
\* established connection is closed.
Kicked(P) == [c \in Conns |-> IF c \in P /\ conn[c] = "open" THEN "closing" ELSE conn[c]]

-----------------------------------------------------------------------------
(* Messages of a connection that has not asked for a room yet              *)

\* onconnection_message takes the handler branch: the flag is not set and the
\* connection is found in new_connections.
Unmatched(c) ==
    /\ Up
    /\ conn[c] = "open"
    /\ "ROOM_CONFIG_RECEIVED" \notin user_data[c]
    /\ c \in new_connections

first_hi(c) ==
    /\ Unmatched(c)
    /\ "FIRST_HI_RECEIVED" \notin user_data[c]
    /\ user_data' = [user_data EXCEPT ![c] = @ \cup {"FIRST_HI_RECEIVED"}]
    /\ UNCHANGED <<server, conn, new_connections, connection_map, waiting_rooms, rooms,
                   room_id_counter, refused, roomVars, view, observed, redisVars>>

process_shutdown_request(c) ==
    /\ Unmatched(c)
    /\ new_connections' = new_connections \ {c}
    /\ server' = "stopping"
    /\ UNCHANGED <<conn, user_data, connection_map, waiting_rooms, rooms,
                   room_id_counter, refused, roomVars, view, observed, redisVars>>

-----------------------------------------------------------------------------
(* Events sent to the clients of a room                                    *)

\* Mutant: only a player that has no roster yet is told.
Told_newcomers(P, R) == [c \in Conns |-> IF c \in P /\ view[c] = {} THEN R ELSE view[c]]

\* send_event_player_add_or_remove: the players of P that can still be sent to
\* learn the roster R, the flagged player of a removal left out.
Told(P, R) == [c \in Conns |-> IF c \in P /\ conn[c] = "open" THEN R ELSE view[c]]

-----------------------------------------------------------------------------
(* Joining a room                                                          *)

\* game_room lets every player come back.
can_allow_reconnection(c) == TRUE

\* Mutant: the last seat is refused.
Accepts_one_less(r, c, prev) ==
    /\ c \notin playermap[r]
    /\ prev \notin disconnected[r] /\ state[r] # "waiting" => config[r].after
    /\ Cardinality(playermap[r]) < config[r].max - 1

\* try_add_connection(c, prev) adds c to room r rather than return an error.
Accepts(r, c, prev) ==
    LET reconnection == prev \in disconnected[r] IN
    /\ c \notin playermap[r]
    /\ ~reconnection /\ state[r] # "waiting" => config[r].after
    /\ Cardinality(playermap[r]) < config[r].max
    /\ reconnection => can_allow_reconnection(c)

\* Mutant: any started room that is named is joined.
previous_room_unchecked(prev, id) ==
    IF id \in rooms /\ state[id] # "end" THEN id ELSE NoRoom

\* find_room and the checks that make it the room to come back to.
previous_room(prev, id) ==
    IF id \in rooms /\ state[id] # "end" /\ prev \in disconnected[id] THEN id ELSE NoRoom

\* The search of do_process_roomjoin: the room that takes c, NoRoom when a new
\* one has to be created.  Waiting rooms are tried in the order of the vector
\* and whatever configuration was asked for.
room_for(c, prev, id) ==
    LET own  == connection_map[c]
        back == IF own # NoRoom THEN own ELSE previous_room(prev, id)
        fits == {r \in waiting_rooms : Accepts(r, c, NoConn)}
    IN  IF back # NoRoom
        THEN IF Accepts(back, c, prev) THEN back ELSE NoRoom
        ELSE IF fits = {} THEN NoRoom ELSE CHOOSE r \in fits : \A q \in fits : r <= q

\* Mutant: the counter is set for every room.
room_count_started_set(r, s) == [room_count EXCEPT ![s] = 1]

\* "room:" is set to 1 by the first room of the process and counted up by the others.
room_count_started(r, s) == [room_count EXCEPT ![s] = IF r = 0 THEN 1 ELSE @ + 1]

\* Mutant: the room stays in the waiting list.
waiting_without_nothing(wr, r) == wr

waiting_without(wr, r) == wr \ {r}

\* onroom_pre_start: the room changes list and the Redis counters follow.  wr, wc
\* and wk are the waiting rooms and the "wroom:" keys at the time of the call.
onroom_pre_start(r, s, wr, wc, wk) ==
    LET n == wc[s] - 1 IN
    /\ waiting_rooms' = waiting_without(wr, r)
    /\ rooms' = rooms \cup {r}
    /\ wroom_count' = [wc EXCEPT ![s] = IF n > 0 THEN n ELSE 0]
    /\ wroom_keys' = IF n > 0 THEN wk ELSE wk \ {s}
    /\ room_count' = room_count_started(r, s)

\* The part of try_add_connection after the checks: player c enters room r, in
\* the place of prev when it comes back.  k is the configuration of the room.
add_player(c, r, k, prev, wr, wc, wk) ==
    LET P     == playermap[r] \cup {c}
        n     == Cardinality(P)
        ready == n >= k.min /\ state[r] \in {"none", "waiting"}
        full  == n = k.max
    IN
    /\ playermap' = [playermap EXCEPT ![r] = P]
    /\ disconnected' = [disconnected EXCEPT ![r] = @ \ {prev}]
    /\ view' = Told(P, P)
    /\ observed' = [observed EXCEPT ![r] = @ \cup {c}]
    /\ count_down' = [count_down EXCEPT ![r] =
                        IF ~ready THEN @ ELSE IF full THEN 0 ELSE MAX_COUNT_DOWN]
    /\ IF ready /\ full
       THEN /\ state' = [state EXCEPT ![r] = "start"]
            /\ onroom_pre_start(r, Signature(k), wr, wc, wk)
       ELSE /\ state' = [state EXCEPT ![r] = IF @ = "none" THEN "waiting" ELSE @]
            /\ waiting_rooms' = wr
            /\ wroom_count' = wc
            /\ wroom_keys' = wk
            /\ UNCHANGED <<rooms, room_count>>

\* Only the way back to a previous room passes prev_cid_hash_val on.
join_room(c, r, prev) ==
    /\ add_player(c, r, config[r], IF r \in waiting_rooms THEN NoConn ELSE prev,
                  waiting_rooms, wroom_count, wroom_keys)
    /\ connection_map' = [connection_map EXCEPT ![c] = r]
    /\ UNCHANGED <<room_id_counter, refused, config>>

\* Mutant: the new room is not counted.
wroom_count_created_not(s) == wroom_count

wroom_count_created(s) == [wroom_count EXCEPT ![s] = @ + 1]

\* create_waiting_room, then try_add_connection, whose result is not looked at: with a
\* max below 1 the first player is refused and connection_map leads to an empty room.
join_new_room(c, k) ==
    LET r  == room_id_counter
        s  == Signature(k)
        wr == waiting_rooms \cup {r}
        wc == wroom_count_created(s)
        wk == wroom_keys \cup {s}
    IN
    /\ room_id_counter < MaxRooms
    /\ room_id_counter' = room_id_counter + 1
    /\ config' = [config EXCEPT ![r] = k]
    /\ connection_map' = [connection_map EXCEPT ![c] = r]
    /\ refused' = IF 0 < k.max THEN refused ELSE refused \cup {c}
    /\ IF 0 < k.max
       THEN add_player(c, r, k, NoConn, wr, wc, wk)
       ELSE /\ state' = [state EXCEPT ![r] = "waiting"]
            /\ waiting_rooms' = wr
            /\ wroom_count' = wc
            /\ wroom_keys' = wk
            /\ UNCHANGED <<playermap, disconnected, view, observed, count_down,
                           rooms, room_count>>

already_in_room(c) ==
    connection_map[c] # NoRoom /\ c \in playermap[connection_map[c]]

process_match_request(c, k, prev, id) ==
    LET r == room_for(c, prev, id) IN
    /\ Unmatched(c)
    /\ user_data' = [user_data EXCEPT ![c] = @ \cup {"ROOM_CONFIG_RECEIVED"}]
    /\ new_connections' = new_connections \ {c}
    /\ IF already_in_room(c)
       THEN UNCHANGED <<connection_map, waiting_rooms, rooms, room_id_counter, refused, roomVars,
                        view, observed, wroom_count, wroom_keys, room_count>>
       ELSE \/ r # NoRoom /\ join_room(c, r, prev)
            \/ r = NoRoom /\ join_new_room(c, k)
    /\ UNCHANGED <<server, conn, expired>>

-----------------------------------------------------------------------------
(* Deleting rooms                                                          *)

\* Mutant: the players a deleted room still had are not reported as removed.
observed_after_delete_silent(Z) == observed

\* The destructor reports every player it still has.
observed_after_delete(Z) ==
    [r \in RoomIds |-> IF r \in Z THEN observed[r] \ playermap[r] ELSE observed[r]]

\* ~room for every room of Z: the players left are kicked and reported to the
\* observer, the disconnected ones freed, the timer destroyed, and the Redis
\* counter of the list the room's state belongs to goes down.
delete_rooms(Z) ==
    LET W == {r \in Z : state[r] = "waiting"}
        of(S, s) == {r \in S : Signature(config[r]) = s}
    IN
    /\ state' = [r \in RoomIds |-> IF r \in Z THEN "deleted" ELSE state[r]]
    /\ config' = [r \in RoomIds |-> IF r \in Z THEN DefaultConfig ELSE config[r]]
    /\ playermap' = [r \in RoomIds |-> IF r \in Z THEN {} ELSE playermap[r]]
    /\ disconnected' = [r \in RoomIds |-> IF r \in Z THEN {} ELSE disconnected[r]]
    /\ count_down' = [r \in RoomIds |-> IF r \in Z THEN 0 ELSE count_down[r]]
    /\ observed' = observed_after_delete(Z)
    /\ wroom_count' = [s \in Signatures |-> wroom_count[s] - Cardinality(of(W, s))]
    /\ wroom_keys' = wroom_keys \cup {Signature(config[r]) : r \in W}
    /\ room_count' = [s \in Signatures |-> room_count[s] - Cardinality(of(Z \ W, s))]

\* Mutant: only the started rooms are looked at.
zombies_started(tw, tr) == {r \in rooms : r < tr}

\* A room is old when it was created before some moment, and rooms are created in the
\* order of their ROOM_ID: the waiting rooms below tw are at least 20 s old, the
\* rooms below tr at least an hour.
zombies(tw, tr) == {r \in waiting_rooms : r < tw} \cup {r \in rooms : r < tr}

\* Mutant: only the players who left are erased from connection_map.
swept_disconnected(Z) == UNION {disconnected[r] : r \in Z}

\* The connections the sweep erases from connection_map.
swept(Z) == UNION {playermap[r] \cup disconnected[r] : r \in Z}

\* The sweep every 25 s.
check_zombie_rooms(tw, tr) ==
    LET Z == zombies(tw, tr)
        P == UNION {playermap[r] : r \in Z}
        S == swept(Z)
    IN
    /\ Up
    /\ tr <= tw
    /\ Z # {}
    /\ waiting_rooms' = waiting_rooms \ Z
    /\ rooms' = rooms \ Z
    /\ connection_map' = [c \in Conns |-> IF c \in S THEN NoRoom ELSE connection_map[c]]
    /\ new_connections' = new_connections \ P
    /\ conn' = Kicked(P)
    /\ delete_rooms(Z)
    /\ UNCHANGED <<server, user_data, room_id_counter, refused, view, expired>>

\* The loop has ended: on_network_server_end deletes every room and clears the
\* maps, force_disconnect_all deletes every connection.
on_network_server_end ==
    /\ server = "stopping"
    /\ server' = "stopped"
    /\ waiting_rooms' = {}
    /\ rooms' = {}
    /\ new_connections' = {}
    /\ connection_map' = [c \in Conns |-> NoRoom]
    /\ conn' = [c \in Conns |-> IF Live(c) THEN "gone" ELSE conn[c]]
    /\ delete_rooms(waiting_rooms \cup rooms)
    /\ UNCHANGED <<user_data, room_id_counter, refused, view, expired>>

-----------------------------------------------------------------------------
(* Leaving a room                                                          *)

\* Mutant: one player too few is tolerated.
below_min_by_two(r, P) == Cardinality(P) < config[r].min - 1

\* The negation of is_min_capacity_reached once the players are P.
below_min(r, P) == Cardinality(P) < config[r].min

\* remove_connection of a player of room r that goes on: a waiting room that falls
\* below MIN_PLAYERS loses its countdown, a started one keeps the seat.
player_leaves(c, r, P) ==
    LET below == below_min(r, P) IN
    /\ playermap' = [playermap EXCEPT ![r] = P]
    /\ observed' = [observed EXCEPT ![r] = @ \ {c}]
    /\ count_down' = [count_down EXCEPT ![r] =
                        IF state[r] = "waiting" /\ below THEN 0 ELSE @]
    /\ \/ /\ state[r] \in {"start", "end"} /\ below
          /\ state' = [state EXCEPT ![r] = "end"]
          /\ conn' = [Kicked(P) EXCEPT ![c] = "gone"]
          /\ UNCHANGED disconnected
       \/ /\ ~(state[r] \in {"start", "end"} /\ below)
          /\ disconnected' = [disconnected EXCEPT ![r] =
                                IF state[r] = "waiting" THEN @ ELSE @ \cup {c}]
          /\ conn' = [conn EXCEPT ![c] = "gone"]
          /\ UNCHANGED state
    /\ UNCHANGED <<waiting_rooms, rooms, config, wroom_count, wroom_keys, room_count>>

\* destroy_connection, from a timeout, a packet or a heartbeat purge.  Three cases of
\* onconnection_destroy: no room, a room that goes on, and the last player of a room
\* that has ended or ends now, which deletes the room.
destroy_connection(c) ==
    LET r == connection_map[c]
        P == playermap[r] \ {c}
        last == /\ P = {}
                /\ \/ state[r] = "end"
                   \/ state[r] = "start" /\ c \in playermap[r] /\ below_min(r, P)
    IN
    /\ Up
    /\ Live(c)
    /\ connection_map' = [connection_map EXCEPT ![c] = NoRoom]
    /\ \/ /\ r = NoRoom
          /\ conn' = [conn EXCEPT ![c] = "gone"]
          /\ view' = [view EXCEPT ![c] = {}]
          /\ UNCHANGED <<waiting_rooms, rooms, roomVars, observed,
                         wroom_count, wroom_keys, room_count>>
       \/ /\ r # NoRoom /\ ~last
          /\ IF c \in playermap[r]
             THEN /\ player_leaves(c, r, P)
                  /\ view' = [Told(P, P) EXCEPT ![c] = {}]
             ELSE /\ conn' = [conn EXCEPT ![c] = "gone"]
                  /\ view' = [view EXCEPT ![c] = {}]
                  /\ disconnected' = [disconnected EXCEPT ![r] = @ \ {c}]
                  /\ UNCHANGED <<waiting_rooms, rooms, state, config, playermap, count_down,
                                 observed, wroom_count, wroom_keys, room_count>>
       \/ /\ r # NoRoom /\ last
          /\ conn' = [conn EXCEPT ![c] = "gone"]
          /\ view' = [view EXCEPT ![c] = {}]
          /\ waiting_rooms' = waiting_rooms \ {r}
          /\ rooms' = rooms \ {r}
          /\ delete_rooms({r})
    /\ UNCHANGED <<server, user_data, new_connections, room_id_counter, refused, expired>>

\* The sweep erases the entries of the players of a room, so that of a refused connection
\* outlives its room.  Its next message (get_player) or its end (remove_connection) then reads
\* freed memory: no player is found there, which changes nothing of the rooms, or the
\* process ends.
deleted_room_read(c) ==
    /\ Up
    /\ Live(c)
    /\ connection_map[c] # NoRoom
    /\ state[connection_map[c]] = "deleted"
    /\ server' = "crashed"
    /\ UNCHANGED <<connVars, connection_map, waiting_rooms, rooms, room_id_counter, refused,
                   roomVars, view, observed, redisVars>>

-----------------------------------------------------------------------------
(* The countdown and the Redis notifications                               *)

\* Mutant: the timer fires once more after its count is used up.
armed_once_more(r) == count_down[r] > 0 \/ (count_down[r] = 0 /\ state[r] \in {"start", "end"})

\* count_down_timer is in the room's scheduler and running.
armed(r) == count_down[r] > 0

\* One tick of count_down_timer: the last one starts the room.
countdown_tick(r) ==
    /\ Up
    /\ armed(r)
    /\ count_down' = [count_down EXCEPT ![r] = @ - 1]
    /\ IF count_down[r] > 1
       THEN UNCHANGED <<state, waiting_rooms, rooms, wroom_count, wroom_keys, room_count>>
       ELSE /\ state' = [state EXCEPT ![r] = "start"]
            /\ onroom_pre_start(r, Signature(config[r]), waiting_rooms, wroom_count, wroom_keys)
    /\ UNCHANGED <<server, connVars, connection_map, room_id_counter, refused, config, playermap,
                   disconnected, view, observed, expired>>

waiting_of(s) == {r \in waiting_rooms : Signature(config[r]) = s}

\* Redis drops a "wroom:" key 60 s after its last EXPIRE.  Each room created renews
\* it and a waiting room is swept within 45 s, so none of them waits any more.
redis_expire(s) ==
    /\ Up
    /\ s \in wroom_keys
    /\ waiting_of(s) = {}
    /\ wroom_keys' = wroom_keys \ {s}
    /\ wroom_count' = [wroom_count EXCEPT ![s] = 0]
    /\ expired' = expired \cup {s}
    /\ UNCHANGED <<server, connVars, connection_map, waiting_rooms, rooms,
                   room_id_counter, refused, roomVars, view, observed, room_count>>

\* The notification is handled, possibly after the rooms have changed.
on_qhiredis_async_key_expired(s) ==
    LET count == Cardinality(waiting_of(s)) IN
    /\ Up
    /\ s \in expired
    /\ expired' = expired \ {s}
    /\ wroom_count' = [wroom_count EXCEPT ![s] = @ + count]
    /\ wroom_keys' = IF count > 0 THEN wroom_keys \cup {s} ELSE wroom_keys
    /\ UNCHANGED <<server, connVars, connection_map, waiting_rooms, rooms,
                   room_id_counter, refused, roomVars, view, observed, room_count>>

-----------------------------------------------------------------------------
Next ==
    \/ \E c \in Conns :
         \/ create_conn(c)
         \/ onconnection_connected(c)
         \/ peer_close(c)
         \/ first_hi(c)
         \/ process_shutdown_request(c)
         \/ \E k \in Configs, prev \in Conns \cup {NoConn}, id \in RoomIds \cup {NoRoom} :
              process_match_request(c, k, prev, id)
         \/ destroy_connection(c)
         \/ deleted_room_read(c)
    \/ \E r \in RoomIds : countdown_tick(r)
    \/ \E tw, tr \in 0 .. MaxRooms : check_zombie_rooms(tw, tr)
    \/ \E s \in Signatures : redis_expire(s) \/ on_qhiredis_async_key_expired(s)
    \/ on_network_server_end

Spec == Init /\ [][Next]_vars

\* A closing connection is reaped when quiche's draining timer ends; the sweep is a
\* timer of the loop, and a room that waits gets older than 20 s; ev_break ends the
\* loop.  Nothing is assumed of the clients.
Fairness ==
    /\ \A c \in Conns : WF_vars(conn[c] = "closing" /\ destroy_connection(c))
    /\ \A r \in RoomIds :
         WF_vars(\E tw \in r + 1 .. MaxRooms : check_zombie_rooms(tw, 0))
    /\ WF_vars(on_network_server_end)

FairSpec == Spec /\ Fairness

-----------------------------------------------------------------------------
(* Correctness                                                             *)

\* Every variable keeps its type.
TypeOK ==
    /\ server \in {"running", "stopping", "stopped", "crashed"}
    /\ conn \in [Conns -> ConnStates]
    /\ user_data \in [Conns -> SUBSET {"FIRST_HI_RECEIVED", "ROOM_CONFIG_RECEIVED"}]
    /\ new_connections \in SUBSET Conns
    /\ connection_map \in [Conns -> RoomIds \cup {NoRoom}]
    /\ waiting_rooms \in SUBSET RoomIds
    /\ rooms \in SUBSET RoomIds
    /\ room_id_counter \in 0 .. MaxRooms
    /\ refused \in SUBSET Conns
    /\ state \in [RoomIds -> RoomStates]
    /\ config \in [RoomIds -> [min: Int, max: Int, after: BOOLEAN]]
    /\ playermap \in [RoomIds -> SUBSET Conns]
    /\ disconnected \in [RoomIds -> SUBSET Conns]
    /\ count_down \in [RoomIds -> 0 .. MAX_COUNT_DOWN]
    /\ view \in [Conns -> SUBSET Conns]
    /\ observed \in [RoomIds -> SUBSET Conns]
    /\ wroom_count \in [Signatures -> Int]
    /\ wroom_keys \in SUBSET Signatures
    /\ room_count \in [Signatures -> Int]
    /\ expired \in SUBSET Signatures

\* The two records of who is where agree, and neither dangles: connection_map leads
\* to a room that exists and holds the connection, and every player of a room is a
\* connection still in the table whose entry leads back to that room.  This is
\* what lets onconnection_message, onconnection_destroy and kick_all_except follow
\* their pointers.  The one exception is a connection whose own new room refused it, its max
\* being below 1: do_process_roomjoin ignores the refusal and makes the entry all the same.
MembershipConsistent ==
    /\ \A c \in Conns \ refused :
         connection_map[c] # NoRoom => c \in playermap[connection_map[c]]
    /\ \A r \in RoomIds : \A c \in playermap[r] :
         /\ connection_map[c] = r
         /\ conn[c] \in {"open", "closing"}
         /\ state[r] \in {"waiting", "start", "end"}

\* The list a room is kept in is the one of its state, so that the two assertions of
\* onconnection_destroy hold: a room that ended is not in waiting_rooms any more
\* and is found in rooms.  No room is lost by both lists or kept after its deletion.
ListsMatchState ==
    /\ waiting_rooms = {r \in RoomIds : state[r] = "waiting"}
    /\ rooms = {r \in RoomIds : state[r] \in {"start", "end"}}

\* A started room has its minimum of players, and the seats it keeps for those who
\* left never take it over its maximum: coming back never finds the room full.
SeatsKept ==
    \A r \in RoomIds : state[r] = "start" =>
        /\ Cardinality(playermap[r]) >= config[r].min
        /\ Cardinality(playermap[r]) + Cardinality(disconnected[r]) <= config[r].max

\* count_down_timer is alive only in a waiting room with enough players that is not
\* full: the timer is never left to start a room that fell below its minimum or
\* that started already (the note in room.hpp on the pointer's life).
CountdownSound ==
    \A r \in RoomIds : count_down[r] > 0 =>
        /\ state[r] = "waiting"
        /\ Cardinality(playermap[r]) \in config[r].min .. config[r].max - 1

\* A room of configuration k lets somebody in and can start.
Startable(k) == k.max >= 1 /\ k.min <= k.max

\* Of the waiting rooms only one can ever start: it always takes one more player, so no
\* second one is opened beside it, whatever configurations are asked for.  Rooms that admit
\* nobody, or fewer than their minimum, may wait beside it until they are swept.
OneWaitingRoom ==
    Cardinality({r \in waiting_rooms : Startable(config[r])}) <= 1

\* The roster a client has from the last player event is the playermap of its room.
RosterAgreement ==
    \A r \in RoomIds : \A c \in playermap[r] : conn[c] = "open" => view[c] = playermap[r]

\* Every player_added the observer was told of is matched by a player_removed by the
\* time the player, or the whole room, is gone.
ObserverBalanced ==
    \A r \in RoomIds : observed[r] = playermap[r]

\* "room:<signature>" counts the started rooms of that signature.
RoomCountExact ==
    \A s \in Signatures :
        room_count[s] = Cardinality({r \in rooms : Signature(config[r]) = s})

\* "wroom:<signature>" never hides a waiting room.
WaitingCountCovers ==
    \A s \in Signatures : wroom_count[s] >= Cardinality(waiting_of(s))

-----------------------------------------------------------------------------
(* What makes these invariants inductive                                   *)

\* A connection that has not asked for a room is not placed in one.
FreshUnplaced ==
    \A c \in Conns :
        "ROOM_CONFIG_RECEIVED" \notin user_data[c] => connection_map[c] = NoRoom

\* ROOM_IDs are handed out in order.
IdsInOrder == \A r \in RoomIds : r < room_id_counter <=> state[r] # "none"

\* Rooms in use have a configuration some client asked for.
ConfigsAsked ==
    \A r \in RoomIds : state[r] \in {"waiting", "start", "end"} => config[r] \in Configs

\* Seats are kept by started rooms, for connections that are gone.
SeatsOfTheGone ==
    \A r \in RoomIds : \A c \in disconnected[r] :
        conn[c] = "gone" /\ state[r] \in {"start", "end"}

\* A refused connection has used up its request, and its room stays empty until it is deleted.
RefusedNowhere ==
    \A c \in refused :
        /\ "ROOM_CONFIG_RECEIVED" \in user_data[c]
        /\ \/ connection_map[c] = NoRoom
           \/ state[connection_map[c]] = "deleted"
           \/ state[connection_map[c]] = "waiting" /\ config[connection_map[c]].max < 1

IndInv ==
    /\ TypeOK
    /\ RefusedNowhere
    /\ FreshUnplaced
    /\ IdsInOrder
    /\ ConfigsAsked
    /\ SeatsOfTheGone
    /\ MembershipConsistent
    /\ ListsMatchState
    /\ SeatsKept
    /\ CountdownSound

Rank(s) == CASE s = "none" -> 0 [] s = "waiting" -> 1 [] s = "start" -> 2
             [] s = "end" -> 3 [] s = "deleted" -> 4

\* A room only moves forward (created, waiting, started, ended, deleted): no late
\* countdown tick, join or sweep takes it back or revives it.
RoomMovesForward ==
    [][\A r \in RoomIds : Rank(state'[r]) >= Rank(state[r])]_vars

\* Whoever enters a started room takes the seat of a player who left it.
OnlyReturnsAfterStart ==
    [][\A r \in RoomIds : state[r] = "start" =>
         \A c \in playermap'[r] \ playermap[r] :
            \E p \in disconnected[r] : disconnected'[r] = disconnected[r] \ {p}]_vars

\* A room that ended is deleted: everyone in it was kicked.  The exception is a process
\* that ended first, over the deleted room of a refused connection.
EndedRoomDeleted ==
    \A r \in RoomIds : state[r] = "end" ~> state[r] = "deleted" \/ server = "crashed"

\* No room waits for ever, one that refused its first player included.  The exception is
\* again a process that ended over a deleted room.
WaitingRoomResolves ==
    \A r \in RoomIds : state[r] = "waiting" ~> state[r] # "waiting" \/ server = "crashed"

\* Every step of the server is a step of the service it promises, or none.
Service == INSTANCE RoomService WITH
    Players <- Conns, Rooms <- RoomIds, Limits <- Configs,
    phase <- state, limits <- config, members <- playermap, seats <- disconnected

ImplementsService == Service!ServiceSpec
====
