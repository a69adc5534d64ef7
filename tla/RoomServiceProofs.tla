-------------------------- MODULE RoomServiceProofs --------------------------
(***************************************************************************)
(* RoomServer implements RoomService, and what follows from it; the rosters *)
(* of clients and the players the observer knows of.                       *)
(***************************************************************************)
EXTENDS RoomServerProofs

\* A room that ended has fewer players than its minimum, and gets no new ones.
EndedBelowMin ==
    \A r \in RoomIds : state[r] = "end" => Cardinality(playermap[r]) < config[r].min

USE DEF connVars, roomVars, redisVars

\* The inductive invariant with what the players' and the observer's events say.
EventInv == IndInv /\ EndedBelowMin /\ ObserverBalanced /\ RosterAgreement

-----------------------------------------------------------------------------
(* What the callbacks do                                                   *)

\* A request that finds no room finds no waiting room that would take one more player: the way
\* back to a started room is never barred.
LEMMA NoRoomFound ==
    ASSUME IndInv, NEW c \in Conns, connection_map[c] = NoRoom,
           NEW prev, NEW id \in RoomIds \cup {NoRoom}, room_for(c, prev, id) = NoRoom
    PROVE  \A q \in waiting_rooms : Cardinality(playermap[q]) >= config[q].max
<1> DEFINE back == previous_room(prev, id)
           fits == {q \in waiting_rooms : Accepts(q, c, NoConn)}
<1>1. NoRoom = IF back # NoRoom
               THEN IF Accepts(back, c, prev) THEN back ELSE NoRoom
               ELSE IF fits = {} THEN NoRoom ELSE CHOOSE q \in fits : \A p \in fits : q <= p
  BY DEF room_for
<1>2. \A q \in RoomIds : c \notin playermap[q]
  BY RoomIdsFacts DEF IndInv, MembershipConsistent
<1>3. \A q \in RoomIds : Cardinality(playermap[q]) \in Nat /\ config[q].max \in Int
  <2> TAKE q \in RoomIds
  <2>1. playermap[q] \in SUBSET Conns /\ config[q] \in [min: Int, max: Int, after: BOOLEAN]
    BY DEF IndInv, TypeOK
  <2> QED
    BY <2>1, PlayersFinite
<1>4. back = NoRoom
  <2> SUFFICES ASSUME back # NoRoom PROVE FALSE
    OBVIOUS
  <2>1. back = id /\ id \in rooms /\ state[id] # "end" /\ prev \in disconnected[id]
    BY DEF previous_room
  <2>2. id \in RoomIds /\ state[id] = "start"
    BY <2>1 DEF IndInv, TypeOK, ListsMatchState
  <2>3. Cardinality(disconnected[id]) \in Nat \ {0}
    <3>1. disconnected[id] \in SUBSET Conns /\ disconnected[id] # {}
      BY <2>1, <2>2 DEF IndInv, TypeOK
    <3> QED
      BY <3>1, PlayersFinite
  <2>4. Cardinality(playermap[id]) + Cardinality(disconnected[id]) <= config[id].max
    BY <2>2 DEF IndInv, SeatsKept
  <2>5. Cardinality(playermap[id]) < config[id].max
    BY <1>3, <2>2, <2>3, <2>4
  <2>6. Accepts(id, c, prev)
    BY <1>2, <2>1, <2>2, <2>5 DEF Accepts, can_allow_reconnection
  <2> QED
    BY <1>1, <2>1, <2>6
<1>5. fits = {}
  <2> SUFFICES ASSUME fits # {} PROVE FALSE
    OBVIOUS
  <2>1. NoRoom = room_for(c, prev, id)
    OBVIOUS
  <2>2. \E q \in fits : \A p \in fits : q <= p
    BY LeastRoom DEF IndInv, TypeOK
  <2>3. NoRoom \in fits
    BY <1>1, <1>4, <2>2
  <2> QED
    BY <2>3, RoomIdsFacts DEF IndInv, TypeOK
<1> QED
  <2> TAKE q \in waiting_rooms
  <2>1. q \in RoomIds /\ state[q] = "waiting" /\ ~Accepts(q, c, NoConn)
    BY <1>5 DEF IndInv, TypeOK, ListsMatchState
  <2>2. NoConn \notin disconnected[q]
    BY <2>1 DEF IndInv, SeatsOfTheGone
  <2> QED
    BY <1>2, <1>3, <2>1, <2>2 DEF Accepts

\* The four outcomes of a match request: a room is opened, with the player or, where it admits
\* nobody, without; a waiting room is entered; a kept seat is taken.
OpensRoom(c, k, r) ==
    /\ r = room_id_counter /\ state[r] = "none" /\ playermap[r] = {} /\ k.max >= 1
    /\ \A q \in waiting_rooms : Cardinality(playermap[q]) >= config[q].max
    /\ room_id_counter' = r + 1
    /\ config' = [config EXCEPT ![r] = k]
    /\ add_player(c, r, k, NoConn, waiting_rooms \cup {r}, wroom_count_created(Signature(k)),
                  wroom_keys \cup {Signature(k)})

OpensEmpty(k, r) ==
    /\ r = room_id_counter /\ state[r] = "none" /\ k.max < 1
    /\ \A q \in waiting_rooms : Cardinality(playermap[q]) >= config[q].max
    /\ room_id_counter' = r + 1
    /\ config' = [config EXCEPT ![r] = k]
    /\ state' = [state EXCEPT ![r] = "waiting"]
    /\ waiting_rooms' = waiting_rooms \cup {r}
    /\ wroom_count' = wroom_count_created(Signature(k))
    /\ UNCHANGED <<playermap, disconnected, view, observed, rooms, room_count>>

EntersRoom(c, r) ==
    /\ state[r] = "waiting" /\ r \in waiting_rooms
    /\ Cardinality(playermap[r]) < config[r].max
    /\ add_player(c, r, config[r], NoConn, waiting_rooms, wroom_count, wroom_keys)
    /\ UNCHANGED <<room_id_counter, config>>

TakesSeat(c, r, prev) ==
    /\ state[r] = "start" /\ prev \in disconnected[r]
    /\ Cardinality(playermap[r]) < config[r].max
    /\ add_player(c, r, config[r], prev, waiting_rooms, wroom_count, wroom_keys)
    /\ UNCHANGED <<room_id_counter, config>>

\* A match request has one of these outcomes.
LEMMA MatchCases ==
    ASSUME IndInv, NEW c \in Conns, NEW k \in Configs, NEW prev,
           NEW id \in RoomIds \cup {NoRoom}, process_match_request(c, k, prev, id)
    PROVE  /\ conn[c] = "open" /\ conn' = conn /\ expired' = expired
           /\ \A q \in RoomIds : c \notin playermap[q] /\ c \notin disconnected[q]
           /\ \E r \in RoomIds : \/ OpensRoom(c, k, r) \/ OpensEmpty(k, r)
                                \/ EntersRoom(c, r) \/ TakesSeat(c, r, prev)
<1>1. conn[c] = "open" /\ connection_map[c] = NoRoom
  BY DEF process_match_request, Unmatched, IndInv, FreshUnplaced
<1>2. \A q \in RoomIds : c \notin playermap[q] /\ c \notin disconnected[q]
  BY <1>1, RoomIdsFacts DEF IndInv, MembershipConsistent, SeatsOfTheGone
<1>3. CASE room_for(c, prev, id) # NoRoom
  <2> DEFINE r == room_for(c, prev, id)
  <2>1. join_room(c, r, prev)
    BY <1>1, <1>3 DEF process_match_request, already_in_room
  <2>2. /\ r \in RoomIds
        /\ Cardinality(playermap[r]) < config[r].max
        /\ \/ r \in waiting_rooms
           \/ state[r] = "start" /\ prev \in disconnected[r]
    BY <1>1, <1>3, RoomFound
  <2> HIDE DEF r
  <2>3. CASE r \in waiting_rooms
    <3>1. state[r] = "waiting"
      BY <2>3 DEF IndInv, ListsMatchState
    <3>2. EntersRoom(c, r)
      BY <2>1, <2>2, <2>3, <3>1 DEF EntersRoom, join_room
    <3> QED
      BY <2>2, <3>2, <1>1, <1>2 DEF process_match_request
  <2>4. CASE r \notin waiting_rooms
    <3>1. TakesSeat(c, r, prev)
      BY <2>1, <2>2, <2>4 DEF TakesSeat, join_room
    <3> QED
      BY <2>2, <3>1, <1>1, <1>2 DEF process_match_request
  <2> QED
    BY <2>3, <2>4
<1>4. CASE room_for(c, prev, id) = NoRoom
  <2> DEFINE r == room_id_counter
  <2>1. join_new_room(c, k)
    BY <1>1, <1>4 DEF process_match_request, already_in_room
  <2>2. r \in RoomIds /\ k.max \in Int
    <3>1. r \in 0 .. MaxRooms /\ r < MaxRooms
      BY <2>1 DEF join_new_room, IndInv, TypeOK
    <3> QED
      BY <3>1, RoomIdsFacts, ConfigsAssumption
  <2>3. state[r] = "none" /\ playermap[r] = {}
    BY <2>2 DEF IndInv, TypeOK, IdsInOrder, MembershipConsistent
  <2>4. \A q \in waiting_rooms : Cardinality(playermap[q]) >= config[q].max
    BY <1>1, <1>4, NoRoomFound
  <2>5. CASE 0 < k.max
    <3>1. OpensRoom(c, k, r)
      BY <2>1, <2>2, <2>3, <2>4, <2>5 DEF OpensRoom, join_new_room
    <3> QED
      BY <2>2, <3>1, <1>1, <1>2 DEF process_match_request
  <2>6. CASE ~(0 < k.max)
    <3>1. OpensEmpty(k, r)
      BY <2>1, <2>2, <2>3, <2>4, <2>6 DEF OpensEmpty, join_new_room
    <3> QED
      BY <2>2, <3>1, <1>1, <1>2 DEF process_match_request
  <2> QED
    BY <2>5, <2>6
<1> QED
  BY <1>3, <1>4

\* The three ways a connection ends, for the rooms and those in them.
LeavesNoRoom(c) ==
    /\ \A q \in RoomIds : c \notin playermap[q]
    /\ conn' = [conn EXCEPT ![c] = "gone"]
    /\ view' = [view EXCEPT ![c] = {}]
    /\ UNCHANGED <<waiting_rooms, rooms, roomVars, observed, wroom_count, wroom_keys, room_count>>

LeavesBehind(c, r, P) ==
    /\ ~(P = {} /\ (state[r] = "end" \/ (state[r] = "start" /\ below_min(r, P))))
    /\ player_leaves(c, r, P)
    /\ view' = [Told(P, P) EXCEPT ![c] = {}]

LeavesLast(c, r) ==
    /\ playermap[r] = {c}
    /\ conn' = [conn EXCEPT ![c] = "gone"]
    /\ view' = [view EXCEPT ![c] = {}]
    /\ waiting_rooms' = waiting_rooms \ {r}
    /\ rooms' = rooms \ {r}
    /\ delete_rooms({r})

LEMMA DestroyCases ==
    ASSUME IndInv, NEW c \in Conns, destroy_connection(c)
    PROVE  /\ Live(c) /\ expired' = expired /\ room_id_counter' = room_id_counter
           /\ \/ LeavesNoRoom(c)
              \/ \E r \in RoomIds :
                   /\ c \in playermap[r]
                   /\ LeavesBehind(c, r, playermap[r] \ {c}) \/ LeavesLast(c, r)
<1>1. Live(c) /\ expired' = expired /\ room_id_counter' = room_id_counter
  BY DEF destroy_connection
<1>2. CASE connection_map[c] = NoRoom \/ c \notin playermap[connection_map[c]]
  BY <1>1, <1>2, DestroyOutside DEF LeavesNoRoom
<1>3. CASE connection_map[c] # NoRoom /\ c \in playermap[connection_map[c]]
  <2> DEFINE r == connection_map[c]
             P == playermap[r] \ {c}
             last == /\ P = {}
                     /\ \/ state[r] = "end"
                        \/ state[r] = "start" /\ c \in playermap[r] /\ below_min(r, P)
  <2>1. r \in RoomIds /\ c \in playermap[r]
    BY <1>3 DEF IndInv, TypeOK
  <2>2. CASE last
    <3>1. LeavesLast(c, r)
      BY <1>3, <2>1, <2>2 DEF destroy_connection, LeavesLast
    <3> QED
      BY <1>1, <2>1, <3>1
  <2>3. CASE ~last
    <3>1. LeavesBehind(c, r, P)
      BY <1>3, <2>1, <2>3 DEF destroy_connection, LeavesBehind
    <3> QED
      BY <1>1, <2>1, <3>1
  <2> QED
    BY <2>2, <2>3
<1> QED
  BY <1>2, <1>3

-----------------------------------------------------------------------------
(* Players, observer and rosters                                           *)

\* Whoever enters is reported to the observer and to everyone in the room.
LEMMA EntryEvents ==
    ASSUME EventInv, NEW c \in Conns, \A q \in RoomIds : c \notin playermap[q],
           NEW r \in RoomIds, state[r] \in {"none", "waiting", "start"},
           NEW k, NEW p, NEW wr, NEW wc, NEW wk, add_player(c, r, k, p, wr, wc, wk),
           conn' = conn, \A q \in RoomIds \ {r} : config'[q] = config[q]
    PROVE  EndedBelowMin' /\ ObserverBalanced' /\ RosterAgreement'
<1> DEFINE P == playermap[r] \cup {c}
<1>1. /\ playermap' = [playermap EXCEPT ![r] = P]
      /\ observed' = [observed EXCEPT ![r] = @ \cup {c}]
      /\ view' = Told(P, P)
      /\ \A q \in RoomIds \ {r} : state'[q] = state[q]
      /\ state'[r] # "end"
  BY DEF add_player, EventInv, IndInv, TypeOK
<1>2. EndedBelowMin'
  BY <1>1 DEF EndedBelowMin, EventInv, IndInv, TypeOK
<1>3. ObserverBalanced'
  BY <1>1 DEF ObserverBalanced, EventInv, IndInv, TypeOK
<1>4. RosterAgreement'
  <2> SUFFICES ASSUME NEW q \in RoomIds, NEW d \in playermap'[q], conn[d] = "open"
               PROVE  view'[d] = playermap'[q]
    BY DEF RosterAgreement
  <2>1. CASE q = r
    <3>1. playermap'[q] = P /\ d \in P /\ d \in Conns
      BY <1>1, <2>1 DEF EventInv, IndInv, TypeOK
    <3> QED
      BY <1>1, <3>1 DEF Told
  <2>2. CASE q # r
    <3>1. playermap'[q] = playermap[q] /\ d \in playermap[q] /\ d \in Conns /\ d # c
      BY <1>1, <2>2 DEF EventInv, IndInv, TypeOK
    <3>2. d \notin P
      BY <2>2, <3>1 DEF EventInv, IndInv, MembershipConsistent
    <3> QED
      BY <1>1, <3>1, <3>2 DEF Told, EventInv, RosterAgreement
  <2> QED
    BY <2>1, <2>2
<1> QED
  BY <1>2, <1>3, <1>4

\* Whoever leaves others behind is reported to them, unless they are all kicked.
LEMMA ExitEvents ==
    ASSUME EventInv, NEW c \in Conns, NEW r \in RoomIds, c \in playermap[r],
           LeavesBehind(c, r, playermap[r] \ {c})
    PROVE  EndedBelowMin' /\ ObserverBalanced' /\ RosterAgreement'
<1> DEFINE P == playermap[r] \ {c}
           ends == state[r] \in {"start", "end"} /\ below_min(r, P)
<1>1. /\ playermap' = [playermap EXCEPT ![r] = P]
      /\ observed' = [observed EXCEPT ![r] = @ \ {c}]
      /\ view' = [Told(P, P) EXCEPT ![c] = {}]
      /\ config' = config
      /\ \/ /\ ends
            /\ state' = [state EXCEPT ![r] = "end"]
            /\ conn' = [Kicked(P) EXCEPT ![c] = "gone"]
         \/ /\ ~ends
            /\ state' = state
            /\ conn' = [conn EXCEPT ![c] = "gone"]
  BY DEF LeavesBehind, player_leaves
<1>2. /\ \A q \in RoomIds : c \in playermap[q] => q = r
      /\ playermap[r] \subseteq Conns /\ P \subseteq Conns
  BY DEF EventInv, IndInv, TypeOK, MembershipConsistent
<1>3. EndedBelowMin'
  <2> SUFFICES ASSUME NEW q \in RoomIds, state'[q] = "end"
               PROVE  Cardinality(playermap'[q]) < config[q].min
    BY <1>1 DEF EndedBelowMin
  <2>1. CASE q # r
    BY <1>1, <2>1 DEF EventInv, IndInv, TypeOK, EndedBelowMin
  <2>2. CASE q = r /\ ends
    BY <1>1, <2>2 DEF EventInv, IndInv, TypeOK, below_min
  <2>3. CASE q = r /\ ~ends
    <3>1. state[r] = "end" /\ playermap'[r] = P
      BY <1>1, <2>3 DEF EventInv, IndInv, TypeOK
    <3>2. Cardinality(playermap[r]) < config[r].min
      BY <3>1 DEF EventInv, EndedBelowMin
    <3>3. Cardinality(P) = Cardinality(playermap[r]) - 1 /\ Cardinality(playermap[r]) \in Nat
      BY <1>2, PlayersRemove, PlayersFinite
    <3>4. config[r].min \in Int
      BY DEF EventInv, IndInv, TypeOK
    <3> QED
      BY <2>3, <3>1, <3>2, <3>3, <3>4
  <2> QED
    BY <2>1, <2>2, <2>3
<1>4. ObserverBalanced'
  BY <1>1 DEF ObserverBalanced, EventInv, IndInv, TypeOK
<1>5. RosterAgreement'
  <2> SUFFICES ASSUME NEW q \in RoomIds, NEW d \in playermap'[q], conn'[d] = "open"
               PROVE  view'[d] = playermap'[q]
    BY DEF RosterAgreement
  <2>1. d \in Conns /\ d \in playermap[q] /\ d # c
    BY <1>1, <1>2 DEF EventInv, IndInv, TypeOK
  <2>2. conn[d] = "open" /\ ~(ends /\ d \in P)
    BY <1>1, <2>1 DEF Kicked, EventInv, IndInv, TypeOK
  <2>3. view'[d] = IF d \in P THEN P ELSE view[d]
    BY <1>1, <2>1, <2>2 DEF Told
  <2>4. CASE q = r
    BY <1>1, <2>1, <2>3, <2>4 DEF EventInv, IndInv, TypeOK
  <2>5. CASE q # r
    <3>1. d \notin P
      BY <2>1, <2>5 DEF EventInv, IndInv, MembershipConsistent
    <3> QED
      BY <1>1, <2>1, <2>2, <2>3, <2>5, <3>1 DEF EventInv, IndInv, TypeOK, RosterAgreement
  <2> QED
    BY <2>4, <2>5
<1> QED
  BY <1>3, <1>4, <1>5

\* A deleted room reports the players it still had; no connection becomes open.
LEMMA DeletionEvents ==
    ASSUME EventInv, NEW Z \in SUBSET (waiting_rooms \cup rooms), delete_rooms(Z),
           \A r \in RoomIds \ Z : \A d \in playermap[r] :
              /\ conn'[d] = "open" => conn[d] = "open"
              /\ view'[d] = view[d]
    PROVE  EndedBelowMin' /\ ObserverBalanced' /\ RosterAgreement'
<1>1. /\ \A r \in Z : state'[r] = "deleted" /\ playermap'[r] = {}
      /\ \A r \in RoomIds \ Z :
           state'[r] = state[r] /\ config'[r] = config[r] /\ playermap'[r] = playermap[r]
  BY DeleteRooms DEF EventInv
<1>2. observed' = [r \in RoomIds |->
                     IF r \in Z THEN observed[r] \ playermap[r] ELSE observed[r]]
  BY DEF delete_rooms, observed_after_delete
<1>3. EndedBelowMin'
  BY <1>1 DEF EventInv, EndedBelowMin
<1>4. ObserverBalanced'
  BY <1>1, <1>2 DEF EventInv, ObserverBalanced
<1>5. RosterAgreement'
  BY <1>1 DEF EventInv, RosterAgreement
<1> QED
  BY <1>3, <1>4, <1>5

\* Steps that move no player between rooms and open no player's connection.
LEMMA QuietEvents ==
    ASSUME EventInv,
           UNCHANGED <<playermap, config, observed, view>>,
           \A r \in RoomIds : state'[r] = "end" => state[r] = "end",
           \A r \in RoomIds : \A d \in playermap[r] : conn'[d] = "open" => conn[d] = "open"
    PROVE  EndedBelowMin' /\ ObserverBalanced' /\ RosterAgreement'
BY DEF EventInv, EndedBelowMin, ObserverBalanced, RosterAgreement

\* Every step keeps the invariant.
LEMMA EventStep ==
    ASSUME EventInv, [Next]_vars
    PROVE  EventInv'
<1>0. IndInv /\ IndInv'
  BY NextIndInv DEF EventInv
<1> DEFINE Events == EndedBelowMin' /\ ObserverBalanced' /\ RosterAgreement'
<1>1. ASSUME NEW c \in Conns,
             \/ create_conn(c) \/ onconnection_connected(c) \/ peer_close(c)
             \/ first_hi(c) \/ process_shutdown_request(c)
      PROVE  Events
  <2>1. \A r \in RoomIds : \A d \in playermap[r] : d \in Conns /\ conn[d] # "handshake"
    <3>1. \A r \in RoomIds : playermap[r] \subseteq Conns
      BY <1>0 DEF IndInv, TypeOK
    <3>2. \A r \in RoomIds : \A d \in playermap[r] : conn[d] \in {"open", "closing"}
      BY <1>0 DEF IndInv, MembershipConsistent
    <3> QED
      BY <3>1, <3>2
  <2>2. \A d \in Conns : conn'[d] = "open" => conn[d] \in {"open", "handshake"}
    BY <1>0, <1>1 DEF create_conn, onconnection_connected, peer_close, first_hi,
                      process_shutdown_request, IndInv, TypeOK
  <2>3. UNCHANGED <<playermap, config, observed, view, state>>
    BY <1>1 DEF create_conn, onconnection_connected, peer_close, first_hi,
                process_shutdown_request
  <2> QED
    BY <2>1, <2>2, <2>3, QuietEvents
<1>2. ASSUME NEW c \in Conns, NEW k \in Configs, NEW prev \in Conns \cup {NoConn},
             NEW id \in RoomIds \cup {NoRoom}, process_match_request(c, k, prev, id)
      PROVE  Events
  <2>1. /\ conn' = conn /\ \A q \in RoomIds : c \notin playermap[q]
        /\ \E r \in RoomIds : \/ OpensRoom(c, k, r) \/ OpensEmpty(k, r)
                             \/ EntersRoom(c, r) \/ TakesSeat(c, r, prev)
    BY <1>0, <1>2, MatchCases
  <2>2. PICK r \in RoomIds : \/ OpensRoom(c, k, r) \/ OpensEmpty(k, r)
                            \/ EntersRoom(c, r) \/ TakesSeat(c, r, prev)
    BY <2>1
  <2>3. CASE OpensRoom(c, k, r)
    <3>1. \A q \in RoomIds \ {r} : config'[q] = config[q]
      BY <1>0, <2>3 DEF OpensRoom, IndInv, TypeOK
    <3> QED
      BY <2>1, <2>3, <3>1, EntryEvents DEF OpensRoom
  <2>4. CASE EntersRoom(c, r)
    BY <2>1, <2>4, EntryEvents DEF EntersRoom
  <2>5. CASE TakesSeat(c, r, prev)
    BY <2>1, <2>5, EntryEvents DEF TakesSeat
  <2>6. CASE OpensEmpty(k, r)
    <3>1. /\ UNCHANGED <<playermap, observed, view>>
          /\ state'[r] = "waiting"
          /\ \A q \in RoomIds \ {r} : config'[q] = config[q] /\ state'[q] = state[q]
      BY <1>0, <2>6 DEF OpensEmpty, IndInv, TypeOK
    <3> QED
      BY <2>1, <3>1 DEF EventInv, EndedBelowMin, ObserverBalanced, RosterAgreement
  <2> QED
    BY <2>2, <2>3, <2>4, <2>5, <2>6
<1>3. ASSUME NEW c \in Conns, destroy_connection(c)
      PROVE  Events
  <2>1. \/ LeavesNoRoom(c)
        \/ \E r \in RoomIds : /\ c \in playermap[r]
                              /\ LeavesBehind(c, r, playermap[r] \ {c}) \/ LeavesLast(c, r)
    BY <1>0, <1>3, DestroyCases
  <2>2. CASE LeavesNoRoom(c)
    <3>1. \A q \in RoomIds : \A d \in playermap[q] : d \in Conns /\ d # c
      BY <1>0, <2>2 DEF LeavesNoRoom, IndInv, TypeOK
    <3>2. /\ UNCHANGED <<playermap, config, observed, state>>
          /\ \A d \in Conns \ {c} : conn'[d] = conn[d] /\ view'[d] = view[d]
      BY <1>0, <2>2 DEF LeavesNoRoom, IndInv, TypeOK
    <3> QED
      BY <3>1, <3>2 DEF EventInv, EndedBelowMin, ObserverBalanced, RosterAgreement
  <2>3. ASSUME NEW r \in RoomIds, c \in playermap[r], LeavesBehind(c, r, playermap[r] \ {c})
        PROVE  Events
    BY <2>3, ExitEvents
  <2>4. ASSUME NEW r \in RoomIds, c \in playermap[r], LeavesLast(c, r)
        PROVE  Events
    <3>1. {r} \in SUBSET (waiting_rooms \cup rooms)
      BY <1>0, <2>4 DEF IndInv, ListsMatchState, MembershipConsistent
    <3>2. \A q \in RoomIds \ {r} : \A d \in playermap[q] : d \in Conns /\ d # c
      BY <1>0, <2>4 DEF IndInv, TypeOK, MembershipConsistent
    <3>3. \A d \in Conns \ {c} : conn'[d] = conn[d] /\ view'[d] = view[d]
      BY <1>0, <2>4 DEF LeavesLast, IndInv, TypeOK
    <3>4. delete_rooms({r})
      BY <2>4 DEF LeavesLast
    <3> QED
      BY <3>1, <3>2, <3>3, <3>4, DeletionEvents
  <2> QED
    BY <2>1, <2>2, <2>3, <2>4
<1>4. ASSUME NEW r \in RoomIds, countdown_tick(r)
      PROVE  Events
  <2>1. UNCHANGED <<playermap, config, observed, view, conn>>
    BY <1>4 DEF countdown_tick
  <2>2. \A q \in RoomIds : state'[q] = "end" => state[q] = "end"
    BY <1>0, <1>4 DEF countdown_tick, IndInv, TypeOK
  <2> QED
    BY <2>1, <2>2, QuietEvents
<1>5. ASSUME NEW tw \in 0 .. MaxRooms, NEW tr \in 0 .. MaxRooms, check_zombie_rooms(tw, tr)
      PROVE  Events
  <2> DEFINE Z == zombies(tw, tr)
             P == UNION {playermap[r] : r \in Z}
  <2>1. Z \in SUBSET (waiting_rooms \cup rooms)
    BY DEF zombies
  <2>2. delete_rooms(Z) /\ conn' = Kicked(P) /\ view' = view
    BY <1>5 DEF check_zombie_rooms
  <2> HIDE DEF Z, P
  <2>3. \A d \in Conns : conn'[d] = "open" => conn[d] = "open"
    BY <2>2 DEF Kicked
  <2>4. \A q \in RoomIds : playermap[q] \subseteq Conns
    BY <1>0 DEF IndInv, TypeOK
  <2> QED
    BY <2>1, <2>2, <2>3, <2>4, DeletionEvents
<1>6. ASSUME NEW s \in Signatures, redis_expire(s) \/ on_qhiredis_async_key_expired(s)
      PROVE  Events
  BY <1>6, QuietEvents DEF redis_expire, on_qhiredis_async_key_expired
<1>7. ASSUME on_network_server_end
      PROVE  Events
  <2>1. view' = view
    BY <1>7 DEF on_network_server_end
  <2>2. \A d \in Conns : conn'[d] = "open" => conn[d] = "open"
    BY <1>7 DEF on_network_server_end, Live
  <2>3. \A q \in RoomIds : playermap[q] \subseteq Conns
    BY <1>0 DEF IndInv, TypeOK
  <2> DEFINE Z == waiting_rooms \cup rooms
  <2>4. Z \in SUBSET (waiting_rooms \cup rooms) /\ delete_rooms(Z)
    BY <1>7 DEF on_network_server_end
  <2> HIDE DEF Z
  <2>5. \A r \in RoomIds \ Z : \A d \in playermap[r] :
          /\ conn'[d] = "open" => conn[d] = "open"
          /\ view'[d] = view[d]
    BY <2>1, <2>2, <2>3
  <2> QED
    BY <2>4, <2>5, DeletionEvents
<1>8. ASSUME UNCHANGED vars
      PROVE  Events
  <2>1. UNCHANGED <<playermap, config, observed, view, state, conn>>
    BY <1>8 DEF vars
  <2> QED
    BY <2>1, QuietEvents
<1>9. ASSUME NEW c \in Conns, deleted_room_read(c)
      PROVE  Events
  BY <1>9, QuietEvents DEF deleted_room_read
<1> HIDE DEF Events
<1>10. Events
  BY <1>1, <1>2, <1>3, <1>4, <1>5, <1>6, <1>7, <1>8, <1>9 DEF Next
<1> QED
  BY <1>0, <1>10 DEF EventInv, Events

\* The invariant holds in every reachable state.
THEOREM EventsInductive == Spec => []EventInv
<1>1. Init => EventInv
  <2> SUFFICES ASSUME Init PROVE EventInv
    OBVIOUS
  <2>1. IndInv
    BY InitIndInv
  <2>2. EndedBelowMin /\ ObserverBalanced /\ RosterAgreement
    BY DEF Init, EndedBelowMin, ObserverBalanced, RosterAgreement
  <2> QED
    BY <2>1, <2>2 DEF EventInv
<1>2. EventInv /\ [Next]_vars => EventInv'
  BY EventStep
<1> QED
  BY <1>1, <1>2, PTL DEF Spec

\* The observer of a room has been told of exactly the players in it: of every one that
\* entered, and of every one that left by any way, a deletion of the room included.
THEOREM Observer == Spec => []ObserverBalanced
<1>1. EventInv => ObserverBalanced
  BY DEF EventInv
<1> QED
  BY <1>1, EventsInductive, PTL

\* A client that can still be reached has the roster of its room.
THEOREM Rosters == Spec => []RosterAgreement
<1>1. EventInv => RosterAgreement
  BY DEF EventInv
<1> QED
  BY <1>1, EventsInductive, PTL

-----------------------------------------------------------------------------
(* The server implements the service                                       *)

\* The service counts players the way the server does.
LEMMA SameCount ==
    ASSUME NEW S PROVE Service!Cardinality(S) = Cardinality(S)
BY DEF Service!Cardinality, Cardinality

\* A request that opens a room.
LEMMA OpenIsService ==
    ASSUME IndInv, NEW c \in Conns, NEW k \in Configs, NEW r \in RoomIds,
           \A q \in RoomIds : c \notin playermap[q], OpensRoom(c, k, r)
    PROVE  Service!Open(r, c, k)
<1> DEFINE n == Cardinality({c})
<1>1. n = 1 /\ {} \cup {c} = {c}
  BY FS_Singleton
<1>2. playermap' = [playermap EXCEPT ![r] = {c}]
  BY <1>1 DEF OpensRoom, add_player
<1>3. state' = [state EXCEPT ![r] = IF n = k.max /\ n >= k.min THEN "start" ELSE "waiting"]
  <2>1. playermap[r] \cup {c} = {c} /\ state[r] = "none"
    BY <1>1 DEF OpensRoom
  <2> QED
    BY <2>1 DEF OpensRoom, add_player
<1>4. disconnected' = disconnected
  <2>1. NoConn \notin disconnected[r]
    BY ConnsAssumption DEF IndInv, TypeOK
  <2> QED
    BY <2>1 DEF OpensRoom, add_player, IndInv, TypeOK
<1> QED
  BY <1>1, <1>2, <1>3, <1>4 DEF OpensRoom, Service!Open, Service!Nowhere, Service!PhaseWith

\* A request that opens a room that admits nobody.
LEMMA OpenEmptyIsService ==
    ASSUME NEW k \in Configs, NEW r \in RoomIds, OpensEmpty(k, r)
    PROVE  Service!OpenEmpty(r, k)
BY DEF OpensEmpty, Service!OpenEmpty

\* A request that finds a waiting room.
LEMMA EnterIsService ==
    ASSUME IndInv, NEW c \in Conns, NEW r \in RoomIds,
           \A q \in RoomIds : c \notin playermap[q], EntersRoom(c, r)
    PROVE  Service!Enter(r, c)
<1> DEFINE P == playermap[r] \cup {c}
           n == Cardinality(P)
           k == config[r]
<1>1. /\ n = Cardinality(playermap[r]) + 1 /\ Cardinality(playermap[r]) \in Nat
      /\ k.max \in Int /\ k.min \in Int
  <2>1. playermap[r] \in SUBSET Conns /\ k \in [min: Int, max: Int, after: BOOLEAN]
    BY DEF IndInv, TypeOK
  <2> QED
    BY <2>1, PlayersAdd, PlayersFinite
<1>2. state' = [state EXCEPT ![r] = IF n = k.max /\ n >= k.min THEN "start" ELSE "waiting"]
  BY DEF EntersRoom, add_player, IndInv, TypeOK
<1>3. playermap' = [playermap EXCEPT ![r] = @ \cup {c}] /\ config' = config
  BY DEF EntersRoom, add_player
<1>4. disconnected' = disconnected
  <2>1. NoConn \notin disconnected[r]
    BY ConnsAssumption DEF IndInv, TypeOK
  <2> QED
    BY <2>1 DEF EntersRoom, add_player, IndInv, TypeOK
<1>5. state[r] = "waiting" /\ n <= k.max
  BY <1>1 DEF EntersRoom
<1> DEFINE m == Cardinality(playermap[r]) + 1
<1>6. state' = [state EXCEPT ![r] = Service!PhaseWith(m, k)] /\ m <= k.max
  BY <1>1, <1>2, <1>5 DEF Service!PhaseWith
<1> HIDE DEF n
<1> QED
  BY <1>3, <1>4, <1>5, <1>6, SameCount DEF Service!Enter, Service!Nowhere

\* A player who comes back.
LEMMA ReturnIsService ==
    ASSUME IndInv, NEW c \in Conns, NEW r \in RoomIds, NEW prev,
           \A q \in RoomIds : c \notin playermap[q], TakesSeat(c, r, prev)
    PROVE  prev \in Conns /\ Service!Return(r, c, prev)
<1>1. prev \in Conns
  BY DEF TakesSeat, IndInv, TypeOK
<1>2. state' = state
  BY DEF TakesSeat, add_player, IndInv, TypeOK
<1>3. /\ playermap' = [playermap EXCEPT ![r] = @ \cup {c}]
      /\ disconnected' = [disconnected EXCEPT ![r] = @ \ {prev}]
      /\ config' = config /\ state[r] = "start" /\ prev \in disconnected[r]
      /\ Cardinality(playermap[r]) < config[r].max
  BY DEF TakesSeat, add_player
<1> QED
  BY <1>1, <1>2, <1>3, SameCount DEF Service!Return, Service!Nowhere

\* A player who leaves others behind, or a room that goes on without players.
LEMMA LeaveIsService ==
    ASSUME IndInv, EndedBelowMin, NEW c \in Conns, NEW r \in RoomIds, c \in playermap[r],
           LeavesBehind(c, r, playermap[r] \ {c})
    PROVE  Service!Leave(r, c)
<1> DEFINE P == playermap[r] \ {c}
           below == Cardinality(P) < config[r].min
<1>1. /\ playermap' = [playermap EXCEPT ![r] = P]
      /\ config' = config
      /\ \/ /\ state[r] \in {"start", "end"} /\ below
            /\ state' = [state EXCEPT ![r] = "end"]
            /\ disconnected' = disconnected
         \/ /\ ~(state[r] \in {"start", "end"} /\ below)
            /\ state' = state
            /\ disconnected' = [disconnected EXCEPT ![r] =
                                  IF state[r] = "waiting" THEN @ ELSE @ \cup {c}]
      /\ ~(P = {} /\ (state[r] = "end" \/ (state[r] = "start" /\ below)))
  BY DEF LeavesBehind, player_leaves, below_min
<1>2. state[r] \in {"waiting", "start", "end"}
  BY DEF IndInv, MembershipConsistent
<1>3. state[r] = "end" => below
  <2>1. playermap[r] \in SUBSET Conns /\ config[r] \in [min: Int, max: Int, after: BOOLEAN]
    BY DEF IndInv, TypeOK
  <2>2. Cardinality(P) = Cardinality(playermap[r]) - 1 /\ Cardinality(playermap[r]) \in Nat
    BY <2>1, PlayersRemove, PlayersFinite
  <2> QED
    BY <2>1, <2>2 DEF EndedBelowMin
<1>4. state[r] = "waiting" => disconnected' = disconnected
  BY <1>1 DEF IndInv, TypeOK
<1> HIDE DEF below
<1>5. CASE state[r] = "waiting"
  BY <1>1, <1>4, <1>5 DEF Service!Leave
<1>6. CASE state[r] = "start" /\ ~below
  <2>1. state' = state /\ disconnected' = [disconnected EXCEPT ![r] = @ \cup {c}]
    BY <1>1, <1>6
  <2> QED
    BY <1>1, <1>6, <2>1, SameCount DEF Service!Leave, below
<1>7. CASE state[r] \in {"start", "end"} /\ below
  <2>1. state' = [state EXCEPT ![r] = "end"] /\ disconnected' = disconnected /\ P # {}
    BY <1>1, <1>7
  <2> QED
    BY <1>1, <1>7, <2>1, SameCount DEF Service!Leave, below
<1> QED
  BY <1>2, <1>3, <1>5, <1>6, <1>7

\* The rooms that are deleted together.
LEMMA DeleteIsService ==
    ASSUME IndInv, NEW Z \in SUBSET (waiting_rooms \cup rooms), delete_rooms(Z)
    PROVE  [Service!ServiceNext]_(Service!serviceVars)
<1>1. /\ state' = [r \in RoomIds |-> IF r \in Z THEN "deleted" ELSE state[r]]
      /\ config' = [r \in RoomIds |-> IF r \in Z THEN DefaultConfig ELSE config[r]]
      /\ playermap' = [r \in RoomIds |-> IF r \in Z THEN {} ELSE playermap[r]]
      /\ disconnected' = [r \in RoomIds |-> IF r \in Z THEN {} ELSE disconnected[r]]
  BY DEF delete_rooms
<1>2. Z \subseteq RoomIds /\ \A r \in Z : state[r] \in {"waiting", "start", "end"}
  BY DEF IndInv, TypeOK, ListsMatchState
<1>3. CASE Z = {}
  <2>1. state' = state /\ config' = config /\ playermap' = playermap /\ disconnected' = disconnected
    BY <1>1, <1>3 DEF IndInv, TypeOK
  <2> QED
    BY <2>1 DEF Service!serviceVars
<1>4. CASE Z # {}
  <2>1. Service!Delete(Z)
    BY <1>1, <1>2, <1>4 DEF Service!Delete, Service!NoLimits, DefaultConfig
  <2> QED
    BY <1>2, <2>1 DEF Service!ServiceNext
<1> QED
  BY <1>3, <1>4

\* The tick that starts a room, and the others, which the service does not see.
LEMMA TickIsService ==
    ASSUME IndInv, NEW r \in RoomIds, countdown_tick(r)
    PROVE  [Service!ServiceNext]_(Service!serviceVars)
<1>1. count_down[r] > 0 /\ UNCHANGED <<config, playermap, disconnected>>
  BY DEF countdown_tick, armed
<1>2. CASE count_down[r] > 1
  BY <1>1, <1>2 DEF countdown_tick, Service!serviceVars
<1>3. CASE ~(count_down[r] > 1)
  <2>1. state' = [state EXCEPT ![r] = "start"]
    BY <1>3 DEF countdown_tick
  <2>2. state[r] = "waiting" /\ Cardinality(playermap[r]) \in config[r].min .. config[r].max - 1
    BY <1>1 DEF IndInv, CountdownSound
  <2>3. Cardinality(playermap[r]) >= config[r].min
    <3>1. config[r].min \in Int /\ config[r].max \in Int
      BY DEF IndInv, TypeOK
    <3> QED
      BY <2>2, <3>1
  <2>4. Service!Start(r)
    BY <1>1, <2>1, <2>2, <2>3, SameCount DEF Service!Start
  <2> QED
    BY <2>4 DEF Service!ServiceNext
<1> QED
  BY <1>2, <1>3

\* Every step of the server is a step of the service or changes nothing in it.
LEMMA ServiceStep ==
    ASSUME EventInv, [Next]_vars
    PROVE  [Service!ServiceNext]_(Service!serviceVars)
<1>0. IndInv /\ EndedBelowMin
  BY DEF EventInv
<1>1. ASSUME UNCHANGED <<state, config, playermap, disconnected>>
      PROVE  [Service!ServiceNext]_(Service!serviceVars)
  BY <1>1 DEF Service!serviceVars
<1>2. ASSUME NEW c \in Conns,
             \/ create_conn(c) \/ onconnection_connected(c) \/ peer_close(c)
             \/ first_hi(c) \/ process_shutdown_request(c)
      PROVE  [Service!ServiceNext]_(Service!serviceVars)
  BY <1>1, <1>2 DEF create_conn, onconnection_connected, peer_close, first_hi,
                    process_shutdown_request
<1>3. ASSUME NEW c \in Conns, NEW k \in Configs, NEW prev \in Conns \cup {NoConn},
             NEW id \in RoomIds \cup {NoRoom}, process_match_request(c, k, prev, id)
      PROVE  [Service!ServiceNext]_(Service!serviceVars)
  <2>1. /\ \A q \in RoomIds : c \notin playermap[q]
        /\ \E r \in RoomIds : \/ OpensRoom(c, k, r) \/ OpensEmpty(k, r)
                             \/ EntersRoom(c, r) \/ TakesSeat(c, r, prev)
    BY <1>0, <1>3, MatchCases
  <2>2. PICK r \in RoomIds : \/ OpensRoom(c, k, r) \/ OpensEmpty(k, r)
                            \/ EntersRoom(c, r) \/ TakesSeat(c, r, prev)
    BY <2>1
  <2>3. CASE OpensRoom(c, k, r)
    BY <1>0, <2>1, <2>3, OpenIsService DEF Service!ServiceNext
  <2>4. CASE EntersRoom(c, r)
    BY <1>0, <2>1, <2>4, EnterIsService DEF Service!ServiceNext
  <2>5. CASE TakesSeat(c, r, prev)
    BY <1>0, <2>1, <2>5, ReturnIsService DEF Service!ServiceNext
  <2>6. CASE OpensEmpty(k, r)
    BY <2>6, OpenEmptyIsService DEF Service!ServiceNext
  <2> QED
    BY <2>2, <2>3, <2>4, <2>5, <2>6
<1>4. ASSUME NEW c \in Conns, destroy_connection(c)
      PROVE  [Service!ServiceNext]_(Service!serviceVars)
  <2>1. \/ LeavesNoRoom(c)
        \/ \E r \in RoomIds : /\ c \in playermap[r]
                              /\ LeavesBehind(c, r, playermap[r] \ {c}) \/ LeavesLast(c, r)
    BY <1>0, <1>4, DestroyCases
  <2>2. CASE LeavesNoRoom(c)
    BY <1>1, <2>2 DEF LeavesNoRoom
  <2>3. ASSUME NEW r \in RoomIds, c \in playermap[r], LeavesBehind(c, r, playermap[r] \ {c})
        PROVE  [Service!ServiceNext]_(Service!serviceVars)
    BY <1>0, <2>3, LeaveIsService DEF Service!ServiceNext
  <2>4. ASSUME NEW r \in RoomIds, c \in playermap[r], LeavesLast(c, r)
        PROVE  [Service!ServiceNext]_(Service!serviceVars)
    <3>1. {r} \in SUBSET (waiting_rooms \cup rooms)
      BY <1>0, <2>4 DEF IndInv, ListsMatchState, MembershipConsistent
    <3> QED
      BY <1>0, <2>4, <3>1, DeleteIsService DEF LeavesLast
  <2> QED
    BY <2>1, <2>2, <2>3, <2>4
<1>5. ASSUME NEW r \in RoomIds, countdown_tick(r)
      PROVE  [Service!ServiceNext]_(Service!serviceVars)
  BY <1>0, <1>5, TickIsService
<1>6. ASSUME NEW tw \in 0 .. MaxRooms, NEW tr \in 0 .. MaxRooms, check_zombie_rooms(tw, tr)
      PROVE  [Service!ServiceNext]_(Service!serviceVars)
  <2>1. /\ zombies(tw, tr) \in SUBSET (waiting_rooms \cup rooms)
        /\ delete_rooms(zombies(tw, tr))
    BY <1>6 DEF zombies, check_zombie_rooms
  <2> QED
    BY <1>0, <2>1, DeleteIsService
<1>7. ASSUME NEW s \in Signatures, redis_expire(s) \/ on_qhiredis_async_key_expired(s)
      PROVE  [Service!ServiceNext]_(Service!serviceVars)
  BY <1>1, <1>7 DEF redis_expire, on_qhiredis_async_key_expired
<1>8. ASSUME on_network_server_end
      PROVE  [Service!ServiceNext]_(Service!serviceVars)
  BY <1>0, <1>8, DeleteIsService DEF on_network_server_end
<1>9. ASSUME UNCHANGED vars
      PROVE  [Service!ServiceNext]_(Service!serviceVars)
  BY <1>1, <1>9 DEF vars
<1>10. ASSUME NEW c \in Conns, deleted_room_read(c)
      PROVE  [Service!ServiceNext]_(Service!serviceVars)
  BY <1>1, <1>10 DEF deleted_room_read
<1> DEFINE Served == [Service!ServiceNext]_(Service!serviceVars)
<1> HIDE DEF Served
<1>11. Served
  BY <1>2, <1>3, <1>4, <1>5, <1>6, <1>7, <1>8, <1>9, <1>10 DEF Next, Served
<1> QED
  BY <1>11 DEF Served

\* RoomServer implements RoomService: what its connections, lists, timers and counters
\* do to the rooms is what the service promises of them, step by step.
THEOREM Implements == Spec => ImplementsService
<1>1. Init => Service!ServiceInit
  BY DEF Init, Service!ServiceInit, Service!NoLimits, DefaultConfig
<1>2. EventInv /\ [Next]_vars => [Service!ServiceNext]_(Service!serviceVars)
  BY ServiceStep
<1> QED
  BY <1>1, <1>2, EventsInductive, PTL DEF Spec, ImplementsService, Service!ServiceSpec

\* The order of a room's states.
LEMMA Ranks ==
    /\ Rank("none") = 0 /\ Rank("waiting") = 1 /\ Rank("start") = 2
    /\ Rank("end") = 3 /\ Rank("deleted") = 4
BY DEF Rank

\* What a step of the service does to one room: it goes forward, and only a kept seat lets
\* anyone into a started one.
LEMMA ServiceMoves ==
    ASSUME TypeOK, Service!ServiceNext, NEW r \in RoomIds
    PROVE  /\ Rank(state'[r]) >= Rank(state[r])
           /\ state[r] = "start" => \A c \in playermap'[r] \ playermap[r] :
                \E p \in disconnected[r] : disconnected'[r] = disconnected[r] \ {p}
<1> DEFINE OneStep == /\ Rank(state'[r]) >= Rank(state[r])
                      /\ state[r] = "start" => \A c \in playermap'[r] \ playermap[r] :
                           \E p \in disconnected[r] : disconnected'[r] = disconnected[r] \ {p}
<1>1. /\ state[r] \in RoomStates
      /\ Rank(state[r]) \in Nat /\ Rank(state[r]) <= 4
      /\ state \in [RoomIds -> RoomStates]
      /\ playermap \in [RoomIds -> SUBSET Conns]
      /\ disconnected \in [RoomIds -> SUBSET Conns]
  <2>1. state[r] \in RoomStates
    BY DEF TypeOK
  <2> QED
    BY <2>1, Ranks DEF TypeOK, RoomStates
<1>2. ASSUME NEW q \in RoomIds, NEW p \in Conns, NEW k \in Configs, Service!Open(q, p, k)
      PROVE  OneStep
  <2>1. CASE q # r
    BY <1>1, <1>2, <2>1 DEF Service!Open
  <2>2. CASE q = r
    <3>1. state[r] = "none" /\ state'[r] \in {"start", "waiting"}
      BY <1>1, <1>2, <2>2 DEF Service!Open, Service!PhaseWith
    <3> QED
      BY <3>1, Ranks
  <2> QED
    BY <2>1, <2>2
<1>3. ASSUME NEW q \in RoomIds, NEW p \in Conns, Service!Enter(q, p)
      PROVE  OneStep
  <2>1. CASE q # r
    BY <1>1, <1>3, <2>1 DEF Service!Enter
  <2>2. CASE q = r
    <3>1. state[r] = "waiting" /\ state'[r] \in {"start", "waiting"}
      BY <1>1, <1>3, <2>2 DEF Service!Enter, Service!PhaseWith
    <3> QED
      BY <3>1, Ranks
  <2> QED
    BY <2>1, <2>2
<1>4. ASSUME NEW q \in RoomIds, NEW p \in Conns, NEW seat \in Conns, Service!Return(q, p, seat)
      PROVE  OneStep
  <2>1. CASE q # r
    BY <1>1, <1>4, <2>1 DEF Service!Return
  <2>2. CASE q = r
    <3>1. state' = state /\ seat \in disconnected[r] /\ disconnected'[r] = disconnected[r] \ {seat}
      BY <1>1, <1>4, <2>2 DEF Service!Return
    <3> QED
      BY <1>1, <3>1
  <2> QED
    BY <2>1, <2>2
<1>5. ASSUME NEW q \in RoomIds, NEW p \in Conns, Service!Leave(q, p)
      PROVE  OneStep
  <2>1. playermap'[r] \subseteq playermap[r]
    BY <1>1, <1>5 DEF Service!Leave
  <2>2. state'[r] = state[r] \/ (state[r] \in {"start", "end"} /\ state'[r] = "end")
    BY <1>1, <1>5 DEF Service!Leave
  <2> QED
    BY <1>1, <2>1, <2>2, Ranks
<1>6. ASSUME NEW q \in RoomIds, NEW k \in Configs, Service!OpenEmpty(q, k)
      PROVE  OneStep
  <2>1. playermap' = playermap
    BY <1>6 DEF Service!OpenEmpty
  <2>2. state'[r] = state[r] \/ (state[r] = "none" /\ state'[r] = "waiting")
    BY <1>1, <1>6 DEF Service!OpenEmpty
  <2> QED
    BY <1>1, <2>1, <2>2, Ranks
<1>7. ASSUME NEW q \in RoomIds, Service!Start(q)
      PROVE  OneStep
  <2>1. playermap' = playermap
    BY <1>7 DEF Service!Start
  <2>2. state'[r] = state[r] \/ (state[r] = "waiting" /\ state'[r] = "start")
    BY <1>1, <1>7 DEF Service!Start
  <2> QED
    BY <1>1, <2>1, <2>2, Ranks
<1>8. ASSUME NEW Z \in SUBSET RoomIds, Service!Delete(Z)
      PROVE  OneStep
  <2>1. playermap'[r] \subseteq playermap[r]
    BY <1>1, <1>8 DEF Service!Delete
  <2>2. state'[r] = state[r] \/ state'[r] = "deleted"
    BY <1>1, <1>8 DEF Service!Delete
  <2> QED
    BY <1>1, <2>1, <2>2, Ranks
<1> HIDE DEF OneStep
<1>9. OneStep
  BY <1>2, <1>3, <1>4, <1>5, <1>6, <1>7, <1>8 DEF Service!ServiceNext
<1> QED
  BY <1>9 DEF OneStep

\* What a step of the server does to one room.
LEMMA RoomMoves ==
    ASSUME EventInv, [Next]_vars, NEW r \in RoomIds
    PROVE  /\ Rank(state'[r]) >= Rank(state[r])
           /\ state[r] = "start" => \A c \in playermap'[r] \ playermap[r] :
                \E p \in disconnected[r] : disconnected'[r] = disconnected[r] \ {p}
<1>1. TypeOK
  BY DEF EventInv, IndInv
<1>2. CASE Service!ServiceNext
  BY <1>1, <1>2, ServiceMoves
<1>3. CASE UNCHANGED Service!serviceVars
  <2>1. state' = state /\ playermap' = playermap
    BY <1>3 DEF Service!serviceVars
  <2>2. Rank(state[r]) \in Nat
    <3>1. state[r] \in RoomStates
      BY <1>1 DEF TypeOK
    <3> QED
      BY <3>1, Ranks DEF RoomStates
  <2> QED
    BY <2>1, <2>2
<1> QED
  BY <1>2, <1>3, ServiceStep

\* No late tick, join, departure or sweep takes a room back or revives it.
THEOREM Forward == Spec => RoomMovesForward
<1>1. EventInv /\ [Next]_vars => [\A r \in RoomIds : Rank(state'[r]) >= Rank(state[r])]_vars
  BY RoomMoves
<1> QED
  BY <1>1, EventsInductive, PTL DEF Spec, RoomMovesForward

\* Nobody enters a started room but in the place of a player who left it.
THEOREM Returns == Spec => OnlyReturnsAfterStart
<1>1. EventInv /\ [Next]_vars =>
        [\A r \in RoomIds : state[r] = "start" =>
           \A c \in playermap'[r] \ playermap[r] :
              \E p \in disconnected[r] : disconnected'[r] = disconnected[r] \ {p}]_vars
  BY RoomMoves
<1> QED
  BY <1>1, EventsInductive, PTL DEF Spec, OnlyReturnsAfterStart
=============================================================================
