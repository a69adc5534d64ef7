-------------------------- MODULE RoomServerProofs --------------------------
(* Proofs about RoomServer, for every set of connections and                *)
(* configurations and every number of rooms.                               *)
EXTENDS RoomServer, FiniteSetTheorems, WellFoundedInduction, TLAPS

\* Players of a room can be counted.
LEMMA PlayersFinite ==
    ASSUME NEW P \in SUBSET Conns
    PROVE  /\ IsFiniteSet(P)
           /\ Cardinality(P) \in Nat
           /\ P = {} <=> Cardinality(P) = 0
BY ConnsAssumption, FS_Subset, FS_CardinalityType, FS_EmptySet

\* A join counts one more player.
LEMMA PlayersAdd ==
    ASSUME NEW P \in SUBSET Conns, NEW c \in Conns, c \notin P
    PROVE  Cardinality(P \cup {c}) = Cardinality(P) + 1
BY PlayersFinite, FS_AddElement

\* A departure counts one less.
LEMMA PlayersRemove ==
    ASSUME NEW P \in SUBSET Conns, NEW c \in P
    PROVE  Cardinality(P \ {c}) = Cardinality(P) - 1
BY PlayersFinite, FS_RemoveElement

\* Rooms can be counted.
LEMMA RoomsFinite ==
    ASSUME NEW Z \in SUBSET RoomIds
    PROVE  Cardinality(Z) \in Nat
<1>1. IsFiniteSet(RoomIds)
  BY BoundsAssumption, FS_Interval DEF RoomIds
<1> QED
  BY <1>1, FS_Subset, FS_CardinalityType

\* Two facts about RoomIds.
LEMMA RoomIdsFacts ==
    /\ NoRoom \notin RoomIds
    /\ \A r \in RoomIds : r \in Int /\ 0 <= r /\ r < MaxRooms
    /\ \A n \in 0 .. MaxRooms : n < MaxRooms => n \in RoomIds
BY BoundsAssumption DEF NoRoom, RoomIds

\* The server starts in the invariant.
LEMMA InitIndInv == Init => IndInv
<1> SUFFICES ASSUME Init PROVE IndInv
  OBVIOUS
<1>1. TypeOK
  <2>1. DefaultConfig \in [min: Int, max: Int, after: BOOLEAN]
    BY DEF DefaultConfig
  <2> QED
    BY <2>1, BoundsAssumption DEF Init, TypeOK, ConnStates, RoomStates
<1>2. RefusedNowhere /\ FreshUnplaced /\ IdsInOrder /\ ConfigsAsked /\ SeatsOfTheGone
  BY RoomIdsFacts DEF Init, RefusedNowhere, FreshUnplaced, IdsInOrder, ConfigsAsked, SeatsOfTheGone
<1>3. MembershipConsistent /\ ListsMatchState /\ SeatsKept /\ CountdownSound
  BY DEF Init, MembershipConsistent, ListsMatchState, SeatsKept, CountdownSound
<1> QED
  BY <1>1, <1>2, <1>3 DEF IndInv

USE DEF connVars, roomVars, redisVars

\* Steps that leave the rooms and connection_map alone: only the life and the flags
\* of connections matter.
LEMMA NetworkStep ==
    ASSUME IndInv, NEW c \in Conns,
           \/ create_conn(c) \/ onconnection_connected(c) \/ peer_close(c)
           \/ first_hi(c) \/ process_shutdown_request(c)
    PROVE  IndInv'
<1> USE DEF create_conn, onconnection_connected, peer_close, first_hi,
            process_shutdown_request, Unmatched
<1>1. TypeOK'
  <2>1. conn' \in [Conns -> ConnStates]
    BY DEF IndInv, TypeOK, ConnStates
  <2>2. user_data' \in [Conns -> SUBSET {"FIRST_HI_RECEIVED", "ROOM_CONFIG_RECEIVED"}]
    BY DEF IndInv, TypeOK
  <2>3. new_connections' \in SUBSET Conns /\ server' \in {"running", "stopping", "stopped", "crashed"}
    BY DEF IndInv, TypeOK
  <2> QED
    BY <2>1, <2>2, <2>3 DEF IndInv, TypeOK
<1>2. FreshUnplaced' /\ RefusedNowhere'
  <2>1. /\ UNCHANGED <<connection_map, state, config, refused>>
        /\ \A d \in Conns : user_data[d] \subseteq user_data'[d]
    BY DEF IndInv, TypeOK
  <2>2. RefusedNowhere'
    BY <2>1 DEF IndInv, TypeOK, RefusedNowhere
  <2>3. FreshUnplaced'
    BY <2>1 DEF IndInv, FreshUnplaced
  <2> QED
    BY <2>2, <2>3
<1>3. SeatsOfTheGone'
  BY DEF IndInv, TypeOK, SeatsOfTheGone
<1>4. MembershipConsistent'
  <2>1. /\ UNCHANGED <<connection_map, playermap, state, refused>>
        /\ \A d \in Conns : conn[d] \in {"open", "closing"} => conn'[d] \in {"open", "closing"}
        /\ \A r \in RoomIds : playermap[r] \subseteq Conns
    BY DEF IndInv, TypeOK
  <2> QED
    BY <2>1 DEF IndInv, MembershipConsistent
<1>5. IdsInOrder' /\ ConfigsAsked' /\ ListsMatchState' /\ SeatsKept' /\ CountdownSound'
  BY DEF IndInv, IdsInOrder, ConfigsAsked, ListsMatchState, SeatsKept, CountdownSound
<1> QED
  BY <1>1, <1>2, <1>3, <1>4, <1>5 DEF IndInv

\* The Redis keys expire and come back without touching the rooms.
LEMMA RedisStep ==
    ASSUME IndInv, NEW s \in Signatures,
           redis_expire(s) \/ on_qhiredis_async_key_expired(s)
    PROVE  IndInv'
<1> USE DEF redis_expire, on_qhiredis_async_key_expired
<1>1. Cardinality(waiting_of(s)) \in Nat
  BY RoomsFinite DEF IndInv, TypeOK, waiting_of
<1>2. TypeOK'
  BY <1>1 DEF IndInv, TypeOK
<1>3. RefusedNowhere' /\ FreshUnplaced' /\ IdsInOrder' /\ ConfigsAsked' /\ SeatsOfTheGone'
  BY DEF IndInv, RefusedNowhere, FreshUnplaced, IdsInOrder, ConfigsAsked, SeatsOfTheGone
<1>4. MembershipConsistent' /\ ListsMatchState' /\ SeatsKept' /\ CountdownSound'
  BY DEF IndInv, MembershipConsistent, ListsMatchState, SeatsKept, CountdownSound
<1> QED
  BY <1>2, <1>3, <1>4 DEF IndInv

\* A signature of a room in use is one of the counted ones.
LEMMA SignatureCounted ==
    ASSUME NEW k \in Configs PROVE Signature(k) \in Signatures
BY DEF Signatures

\* A tick keeps the countdown of a waiting room going or starts the room, which has
\* enough players and a seat to spare.
LEMMA CountdownStep ==
    ASSUME IndInv, NEW r \in RoomIds, countdown_tick(r)
    PROVE  IndInv'
<1> USE DEF countdown_tick, armed
<1>1. /\ state[r] = "waiting"
      /\ Cardinality(playermap[r]) \in config[r].min .. config[r].max - 1
      /\ r \in waiting_rooms
      /\ Signature(config[r]) \in Signatures
  BY SignatureCounted DEF IndInv, CountdownSound, ListsMatchState, ConfigsAsked
<1>2. /\ count_down' = [count_down EXCEPT ![r] = count_down[r] - 1]
      /\ count_down[r] \in 1 .. MAX_COUNT_DOWN
  BY DEF IndInv, TypeOK
<1>3. \/ /\ count_down[r] > 1
         /\ UNCHANGED <<state, waiting_rooms, rooms, wroom_count, wroom_keys, room_count>>
      \/ /\ count_down[r] = 1
         /\ state' = [state EXCEPT ![r] = "start"]
         /\ waiting_rooms' = waiting_rooms \ {r}
         /\ rooms' = rooms \cup {r}
  BY <1>2 DEF onroom_pre_start, waiting_without
<1>4. TypeOK'
  <2>1. /\ wroom_count' \in [Signatures -> Int]
        /\ wroom_keys' \in SUBSET Signatures
        /\ room_count' \in [Signatures -> Int]
    BY <1>1 DEF IndInv, TypeOK, onroom_pre_start, room_count_started
  <2>2. count_down' \in [RoomIds -> 0 .. MAX_COUNT_DOWN]
    BY <1>2, BoundsAssumption DEF IndInv, TypeOK
  <2> QED
    BY <1>3, <2>1, <2>2 DEF IndInv, TypeOK, RoomStates
<1>5. FreshUnplaced' /\ IdsInOrder' /\ ConfigsAsked' /\ SeatsOfTheGone'
  BY <1>1, <1>3 DEF IndInv, TypeOK, FreshUnplaced, IdsInOrder, ConfigsAsked, SeatsOfTheGone
<1>6. MembershipConsistent'
  BY <1>1, <1>3 DEF IndInv, TypeOK, MembershipConsistent
<1>7. ListsMatchState'
  BY <1>1, <1>3 DEF IndInv, TypeOK, ListsMatchState
<1>8. SeatsKept'
  <2>1. disconnected[r] = {}
    BY <1>1 DEF IndInv, TypeOK, SeatsOfTheGone
  <2>2. Cardinality(playermap[r]) >= config[r].min
        /\ Cardinality(playermap[r]) + Cardinality(disconnected[r]) <= config[r].max
    <3>1. playermap[r] \in SUBSET Conns /\ config[r] \in [min: Int, max: Int, after: BOOLEAN]
      BY DEF IndInv, TypeOK
    <3>2. Cardinality(playermap[r]) \in Nat /\ Cardinality(disconnected[r]) = 0
      BY <2>1, <3>1, PlayersFinite, FS_EmptySet
    <3> QED
      BY <1>1, <3>1, <3>2
  <2> QED
    BY <1>3, <2>2 DEF IndInv, TypeOK, SeatsKept
<1>9. CountdownSound'
  BY <1>1, <1>2, <1>3 DEF IndInv, TypeOK, CountdownSound
<1>10. RefusedNowhere'
  <2>1. config[r].max >= 1
    <3>1. playermap[r] \in SUBSET Conns /\ config[r] \in [min: Int, max: Int, after: BOOLEAN]
      BY DEF IndInv, TypeOK
    <3> QED
      BY <1>1, <3>1, PlayersFinite
  <2>2. ASSUME NEW c \in refused, connection_map[c] = r
        PROVE  FALSE
    BY <1>1, <2>1, <2>2, RoomIdsFacts DEF IndInv, TypeOK, RefusedNowhere
  <2>3. \A q \in RoomIds \ {r} : state'[q] = state[q]
    BY <1>3 DEF IndInv, TypeOK
  <2> QED
    BY <2>2, <2>3 DEF IndInv, TypeOK, RefusedNowhere
<1> QED
  BY <1>4, <1>5, <1>6, <1>7, <1>8, <1>9, <1>10 DEF IndInv

\* What the destructor leaves of the rooms in Z, and that it keeps the types.
LEMMA DeleteRooms ==
    ASSUME IndInv, NEW Z \in SUBSET (waiting_rooms \cup rooms), delete_rooms(Z)
    PROVE  /\ state' \in [RoomIds -> RoomStates]
           /\ config' \in [RoomIds -> [min: Int, max: Int, after: BOOLEAN]]
           /\ playermap' \in [RoomIds -> SUBSET Conns]
           /\ disconnected' \in [RoomIds -> SUBSET Conns]
           /\ count_down' \in [RoomIds -> 0 .. MAX_COUNT_DOWN]
           /\ observed' \in [RoomIds -> SUBSET Conns]
           /\ wroom_count' \in [Signatures -> Int]
           /\ wroom_keys' \in SUBSET Signatures
           /\ room_count' \in [Signatures -> Int]
           /\ Z \subseteq RoomIds
           /\ \A r \in Z : /\ state[r] \in {"waiting", "start", "end"}
                           /\ state'[r] = "deleted"
                           /\ playermap'[r] = {}
                           /\ disconnected'[r] = {}
                           /\ count_down'[r] = 0
           /\ \A r \in RoomIds \ Z : /\ state'[r] = state[r]
                                     /\ config'[r] = config[r]
                                     /\ playermap'[r] = playermap[r]
                                     /\ disconnected'[r] = disconnected[r]
                                     /\ count_down'[r] = count_down[r]
<1> DEFINE W == {r \in Z : state[r] = "waiting"}
           of(S, s) == {r \in S : Signature(config[r]) = s}
<1>1. Z \subseteq RoomIds /\ \A r \in Z : state[r] \in {"waiting", "start", "end"}
  BY DEF IndInv, TypeOK, ListsMatchState
<1>2. \A s \in Signatures : Cardinality(of(W, s)) \in Int /\ Cardinality(of(Z \ W, s)) \in Int
  <2> SUFFICES ASSUME NEW s \in Signatures
               PROVE  Cardinality(of(W, s)) \in Int /\ Cardinality(of(Z \ W, s)) \in Int
    OBVIOUS
  <2>1. of(W, s) \in SUBSET RoomIds /\ of(Z \ W, s) \in SUBSET RoomIds
    BY <1>1
  <2> HIDE DEF of
  <2> QED
    BY <2>1, RoomsFinite
<1>3. /\ wroom_count' = [s \in Signatures |-> wroom_count[s] - Cardinality(of(W, s))]
      /\ room_count' = [s \in Signatures |-> room_count[s] - Cardinality(of(Z \ W, s))]
      /\ wroom_keys' = wroom_keys \cup {Signature(config[r]) : r \in W}
  BY DEF delete_rooms
<1>4. wroom_count' \in [Signatures -> Int] /\ room_count' \in [Signatures -> Int]
  <2> DEFINE w(s) == Cardinality(of(W, s))
             e(s) == Cardinality(of(Z \ W, s))
  <2>1. \A s \in Signatures : w(s) \in Int /\ e(s) \in Int
    BY <1>2
  <2>2. /\ wroom_count' = [s \in Signatures |-> wroom_count[s] - w(s)]
        /\ room_count' = [s \in Signatures |-> room_count[s] - e(s)]
    BY <1>3
  <2>3. wroom_count \in [Signatures -> Int] /\ room_count \in [Signatures -> Int]
    BY DEF IndInv, TypeOK
  <2> HIDE DEF w, e
  <2> QED
    BY <2>1, <2>2, <2>3
<1>5. wroom_keys' \in SUBSET Signatures
  BY <1>1, <1>3, SignatureCounted DEF IndInv, TypeOK, ConfigsAsked
<1>6. DefaultConfig \in [min: Int, max: Int, after: BOOLEAN]
  BY DEF DefaultConfig
<1>7. /\ state' = [r \in RoomIds |-> IF r \in Z THEN "deleted" ELSE state[r]]
      /\ config' = [r \in RoomIds |-> IF r \in Z THEN DefaultConfig ELSE config[r]]
      /\ playermap' = [r \in RoomIds |-> IF r \in Z THEN {} ELSE playermap[r]]
      /\ disconnected' = [r \in RoomIds |-> IF r \in Z THEN {} ELSE disconnected[r]]
      /\ count_down' = [r \in RoomIds |-> IF r \in Z THEN 0 ELSE count_down[r]]
      /\ observed' = [r \in RoomIds |->
                        IF r \in Z THEN observed[r] \ playermap[r] ELSE observed[r]]
  BY DEF delete_rooms, observed_after_delete
<1>8. /\ state' \in [RoomIds -> RoomStates]
      /\ config' \in [RoomIds -> [min: Int, max: Int, after: BOOLEAN]]
      /\ playermap' \in [RoomIds -> SUBSET Conns]
      /\ disconnected' \in [RoomIds -> SUBSET Conns]
      /\ count_down' \in [RoomIds -> 0 .. MAX_COUNT_DOWN]
      /\ observed' \in [RoomIds -> SUBSET Conns]
  BY <1>6, <1>7, BoundsAssumption DEF IndInv, TypeOK, RoomStates
<1> QED
  BY <1>1, <1>4, <1>5, <1>7, <1>8

\* The sweep erases exactly the players of the rooms it deletes from connection_map: those
\* who left are in no other room.
LEMMA ZombieStep ==
    ASSUME IndInv, NEW tw \in 0 .. MaxRooms, NEW tr \in 0 .. MaxRooms,
           check_zombie_rooms(tw, tr)
    PROVE  IndInv'
<1> DEFINE Z == zombies(tw, tr)
           P == UNION {playermap[r] : r \in Z}
<1>1. /\ waiting_rooms' = waiting_rooms \ Z
      /\ rooms' = rooms \ Z
      /\ connection_map' = [c \in Conns |-> IF c \in swept(Z) THEN NoRoom ELSE connection_map[c]]
      /\ new_connections' = new_connections \ P
      /\ conn' = Kicked(P)
      /\ delete_rooms(Z)
      /\ UNCHANGED <<server, user_data, room_id_counter, refused, view, expired>>
  BY DEF check_zombie_rooms
<1>2. Z \in SUBSET (waiting_rooms \cup rooms)
  BY DEF zombies
<1> HIDE DEF Z
<1>3. \A c \in Conns : conn'[c] = conn[c] \/ (conn[c] = "open" /\ conn'[c] = "closing")
  BY <1>1 DEF Kicked
<1>4. \A c \in Conns : c \in swept(Z) <=> \E r \in Z : c \in playermap[r] \/ c \in disconnected[r]
  BY DEF swept
<1>5. TypeOK'
  <2>1. conn' \in [Conns -> ConnStates]
    BY <1>1 DEF Kicked, IndInv, TypeOK, ConnStates
  <2>2. /\ waiting_rooms' \in SUBSET RoomIds /\ rooms' \in SUBSET RoomIds
        /\ connection_map' \in [Conns -> RoomIds \cup {NoRoom}]
        /\ new_connections' \in SUBSET Conns
    BY <1>1 DEF IndInv, TypeOK
  <2>3. /\ state' \in [RoomIds -> RoomStates]
        /\ config' \in [RoomIds -> [min: Int, max: Int, after: BOOLEAN]]
        /\ playermap' \in [RoomIds -> SUBSET Conns]
        /\ disconnected' \in [RoomIds -> SUBSET Conns]
        /\ count_down' \in [RoomIds -> 0 .. MAX_COUNT_DOWN]
        /\ observed' \in [RoomIds -> SUBSET Conns]
        /\ wroom_count' \in [Signatures -> Int]
        /\ wroom_keys' \in SUBSET Signatures
        /\ room_count' \in [Signatures -> Int]
    BY <1>1, <1>2, DeleteRooms
  <2> QED
    BY <1>1, <2>1, <2>2, <2>3 DEF IndInv, TypeOK
<1>6. FreshUnplaced'
  BY <1>1 DEF IndInv, TypeOK, FreshUnplaced
<1>7. IdsInOrder' /\ ConfigsAsked' /\ ListsMatchState'
  <2>1. IdsInOrder'
    BY <1>1, <1>2, DeleteRooms DEF IndInv, IdsInOrder
  <2>2. ConfigsAsked'
    BY <1>1, <1>2, DeleteRooms DEF IndInv, ConfigsAsked
  <2>3. ListsMatchState'
    BY <1>1, <1>2, DeleteRooms DEF IndInv, ListsMatchState
  <2> QED
    BY <2>1, <2>2, <2>3
<1>8. SeatsOfTheGone'
  <2> SUFFICES ASSUME NEW r \in RoomIds, NEW c \in disconnected'[r]
               PROVE  conn'[c] = "gone" /\ state'[r] \in {"start", "end"}
    BY DEF SeatsOfTheGone
  <2>1. r \notin Z /\ c \in disconnected[r] /\ state'[r] = state[r] /\ c \in Conns
    BY <1>1, <1>2, DeleteRooms DEF IndInv, TypeOK
  <2> QED
    BY <1>3, <2>1 DEF IndInv, SeatsOfTheGone
<1>9. MembershipConsistent'
  <2>1. ASSUME NEW c \in Conns \ refused, connection_map'[c] # NoRoom
        PROVE  c \in playermap'[connection_map'[c]]
    <3>1. c \notin swept(Z) /\ connection_map'[c] = connection_map[c]
      BY <1>1, <2>1
    <3>2. c \in playermap[connection_map[c]] /\ connection_map[c] \in RoomIds
      BY <2>1, <3>1 DEF IndInv, TypeOK, MembershipConsistent
    <3>3. connection_map[c] \notin Z
      BY <1>4, <3>1, <3>2
    <3> QED
      BY <1>1, <1>2, <3>1, <3>2, <3>3, DeleteRooms
  <2>2. ASSUME NEW r \in RoomIds, NEW c \in playermap'[r]
        PROVE  /\ connection_map'[c] = r
               /\ conn'[c] \in {"open", "closing"}
               /\ state'[r] \in {"waiting", "start", "end"}
    <3>1. r \notin Z /\ c \in playermap[r] /\ state'[r] = state[r] /\ c \in Conns
      BY <1>1, <1>2, <2>2, DeleteRooms DEF IndInv, TypeOK
    <3>2. connection_map[c] = r /\ conn[c] \in {"open", "closing"}
          /\ state[r] \in {"waiting", "start", "end"}
      BY <3>1 DEF IndInv, MembershipConsistent
    <3>3. \A z \in Z : c \notin playermap[z] /\ c \notin disconnected[z]
      BY <1>1, <1>2, <3>1, <3>2, DeleteRooms DEF IndInv, MembershipConsistent, SeatsOfTheGone
    <3>4. c \notin swept(Z)
      BY <1>4, <3>1, <3>3
    <3> QED
      BY <1>1, <1>3, <3>1, <3>2, <3>4
  <2> QED
    BY <1>1, <2>1, <2>2 DEF MembershipConsistent
<1>10. SeatsKept'
  BY <1>1, <1>2, DeleteRooms DEF IndInv, SeatsKept
<1>11. CountdownSound'
  BY <1>1, <1>2, DeleteRooms DEF IndInv, CountdownSound
<1>12. RefusedNowhere'
  <2> SUFFICES ASSUME NEW c \in refused, connection_map'[c] # NoRoom
               PROVE  \/ state'[connection_map'[c]] = "deleted"
                      \/ /\ state'[connection_map'[c]] = "waiting"
                         /\ config'[connection_map'[c]].max < 1
    BY <1>1 DEF IndInv, RefusedNowhere
  <2> DEFINE r == connection_map[c]
  <2>1. connection_map'[c] = r /\ r \in RoomIds
    BY <1>1 DEF IndInv, TypeOK
  <2>2. state[r] = "deleted" \/ (state[r] = "waiting" /\ config[r].max < 1)
    BY <2>1, RoomIdsFacts DEF IndInv, RefusedNowhere
  <2> HIDE DEF r
  <2>3. CASE r \in Z
    BY <1>1, <1>2, <2>1, <2>3, DeleteRooms
  <2>4. CASE r \notin Z
    <3>1. state'[r] = state[r] /\ config'[r] = config[r]
      BY <1>1, <1>2, <2>1, <2>4, DeleteRooms
    <3> QED
      BY <2>1, <2>2, <3>1
  <2> QED
    BY <2>3, <2>4
<1> QED
  BY <1>5, <1>6, <1>7, <1>8, <1>9, <1>10, <1>11, <1>12 DEF IndInv

\* Stopping leaves no room and no connection behind.
LEMMA EndStep ==
    ASSUME IndInv, on_network_server_end
    PROVE  IndInv'
<1> DEFINE Z == waiting_rooms \cup rooms
<1>1. /\ server' = "stopped" /\ waiting_rooms' = {} /\ rooms' = {} /\ new_connections' = {}
      /\ connection_map' = [c \in Conns |-> NoRoom]
      /\ conn' = [c \in Conns |-> IF Live(c) THEN "gone" ELSE conn[c]]
      /\ delete_rooms(Z)
      /\ UNCHANGED <<user_data, room_id_counter, refused, view, expired>>
  BY DEF on_network_server_end
<1>2. Z \in SUBSET (waiting_rooms \cup rooms)
  OBVIOUS
<1>3. \A r \in RoomIds \ Z : state[r] \in {"none", "deleted"} /\ playermap[r] = {} /\ disconnected[r] = {}
  BY DEF IndInv, TypeOK, ListsMatchState, RoomStates, MembershipConsistent, SeatsOfTheGone
<1> HIDE DEF Z
<1>4. \A r \in RoomIds : /\ state'[r] \in {"none", "deleted"} /\ playermap'[r] = {}
                         /\ disconnected'[r] = {}
  BY <1>1, <1>2, <1>3, DeleteRooms
<1>5. TypeOK'
  <2>1. conn' \in [Conns -> ConnStates]
    BY <1>1 DEF IndInv, TypeOK, ConnStates
  <2> QED
    BY <1>1, <1>2, <2>1, DeleteRooms DEF IndInv, TypeOK
<1>6. FreshUnplaced' /\ ConfigsAsked' /\ SeatsOfTheGone' /\ MembershipConsistent' /\ RefusedNowhere'
  BY <1>1, <1>4 DEF IndInv, TypeOK, RefusedNowhere, FreshUnplaced, ConfigsAsked, SeatsOfTheGone, MembershipConsistent
<1>7. IdsInOrder'
  BY <1>1, <1>2, DeleteRooms DEF IndInv, IdsInOrder
<1>8. ListsMatchState' /\ SeatsKept'
  BY <1>1, <1>4 DEF ListsMatchState, SeatsKept
<1>9. CountdownSound'
  BY <1>1, <1>2, <1>3, DeleteRooms DEF IndInv, CountdownSound
<1> QED
  BY <1>5, <1>6, <1>7, <1>8, <1>9 DEF IndInv

\* Destroying a connection that no room holds: it has no entry, or its own room refused it.
LEMMA DestroyOutside ==
    ASSUME IndInv, NEW c \in Conns, destroy_connection(c),
           connection_map[c] = NoRoom \/ c \notin playermap[connection_map[c]]
    PROVE  /\ IndInv'
           /\ \A r \in RoomIds : c \notin playermap[r]
           /\ conn' = [conn EXCEPT ![c] = "gone"]
           /\ view' = [view EXCEPT ![c] = {}]
           /\ UNCHANGED <<waiting_rooms, rooms, roomVars, observed, redisVars>>
<1>1. /\ connection_map' = [connection_map EXCEPT ![c] = NoRoom]
      /\ conn' = [conn EXCEPT ![c] = "gone"]
      /\ view' = [view EXCEPT ![c] = {}]
      /\ UNCHANGED <<server, user_data, new_connections, waiting_rooms, rooms, room_id_counter,
                     refused, roomVars, observed, redisVars>>
  <2>1. CASE connection_map[c] = NoRoom
    BY <2>1 DEF destroy_connection
  <2>2. CASE connection_map[c] # NoRoom
    <3> DEFINE r == connection_map[c]
    <3>1. r \in RoomIds /\ c \notin playermap[r]
      BY <2>2 DEF IndInv, TypeOK
    <3>2. state[r] \in {"waiting", "deleted"}
      BY <2>2, <3>1 DEF IndInv, MembershipConsistent, RefusedNowhere
    <3>3. c \notin disconnected[r]
      BY <3>1, <3>2 DEF IndInv, SeatsOfTheGone
    <3>4. [disconnected EXCEPT ![r] = @ \ {c}] = disconnected
      BY <3>1, <3>3 DEF IndInv, TypeOK
    <3> QED
      BY <2>2, <3>1, <3>2, <3>4 DEF destroy_connection
  <2> QED
    BY <2>1, <2>2
<1>2. \A r \in RoomIds : c \notin playermap[r]
  BY RoomIdsFacts DEF IndInv, MembershipConsistent
<1>3. TypeOK'
  BY <1>1 DEF IndInv, TypeOK, ConnStates
<1>4. RefusedNowhere' /\ FreshUnplaced' /\ IdsInOrder' /\ ConfigsAsked'
  BY <1>1 DEF IndInv, TypeOK, RefusedNowhere, FreshUnplaced, IdsInOrder, ConfigsAsked
<1>5. SeatsOfTheGone'
  BY <1>1 DEF IndInv, TypeOK, SeatsOfTheGone
<1>6. MembershipConsistent'
  BY <1>1, <1>2 DEF IndInv, TypeOK, MembershipConsistent
<1>7. ListsMatchState' /\ SeatsKept' /\ CountdownSound'
  BY <1>1 DEF IndInv, ListsMatchState, SeatsKept, CountdownSound
<1> QED
  BY <1>1, <1>2, <1>3, <1>4, <1>5, <1>6, <1>7 DEF IndInv

\* A player leaves a room that goes on.
LEMMA DestroyInside ==
    ASSUME IndInv, NEW c \in Conns, NEW r \in RoomIds, Live(c),
           connection_map[c] = r, c \in playermap[r],
           connection_map' = [connection_map EXCEPT ![c] = NoRoom],
           player_leaves(c, r, playermap[r] \ {c}),
           view' = [Told(playermap[r] \ {c}, playermap[r] \ {c}) EXCEPT ![c] = {}],
           UNCHANGED <<server, user_data, new_connections, room_id_counter, refused, expired>>
    PROVE  IndInv'
<1> DEFINE P == playermap[r] \ {c}
           below == below_min(r, P)
           ends == state[r] \in {"start", "end"} /\ below
<1>1. /\ P \in SUBSET Conns
      /\ Cardinality(P) = Cardinality(playermap[r]) - 1
      /\ Cardinality(P) \in Nat /\ Cardinality(playermap[r]) \in Nat
      /\ config[r].min \in Int /\ config[r].max \in Int
      /\ state[r] \in {"waiting", "start", "end"}
  <2>1. playermap[r] \in SUBSET Conns /\ config[r] \in [min: Int, max: Int, after: BOOLEAN]
    BY DEF IndInv, TypeOK
  <2>2. state[r] \in {"waiting", "start", "end"}
    BY DEF IndInv, MembershipConsistent
  <2>3. Cardinality(P) = Cardinality(playermap[r]) - 1
    BY <2>1, PlayersRemove
  <2> QED
    BY <2>1, <2>2, <2>3, PlayersFinite
<1>2. /\ playermap' = [playermap EXCEPT ![r] = P]
      /\ observed' = [observed EXCEPT ![r] = @ \ {c}]
      /\ count_down' = [count_down EXCEPT ![r] = IF state[r] = "waiting" /\ below THEN 0 ELSE @]
      /\ UNCHANGED <<waiting_rooms, rooms, config, wroom_count, wroom_keys, room_count>>
  BY DEF player_leaves
<1>3. \/ /\ ends
         /\ state' = [state EXCEPT ![r] = "end"]
         /\ disconnected' = disconnected
         /\ conn' = [Kicked(P) EXCEPT ![c] = "gone"]
      \/ /\ ~ends
         /\ state' = state
         /\ disconnected' = [disconnected EXCEPT ![r] =
                               IF state[r] = "waiting" THEN @ ELSE @ \cup {c}]
         /\ conn' = [conn EXCEPT ![c] = "gone"]
  BY DEF player_leaves
<1>4. /\ conn'[c] = "gone"
      /\ \A d \in Conns \ {c} : conn'[d] = conn[d] \/ (conn[d] = "open" /\ conn'[d] = "closing")
  BY <1>3 DEF Kicked, IndInv, TypeOK
<1>5. \A q \in RoomIds : c \in playermap[q] => q = r
  BY DEF IndInv, MembershipConsistent
<1>6. TypeOK'
  <2>1. conn' \in [Conns -> ConnStates]
    BY <1>3 DEF Kicked, IndInv, TypeOK, ConnStates
  <2>2. view' \in [Conns -> SUBSET Conns]
    BY <1>1 DEF Told, IndInv, TypeOK
  <2>3. state' \in [RoomIds -> RoomStates] /\ disconnected' \in [RoomIds -> SUBSET Conns]
    <3>1. state' \in [RoomIds -> RoomStates]
      BY <1>3 DEF IndInv, TypeOK, RoomStates
    <3>2. disconnected' \in [RoomIds -> SUBSET Conns]
      <4>1. disconnected \in [RoomIds -> SUBSET Conns]
        BY DEF IndInv, TypeOK
      <4> QED
        BY <1>3, <4>1
    <3> QED
      BY <3>1, <3>2
  <2>4. /\ playermap' \in [RoomIds -> SUBSET Conns]
        /\ observed' \in [RoomIds -> SUBSET Conns]
        /\ count_down' \in [RoomIds -> 0 .. MAX_COUNT_DOWN]
        /\ connection_map' \in [Conns -> RoomIds \cup {NoRoom}]
    BY <1>1, <1>2, BoundsAssumption DEF IndInv, TypeOK
  <2> QED
    BY <1>2, <2>1, <2>2, <2>3, <2>4 DEF IndInv, TypeOK
<1>7. FreshUnplaced'
  BY DEF IndInv, TypeOK, FreshUnplaced
<1>8. IdsInOrder' /\ ConfigsAsked'
  BY <1>1, <1>2, <1>3 DEF IndInv, TypeOK, IdsInOrder, ConfigsAsked
<1>9. SeatsOfTheGone'
  <2> SUFFICES ASSUME NEW q \in RoomIds, NEW d \in disconnected'[q]
               PROVE  conn'[d] = "gone" /\ state'[q] \in {"start", "end"}
    BY DEF SeatsOfTheGone
  <2>1. (d \in disconnected[q] /\ d # c) \/ (d = c /\ q = r /\ state[r] \in {"start", "end"} /\ state'[r] = state[r])
        \/ (d = c /\ d \in disconnected[q])
    BY <1>1, <1>3 DEF IndInv, TypeOK
  <2>2. CASE d \in disconnected[q] /\ d # c
    BY <1>3, <1>4, <2>2 DEF IndInv, TypeOK, SeatsOfTheGone
  <2>3. CASE d = c /\ q = r /\ state[r] \in {"start", "end"} /\ state'[r] = state[r]
    BY <1>4, <2>3
  <2>4. CASE d = c /\ d \in disconnected[q]
    BY <2>4 DEF IndInv, SeatsOfTheGone, Live
  <2> QED
    BY <2>1, <2>2, <2>3, <2>4
<1>10. MembershipConsistent'
  <2>1. ASSUME NEW d \in Conns \ refused, connection_map'[d] # NoRoom
        PROVE  d \in playermap'[connection_map'[d]]
    BY <1>2, <2>1 DEF IndInv, TypeOK, MembershipConsistent
  <2>2. ASSUME NEW q \in RoomIds, NEW d \in playermap'[q]
        PROVE  /\ connection_map'[d] = q
               /\ conn'[d] \in {"open", "closing"}
               /\ state'[q] \in {"waiting", "start", "end"}
    <3>1. d \in playermap[q] /\ d # c /\ d \in Conns
      BY <1>2, <1>5, <2>2 DEF IndInv, TypeOK
    <3>2. /\ connection_map[d] = q
          /\ conn[d] \in {"open", "closing"}
          /\ state[q] \in {"waiting", "start", "end"}
      BY <3>1 DEF IndInv, MembershipConsistent
    <3> QED
      BY <1>3, <1>4, <3>1, <3>2 DEF IndInv, TypeOK
  <2> QED
    BY <2>1, <2>2 DEF MembershipConsistent
<1>11. ListsMatchState'
  BY <1>2, <1>3 DEF IndInv, TypeOK, ListsMatchState
<1>12. SeatsKept'
  <2> SUFFICES ASSUME NEW q \in RoomIds, state'[q] = "start"
               PROVE  /\ Cardinality(playermap'[q]) >= config'[q].min
                      /\ Cardinality(playermap'[q]) + Cardinality(disconnected'[q]) <= config'[q].max
    BY DEF SeatsKept
  <2>1. CASE q # r
    BY <1>2, <1>3, <2>1 DEF IndInv, TypeOK, SeatsKept
  <2>2. CASE q = r
    <3>1. state[r] = "start" /\ ~below /\ disconnected'[r] = disconnected[r] \cup {c}
      BY <1>3, <2>2 DEF IndInv, TypeOK
    <3>2. c \notin disconnected[r]
      BY DEF IndInv, SeatsOfTheGone, Live
    <3>3. /\ Cardinality(disconnected'[r]) = Cardinality(disconnected[r]) + 1
          /\ Cardinality(disconnected[r]) \in Nat
      <4>1. disconnected[r] \in SUBSET Conns
        BY DEF IndInv, TypeOK
      <4> QED
        BY <3>1, <3>2, <4>1, PlayersAdd, PlayersFinite
    <3>4. Cardinality(P) >= config[r].min
      BY <1>1, <3>1 DEF below_min
    <3>5. Cardinality(playermap[r]) + Cardinality(disconnected[r]) <= config[r].max
      BY <3>1 DEF IndInv, SeatsKept
    <3>6. playermap'[r] = P /\ config'[r] = config[r]
      BY <1>2 DEF IndInv, TypeOK
    <3> QED
      BY <1>1, <2>2, <3>3, <3>4, <3>5, <3>6
  <2> QED
    BY <2>1, <2>2
<1>13. CountdownSound'
  <2> SUFFICES ASSUME NEW q \in RoomIds, count_down'[q] > 0
               PROVE  /\ state'[q] = "waiting"
                      /\ Cardinality(playermap'[q]) \in config'[q].min .. config'[q].max - 1
    BY DEF CountdownSound
  <2>1. CASE q # r
    BY <1>2, <1>3, <2>1 DEF IndInv, TypeOK, CountdownSound
  <2>2. CASE q = r
    <3>1. count_down[r] > 0 /\ ~(state[r] = "waiting" /\ below)
      BY <1>2, <2>2 DEF IndInv, TypeOK
    <3>2. /\ state[r] = "waiting"
          /\ Cardinality(playermap[r]) \in config[r].min .. config[r].max - 1
      BY <3>1 DEF IndInv, CountdownSound
    <3>3. state'[r] = "waiting" /\ playermap'[r] = P /\ config'[r] = config[r]
      BY <1>2, <1>3, <3>2 DEF IndInv, TypeOK
    <3>4. Cardinality(P) >= config[r].min
      BY <1>1, <3>1, <3>2 DEF below_min
    <3> QED
      BY <1>1, <2>2, <3>2, <3>3, <3>4
  <2> QED
    BY <2>1, <2>2
<1>14. RefusedNowhere'
  <2>1. \A q \in RoomIds : state'[q] # state[q] => state[q] \in {"start", "end"}
    BY <1>3 DEF IndInv, TypeOK
  <2> QED
    BY <1>2, <2>1 DEF IndInv, TypeOK, RefusedNowhere
<1> QED
  BY <1>6, <1>7, <1>8, <1>9, <1>10, <1>11, <1>12, <1>13, <1>14 DEF IndInv

\* The last player of a room that ends takes the room along.
LEMMA DestroyLast ==
    ASSUME IndInv, NEW c \in Conns, NEW r \in RoomIds,
           connection_map[c] = r, c \in playermap[r], playermap[r] \ {c} = {},
           connection_map' = [connection_map EXCEPT ![c] = NoRoom],
           conn' = [conn EXCEPT ![c] = "gone"],
           view' = [view EXCEPT ![c] = {}],
           waiting_rooms' = waiting_rooms \ {r},
           rooms' = rooms \ {r},
           delete_rooms({r}),
           UNCHANGED <<server, user_data, new_connections, room_id_counter, refused, expired>>
    PROVE  IndInv'
<1>1. {r} \in SUBSET (waiting_rooms \cup rooms)
  BY DEF IndInv, ListsMatchState, MembershipConsistent
<1>2. TypeOK'
  <2>1. /\ conn' \in [Conns -> ConnStates]
        /\ view' \in [Conns -> SUBSET Conns]
        /\ connection_map' \in [Conns -> RoomIds \cup {NoRoom}]
    BY DEF IndInv, TypeOK, ConnStates
  <2> QED
    BY <1>1, <2>1, DeleteRooms DEF IndInv, TypeOK
<1>3. FreshUnplaced'
  BY DEF IndInv, TypeOK, FreshUnplaced
<1>4. IdsInOrder'
  BY <1>1, DeleteRooms DEF IndInv, IdsInOrder
<1>5. ConfigsAsked'
  BY <1>1, DeleteRooms DEF IndInv, ConfigsAsked
<1>6. SeatsOfTheGone'
  <2> SUFFICES ASSUME NEW q \in RoomIds, NEW d \in disconnected'[q]
               PROVE  conn'[d] = "gone" /\ state'[q] \in {"start", "end"}
    BY DEF SeatsOfTheGone
  <2>1. q # r /\ d \in disconnected[q] /\ state'[q] = state[q] /\ d \in Conns
    BY <1>1, DeleteRooms DEF IndInv, TypeOK
  <2> QED
    BY <2>1 DEF IndInv, TypeOK, SeatsOfTheGone
<1>7. MembershipConsistent'
  <2>1. ASSUME NEW d \in Conns \ refused, connection_map'[d] # NoRoom
        PROVE  d \in playermap'[connection_map'[d]]
    <3>1. d # c /\ connection_map'[d] = connection_map[d]
      BY <2>1 DEF IndInv, TypeOK
    <3>2. d \in playermap[connection_map[d]] /\ connection_map[d] \in RoomIds
      BY <2>1, <3>1 DEF IndInv, TypeOK, MembershipConsistent
    <3>3. connection_map[d] # r
      BY <3>1, <3>2
    <3> QED
      BY <1>1, <3>1, <3>2, <3>3, DeleteRooms
  <2>2. ASSUME NEW q \in RoomIds, NEW d \in playermap'[q]
        PROVE  /\ connection_map'[d] = q
               /\ conn'[d] \in {"open", "closing"}
               /\ state'[q] \in {"waiting", "start", "end"}
    <3>1. q # r /\ d \in playermap[q] /\ state'[q] = state[q] /\ d \in Conns
      BY <1>1, <2>2, DeleteRooms DEF IndInv, TypeOK
    <3>2. d # c
      BY <3>1 DEF IndInv, MembershipConsistent
    <3> QED
      BY <3>1, <3>2 DEF IndInv, TypeOK, MembershipConsistent
  <2> QED
    BY <2>1, <2>2 DEF MembershipConsistent
<1>8. ListsMatchState'
  BY <1>1, DeleteRooms DEF IndInv, ListsMatchState
<1>9. SeatsKept'
  BY <1>1, DeleteRooms DEF IndInv, SeatsKept
<1>10. CountdownSound'
  <2>1. /\ ~(count_down'[r] > 0)
        /\ \A q \in RoomIds \ {r} : /\ state'[q] = state[q]
                                     /\ config'[q] = config[q]
                                     /\ playermap'[q] = playermap[q]
                                     /\ count_down'[q] = count_down[q]
    BY <1>1, DeleteRooms
  <2> QED
    BY <2>1 DEF IndInv, CountdownSound
<1>11. RefusedNowhere'
  <2> SUFFICES ASSUME NEW d \in refused, connection_map'[d] # NoRoom
               PROVE  \/ state'[connection_map'[d]] = "deleted"
                      \/ /\ state'[connection_map'[d]] = "waiting"
                         /\ config'[connection_map'[d]].max < 1
    BY DEF IndInv, RefusedNowhere
  <2> DEFINE q == connection_map[d]
  <2>1. connection_map'[d] = q /\ q \in RoomIds
    BY DEF IndInv, TypeOK
  <2>2. state[q] = "deleted" \/ (state[q] = "waiting" /\ config[q].max < 1)
    BY <2>1, RoomIdsFacts DEF IndInv, TypeOK, RefusedNowhere
  <2> HIDE DEF q
  <2>3. CASE q = r
    BY <1>1, <2>1, <2>3, DeleteRooms
  <2>4. CASE q # r
    <3>1. state'[q] = state[q] /\ config'[q] = config[q]
      BY <1>1, <2>1, <2>4, DeleteRooms
    <3> QED
      BY <2>1, <2>2, <3>1
  <2> QED
    BY <2>3, <2>4
<1> QED
  BY <1>2, <1>3, <1>4, <1>5, <1>6, <1>7, <1>8, <1>9, <1>10, <1>11 DEF IndInv

\* The three ways a connection ends.
LEMMA DestroyStep ==
    ASSUME IndInv, NEW c \in Conns, destroy_connection(c)
    PROVE  IndInv'
<1>1. CASE connection_map[c] = NoRoom \/ c \notin playermap[connection_map[c]]
  BY <1>1, DestroyOutside
<1>2. CASE connection_map[c] # NoRoom /\ c \in playermap[connection_map[c]]
  <2> DEFINE r == connection_map[c]
             P == playermap[r] \ {c}
             last == /\ P = {}
                     /\ \/ state[r] = "end"
                        \/ state[r] = "start" /\ c \in playermap[r] /\ below_min(r, P)
  <2>1. r \in RoomIds /\ c \in playermap[r]
    BY <1>2 DEF IndInv, TypeOK
  <2>2. CASE last
    BY <1>2, <2>1, <2>2, DestroyLast DEF destroy_connection
  <2>3. CASE ~last
    BY <1>2, <2>1, <2>3, DestroyInside DEF destroy_connection
  <2> QED
    BY <2>2, <2>3
<1> QED
  BY <1>1, <1>2

\* Among waiting rooms there is a first one, the one the search tries first.
LEMMA LeastRoom ==
    ASSUME NEW fits \in SUBSET RoomIds, fits # {}
    PROVE  \E q \in fits : \A p \in fits : q <= p
<1>1. fits \in SUBSET Nat
  BY RoomIdsFacts
<1>2. PICK n \in fits : TRUE
  OBVIOUS
<1> DEFINE R == OpToRel(<, Nat)
<1>3. IsWellFoundedOn(R, Nat)
  BY NatLessThanWellFounded
<1>4. \A p, q \in Nat : <<p, q>> \in R <=> p < q
  BY DEF OpToRel
<1> HIDE DEF R
<1>5. \E q \in fits : \A p \in fits : ~(<<p, q>> \in R)
  BY <1>1, <1>2, <1>3, WFMin
<1>6. PICK q \in fits : \A p \in fits : ~(<<p, q>> \in R)
  BY <1>5
<1>7. \A p \in fits : p \in Nat /\ q \in Nat
  BY <1>1
<1>8. \A p \in fits : ~(p < q)
  BY <1>4, <1>6, <1>7
<1> QED
  BY <1>7, <1>8

\* The room do_process_roomjoin finds is waiting, or is the started room that keeps the
\* seat of prev; in both there is room for one more.
LEMMA RoomFound ==
    ASSUME IndInv, NEW c \in Conns, connection_map[c] = NoRoom,
           NEW prev, NEW id \in RoomIds \cup {NoRoom},
           NEW r, r = room_for(c, prev, id), r # NoRoom
    PROVE  /\ r \in RoomIds
           /\ c \notin playermap[r]
           /\ Cardinality(playermap[r]) < config[r].max
           /\ \/ r \in waiting_rooms
              \/ state[r] = "start" /\ prev \in disconnected[r]
<1> DEFINE back == previous_room(prev, id)
           fits == {q \in waiting_rooms : Accepts(q, c, NoConn)}
<1>1. r = IF back # NoRoom
          THEN IF Accepts(back, c, prev) THEN back ELSE NoRoom
          ELSE IF fits = {} THEN NoRoom ELSE CHOOSE q \in fits : \A p \in fits : q <= p
  BY DEF room_for
<1>2. CASE back # NoRoom
  <2>1. r = back /\ Accepts(r, c, prev)
    BY <1>1, <1>2
  <2>2. r = id /\ id \in rooms /\ state[id] # "end" /\ prev \in disconnected[id]
    BY <1>2, <2>1 DEF previous_room
  <2> QED
    BY <2>1, <2>2 DEF Accepts, IndInv, TypeOK, ListsMatchState
<1>3. CASE back = NoRoom
  <2>1. fits # {} /\ r = CHOOSE q \in fits : \A p \in fits : q <= p
    BY <1>1, <1>3
  <2>2. \E q \in fits : \A p \in fits : q <= p
    BY <2>1, LeastRoom DEF IndInv, TypeOK
  <2>3. r \in fits
    BY <2>1, <2>2
  <2> QED
    BY <2>3 DEF Accepts, IndInv, TypeOK
<1> QED
  BY <1>2, <1>3

\* try_add_connection puts an unplaced connection into a new, a waiting or, in the place
\* of p, a started room that has a free seat.
LEMMA PlayerAdded ==
    ASSUME IndInv, NEW c \in Conns, conn[c] = "open", connection_map[c] = NoRoom,
           NEW r \in RoomIds, NEW k \in Configs, NEW p,
           NEW wr, NEW wc \in [Signatures -> Int], NEW wk \in SUBSET Signatures,
           \/ state[r] \in {"none", "waiting"} /\ wr = waiting_rooms \cup {r}
           \/ state[r] = "start" /\ p \in disconnected[r] /\ wr = waiting_rooms,
           "ROOM_CONFIG_RECEIVED" \notin user_data[c],
           Cardinality(playermap[r]) < k.max,
           state[r] # "none" => k = config[r],
           add_player(c, r, k, p, wr, wc, wk),
           config' \in [RoomIds -> [min: Int, max: Int, after: BOOLEAN]],
           config'[r] = k, \A q \in RoomIds \ {r} : config'[q] = config[q],
           room_id_counter' \in 0 .. MaxRooms,
           \A q \in RoomIds : q < room_id_counter' <=> q < room_id_counter \/ q = r,
           connection_map' = [connection_map EXCEPT ![c] = r],
           user_data' = [user_data EXCEPT ![c] = @ \cup {"ROOM_CONFIG_RECEIVED"}],
           new_connections' = new_connections \ {c},
           UNCHANGED <<server, refused, conn, expired>>
    PROVE  IndInv'
<1> DEFINE P == playermap[r] \cup {c}
           n == Cardinality(P)
           ready == n >= k.min /\ state[r] \in {"none", "waiting"}
           full == n = k.max
<1>1. \A q \in RoomIds : c \notin playermap[q] /\ c \notin disconnected[q]
  BY RoomIdsFacts DEF IndInv, MembershipConsistent, SeatsOfTheGone
<1>2. /\ P \in SUBSET Conns
      /\ n = Cardinality(playermap[r]) + 1
      /\ n \in Nat /\ n <= k.max
      /\ k.min \in Int /\ k.max \in Int
  <2>1. playermap[r] \in SUBSET Conns
    BY DEF IndInv, TypeOK
  <2>2. k.min \in Int /\ k.max \in Int
    BY ConfigsAssumption
  <2>3. n = Cardinality(playermap[r]) + 1 /\ Cardinality(playermap[r]) \in Nat
    BY <1>1, <2>1, PlayersAdd, PlayersFinite
  <2> QED
    BY <2>1, <2>2, <2>3
<1>3. /\ playermap' = [playermap EXCEPT ![r] = P]
      /\ disconnected' = [disconnected EXCEPT ![r] = @ \ {p}]
      /\ observed' = [observed EXCEPT ![r] = @ \cup {c}]
      /\ view' = Told(P, P)
      /\ count_down' = [count_down EXCEPT ![r] =
                          IF ~ready THEN @ ELSE IF full THEN 0 ELSE MAX_COUNT_DOWN]
  BY DEF add_player
<1>4. \/ /\ ready /\ full
         /\ state' = [state EXCEPT ![r] = "start"]
         /\ waiting_rooms' = wr \ {r}
         /\ rooms' = rooms \cup {r}
      \/ /\ ~(ready /\ full)
         /\ state' = [state EXCEPT ![r] = IF @ = "none" THEN "waiting" ELSE @]
         /\ waiting_rooms' = wr
         /\ rooms' = rooms
  BY DEF add_player, onroom_pre_start, waiting_without
<1>5. /\ wroom_count' \in [Signatures -> Int]
      /\ wroom_keys' \in SUBSET Signatures
      /\ room_count' \in [Signatures -> Int]
  BY DEF add_player, onroom_pre_start, room_count_started, IndInv, TypeOK
<1>6. state[r] \in {"none", "waiting"} => disconnected[r] = {} /\ disconnected'[r] = {}
  BY <1>3 DEF IndInv, TypeOK, SeatsOfTheGone
<1> HIDE DEF P, n, ready, full
<1>7. TypeOK'
  <2>1. view' \in [Conns -> SUBSET Conns]
    BY <1>2, <1>3 DEF Told, IndInv, TypeOK
  <2>2. /\ playermap' \in [RoomIds -> SUBSET Conns]
        /\ disconnected' \in [RoomIds -> SUBSET Conns]
        /\ observed' \in [RoomIds -> SUBSET Conns]
    BY <1>2, <1>3 DEF IndInv, TypeOK
  <2>3. count_down' \in [RoomIds -> 0 .. MAX_COUNT_DOWN]
    BY <1>3, BoundsAssumption DEF IndInv, TypeOK
  <2>4. state' \in [RoomIds -> RoomStates]
    BY <1>4 DEF IndInv, TypeOK, RoomStates
  <2>5. waiting_rooms' \in SUBSET RoomIds /\ rooms' \in SUBSET RoomIds
    BY <1>4 DEF IndInv, TypeOK
  <2>6. /\ connection_map' \in [Conns -> RoomIds \cup {NoRoom}]
        /\ user_data' \in [Conns -> SUBSET {"FIRST_HI_RECEIVED", "ROOM_CONFIG_RECEIVED"}]
        /\ new_connections' \in SUBSET Conns
    BY DEF IndInv, TypeOK
  <2> QED
    BY <1>5, <2>1, <2>2, <2>3, <2>4, <2>5, <2>6 DEF IndInv, TypeOK
<1>8. FreshUnplaced'
  BY DEF IndInv, TypeOK, FreshUnplaced
<1>9. IdsInOrder'
  BY <1>4 DEF IndInv, TypeOK, IdsInOrder
<1>10. ConfigsAsked'
  BY <1>4 DEF IndInv, TypeOK, ConfigsAsked
<1>11. SeatsOfTheGone'
  <2> SUFFICES ASSUME NEW q \in RoomIds, NEW d \in disconnected'[q]
               PROVE  conn'[d] = "gone" /\ state'[q] \in {"start", "end"}
    BY DEF SeatsOfTheGone
  <2>1. d \in disconnected[q]
    BY <1>3 DEF IndInv, TypeOK
  <2>2. conn[d] = "gone" /\ state[q] \in {"start", "end"}
    BY <2>1 DEF IndInv, SeatsOfTheGone
  <2> QED
    BY <1>4, <2>2 DEF IndInv, TypeOK
<1>12. MembershipConsistent'
  <2>1. ASSUME NEW d \in Conns \ refused, connection_map'[d] # NoRoom
        PROVE  d \in playermap'[connection_map'[d]]
    BY <1>3, <2>1 DEF IndInv, TypeOK, MembershipConsistent, P
  <2>2. ASSUME NEW q \in RoomIds, NEW d \in playermap'[q]
        PROVE  /\ connection_map'[d] = q
               /\ conn'[d] \in {"open", "closing"}
               /\ state'[q] \in {"waiting", "start", "end"}
    <3>1. (d = c /\ q = r) \/ (d # c /\ d \in playermap[q] /\ d \in Conns)
      BY <1>1, <1>3, <2>2 DEF IndInv, TypeOK, P
    <3>2. CASE d = c /\ q = r
      BY <1>4, <3>2 DEF IndInv, TypeOK
    <3>3. CASE d # c /\ d \in playermap[q] /\ d \in Conns
      <4>1. /\ connection_map[d] = q
            /\ conn[d] \in {"open", "closing"}
            /\ state[q] \in {"waiting", "start", "end"}
        BY <3>3 DEF IndInv, MembershipConsistent
      <4> QED
        BY <1>4, <3>3, <4>1 DEF IndInv, TypeOK
    <3> QED
      BY <3>1, <3>2, <3>3
  <2> QED
    BY <2>1, <2>2 DEF MembershipConsistent
<1>13. ListsMatchState'
  BY <1>4 DEF IndInv, TypeOK, ListsMatchState, ready
<1>14. SeatsKept'
  <2> SUFFICES ASSUME NEW q \in RoomIds, state'[q] = "start"
               PROVE  /\ Cardinality(playermap'[q]) >= config'[q].min
                      /\ Cardinality(playermap'[q]) + Cardinality(disconnected'[q]) <= config'[q].max
    BY DEF SeatsKept
  <2>1. CASE q # r
    BY <1>3, <1>4, <2>1 DEF IndInv, TypeOK, SeatsKept
  <2>2. CASE q = r /\ state[r] \in {"none", "waiting"}
    <3>1. ready /\ full
      BY <1>4, <2>2 DEF IndInv, TypeOK
    <3>2. playermap'[r] = P /\ Cardinality(disconnected'[r]) = 0
      BY <1>3, <1>6, <2>2, FS_EmptySet DEF IndInv, TypeOK
    <3> QED
      BY <1>2, <2>2, <3>1, <3>2 DEF n, ready, full
  <2>3. CASE q = r /\ state[r] = "start" /\ p \in disconnected[r]
    <3>1. playermap'[r] = P /\ disconnected'[r] = disconnected[r] \ {p} /\ k = config[r]
      BY <1>3, <2>3 DEF IndInv, TypeOK
    <3>2. /\ Cardinality(disconnected'[r]) = Cardinality(disconnected[r]) - 1
          /\ Cardinality(disconnected[r]) \in Nat /\ Cardinality(playermap[r]) \in Nat
      <4>1. playermap[r] \in SUBSET Conns /\ disconnected[r] \in SUBSET Conns
        BY DEF IndInv, TypeOK
      <4> QED
        BY <2>3, <3>1, <4>1, PlayersFinite, PlayersRemove
    <3>3. /\ Cardinality(playermap[r]) >= config[r].min
          /\ Cardinality(playermap[r]) + Cardinality(disconnected[r]) <= config[r].max
      BY <2>3 DEF IndInv, SeatsKept
    <3> QED
      BY <1>2, <2>3, <3>1, <3>2, <3>3 DEF n
  <2> QED
    BY <2>1, <2>2, <2>3
<1>15. CountdownSound'
  <2> SUFFICES ASSUME NEW q \in RoomIds, count_down'[q] > 0
               PROVE  /\ state'[q] = "waiting"
                      /\ Cardinality(playermap'[q]) \in config'[q].min .. config'[q].max - 1
    BY DEF CountdownSound
  <2>1. CASE q # r
    BY <1>3, <1>4, <2>1 DEF IndInv, TypeOK, CountdownSound
  <2>2. CASE q = r
    <3>1. playermap'[r] = P /\ count_down'[r] = IF ~ready THEN count_down[r] ELSE IF full THEN 0 ELSE MAX_COUNT_DOWN
      BY <1>3 DEF IndInv, TypeOK
    <3>2. CASE ready
      <4>1. ~full
        BY <2>2, <3>1, <3>2
      <4>2. state'[r] = "waiting"
        BY <1>4, <3>2, <4>1 DEF IndInv, TypeOK, ready
      <4> QED
        BY <1>2, <2>2, <3>1, <3>2, <4>1, <4>2 DEF n, ready, full
    <3>3. CASE ~ready
      <4>1. /\ state[r] = "waiting"
            /\ Cardinality(playermap[r]) \in config[r].min .. config[r].max - 1
        BY <2>2, <3>1, <3>3 DEF IndInv, CountdownSound
      <4> QED
        BY <1>2, <3>3, <4>1 DEF ready
    <3> QED
      BY <3>2, <3>3
  <2> QED
    BY <2>1, <2>2
<1>16. RefusedNowhere'
  <2> SUFFICES ASSUME NEW d \in refused
               PROVE  /\ "ROOM_CONFIG_RECEIVED" \in user_data'[d]
                      /\ \/ connection_map'[d] = NoRoom
                         \/ state'[connection_map'[d]] = "deleted"
                         \/ /\ state'[connection_map'[d]] = "waiting"
                            /\ config'[connection_map'[d]].max < 1
    BY DEF RefusedNowhere
  <2> DEFINE q == connection_map[d]
  <2>1. d \in Conns /\ d # c /\ connection_map'[d] = q /\ user_data'[d] = user_data[d]
    BY DEF IndInv, TypeOK, RefusedNowhere
  <2>2. /\ "ROOM_CONFIG_RECEIVED" \in user_data[d]
        /\ q = NoRoom \/ state[q] = "deleted" \/ (state[q] = "waiting" /\ config[q].max < 1)
    BY DEF IndInv, RefusedNowhere
  <2> HIDE DEF q
  <2>3. q # r
    <3> SUFFICES ASSUME q = r PROVE FALSE
      OBVIOUS
    <3>1. state[r] = "waiting" /\ k = config[r] /\ k.max < 1
      BY <2>2, RoomIdsFacts
    <3>2. playermap[r] \in SUBSET Conns /\ k.max \in Int
      BY <1>2 DEF IndInv, TypeOK
    <3> QED
      BY <3>1, <3>2, PlayersFinite
  <2>4. q \in RoomIds \cup {NoRoom}
    BY <2>1 DEF IndInv, TypeOK, q
  <2>5. q \in RoomIds => state'[q] = state[q] /\ config'[q] = config[q]
    BY <1>4, <2>3 DEF IndInv, TypeOK
  <2> QED
    BY <2>1, <2>2, <2>4, <2>5
<1> QED
  BY <1>16, <1>7, <1>8, <1>9, <1>10, <1>11, <1>12, <1>13, <1>14, <1>15 DEF IndInv

\* A room whose configuration admits nobody is created without its first player.
LEMMA RoomOpenedEmpty ==
    ASSUME IndInv, NEW c \in Conns, "ROOM_CONFIG_RECEIVED" \notin user_data[c],
           NEW k \in Configs, ~(0 < k.max), room_id_counter \in RoomIds, join_new_room(c, k),
           user_data' = [user_data EXCEPT ![c] = @ \cup {"ROOM_CONFIG_RECEIVED"}],
           new_connections' = new_connections \ {c},
           UNCHANGED <<server, conn, expired>>
    PROVE  IndInv'
<1> DEFINE r == room_id_counter
           s == Signature(k)
<1>1. /\ room_id_counter' = r + 1
      /\ config' = [config EXCEPT ![r] = k]
      /\ connection_map' = [connection_map EXCEPT ![c] = r]
      /\ refused' = refused \cup {c}
      /\ state' = [state EXCEPT ![r] = "waiting"]
      /\ waiting_rooms' = waiting_rooms \cup {r}
      /\ wroom_count' = wroom_count_created(s)
      /\ wroom_keys' = wroom_keys \cup {s}
      /\ UNCHANGED <<playermap, disconnected, view, observed, count_down, rooms, room_count>>
  BY DEF join_new_room
<1>2. /\ r \in Int /\ r + 1 \in 0 .. MaxRooms /\ k.max \in Int
      /\ k \in [min: Int, max: Int, after: BOOLEAN]
      /\ state[r] = "none" /\ r \notin waiting_rooms /\ r \notin rooms
      /\ connection_map[c] = NoRoom
  BY RoomIdsFacts, BoundsAssumption, ConfigsAssumption
     DEF IndInv, TypeOK, IdsInOrder, ListsMatchState, FreshUnplaced
<1>3. /\ r \in RoomIds
      /\ \A q \in RoomIds : c \notin playermap[q]
      /\ playermap[r] = {} /\ disconnected[r] = {} /\ ~(count_down[r] > 0)
      /\ \A d \in Conns : connection_map[d] # r
  <2>1. \A q \in RoomIds : c \notin playermap[q]
    BY <1>2, RoomIdsFacts DEF IndInv, MembershipConsistent
  <2>2. playermap[r] = {} /\ disconnected[r] = {} /\ ~(count_down[r] > 0)
    BY <1>2 DEF IndInv, TypeOK, MembershipConsistent, SeatsOfTheGone, CountdownSound
  <2>3. \A d \in Conns : connection_map[d] # r
    BY <1>2, <2>2, RoomIdsFacts DEF IndInv, MembershipConsistent, RefusedNowhere
  <2> QED
    BY <2>1, <2>2, <2>3
<1> HIDE DEF r
<1>4. TypeOK'
  <2>1. wroom_count' \in [Signatures -> Int] /\ wroom_keys' \in SUBSET Signatures
    BY <1>1, SignatureCounted DEF wroom_count_created, IndInv, TypeOK
  <2>2. /\ config' \in [RoomIds -> [min: Int, max: Int, after: BOOLEAN]]
        /\ state' \in [RoomIds -> RoomStates]
        /\ waiting_rooms' \in SUBSET RoomIds
    BY <1>1, <1>2, <1>3 DEF IndInv, TypeOK, RoomStates
  <2>3. /\ connection_map' \in [Conns -> RoomIds \cup {NoRoom}]
        /\ user_data' \in [Conns -> SUBSET {"FIRST_HI_RECEIVED", "ROOM_CONFIG_RECEIVED"}]
        /\ new_connections' \in SUBSET Conns /\ refused' \in SUBSET Conns
    BY <1>1, <1>3 DEF IndInv, TypeOK
  <2> QED
    BY <1>1, <1>2, <2>1, <2>2, <2>3 DEF IndInv, TypeOK
<1>5. FreshUnplaced' /\ ConfigsAsked'
  BY <1>1, <1>2, <1>3 DEF IndInv, TypeOK, FreshUnplaced, ConfigsAsked
<1>6. IdsInOrder'
  <2> SUFFICES ASSUME NEW q \in RoomIds
               PROVE  q < room_id_counter' <=> state'[q] # "none"
    BY DEF IdsInOrder
  <2>1. q \in Int /\ (q < room_id_counter <=> state[q] # "none")
    BY RoomIdsFacts DEF IndInv, IdsInOrder
  <2> QED
    BY <1>1, <1>2, <1>3, <2>1 DEF IndInv, TypeOK, r
<1>7. SeatsOfTheGone'
  BY <1>1, <1>3 DEF IndInv, TypeOK, SeatsOfTheGone
<1>8. MembershipConsistent'
  <2>1. ASSUME NEW d \in Conns \ refused', connection_map'[d] # NoRoom
        PROVE  d \in playermap'[connection_map'[d]]
    BY <1>1, <2>1 DEF IndInv, TypeOK, MembershipConsistent
  <2>2. ASSUME NEW q \in RoomIds, NEW d \in playermap'[q]
        PROVE  /\ connection_map'[d] = q
               /\ conn'[d] \in {"open", "closing"}
               /\ state'[q] \in {"waiting", "start", "end"}
    BY <1>1, <1>3, <2>2 DEF IndInv, TypeOK, MembershipConsistent
  <2> QED
    BY <2>1, <2>2 DEF MembershipConsistent
<1>9. ListsMatchState'
  BY <1>1, <1>2, <1>3 DEF IndInv, TypeOK, ListsMatchState
<1>10. SeatsKept' /\ CountdownSound'
  BY <1>1, <1>3 DEF IndInv, TypeOK, SeatsKept, CountdownSound
<1>11. RefusedNowhere'
  BY <1>1, <1>2, <1>3 DEF IndInv, TypeOK, RefusedNowhere
<1> QED
  BY <1>4, <1>5, <1>6, <1>7, <1>8, <1>9, <1>10, <1>11 DEF IndInv

\* A match request places its connection once.
LEMMA MatchStep ==
    ASSUME IndInv, NEW c \in Conns, NEW k \in Configs, NEW prev,
           NEW id \in RoomIds \cup {NoRoom}, process_match_request(c, k, prev, id)
    PROVE  IndInv'
<1>1. /\ conn[c] = "open" /\ connection_map[c] = NoRoom
      /\ "ROOM_CONFIG_RECEIVED" \notin user_data[c]
  BY DEF process_match_request, Unmatched, IndInv, FreshUnplaced
<1>2. CASE room_for(c, prev, id) # NoRoom
  <2> DEFINE r == room_for(c, prev, id)
             p == IF r \in waiting_rooms THEN NoConn ELSE prev
  <2>1. join_room(c, r, prev)
    BY <1>1, <1>2 DEF process_match_request, already_in_room
  <2>2. /\ r \in RoomIds
        /\ Cardinality(playermap[r]) < config[r].max
        /\ \/ r \in waiting_rooms
           \/ state[r] = "start" /\ prev \in disconnected[r]
    BY <1>1, <1>2, RoomFound
  <2>3. /\ add_player(c, r, config[r], p, waiting_rooms, wroom_count, wroom_keys)
        /\ connection_map' = [connection_map EXCEPT ![c] = r]
        /\ UNCHANGED <<room_id_counter, refused, config>>
    BY <2>1 DEF join_room
  <2>4. /\ user_data' = [user_data EXCEPT ![c] = @ \cup {"ROOM_CONFIG_RECEIVED"}]
        /\ new_connections' = new_connections \ {c}
        /\ UNCHANGED <<server, conn, expired>>
    BY DEF process_match_request
  <2> HIDE DEF r
  <2>5. \/ state[r] \in {"none", "waiting"} /\ waiting_rooms = waiting_rooms \cup {r}
        \/ state[r] = "start" /\ p \in disconnected[r] /\ waiting_rooms = waiting_rooms
    BY <2>2 DEF IndInv, ListsMatchState
  <2>6. config[r] \in Configs /\ state[r] # "none"
    BY <2>2, <2>5 DEF IndInv, ConfigsAsked, ListsMatchState
  <2>7. \A q \in RoomIds : q < room_id_counter' <=> q < room_id_counter \/ q = r
    BY <2>2, <2>3, <2>6 DEF IndInv, IdsInOrder
  <2>8. /\ config' \in [RoomIds -> [min: Int, max: Int, after: BOOLEAN]]
        /\ config'[r] = config[r] /\ \A q \in RoomIds \ {r} : config'[q] = config[q]
        /\ room_id_counter' \in 0 .. MaxRooms
        /\ wroom_count \in [Signatures -> Int] /\ wroom_keys \in SUBSET Signatures
    BY <2>3 DEF IndInv, TypeOK
  <2> HIDE DEF p
  <2> QED
    BY <1>1, <2>2, <2>3, <2>4, <2>5, <2>6, <2>7, <2>8, PlayerAdded
<1>3. CASE room_for(c, prev, id) = NoRoom /\ 0 < k.max
  <2> DEFINE r == room_id_counter
             s == Signature(k)
             wr == waiting_rooms \cup {r}
             wc == wroom_count_created(s)
             wk == wroom_keys \cup {s}
  <2>1. join_new_room(c, k)
    BY <1>1, <1>3 DEF process_match_request, already_in_room
  <2>2. 0 < k.max /\ r \in RoomIds
    BY <1>3, <2>1, RoomIdsFacts DEF join_new_room, IndInv, TypeOK
  <2>3. /\ add_player(c, r, k, NoConn, wr, wc, wk)
        /\ connection_map' = [connection_map EXCEPT ![c] = r]
        /\ room_id_counter' = room_id_counter + 1
        /\ config' = [config EXCEPT ![r] = k]
        /\ refused' = refused
    BY <2>1, <2>2 DEF join_new_room
  <2>4. /\ user_data' = [user_data EXCEPT ![c] = @ \cup {"ROOM_CONFIG_RECEIVED"}]
        /\ new_connections' = new_connections \ {c}
        /\ UNCHANGED <<server, conn, expired>>
    BY DEF process_match_request
  <2>5. state[r] = "none"
    BY <2>2 DEF IndInv, TypeOK, IdsInOrder
  <2>6. playermap[r] = {} /\ Cardinality(playermap[r]) = 0
    <3>1. playermap[r] = {}
      BY <2>2, <2>5 DEF IndInv, MembershipConsistent
    <3> QED
      BY <3>1, FS_EmptySet
  <2>7. wc \in [Signatures -> Int] /\ wk \in SUBSET Signatures
    BY SignatureCounted DEF wroom_count_created, IndInv, TypeOK
  <2>8. /\ config' \in [RoomIds -> [min: Int, max: Int, after: BOOLEAN]]
        /\ config'[r] = k /\ \A q \in RoomIds \ {r} : config'[q] = config[q]
    BY <2>2, <2>3, ConfigsAssumption DEF IndInv, TypeOK
  <2>9. /\ room_id_counter' \in 0 .. MaxRooms
        /\ \A q \in RoomIds : q < room_id_counter' <=> q < room_id_counter \/ q = r
    BY <2>2, <2>3, RoomIdsFacts, BoundsAssumption DEF IndInv, TypeOK
  <2>10. Cardinality(playermap[r]) < k.max
    BY <2>2, <2>6
  <2>11. state[r] \in {"none", "waiting"} /\ wr = waiting_rooms \cup {r}
    BY <2>5
  <2> HIDE DEF wr, wc, wk
  <2> QED
    BY <1>1, <2>2, <2>3, <2>4, <2>5, <2>7, <2>8, <2>9, <2>10, <2>11, PlayerAdded
<1>4. CASE room_for(c, prev, id) = NoRoom /\ ~(0 < k.max)
  <2>1. join_new_room(c, k)
    BY <1>1, <1>4 DEF process_match_request, already_in_room
  <2>2. room_id_counter \in RoomIds
    BY <2>1, RoomIdsFacts DEF join_new_room, IndInv, TypeOK
  <2>3. /\ user_data' = [user_data EXCEPT ![c] = @ \cup {"ROOM_CONFIG_RECEIVED"}]
        /\ new_connections' = new_connections \ {c}
        /\ UNCHANGED <<server, conn, expired>>
    BY DEF process_match_request
  <2> QED
    BY <1>1, <1>4, <2>1, <2>2, <2>3, RoomOpenedEmpty
<1> QED
  BY <1>2, <1>3, <1>4

\* Every step of the server keeps the invariant, one case per action.
LEMMA NextIndInv ==
    ASSUME IndInv, [Next]_vars
    PROVE  IndInv'
<1>1. ASSUME NEW c \in Conns,
             \/ create_conn(c) \/ onconnection_connected(c) \/ peer_close(c)
             \/ first_hi(c) \/ process_shutdown_request(c)
      PROVE  IndInv'
  BY <1>1, NetworkStep
<1>2. ASSUME NEW c \in Conns, NEW k \in Configs, NEW prev \in Conns \cup {NoConn},
             NEW id \in RoomIds \cup {NoRoom}, process_match_request(c, k, prev, id)
      PROVE  IndInv'
  BY <1>2, MatchStep
<1>3. ASSUME NEW c \in Conns, destroy_connection(c)
      PROVE  IndInv'
  BY <1>3, DestroyStep
<1>4. ASSUME NEW r \in RoomIds, countdown_tick(r)
      PROVE  IndInv'
  BY <1>4, CountdownStep
<1>5. ASSUME NEW tw \in 0 .. MaxRooms, NEW tr \in 0 .. MaxRooms, check_zombie_rooms(tw, tr)
      PROVE  IndInv'
  BY <1>5, ZombieStep
<1>6. ASSUME NEW s \in Signatures, redis_expire(s) \/ on_qhiredis_async_key_expired(s)
      PROVE  IndInv'
  BY <1>6, RedisStep
<1>7. CASE on_network_server_end
  BY <1>7, EndStep
<1>8. ASSUME NEW c \in Conns, deleted_room_read(c)
      PROVE  IndInv'
  BY <1>8 DEF deleted_room_read, IndInv, TypeOK, RefusedNowhere, FreshUnplaced, IdsInOrder, ConfigsAsked,
              SeatsOfTheGone, MembershipConsistent, ListsMatchState, SeatsKept, CountdownSound
<1>9. CASE UNCHANGED vars
  BY <1>9 DEF vars, IndInv, TypeOK, RefusedNowhere, FreshUnplaced, IdsInOrder, ConfigsAsked, SeatsOfTheGone,
              MembershipConsistent, ListsMatchState, SeatsKept, CountdownSound
<1> QED
  BY <1>1, <1>2, <1>3, <1>4, <1>5, <1>6, <1>7, <1>8, <1>9 DEF Next

\* IndInv holds in every reachable state, whatever configurations the clients ask for.
THEOREM Inductive == Spec => []IndInv
<1>1. Init => IndInv
  BY InitIndInv
<1>2. IndInv /\ [Next]_vars => IndInv'
  BY NextIndInv
<1> QED
  BY <1>1, <1>2, PTL DEF Spec

\* Every variable keeps its type.
THEOREM TypeCorrect == Spec => []TypeOK
<1>1. IndInv => TypeOK
  BY DEF IndInv
<1> QED
  BY <1>1, Inductive, PTL

\* connection_map and the playermaps agree, and neither leads to a deleted room or
\* connection, whatever the order of joins, timeouts, kicks and sweeps; but for the entry of a
\* connection that its own new room refused.
THEOREM Membership == Spec => []MembershipConsistent
<1>1. IndInv => MembershipConsistent
  BY DEF IndInv
<1> QED
  BY <1>1, Inductive, PTL

\* The assertions of onconnection_destroy on waiting_rooms and rooms never fail.
THEOREM Lists == Spec => []ListsMatchState
<1>1. IndInv => ListsMatchState
  BY DEF IndInv
<1> QED
  BY <1>1, Inductive, PTL

\* A started room has its minimum of players and a seat for everyone who left it.
THEOREM Seats == Spec => []SeatsKept
<1>1. IndInv => SeatsKept
  BY DEF IndInv
<1> QED
  BY <1>1, Inductive, PTL

\* count_down_timer is never alive in a room it may not start.
THEOREM Countdown == Spec => []CountdownSound
<1>1. IndInv => CountdownSound
  BY DEF IndInv
<1> QED
  BY <1>1, Inductive, PTL
=============================================================================
