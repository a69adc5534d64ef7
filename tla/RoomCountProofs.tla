--------------------------- MODULE RoomCountProofs ---------------------------
(***************************************************************************)
(* The waiting rooms, and the counters of rooms kept in Redis.             *)
(***************************************************************************)
EXTENDS RoomServiceProofs

USE DEF connVars, roomVars, redisVars

\* A waiting room that can start at all takes one more player.
WaitingNotFull ==
    \A r \in RoomIds : state[r] = "waiting" /\ Startable(config[r]) =>
        Cardinality(playermap[r]) < config[r].max

\* While the first room waits and can still start, it is the only one: the value 1 it sets its
\* counter to is the number of rooms.
FirstRoomAlone ==
    \A r \in RoomIds : r = 0 /\ state[r] = "waiting" /\ Startable(config[r]) =>
        room_id_counter <= 1

\* The inductive invariant with the counters.
CountInv ==
    IndInv /\ WaitingNotFull /\ FirstRoomAlone /\ RoomCountExact /\ WaitingCountCovers

\* The waiting rooms that can start, and that there is never more than one.
Waiters == {r \in waiting_rooms : Startable(config[r])}
OneWaits == \A p, q \in Waiters : p = q

-----------------------------------------------------------------------------
(* Counting rooms                                                          *)

LEMMA CountRooms ==
    ASSUME NEW A \in SUBSET RoomIds
    PROVE  /\ Cardinality(A) \in Nat
           /\ A = {} => Cardinality(A) = 0
           /\ \A r \in RoomIds \ A : Cardinality(A \cup {r}) = Cardinality(A) + 1
           /\ \A r \in A : Cardinality(A \ {r}) = Cardinality(A) - 1
           /\ \A B \in SUBSET A : Cardinality(A \ B) = Cardinality(A) - Cardinality(B)
<1>1. IsFiniteSet(RoomIds)
  BY BoundsAssumption, FS_Interval DEF RoomIds
<1>2. IsFiniteSet(A) /\ Cardinality(A) \in Nat
  BY <1>1, FS_Subset, FS_CardinalityType
<1>3. \A r \in RoomIds \ A : Cardinality(A \cup {r}) = Cardinality(A) + 1
  BY <1>2, FS_AddElement
<1>4. \A r \in A : Cardinality(A \ {r}) = Cardinality(A) - 1
  BY <1>2, FS_RemoveElement
<1>5. \A B \in SUBSET A : Cardinality(A \ B) = Cardinality(A) - Cardinality(B)
  <2> TAKE B \in SUBSET A
  <2>1. A \cap B = B
    OBVIOUS
  <2>2. Cardinality(A \ B) = Cardinality(A) - Cardinality(A \cap B)
    BY <1>2, FS_Difference
  <2> QED
    BY <2>1, <2>2
<1> QED
  BY <1>2, <1>3, <1>4, <1>5, FS_EmptySet

\* The rooms of a list whose signature is s, before and after a step.
Of(S, s) == {r \in S : Signature(config[r]) = s}

LEMMA OfRooms ==
    ASSUME TypeOK, NEW s
    PROVE  /\ Of(rooms, s) \in SUBSET RoomIds /\ Of(waiting_rooms, s) \in SUBSET RoomIds
           /\ waiting_of(s) = Of(waiting_rooms, s)
BY DEF TypeOK, Of, waiting_of

\* onroom_pre_start: the room leaves one count and enters the other.  wr and wc are the waiting
\* rooms and their counters at the time of the call.
LEMMA StartCounts ==
    ASSUME TypeOK, RoomCountExact, NEW r \in RoomIds, NEW wr \in SUBSET RoomIds,
           r \in wr, r \notin rooms, r = 0 => rooms = {},
           NEW s \in Signatures, Signature(config'[r]) = s,
           \A q \in RoomIds \ {r} : config'[q] = config[q],
           NEW wc \in [Signatures -> Int], NEW wk,
           \A u \in Signatures :
              wc[u] >= Cardinality({q \in wr : Signature(config'[q]) = u}),
           onroom_pre_start(r, s, wr, wc, wk)
    PROVE  RoomCountExact' /\ WaitingCountCovers'
<1>1. /\ waiting_rooms' = wr \ {r}
      /\ rooms' = rooms \cup {r}
      /\ wroom_count' = [wc EXCEPT ![s] = IF wc[s] - 1 > 0 THEN wc[s] - 1 ELSE 0]
      /\ room_count' = [room_count EXCEPT ![s] = IF r = 0 THEN 1 ELSE @ + 1]
  BY DEF onroom_pre_start, waiting_without, room_count_started
<1>2. RoomCountExact'
  <2> SUFFICES ASSUME NEW u \in Signatures
               PROVE  room_count'[u] = Cardinality({q \in rooms' : Signature(config'[q]) = u})
    BY DEF RoomCountExact
  <2> DEFINE A == {q \in rooms : Signature(config[q]) = u}
             B == {q \in rooms' : Signature(config'[q]) = u}
  <2>1. A \in SUBSET RoomIds /\ room_count[u] = Cardinality(A) /\ r \notin A
        /\ (r = 0 => A = {})
    BY DEF TypeOK, RoomCountExact
  <2>2. B = IF u = s THEN A \cup {r} ELSE A
    BY <1>1 DEF TypeOK
  <2>3. room_count'[u] = IF u = s THEN IF r = 0 THEN 1 ELSE room_count[u] + 1 ELSE room_count[u]
    BY <1>1 DEF TypeOK
  <2> HIDE DEF A, B
  <2>4. Cardinality(A \cup {r}) = Cardinality(A) + 1 /\ (A = {} => Cardinality(A) = 0)
    BY <2>1, CountRooms
  <2>5. room_count'[u] = Cardinality(B)
    BY <2>1, <2>2, <2>3, <2>4
  <2> QED
    BY <2>5 DEF B
<1>3. WaitingCountCovers'
  <2> SUFFICES ASSUME NEW u \in Signatures
               PROVE  wroom_count'[u] >= Cardinality({q \in waiting_rooms' : Signature(config'[q]) = u})
    BY DEF WaitingCountCovers, waiting_of
  <2> DEFINE A == {q \in wr : Signature(config'[q]) = u}
             B == {q \in waiting_rooms' : Signature(config'[q]) = u}
  <2>1. A \in SUBSET RoomIds /\ wc[u] >= Cardinality(A) /\ wc[u] \in Int
    OBVIOUS
  <2>2. B = IF u = s THEN A \ {r} ELSE A
    BY <1>1
  <2>3. u = s => r \in A
    OBVIOUS
  <2>4. wroom_count'[u] = IF u = s THEN IF wc[u] - 1 > 0 THEN wc[u] - 1 ELSE 0 ELSE wc[u]
    BY <1>1
  <2> HIDE DEF A, B
  <2>5. Cardinality(A) \in Nat /\ (r \in A => Cardinality(A \ {r}) = Cardinality(A) - 1)
    BY <2>1, CountRooms
  <2>6. wroom_count'[u] >= Cardinality(B)
    BY <2>1, <2>2, <2>3, <2>4, <2>5
  <2> QED
    BY <2>6 DEF B
<1> QED
  BY <1>2, <1>3

\* A room created raises the counter of its signature before anything else happens to it.
LEMMA CreatedCounts ==
    ASSUME TypeOK, WaitingCountCovers, NEW r \in RoomIds, r \notin waiting_rooms,
           NEW k \in Configs, config' = [config EXCEPT ![r] = k],
           NEW u \in Signatures
    PROVE  wroom_count_created(Signature(k))[u]
             >= Cardinality({q \in waiting_rooms \cup {r} : Signature(config'[q]) = u})
<1> DEFINE A == Of(waiting_rooms, u)
           B == {q \in waiting_rooms \cup {r} : Signature(config'[q]) = u}
           s == Signature(k)
<1>1. A \in SUBSET RoomIds /\ wroom_count[u] >= Cardinality(A) /\ wroom_count[u] \in Int
  BY OfRooms DEF TypeOK, WaitingCountCovers
<1>2. \A q \in waiting_rooms \cup {r} : config'[q] = IF q = r THEN k ELSE config[q]
  BY DEF TypeOK
<1>3. B = IF u = s THEN A \cup {r} ELSE A
  BY <1>2 DEF Of
<1>4. r \notin A
  BY DEF Of
<1>5. wroom_count_created(s)[u] = IF u = s THEN wroom_count[u] + 1 ELSE wroom_count[u]
  BY SignatureCounted DEF wroom_count_created, TypeOK
<1> HIDE DEF A, B, s
<1>6. Cardinality(A) \in Nat /\ Cardinality(A \cup {r}) = Cardinality(A) + 1
  BY <1>1, <1>4, CountRooms
<1>7. wroom_count_created(s)[u] >= Cardinality(B)
  BY <1>1, <1>3, <1>5, <1>6
<1> QED
  BY <1>7 DEF B, s

\* The counters of deleted rooms go down by their number.
LEMMA DeleteCounts ==
    ASSUME IndInv, RoomCountExact, WaitingCountCovers,
           NEW Z \in SUBSET (waiting_rooms \cup rooms), delete_rooms(Z),
           waiting_rooms' = waiting_rooms \ Z, rooms' = rooms \ Z
    PROVE  RoomCountExact' /\ WaitingCountCovers'
<1> DEFINE W == {r \in Z : state[r] = "waiting"}
<1>1. W = Z \cap waiting_rooms /\ Z \ W = Z \cap rooms
  BY DEF IndInv, ListsMatchState
<1>2. /\ wroom_count' = [s \in Signatures |-> wroom_count[s] - Cardinality(Of(W, s))]
      /\ room_count' = [s \in Signatures |-> room_count[s] - Cardinality(Of(Z \ W, s))]
  BY DEF delete_rooms, Of
<1>3. \A r \in RoomIds \ Z : config'[r] = config[r]
  BY DEF delete_rooms
<1>4. waiting_rooms \subseteq RoomIds /\ rooms \subseteq RoomIds
  BY DEF IndInv, TypeOK
<1> HIDE DEF W
<1>5. RoomCountExact'
  <2> SUFFICES ASSUME NEW s \in Signatures
               PROVE  room_count'[s] = Cardinality({r \in rooms' : Signature(config'[r]) = s})
    BY DEF RoomCountExact
  <2> DEFINE A == Of(rooms, s)
             B == Of(Z \ W, s)
  <2>1. A \in SUBSET RoomIds /\ B \in SUBSET A /\ room_count[s] = Cardinality(A)
    BY <1>1, <1>4 DEF Of, RoomCountExact
  <2>2. {r \in rooms' : Signature(config'[r]) = s} = A \ B
    BY <1>1, <1>3, <1>4 DEF Of
  <2>3. room_count'[s] = room_count[s] - Cardinality(B)
    BY <1>2
  <2> HIDE DEF A, B
  <2> QED
    BY <2>1, <2>2, <2>3, CountRooms
<1>6. WaitingCountCovers'
  <2> SUFFICES ASSUME NEW s \in Signatures
               PROVE  wroom_count'[s] >= Cardinality({r \in waiting_rooms' : Signature(config'[r]) = s})
    BY DEF WaitingCountCovers, waiting_of
  <2> DEFINE A == Of(waiting_rooms, s)
             B == Of(W, s)
  <2>1. A \in SUBSET RoomIds /\ B \in SUBSET A /\ wroom_count[s] >= Cardinality(A)
        /\ wroom_count[s] \in Int
    BY <1>1, <1>4 DEF Of, WaitingCountCovers, waiting_of, IndInv, TypeOK
  <2>2. {r \in waiting_rooms' : Signature(config'[r]) = s} = A \ B
    BY <1>1, <1>3, <1>4 DEF Of
  <2>3. wroom_count'[s] = wroom_count[s] - Cardinality(B)
    BY <1>2
  <2> HIDE DEF A, B
  <2>4. Cardinality(A) \in Nat /\ Cardinality(B) \in Nat
        /\ Cardinality(A \ B) = Cardinality(A) - Cardinality(B)
    BY <2>1, CountRooms
  <2> QED
    BY <2>1, <2>2, <2>3, <2>4
<1> QED
  BY <1>5, <1>6

-----------------------------------------------------------------------------
(* The steps                                                               *)

\* A first room that has not started yet is not beside a started one.
LEMMA FirstRoom ==
    ASSUME IndInv, NEW r \in RoomIds, r = 0, state[r] \in {"none", "waiting"},
           room_id_counter <= 1
    PROVE  rooms = {}
<1>1. \A q \in RoomIds : q # r => state[q] = "none"
  <2> SUFFICES ASSUME NEW q \in RoomIds, q # r PROVE state[q] = "none"
    OBVIOUS
  <2>1. q \in Int /\ q >= 1 /\ room_id_counter \in Int
    BY RoomIdsFacts, BoundsAssumption DEF IndInv, TypeOK
  <2>2. ~(q < room_id_counter)
    BY <2>1
  <2> QED
    BY <2>2 DEF IndInv, IdsInOrder
<1> QED
  BY <1>1 DEF IndInv, ListsMatchState

\* A player enters a room that has not started: the room starts now or takes one more.
LEMMA EntryCounts ==
    ASSUME CountInv, NEW c \in Conns, NEW r \in RoomIds, c \notin playermap[r],
           state[r] \in {"none", "waiting"}, NEW k \in Configs,
           Cardinality(playermap[r]) < k.max,
           config' \in [RoomIds -> [min: Int, max: Int, after: BOOLEAN]],
           config'[r] = k, \A q \in RoomIds \ {r} : config'[q] = config[q],
           r = 0 /\ Startable(k) => rooms = {},
           NEW p, NEW wc \in [Signatures -> Int], NEW wk,
           \A u \in Signatures :
              wc[u] >= Cardinality({q \in waiting_rooms \cup {r} : Signature(config'[q]) = u}),
           add_player(c, r, k, p, waiting_rooms \cup {r}, wc, wk)
    PROVE  WaitingNotFull' /\ RoomCountExact' /\ WaitingCountCovers'
<1> DEFINE P == playermap[r] \cup {c}
           n == Cardinality(P)
           ready == n >= k.min /\ state[r] \in {"none", "waiting"}
           full == n = k.max
           wr == waiting_rooms \cup {r}
<1>1. n \in Nat /\ n >= 1 /\ n <= k.max /\ k.min \in Int /\ k.max \in Int
  <2>1. playermap[r] \in SUBSET Conns
    BY DEF CountInv, IndInv, TypeOK
  <2>2. k.min \in Int /\ k.max \in Int
    BY ConfigsAssumption
  <2>3. n = Cardinality(playermap[r]) + 1 /\ Cardinality(playermap[r]) \in Nat
    BY <2>1, PlayersAdd, PlayersFinite
  <2> QED
    BY <2>2, <2>3
<1>2. /\ playermap' = [playermap EXCEPT ![r] = P]
      /\ \/ /\ ready /\ full
            /\ state' = [state EXCEPT ![r] = "start"]
            /\ onroom_pre_start(r, Signature(k), wr, wc, wk)
         \/ /\ ~(ready /\ full)
            /\ state' = [state EXCEPT ![r] = IF @ = "none" THEN "waiting" ELSE @]
            /\ waiting_rooms' = wr /\ wroom_count' = wc /\ UNCHANGED <<rooms, room_count>>
  BY DEF add_player
<1>3. r \notin rooms /\ rooms \subseteq RoomIds /\ wr \in SUBSET RoomIds /\ r \in wr /\ TypeOK
      /\ RoomCountExact
  BY DEF CountInv, IndInv, TypeOK, ListsMatchState
<1>4. ready <=> n >= k.min
  OBVIOUS
<1> HIDE DEF n, ready, wr, P
<1>5. WaitingNotFull'
  <2> SUFFICES ASSUME NEW q \in RoomIds, state'[q] = "waiting", Startable(config'[q])
               PROVE  Cardinality(playermap'[q]) < config'[q].max
    BY DEF WaitingNotFull, Startable
  <2>1. CASE q # r
    BY <1>2, <2>1 DEF CountInv, WaitingNotFull, IndInv, TypeOK
  <2>2. CASE q = r
    <3>1. ~(ready /\ full) /\ playermap'[r] = P
      BY <1>2, <2>2 DEF CountInv, IndInv, TypeOK
    <3>2. n < k.max
      BY <1>1, <1>4, <2>2, <3>1 DEF Startable
    <3> QED
      BY <2>2, <3>1, <3>2 DEF n
  <2> QED
    BY <2>1, <2>2
<1>6. RoomCountExact' /\ WaitingCountCovers'
  <2>1. CASE ready /\ full
    <3>1. onroom_pre_start(r, Signature(k), wr, wc, wk)
      BY <1>2, <2>1
    <3>2. Signature(k) \in Signatures /\ Signature(config'[r]) = Signature(k)
      BY SignatureCounted
    <3>3. r = 0 => rooms = {}
      BY <1>1, <1>4, <2>1 DEF Startable
    <3>4. \A u \in Signatures : wc[u] >= Cardinality({q \in wr : Signature(config'[q]) = u})
      BY DEF wr
    <3> HIDE DEF full
    <3> QED
      BY <1>3, <3>1, <3>2, <3>3, <3>4, StartCounts
  <2>2. CASE ~(ready /\ full)
    <3>1. waiting_rooms' = wr /\ wroom_count' = wc /\ rooms' = rooms /\ room_count' = room_count
      BY <1>2, <2>2
    <3>2. \A s : {q \in rooms : Signature(config'[q]) = s}
                   = {q \in rooms : Signature(config[q]) = s}
      BY <1>3
    <3>3. RoomCountExact'
      BY <1>3, <3>1, <3>2 DEF RoomCountExact
    <3>4. WaitingCountCovers'
      BY <3>1 DEF WaitingCountCovers, waiting_of, wr
    <3> QED
      BY <3>3, <3>4
  <2> QED
    BY <2>1, <2>2
<1> QED
  BY <1>5, <1>6

\* A room opened beside no waiting room that can start is the first one or finds the first
\* one no longer waiting.
LEMMA FirstAlone ==
    ASSUME CountInv, NEW r \in RoomIds, room_id_counter' = r + 1,
           \A q \in waiting_rooms : Cardinality(playermap[q]) >= config[q].max,
           \A q \in RoomIds \ {r} : config'[q] = config[q] /\ state'[q] = state[q]
    PROVE  FirstRoomAlone'
<1>0. IndInv /\ TypeOK
  BY DEF CountInv, IndInv
<1> SUFFICES ASSUME NEW q \in RoomIds, q = 0, state'[q] = "waiting", Startable(config'[q])
             PROVE  room_id_counter' <= 1
  BY DEF FirstRoomAlone, Startable
<1>1. CASE q = r
  BY <1>1
<1>2. CASE q # r
  <2>1. state[q] = "waiting" /\ Startable(config[q]) /\ q \in waiting_rooms
    BY <1>0, <1>2 DEF IndInv, ListsMatchState
  <2>2. Cardinality(playermap[q]) < config[q].max /\ Cardinality(playermap[q]) >= config[q].max
    BY <2>1 DEF CountInv, WaitingNotFull
  <2>3. Cardinality(playermap[q]) \in Nat /\ config[q].max \in Int
    <3>1. playermap[q] \in SUBSET Conns /\ config[q] \in [min: Int, max: Int, after: BOOLEAN]
      BY <1>0 DEF TypeOK
    <3> QED
      BY <3>1, PlayersFinite
  <2> QED
    BY <2>2, <2>3
<1> QED
  BY <1>1, <1>2

\* A match request keeps the counters.
LEMMA MatchCounts ==
    ASSUME CountInv, NEW c \in Conns, NEW k \in Configs, NEW prev,
           NEW id \in RoomIds \cup {NoRoom}, process_match_request(c, k, prev, id)
    PROVE  WaitingNotFull' /\ FirstRoomAlone' /\ RoomCountExact' /\ WaitingCountCovers'
<1>0. IndInv /\ TypeOK
  BY DEF CountInv, IndInv
<1>1. /\ \A q \in RoomIds : c \notin playermap[q]
      /\ \E r \in RoomIds : \/ OpensRoom(c, k, r) \/ OpensEmpty(k, r)
                           \/ EntersRoom(c, r) \/ TakesSeat(c, r, prev)
  BY <1>0, MatchCases
<1>2. PICK r \in RoomIds : \/ OpensRoom(c, k, r) \/ OpensEmpty(k, r)
                            \/ EntersRoom(c, r) \/ TakesSeat(c, r, prev)
  BY <1>1
<1>3. CASE OpensRoom(c, k, r)
  <2> DEFINE wc == wroom_count_created(Signature(k))
             wk == wroom_keys \cup {Signature(k)}
  <2>1. /\ r = room_id_counter /\ state[r] = "none" /\ playermap[r] = {} /\ k.max >= 1
        /\ \A q \in waiting_rooms : Cardinality(playermap[q]) >= config[q].max
        /\ room_id_counter' = r + 1
        /\ config' = [config EXCEPT ![r] = k]
        /\ add_player(c, r, k, NoConn, waiting_rooms \cup {r}, wc, wk)
    BY <1>3 DEF OpensRoom
  <2>2. /\ config' \in [RoomIds -> [min: Int, max: Int, after: BOOLEAN]]
        /\ config'[r] = k /\ \A q \in RoomIds \ {r} : config'[q] = config[q]
    BY <1>0, <2>1, ConfigsAssumption DEF TypeOK
  <2>3. Cardinality(playermap[r]) < k.max
    BY <2>1, FS_EmptySet, ConfigsAssumption
  <2>4. r = 0 => rooms = {}
    BY <1>0, <2>1, FirstRoom
  <2>5. r \notin waiting_rooms
    BY <1>0, <2>1 DEF IndInv, ListsMatchState
  <2>6. \A u \in Signatures :
          wc[u] >= Cardinality({q \in waiting_rooms \cup {r} : Signature(config'[q]) = u})
    BY <1>0, <2>1, <2>5, CreatedCounts DEF CountInv
  <2>7. wc \in [Signatures -> Int]
    BY <1>0, SignatureCounted DEF wroom_count_created, TypeOK
  <2>8. \A q \in RoomIds \ {r} : state'[q] = state[q]
    BY <1>0, <2>1 DEF add_player, TypeOK
  <2> HIDE DEF wc, wk
  <2>9. WaitingNotFull' /\ RoomCountExact' /\ WaitingCountCovers'
    BY <1>1, <2>1, <2>2, <2>3, <2>4, <2>6, <2>7, EntryCounts
  <2>10. FirstRoomAlone'
    BY <1>0, <2>1, <2>2, <2>8, FirstAlone
  <2> QED
    BY <2>9, <2>10
<1>4. CASE EntersRoom(c, r)
  <2>1. /\ state[r] = "waiting" /\ r \in waiting_rooms
        /\ Cardinality(playermap[r]) < config[r].max
        /\ add_player(c, r, config[r], NoConn, waiting_rooms, wroom_count, wroom_keys)
        /\ room_id_counter' = room_id_counter /\ config' = config
    BY <1>4 DEF EntersRoom
  <2>2. waiting_rooms \cup {r} = waiting_rooms
    BY <2>1
  <2>3. r = 0 /\ Startable(config[r]) => rooms = {}
    BY <1>0, <2>1, FirstRoom DEF CountInv, FirstRoomAlone
  <2>4. config[r] \in Configs /\ config \in [RoomIds -> [min: Int, max: Int, after: BOOLEAN]]
    BY <1>0, <2>1 DEF IndInv, ConfigsAsked, TypeOK
  <2>5. \A u \in Signatures :
          wroom_count[u] >= Cardinality({q \in waiting_rooms \cup {r} : Signature(config'[q]) = u})
    BY <2>1, <2>2 DEF CountInv, WaitingCountCovers, waiting_of
  <2>6. wroom_count \in [Signatures -> Int]
    BY <1>0 DEF TypeOK
  <2>7. add_player(c, r, config[r], NoConn, waiting_rooms \cup {r}, wroom_count, wroom_keys)
    BY <2>1, <2>2
  <2>8. WaitingNotFull' /\ RoomCountExact' /\ WaitingCountCovers'
    BY <1>1, <2>1, <2>3, <2>4, <2>5, <2>6, <2>7, EntryCounts
  <2>9. \A q \in RoomIds : state'[q] = "waiting" => state[q] = "waiting"
    BY <1>0, <2>1 DEF add_player, TypeOK
  <2>10. FirstRoomAlone'
    BY <2>1, <2>9 DEF CountInv, FirstRoomAlone
  <2> QED
    BY <2>8, <2>10
<1>5. CASE TakesSeat(c, r, prev)
  <2>1. /\ state' = state
        /\ UNCHANGED <<config, room_id_counter, rooms, room_count>>
        /\ waiting_rooms' = waiting_rooms /\ wroom_count' = wroom_count
        /\ \A q \in RoomIds \ {r} : playermap'[q] = playermap[q]
        /\ state[r] = "start"
    BY <1>0, <1>5 DEF TakesSeat, add_player, TypeOK
  <2> QED
    BY <2>1 DEF CountInv, WaitingNotFull, FirstRoomAlone, RoomCountExact, WaitingCountCovers,
                waiting_of
<1>6. CASE OpensEmpty(k, r)
  <2> DEFINE wc == wroom_count_created(Signature(k))
  <2>1. /\ r = room_id_counter /\ state[r] = "none" /\ k.max < 1
        /\ \A q \in waiting_rooms : Cardinality(playermap[q]) >= config[q].max
        /\ room_id_counter' = r + 1
        /\ config' = [config EXCEPT ![r] = k]
        /\ state' = [state EXCEPT ![r] = "waiting"]
        /\ waiting_rooms' = waiting_rooms \cup {r}
        /\ wroom_count' = wc
        /\ UNCHANGED <<playermap, rooms, room_count>>
    BY <1>6 DEF OpensEmpty
  <2>2. /\ \A q \in RoomIds \ {r} : config'[q] = config[q] /\ state'[q] = state[q]
        /\ config'[r] = k /\ k.max \in Int
    BY <1>0, <2>1, ConfigsAssumption DEF TypeOK
  <2>3. r \notin waiting_rooms /\ r \notin rooms /\ rooms \subseteq RoomIds
    BY <1>0, <2>1 DEF IndInv, TypeOK, ListsMatchState
  <2>4. FirstRoomAlone'
    BY <2>1, <2>2, FirstAlone
  <2>5. WaitingNotFull'
    <3> SUFFICES ASSUME NEW q \in RoomIds, state'[q] = "waiting", Startable(config'[q])
                 PROVE  Cardinality(playermap'[q]) < config'[q].max
      BY DEF WaitingNotFull, Startable
    <3>1. q # r
      BY <2>1, <2>2 DEF Startable
    <3> QED
      BY <2>1, <2>2, <3>1 DEF CountInv, WaitingNotFull
  <2>6. RoomCountExact'
    <3>1. \A s : {q \in rooms : Signature(config'[q]) = s}
                   = {q \in rooms : Signature(config[q]) = s}
      BY <2>2, <2>3
    <3> QED
      BY <2>1, <3>1 DEF CountInv, RoomCountExact
  <2>7. \A u \in Signatures :
          wc[u] >= Cardinality({q \in waiting_rooms \cup {r} : Signature(config'[q]) = u})
    BY <1>0, <2>1, <2>3, CreatedCounts DEF CountInv
  <2> HIDE DEF wc
  <2>8. WaitingCountCovers'
    BY <2>1, <2>7 DEF WaitingCountCovers, waiting_of
  <2> QED
    BY <2>4, <2>5, <2>6, <2>8
<1> QED
  BY <1>2, <1>3, <1>4, <1>5, <1>6

\* The last tick of a countdown moves its room from one counter to the other.
LEMMA TickCounts ==
    ASSUME CountInv, NEW r \in RoomIds, countdown_tick(r)
    PROVE  WaitingNotFull' /\ FirstRoomAlone' /\ RoomCountExact' /\ WaitingCountCovers'
<1>0. IndInv /\ TypeOK /\ RoomCountExact
  BY DEF CountInv, IndInv
<1>1. /\ count_down[r] > 0 /\ UNCHANGED <<config, playermap, room_id_counter>>
      /\ \A q \in RoomIds : state'[q] = "waiting" => state[q] = "waiting"
  BY <1>0 DEF countdown_tick, armed, TypeOK
<1>2. WaitingNotFull' /\ FirstRoomAlone'
  BY <1>1 DEF CountInv, WaitingNotFull, FirstRoomAlone
<1>3. CASE count_down[r] > 1
  BY <1>1, <1>2, <1>3 DEF countdown_tick, CountInv, RoomCountExact, WaitingCountCovers, waiting_of
<1>4. CASE ~(count_down[r] > 1)
  <2> DEFINE s == Signature(config[r])
  <2>1. onroom_pre_start(r, s, waiting_rooms, wroom_count, wroom_keys)
    BY <1>4 DEF countdown_tick
  <2>2. state[r] = "waiting" /\ Cardinality(playermap[r]) \in config[r].min .. config[r].max - 1
    BY <1>0, <1>1 DEF IndInv, CountdownSound
  <2>3. Startable(config[r])
    <3>1. playermap[r] \in SUBSET Conns /\ config[r] \in [min: Int, max: Int, after: BOOLEAN]
      BY <1>0 DEF TypeOK
    <3>2. Cardinality(playermap[r]) \in Nat
      BY <3>1, PlayersFinite
    <3> QED
      BY <2>2, <3>1, <3>2 DEF Startable
  <2>4. r = 0 => rooms = {}
    BY <1>0, <2>2, <2>3, FirstRoom DEF CountInv, FirstRoomAlone
  <2>5. r \in waiting_rooms /\ r \notin rooms /\ waiting_rooms \in SUBSET RoomIds
    BY <1>0, <2>2 DEF IndInv, ListsMatchState
  <2>6. s \in Signatures /\ Signature(config'[r]) = s
    BY <1>0, <1>1, <2>2, SignatureCounted DEF IndInv, ConfigsAsked
  <2>7. \A u \in Signatures :
          wroom_count[u] >= Cardinality({q \in waiting_rooms : Signature(config'[q]) = u})
    BY <1>1 DEF CountInv, WaitingCountCovers, waiting_of
  <2>8. wroom_count \in [Signatures -> Int]
    BY <1>0 DEF TypeOK
  <2> HIDE DEF s
  <2>9. RoomCountExact' /\ WaitingCountCovers'
    BY <1>0, <1>1, <2>1, <2>4, <2>5, <2>6, <2>7, <2>8, StartCounts
  <2> QED
    BY <1>2, <2>9
<1> QED
  BY <1>3, <1>4

\* Rooms are deleted.
LEMMA DeletionCounts ==
    ASSUME CountInv, NEW Z \in SUBSET (waiting_rooms \cup rooms), delete_rooms(Z),
           waiting_rooms' = waiting_rooms \ Z, rooms' = rooms \ Z,
           room_id_counter' = room_id_counter
    PROVE  WaitingNotFull' /\ FirstRoomAlone' /\ RoomCountExact' /\ WaitingCountCovers'
<1>1. RoomCountExact' /\ WaitingCountCovers'
  BY DeleteCounts DEF CountInv
<1>2. /\ \A r \in Z : state'[r] = "deleted"
      /\ \A r \in RoomIds \ Z :
           state'[r] = state[r] /\ config'[r] = config[r] /\ playermap'[r] = playermap[r]
  BY DeleteRooms DEF CountInv
<1>3. WaitingNotFull' /\ FirstRoomAlone'
  BY <1>2 DEF CountInv, WaitingNotFull, FirstRoomAlone
<1> QED
  BY <1>1, <1>3

\* Destroying a connection frees a seat or deletes its room.
LEMMA DestroyCounts ==
    ASSUME CountInv, NEW c \in Conns, destroy_connection(c)
    PROVE  WaitingNotFull' /\ FirstRoomAlone' /\ RoomCountExact' /\ WaitingCountCovers'
<1>0. IndInv /\ TypeOK
  BY DEF CountInv, IndInv
<1>1. /\ room_id_counter' = room_id_counter
      /\ \/ LeavesNoRoom(c)
         \/ \E r \in RoomIds : /\ c \in playermap[r]
                               /\ LeavesBehind(c, r, playermap[r] \ {c}) \/ LeavesLast(c, r)
  BY <1>0, DestroyCases
<1>2. CASE LeavesNoRoom(c)
  BY <1>1, <1>2 DEF LeavesNoRoom, CountInv, WaitingNotFull, FirstRoomAlone, RoomCountExact,
                    WaitingCountCovers, waiting_of
<1>3. ASSUME NEW r \in RoomIds, c \in playermap[r], LeavesBehind(c, r, playermap[r] \ {c})
      PROVE  WaitingNotFull' /\ FirstRoomAlone' /\ RoomCountExact' /\ WaitingCountCovers'
  <2>1. /\ UNCHANGED <<waiting_rooms, rooms, config, wroom_count, room_count>>
        /\ playermap' = [playermap EXCEPT ![r] = @ \ {c}]
        /\ \A q \in RoomIds : state'[q] = "waiting" => state[q] = "waiting"
    BY <1>0, <1>3 DEF LeavesBehind, player_leaves, TypeOK
  <2>2. RoomCountExact' /\ WaitingCountCovers' /\ FirstRoomAlone'
    BY <1>1, <2>1 DEF CountInv, RoomCountExact, WaitingCountCovers, waiting_of, FirstRoomAlone
  <2>3. WaitingNotFull'
    <3> SUFFICES ASSUME NEW q \in RoomIds, state[q] = "waiting", Startable(config[q])
                 PROVE  Cardinality(playermap'[q]) < config[q].max
      BY <2>1 DEF WaitingNotFull, Startable
    <3>1. Cardinality(playermap[q]) < config[q].max
      BY DEF CountInv, WaitingNotFull
    <3>2. CASE q # r
      BY <1>0, <2>1, <3>1, <3>2 DEF TypeOK
    <3>3. CASE q = r
      <4>1. playermap[r] \in SUBSET Conns /\ config[r] \in [min: Int, max: Int, after: BOOLEAN]
        BY <1>0 DEF TypeOK
      <4>2. /\ Cardinality(playermap[r] \ {c}) = Cardinality(playermap[r]) - 1
            /\ Cardinality(playermap[r]) \in Nat
        BY <1>3, <4>1, PlayersRemove, PlayersFinite
      <4>3. playermap'[r] = playermap[r] \ {c}
        BY <1>0, <2>1 DEF TypeOK
      <4> QED
        BY <3>1, <3>3, <4>1, <4>2, <4>3
    <3> QED
      BY <3>2, <3>3
  <2> QED
    BY <2>2, <2>3
<1>4. ASSUME NEW r \in RoomIds, c \in playermap[r], LeavesLast(c, r)
      PROVE  WaitingNotFull' /\ FirstRoomAlone' /\ RoomCountExact' /\ WaitingCountCovers'
  <2>1. {r} \in SUBSET (waiting_rooms \cup rooms)
    BY <1>0, <1>4 DEF IndInv, ListsMatchState, MembershipConsistent
  <2>2. delete_rooms({r}) /\ waiting_rooms' = waiting_rooms \ {r} /\ rooms' = rooms \ {r}
    BY <1>4 DEF LeavesLast
  <2> QED
    BY <1>1, <2>1, <2>2, DeletionCounts
<1> QED
  BY <1>1, <1>2, <1>3, <1>4

\* Expiry of a key, and the notification that restores it.
LEMMA RedisCounts ==
    ASSUME CountInv, NEW s \in Signatures,
           redis_expire(s) \/ on_qhiredis_async_key_expired(s)
    PROVE  WaitingNotFull' /\ FirstRoomAlone' /\ RoomCountExact' /\ WaitingCountCovers'
<1>0. TypeOK /\ WaitingCountCovers
  BY DEF CountInv, IndInv
<1>1. UNCHANGED <<waiting_rooms, rooms, room_id_counter, state, config, playermap, room_count>>
  BY DEF redis_expire, on_qhiredis_async_key_expired
<1>2. WaitingNotFull' /\ FirstRoomAlone' /\ RoomCountExact'
  BY <1>1 DEF CountInv, WaitingNotFull, FirstRoomAlone, RoomCountExact
<1>3. WaitingCountCovers'
  <2> SUFFICES ASSUME NEW u \in Signatures
               PROVE  wroom_count'[u] >= Cardinality(waiting_of(u)')
    BY DEF WaitingCountCovers
  <2> DEFINE m == Cardinality(waiting_of(u))
  <2>1. waiting_of(u)' = waiting_of(u)
    BY <1>1 DEF waiting_of
  <2>2. m \in Nat /\ wroom_count[u] >= m /\ wroom_count[u] \in Int /\ (waiting_of(u) = {} => m = 0)
    BY <1>0, OfRooms, CountRooms DEF TypeOK, WaitingCountCovers
  <2>3. wroom_count'[u] = wroom_count[u] \/ (u = s /\ waiting_of(s) = {} /\ wroom_count'[u] = 0)
        \/ (u = s /\ wroom_count'[u] = wroom_count[u] + m)
    BY <1>0 DEF redis_expire, on_qhiredis_async_key_expired, TypeOK
  <2> HIDE DEF m
  <2>4. wroom_count'[u] >= m
    BY <2>2, <2>3
  <2> QED
    BY <2>1, <2>4 DEF m
<1> QED
  BY <1>2, <1>3

\* Every step keeps the counters.
LEMMA CountStep ==
    ASSUME CountInv, [Next]_vars
    PROVE  CountInv'
<1> DEFINE Counted == WaitingNotFull' /\ FirstRoomAlone' /\ RoomCountExact' /\ WaitingCountCovers'
<1>0. IndInv'
  BY NextIndInv DEF CountInv
<1>1. ASSUME UNCHANGED <<waiting_rooms, rooms, room_id_counter, state, config, playermap,
                         wroom_count, room_count>>
      PROVE  Counted
  BY <1>1 DEF CountInv, WaitingNotFull, FirstRoomAlone, RoomCountExact, WaitingCountCovers,
              waiting_of
<1>2. ASSUME NEW c \in Conns,
             \/ create_conn(c) \/ onconnection_connected(c) \/ peer_close(c)
             \/ first_hi(c) \/ process_shutdown_request(c)
      PROVE  Counted
  <2>1. UNCHANGED <<waiting_rooms, rooms, room_id_counter, state, config, playermap,
                    wroom_count, room_count>>
    BY <1>2 DEF create_conn, onconnection_connected, peer_close, first_hi,
                process_shutdown_request
  <2> QED
    BY <1>1, <2>1
<1>3. ASSUME NEW c \in Conns, NEW k \in Configs, NEW prev \in Conns \cup {NoConn},
             NEW id \in RoomIds \cup {NoRoom}, process_match_request(c, k, prev, id)
      PROVE  Counted
  BY <1>3, MatchCounts
<1>4. ASSUME NEW c \in Conns, destroy_connection(c)
      PROVE  Counted
  BY <1>4, DestroyCounts
<1>5. ASSUME NEW r \in RoomIds, countdown_tick(r)
      PROVE  Counted
  BY <1>5, TickCounts
<1>6. ASSUME NEW tw \in 0 .. MaxRooms, NEW tr \in 0 .. MaxRooms, check_zombie_rooms(tw, tr)
      PROVE  Counted
  <2> DEFINE Z == zombies(tw, tr)
  <2>1. Z \in SUBSET (waiting_rooms \cup rooms)
    BY DEF zombies
  <2>2. /\ delete_rooms(Z) /\ waiting_rooms' = waiting_rooms \ Z /\ rooms' = rooms \ Z
        /\ room_id_counter' = room_id_counter
    BY <1>6 DEF check_zombie_rooms
  <2> HIDE DEF Z
  <2> QED
    BY <2>1, <2>2, DeletionCounts
<1>7. ASSUME NEW s \in Signatures, redis_expire(s) \/ on_qhiredis_async_key_expired(s)
      PROVE  Counted
  BY <1>7, RedisCounts
<1>8. ASSUME on_network_server_end
      PROVE  Counted
  <2> DEFINE Z == waiting_rooms \cup rooms
  <2>1. /\ Z \in SUBSET (waiting_rooms \cup rooms) /\ delete_rooms(Z)
        /\ waiting_rooms' = waiting_rooms \ Z /\ rooms' = rooms \ Z
        /\ room_id_counter' = room_id_counter
    BY <1>8 DEF on_network_server_end
  <2> HIDE DEF Z
  <2> QED
    BY <2>1, DeletionCounts
<1>9. ASSUME UNCHANGED vars
      PROVE  Counted
  BY <1>1, <1>9 DEF vars
<1>10. ASSUME NEW c \in Conns, deleted_room_read(c)
       PROVE  Counted
  BY <1>1, <1>10 DEF deleted_room_read
<1> HIDE DEF Counted
<1>11. Counted
  BY <1>2, <1>3, <1>4, <1>5, <1>6, <1>7, <1>8, <1>9, <1>10 DEF Next
<1> QED
  BY <1>0, <1>11 DEF CountInv, Counted

\* The invariant holds in every reachable state.
THEOREM CountsInductive == Spec => []CountInv
<1>1. Init => CountInv
  <2> SUFFICES ASSUME Init PROVE CountInv
    OBVIOUS
  <2>1. IndInv
    BY InitIndInv
  <2>2. WaitingNotFull /\ FirstRoomAlone
    BY DEF Init, WaitingNotFull, FirstRoomAlone
  <2>3. RoomCountExact
    <3> SUFFICES ASSUME NEW s \in Signatures
                 PROVE  room_count[s] = Cardinality({r \in rooms : Signature(config[r]) = s})
      BY DEF RoomCountExact
    <3>1. {r \in rooms : Signature(config[r]) = s} = {} /\ room_count[s] = 0
      BY DEF Init
    <3> QED
      BY <3>1, FS_EmptySet
  <2>4. WaitingCountCovers
    <3> SUFFICES ASSUME NEW s \in Signatures
                 PROVE  wroom_count[s] >= Cardinality(waiting_of(s))
      BY DEF WaitingCountCovers
    <3>1. waiting_of(s) = {} /\ wroom_count[s] = 0
      BY DEF Init, waiting_of
    <3>2. Cardinality(waiting_of(s)) = 0
      BY <3>1, FS_EmptySet
    <3> QED
      BY <3>1, <3>2
  <2> QED
    BY <2>1, <2>2, <2>3, <2>4 DEF CountInv
<1>2. CountInv /\ [Next]_vars => CountInv'
  BY CountStep
<1> QED
  BY <1>1, <1>2, PTL DEF Spec

\* "room:<signature>" is the number of started rooms of that signature, although the first
\* room of the process sets it rather than counts it up.
THEOREM RoomCounts == Spec => []RoomCountExact
<1>1. CountInv => RoomCountExact
  BY DEF CountInv
<1> QED
  BY <1>1, CountsInductive, PTL

\* "wroom:<signature>" is at least the number of waiting rooms of that signature, whenever its
\* key expires and however late the server hears of it.
THEOREM WaitingCounts == Spec => []WaitingCountCovers
<1>1. CountInv => WaitingCountCovers
  BY DEF CountInv
<1> QED
  BY <1>1, CountsInductive, PTL

-----------------------------------------------------------------------------
(* One waiting room                                                        *)

\* A room is opened only when none that can start waits; every other step leaves the waiting
\* rooms or takes some away.
LEMMA WaitersStep ==
    ASSUME CountInv, [Next]_vars
    PROVE  Waiters' \subseteq Waiters \/ \E r : Waiters' \subseteq {r}
<1> DEFINE Few == Waiters' \subseteq Waiters \/ \E r : Waiters' \subseteq {r}
<1>0. IndInv /\ TypeOK /\ waiting_rooms \subseteq RoomIds
  BY DEF CountInv, IndInv, TypeOK
<1>1. ASSUME waiting_rooms' \subseteq waiting_rooms,
             \A q \in waiting_rooms' : config'[q] = config[q]
      PROVE  Few
  BY <1>1 DEF Waiters, Startable
<1>2. ASSUME NEW c \in Conns, NEW k \in Configs, NEW prev \in Conns \cup {NoConn},
             NEW id \in RoomIds \cup {NoRoom}, process_match_request(c, k, prev, id)
      PROVE  Few
  <2>1. PICK r \in RoomIds : \/ OpensRoom(c, k, r) \/ OpensEmpty(k, r)
                            \/ EntersRoom(c, r) \/ TakesSeat(c, r, prev)
    BY <1>0, <1>2, MatchCases
  <2>2. CASE OpensRoom(c, k, r) \/ OpensEmpty(k, r)
    <3>1. Waiters = {}
      <4> SUFFICES ASSUME NEW q \in Waiters PROVE FALSE
        OBVIOUS
      <4>1. q \in RoomIds /\ q \in waiting_rooms /\ state[q] = "waiting" /\ Startable(config[q])
        BY <1>0 DEF Waiters, IndInv, ListsMatchState
      <4>2. Cardinality(playermap[q]) < config[q].max /\ Cardinality(playermap[q]) >= config[q].max
        BY <2>2, <4>1 DEF OpensRoom, OpensEmpty, CountInv, WaitingNotFull
      <4>3. Cardinality(playermap[q]) \in Nat /\ config[q].max \in Int
        <5>1. playermap[q] \in SUBSET Conns /\ config[q] \in [min: Int, max: Int, after: BOOLEAN]
          BY <1>0, <4>1 DEF TypeOK
        <5> QED
          BY <5>1, PlayersFinite
      <4> QED
        BY <4>2, <4>3
    <3>2. /\ waiting_rooms' \subseteq waiting_rooms \cup {r}
          /\ \A q \in RoomIds \ {r} : config'[q] = config[q]
      BY <1>0, <2>2 DEF OpensRoom, OpensEmpty, add_player, onroom_pre_start, waiting_without, TypeOK
    <3>3. Waiters' \subseteq Waiters \cup {r}
      BY <1>0, <3>2 DEF Waiters, Startable
    <3> QED
      BY <3>1, <3>3
  <2>3. CASE EntersRoom(c, r)
    BY <1>1, <2>3 DEF EntersRoom, add_player, onroom_pre_start, waiting_without
  <2>4. CASE TakesSeat(c, r, prev)
    BY <1>1, <2>4 DEF TakesSeat, add_player, onroom_pre_start, waiting_without
  <2> QED
    BY <2>1, <2>2, <2>3, <2>4
<1>3. ASSUME NEW Z \in SUBSET (waiting_rooms \cup rooms), delete_rooms(Z),
             waiting_rooms' = waiting_rooms \ Z
      PROVE  Few
  <2>1. \A q \in RoomIds \ Z : config'[q] = config[q]
    BY <1>3 DEF delete_rooms
  <2> QED
    BY <1>0, <1>1, <1>3, <2>1
<1>4. ASSUME NEW c \in Conns, destroy_connection(c)
      PROVE  Few
  <2>1. \/ LeavesNoRoom(c)
        \/ \E r \in RoomIds : /\ c \in playermap[r]
                              /\ LeavesBehind(c, r, playermap[r] \ {c}) \/ LeavesLast(c, r)
    BY <1>0, <1>4, DestroyCases
  <2>2. CASE LeavesNoRoom(c)
    BY <1>1, <2>2 DEF LeavesNoRoom
  <2>3. ASSUME NEW r \in RoomIds, LeavesBehind(c, r, playermap[r] \ {c})
        PROVE  Few
    BY <1>1, <2>3 DEF LeavesBehind, player_leaves
  <2>4. ASSUME NEW r \in RoomIds, c \in playermap[r], LeavesLast(c, r)
        PROVE  Few
    <3>1. {r} \in SUBSET (waiting_rooms \cup rooms)
      BY <1>0, <2>4 DEF IndInv, ListsMatchState, MembershipConsistent
    <3>2. delete_rooms({r}) /\ waiting_rooms' = waiting_rooms \ {r}
      BY <2>4 DEF LeavesLast
    <3> QED
      BY <1>3, <3>1, <3>2
  <2> QED
    BY <2>1, <2>2, <2>3, <2>4
<1>5. ASSUME NEW c \in Conns,
             \/ create_conn(c) \/ onconnection_connected(c) \/ peer_close(c)
             \/ first_hi(c) \/ process_shutdown_request(c) \/ deleted_room_read(c)
      PROVE  Few
  BY <1>1, <1>5 DEF create_conn, onconnection_connected, peer_close, first_hi,
                    process_shutdown_request, deleted_room_read
<1>6. ASSUME NEW r \in RoomIds, countdown_tick(r)
      PROVE  Few
  BY <1>1, <1>6 DEF countdown_tick, onroom_pre_start, waiting_without
<1>7. ASSUME NEW tw \in 0 .. MaxRooms, NEW tr \in 0 .. MaxRooms, check_zombie_rooms(tw, tr)
      PROVE  Few
  <2> DEFINE Z == zombies(tw, tr)
  <2>1. Z \in SUBSET (waiting_rooms \cup rooms)
    BY DEF zombies
  <2>2. delete_rooms(Z) /\ waiting_rooms' = waiting_rooms \ Z
    BY <1>7 DEF check_zombie_rooms
  <2> HIDE DEF Z
  <2> QED
    BY <1>3, <2>1, <2>2
<1>8. ASSUME NEW s \in Signatures, redis_expire(s) \/ on_qhiredis_async_key_expired(s)
      PROVE  Few
  BY <1>1, <1>8 DEF redis_expire, on_qhiredis_async_key_expired
<1>9. ASSUME on_network_server_end
      PROVE  Few
  BY <1>1, <1>9 DEF on_network_server_end
<1>10. ASSUME UNCHANGED vars
       PROVE  Few
  BY <1>1, <1>10 DEF vars
<1> HIDE DEF Few
<1>11. Few
  BY <1>2, <1>4, <1>5, <1>6, <1>7, <1>8, <1>9, <1>10 DEF Next
<1> QED
  BY <1>11 DEF Few

\* Of the rooms that wait at most one can ever start, whatever the clients ask for: requests
\* for different configurations share it.
THEOREM OneWaiting == Spec => []OneWaitingRoom
<1>1. Init => OneWaits
  BY DEF Init, OneWaits, Waiters
<1>2. OneWaits /\ CountInv /\ [Next]_vars => OneWaits'
  <2> SUFFICES ASSUME OneWaits, CountInv, [Next]_vars
               PROVE  \A p, q \in Waiters' : p = q
    BY DEF OneWaits
  <2>1. Waiters' \subseteq Waiters \/ \E r : Waiters' \subseteq {r}
    BY WaitersStep
  <2> QED
    BY <2>1 DEF OneWaits
<1>3. OneWaits => OneWaitingRoom
  <2> SUFFICES ASSUME OneWaits PROVE Cardinality(Waiters) <= 1
    BY DEF OneWaitingRoom, Waiters
  <2>1. Waiters = {} \/ \E r : Waiters = {r}
    BY DEF OneWaits
  <2>2. Cardinality(Waiters) = 0 \/ Cardinality(Waiters) = 1
    BY <2>1, FS_EmptySet, FS_Singleton
  <2> QED
    BY <2>2
<1> QED
  BY <1>1, <1>2, <1>3, CountsInductive, PTL DEF Spec
=============================================================================
