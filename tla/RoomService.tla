---------------------------- MODULE RoomService -----------------------------
(***************************************************************************)
(* What the game server promises to players, without connections, lists,   *)
(* timers, counters or events: who sits in which room, and how far each    *)
(* room has come.  RoomServer implements it.                               *)
(***************************************************************************)
EXTENDS Integers, FiniteSets

CONSTANTS Players, Rooms, Limits

VARIABLES
    phase,    \* none, waiting, start, end, deleted
    limits,   \* the configuration of each room
    members,  \* the players in each room
    seats     \* the seats a started room keeps for players who left

serviceVars == <<phase, limits, members, seats>>

NoLimits == [min |-> 1, max |-> 1, after |-> FALSE]

ServiceInit ==
    /\ phase = [r \in Rooms |-> "none"]
    /\ limits = [r \in Rooms |-> NoLimits]
    /\ members = [r \in Rooms |-> {}]
    /\ seats = [r \in Rooms |-> {}]

\* A player is in one room at a time.
Nowhere(p) == \A r \in Rooms : p \notin members[r]

\* A room starts at once when it is filled with enough players.
PhaseWith(n, k) == IF n = k.max /\ n >= k.min THEN "start" ELSE "waiting"

Open(r, p, k) ==
    /\ phase[r] = "none"
    /\ k.max >= 1
    /\ Nowhere(p)
    /\ phase' = [phase EXCEPT ![r] = PhaseWith(1, k)]
    /\ limits' = [limits EXCEPT ![r] = k]
    /\ members' = [members EXCEPT ![r] = {p}]
    /\ UNCHANGED seats

\* A room whose limits admit nobody is opened without the player it was opened for.
OpenEmpty(r, k) ==
    /\ phase[r] = "none"
    /\ k.max < 1
    /\ phase' = [phase EXCEPT ![r] = "waiting"]
    /\ limits' = [limits EXCEPT ![r] = k]
    /\ UNCHANGED <<members, seats>>

Enter(r, p) ==
    LET n == Cardinality(members[r]) + 1 IN
    /\ phase[r] = "waiting"
    /\ Nowhere(p)
    /\ n <= limits[r].max
    /\ phase' = [phase EXCEPT ![r] = PhaseWith(n, limits[r])]
    /\ members' = [members EXCEPT ![r] = @ \cup {p}]
    /\ UNCHANGED <<limits, seats>>

\* The countdown: a room with enough players may start before it is full.
Start(r) ==
    /\ phase[r] = "waiting"
    /\ Cardinality(members[r]) >= limits[r].min
    /\ phase' = [phase EXCEPT ![r] = "start"]
    /\ UNCHANGED <<limits, members, seats>>

\* After the start only a kept seat can be taken.
Return(r, p, seat) ==
    /\ phase[r] = "start"
    /\ Nowhere(p)
    /\ seat \in seats[r]
    /\ Cardinality(members[r]) < limits[r].max
    /\ members' = [members EXCEPT ![r] = @ \cup {p}]
    /\ seats' = [seats EXCEPT ![r] = @ \ {seat}]
    /\ UNCHANGED <<phase, limits>>

\* A player leaves: a started room that falls below its minimum ends, otherwise
\* it keeps the seat.
Leave(r, p) ==
    LET M == members[r] \ {p}
        below == Cardinality(M) < limits[r].min
    IN
    /\ p \in members[r]
    /\ members' = [members EXCEPT ![r] = M]
    /\ \/ phase[r] = "waiting" /\ UNCHANGED <<phase, seats>>
       \/ /\ phase[r] = "start" /\ ~below
          /\ seats' = [seats EXCEPT ![r] = @ \cup {p}]
          /\ UNCHANGED phase
       \/ /\ phase[r] \in {"start", "end"} /\ below /\ M # {}
          /\ phase' = [phase EXCEPT ![r] = "end"]
          /\ UNCHANGED seats
    /\ UNCHANGED limits

\* Rooms are deleted: swept when too old, by the last player of a room that ended, or
\* all of them when the server stops.
Delete(Z) ==
    /\ Z # {}
    /\ \A r \in Z : phase[r] \in {"waiting", "start", "end"}
    /\ phase' = [r \in Rooms |-> IF r \in Z THEN "deleted" ELSE phase[r]]
    /\ limits' = [r \in Rooms |-> IF r \in Z THEN NoLimits ELSE limits[r]]
    /\ members' = [r \in Rooms |-> IF r \in Z THEN {} ELSE members[r]]
    /\ seats' = [r \in Rooms |-> IF r \in Z THEN {} ELSE seats[r]]

ServiceNext ==
    \/ \E r \in Rooms, p \in Players :
         \/ \E k \in Limits : Open(r, p, k)
         \/ Enter(r, p)
         \/ \E seat \in Players : Return(r, p, seat)
         \/ Leave(r, p)
    \/ \E r \in Rooms : Start(r) \/ \E k \in Limits : OpenEmpty(r, k)
    \/ \E Z \in SUBSET Rooms : Delete(Z)

ServiceSpec == ServiceInit /\ [][ServiceNext]_serviceVars
=============================================================================
