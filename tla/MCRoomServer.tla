---------------------------- MODULE MCRoomServer ----------------------------
(* RoomServer on small instances.                                          *)
EXTENDS RoomServer, TLC

CONSTANTS c1, c2, c3, c4

Conns3 == {c1, c2, c3}
Conns4 == {c1, c2, c3, c4}

Config(min, max) == [min |-> min, max |-> max, after |-> TRUE]

\* A room that can start before it is full and end with a player left, and one that admits
\* nobody.
Party      == {Config(2, 3), Config(1, 0)}
\* A room that can start with its first player or wait for a second, and one that never can
\* start.
Mixed      == {Config(1, 2), Config(2, 1)}

Symmetry == Permutations(Conns)
=============================================================================
