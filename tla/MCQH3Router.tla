----------------------------- MODULE MCQH3Router -----------------------------
(* Instances of QH3Router for TLC.                                          *)
EXTENDS QH3Router

CONSTANTS s1, s2, cc

TwoServers == {s1, s2}
OneSpawned == {s1}
=============================================================================
