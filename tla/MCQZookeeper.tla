---------------------------- MODULE MCQZookeeper ----------------------------
(* Instances of QZookeeper for TLC.                                        *)
EXTENDS QZookeeper

CONSTANTS k1, k2

OneKey == {k1}
TwoKeys == {k1, k2}
=============================================================================
