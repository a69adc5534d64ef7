----------------------------- MODULE MCQH3Server -----------------------------
(* Instance of QH3Server for TLC.                                           *)
EXTENDS QH3Server

CONSTANTS c1, slash, path1

OneConn == {c1}
AllPaths == {slash, path1}
Slash == {slash}
OneAndFour == {1, 4}
OneAndThree == {1, 3}
=============================================================================
