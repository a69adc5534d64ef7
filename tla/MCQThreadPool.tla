---------------------------- MODULE MCQThreadPool ----------------------------
(* Instances of QThreadPool for TLC.                                        *)
EXTENDS QThreadPool

CONSTANTS t1, t2, t3

ThreeTasks == {t1, t2, t3}
TwoNotified == {t1, t2}
=============================================================================
