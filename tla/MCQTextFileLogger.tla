-------------------------- MODULE MCQTextFileLogger --------------------------
(* Instances of QTextFileLogger for TLC.                                    *)
EXTENDS QTextFileLogger

NoPlugin == {}
NodeThread == {"node"}
=============================================================================
