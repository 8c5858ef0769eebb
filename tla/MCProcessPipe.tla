--------------------------- MODULE MCProcessPipe ----------------------------
(* ProcessPipe for TLC.                                                    *)
EXTENDS ProcessPipe, TLC
=============================================================================
