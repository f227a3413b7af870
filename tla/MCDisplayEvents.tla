---------------------------- MODULE MCDisplayEvents ---------------------------
(* DisplayEvents with the threads of one start, or of two starts of which  *)
(* each created one of its two threads.                                    *)
EXTENDS DisplayEvents
=============================================================================
