---------------------------- MODULE MCPostBuffer -----------------------------
(* PostBuffer with two threads of one client.                               *)
EXTENDS PostBuffer
=============================================================================
