---------------------------- MODULE MCDisplayApi -----------------------------
(* DisplayApi with displays that can do some and nearly everything.         *)
EXTENDS DisplayApi, TLC

Dolby == [caps |-> {"SDR", "HDR10PLUS", "DOLBYVISION_STD"}, hdcp |-> {14, 22}]
Newer == [caps |-> Capabilities \ {"DOLBYVISION_STD"}, hdcp |-> {22}]

MCSinks == {Dolby, Newer}

(* One display is plugged in at first, and the compositor listens where the *)
(* environment says: the changes bring the other display and directory.     *)
(* The mode of HDMI's CRTC is not that of the other CRTCs.                  *)
MCInit ==
  /\ Init
  /\ sink = Dolby /\ home = EnvDir
  /\ lit # NoCrtc => kernel[Target("MODE", lit)] \notin OtherModes

MCSpec == MCInit /\ [][Next]_vars

(* The threads are all alike, and no property is about liveness.            *)
Symmetry == Permutations(Threads)
=============================================================================
