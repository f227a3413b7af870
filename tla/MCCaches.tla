------------------------------ MODULE MCCaches -------------------------------
(* Caches with no display and two displays, on two CRTCs, and with one      *)
(* property of each type; the first may be missing, two change their value. *)
EXTENDS Caches

MCCrtcs == <<31, 32>>
MCSinks ==
  {[modes |-> 0, edid |-> 0, connection |-> 2, mm |-> 0],
   [modes |-> 1, edid |-> 1, connection |-> 1, mm |-> 1],
   [modes |-> 2, edid |-> 2, connection |-> 1, mm |-> 2]}
MCPlanes ==
  <<[primary |-> FALSE, fb |-> 7], [primary |-> TRUE, fb |-> 8], [primary |-> TRUE, fb |-> 0]>>

ArraysOf(kind) ==
  CASE kind = "enum" -> {"values", "enums"} [] kind = "bitmask" -> {"enums"}
    [] kind = "blob" -> {"blobs"} [] OTHER -> {"values"}

Property(kind, there, v) ==
  [there |-> there, kind |-> kind, immutable |-> kind = "blob", arrays |-> ArraysOf(kind),
   value |-> v]

MCKernels ==
  {Property("range", there, 0) : there \in BOOLEAN} \cup
  {Property(kind, TRUE, v) : kind \in {"range", "blob"}, v \in 0 .. 1} \cup
  {Property(kind, TRUE, 0) : kind \in {"enum", "bitmask"}}

(* The second display, and HDMI on the CRTC that is also the fallback, come *)
(* with the changes.                                                        *)
MCInit ==
  /\ Init
  /\ sink.edid # 2 /\ lit # Crtcs[1]

MCSpec == MCInit /\ [][Next]_vars
=============================================================================
