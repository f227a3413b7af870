------------------------------ MODULE MCKmsInit ------------------------------
(* KmsInit on devices with all array entries in use, with few objects, with *)
(* none, and with one connector, CRTC or plane more than there are entries. *)
EXTENDS KmsInit

MCDevices ==
  { [conns |-> <<"hdmi", "tv", "panel", "panel">>, crtcs |-> 3,
     planes |-> <<"rgb", "nv12", "rgb", "nv12">>],
    [conns |-> <<"tv", "hdmi">>, crtcs |-> 1, planes |-> <<"nv12", "rgb", "nv12">>],
    [conns |-> <<"panel">>, crtcs |-> 2, planes |-> <<"rgb", "rgb">>],
    [conns |-> <<"tv">>, crtcs |-> 0, planes |-> <<>>],
    [conns |-> <<"panel", "hdmi", "panel", "panel">>, crtcs |-> 1, planes |-> <<"rgb">>],
    [conns |-> <<"hdmi">>, crtcs |-> 4, planes |-> <<"rgb">>],
    [conns |-> <<"hdmi">>, crtcs |-> 1,
     planes |-> <<"nv12", "nv12", "rgb", "nv12", "nv12", "nv12", "nv12", "nv12">>] }
=============================================================================
