----------------------------- MODULE MCSettings ------------------------------
(* HDMIA and CVBS on two CRTCs; HDMIA has two modes that differ only in    *)
(* what a DisplayMode does not tell, and two of one size.                  *)
EXTENDS Settings, TLC

MCId    == [HDMIA |-> 11, CVBS |-> 12]
MCCrtcs == <<1, 2>>
M(size, rate, interlace, rest, preferred) ==
  [size |-> size, rate |-> rate, interlace |-> interlace, rest |-> rest,
   preferred |-> preferred]
MCLists == [HDMIA |-> <<M(1080, 60, FALSE, "a", FALSE), M(1080, 60, FALSE, "b", FALSE),
                        M(1080, 50, FALSE, "a", TRUE)>>,
            CVBS  |-> <<M(576, 50, TRUE, "a", FALSE)>>]

(* Two values where the interference of connectors and of calls shows, and *)
(* one of its own for every other setter that may have more than a truth   *)
(* value.                                                                  *)
MCLegal ==
  [s \in Setters |->
     CASE s \in {"HDR_POLICY", "COLOR_SPACE"} -> {1, 2} [] s = "ACTIVE" -> {0, 1}
       [] s \in {"ASPECT_RATIO", "DV_MODE"} -> {2} [] s = "COLOR_DEPTH" -> {8}
       [] OTHER -> {1}]
MCReports   == ("hdcp mode" :> 0 .. 3) @@ ("hdr status" :> {1, 7}) @@ ("rx hdcp" :> {22, 36})
               @@ ("hdmi content" :> {5}) @@ ("content protection" :> {2})
=============================================================================
