------------------------------ MODULE MCSetCrtc ------------------------------
(* Two connectors, of which either may be chosen, or one there is not; by  *)
(* -C the CRTC, none, another object or one there is not; two modes of one *)
(* name.                                                                   *)
EXTENDS SetCrtc

MCConns   == <<11, 12>>
MCCrtcs   == <<1>>
MCObjects == [crtc |-> 1, encoder |-> 2, connector |-> 2, fb |-> 1, plane |-> 1]
M(name, rate, preferred) == [name |-> name, rate |-> rate, preferred |-> preferred]
MCLists   == {<<>>, <<M("1080p", 50, FALSE), M("1080p", 60, TRUE)>>, <<M("576i", 50, FALSE)>>}
MCAsked   == {[name |-> "", rate |-> 0], [name |-> "1080p", rate |-> 60],
              [name |-> "1080p", rate |-> 0]}

(* The second connector has no mode at first or the two of one name.        *)
MCInit == MainInit /\ \A n \in DOMAIN modes[12] : modes[12][n].name = "1080p"

MCFairSpec == MCInit /\ [][MainNext]_mainVars /\ WF_mainVars(MainStep)
=============================================================================
