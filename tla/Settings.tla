------------------------------ MODULE Settings -------------------------------
(***************************************************************************)
(* The settings API (src/meson/meson_drm_settings.c): calls that add to an *)
(* atomic request of the caller's, which the caller then commits or frees, *)
(* and calls that read the kernel's properties.                            *)
(*                                                                         *)
(* A call that finds no connector, or no property of the name, fails; one  *)
(* that adds fails also when libdrm has no memory.                         *)
(***************************************************************************)
EXTENDS Integers, Sequences, FiniteSets

CONSTANTS
  Id,          (* Id[c]: the object number of each connector there is       *)
  Crtcs,       (* sequence of the CRTCs' numbers                            *)
  Lists,       (* Lists[c]: the modes of the connector, a sequence          *)
  Lacks,       (* names of the properties that the device does not have     *)
  Legal,       (* Legal[s]: the values that the client sets by s            *)
  Reports,     (* Reports[name]: what the kernel itself comes to report     *)
  MaxCalls,    (* bound: calls that add, reports, displays plugged          *)
  MaxLost      (* bound: allocations that fail                              *)

ConnTypes == {"HDMIA", "HDMIB", "LVDS", "CVBS", "DUMMY"}
Conns     == DOMAIN Id
CrtcIds   == {Crtcs[n] : n \in DOMAIN Crtcs}
ConnNames == {"CRTC_ID", "color space", "color depth", "avmute", "content protection",
              "content type", "aspect ratio", "frac rate", "cvbs avmute", "hdcp mode",
              "hdr status", "rx hdcp", "hdmi content"}
CrtcNames == {"MODE_ID", "ACTIVE", "hdr policy", "dv enable", "vrr", "hdr off", "dv mode",
              "background"}

(* The calls that set one property.                                        *)
Setters == {"COLOR_SPACE", "COLOR_DEPTH", "HDR_POLICY", "HDMI_ENABLE", "CONTENT_PROTECTION",
            "HDCP_VERSION", "DOLBY_VISION_ENABLE", "ACTIVE", "VRR_ENABLED", "ASPECT_RATIO",
            "FRAC_RATE", "TX_HDR_OFF", "DV_MODE", "BACKGROUND", "CVBS_AVMUTE"}

(* A mode, with what a DisplayMode does not tell of it (rest).             *)
Mode == [size : Nat, rate : Nat, interlace : BOOLEAN, rest : STRING, preferred : BOOLEAN]

(* Every atomic driver has the three properties of a mode change; values   *)
(* are those of the header's enumerations, without the reserved ones; the  *)
(* kernel changes no property that a call sets but for the protection.     *)
ASSUME SettingsAssumption ==
  /\ Conns \subseteq ConnTypes
  /\ Crtcs \in Seq(Nat \ {0}) /\ Len(Crtcs) > 0
  /\ Id \in [Conns -> Nat \ CrtcIds]
  /\ \A c, d \in Conns : Id[c] = Id[d] => c = d
  /\ \A c \in Conns : Lists[c] \in Seq(Mode)
  /\ \E c \in Conns : Len(Lists[c]) > 0
  /\ Lacks \cap {"CRTC_ID", "MODE_ID", "ACTIVE"} = {}
  /\ \A s \in Setters : Legal[s] \subseteq Nat
  /\ Legal["COLOR_SPACE"] \subseteq 0 .. 3 /\ Legal["HDR_POLICY"] \subseteq 0 .. 2
  /\ Legal["HDCP_VERSION"] \subseteq 0 .. 1 /\ Legal["ASPECT_RATIO"] \subseteq 0 .. 2
  /\ DOMAIN Reports \subseteq {"hdcp mode", "hdr status", "rx hdcp", "hdmi content",
                               "content protection"}
  /\ \A name \in DOMAIN Reports : Reports[name] \subseteq Nat

VARIABLES
  kernel,      (* kernel[o][name]: the properties of connectors and CRTCs   *)
  connected,   (* the connectors with a display                             *)
  req,         (* the caller's request: what is set, in order, and by whom  *)
  blobs,       (* the kernel's mode blobs by number                         *)
  asked,       (* history: what calls that returned 0 have asked for        *)
  half,        (* history: a call that returned -1 has left items in req    *)
  shown,       (* history: what was asked for in requests that were taken   *)
  held, lost,  (* connectors not destroyed; allocations that failed         *)
  calls

vars == <<kernel, connected, req, blobs, asked, half, shown, held, lost, calls>>

None == -1

(* The boot loader has left some connectors on CRTCs of their own, in the  *)
(* mode of blob 1.                                                         *)
Init ==
  /\ connected \in SUBSET Conns
  /\ \E on \in [Conns -> CrtcIds \cup {0}] :
       /\ \A c, d \in Conns : on[c] = on[d] /\ on[c] # 0 => c = d
       /\ kernel = [o \in {Id[c] : c \in Conns} \cup CrtcIds |->
            IF o \in CrtcIds
            THEN [n \in CrtcNames |->
                    IF n \in {"MODE_ID", "ACTIVE"} /\ \E c \in Conns : on[c] = o THEN 1 ELSE 0]
            ELSE [n \in ConnNames |->
                    IF n = "CRTC_ID" THEN on[CHOOSE c \in Conns : Id[c] = o] ELSE 0]]
  /\ blobs = <<Lists[CHOOSE c \in Conns : Len(Lists[c]) > 0][1]>>
  /\ req = <<>> /\ asked = {} /\ half = FALSE /\ shown = {}
  /\ held = 0 /\ lost = 0 /\ calls = 0

-----------------------------------------------------------------------------
(* get_current_connector, and the CRTC that mesonConnectorCreate finds:    *)
(* the first one for a connector that is off.                              *)
Exists(c) == c \in Conns
CrtcOf(c) == IF kernel[Id[c]]["CRTC_ID"] = 0 THEN Crtcs[1] ELSE kernel[Id[c]]["CRTC_ID"]
Object(c, kind) == IF kind = "crtc" THEN CrtcOf(c) ELSE Id[c]
Has(c, name) == Exists(c) /\ name \notin Lacks

(* meson_drm_get_prop_value, of a connector and of its CRTC.               *)
PropOf(c, kind, name) == IF Has(c, name) THEN kernel[Object(c, kind)][name] ELSE None
ConnProp(c, name) == PropOf(c, "connector", name)
CrtcProp(c, name) == PropOf(c, "crtc", name)
Or(value, default) == IF value = None THEN default ELSE value

(* The calls that read; an enumeration ends in a reserved value.           *)
Reserved(v, n) == IF v \in 0 .. n THEN v ELSE n + 1
GetColorSpace(c)      == Reserved(ConnProp(c, "color space"), 3)
GetColorDepth(c)      == Or(ConnProp(c, "color depth"), 0)
GetHDRPolicy(c)       == LET v == CrtcProp(c, "hdr policy") IN IF v \in 0 .. 2 THEN v ELSE 0
GetAVMute(c)          == Or(ConnProp(c, "avmute"), 0)
GetHDCPContentType(c) == Reserved(ConnProp(c, "content type"), 1)
GetContentType(c)     == Reserved(ConnProp(c, "hdmi content"), 4)
GetDvEnable(c)        == CrtcProp(c, "dv enable")
GetActive(c)          == Or(CrtcProp(c, "ACTIVE"), 0)
GetVrrEnabled(c)      == Or(CrtcProp(c, "vrr"), 0)
GetAspectRatio(c)     == Reserved(Or(ConnProp(c, "aspect ratio"), 0), 2)
GetFracRatePolicy(c)  == Or(ConnProp(c, "frac rate"), 0)
GetHdrForceMode(c)    == Or(CrtcProp(c, "hdr off"), 0)
GetDvMode(c)          == Or(CrtcProp(c, "dv mode"), 0)
GetCvbsAVMute(c)      == Or(ConnProp(c, "cvbs avmute"), 0)
GetHdrStatus(c)       == LET v == ConnProp(c, "hdr status") IN IF v \in 0 .. 6 THEN v ELSE 6

(* Two bits, of which the second one counts.                               *)
GetHdcpVersion(c) == LET v == Or(ConnProp(c, "hdcp mode"), 0) IN
  IF (v \div 2) % 2 = 1 THEN "2.2" ELSE IF v % 2 = 1 THEN "1.4" ELSE "reserved"

GetHdcpAuthStatus(c) == ConnProp(c, "content protection") = 2
GetRxSupportedHdcpVersion(c) == LET v == ConnProp(c, "rx hdcp") IN
  CASE v = 14 -> {"1.4"} [] v = 22 -> {"2.2"} [] v = 36 -> {"1.4", "2.2"} [] OTHER -> {}
GetConnectionStatus(c) ==
  CASE ~Exists(c) -> "unknown" [] c \in connected -> "connected" [] OTHER -> "disconnected"

-----------------------------------------------------------------------------
(* What a DisplayMode tells of a mode.                                     *)
Told(m) == [size |-> m.size, rate |-> m.rate, interlace |-> m.interlace]
NoMode  == [size |-> 0, rate |-> 0, interlace |-> FALSE]
SupportedModes(c) == IF Exists(c) THEN {Told(Lists[c][n]) : n \in DOMAIN Lists[c]} ELSE {}

(* meson_drm_getPreferredMode, with what was in the caller's structure:    *)
(* size and scan of the first preferred mode are put there, no rate is.    *)
PreferredMode(c, before) ==
  LET best == {n \in DOMAIN Lists[c] : Lists[c][n].preferred}
  IN  IF best = {} THEN before
      ELSE [Told(Lists[c][CHOOSE n \in best : \A k \in best : n <= k])
              EXCEPT !.rate = before.rate]

(* get_default_connector: the first of three with a display.               *)
DefaultConnector ==
  LET first(c, next) == IF c \in connected THEN c ELSE next
  IN  first("HDMIA", first("LVDS", first("CVBS", "none")))

(* The mode of the connector's CRTC; all zero, and no error, if it is off. *)
GetModeInfo(type) ==
  LET c  == IF type = "RESERVED" THEN DefaultConnector ELSE type
      id == kernel[CrtcOf(c)]["MODE_ID"]
  IN  IF id = 0 THEN NoMode ELSE Told(blobs[id])

FoundIn(c, want) == {n \in DOMAIN Lists[c] : Told(Lists[c][n]) = want}

(* Mutant: the rate is not compared.                                       *)
FirstOfSize(c, want) ==
  LET all == {n \in DOMAIN Lists[c] : Lists[c][n].size = want.size}
  IN  CHOOSE n \in all : \A k \in all : n <= k

(* The first mode with the size, rate and scan that are asked for.         *)
FirstFound(c, want) == CHOOSE n \in FoundIn(c, want) : \A k \in FoundIn(c, want) : n <= k

-----------------------------------------------------------------------------
Count == calls < MaxCalls /\ calls' = calls + 1
Item(o, name, value, by)  == [obj |-> o, name |-> name, value |-> value, by |-> by]
Wish(c, o, by, value, mode) ==
  [conn |-> c, obj |-> o, by |-> by, value |-> value, mode |-> mode, over |-> FALSE]

(* A wish replaces the one for the same thing of the same connector, and   *)
(* is over one for the same CRTC that was made for another connector.      *)
Alike(w, x)  == w.obj = x.obj /\ w.by = x.by
Under(w, new) == [w EXCEPT !.over = w.over \/ \E x \in new : Alike(w, x)]
Merge(old, new) ==
  new \cup {Under(w, new) : w \in {y \in old : \A x \in new : Alike(y, x) => y.conn # x.conn}}

(* Mutant: a setter that has added returns before it destroys.             *)
LeftIfAdded(added) == IF added THEN 1 ELSE 0

(* mesonConnectorDestroy on every way out of a setter.                     *)
LeftBy(added) == 0

(* A setter: connector, property, libdrm's AddProperty, and back.          *)
Set(s, c, kind, name, v) ==
  /\ Count
  /\ \E added \in IF Has(c, name) THEN BOOLEAN ELSE {FALSE} :
       /\ req'   = IF added THEN Append(req, Item(Object(c, kind), name, v, s)) ELSE req
       /\ asked' = IF added THEN Merge(asked, {Wish(c, Object(c, kind), s, v, NoMode)}) ELSE asked
       /\ held'  = held + (IF Exists(c) THEN LeftBy(added) ELSE 0)
       /\ lost'  = lost + (IF Has(c, name) /\ ~added THEN 1 ELSE 0)
       /\ lost' <= MaxLost
  /\ UNCHANGED <<kernel, connected, blobs, half, shown>>

SetColorSpace(c, v)      == Set("COLOR_SPACE", c, "connector", "color space", v)
SetColorDepth(c, v)      == Set("COLOR_DEPTH", c, "connector", "color depth", v)
SetHDRPolicy(c, v)       == Set("HDR_POLICY", c, "crtc", "hdr policy", v)
SetAVMute(c, v)          == Set("HDMI_ENABLE", c, "connector", "avmute", v)
SetHDCPEnable(c, v)      == Set("CONTENT_PROTECTION", c, "connector", "content protection", v)
SetHDCPContentType(c, v) == Set("HDCP_VERSION", c, "connector", "content type", v)
SetDvEnable(c, v)        == Set("DOLBY_VISION_ENABLE", c, "crtc", "dv enable", v)
SetActive(c, v)          == Set("ACTIVE", c, "crtc", "ACTIVE", v)
SetVrrEnabled(c, v)      == Set("VRR_ENABLED", c, "crtc", "vrr", v)
(* The ratio of HDMIA is read first, only to be logged.                    *)
SetAspectRatio(c, v)     == Set("ASPECT_RATIO", c, "connector", "aspect ratio", v)
SetFracRatePolicy(c, v)  == Set("FRAC_RATE", c, "connector", "frac rate", v)

(* Mutant: the value goes to the property beside it.                       *)
SetDvModeAsOff(c, v)     == Set("TX_HDR_OFF", c, "crtc", "dv mode", v)

SetHdrForceMode(c, v)    == Set("TX_HDR_OFF", c, "crtc", "hdr off", v)
SetDvMode(c, v)          == Set("DV_MODE", c, "crtc", "dv mode", v)
SetBackGroundColor(c, v) == Set("BACKGROUND", c, "crtc", "background", v)
SetCvbsAVMute(c, v)      == Set("CVBS_AVMUTE", c, "connector", "cvbs avmute", v)

Setter(c) ==
  \/ \E v \in Legal["COLOR_SPACE"] : SetColorSpace(c, v)
  \/ \E v \in Legal["COLOR_DEPTH"] : SetColorDepth(c, v)
  \/ \E v \in Legal["HDR_POLICY"] : SetHDRPolicy(c, v)
  \/ \E v \in Legal["HDMI_ENABLE"] : SetAVMute(c, v)
  \/ \E v \in Legal["CONTENT_PROTECTION"] : SetHDCPEnable(c, v)
  \/ \E v \in Legal["HDCP_VERSION"] : SetHDCPContentType(c, v)
  \/ \E v \in Legal["DOLBY_VISION_ENABLE"] : SetDvEnable(c, v)
  \/ \E v \in Legal["ACTIVE"] : SetActive(c, v)
  \/ \E v \in Legal["VRR_ENABLED"] : SetVrrEnabled(c, v)
  \/ \E v \in Legal["ASPECT_RATIO"] : SetAspectRatio(c, v)
  \/ \E v \in Legal["FRAC_RATE"] : SetFracRatePolicy(c, v)
  \/ \E v \in Legal["TX_HDR_OFF"] : SetHdrForceMode(c, v)
  \/ \E v \in Legal["DV_MODE"] : SetDvMode(c, v)
  \/ \E v \in Legal["BACKGROUND"] : SetBackGroundColor(c, v)
  \/ \E v \in Legal["CVBS_AVMUTE"] : SetCvbsAVMute(c, v)

-----------------------------------------------------------------------------
(* A change to a CVBS mode also takes HDMIA off its CRTC.                  *)
TakesHdmiOff(c) == c = "CVBS" /\ Exists("HDMIA")

(* The connector's CRTC_ID, a blob with the mode, the CRTC's MODE_ID and   *)
(* ACTIVE.  The blob is never destroyed, so it is there whenever the       *)
(* request is committed.  What was added stays in the request when a later *)
(* part fails; whether HDMIA could be taken off is only logged.            *)
ChangeMode(c, want) ==
  /\ Count
  /\ \E added \in SUBSET {"off", "CRTC_ID", "MODE_ID", "ACTIVE"}, made \in BOOLEAN :
       LET found == Exists(c) /\ FoundIn(c, want) # {}
           blob  == Len(blobs) + 1
           tries == (IF TakesHdmiOff(c) THEN {"off"} ELSE {})
                    \cup (IF found THEN {"CRTC_ID"} ELSE {})
                    \cup (IF found /\ made THEN {"MODE_ID", "ACTIVE"} ELSE {})
           put(part, o, name, value, by) ==
             IF part \in added THEN <<Item(o, name, value, by)>> ELSE <<>>
           ok    == {"CRTC_ID", "MODE_ID", "ACTIVE"} \subseteq added
       IN  /\ added \subseteq tries /\ (made => found)
           /\ req'   = req \o put("off", Id["HDMIA"], "CRTC_ID", 0, "off")
                          \o put("CRTC_ID", Id[c], "CRTC_ID", CrtcOf(c), "CRTC")
                          \o put("MODE_ID", CrtcOf(c), "MODE_ID", blob, "MODE")
                          \o put("ACTIVE", CrtcOf(c), "ACTIVE", 1, "ACTIVE")
           /\ blobs' = IF made THEN Append(blobs, Lists[c][FirstFound(c, want)]) ELSE blobs
           /\ asked' = IF ok
                       THEN Merge(asked, {Wish(c, CrtcOf(c), "MODE", 0, want),
                                          Wish(c, CrtcOf(c), "ACTIVE", 1, NoMode)})
                       ELSE asked
           /\ half'  = (half \/ (~ok /\ added \ {"off"} # {}))
           /\ lost'  = lost + Cardinality(tries \ added) + (IF found /\ ~made THEN 1 ELSE 0)
           /\ lost' <= MaxLost
  /\ UNCHANGED <<kernel, connected, shown, held>>

(* meson_drm_getEDIDData forgets its connector when there is no memory.    *)
GetEDIDData(c) ==
  /\ Count /\ Exists(c)
  /\ \E n \in {0, 1} : held' = held + n /\ lost' = lost + n /\ lost' <= MaxLost
  /\ UNCHANGED <<kernel, connected, req, blobs, asked, half, shown>>

(* The kernel takes the whole request or nothing; an item that comes later *)
(* in the request counts.                                                  *)
Commit ==
  /\ req # <<>>
  /\ \E takes \in BOOLEAN :
       LET of(o, n) == {i \in DOMAIN req : req[i].obj = o /\ req[i].name = n}
           last(s)  == CHOOSE i \in s : \A k \in s : k <= i
       IN  /\ kernel' = IF takes
                THEN [o \in DOMAIN kernel |-> [n \in DOMAIN kernel[o] |->
                        IF of(o, n) = {} THEN kernel[o][n] ELSE req[last(of(o, n))].value]]
                ELSE kernel
           /\ shown' = IF ~takes THEN shown ELSE IF half THEN {} ELSE Merge(shown, asked)
  /\ req' = <<>> /\ asked' = {} /\ half' = FALSE
  /\ UNCHANGED <<connected, blobs, held, lost, calls>>

(* What the kernel reports of itself.                                      *)
Report(c, name, v) ==
  /\ Count /\ kernel' = [kernel EXCEPT ![Id[c]][name] = v]
  /\ UNCHANGED <<connected, req, blobs, asked, half, shown, held, lost>>
Plug(c) ==
  /\ Count /\ connected' = (connected \ {c}) \cup ({c} \ connected)
  /\ UNCHANGED <<kernel, req, blobs, asked, half, shown, held, lost>>

Next ==
  \/ \E c \in Conns \cup {"DUMMY"} : Setter(c)
  \/ \E c \in Conns : \E want \in SupportedModes(c) \cup {NoMode} : ChangeMode(c, want)
  \/ \E c \in Conns : GetEDIDData(c) \/ Plug(c)
  \/ \E c \in Conns, name \in DOMAIN Reports : \E v \in Reports[name] : Report(c, name, v)
  \/ Commit

Spec == Init /\ [][Next]_vars

-----------------------------------------------------------------------------
(* Every call that reads has an answer in the range of its type, whatever  *)
(* the kernel reports; a connector is left undestroyed only where there    *)
(* was no memory; the requests name objects and properties that exist.     *)
TypeOK ==
  /\ \A c \in ConnTypes :
       /\ GetColorSpace(c) \in 0 .. 4 /\ GetContentType(c) \in 0 .. 5
       /\ GetHDCPContentType(c) \in 0 .. 2 /\ GetAspectRatio(c) \in 0 .. 3
       /\ GetHDRPolicy(c) \in 0 .. 2 /\ GetHdrStatus(c) \in 0 .. 6
       /\ GetHdcpVersion(c) \in {"1.4", "2.2", "reserved"}
       /\ GetHdcpAuthStatus(c) => Exists(c)
       /\ GetRxSupportedHdcpVersion(c) # {} => Exists(c)
       /\ GetConnectionStatus(c) = "connected" => c \in connected
       /\ Exists(c) => \E m \in SupportedModes(c) \cup {NoMode} :
                         PreferredMode(c, NoMode) = [m EXCEPT !.rate = 0]
  /\ held <= lost
  /\ \A i \in DOMAIN req : req[i].name \in DOMAIN kernel[req[i].obj] \ Lacks

(* The pairs of a call that sets and one that reads.                       *)
Reads(s, c) ==
  CASE s = "COLOR_SPACE" -> GetColorSpace(c) [] s = "COLOR_DEPTH" -> GetColorDepth(c)
    [] s = "HDR_POLICY" -> GetHDRPolicy(c)   [] s = "HDMI_ENABLE" -> GetAVMute(c)
    [] s = "HDCP_VERSION" -> GetHDCPContentType(c) [] s = "ACTIVE" -> GetActive(c)
    [] s = "DOLBY_VISION_ENABLE" -> GetDvEnable(c) [] s = "VRR_ENABLED" -> GetVrrEnabled(c)
    [] s = "ASPECT_RATIO" -> GetAspectRatio(c) [] s = "FRAC_RATE" -> GetFracRatePolicy(c)
    [] s = "TX_HDR_OFF" -> GetHdrForceMode(c) [] s = "DV_MODE" -> GetDvMode(c)
    [] s = "CVBS_AVMUTE" -> GetCvbsAVMute(c)

(* What a setter that returned 0 has put into a request that the kernel    *)
(* took is what the call that reads answers for the setter's connector, as *)
(* long as that has the object.  One thing only disturbs it: a later call  *)
(* for another connector that comes to the same CRTC, as each one does     *)
(* that is off; then the answer is what that call has set.                 *)
SetReadsBack ==
  \A w \in shown :
    (w.by \notin {"MODE", "CONTENT_PROTECTION", "BACKGROUND"}
     /\ w.obj \in {Id[w.conn], CrtcOf(w.conn)}) =>
      IF ~w.over THEN Reads(w.by, w.conn) = w.value
      ELSE \E x \in shown : /\ Alike(w, x) /\ x.conn # w.conn /\ ~x.over
                           /\ Reads(w.by, w.conn) = x.value

(* After a mode change that returned 0 and whose request was taken, the    *)
(* connector of the change is in the mode that was asked for, unless one   *)
(* for another connector came to its CRTC, and so says                     *)
(* meson_drm_getModeInfo, also for the default connector; a CRTC that then *)
(* shows CVBS is HDMIA's as well only if there was no memory to take HDMIA *)
(* off, which the call does not tell.                                      *)
ChangedModeShows ==
  \A w \in shown :
    (w.by = "MODE" /\ ~w.over /\ CrtcOf(w.conn) = w.obj) =>
      /\ GetModeInfo(w.conn) = w.mode
      /\ DefaultConnector = w.conn => GetModeInfo("RESERVED") = w.mode
      /\ (w.conn = "CVBS" /\ Exists("HDMIA") /\ lost = 0)
           => kernel[Id["HDMIA"]]["CRTC_ID"] # w.obj

=============================================================================
