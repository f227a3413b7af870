--------------------------- MODULE Settings_proofs ---------------------------
(***************************************************************************)
(* Proofs about Settings, for every set of connectors, CRTCs, modes and    *)
(* properties, and any number of calls, requests and lost allocations.     *)
(*                                                                         *)
(* The argument: what a call that returned 0 has asked for is the last     *)
(* item of its object and name in the request (LastOfAsked), until a later *)
(* call asks for the same thing; each item of the request is somebody's    *)
(* wish (ItemsAsked), so that a commit which changes what an earlier one   *)
(* has made also replaces that wish, or marks it as overridden by one for  *)
(* another connector.  A mode change that fails half-way breaks both       *)
(* (half).                                                                 *)
(***************************************************************************)
EXTENDS Settings, FiniteSetTheorems, SequenceTheorems, WellFoundedInduction, TLAPS

(* The object and the property of each wish.                               *)
Kind == [COLOR_SPACE |-> "connector", COLOR_DEPTH |-> "connector", HDR_POLICY |-> "crtc",
         HDMI_ENABLE |-> "connector", CONTENT_PROTECTION |-> "connector",
         HDCP_VERSION |-> "connector", DOLBY_VISION_ENABLE |-> "crtc", ACTIVE |-> "crtc",
         VRR_ENABLED |-> "crtc", ASPECT_RATIO |-> "connector", FRAC_RATE |-> "connector",
         TX_HDR_OFF |-> "crtc", DV_MODE |-> "crtc", BACKGROUND |-> "crtc",
         CVBS_AVMUTE |-> "connector", MODE |-> "crtc"]
Named == [COLOR_SPACE |-> "color space", COLOR_DEPTH |-> "color depth",
          HDR_POLICY |-> "hdr policy", HDMI_ENABLE |-> "avmute",
          CONTENT_PROTECTION |-> "content protection", HDCP_VERSION |-> "content type",
          DOLBY_VISION_ENABLE |-> "dv enable", ACTIVE |-> "ACTIVE", VRR_ENABLED |-> "vrr",
          ASPECT_RATIO |-> "aspect ratio", FRAC_RATE |-> "frac rate", TX_HDR_OFF |-> "hdr off",
          DV_MODE |-> "dv mode", BACKGROUND |-> "background", CVBS_AVMUTE |-> "cvbs avmute",
          MODE |-> "MODE_ID"]
Sets == Setters \cup {"MODE"}

ConnIds == {Id[c] : c \in Conns}
Objects == ConnIds \cup CrtcIds
NamesOf(o) == IF o \in CrtcIds THEN CrtcNames ELSE ConnNames
ObjectsOf(kind) == IF kind = "crtc" THEN CrtcIds ELSE ConnIds

(* Items that name a property there is, and a CRTC there is.               *)
Items ==
  {x \in [obj : Objects, name : ConnNames \cup CrtcNames, value : Nat,
          by : Sets \cup {"off", "CRTC"}] :
     /\ x.name \in NamesOf(x.obj) \ Lacks
     /\ x.name = "CRTC_ID" => x.value \in CrtcIds \cup {0}}

KernelOK ==
  /\ kernel \in [Objects -> [CrtcNames -> Nat] \cup [ConnNames -> Nat]]
  /\ \A o \in Objects : kernel[o] \in [NamesOf(o) -> Nat]
  /\ \A o \in ConnIds : kernel[o]["CRTC_ID"] \in CrtcIds \cup {0}

(* What is the value of a wish by one of the calls.                        *)
Wishes ==
  {w \in [conn : Conns, obj : Objects, by : Sets, value : Nat,
          mode : [size : Nat, rate : Nat, interlace : BOOLEAN], over : BOOLEAN] :
     /\ w.obj \in ObjectsOf(Kind[w.by])
     /\ Named[w.by] \notin Lacks
     /\ w.by \in Setters \ {"ACTIVE"} => w.value \in Legal[w.by]}

(* Every wish is, or is under, one that is not over: of another connector. *)
WishesOK(W) ==
  /\ W \subseteq Wishes
  /\ \A w \in W : \E x \in W : Alike(w, x) /\ ~x.over /\ (w.over => x.conn # w.conn)

(* The wishes that nothing is over, and what becomes of them by others.    *)
Live(W) == {w \in W : ~w.over}
Asked   == Live(asked)
Shown   == Live(shown)
Onto(old, new) == new \cup {w \in old : \A x \in new : ~Alike(w, x)}

Types ==
  /\ KernelOK
  /\ connected \subseteq Conns
  /\ req \in Seq(Items) /\ blobs \in Seq(Mode)
  /\ WishesOK(asked) /\ WishesOK(shown)
  /\ half \in BOOLEAN /\ held \in Nat /\ lost \in Nat /\ held <= lost

(* The last item of s for a property has the value v.                      *)
Last(s, o, n, v) ==
  \E i \in DOMAIN s :
    /\ s[i].obj = o /\ s[i].name = n /\ s[i].value = v
    /\ \A k \in DOMAIN s : s[k].obj = o /\ s[k].name = n => k <= i

(* The value is what was asked for: a mode is asked for by its blob.       *)
Meets(w, v) ==
  IF w.by = "MODE" THEN v \in DOMAIN blobs /\ Told(blobs[v]) = w.mode ELSE v = w.value

LastOfAsked ==
  ~half => \A w \in Asked : \E v \in Nat : Last(req, w.obj, Named[w.by], v) /\ Meets(w, v)

(* Each item has its wish; so has the mode of a CRTC that a connector is   *)
(* put on.                                                                 *)
ItemsAsked ==
  ~half => \A i \in DOMAIN req :
    IF req[i].name = "CRTC_ID"
    THEN req[i].value # 0 => \E w \in Asked : w.by = "MODE" /\ w.obj = req[i].value
    ELSE \E w \in Asked : w.obj = req[i].obj /\ Named[w.by] = req[i].name

(* What was asked for and taken is there; protection is also the kernel's. *)
ShownHolds ==
  \A w \in Shown :
    w.by # "CONTENT_PROTECTION" => Meets(w, kernel[w.obj][Named[w.by]])

(* A CRTC that is to show CVBS, or does, is not HDMIA's.                   *)
ForCvbs(w) == /\ w.by = "MODE" /\ "CVBS" \in Conns /\ "HDMIA" \in Conns
              /\ w.conn = "CVBS"
HdmiOff ==
  lost = 0 =>
    /\ ~half => \A w \in Asked : ForCvbs(w) =>
         \E v \in Nat : Last(req, Id["HDMIA"], "CRTC_ID", v) /\ v # w.obj
    /\ \A w \in Shown : ForCvbs(w) => kernel[Id["HDMIA"]]["CRTC_ID"] # w.obj

IInv == Types /\ LastOfAsked /\ ItemsAsked /\ ShownHolds /\ HdmiOff

-----------------------------------------------------------------------------
(* What the assumption says, in the parts that the proofs use.             *)
LEMMA IdsFacts ==
  /\ CrtcIds \subseteq Nat \ {0} /\ Crtcs[1] \in CrtcIds
  /\ \A c \in Conns : Id[c] \in Nat /\ Id[c] \in ConnIds /\ Id[c] \notin CrtcIds
  /\ \A c, d \in Conns : Id[c] = Id[d] => c = d
  /\ ConnIds \cap CrtcIds = {} /\ Objects \subseteq Nat
<1>1. Crtcs \in Seq(Nat \ {0}) /\ Len(Crtcs) > 0 /\ Id \in [Conns -> Nat \ CrtcIds]
  BY SettingsAssumption
<1>2. /\ DOMAIN Crtcs = 1 .. Len(Crtcs) /\ Len(Crtcs) \in Nat
      /\ \A n \in DOMAIN Crtcs : Crtcs[n] \in Nat \ {0}
  <2>1. PICK S : S = Nat \ {0}
    OBVIOUS
  <2>2. Crtcs \in Seq(S)
    BY <1>1, <2>1
  <2>. QED
    BY <2>1, <2>2
<1>3. 1 \in DOMAIN Crtcs
  BY <1>1, <1>2
<1>4. CrtcIds \subseteq Nat \ {0} /\ Crtcs[1] \in CrtcIds
  BY <1>2, <1>3 DEF CrtcIds
<1>5. \A c \in Conns : Id[c] \in Nat \ CrtcIds
  BY <1>1
<1>6. \A c, d \in Conns : Id[c] = Id[d] => c = d
  BY SettingsAssumption
<1>. QED
  BY <1>4, <1>5, <1>6 DEF ConnIds, Objects

LEMMA NamesFacts ==
  /\ "CRTC_ID" \notin Lacks /\ "MODE_ID" \notin Lacks /\ "ACTIVE" \notin Lacks
  /\ \A o \in CrtcIds : NamesOf(o) = CrtcNames
  /\ \A o \in ConnIds : NamesOf(o) = ConnNames
BY IdsFacts, SettingsAssumption DEF NamesOf

(* The two tables, row by row.                                             *)
LEMMA Rows ==
  ASSUME NEW s \in Sets
  PROVE
  \/ s = "COLOR_SPACE" /\ Kind[s] = "connector" /\ Named[s] = "color space"
  \/ s = "COLOR_DEPTH" /\ Kind[s] = "connector" /\ Named[s] = "color depth"
  \/ s = "HDR_POLICY" /\ Kind[s] = "crtc" /\ Named[s] = "hdr policy"
  \/ s = "HDMI_ENABLE" /\ Kind[s] = "connector" /\ Named[s] = "avmute"
  \/ s = "CONTENT_PROTECTION" /\ Kind[s] = "connector" /\ Named[s] = "content protection"
  \/ s = "HDCP_VERSION" /\ Kind[s] = "connector" /\ Named[s] = "content type"
  \/ s = "DOLBY_VISION_ENABLE" /\ Kind[s] = "crtc" /\ Named[s] = "dv enable"
  \/ s = "ACTIVE" /\ Kind[s] = "crtc" /\ Named[s] = "ACTIVE"
  \/ s = "VRR_ENABLED" /\ Kind[s] = "crtc" /\ Named[s] = "vrr"
  \/ s = "ASPECT_RATIO" /\ Kind[s] = "connector" /\ Named[s] = "aspect ratio"
  \/ s = "FRAC_RATE" /\ Kind[s] = "connector" /\ Named[s] = "frac rate"
  \/ s = "TX_HDR_OFF" /\ Kind[s] = "crtc" /\ Named[s] = "hdr off"
  \/ s = "DV_MODE" /\ Kind[s] = "crtc" /\ Named[s] = "dv mode"
  \/ s = "BACKGROUND" /\ Kind[s] = "crtc" /\ Named[s] = "background"
  \/ s = "CVBS_AVMUTE" /\ Kind[s] = "connector" /\ Named[s] = "cvbs avmute"
  \/ s = "MODE" /\ Kind[s] = "crtc" /\ Named[s] = "MODE_ID"
<1>1. \/ s = "COLOR_SPACE"
      \/ s = "COLOR_DEPTH"
      \/ s = "HDR_POLICY"
      \/ s = "HDMI_ENABLE"
      \/ s = "CONTENT_PROTECTION"
      \/ s = "HDCP_VERSION"
      \/ s = "DOLBY_VISION_ENABLE"
      \/ s = "ACTIVE"
      \/ s = "VRR_ENABLED"
      \/ s = "ASPECT_RATIO"
      \/ s = "FRAC_RATE"
      \/ s = "TX_HDR_OFF"
      \/ s = "DV_MODE"
      \/ s = "BACKGROUND"
      \/ s = "CVBS_AVMUTE"
      \/ s = "MODE"
  BY DEF Sets, Setters
<1>2. CASE s = "COLOR_SPACE"
  <2>1. Kind["COLOR_SPACE"] = "connector" /\ Named["COLOR_SPACE"] = "color space"
    BY DEF Kind, Named
  <2>. QED
    BY <1>2, <2>1
<1>3. CASE s = "COLOR_DEPTH"
  <2>1. Kind["COLOR_DEPTH"] = "connector" /\ Named["COLOR_DEPTH"] = "color depth"
    BY DEF Kind, Named
  <2>. QED
    BY <1>3, <2>1
<1>4. CASE s = "HDR_POLICY"
  <2>1. Kind["HDR_POLICY"] = "crtc" /\ Named["HDR_POLICY"] = "hdr policy"
    BY DEF Kind, Named
  <2>. QED
    BY <1>4, <2>1
<1>5. CASE s = "HDMI_ENABLE"
  <2>1. Kind["HDMI_ENABLE"] = "connector" /\ Named["HDMI_ENABLE"] = "avmute"
    BY DEF Kind, Named
  <2>. QED
    BY <1>5, <2>1
<1>6. CASE s = "CONTENT_PROTECTION"
  <2>1. /\ Kind["CONTENT_PROTECTION"] = "connector"
        /\ Named["CONTENT_PROTECTION"] = "content protection"
    BY DEF Kind, Named
  <2>. QED
    BY <1>6, <2>1
<1>7. CASE s = "HDCP_VERSION"
  <2>1. Kind["HDCP_VERSION"] = "connector" /\ Named["HDCP_VERSION"] = "content type"
    BY DEF Kind, Named
  <2>. QED
    BY <1>7, <2>1
<1>8. CASE s = "DOLBY_VISION_ENABLE"
  <2>1. Kind["DOLBY_VISION_ENABLE"] = "crtc" /\ Named["DOLBY_VISION_ENABLE"] = "dv enable"
    BY DEF Kind, Named
  <2>. QED
    BY <1>8, <2>1
<1>9. CASE s = "ACTIVE"
  <2>1. Kind["ACTIVE"] = "crtc" /\ Named["ACTIVE"] = "ACTIVE"
    BY DEF Kind, Named
  <2>. QED
    BY <1>9, <2>1
<1>10. CASE s = "VRR_ENABLED"
  <2>1. Kind["VRR_ENABLED"] = "crtc" /\ Named["VRR_ENABLED"] = "vrr"
    BY DEF Kind, Named
  <2>. QED
    BY <1>10, <2>1
<1>11. CASE s = "ASPECT_RATIO"
  <2>1. Kind["ASPECT_RATIO"] = "connector" /\ Named["ASPECT_RATIO"] = "aspect ratio"
    BY DEF Kind, Named
  <2>. QED
    BY <1>11, <2>1
<1>12. CASE s = "FRAC_RATE"
  <2>1. Kind["FRAC_RATE"] = "connector" /\ Named["FRAC_RATE"] = "frac rate"
    BY DEF Kind, Named
  <2>. QED
    BY <1>12, <2>1
<1>13. CASE s = "TX_HDR_OFF"
  <2>1. Kind["TX_HDR_OFF"] = "crtc" /\ Named["TX_HDR_OFF"] = "hdr off"
    BY DEF Kind, Named
  <2>. QED
    BY <1>13, <2>1
<1>14. CASE s = "DV_MODE"
  <2>1. Kind["DV_MODE"] = "crtc" /\ Named["DV_MODE"] = "dv mode"
    BY DEF Kind, Named
  <2>. QED
    BY <1>14, <2>1
<1>15. CASE s = "BACKGROUND"
  <2>1. Kind["BACKGROUND"] = "crtc" /\ Named["BACKGROUND"] = "background"
    BY DEF Kind, Named
  <2>. QED
    BY <1>15, <2>1
<1>16. CASE s = "CVBS_AVMUTE"
  <2>1. Kind["CVBS_AVMUTE"] = "connector" /\ Named["CVBS_AVMUTE"] = "cvbs avmute"
    BY DEF Kind, Named
  <2>. QED
    BY <1>16, <2>1
<1>17. CASE s = "MODE"
  <2>1. Kind["MODE"] = "crtc" /\ Named["MODE"] = "MODE_ID"
    BY DEF Kind, Named
  <2>. QED
    BY <1>17, <2>1
<1>. QED
  BY <1>1, <1>2, <1>3, <1>4, <1>5, <1>6, <1>7, <1>8, <1>9, <1>10,
     <1>11, <1>12, <1>13, <1>14, <1>15, <1>16, <1>17

(* Each setter sets a property of its own of the objects of its kind.      *)
LEMMA NamedFacts ==
  /\ \A s \in Sets : Kind[s] \in {"crtc", "connector"}
  /\ \A s \in Sets : Named[s] \in (IF Kind[s] = "crtc" THEN CrtcNames ELSE ConnNames) \ {"CRTC_ID"}
  /\ \A s, r \in Sets : Named[s] = Named[r] => s = r
  /\ \A s \in Setters : Named[s] # "MODE_ID"
<1>1. ASSUME NEW s \in Sets
      PROVE  /\ Kind[s] \in {"crtc", "connector"}
             /\ Kind[s] = "crtc" => Named[s] \in CrtcNames
             /\ Kind[s] = "connector" => Named[s] \in ConnNames
             /\ Named[s] # "CRTC_ID"
             /\ Named[s] = "MODE_ID" => s = "MODE"
  BY Rows DEF CrtcNames, ConnNames
<1>2. ASSUME NEW s \in Sets, NEW r \in Sets, Named[s] = Named[r] PROVE s = r
  BY <1>2, Rows
<1>3. "MODE" \notin Setters
  BY DEF Setters
<1>. QED
  BY <1>1, <1>2, <1>3 DEF Sets

LEMMA WishNames ==
  ASSUME NEW w \in Wishes
  PROVE  /\ w.obj \in Objects /\ w.by \in Sets
         /\ Named[w.by] \in NamesOf(w.obj) \ Lacks /\ Named[w.by] # "CRTC_ID"
<1>1. w.obj \in ObjectsOf(Kind[w.by]) /\ w.obj \in Objects /\ w.by \in Sets
      /\ Named[w.by] \notin Lacks
  BY DEF Wishes
<1>. QED
  BY <1>1, NamedFacts, NamesFacts DEF ObjectsOf

(* A CRTC is found for each connector.                                     *)
LEMMA CrtcOfFound ==
  ASSUME KernelOK, NEW c \in Conns PROVE CrtcOf(c) \in CrtcIds
BY IdsFacts DEF KernelOK, CrtcOf

-----------------------------------------------------------------------------
(* A non-empty set of positions has a smallest and a largest one: of the   *)
(* sets of its members up to k, and from k up, one is minimal.             *)
LEMMA SmallestExists ==
  ASSUME NEW n \in Nat, NEW P \in SUBSET (1 .. n), P # {}
  PROVE  \E k \in P : \A m \in P : k <= m
<1>. DEFINE Upto(k) == {m \in P : m <= k}
            T == {Upto(k) : k \in P}
<1>0. IsFiniteSet(1 .. n)
  BY FS_Interval
<1>1. FiniteSubsetsOf(1 .. n) = SUBSET (1 .. n)
  BY <1>0, FS_FiniteSubsetsOfFinite
<1>2. T \subseteq SUBSET (1 .. n) /\ T # {}
  OBVIOUS
<1>3. IsWellFoundedOn(StrictSubsetOrdering(1 .. n), SUBSET (1 .. n))
  BY <1>1, FS_StrictSubsetOrderingWellFounded
<1>4. PICK x \in T : \A y \in T : ~(<<y, x>> \in StrictSubsetOrdering(1 .. n))
  <2>. HIDE DEF T
  <2>. QED
    BY <1>2, <1>3, WFMin
<1>5. PICK k \in P : x = Upto(k)
  OBVIOUS
<1>6. ASSUME NEW m \in P, ~(k <= m) PROVE FALSE
  <2>1. P \subseteq Int
    OBVIOUS
  <2>2. k \in Int /\ m \in Int /\ m <= k /\ k <= k
    BY <1>6, <2>1
  <2>3. \A j \in P : j <= m => j <= k
    BY <2>1, <2>2
  <2>4. Upto(m) \subseteq Upto(k) /\ k \in Upto(k) /\ k \notin Upto(m)
    BY <1>6, <2>2, <2>3
  <2>5. <<Upto(m), Upto(k)>> \in StrictSubsetOrdering(1 .. n)
    BY <1>2, <2>4 DEF StrictSubsetOrdering
  <2>. QED
    BY <1>4, <1>5, <2>5
<1>. QED
  BY <1>6

LEMMA LargestExists ==
  ASSUME NEW n \in Nat, NEW P \in SUBSET (1 .. n), P # {}
  PROVE  \E k \in P : \A m \in P : m <= k
<1>. DEFINE Q == {n + 1 - k : k \in P}
<1>1. P \subseteq Int /\ \A k \in P : k \in 1 .. n
  OBVIOUS
<1>2. Q \in SUBSET (1 .. n) /\ Q # {}
  <2>1. \A k \in 1 .. n : n + 1 - k \in 1 .. n
    OBVIOUS
  <2>. QED
    BY <1>1, <2>1
<1>3. PICK q \in Q : \A r \in Q : q <= r
  <2>. HIDE DEF Q
  <2>. QED
    BY <1>2, SmallestExists
<1>4. PICK k \in P : q = n + 1 - k
  OBVIOUS
<1>5. \A m \in P : n + 1 - k <= n + 1 - m
  BY <1>3, <1>4
<1>. QED
  BY <1>1, <1>4, <1>5

-----------------------------------------------------------------------------
(* The last item for a property, when one more is added to a request.      *)
LEMMA LastAppend ==
  ASSUME NEW s \in Seq(Items), NEW x \in Items
  PROVE  /\ Append(s, x) \in Seq(Items)
         /\ Last(Append(s, x), x.obj, x.name, x.value)
         /\ \A o, n, v : Last(s, o, n, v) /\ (o # x.obj \/ n # x.name)
              => Last(Append(s, x), o, n, v)
         /\ \A i \in DOMAIN Append(s, x) :
              Append(s, x)[i] = x \/ \E k \in DOMAIN s : Append(s, x)[i] = s[k]
<1>. DEFINE t == Append(s, x)
<1>1. /\ t \in Seq(Items) /\ Len(s) \in Nat
      /\ DOMAIN s = 1 .. Len(s) /\ DOMAIN t = 1 .. Len(s) + 1
      /\ t[Len(s) + 1] = x /\ \A i \in DOMAIN s : t[i] = s[i]
  OBVIOUS
<1>. HIDE DEF t
<1>2. Last(t, x.obj, x.name, x.value)
  <2>1. Len(s) + 1 \in DOMAIN t /\ \A k \in DOMAIN t : k <= Len(s) + 1
    BY <1>1
  <2>. QED
    BY <1>1, <2>1 DEF Last
<1>3. ASSUME NEW o, NEW n, NEW v, Last(s, o, n, v), o # x.obj \/ n # x.name
      PROVE  Last(t, o, n, v)
  <2>1. PICK i \in DOMAIN s :
          /\ s[i].obj = o /\ s[i].name = n /\ s[i].value = v
          /\ \A k \in DOMAIN s : s[k].obj = o /\ s[k].name = n => k <= i
    BY <1>3 DEF Last
  <2>2. i \in DOMAIN t /\ t[i] = s[i]
    BY <1>1
  <2>3. ASSUME NEW k \in DOMAIN t, t[k].obj = o, t[k].name = n PROVE k <= i
    <3>1. k # Len(s) + 1
      BY <1>1, <1>3, <2>3
    <3>2. k \in DOMAIN s /\ t[k] = s[k]
      BY <1>1, <3>1
    <3>. QED
      BY <2>1, <2>3, <3>2
  <2>. QED
    BY <2>1, <2>2, <2>3 DEF Last
<1>4. \A i \in DOMAIN t : t[i] = x \/ \E k \in DOMAIN s : t[i] = s[k]
  BY <1>1
<1>. QED
  BY <1>1, <1>2, <1>3, <1>4 DEF t

(* There is a last item for a property that has one, and only one.         *)
LEMMA LastExists ==
  ASSUME NEW s \in Seq(Items), NEW i \in DOMAIN s
  PROVE  \E k \in DOMAIN s : Last(s, s[i].obj, s[i].name, s[k].value)
<1>. DEFINE P == {k \in DOMAIN s : s[k].obj = s[i].obj /\ s[k].name = s[i].name}
<1>1. Len(s) \in Nat /\ DOMAIN s = 1 .. Len(s)
  OBVIOUS
<1>2. P \in SUBSET (1 .. Len(s)) /\ P # {}
  BY <1>1
<1>3. PICK k \in P : \A m \in P : m <= k
  <2>. HIDE DEF P
  <2>. QED
    BY <1>1, <1>2, LargestExists
<1>. QED
  BY <1>3 DEF Last

LEMMA LastUnique ==
  ASSUME NEW s \in Seq(Items), NEW o, NEW n, NEW v, NEW u, Last(s, o, n, v), Last(s, o, n, u)
  PROVE  v = u
<1>1. \A i \in DOMAIN s : i \in Nat
  OBVIOUS
<1>2. PICK i \in DOMAIN s :
        /\ s[i].obj = o /\ s[i].name = n /\ s[i].value = v
        /\ \A k \in DOMAIN s : s[k].obj = o /\ s[k].name = n => k <= i
  BY DEF Last
<1>3. PICK j \in DOMAIN s :
        /\ s[j].obj = o /\ s[j].name = n /\ s[j].value = u
        /\ \A k \in DOMAIN s : s[k].obj = o /\ s[k].name = n => k <= j
  BY DEF Last
<1>. QED
  BY <1>1, <1>2, <1>3

-----------------------------------------------------------------------------
(* Every setter is Set, with its row of the tables.                        *)
LEMMA SetterSets ==
  ASSUME NEW c, Setter(c)
  PROVE  \E s \in Setters : \E v \in Legal[s] : Set(s, c, Kind[s], Named[s], v)
<1>. DEFINE G == \E s \in Setters : \E v \in Legal[s] : Set(s, c, Kind[s], Named[s], v)
<1>1. ASSUME NEW v \in Legal["COLOR_SPACE"], SetColorSpace(c, v) PROVE G
  <2>1. Set("COLOR_SPACE", c, Kind["COLOR_SPACE"], Named["COLOR_SPACE"], v)
    BY <1>1 DEF SetColorSpace, Kind, Named
  <2>. QED
    BY <2>1 DEF Setters
<1>2. ASSUME NEW v \in Legal["COLOR_DEPTH"], SetColorDepth(c, v) PROVE G
  <2>1. Set("COLOR_DEPTH", c, Kind["COLOR_DEPTH"], Named["COLOR_DEPTH"], v)
    BY <1>2 DEF SetColorDepth, Kind, Named
  <2>. QED
    BY <2>1 DEF Setters
<1>3. ASSUME NEW v \in Legal["HDR_POLICY"], SetHDRPolicy(c, v) PROVE G
  <2>1. Set("HDR_POLICY", c, Kind["HDR_POLICY"], Named["HDR_POLICY"], v)
    BY <1>3 DEF SetHDRPolicy, Kind, Named
  <2>. QED
    BY <2>1 DEF Setters
<1>4. ASSUME NEW v \in Legal["HDMI_ENABLE"], SetAVMute(c, v) PROVE G
  <2>1. Set("HDMI_ENABLE", c, Kind["HDMI_ENABLE"], Named["HDMI_ENABLE"], v)
    BY <1>4 DEF SetAVMute, Kind, Named
  <2>. QED
    BY <2>1 DEF Setters
<1>5. ASSUME NEW v \in Legal["CONTENT_PROTECTION"], SetHDCPEnable(c, v) PROVE G
  <2>1. Set("CONTENT_PROTECTION", c, Kind["CONTENT_PROTECTION"], Named["CONTENT_PROTECTION"], v)
    BY <1>5 DEF SetHDCPEnable, Kind, Named
  <2>. QED
    BY <2>1 DEF Setters
<1>6. ASSUME NEW v \in Legal["HDCP_VERSION"], SetHDCPContentType(c, v) PROVE G
  <2>1. Set("HDCP_VERSION", c, Kind["HDCP_VERSION"], Named["HDCP_VERSION"], v)
    BY <1>6 DEF SetHDCPContentType, Kind, Named
  <2>. QED
    BY <2>1 DEF Setters
<1>7. ASSUME NEW v \in Legal["DOLBY_VISION_ENABLE"], SetDvEnable(c, v) PROVE G
  <2>1. Set("DOLBY_VISION_ENABLE", c, Kind["DOLBY_VISION_ENABLE"], Named["DOLBY_VISION_ENABLE"], v)
    BY <1>7 DEF SetDvEnable, Kind, Named
  <2>. QED
    BY <2>1 DEF Setters
<1>8. ASSUME NEW v \in Legal["ACTIVE"], SetActive(c, v) PROVE G
  <2>1. Set("ACTIVE", c, Kind["ACTIVE"], Named["ACTIVE"], v)
    BY <1>8 DEF SetActive, Kind, Named
  <2>. QED
    BY <2>1 DEF Setters
<1>9. ASSUME NEW v \in Legal["VRR_ENABLED"], SetVrrEnabled(c, v) PROVE G
  <2>1. Set("VRR_ENABLED", c, Kind["VRR_ENABLED"], Named["VRR_ENABLED"], v)
    BY <1>9 DEF SetVrrEnabled, Kind, Named
  <2>. QED
    BY <2>1 DEF Setters
<1>10. ASSUME NEW v \in Legal["ASPECT_RATIO"], SetAspectRatio(c, v) PROVE G
  <2>1. Set("ASPECT_RATIO", c, Kind["ASPECT_RATIO"], Named["ASPECT_RATIO"], v)
    BY <1>10 DEF SetAspectRatio, Kind, Named
  <2>. QED
    BY <2>1 DEF Setters
<1>11. ASSUME NEW v \in Legal["FRAC_RATE"], SetFracRatePolicy(c, v) PROVE G
  <2>1. Set("FRAC_RATE", c, Kind["FRAC_RATE"], Named["FRAC_RATE"], v)
    BY <1>11 DEF SetFracRatePolicy, Kind, Named
  <2>. QED
    BY <2>1 DEF Setters
<1>12. ASSUME NEW v \in Legal["TX_HDR_OFF"], SetHdrForceMode(c, v) PROVE G
  <2>1. Set("TX_HDR_OFF", c, Kind["TX_HDR_OFF"], Named["TX_HDR_OFF"], v)
    BY <1>12 DEF SetHdrForceMode, Kind, Named
  <2>. QED
    BY <2>1 DEF Setters
<1>13. ASSUME NEW v \in Legal["DV_MODE"], SetDvMode(c, v) PROVE G
  <2>1. Set("DV_MODE", c, Kind["DV_MODE"], Named["DV_MODE"], v)
    BY <1>13 DEF SetDvMode, Kind, Named
  <2>. QED
    BY <2>1 DEF Setters
<1>14. ASSUME NEW v \in Legal["BACKGROUND"], SetBackGroundColor(c, v) PROVE G
  <2>1. Set("BACKGROUND", c, Kind["BACKGROUND"], Named["BACKGROUND"], v)
    BY <1>14 DEF SetBackGroundColor, Kind, Named
  <2>. QED
    BY <2>1 DEF Setters
<1>15. ASSUME NEW v \in Legal["CVBS_AVMUTE"], SetCvbsAVMute(c, v) PROVE G
  <2>1. Set("CVBS_AVMUTE", c, Kind["CVBS_AVMUTE"], Named["CVBS_AVMUTE"], v)
    BY <1>15 DEF SetCvbsAVMute, Kind, Named
  <2>. QED
    BY <2>1 DEF Setters
<1>. HIDE DEF G
<1>a. G
  BY <1>1, <1>2, <1>3, <1>4, <1>5, <1>6, <1>7, <1>8, <1>9, <1>10,
     <1>11, <1>12, <1>13, <1>14, <1>15 DEF Setter
<1>. QED
  BY <1>a DEF G

(* What is merged is typed, and lives as if it alone replaced its like.    *)
LEMMA MergeLives ==
  ASSUME NEW old, NEW new, WishesOK(old), WishesOK(new)
  PROVE  /\ WishesOK(Merge(old, new))
         /\ Live(Merge(old, new)) = Onto(Live(old), Live(new))
<1>. DEFINE rest == {y \in old : \A x \in new : Alike(y, x) => y.conn # x.conn}
            M == Merge(old, new)
<1>1. ASSUME NEW w \in Wishes
      PROVE  /\ Under(w, new) \in Wishes /\ Alike(w, Under(w, new))
             /\ Under(w, new).conn = w.conn
             /\ Under(w, new).over = (w.over \/ \E x \in new : Alike(w, x))
             /\ ~Under(w, new).over => Under(w, new) = w
  <2>1. PICK b \in BOOLEAN : b = (w.over \/ \E x \in new : Alike(w, x))
    BY DEF Wishes
  <2>2. Under(w, new) = [w EXCEPT !.over = b]
    BY <2>1 DEF Under
  <2>3. w \in [conn : Conns, obj : Objects, by : Sets, value : Nat,
               mode : [size : Nat, rate : Nat, interlace : BOOLEAN], over : BOOLEAN]
    BY DEF Wishes
  <2>4. [w EXCEPT !.over = b] \in Wishes
    BY <2>3 DEF Wishes
  <2>5. ~b => ~w.over
    BY <2>1
  <2>6. ~b => [w EXCEPT !.over = b] = w
    BY <2>3, <2>5
  <2>. QED
    BY <2>1, <2>2, <2>3, <2>4, <2>6 DEF Alike
<1>2. old \subseteq Wishes /\ new \subseteq Wishes /\ M = new \cup {Under(w, new) : w \in rest}
      /\ rest \subseteq Wishes
  BY DEF WishesOK, Merge
<1>3. \A w \in new : \E x \in new : Alike(w, x) /\ ~x.over /\ (w.over => x.conn # w.conn)
  BY DEF WishesOK
<1>4. \A w \in old : \E x \in old : Alike(w, x) /\ ~x.over /\ (w.over => x.conn # w.conn)
  BY DEF WishesOK
<1>5. \A w, x, y : Alike(w, x) /\ Alike(w, y) => Alike(x, y)
  BY DEF Alike
<1>6. \A w, x : Alike(w, x) => Alike(x, w)
  BY DEF Alike
<1>. HIDE DEF M
<1>7. M \subseteq Wishes
  BY <1>1, <1>2
<1>8. ASSUME NEW z \in M
      PROVE  \E x \in M : Alike(z, x) /\ ~x.over /\ (z.over => x.conn # z.conn)
  <2>1. CASE z \in new
    BY <1>2, <1>3, <2>1
  <2>2. CASE \E w \in rest : z = Under(w, new)
    <3>1. PICK w \in rest : z = Under(w, new)
      BY <2>2
    <3>2. w \in Wishes /\ w \in old /\ Alike(w, z) /\ z.conn = w.conn
          /\ z.over = (w.over \/ \E x \in new : Alike(w, x))
      BY <1>1, <1>2, <3>1
    <3>3. CASE \E y \in new : Alike(w, y)
      <4>1. PICK y \in new : Alike(w, y)
        BY <3>3
      <4>2. PICK x \in new : Alike(y, x) /\ ~x.over
        BY <1>3
      <4>3. Alike(z, x) /\ Alike(w, x)
        BY <1>5, <1>6, <3>2, <4>1, <4>2
      <4>4. x.conn # w.conn /\ x \in M
        BY <1>2, <4>3
      <4>. QED
        BY <3>2, <4>2, <4>3, <4>4
    <3>4. CASE \A y \in new : ~Alike(w, y)
      <4>1. PICK x \in old : Alike(w, x) /\ ~x.over /\ (w.over => x.conn # w.conn)
        BY <1>4, <3>2
      <4>2. \A y \in new : ~Alike(x, y)
        BY <1>5, <1>6, <3>4, <4>1
      <4>3. x \in rest /\ x \in Wishes
        BY <1>2, <4>2
      <4>4. ~Under(x, new).over
        BY <1>1, <4>1, <4>2, <4>3
      <4>5. x = Under(x, new)
        BY <1>1, <4>3, <4>4
      <4>6. x \in M
        BY <1>2, <4>3, <4>5
      <4>. QED
        BY <1>5, <3>2, <3>4, <4>1, <4>6
    <3>. QED
      BY <3>3, <3>4
  <2>. QED
    BY <1>2, <2>1, <2>2
<1>9. ASSUME NEW z \in Live(M) PROVE z \in Onto(Live(old), Live(new))
  <2>0. z \in M /\ ~z.over
    BY DEF Live
  <2>1. CASE z \in new
    BY <2>0, <2>1 DEF Live, Onto
  <2>2. CASE \E w \in rest : z = Under(w, new)
    <3>1. PICK w \in rest : z = Under(w, new)
      BY <2>2
    <3>2. z = w /\ w \in old /\ \A x \in new : ~Alike(w, x)
      BY <1>1, <1>2, <2>0, <3>1
    <3>. QED
      BY <2>0, <3>2 DEF Live, Onto
  <2>. QED
    BY <1>2, <2>0, <2>1, <2>2
<1>10. ASSUME NEW z \in Onto(Live(old), Live(new)) PROVE z \in Live(M)
  <2>1. CASE z \in Live(new)
    BY <1>2, <2>1 DEF Live
  <2>2. CASE z \in Live(old) /\ \A x \in Live(new) : ~Alike(z, x)
    <3>1. z \in old /\ ~z.over /\ z \in Wishes
      BY <1>2, <2>2 DEF Live
    <3>2. ASSUME NEW x \in new, Alike(z, x) PROVE FALSE
      <4>1. PICK y \in new : Alike(x, y) /\ ~y.over
        BY <1>3
      <4>2. y \in Live(new) /\ Alike(z, y)
        BY <1>5, <1>6, <3>2, <4>1 DEF Live
      <4>. QED
        BY <2>2, <4>2
    <3>3. z \in rest /\ ~Under(z, new).over
      BY <1>1, <3>1, <3>2
    <3>4. z = Under(z, new)
      BY <1>1, <3>1, <3>3
    <3>. QED
      BY <1>2, <3>1, <3>3, <3>4 DEF Live
  <2>. QED
    BY <2>1, <2>2 DEF Onto
<1>. QED
  BY <1>7, <1>8, <1>9, <1>10 DEF WishesOK, M

(* New wishes are over nothing that is under them.                         *)
LEMMA NewWishes ==
  ASSUME NEW W \in SUBSET Wishes, \A w \in W : ~w.over
  PROVE  WishesOK(W) /\ Live(W) = W
BY DEF WishesOK, Live, Alike

LEMMA LiveTyped ==
  ASSUME NEW W, WishesOK(W) PROVE Live(W) \subseteq Wishes
BY DEF WishesOK, Live

(* A wish that comes replaces those of its object and call only.           *)
LEMMA OntoFacts ==
  ASSUME NEW old, NEW new
  PROVE  /\ \A w : w \in Onto(old, new) <=>
              w \in new \/ (w \in old /\ \A x \in new : w.obj # x.obj \/ w.by # x.by)
         /\ \A w \in old : \E x \in Onto(old, new) : x.obj = w.obj /\ x.by = w.by
BY DEF Onto, Alike

(* Blobs stay what they are.                                               *)
LEMMA MeetsStays ==
  ASSUME NEW w, NEW v, Meets(w, v), blobs \in Seq(Mode),
         blobs' = blobs \/ \E m \in Mode : blobs' = Append(blobs, m)
  PROVE  Meets(w, v)'
BY DEF Meets

(* Two wishes of different calls or objects are for different properties.  *)
LEMMA WishesApart ==
  ASSUME NEW w \in Wishes, NEW x \in Wishes, w.obj # x.obj \/ w.by # x.by
  PROVE  w.obj # x.obj \/ Named[w.by] # Named[x.by]
BY NamedFacts, WishNames

LEMMA SetKeeps ==
  ASSUME IInv, NEW c, NEW s \in Setters, NEW v \in Legal[s],
         Set(s, c, Kind[s], Named[s], v)
  PROVE  IInv'
<1>. DEFINE o == Object(c, Kind[s])
            x == Item(o, Named[s], v, s)
            y == Wish(c, o, s, v, NoMode)
<1>1. PICK added \in BOOLEAN :
        /\ added => Has(c, Named[s])
        /\ req'   = IF added THEN Append(req, x) ELSE req
        /\ asked' = IF added THEN Merge(asked, {y}) ELSE asked
        /\ held'  = held + (IF Exists(c) THEN LeftBy(added) ELSE 0)
        /\ lost'  = lost + (IF Has(c, Named[s]) /\ ~added THEN 1 ELSE 0)
  <2>1. PICK added \in IF Has(c, Named[s]) THEN BOOLEAN ELSE {FALSE} :
        /\ req'   = IF added THEN Append(req, x) ELSE req
        /\ asked' = IF added THEN Merge(asked, {y}) ELSE asked
        /\ held'  = held + (IF Exists(c) THEN LeftBy(added) ELSE 0)
        /\ lost'  = lost + (IF Has(c, Named[s]) /\ ~added THEN 1 ELSE 0)
    BY DEF Set
  <2>2. added \in BOOLEAN /\ (added => Has(c, Named[s]))
    BY <2>1
  <2>. QED
    BY <2>1, <2>2
<1>2. UNCHANGED <<kernel, connected, blobs, half, shown>>
  BY DEF Set
<1>3. held' = held /\ lost' \in Nat /\ lost' >= lost /\ (added => lost' = lost)
  BY <1>1 DEF IInv, Types, LeftBy
<1>4. s \in Sets /\ s # "MODE" /\ v \in Nat
  BY SettingsAssumption DEF Sets, Setters
<1>5. ShownHolds'
  BY <1>2 DEF IInv, ShownHolds, Shown, Meets
<1>6. CASE ~added
  <2>1. UNCHANGED <<req, asked>>
    BY <1>1, <1>6
  <2>2. Types'
    BY <1>2, <1>3, <2>1 DEF IInv, Types, KernelOK
  <2>3. LastOfAsked' /\ ItemsAsked'
    BY <1>2, <2>1 DEF IInv, LastOfAsked, ItemsAsked, Asked, Meets
  <2>4. lost' = 0 => lost = 0
    BY <1>3 DEF IInv, Types
  <2>5. HdmiOff'
    BY <1>2, <2>1, <2>4 DEF IInv, HdmiOff, Asked, Shown
  <2>. QED
    BY <1>5, <2>2, <2>3, <2>5 DEF IInv
<1>7. CASE added
  <2>1. c \in Conns /\ Named[s] \notin Lacks /\ req' = Append(req, x)
        /\ asked' = Merge(asked, {y})
    BY <1>1, <1>7 DEF Has, Exists
  <2>2. o \in ObjectsOf(Kind[s]) /\ o \in Objects
    BY <2>1, <1>4, IdsFacts, CrtcOfFound, NamedFacts
       DEF Object, ObjectsOf, Objects, IInv, Types
  <2>3. Named[s] \in NamesOf(o) /\ Named[s] # "CRTC_ID"
        /\ Named[s] \in ConnNames \cup CrtcNames
    BY <1>4, <2>2, NamedFacts, NamesFacts DEF ObjectsOf
  <2>5. x \in Items /\ x.obj = o /\ x.name = Named[s] /\ x.value = v
    BY <1>4, <2>1, <2>2, <2>3 DEF Item, Items
  <2>6. y \in Wishes /\ y.obj = o /\ y.by = s /\ y.value = v /\ ~y.over
    BY <1>4, <2>1, <2>2 DEF Wish, Wishes, NoMode
  <2>. HIDE DEF o, x, y
  <2>7. req \in Seq(Items) /\ WishesOK(asked) /\ Asked \subseteq Wishes
    BY LiveTyped DEF IInv, Types, Asked
  <2>8. WishesOK(asked') /\ req' \in Seq(Items) /\ Asked' = Onto(Asked, {y})
    <3>1. WishesOK({y}) /\ Live({y}) = {y}
      BY <2>6, NewWishes
    <3>. QED
      BY <2>1, <2>5, <2>7, <3>1, MergeLives, LastAppend DEF Asked
  <2>9. Types'
    BY <1>2, <1>3, <2>8 DEF IInv, Types, KernelOK, WishesOK, Wishes
  <2>10. LastOfAsked'
    <3>1. SUFFICES ASSUME ~half, NEW w \in Asked'
                   PROVE  \E u \in Nat : Last(req', w.obj, Named[w.by], u) /\ Meets(w, u)
      BY <1>2 DEF LastOfAsked, Meets
    <3>2. CASE w = y
      BY <1>4, <2>1, <2>5, <2>6, <2>7, <3>2, LastAppend DEF Meets
    <3>3. CASE w \in Asked /\ (w.obj # o \/ w.by # s)
      <4>1. PICK u \in Nat : Last(req, w.obj, Named[w.by], u) /\ Meets(w, u)
        BY <3>1, <3>3 DEF IInv, LastOfAsked
      <4>2. w.obj # x.obj \/ Named[w.by] # x.name
        BY <2>5, <2>6, <2>7, <3>3, WishesApart
      <4>. QED
        BY <2>1, <2>5, <2>7, <4>1, <4>2, LastAppend
    <3>. QED
      BY <2>6, <2>8, <3>2, <3>3, OntoFacts
  <2>11. ItemsAsked'
    <3>1. SUFFICES ASSUME ~half, NEW i \in DOMAIN req'
                   PROVE  IF req'[i].name = "CRTC_ID"
                          THEN req'[i].value # 0 =>
                                 \E w \in Asked' : w.by = "MODE" /\ w.obj = req'[i].value
                          ELSE \E w \in Asked' : w.obj = req'[i].obj /\ Named[w.by] = req'[i].name
      BY <1>2 DEF ItemsAsked
    <3>2. CASE req'[i] = x
      BY <2>3, <2>5, <2>6, <2>8, <3>2, OntoFacts
    <3>3. CASE \E k \in DOMAIN req : req'[i] = req[k]
      <4>1. PICK k \in DOMAIN req : req'[i] = req[k]
        BY <3>3
      <4>2. IF req[k].name = "CRTC_ID"
            THEN req[k].value # 0 => \E w \in Asked : w.by = "MODE" /\ w.obj = req[k].value
            ELSE \E w \in Asked : w.obj = req[k].obj /\ Named[w.by] = req[k].name
        BY <3>1 DEF IInv, ItemsAsked
      <4>3. \A w \in Asked : \E z \in Asked' : z.obj = w.obj /\ z.by = w.by
        BY <2>8, OntoFacts
      <4>. QED
        BY <4>1, <4>2, <4>3
    <3>. QED
      BY <2>1, <2>5, <2>7, <3>2, <3>3, LastAppend
  <2>12. HdmiOff'
    <3>1. lost' = lost
      BY <1>3, <1>7
    <3>2. ASSUME lost = 0, ~half, NEW w \in Asked', ForCvbs(w)
          PROVE  \E u \in Nat : Last(req', Id["HDMIA"], "CRTC_ID", u) /\ u # w.obj
      <4>1. w \in Asked
        BY <1>4, <2>6, <2>8, <3>2, OntoFacts DEF ForCvbs
      <4>2. PICK u \in Nat : Last(req, Id["HDMIA"], "CRTC_ID", u) /\ u # w.obj
        BY <3>2, <4>1 DEF IInv, HdmiOff
      <4>. QED
        BY <2>1, <2>3, <2>5, <2>7, <4>2, LastAppend
    <3>. QED
      BY <1>2, <3>1, <3>2 DEF IInv, HdmiOff, Shown
  <2>. QED
    BY <1>5, <2>9, <2>10, <2>11, <2>12 DEF IInv
<1>. QED
  BY <1>6, <1>7

-----------------------------------------------------------------------------
(* A mode that is found is one of the list.                                *)
LEMMA FirstFoundIn ==
  ASSUME NEW c \in Conns, NEW want, FoundIn(c, want) # {}
  PROVE  /\ FirstFound(c, want) \in DOMAIN Lists[c]
         /\ Lists[c][FirstFound(c, want)] \in Mode
         /\ Told(Lists[c][FirstFound(c, want)]) = want
<1>1. Lists[c] \in Seq(Mode)
  BY SettingsAssumption
<1>2. Len(Lists[c]) \in Nat /\ DOMAIN Lists[c] = 1 .. Len(Lists[c])
      /\ \A n \in DOMAIN Lists[c] : Lists[c][n] \in Mode
  BY <1>1
<1>3. FoundIn(c, want) \in SUBSET (1 .. Len(Lists[c]))
  BY <1>2 DEF FoundIn
<1>4. \E n \in FoundIn(c, want) : \A k \in FoundIn(c, want) : n <= k
  BY <1>2, <1>3, SmallestExists
<1>5. FirstFound(c, want) \in FoundIn(c, want)
  BY <1>4 DEF FirstFound
<1>. QED
  BY <1>2, <1>5 DEF FoundIn

(* What a DisplayMode tells is typed.                                      *)
LEMMA ToldTyped ==
  ASSUME NEW m \in Mode
  PROVE  Told(m) \in [size : Nat, rate : Nat, interlace : BOOLEAN]
BY DEF Mode, Told

(* A request that is given some items is one of items.                     *)
LEMMA PutKeeps ==
  ASSUME NEW s \in Seq(Items), NEW b \in BOOLEAN, NEW x, b => x \in Items
  PROVE  /\ s \o (IF b THEN <<x>> ELSE <<>>) \in Seq(Items)
         /\ b => s \o (IF b THEN <<x>> ELSE <<>>) = Append(s, x)
         /\ ~b => s \o (IF b THEN <<x>> ELSE <<>>) = s
<1>1. CASE b
  <2>1. x \in Items
    BY <1>1
  <2>2. s \o <<x>> = Append(s, x)
    BY <2>1
  <2>3. Append(s, x) \in Seq(Items)
    BY <2>1
  <2>. QED
    BY <1>1, <2>2, <2>3
<1>2. CASE ~b
  <2>1. s \o <<>> = s
    OBVIOUS
  <2>. QED
    BY <1>2, <2>1
<1>. QED
  BY <1>1, <1>2

(* The request with a part of a mode change, if that was added.            *)
With(part, added, s, x) == IF part \in added THEN Append(s, x) ELSE s

(* The parts of a mode change: what it adds, asks for and loses.           *)
ChangeParts(c, want, added, made) ==
  LET found == FoundIn(c, want) # {}
      blob  == Len(blobs) + 1
      ok    == {"CRTC_ID", "MODE_ID", "ACTIVE"} \subseteq added
  IN  /\ added \subseteq {"off", "CRTC_ID", "MODE_ID", "ACTIVE"}
      /\ "off" \in added => TakesHdmiOff(c)
      /\ "CRTC_ID" \in added => found
      /\ "MODE_ID" \in added \/ "ACTIVE" \in added => found /\ made
      /\ made => found
      /\ \E s1, s2, s3 \in Seq(Items) :
           /\ s1   = With("off", added, req, Item(Id["HDMIA"], "CRTC_ID", 0, "off"))
           /\ s2   = With("CRTC_ID", added, s1, Item(Id[c], "CRTC_ID", CrtcOf(c), "CRTC"))
           /\ s3   = With("MODE_ID", added, s2, Item(CrtcOf(c), "MODE_ID", blob, "MODE"))
           /\ req' = With("ACTIVE", added, s3, Item(CrtcOf(c), "ACTIVE", 1, "ACTIVE"))
      /\ req' \in Seq(Items)
      /\ blobs' = IF made THEN Append(blobs, Lists[c][FirstFound(c, want)]) ELSE blobs
      /\ asked' = IF ok
                  THEN Merge(asked, {Wish(c, CrtcOf(c), "MODE", 0, want),
                                     Wish(c, CrtcOf(c), "ACTIVE", 1, NoMode)})
                  ELSE asked
      /\ half'  = (half \/ (~ok /\ added \ {"off"} # {}))
      /\ lost' \in Nat /\ lost' >= lost
      /\ lost' = 0 => (TakesHdmiOff(c) => "off" \in added) /\ (found => ok)

(* The items of a mode change are items.                                   *)
LEMMA ChangeItems ==
  ASSUME Types, NEW c \in Conns, NEW blob \in Nat
  PROVE  /\ CrtcOf(c) \in CrtcIds /\ CrtcOf(c) \in Objects
         /\ TakesHdmiOff(c) => Item(Id["HDMIA"], "CRTC_ID", 0, "off") \in Items
         /\ Item(Id[c], "CRTC_ID", CrtcOf(c), "CRTC") \in Items
         /\ Item(CrtcOf(c), "MODE_ID", blob, "MODE") \in Items
         /\ Item(CrtcOf(c), "ACTIVE", 1, "ACTIVE") \in Items
<1>1. CrtcOf(c) \in CrtcIds /\ CrtcOf(c) \in Objects /\ CrtcOf(c) \in Nat
  BY CrtcOfFound, IdsFacts DEF Types, Objects
<1>2. NamesOf(CrtcOf(c)) = CrtcNames
  BY <1>1, NamesFacts
<1>3. "MODE_ID" \in CrtcNames \ Lacks /\ "ACTIVE" \in CrtcNames \ Lacks
      /\ "CRTC_ID" \in ConnNames \ Lacks /\ "MODE" \in Sets /\ "ACTIVE" \in Sets
  BY NamesFacts DEF CrtcNames, ConnNames, Sets, Setters
<1>4. ASSUME NEW d \in Conns, NEW o \in CrtcIds \cup {0}, NEW by \in {"off", "CRTC"}
      PROVE  Item(Id[d], "CRTC_ID", o, by) \in Items
  <2>1. Id[d] \in Objects /\ NamesOf(Id[d]) = ConnNames
    BY IdsFacts, NamesFacts DEF Objects
  <2>2. o \in Nat
    BY IdsFacts
  <2>. QED
    BY <1>3, <2>1, <2>2 DEF Item, Items
<1>5. TakesHdmiOff(c) => "HDMIA" \in Conns
  BY DEF TakesHdmiOff, Exists
<1>6. Item(CrtcOf(c), "MODE_ID", blob, "MODE") \in Items
  BY <1>1, <1>2, <1>3 DEF Item, Items
<1>7. Item(CrtcOf(c), "ACTIVE", 1, "ACTIVE") \in Items
  BY <1>1, <1>2, <1>3 DEF Item, Items
<1>. QED
  BY <1>1, <1>4, <1>5, <1>6, <1>7

LEMMA ChangeInParts ==
  ASSUME Types, NEW c \in Conns, NEW want, ChangeMode(c, want)
  PROVE  \E added \in SUBSET {"off", "CRTC_ID", "MODE_ID", "ACTIVE"}, made \in BOOLEAN :
           ChangeParts(c, want, added, made)
<1>. DEFINE found == Exists(c) /\ FoundIn(c, want) # {}
            blob  == Len(blobs) + 1
            tries(made) == (IF TakesHdmiOff(c) THEN {"off"} ELSE {})
                           \cup (IF found THEN {"CRTC_ID"} ELSE {})
                           \cup (IF found /\ made THEN {"MODE_ID", "ACTIVE"} ELSE {})
            x1 == Item(Id["HDMIA"], "CRTC_ID", 0, "off")
            x2 == Item(Id[c], "CRTC_ID", CrtcOf(c), "CRTC")
            x3 == Item(CrtcOf(c), "MODE_ID", blob, "MODE")
            x4 == Item(CrtcOf(c), "ACTIVE", 1, "ACTIVE")
            put(b, x) == IF b THEN <<x>> ELSE <<>>
            ok(added) == {"CRTC_ID", "MODE_ID", "ACTIVE"} \subseteq added
<1>1. PICK added \in SUBSET {"off", "CRTC_ID", "MODE_ID", "ACTIVE"}, made \in BOOLEAN :
        /\ added \subseteq tries(made) /\ (made => found)
        /\ req'   = req \o put("off" \in added, x1) \o put("CRTC_ID" \in added, x2)
                        \o put("MODE_ID" \in added, x3) \o put("ACTIVE" \in added, x4)
        /\ blobs' = IF made THEN Append(blobs, Lists[c][FirstFound(c, want)]) ELSE blobs
        /\ asked' = IF ok(added)
                    THEN Merge(asked, {Wish(c, CrtcOf(c), "MODE", 0, want),
                                       Wish(c, CrtcOf(c), "ACTIVE", 1, NoMode)})
                    ELSE asked
        /\ half'  = (half \/ (~ok(added) /\ added \ {"off"} # {}))
        /\ lost'  = lost + Cardinality(tries(made) \ added) + (IF found /\ ~made THEN 1 ELSE 0)
  BY DEF ChangeMode
<1>2. blob \in Nat /\ req \in Seq(Items) /\ lost \in Nat
  BY DEF Types
<1>. HIDE DEF x1, x2, x3, x4, blob
<1>3. /\ "off" \in added => TakesHdmiOff(c)
      /\ "CRTC_ID" \in added => FoundIn(c, want) # {}
      /\ "MODE_ID" \in added \/ "ACTIVE" \in added => FoundIn(c, want) # {} /\ made
      /\ made => FoundIn(c, want) # {}
  BY <1>1
<1>4. ("off" \in added => x1 \in Items) /\ x2 \in Items /\ x3 \in Items /\ x4 \in Items
  BY <1>2, <1>3, ChangeItems DEF x1, x2, x3, x4
<1>5. PICK s1 : s1 = req \o put("off" \in added, x1)
  OBVIOUS
<1>6. PICK s2 : s2 = s1 \o put("CRTC_ID" \in added, x2)
  OBVIOUS
<1>7. PICK s3 : s3 = s2 \o put("MODE_ID" \in added, x3)
  OBVIOUS
<1>8. s1 \in Seq(Items) /\ s1 = With("off", added, req, x1)
  BY <1>2, <1>4, <1>5, PutKeeps DEF With
<1>9. s2 \in Seq(Items) /\ s2 = With("CRTC_ID", added, s1, x2)
  BY <1>4, <1>6, <1>8, PutKeeps DEF With
<1>10. s3 \in Seq(Items) /\ s3 = With("MODE_ID", added, s2, x3)
  BY <1>4, <1>7, <1>9, PutKeeps DEF With
<1>11. req' = s3 \o put("ACTIVE" \in added, x4)
  BY <1>1, <1>5, <1>6, <1>7
<1>12. req' \in Seq(Items) /\ req' = With("ACTIVE", added, s3, x4)
  BY <1>4, <1>10, <1>11, PutKeeps DEF With
<1>13. /\ lost' \in Nat /\ lost' >= lost
       /\ lost' = 0 => tries(made) \ added = {} /\ ~(found /\ ~made)
  <2>1. IsFiniteSet(tries(made) \ added)
    <3>1. IsFiniteSet({"off", "CRTC_ID", "MODE_ID", "ACTIVE"})
      <4>1. IsFiniteSet({"off"})
        BY FS_Singleton
      <4>2. IsFiniteSet({"off"} \cup {"CRTC_ID"})
        BY <4>1, FS_AddElement
      <4>3. IsFiniteSet({"off"} \cup {"CRTC_ID"} \cup {"MODE_ID"})
        BY <4>2, FS_AddElement
      <4>4. IsFiniteSet({"off"} \cup {"CRTC_ID"} \cup {"MODE_ID"} \cup {"ACTIVE"})
        BY <4>3, FS_AddElement
      <4>5. {"off"} \cup {"CRTC_ID"} \cup {"MODE_ID"} \cup {"ACTIVE"}
            = {"off", "CRTC_ID", "MODE_ID", "ACTIVE"}
        OBVIOUS
      <4>. QED
        BY <4>4, <4>5
    <3>2. tries(made) \ added \subseteq {"off", "CRTC_ID", "MODE_ID", "ACTIVE"}
      OBVIOUS
    <3>. QED
      BY <3>1, <3>2, FS_Subset
  <2>2. PICK n \in Nat : n = Cardinality(tries(made) \ added)
    BY <2>1, FS_CardinalityType
  <2>3. n = 0 => tries(made) \ added = {}
    BY <2>1, <2>2, FS_EmptySet
  <2>4. PICK m \in {0, 1} : m = IF found /\ ~made THEN 1 ELSE 0
    OBVIOUS
  <2>5. lost' = lost + n + m
    BY <1>1, <2>2, <2>4
  <2>. QED
    BY <1>2, <2>3, <2>4, <2>5
<1>14. lost' = 0 => /\ TakesHdmiOff(c) => "off" \in added
                    /\ FoundIn(c, want) # {} => ok(added)
  BY <1>13 DEF Exists
<1>15. ChangeParts(c, want, added, made)
  BY <1>1, <1>3, <1>8, <1>9, <1>10, <1>12, <1>13, <1>14
     DEF ChangeParts, x1, x2, x3, x4, blob
<1>. QED
  BY <1>15

(* A mode change that found the mode and lost nothing.                     *)
LEMMA WholeChange ==
  ASSUME IInv, NEW c \in Conns, NEW want, NEW added, NEW made \in BOOLEAN,
         ChangeParts(c, want, added, made),
         {"CRTC_ID", "MODE_ID", "ACTIVE"} \subseteq added,
         UNCHANGED <<kernel, connected, shown, held>>
  PROVE  IInv'
<1>. DEFINE o == CrtcOf(c)
            blob == Len(blobs) + 1
            mode == Lists[c][FirstFound(c, want)]
            x1 == Item(Id["HDMIA"], "CRTC_ID", 0, "off")
            x2 == Item(Id[c], "CRTC_ID", o, "CRTC")
            x3 == Item(o, "MODE_ID", blob, "MODE")
            x4 == Item(o, "ACTIVE", 1, "ACTIVE")
            y1 == Wish(c, o, "MODE", 0, want)
            y2 == Wish(c, o, "ACTIVE", 1, NoMode)
            off == "off" \in added
<1>0. "CRTC_ID" \in added /\ "MODE_ID" \in added /\ "ACTIVE" \in added
  OBVIOUS
<1>1. PICK s1 \in Seq(Items), s2 \in Seq(Items), s3 \in Seq(Items) :
        /\ s1 = IF off THEN Append(req, x1) ELSE req
        /\ s2 = Append(s1, x2) /\ s3 = Append(s2, x3) /\ req' = Append(s3, x4)
        /\ req' \in Seq(Items)
  <2>1. PICK s1 \in Seq(Items), s2 \in Seq(Items), s3 \in Seq(Items) :
          /\ s1 = With("off", added, req, x1) /\ s2 = With("CRTC_ID", added, s1, x2)
          /\ s3 = With("MODE_ID", added, s2, x3) /\ req' = With("ACTIVE", added, s3, x4)
          /\ req' \in Seq(Items)
    BY Zenon DEF ChangeParts, o, blob, x1, x2, x3, x4
  <2>2. s1 = IF off THEN Append(req, x1) ELSE req
    BY <2>1 DEF With
  <2>3. s2 = Append(s1, x2) /\ s3 = Append(s2, x3) /\ req' = Append(s3, x4)
    BY <1>0, <2>1, Zenon DEF With
  <2>. QED
    BY <2>1, <2>2, <2>3
<1>2. /\ off => TakesHdmiOff(c)
      /\ FoundIn(c, want) # {} /\ blobs' = Append(blobs, mode)
      /\ asked' = Merge(asked, {y1, y2}) /\ half' = half
      /\ lost' \in Nat /\ lost' >= lost
      /\ lost' = 0 => (TakesHdmiOff(c) => off)
  <2>1. /\ off => TakesHdmiOff(c)
        /\ FoundIn(c, want) # {} /\ made
        /\ blobs' = IF made THEN Append(blobs, mode) ELSE blobs
        /\ lost' \in Nat /\ lost' >= lost
        /\ lost' = 0 => (TakesHdmiOff(c) => off)
    BY <1>0, Zenon DEF ChangeParts
  <2>2. asked' = IF {"CRTC_ID", "MODE_ID", "ACTIVE"} \subseteq added
                 THEN Merge(asked, {y1, y2}) ELSE asked
    BY Zenon DEF ChangeParts
  <2>3. half' = (half \/ (~({"CRTC_ID", "MODE_ID", "ACTIVE"} \subseteq added)
                          /\ added \ {"off"} # {}))
    BY Zenon DEF ChangeParts
  <2>4. half' = half
    BY <2>3 DEF IInv, Types
  <2>. QED
    BY <2>1, <2>2, <2>4
<1>3. /\ blobs \in Seq(Mode) /\ req \in Seq(Items)
      /\ WishesOK(asked) /\ Asked \subseteq Wishes /\ Shown' = Shown
      /\ lost \in Nat /\ held \in Nat /\ held <= lost /\ half \in BOOLEAN
  BY LiveTyped DEF IInv, Types, Asked, Shown
<1>4. blob \in Nat /\ mode \in Mode /\ Told(mode) = want
  BY <1>2, <1>3, FirstFoundIn
<1>5. /\ o \in CrtcIds /\ o \in Objects /\ o \in Nat \ {0}
      /\ off => x1 \in Items
      /\ x2 \in Items /\ x3 \in Items /\ x4 \in Items
  <2>1. Types
    BY DEF IInv
  <2>. QED
    BY <1>2, <1>4, <2>1, ChangeItems, IdsFacts
<1>6. /\ x1.obj = Id["HDMIA"] /\ x1.name = "CRTC_ID" /\ x1.value = 0
      /\ x2.obj = Id[c] /\ x2.name = "CRTC_ID" /\ x2.value = o
      /\ x3.obj = o /\ x3.name = "MODE_ID" /\ x3.value = blob
      /\ x4.obj = o /\ x4.name = "ACTIVE" /\ x4.value = 1
  BY DEF Item
<1>7. /\ y1.obj = o /\ y1.by = "MODE" /\ y1.conn = c /\ y1.mode = want /\ ~y1.over
      /\ y2.obj = o /\ y2.by = "ACTIVE" /\ y2.value = 1 /\ ~y2.over
  BY DEF Wish
<1>8. /\ Named["MODE"] = "MODE_ID" /\ Named["ACTIVE"] = "ACTIVE"
      /\ "MODE" \in Sets /\ "ACTIVE" \in Sets /\ Kind["MODE"] = "crtc" /\ Kind["ACTIVE"] = "crtc"
  BY DEF Named, Kind, Sets, Setters

<1>9. y1 \in Wishes /\ y2 \in Wishes
  <2>1. want \in [size : Nat, rate : Nat, interlace : BOOLEAN]
    BY <1>4, ToldTyped
  <2>2. "MODE" \notin Setters \ {"ACTIVE"} /\ "MODE_ID" \notin Lacks /\ "ACTIVE" \notin Lacks
        /\ Id[c] \in Nat
    BY NamesFacts, IdsFacts DEF Setters
  <2>3. y1 \in Wishes
    BY <1>5, <1>8, <2>1, <2>2 DEF Wish, Wishes, ObjectsOf
  <2>4. NoMode \in [size : Nat, rate : Nat, interlace : BOOLEAN]
    BY DEF NoMode
  <2>5. y2 \in Wishes
    BY <1>5, <1>8, <2>2, <2>4 DEF Wish, Wishes, ObjectsOf
  <2>. QED
    BY <2>3, <2>5
<1>. HIDE DEF o, blob, mode, x1, x2, x3, x4, y1, y2, off
<1>10. ASSUME NEW ob, NEW n, NEW v, Last(req, ob, n, v), n # "CRTC_ID",
              ob # o \/ n \notin {"MODE_ID", "ACTIVE"}
       PROVE  Last(req', ob, n, v)
  <2>1. Last(s1, ob, n, v)
    BY <1>1, <1>3, <1>5, <1>6, <1>10, LastAppend
  <2>2. Last(s2, ob, n, v)
    BY <1>1, <1>5, <1>6, <1>10, <2>1, LastAppend
  <2>3. Last(s3, ob, n, v)
    BY <1>1, <1>5, <1>6, <1>10, <2>2, LastAppend
  <2>. QED
    BY <1>1, <1>5, <1>6, <1>10, <2>3, LastAppend
<1>11. /\ Last(req', o, "MODE_ID", blob) /\ Last(req', o, "ACTIVE", 1)
       /\ Last(req', Id[c], "CRTC_ID", o)
  <2>1. Last(s2, x2.obj, x2.name, x2.value)
    BY <1>1, <1>5, LastAppend
  <2>2. Last(s3, x2.obj, x2.name, x2.value)
    BY <1>1, <1>5, <1>6, <2>1, LastAppend, ZenonT(60)
  <2>3. Last(s3, x3.obj, x3.name, x3.value)
    BY <1>1, <1>5, LastAppend
  <2>4. Last(req', x2.obj, x2.name, x2.value) /\ Last(req', x3.obj, x3.name, x3.value)
    BY <1>1, <1>5, <1>6, <2>2, <2>3, LastAppend
  <2>5. Last(req', x4.obj, x4.name, x4.value)
    BY <1>1, <1>5, LastAppend
  <2>. QED
    BY <1>6, <2>4, <2>5
<1>12. ASSUME NEW i \in DOMAIN req'
       PROVE  req'[i] \in {x1, x2, x3, x4} \/ \E k \in DOMAIN req : req'[i] = req[k]
  <2>1. \A k \in DOMAIN s1 : s1[k] = x1 \/ \E m \in DOMAIN req : s1[k] = req[m]
    BY <1>1, <1>3, <1>5, LastAppend
  <2>2. \A k \in DOMAIN s2 : s2[k] = x2 \/ \E m \in DOMAIN s1 : s2[k] = s1[m]
    BY <1>1, <1>5, LastAppend
  <2>3. \A k \in DOMAIN s3 : s3[k] = x3 \/ \E m \in DOMAIN s2 : s3[k] = s2[m]
    BY <1>1, <1>5, LastAppend
  <2>4. req'[i] = x4 \/ \E m \in DOMAIN s3 : req'[i] = s3[m]
    BY <1>1, <1>5, LastAppend
  <2>. QED
    BY <2>1, <2>2, <2>3, <2>4
<1>13. ASSUME NEW v, c # "HDMIA", "HDMIA" \in Conns,
              IF off THEN v = 0 ELSE Last(req, Id["HDMIA"], "CRTC_ID", v)
       PROVE  Last(req', Id["HDMIA"], "CRTC_ID", v)
  <2>1. Id["HDMIA"] # Id[c]
    BY <1>13, IdsFacts
  <2>2. Last(s1, Id["HDMIA"], "CRTC_ID", v)
    <3>1. CASE off
      BY <1>1, <1>3, <1>5, <1>6, <1>13, <3>1, LastAppend
    <3>2. CASE ~off
      BY <1>1, <1>13, <3>2
    <3>. QED
      BY <3>1, <3>2
  <2>3. Last(s2, Id["HDMIA"], "CRTC_ID", v)
    BY <1>1, <1>5, <1>6, <2>1, <2>2, LastAppend
  <2>4. Last(s3, Id["HDMIA"], "CRTC_ID", v)
    BY <1>1, <1>5, <1>6, <2>3, LastAppend
  <2>. QED
    BY <1>1, <1>5, <1>6, <2>4, LastAppend
<1>13a. WishesOK(asked') /\ Asked' = Onto(Asked, {y1, y2})
  <2>1. WishesOK({y1, y2}) /\ Live({y1, y2}) = {y1, y2}
    BY <1>7, <1>9, NewWishes
  <2>2. asked' = Merge(asked, {y1, y2})
    BY <1>2
  <2>. QED
    BY <1>3, <2>1, <2>2, MergeLives DEF Asked
<1>14. /\ \A w \in Asked' : w = y1 \/ w = y2 \/
            (w \in Asked /\ (w.obj # o \/ w.by \notin {"MODE", "ACTIVE"}))
       /\ y1 \in Asked' /\ y2 \in Asked'
       /\ \A w \in Asked : \E z \in Asked' : z.obj = w.obj /\ z.by = w.by
  <2>1. \A w : w \in Asked' <=>
          w \in {y1, y2} \/ (w \in Asked /\ \A x \in {y1, y2} : w.obj # x.obj \/ w.by # x.by)
    <3>1. PICK new : new = {y1, y2}
      OBVIOUS
    <3>2. \A w : w \in Onto(Asked, new) <=>
            w \in new \/ (w \in Asked /\ \A x \in new : w.obj # x.obj \/ w.by # x.by)
      BY OntoFacts
    <3>3. Asked' = Onto(Asked, new)
      BY <1>13a, <3>1
    <3>. QED
      BY <3>1, <3>2, <3>3, Zenon
  <2>2. \A w \in Asked : \E z \in Asked' : z.obj = w.obj /\ z.by = w.by
    BY <1>13a, OntoFacts
  <2>. QED
    BY <1>7, <2>1, <2>2
<1>15. Types'
  <2>2. blobs' \in Seq(Mode)
    BY <1>2, <1>3, <1>4
  <2>3. held' \in Nat /\ held' <= lost'
    BY <1>2, <1>3
  <2>. QED
    BY <1>1, <1>2, <1>3, <1>13a, <2>2, <2>3 DEF IInv, Types, KernelOK
<1>16. ASSUME NEW w, NEW v, Meets(w, v) PROVE Meets(w, v)'
  BY <1>2, <1>3, <1>4, <1>16, MeetsStays
<1>17. ShownHolds'
  <2>1. ASSUME NEW w \in Shown, w.by # "CONTENT_PROTECTION"
        PROVE  Meets(w, kernel[w.obj][Named[w.by]])'
    <3>1. PICK v : v = kernel[w.obj][Named[w.by]]
      OBVIOUS
    <3>2. Meets(w, v)'
      BY <1>16, <2>1, <3>1 DEF IInv, ShownHolds
    <3>. QED
      BY <3>1, <3>2
  <2>. QED
    BY <1>3, <2>1 DEF ShownHolds
<1>18. LastOfAsked'
  <2>1. SUFFICES ASSUME ~half, NEW w \in Asked'
                 PROVE  \E v \in Nat : Last(req', w.obj, Named[w.by], v) /\ Meets(w, v)'
    BY <1>2 DEF LastOfAsked
  <2>2. CASE w = y1
    <3>0. PICK b \in Nat : b = blob
      BY <1>4
    <3>1. b \in DOMAIN blobs' /\ blobs'[b] = mode
      BY <1>2, <1>3, <1>4, <3>0 DEF blob
    <3>2. w.by = "MODE" /\ w.mode = want /\ w.obj = o
      BY <1>7, <2>2
    <3>3. Meets(w, b)'
      BY <1>4, <3>1, <3>2 DEF Meets
    <3>. QED
      BY <1>8, <1>11, <3>0, <3>2, <3>3
  <2>3. CASE w = y2
    <3>1. Meets(w, 1)'
      BY <1>7, <2>3 DEF Meets
    <3>. QED
      BY <1>7, <1>8, <1>11, <2>3, <3>1
  <2>4. CASE w \in Asked /\ (w.obj # o \/ w.by \notin {"MODE", "ACTIVE"})
    <3>1. PICK v \in Nat : Last(req, w.obj, Named[w.by], v) /\ Meets(w, v)
      BY <2>1, <2>4 DEF IInv, LastOfAsked
    <3>2. Named[w.by] # "CRTC_ID" /\ w.by \in Sets
      BY <1>3, <2>4, WishNames
    <3>3. w.obj # o \/ Named[w.by] \notin {"MODE_ID", "ACTIVE"}
      BY <1>8, <2>4, <3>2, NamedFacts
    <3>. QED
      BY <1>10, <1>16, <3>1, <3>2, <3>3
  <2>. QED
    BY <1>14, <2>2, <2>3, <2>4
<1>19. ItemsAsked'
  <2>1. SUFFICES ASSUME ~half, NEW i \in DOMAIN req'
                 PROVE  IF req'[i].name = "CRTC_ID"
                        THEN req'[i].value # 0 =>
                               \E w \in Asked' : w.by = "MODE" /\ w.obj = req'[i].value
                        ELSE \E w \in Asked' : w.obj = req'[i].obj /\ Named[w.by] = req'[i].name
    BY <1>2 DEF ItemsAsked
  <2>2. CASE req'[i] \in {x1, x2, x3, x4}
    BY <1>6, <1>7, <1>8, <1>14, <2>2
  <2>3. CASE \E k \in DOMAIN req : req'[i] = req[k]
    <3>1. PICK k \in DOMAIN req : req'[i] = req[k]
      BY <2>3
    <3>2. IF req[k].name = "CRTC_ID"
          THEN req[k].value # 0 => \E w \in Asked : w.by = "MODE" /\ w.obj = req[k].value
          ELSE \E w \in Asked : w.obj = req[k].obj /\ Named[w.by] = req[k].name
      BY <2>1 DEF IInv, ItemsAsked
    <3>. QED
      BY <1>14, <3>1, <3>2
  <2>. QED
    BY <1>12, <2>2, <2>3
<1>20. HdmiOff'
  <2>1. ASSUME lost' = 0, ~half, NEW w \in Asked', ForCvbs(w)
        PROVE  \E v \in Nat : Last(req', Id["HDMIA"], "CRTC_ID", v) /\ v # w.obj
    <3>1. lost = 0 /\ "HDMIA" \in Conns /\ "CVBS" \in Conns /\ w.by = "MODE"
          /\ w.conn = "CVBS"
      BY <1>2, <1>3, <2>1 DEF ForCvbs
    <3>2. CASE w = y1
      <4>1. c = "CVBS"
        BY <1>7, <3>1, <3>2, IdsFacts
      <4>2. off
        BY <1>2, <2>1, <3>1, <4>1 DEF TakesHdmiOff, Exists
      <4>3. Last(req', Id["HDMIA"], "CRTC_ID", 0)
        BY <1>13, <3>1, <4>1, <4>2
      <4>. QED
        BY <1>5, <1>7, <3>2, <4>3
    <3>3. CASE w \in Asked /\ w.obj # o
      <4>1. PICK v \in Nat : Last(req, Id["HDMIA"], "CRTC_ID", v) /\ v # w.obj
        BY <2>1, <3>1, <3>3 DEF IInv, HdmiOff
      <4>2. CASE c = "HDMIA"
        BY <1>5, <1>11, <3>3, <4>2
      <4>3. CASE c # "HDMIA" /\ off
        <5>1. w.obj # 0
          <6>1. w \in Wishes /\ w.obj \in ObjectsOf(Kind[w.by])
            BY <1>3, <3>3 DEF Wishes
          <6>. QED
            BY <1>8, <3>1, <6>1, IdsFacts DEF ObjectsOf
        <5>. QED
          BY <1>13, <3>1, <4>3, <5>1
      <4>4. CASE c # "HDMIA" /\ ~off
        BY <1>13, <3>1, <4>1, <4>4
      <4>. QED
        BY <4>2, <4>3, <4>4
    <3>. QED
      BY <1>7, <1>14, <3>1, <3>2, <3>3
  <2>2. lost' = 0 => lost = 0
    BY <1>2, <1>3
  <2>. QED
    BY <1>2, <1>3, <2>1, <2>2 DEF IInv, HdmiOff
<1>. QED
  BY <1>15, <1>17, <1>18, <1>19, <1>20 DEF IInv


(* A mode change that added less: if only HDMIA was to be taken off, the   *)
(* request is as good as it was; if more, nobody relies on it.             *)
LEMMA PartChange ==
  ASSUME IInv, NEW c \in Conns, NEW want, NEW added, NEW made \in BOOLEAN,
         ChangeParts(c, want, added, made),
         ~({"CRTC_ID", "MODE_ID", "ACTIVE"} \subseteq added),
         UNCHANGED <<kernel, connected, shown, held>>
  PROVE  IInv'
<1>. DEFINE x1 == Item(Id["HDMIA"], "CRTC_ID", 0, "off")
            mode == Lists[c][FirstFound(c, want)]
            more == added \ {"off"} # {}
<1>1. /\ "off" \in added => TakesHdmiOff(c)
      /\ made => FoundIn(c, want) # {}
      /\ blobs' = IF made THEN Append(blobs, mode) ELSE blobs
      /\ lost' \in Nat /\ lost' >= lost /\ req' \in Seq(Items)
      /\ asked' = asked /\ Asked' = Asked /\ Shown' = Shown
  <2>1. asked' = IF {"CRTC_ID", "MODE_ID", "ACTIVE"} \subseteq added
                 THEN Merge(asked, {Wish(c, CrtcOf(c), "MODE", 0, want),
                                    Wish(c, CrtcOf(c), "ACTIVE", 1, NoMode)})
                 ELSE asked
    BY Zenon DEF ChangeParts
  <2>2. /\ "off" \in added => TakesHdmiOff(c)
        /\ made => FoundIn(c, want) # {}
        /\ blobs' = IF made THEN Append(blobs, mode) ELSE blobs
        /\ lost' \in Nat /\ lost' >= lost /\ req' \in Seq(Items)
    BY Zenon DEF ChangeParts
  <2>. QED
    BY <2>1, <2>2 DEF Asked, Shown
<1>2. half' = (half \/ more) /\ half' \in BOOLEAN
  <2>1. half' = (half \/ (~({"CRTC_ID", "MODE_ID", "ACTIVE"} \subseteq added)
                          /\ added \ {"off"} # {}))
    BY Zenon DEF ChangeParts
  <2>. QED
    BY <2>1
<1>3. /\ blobs \in Seq(Mode) /\ req \in Seq(Items) /\ Asked \subseteq Wishes
      /\ lost \in Nat /\ held \in Nat /\ held <= lost /\ half \in BOOLEAN
  BY LiveTyped DEF IInv, Types, Asked
<1>4. made => mode \in Mode
  BY <1>1, FirstFoundIn
<1>5. Types'
  <2>1. blobs' \in Seq(Mode)
    BY <1>1, <1>3, <1>4
  <2>2. held' \in Nat /\ held' <= lost'
    BY <1>1, <1>3
  <2>. QED
    BY <1>1, <1>2, <2>1, <2>2 DEF IInv, Types, KernelOK
<1>6. ASSUME NEW w, NEW v, Meets(w, v) PROVE Meets(w, v)'
  BY <1>1, <1>3, <1>4, <1>6, MeetsStays
<1>7. ShownHolds'
  <2>1. ASSUME NEW w \in Shown, w.by # "CONTENT_PROTECTION"
        PROVE  Meets(w, kernel[w.obj][Named[w.by]])'
    <3>1. PICK v : v = kernel[w.obj][Named[w.by]]
      OBVIOUS
    <3>2. Meets(w, v)'
      BY <1>6, <2>1, <3>1 DEF IInv, ShownHolds
    <3>. QED
      BY <3>1, <3>2
  <2>. QED
    BY <1>1, <2>1 DEF ShownHolds
<1>8. lost' = 0 => lost = 0
  BY <1>1, <1>3
<1>9. CASE more
  <2>1. half' = TRUE
    BY <1>2, <1>9
  <2>2. LastOfAsked' /\ ItemsAsked'
    BY <2>1 DEF LastOfAsked, ItemsAsked
  <2>3. HdmiOff'
    BY <1>1, <1>8, <2>1 DEF IInv, HdmiOff
  <2>. QED
    BY <1>5, <1>7, <2>2, <2>3 DEF IInv
<1>10. CASE ~more
  <2>1. half' = half
    BY <1>2, <1>3, <1>10
  <2>2. req' = IF "off" \in added THEN Append(req, x1) ELSE req
    <3>1. "CRTC_ID" \notin added /\ "MODE_ID" \notin added /\ "ACTIVE" \notin added
      BY <1>10
    <3>2. \E s1, s2, s3 \in Seq(Items) :
            /\ s1   = With("off", added, req, x1)
            /\ s2   = With("CRTC_ID", added, s1, Item(Id[c], "CRTC_ID", CrtcOf(c), "CRTC"))
            /\ s3   = With("MODE_ID", added, s2, Item(CrtcOf(c), "MODE_ID", Len(blobs) + 1, "MODE"))
            /\ req' = With("ACTIVE", added, s3, Item(CrtcOf(c), "ACTIVE", 1, "ACTIVE"))
      BY Zenon DEF ChangeParts
    <3>3. req' = With("off", added, req, x1)
      BY <3>1, <3>2, Zenon DEF With
    <3>. QED
      BY <3>3 DEF With
  <2>3. "off" \in added => x1 \in Items /\ x1.obj = Id["HDMIA"] /\ x1.name = "CRTC_ID"
                           /\ x1.value = 0
    BY <1>1, ChangeItems DEF IInv, Item
  <2>. HIDE DEF x1
  <2>4. ASSUME NEW ob, NEW n, NEW v, Last(req, ob, n, v), n # "CRTC_ID"
        PROVE  Last(req', ob, n, v)
    BY <1>3, <2>2, <2>3, <2>4, LastAppend
  <2>5. LastOfAsked'
    <3>1. SUFFICES ASSUME ~half, NEW w \in Asked
                   PROVE  \E v \in Nat : Last(req', w.obj, Named[w.by], v) /\ Meets(w, v)'
      BY <1>1, <2>1 DEF LastOfAsked
    <3>2. PICK v \in Nat : Last(req, w.obj, Named[w.by], v) /\ Meets(w, v)
      BY <3>1 DEF IInv, LastOfAsked
    <3>3. Named[w.by] # "CRTC_ID"
      BY <1>3, WishNames
    <3>. QED
      BY <1>6, <2>4, <3>2, <3>3
  <2>6. ItemsAsked'
    <3>1. SUFFICES ASSUME ~half, NEW i \in DOMAIN req'
                   PROVE  IF req'[i].name = "CRTC_ID"
                          THEN req'[i].value # 0 =>
                                 \E w \in Asked : w.by = "MODE" /\ w.obj = req'[i].value
                          ELSE \E w \in Asked : w.obj = req'[i].obj /\ Named[w.by] = req'[i].name
      BY <1>1, <2>1 DEF ItemsAsked
    <3>2. ("off" \in added /\ req'[i] = x1) \/ \E k \in DOMAIN req : req'[i] = req[k]
      BY <1>3, <2>2, <2>3, LastAppend
    <3>3. CASE "off" \in added /\ req'[i] = x1
      BY <2>3, <3>3
    <3>4. CASE \E k \in DOMAIN req : req'[i] = req[k]
      <4>1. PICK k \in DOMAIN req : req'[i] = req[k]
        BY <3>4
      <4>2. IF req[k].name = "CRTC_ID"
            THEN req[k].value # 0 => \E w \in Asked : w.by = "MODE" /\ w.obj = req[k].value
            ELSE \E w \in Asked : w.obj = req[k].obj /\ Named[w.by] = req[k].name
        BY <3>1 DEF IInv, ItemsAsked
      <4>. QED
        BY <4>1, <4>2
    <3>. QED
      BY <3>2, <3>3, <3>4
  <2>7. HdmiOff'
    <3>1. ASSUME lost' = 0, ~half, NEW w \in Asked, ForCvbs(w)
          PROVE  \E v \in Nat : Last(req', Id["HDMIA"], "CRTC_ID", v) /\ v # w.obj
      <4>1. PICK v \in Nat : Last(req, Id["HDMIA"], "CRTC_ID", v) /\ v # w.obj
        BY <1>8, <3>1 DEF IInv, HdmiOff
      <4>2. w.obj # 0
        <5>1. w \in Wishes /\ w.by = "MODE" /\ w.obj \in ObjectsOf(Kind[w.by])
          BY <1>3, <3>1 DEF Wishes, ForCvbs
        <5>2. Kind["MODE"] = "crtc"
          BY DEF Kind
        <5>. QED
          BY <5>1, <5>2, IdsFacts DEF ObjectsOf
      <4>3. CASE "off" \in added
        <5>1. Last(req', Id["HDMIA"], "CRTC_ID", 0)
          BY <1>3, <2>2, <2>3, <4>3, LastAppend
        <5>. QED
          BY <4>2, <5>1
      <4>. QED
        BY <2>2, <4>1, <4>3
    <3>. QED
      BY <1>1, <1>8, <2>1, <3>1 DEF IInv, HdmiOff
  <2>. QED
    BY <1>5, <1>7, <2>5, <2>6, <2>7 DEF IInv
<1>. QED
  BY <1>9, <1>10

LEMMA ChangeKeeps ==
  ASSUME IInv, NEW c \in Conns, NEW want, ChangeMode(c, want) PROVE IInv'
<1>1. PICK added \in SUBSET {"off", "CRTC_ID", "MODE_ID", "ACTIVE"}, made \in BOOLEAN :
        ChangeParts(c, want, added, made)
  BY ChangeInParts DEF IInv
<1>2. UNCHANGED <<kernel, connected, shown, held>>
  BY DEF ChangeMode
<1>. QED
  BY <1>1, <1>2, WholeChange, PartChange


-----------------------------------------------------------------------------
(* What the kernel has of a property when it has taken a request: the      *)
(* value of the last item, or what it had.                                 *)
Taken(s, n, o) == {i \in DOMAIN s : s[i].obj = o /\ s[i].name = n}
After(o, n) ==
  IF Taken(req, n, o) = {} THEN kernel[o][n]
  ELSE req[CHOOSE i \in Taken(req, n, o) : \A k \in Taken(req, n, o) : k <= i].value

LEMMA AfterFacts ==
  ASSUME req \in Seq(Items), NEW o, NEW n
  PROVE  \/ Last(req, o, n, After(o, n)) /\ \E i \in DOMAIN req :
              req[i].obj = o /\ req[i].name = n /\ req[i].value = After(o, n)
         \/ After(o, n) = kernel[o][n] /\ \A i \in DOMAIN req : ~(req[i].obj = o /\ req[i].name = n)
<1>. DEFINE P == Taken(req, n, o)
<1>1. Len(req) \in Nat /\ DOMAIN req = 1 .. Len(req)
  OBVIOUS
<1>2. P \in SUBSET (1 .. Len(req))
  BY <1>1 DEF Taken
<1>3. CASE P = {}
  BY <1>3 DEF After, Taken
<1>4. CASE P # {}
  <2>1. \E i \in P : \A k \in P : k <= i
    <3>. HIDE DEF P
    <3>. QED
      BY <1>1, <1>2, <1>4, LargestExists
  <2>2. PICK i \in P : (\A k \in P : k <= i) /\ After(o, n) = req[i].value
    BY <1>4, <2>1 DEF After
  <2>. QED
    BY <2>2 DEF Last, Taken
<1>. QED
  BY <1>3, <1>4

LEMMA CommitKeeps ==
  ASSUME IInv, Commit PROVE IInv'
<1>1. PICK takes \in BOOLEAN :
        /\ kernel' = IF takes
                     THEN [o \in DOMAIN kernel |-> [n \in DOMAIN kernel[o] |-> After(o, n)]]
                     ELSE kernel
        /\ shown' = IF ~takes THEN shown ELSE IF half THEN {} ELSE Merge(shown, asked)
  BY DEF Commit, After, Taken
<1>2. /\ req' = <<>> /\ asked' = {} /\ half' = FALSE
      /\ UNCHANGED <<connected, blobs, held, lost>>
  BY DEF Commit
<1>3. LastOfAsked' /\ ItemsAsked'
  BY <1>2 DEF LastOfAsked, ItemsAsked, Asked, Live
<1>4. /\ blobs \in Seq(Mode) /\ req \in Seq(Items) /\ WishesOK(asked) /\ WishesOK(shown)
      /\ Asked \subseteq Wishes /\ Shown \subseteq Wishes /\ half \in BOOLEAN
  BY LiveTyped DEF IInv, Types, Asked, Shown
<1>5. req' \in Seq(Items) /\ WishesOK(asked') /\ Asked' = {} /\ half' \in BOOLEAN
  <2>1. <<>> \in Seq(Items)
    OBVIOUS
  <2>2. WishesOK({}) /\ Live({}) = {}
    BY DEF WishesOK, Live
  <2>. QED
    BY <1>2, <2>1, <2>2, Zenon DEF Asked
<1>6. ASSUME NEW w, NEW v, Meets(w, v) PROVE Meets(w, v)'
  BY <1>2, <1>6 DEF Meets
<1>7. CASE ~takes
  <2>1. kernel' = kernel /\ shown' = shown /\ Shown' = Shown
    BY <1>1, <1>7 DEF Shown
  <2>2. Types'
    BY <1>2, <1>5, <2>1 DEF IInv, Types, KernelOK
  <2>3. ShownHolds'
    BY <1>2, <2>1 DEF IInv, ShownHolds, Meets
  <2>4. HdmiOff'
    BY <1>2, <1>5, <2>1 DEF IInv, HdmiOff
  <2>. QED
    BY <1>3, <2>2, <2>3, <2>4 DEF IInv
<1>8. CASE takes
  <2>1. kernel' = [o \in Objects |-> [n \in NamesOf(o) |-> After(o, n)]]
    <3>1. DOMAIN kernel = Objects /\ \A o \in Objects : DOMAIN kernel[o] = NamesOf(o)
      BY DEF IInv, Types, KernelOK
    <3>2. kernel' = [o \in DOMAIN kernel |-> [n \in DOMAIN kernel[o] |-> After(o, n)]]
      BY <1>1, <1>8
    <3>. QED
      BY <3>1, <3>2
  <2>2. ASSUME NEW o \in Objects, NEW n \in NamesOf(o)
        PROVE  \/ /\ Last(req, o, n, kernel'[o][n])
                  /\ \E i \in DOMAIN req :
                       req[i].obj = o /\ req[i].name = n /\ req[i].value = kernel'[o][n]
               \/ /\ kernel'[o][n] = kernel[o][n]
                  /\ \A i \in DOMAIN req : ~(req[i].obj = o /\ req[i].name = n)
    <3>1. kernel'[o][n] = After(o, n)
      BY <2>1
    <3>. QED
      BY <1>4, <3>1, AfterFacts
  <2>3. KernelOK'
    <3>1. ASSUME NEW i \in DOMAIN req
          PROVE  /\ req[i].value \in Nat
                 /\ req[i].name = "CRTC_ID" => req[i].value \in CrtcIds \cup {0}
      <4>1. req[i] \in Items
        BY <1>4
      <4>. QED
        BY <4>1 DEF Items
    <3>2. ASSUME NEW o \in Objects, NEW n \in NamesOf(o) PROVE kernel'[o][n] \in Nat
      <4>1. kernel[o][n] \in Nat
        BY DEF IInv, Types, KernelOK
      <4>. QED
        BY <2>2, <3>1, <4>1
    <3>3. ASSUME NEW o \in Objects PROVE kernel'[o] \in [NamesOf(o) -> Nat]
      BY <2>1, <3>2
    <3>4. ASSUME NEW o \in ConnIds PROVE kernel'[o]["CRTC_ID"] \in CrtcIds \cup {0}
      <4>1. o \in Objects /\ "CRTC_ID" \in NamesOf(o)
        BY NamesFacts DEF Objects, ConnNames
      <4>2. kernel[o]["CRTC_ID"] \in CrtcIds \cup {0}
        BY DEF IInv, Types, KernelOK
      <4>. QED
        BY <2>2, <3>1, <4>1, <4>2
    <3>5. kernel' \in [Objects -> [CrtcNames -> Nat] \cup [ConnNames -> Nat]]
      <4>1. \A o \in Objects : kernel'[o] \in [CrtcNames -> Nat] \cup [ConnNames -> Nat]
        BY <3>3 DEF NamesOf
      <4>. QED
        BY <2>1, <4>1
    <3>. QED
      BY <3>3, <3>4, <3>5 DEF KernelOK
  <2>4. CASE half
    <3>1. shown' = {} /\ WishesOK(shown') /\ Shown' = {}
      BY <1>1, <1>8, <2>4 DEF WishesOK, Shown, Live
    <3>2. Types'
      BY <1>2, <1>5, <2>3, <3>1 DEF IInv, Types
    <3>3. ShownHolds' /\ HdmiOff'
      BY <1>2, <1>5, <3>1 DEF ShownHolds, HdmiOff
    <3>. QED
      BY <1>3, <3>2, <3>3 DEF IInv
  <2>5. CASE ~half
    <3>1. WishesOK(shown') /\ Shown' = Onto(Shown, Asked)
      <4>1. shown' = Merge(shown, asked)
        BY <1>1, <1>8, <2>5
      <4>. QED
        BY <1>4, <4>1, MergeLives DEF Shown, Asked
    <3>2. \A w \in Shown' :
            w \in Asked \/ (w \in Shown /\ \A x \in Asked : w.obj # x.obj \/ w.by # x.by)
      BY <3>1, OntoFacts
    <3>3. Shown' \subseteq Wishes
      BY <1>4, <3>2
    <3>4. Types'
      BY <1>2, <1>5, <2>3, <3>1 DEF IInv, Types
    <3>5. ShownHolds'
      <4>1. SUFFICES ASSUME NEW w \in Shown', w.by # "CONTENT_PROTECTION"
                     PROVE  Meets(w, kernel[w.obj][Named[w.by]])'
        BY DEF ShownHolds
      <4>2. w.obj \in Objects /\ Named[w.by] \in NamesOf(w.obj) /\ w.by \in Sets
            /\ Named[w.by] # "CRTC_ID" /\ w \in Wishes
        BY <3>3, <4>1, WishNames
      <4>3. PICK u : u = kernel'[w.obj][Named[w.by]]
        OBVIOUS
      <4>4. CASE w \in Asked
        <5>1. PICK v \in Nat : Last(req, w.obj, Named[w.by], v) /\ Meets(w, v)
          BY <2>5, <4>4 DEF IInv, LastOfAsked
        <5>2. Last(req, w.obj, Named[w.by], u)
          BY <2>2, <4>2, <4>3, <5>1 DEF Last
        <5>3. u = v
          BY <1>4, <5>1, <5>2, LastUnique
        <5>4. Meets(w, u)'
          BY <1>6, <5>1, <5>3
        <5>. QED
          BY <4>3, <5>4
      <4>5. CASE w \in Shown /\ \A x \in Asked : w.obj # x.obj \/ w.by # x.by
        <5>1. ASSUME NEW i \in DOMAIN req, req[i].obj = w.obj, req[i].name = Named[w.by]
              PROVE  FALSE
          <6>1. PICK x \in Asked : x.obj = req[i].obj /\ Named[x.by] = req[i].name
            BY <2>5, <4>2, <5>1 DEF IInv, ItemsAsked
          <6>2. x.by = w.by
            BY <1>4, <4>2, <5>1, <6>1, NamedFacts, WishNames
          <6>. QED
            BY <4>5, <5>1, <6>1, <6>2
        <5>2. kernel'[w.obj][Named[w.by]] = kernel[w.obj][Named[w.by]]
          BY <2>2, <4>2, <5>1
        <5>3. Meets(w, u)
          BY <4>1, <4>3, <4>5, <5>2 DEF IInv, ShownHolds
        <5>4. Meets(w, u)'
          BY <1>6, <5>3
        <5>. QED
          BY <4>3, <5>4
      <4>. QED
        BY <3>2, <4>4, <4>5
    <3>6. HdmiOff'
      <4>1. SUFFICES ASSUME lost = 0, NEW w \in Shown', ForCvbs(w)
                     PROVE  kernel'[Id["HDMIA"]]["CRTC_ID"] # w.obj
        BY <1>2, <1>5 DEF HdmiOff
      <4>2. /\ "HDMIA" \in Conns /\ Id["HDMIA"] \in Objects /\ "CRTC_ID" \in NamesOf(Id["HDMIA"])
            /\ w.by = "MODE" /\ w \in Wishes
        BY <3>3, <4>1, IdsFacts, NamesFacts, ZenonT(60) DEF ForCvbs, Objects, ConnNames
      <4>3. w.obj # 0
        <5>1. w.obj \in ObjectsOf(Kind["MODE"]) /\ Kind["MODE"] = "crtc"
          BY <4>2 DEF Wishes, Kind
        <5>. QED
          BY <5>1, IdsFacts DEF ObjectsOf
      <4>4. CASE w \in Asked
        <5>1. PICK v \in Nat : Last(req, Id["HDMIA"], "CRTC_ID", v) /\ v # w.obj
          BY <2>5, <4>1, <4>4 DEF IInv, HdmiOff
        <5>2. PICK u : u = kernel'[Id["HDMIA"]]["CRTC_ID"]
          OBVIOUS
        <5>3. Last(req, Id["HDMIA"], "CRTC_ID", u)
          BY <2>2, <4>2, <5>1, <5>2 DEF Last
        <5>4. u = v
          BY <1>4, <5>1, <5>3, LastUnique
        <5>. QED
          BY <5>1, <5>2, <5>4
      <4>5. CASE w \in Shown /\ \A x \in Asked : w.obj # x.obj \/ w.by # x.by
        <5>1. CASE kernel'[Id["HDMIA"]]["CRTC_ID"] = kernel[Id["HDMIA"]]["CRTC_ID"]
          BY <4>1, <4>5, <5>1 DEF IInv, HdmiOff
        <5>2. CASE \E i \in DOMAIN req : /\ req[i].name = "CRTC_ID"
                                         /\ req[i].value = kernel'[Id["HDMIA"]]["CRTC_ID"]
          <6>1. PICK i \in DOMAIN req : /\ req[i].name = "CRTC_ID"
                                        /\ req[i].value = kernel'[Id["HDMIA"]]["CRTC_ID"]
            BY <5>2
          <6>2. req[i].value # 0 => \E x \in Asked : x.by = "MODE" /\ x.obj = req[i].value
            BY <2>5, <6>1 DEF IInv, ItemsAsked
          <6>. QED
            BY <4>2, <4>3, <4>5, <6>1, <6>2
        <5>. QED
          BY <2>2, <4>2, <5>1, <5>2
      <4>. QED
        BY <3>2, <4>4, <4>5
    <3>. QED
      BY <1>3, <3>4, <3>5, <3>6 DEF IInv
  <2>. QED
    BY <2>4, <2>5, <1>4
<1>. QED
  BY <1>7, <1>8


-----------------------------------------------------------------------------
(* What the kernel reports is nothing that a call has set.                 *)
LEMMA ReportKeeps ==
  ASSUME IInv, NEW c \in Conns, NEW name \in DOMAIN Reports, NEW v \in Reports[name],
         Report(c, name, v)
  PROVE  IInv'
<1>1. /\ kernel' = [kernel EXCEPT ![Id[c]][name] = v]
      /\ UNCHANGED <<connected, req, blobs, asked, half, shown, held, lost, Asked, Shown>>
  BY DEF Report, Asked, Shown
<1>2. /\ name \in {"hdcp mode", "hdr status", "rx hdcp", "hdmi content", "content protection"}
      /\ v \in Nat
  BY SettingsAssumption
<1>3. name \in ConnNames /\ name # "CRTC_ID"
  BY <1>2 DEF ConnNames
<1>4. \A s \in Sets : s # "CONTENT_PROTECTION" => Named[s] # name
  <2>1. SUFFICES ASSUME NEW s \in Sets, s # "CONTENT_PROTECTION" PROVE Named[s] # name
    OBVIOUS
  <2>. QED
    BY <1>2, <2>1, Rows
<1>5. Id[c] \in ConnIds /\ Id[c] \in Objects /\ NamesOf(Id[c]) = ConnNames
  BY IdsFacts, NamesFacts DEF Objects
<1>6. \A o \in Objects : \A n \in NamesOf(o) :
        kernel'[o][n] = IF o = Id[c] /\ n = name THEN v ELSE kernel[o][n]
  BY <1>1, <1>3, <1>5 DEF IInv, Types, KernelOK
<1>7. KernelOK'
  <2>1. \A o \in Objects : kernel'[o] \in [NamesOf(o) -> Nat]
    BY <1>1, <1>2, <1>3, <1>5 DEF IInv, Types, KernelOK
  <2>2. kernel' \in [Objects -> [CrtcNames -> Nat] \cup [ConnNames -> Nat]]
    <3>1. \A o \in Objects : kernel'[o] \in [CrtcNames -> Nat] \cup [ConnNames -> Nat]
      BY <2>1 DEF NamesOf
    <3>2. kernel' = [o \in Objects |-> kernel'[o]]
      BY <1>1 DEF IInv, Types, KernelOK
    <3>. QED
      BY <3>1, <3>2
  <2>3. ASSUME NEW o \in ConnIds PROVE kernel'[o]["CRTC_ID"] \in CrtcIds \cup {0}
    <3>1. o \in Objects /\ "CRTC_ID" \in NamesOf(o)
      BY NamesFacts DEF Objects, ConnNames
    <3>2. kernel'[o]["CRTC_ID"] = kernel[o]["CRTC_ID"]
      BY <1>3, <1>6, <3>1
    <3>. QED
      BY <3>2 DEF IInv, Types, KernelOK
  <2>. QED
    BY <2>1, <2>2, <2>3 DEF KernelOK
<1>8. Types'
  BY <1>1, <1>7 DEF IInv, Types
<1>9. LastOfAsked' /\ ItemsAsked'
  BY <1>1 DEF IInv, LastOfAsked, ItemsAsked, Meets
<1>10. ShownHolds'
  <2>1. ASSUME NEW w \in Shown, w.by # "CONTENT_PROTECTION"
        PROVE  kernel'[w.obj][Named[w.by]] = kernel[w.obj][Named[w.by]]
    <3>1. w.obj \in Objects /\ Named[w.by] \in NamesOf(w.obj) /\ w.by \in Sets
      BY WishNames, LiveTyped DEF IInv, Types, Shown
    <3>. QED
      BY <1>4, <1>6, <2>1, <3>1
  <2>. QED
    BY <1>1, <2>1 DEF IInv, ShownHolds, Meets
<1>11. HdmiOff'
  <2>1. ASSUME "HDMIA" \in Conns
        PROVE  kernel'[Id["HDMIA"]]["CRTC_ID"] = kernel[Id["HDMIA"]]["CRTC_ID"]
    <3>1. Id["HDMIA"] \in Objects /\ "CRTC_ID" \in NamesOf(Id["HDMIA"])
      BY <2>1, IdsFacts, NamesFacts DEF Objects, ConnNames
    <3>. QED
      BY <1>3, <1>6, <3>1
  <2>. QED
    BY <1>1, <2>1 DEF IInv, HdmiOff, ForCvbs
<1>. QED
  BY <1>8, <1>9, <1>10, <1>11 DEF IInv

(* The calls that add nothing.                                             *)
LEMMA OthersKeep ==
  ASSUME IInv,
         \/ \E c \in Conns : GetEDIDData(c) \/ Plug(c)
         \/ UNCHANGED vars
  PROVE  IInv'
<1>1. UNCHANGED <<kernel, req, blobs, asked, half, shown, Asked, Shown>>
  BY DEF GetEDIDData, Plug, vars, Asked, Shown
<1>2. connected' \subseteq Conns
  BY DEF IInv, Types, GetEDIDData, Plug, vars
<1>3. held' \in Nat /\ lost' \in Nat /\ held' <= lost' /\ lost' >= lost
  BY DEF IInv, Types, GetEDIDData, Plug, vars
<1>4. Types'
  BY <1>1, <1>2, <1>3 DEF IInv, Types, KernelOK
<1>5. LastOfAsked' /\ ItemsAsked' /\ ShownHolds'
  BY <1>1 DEF IInv, LastOfAsked, ItemsAsked, ShownHolds, Meets
<1>6. lost' = 0 => lost = 0
  BY <1>3 DEF IInv, Types
<1>7. HdmiOff'
  BY <1>1, <1>6 DEF IInv, HdmiOff
<1>. QED
  BY <1>4, <1>5, <1>7 DEF IInv

LEMMA InitInvariant ==
  ASSUME Init PROVE IInv
<1>1. /\ connected \subseteq Conns
      /\ req = <<>> /\ asked = {} /\ half = FALSE /\ shown = {} /\ held = 0 /\ lost = 0
  BY DEF Init
<1>2. PICK on \in [Conns -> CrtcIds \cup {0}] :
        kernel = [o \in {Id[c] : c \in Conns} \cup CrtcIds |->
            IF o \in CrtcIds
            THEN [n \in CrtcNames |->
                    IF n \in {"MODE_ID", "ACTIVE"} /\ \E c \in Conns : on[c] = o THEN 1 ELSE 0]
            ELSE [n \in ConnNames |->
                    IF n = "CRTC_ID" THEN on[CHOOSE c \in Conns : Id[c] = o] ELSE 0]]
  BY DEF Init
<1>3. KernelOK
  <2>1. ASSUME NEW o \in CrtcIds
        PROVE  kernel[o] \in [CrtcNames -> Nat] /\ NamesOf(o) = CrtcNames
    <3>1. kernel[o] = [n \in CrtcNames |->
            IF n \in {"MODE_ID", "ACTIVE"} /\ \E c \in Conns : on[c] = o THEN 1 ELSE 0]
      BY <1>2
    <3>. QED
      BY <3>1, NamesFacts
  <2>2. ASSUME NEW o \in ConnIds
        PROVE  /\ kernel[o] \in [ConnNames -> Nat] /\ NamesOf(o) = ConnNames
               /\ kernel[o]["CRTC_ID"] \in CrtcIds \cup {0}
    <3>1. PICK d : d = CHOOSE c \in Conns : Id[c] = o
      OBVIOUS
    <3>2. d \in Conns
      <4>1. \E c \in Conns : Id[c] = o
        BY DEF ConnIds
      <4>. QED
        BY <3>1, <4>1
    <3>3. on[d] \in CrtcIds \cup {0} /\ on[d] \in Nat
      <4>1. PICK S : S = CrtcIds \cup {0}
        OBVIOUS
      <4>2. on \in [Conns -> S]
        BY <4>1
      <4>3. on[d] \in S
        BY <3>2, <4>2
      <4>. QED
        <5>1. on[d] \in CrtcIds \/ on[d] = 0
          BY <4>1, <4>3
        <5>2. CrtcIds \subseteq Nat
          BY IdsFacts
        <5>3. on[d] \in Nat
          <6>1. CASE on[d] \in CrtcIds
            BY <5>2, <6>1, Zenon
          <6>2. CASE on[d] = 0
            BY <6>2
          <6>. QED
            BY <5>1, <6>1, <6>2
        <5>. QED
          BY <5>1, <5>3
    <3>4. o \notin CrtcIds
      BY IdsFacts
    <3>5. kernel[o] = [n \in ConnNames |-> IF n = "CRTC_ID" THEN on[d] ELSE 0]
      BY <1>2, <3>1, <3>4 DEF ConnIds
    <3>6. PICK k : k = on[d]
      OBVIOUS
    <3>7. kernel[o] \in [ConnNames -> Nat]
      <4>1. kernel[o] = [n \in ConnNames |-> IF n = "CRTC_ID" THEN k ELSE 0] /\ k \in Nat
        BY <3>3, <3>5, <3>6
      <4>. QED
        BY <4>1
    <3>8. kernel[o]["CRTC_ID"] = k
      <4>1. "CRTC_ID" \in ConnNames
        BY DEF ConnNames
      <4>. QED
        BY <3>5, <3>6, <4>1
    <3>. QED
      BY <3>3, <3>6, <3>7, <3>8, NamesFacts
  <2>3. DOMAIN kernel = Objects /\ kernel = [o \in Objects |-> kernel[o]]
    BY <1>2 DEF Objects, ConnIds
  <2>4. \A o \in Objects : kernel[o] \in [CrtcNames -> Nat] \cup [ConnNames -> Nat]
    BY <2>1, <2>2 DEF Objects
  <2>5. kernel \in [Objects -> [CrtcNames -> Nat] \cup [ConnNames -> Nat]]
    BY <2>3, <2>4
  <2>6. \A o \in Objects : kernel[o] \in [NamesOf(o) -> Nat]
    BY <2>1, <2>2 DEF Objects
  <2>. QED
    BY <2>2, <2>5, <2>6 DEF KernelOK
<1>4. blobs \in Seq(Mode)
  <2>1. PICK d : d = CHOOSE c \in Conns : Len(Lists[c]) > 0
    OBVIOUS
  <2>2. d \in Conns /\ Len(Lists[d]) > 0
    <3>1. \E c \in Conns : Len(Lists[c]) > 0
      BY SettingsAssumption
    <3>. QED
      BY <2>1, <3>1
  <2>3. Lists[d] \in Seq(Mode)
    BY <2>2, SettingsAssumption
  <2>4. Lists[d][1] \in Mode
    BY <2>2, <2>3
  <2>5. blobs = <<Lists[d][1]>>
    BY <2>1 DEF Init
  <2>. QED
    BY <2>4, <2>5
<1>5. req \in Seq(Items)
  BY <1>1
<1>6. Types
  <2>1. WishesOK(asked) /\ WishesOK(shown)
    BY <1>1 DEF WishesOK
  <2>2. half \in BOOLEAN
    BY <1>1
  <2>3. held \in Nat /\ lost \in Nat /\ held <= lost
    BY <1>1
  <2>. QED
    BY <1>1, <1>3, <1>4, <1>5, <2>1, <2>2, <2>3 DEF Types
<1>. QED
  BY <1>1, <1>6 DEF IInv, LastOfAsked, ItemsAsked, ShownHolds, HdmiOff, Asked, Shown, Live

LEMMA NextInvariant ==
  ASSUME IInv, [Next]_vars PROVE IInv'
<1>1. ASSUME NEW c \in Conns \cup {"DUMMY"}, Setter(c) PROVE IInv'
  BY <1>1, SetterSets, SetKeeps
<1>2. ASSUME NEW c \in Conns, NEW want, ChangeMode(c, want) PROVE IInv'
  BY <1>2, ChangeKeeps
<1>3. ASSUME NEW c \in Conns, NEW name \in DOMAIN Reports, NEW v \in Reports[name],
             Report(c, name, v)
      PROVE  IInv'
  BY <1>3, ReportKeeps
<1>4. CASE Commit
  BY <1>4, CommitKeeps
<1>5. CASE \/ \E c \in Conns : GetEDIDData(c) \/ Plug(c)
           \/ UNCHANGED vars
  BY <1>5, OthersKeep
<1>. QED
  BY <1>1, <1>2, <1>3, <1>4, <1>5 DEF Next

LEMMA InvariantHolds == Spec => []IInv
<1>1. Init => IInv
  BY InitInvariant
<1>2. IInv /\ [Next]_vars => IInv'
  BY NextInvariant
<1>. QED
  BY <1>1, <1>2, PTL DEF Spec


-----------------------------------------------------------------------------
(* Type correctness, for any device and whatever the kernel reports.       *)
THEOREM TypeCorrect == Spec => []TypeOK
<1>1. ASSUME IInv PROVE TypeOK
  <2>1. ASSUME NEW c \in Conns
        PROVE  \E m \in SupportedModes(c) \cup {NoMode} :
                 PreferredMode(c, NoMode) = [m EXCEPT !.rate = 0]
    <3>. DEFINE best == {n \in DOMAIN Lists[c] : Lists[c][n].preferred}
    <3>1. Lists[c] \in Seq(Mode)
      BY SettingsAssumption
    <3>2. Len(Lists[c]) \in Nat /\ DOMAIN Lists[c] = 1 .. Len(Lists[c])
      BY <3>1
    <3>3. best \in SUBSET (1 .. Len(Lists[c]))
      BY <3>2
    <3>4. CASE best = {}
      <4>1. PreferredMode(c, NoMode) = NoMode /\ NoMode = [NoMode EXCEPT !.rate = 0]
        BY <3>4 DEF PreferredMode, NoMode
      <4>. QED
        BY <4>1
    <3>5. CASE best # {}
      <4>1. \E n \in best : \A k \in best : n <= k
        <5>. HIDE DEF best
        <5>. QED
          BY <3>2, <3>3, <3>5, SmallestExists
      <4>2. PICK n \in best : n = CHOOSE m \in best : \A k \in best : m <= k
        BY <4>1
      <4>3. PreferredMode(c, NoMode) = [Told(Lists[c][n]) EXCEPT !.rate = 0]
        BY <3>5, <4>2 DEF PreferredMode, NoMode
      <4>. QED
        BY <4>2, <4>3 DEF SupportedModes, Exists
    <3>. QED
      BY <3>4, <3>5
  <2>2. ASSUME NEW c \in ConnTypes
        PROVE  /\ GetColorSpace(c) \in 0 .. 4 /\ GetContentType(c) \in 0 .. 5
               /\ GetHDCPContentType(c) \in 0 .. 2 /\ GetAspectRatio(c) \in 0 .. 3
               /\ GetHDRPolicy(c) \in 0 .. 2 /\ GetHdrStatus(c) \in 0 .. 6
               /\ GetHdcpVersion(c) \in {"1.4", "2.2", "reserved"}
    <3>1. ASSUME NEW v PROVE /\ Reserved(v, 1) \in 0 .. 2 /\ Reserved(v, 2) \in 0 .. 3
                             /\ Reserved(v, 3) \in 0 .. 4 /\ Reserved(v, 4) \in 0 .. 5
      BY DEF Reserved
    <3>2. /\ GetColorSpace(c) \in 0 .. 4 /\ GetContentType(c) \in 0 .. 5
          /\ GetHDCPContentType(c) \in 0 .. 2 /\ GetAspectRatio(c) \in 0 .. 3
      BY <3>1 DEF GetColorSpace, GetContentType, GetHDCPContentType, GetAspectRatio
    <3>3. GetHDRPolicy(c) \in 0 .. 2 /\ GetHdrStatus(c) \in 0 .. 6
      <4>1. \A v : /\ (IF v \in 0 .. 2 THEN v ELSE 0) \in 0 .. 2
                   /\ (IF v \in 0 .. 6 THEN v ELSE 6) \in 0 .. 6
        OBVIOUS
      <4>2. /\ \E v : GetHDRPolicy(c) = IF v \in 0 .. 2 THEN v ELSE 0
            /\ \E v : GetHdrStatus(c) = IF v \in 0 .. 6 THEN v ELSE 6
        BY Zenon DEF GetHDRPolicy, GetHdrStatus
      <4>. QED
        BY <4>1, <4>2, Zenon
    <3>4. GetHdcpVersion(c) \in {"1.4", "2.2", "reserved"}
      BY Zenon DEF GetHdcpVersion
    <3>. QED
      BY <3>2, <3>3, <3>4
  <2>3. ASSUME NEW c \in ConnTypes
        PROVE  /\ GetHdcpAuthStatus(c) => Exists(c)
               /\ GetRxSupportedHdcpVersion(c) # {} => Exists(c)
               /\ GetConnectionStatus(c) = "connected" => c \in connected
    <3>1. ASSUME ~Exists(c), NEW n PROVE ConnProp(c, n) = -1
      BY <3>1 DEF ConnProp, PropOf, Has, None
    <3>2. ASSUME ~Exists(c), GetHdcpAuthStatus(c) PROVE FALSE
      <4>1. ConnProp(c, "content protection") = 2
        BY <3>2 DEF GetHdcpAuthStatus
      <4>2. ConnProp(c, "content protection") = -1
        BY <3>1, <3>2
      <4>3. 2 # -1
        OBVIOUS
      <4>. QED
        BY <4>1, <4>2, <4>3, Zenon
    <3>3. ASSUME ~Exists(c) PROVE GetRxSupportedHdcpVersion(c) = {}
      <4>1. PICK v : v = ConnProp(c, "rx hdcp")
        OBVIOUS
      <4>2. v = -1
        BY <3>1, <3>3, <4>1
      <4>3. GetRxSupportedHdcpVersion(c)
              = CASE v = 14 -> {"1.4"} [] v = 22 -> {"2.2"} [] v = 36 -> {"1.4", "2.2"}
                  [] OTHER -> {}
        BY <4>1, Zenon DEF GetRxSupportedHdcpVersion
      <4>. QED
        BY <4>2, <4>3
    <3>4. GetConnectionStatus(c) = "connected" => c \in connected
      <4>1. connected \subseteq Conns
        BY <1>1 DEF IInv, Types
      <4>. QED
        BY <4>1 DEF GetConnectionStatus, Exists
    <3>. QED
      BY <3>2, <3>3, <3>4
  <2>4. held <= lost
    BY <1>1 DEF IInv, Types
  <2>5. \A i \in DOMAIN req : req[i].name \in DOMAIN kernel[req[i].obj] \ Lacks
    <3>1. SUFFICES ASSUME NEW i \in DOMAIN req
                   PROVE  req[i].name \in DOMAIN kernel[req[i].obj] \ Lacks
      OBVIOUS
    <3>2. req[i] \in Items
      BY <1>1 DEF IInv, Types
    <3>3. req[i].obj \in Objects /\ req[i].name \in NamesOf(req[i].obj) \ Lacks
      BY <3>2 DEF Items
    <3>4. DOMAIN kernel[req[i].obj] = NamesOf(req[i].obj)
      BY <1>1, <3>3 DEF IInv, Types, KernelOK
    <3>. QED
      BY <3>3, <3>4
  <2>. QED
    BY <2>1, <2>2, <2>3, <2>4, <2>5 DEF TypeOK, Exists
<1>. QED
  BY <1>1, InvariantHolds, PTL

(* What nothing is over is read back, for each connector of its object.    *)
LEMMA ReadsBack ==
  ASSUME IInv, NEW w \in Shown, NEW c \in Conns,
         w.by \notin {"MODE", "CONTENT_PROTECTION", "BACKGROUND"},
         w.obj \in {Id[c], CrtcOf(c)}
  PROVE  Reads(w.by, c) = w.value
<1>2. /\ w \in Wishes /\ w.by \in Sets /\ w.by \in Setters /\ w.value \in Nat
      /\ w.obj \in ObjectsOf(Kind[w.by]) /\ Named[w.by] \notin Lacks
      /\ w.by # "ACTIVE" => w.value \in Legal[w.by]
  BY LiveTyped DEF IInv, Types, Wishes, Sets, Shown
<1>3. kernel[w.obj][Named[w.by]] = w.value
  BY DEF IInv, ShownHolds, Meets
<1>4. w.obj = Object(c, Kind[w.by])
  <2>1. CrtcOf(c) \in CrtcIds /\ Id[c] \in ConnIds /\ ConnIds \cap CrtcIds = {}
    BY CrtcOfFound, IdsFacts DEF IInv, Types
  <2>2. Kind[w.by] \in {"crtc", "connector"}
    BY <1>2, NamedFacts
  <2>. QED
    BY <1>2, <2>1, <2>2 DEF Object, ObjectsOf
<1>5. PropOf(c, Kind[w.by], Named[w.by]) = w.value
  BY <1>2, <1>3, <1>4 DEF PropOf, Has, Exists
<1>6. Or(w.value, 0) = w.value
  BY <1>2 DEF Or, None
<1>7. /\ w.by = "COLOR_SPACE" => w.value \in 0 .. 3
      /\ w.by = "HDR_POLICY" => w.value \in 0 .. 2
      /\ w.by = "HDCP_VERSION" => w.value \in 0 .. 1
      /\ w.by = "ASPECT_RATIO" => w.value \in 0 .. 2
  BY <1>2, SettingsAssumption
<1>8. CASE Kind[w.by] = "connector"
  <2>1. ConnProp(c, Named[w.by]) = w.value
    BY <1>5, <1>8 DEF ConnProp
  <2>2. CASE w.by = "COLOR_SPACE"
    <3>1. Reads("COLOR_SPACE", c) = GetColorSpace(c)
      BY DEF Reads
    <3>2. Named["COLOR_SPACE"] = "color space"
      BY DEF Named
    <3>3. ConnProp(c, "color space") = w.value
      BY <2>1, <2>2, <3>2
    <3>4. GetColorSpace(c) = Reserved(w.value, 3)
      BY <1>6, <3>3 DEF GetColorSpace
    <3>5. Reserved(w.value, 3) = w.value
      BY <1>7, <2>2 DEF Reserved
    <3>. QED
      BY <2>2, <3>1, <3>4, <3>5
  <2>3. CASE w.by = "COLOR_DEPTH"
    <3>1. Reads("COLOR_DEPTH", c) = GetColorDepth(c)
      BY DEF Reads
    <3>2. Named["COLOR_DEPTH"] = "color depth"
      BY DEF Named
    <3>3. ConnProp(c, "color depth") = w.value
      BY <2>1, <2>3, <3>2
    <3>. QED
      BY <1>6, <2>3, <3>1, <3>3 DEF GetColorDepth
  <2>4. CASE w.by = "HDMI_ENABLE"
    <3>1. Reads("HDMI_ENABLE", c) = GetAVMute(c)
      BY DEF Reads
    <3>2. Named["HDMI_ENABLE"] = "avmute"
      BY DEF Named
    <3>3. ConnProp(c, "avmute") = w.value
      BY <2>1, <2>4, <3>2
    <3>. QED
      BY <1>6, <2>4, <3>1, <3>3 DEF GetAVMute
  <2>5. CASE w.by = "HDCP_VERSION"
    <3>1. Reads("HDCP_VERSION", c) = GetHDCPContentType(c)
      BY DEF Reads
    <3>2. Named["HDCP_VERSION"] = "content type"
      BY DEF Named
    <3>3. ConnProp(c, "content type") = w.value
      BY <2>1, <2>5, <3>2
    <3>4. GetHDCPContentType(c) = Reserved(w.value, 1)
      BY <1>6, <3>3 DEF GetHDCPContentType
    <3>5. Reserved(w.value, 1) = w.value
      BY <1>7, <2>5 DEF Reserved
    <3>. QED
      BY <2>5, <3>1, <3>4, <3>5
  <2>6. CASE w.by = "ASPECT_RATIO"
    <3>1. Reads("ASPECT_RATIO", c) = GetAspectRatio(c)
      BY DEF Reads
    <3>2. Named["ASPECT_RATIO"] = "aspect ratio"
      BY DEF Named
    <3>3. ConnProp(c, "aspect ratio") = w.value
      BY <2>1, <2>6, <3>2
    <3>4. GetAspectRatio(c) = Reserved(w.value, 2)
      BY <1>6, <3>3 DEF GetAspectRatio
    <3>5. Reserved(w.value, 2) = w.value
      BY <1>7, <2>6 DEF Reserved
    <3>. QED
      BY <2>6, <3>1, <3>4, <3>5
  <2>7. CASE w.by = "FRAC_RATE"
    <3>1. Reads("FRAC_RATE", c) = GetFracRatePolicy(c)
      BY DEF Reads
    <3>2. Named["FRAC_RATE"] = "frac rate"
      BY DEF Named
    <3>3. ConnProp(c, "frac rate") = w.value
      BY <2>1, <2>7, <3>2
    <3>. QED
      BY <1>6, <2>7, <3>1, <3>3 DEF GetFracRatePolicy
  <2>8. CASE w.by = "CVBS_AVMUTE"
    <3>1. Reads("CVBS_AVMUTE", c) = GetCvbsAVMute(c)
      BY DEF Reads
    <3>2. Named["CVBS_AVMUTE"] = "cvbs avmute"
      BY DEF Named
    <3>3. ConnProp(c, "cvbs avmute") = w.value
      BY <2>1, <2>8, <3>2
    <3>. QED
      BY <1>6, <2>8, <3>1, <3>3 DEF GetCvbsAVMute
  <2>. QED
    BY <1>2, <1>8, Rows, <2>2, <2>3, <2>4, <2>5, <2>6, <2>7, <2>8
<1>9. CASE Kind[w.by] = "crtc"
  <2>1. CrtcProp(c, Named[w.by]) = w.value
    BY <1>5, <1>9 DEF CrtcProp
  <2>2. CASE w.by = "HDR_POLICY"
    <3>1. Reads("HDR_POLICY", c) = GetHDRPolicy(c)
      BY DEF Reads
    <3>2. Named["HDR_POLICY"] = "hdr policy"
      BY DEF Named
    <3>3. CrtcProp(c, "hdr policy") = w.value
      BY <2>1, <2>2, <3>2
    <3>4. GetHDRPolicy(c) = IF w.value \in 0 .. 2 THEN w.value ELSE 0
      BY <3>3 DEF GetHDRPolicy
    <3>. QED
      BY <1>7, <2>2, <3>1, <3>4
  <2>3. CASE w.by = "DOLBY_VISION_ENABLE"
    <3>1. Reads("DOLBY_VISION_ENABLE", c) = GetDvEnable(c)
      BY DEF Reads
    <3>2. Named["DOLBY_VISION_ENABLE"] = "dv enable"
      BY DEF Named
    <3>3. CrtcProp(c, "dv enable") = w.value
      BY <2>1, <2>3, <3>2
    <3>. QED
      BY <1>6, <2>3, <3>1, <3>3 DEF GetDvEnable
  <2>4. CASE w.by = "ACTIVE"
    <3>1. Reads("ACTIVE", c) = GetActive(c)
      BY DEF Reads
    <3>2. Named["ACTIVE"] = "ACTIVE"
      BY DEF Named
    <3>3. CrtcProp(c, "ACTIVE") = w.value
      BY <2>1, <2>4, <3>2
    <3>. QED
      BY <1>6, <2>4, <3>1, <3>3 DEF GetActive
  <2>5. CASE w.by = "VRR_ENABLED"
    <3>1. Reads("VRR_ENABLED", c) = GetVrrEnabled(c)
      BY DEF Reads
    <3>2. Named["VRR_ENABLED"] = "vrr"
      BY DEF Named
    <3>3. CrtcProp(c, "vrr") = w.value
      BY <2>1, <2>5, <3>2
    <3>. QED
      BY <1>6, <2>5, <3>1, <3>3 DEF GetVrrEnabled
  <2>6. CASE w.by = "TX_HDR_OFF"
    <3>1. Reads("TX_HDR_OFF", c) = GetHdrForceMode(c)
      BY DEF Reads
    <3>2. Named["TX_HDR_OFF"] = "hdr off"
      BY DEF Named
    <3>3. CrtcProp(c, "hdr off") = w.value
      BY <2>1, <2>6, <3>2
    <3>. QED
      BY <1>6, <2>6, <3>1, <3>3 DEF GetHdrForceMode
  <2>7. CASE w.by = "DV_MODE"
    <3>1. Reads("DV_MODE", c) = GetDvMode(c)
      BY DEF Reads
    <3>2. Named["DV_MODE"] = "dv mode"
      BY DEF Named
    <3>3. CrtcProp(c, "dv mode") = w.value
      BY <2>1, <2>7, <3>2
    <3>. QED
      BY <1>6, <2>7, <3>1, <3>3 DEF GetDvMode
  <2>. QED
    BY <1>2, <1>9, Rows, <2>2, <2>3, <2>4, <2>5, <2>6, <2>7
<1>. QED
  BY <1>2, <1>8, <1>9, NamedFacts

(* Whatever the calls, what was set and committed is read back, and only a *)
(* later setting for another connector that comes to the same CRTC         *)
(* disturbs it.                                                            *)
THEOREM SettersReadBack == Spec => []SetReadsBack
<1>1. ASSUME IInv PROVE SetReadsBack
  <2>1. SUFFICES ASSUME NEW w \in shown,
                        w.by \notin {"MODE", "CONTENT_PROTECTION", "BACKGROUND"},
                        w.obj \in {Id[w.conn], CrtcOf(w.conn)}
                 PROVE  IF ~w.over THEN Reads(w.by, w.conn) = w.value
                        ELSE \E x \in shown : /\ Alike(w, x) /\ x.conn # w.conn /\ ~x.over
                                             /\ Reads(w.by, w.conn) = x.value
    BY DEF SetReadsBack
  <2>2. WishesOK(shown) /\ w.conn \in Conns
    BY <1>1, <2>1 DEF IInv, Types, WishesOK, Wishes
  <2>3. CASE ~w.over
    <3>1. w \in Shown
      BY <2>3 DEF Shown, Live
    <3>. QED
      BY <1>1, <2>1, <2>2, <2>3, <3>1, ReadsBack
  <2>4. CASE w.over
    <3>1. PICK x \in shown : Alike(w, x) /\ ~x.over /\ x.conn # w.conn
      BY <2>2, <2>4 DEF WishesOK
    <3>2. x \in Shown /\ x.by = w.by /\ x.obj = w.obj
      BY <3>1 DEF Shown, Live, Alike
    <3>3. Reads(x.by, w.conn) = x.value
      BY <1>1, <2>1, <2>2, <3>2, ReadsBack
    <3>. QED
      BY <2>4, <3>1, <3>2, <3>3
  <2>. QED
    BY <2>3, <2>4
<1>. QED
  BY <1>1, InvariantHolds, PTL

(* A mode change that returned 0 and was taken is what is then shown; and  *)
(* a CRTC that shows CVBS is not HDMIA's, unless memory was lost.          *)
THEOREM ModesShow == Spec => []ChangedModeShows
<1>1. ASSUME IInv PROVE ChangedModeShows
  <2>1. SUFFICES ASSUME NEW w \in shown, NEW c, c = w.conn,
                        w.by = "MODE", ~w.over, CrtcOf(c) = w.obj
                 PROVE  /\ GetModeInfo(c) = w.mode
                        /\ DefaultConnector = c => GetModeInfo("RESERVED") = w.mode
                        /\ (c = "CVBS" /\ Exists("HDMIA") /\ lost = 0)
                             => kernel[Id["HDMIA"]]["CRTC_ID"] # w.obj
    BY DEF ChangedModeShows
  <2>9. w \in Shown /\ c \in Conns
    BY <1>1, <2>1 DEF Shown, Live, IInv, Types, WishesOK, Wishes
  <2>2. PICK id : id = kernel[CrtcOf(c)]["MODE_ID"]
    OBVIOUS
  <2>3. id \in DOMAIN blobs /\ Told(blobs[id]) = w.mode
    <3>1. Named["MODE"] = "MODE_ID"
      BY DEF Named
    <3>. QED
      BY <1>1, <2>1, <2>2, <2>9, <3>1 DEF IInv, ShownHolds, Meets
  <2>4. id # 0
    BY <1>1, <2>3 DEF IInv, Types
  <2>5. c # "RESERVED"
    BY <2>9, SettingsAssumption DEF ConnTypes
  <2>6. GetModeInfo(c) = w.mode
    BY <2>2, <2>3, <2>4, <2>5 DEF GetModeInfo
  <2>7. DefaultConnector = c => GetModeInfo("RESERVED") = w.mode
    BY <2>2, <2>3, <2>4 DEF GetModeInfo
  <2>8. (c = "CVBS" /\ Exists("HDMIA") /\ lost = 0)
          => kernel[Id["HDMIA"]]["CRTC_ID"] # w.obj
    BY <1>1, <2>1, <2>9 DEF IInv, HdmiOff, ForCvbs, Exists
  <2>. QED
    BY <2>6, <2>7, <2>8
<1>. QED
  BY <1>1, InvariantHolds, PTL
=============================================================================
