----------------------------- MODULE DisplayApi ------------------------------
(***************************************************************************)
(* The display API (src/meson/meson_drm_display.c), called by threads:     *)
(* properties and modes are set by commands to the compositor and read     *)
(* from the kernel; the rest of the calls only read.                       *)
(*                                                                         *)
(* The compositor listens in one runtime directory, or is away; it may     *)
(* refuse a command, or do it and its answer is lost.  It may turn HDMI    *)
(* off or move it to another CRTC at any time, and every call asks anew    *)
(* which CRTC that is.  A thread that follows a null pointer has crashed.  *)
(***************************************************************************)
EXTENDS Integers, FiniteSets

CONSTANTS
  Threads,
  EnProps,     (* the properties the threads set and get                    *)
  Values,      (* what they set, of 0 .. 2                                  *)
  Sinks,       (* what may be plugged in, see SinkAssumption                *)
  Rates,       (* refresh rates                                             *)
  EnvDir,      (* the runtime directory that the environment names          *)
  AllowInvalid,  (* whether a thread may pass an enProp that is too large   *)
  Homes,       (* where the compositor may listen                           *)
  NCrtcs,      (* CRTCs of the device, numbered as in its resources         *)
  Lights,      (* the CRTCs that HDMI may get, or NoCrtc when it is off     *)
  OtherModes,  (* the modes of the other CRTCs at first, 0 for none         *)
  MaxCalls,    (* bound: calls                                              *)
  MaxChanges   (* bound: changes of display and compositor                  *)

Default == "/run"
Away    == "away"

Crtcs     == 1 .. NCrtcs
NoCrtc    == 0
FirstCrtc == 1           (* res->crtcs[0]                                   *)
Connector == NCrtcs + 1  (* the id of the HDMI connector                    *)

Capabilities ==
  {"HDR10PLUS", "DOLBYVISION_STD", "DOLBYVISION_LL", "HDR10_ST2084",
   "HDR10_TRADITIONAL", "HDR_HLG", "SDR"}

(* ENUM_MESON_DRM_PROP, and the mode of setMode and getMode.               *)
EnPropNames ==
  {"HDMI_ENABLE", "EOTF", "CONTENT_PROTECTION", "HDCP_VERSION", "HDR_POLICY", "RX_HDCP",
   "RX_HDR_CAP", "TX_HDR_MODE", "AUTHMODE", "ASPECT_RATIO", "DV_ENABLE", "MODE"}

ASSUME SinkAssumption ==
  /\ EnProps \subseteq EnPropNames /\ "MODE" \in EnProps
  /\ Values \subseteq 0 .. 2 /\ Homes \subseteq {EnvDir, Default, Away}
  /\ NCrtcs \in Nat \ {0} /\ Lights \subseteq Crtcs \cup {NoCrtc}
  /\ OtherModes \subseteq Values \cup {0}
  /\ Rates \subseteq Nat \ {0} /\ MaxCalls \in Nat /\ MaxChanges \in Nat
  /\ \A s \in Sinks : /\ s.caps \subseteq Capabilities
                      /\ s.hdcp \in {{}, {14}, {22}, {14, 22}}

VARIABLES
  kernel,    (* values of the kernel's properties                           *)
  sink,      (* what is plugged in                                          *)
  home,      (* where the compositor listens                                *)
  lit,       (* the CRTC that HDMI is on                                    *)
  files, conns,  (* the threads whose call has a file, a connector          *)
  asked,     (* history: what a property of an object was set to, if that   *)
             (* is certain                                                  *)
  job, calls, changes

vars == <<kernel, sink, home, lit, files, conns, asked, job, calls, changes>>
world == <<sink, home, lit, changes>>

Unknown == -2
Failed  == -1

(* clean: no other call interfered; done: the commands the compositor did; *)
(* enc: the connector has an encoder; crtc: the CRTC the call works with;  *)
(* out, set: what a call that reads has so far and gives back.             *)
Idle == [at |-> "idle", call |-> "none", e |-> "none", v |-> 0, dir |-> EnvDir,
         done |-> {}, clean |-> TRUE, sink |-> "same", enc |-> FALSE, crtc |-> NoCrtc,
         ret |-> Failed, out |-> 0, set |-> {}, pipe |-> 0, waited |-> 0]

-----------------------------------------------------------------------------
(* Objects and properties by enProp: the switch of both functions.  c is   *)
(* the CRTC that mesonConnectorGetCRTCId gives.                            *)
OnCrtc == {"EOTF", "HDR_POLICY", "DV_ENABLE", "MODE"}
Target(e, c) ==
  <<IF e \in OnCrtc THEN c ELSE Connector,
    CASE e = "HDMI_ENABLE" -> "avmute" [] e = "HDCP_VERSION" -> "content type" [] OTHER -> e>>

Priority == <<Connector, "priority">>
GetOnly  == {"RX_HDCP", "RX_HDR_CAP", "TX_HDR_MODE", "AUTHMODE"}
NoTarget == <<-1, "">>

(* In meson_drm_set_prop the properties that can only be read have none.   *)
SetTarget(e, c) == IF e \in GetOnly THEN NoTarget ELSE Target(e, c)
Settings == {Target(e, c) : e \in EnProps \ GetOnly, c \in Crtcs}
Kernel == Settings \cup {Priority}

(* The targets of the commands that set k: the HDCP version has two.       *)
Whole(k) == {k} \cup (IF k[2] = "content type" THEN {Priority} ELSE {})

(* Mutant: the value for HDMI_ENABLE is sent as it is.                     *)
SendPlain(e, v) == IF e = "HDCP_VERSION" /\ v = 2 THEN 0 ELSE v

(* The value sent: HDMI_ENABLE is the opposite of AVMUTE, and version 1.4  *)
(* is content type 0 with the priority set.                                *)
Send(e, v) ==
  CASE e = "HDMI_ENABLE" -> IF v # 0 THEN 0 ELSE 1
    [] e = "HDCP_VERSION" /\ v = 2 -> 0
    [] OTHER -> v

SendPriority(v) == IF v = 2 THEN 1 ELSE 0

Read(e, first, priority) ==
  CASE e = "HDMI_ENABLE" -> IF first # 0 THEN 0 ELSE 1
    [] e = "HDCP_VERSION" /\ first = 0 /\ priority = 1 -> 2
    [] OTHER -> first

(* The kernel's words for what a sink can do, as sets of bits, and its     *)
(* number for the HDCP versions.                                           *)
HdrBits(s) ==
  {b \in 0 .. 4 : CASE b = 0 -> "HDR10PLUS" \in s.caps [] b = 1 -> "SDR" \in s.caps
                    [] b = 2 -> "HDR10_TRADITIONAL" \in s.caps
                    [] b = 3 -> "HDR10_ST2084" \in s.caps [] b = 4 -> "HDR_HLG" \in s.caps}
DvBits(s) ==
  (IF "DOLBYVISION_STD" \in s.caps THEN {1, 4} ELSE {}) \cup
  (IF "DOLBYVISION_LL" \in s.caps THEN {6} ELSE {})
HdcpNumber(s) == CASE s.hdcp = {14} -> 14 [] s.hdcp = {22} -> 22 [] s.hdcp = {} -> 0
                   [] OTHER -> 36

(* _getHDRSupportedList: 0x1A and 0xE0 are masks.                          *)
HDRSupportedList(hdr, dv) ==
  {c \in Capabilities :
     CASE c = "HDR10PLUS" -> 0 \in hdr
       [] c = "DOLBYVISION_STD" -> dv \cap {1, 3, 4} # {}
       [] c = "DOLBYVISION_LL" -> dv \cap {5, 6, 7} # {}
       [] c = "HDR10_ST2084" -> 3 \in hdr
       [] c = "HDR10_TRADITIONAL" -> 2 \in hdr
       [] c = "HDR_HLG" -> 4 \in hdr
       [] c = "SDR" -> 1 \in hdr}

HdcpVersions(number) ==
  CASE number = 14 -> {14} [] number = 22 -> {22} [] number = 36 -> {14, 22} [] OTHER -> {}

-----------------------------------------------------------------------------
At(t, here) == job[t].at = here
Goto(t, there) == job' = [job EXCEPT ![t].at = there]

(* HDMI's CRTC has a mode m; the others have the mode n, if any.           *)
Init ==
  /\ lit \in Lights
  /\ \E m \in Values, n \in OtherModes :
       kernel = [k \in Kernel |-> IF k[2] # "MODE" THEN 0 ELSE IF k[1] = lit THEN m ELSE n]
  /\ sink \in Sinks
  /\ home \in Homes
  /\ files = {} /\ conns = {}
  /\ asked = [k \in Settings |-> Unknown]
  /\ job = [t \in Threads |-> Idle]
  /\ calls = 0 /\ changes = 0

(* A call that sets e disturbs the other calls about e, and is disturbed   *)
(* by them.                                                                *)
Begin(t, work) ==
  LET about(u) == u # t /\ ~At(u, "idle") /\ job[u].e = work.e /\ work.e # "none"
      sets(w) == w.call \in {"set", "setmode"} IN
  /\ At(t, "idle") /\ calls < MaxCalls
  /\ calls' = calls + 1
  /\ job' = [u \in Threads |->
       IF u = t THEN [work EXCEPT !.clean = ~\E o \in Threads : about(o) /\ sets(job[o])]
       ELSE IF about(u) /\ sets(work) THEN [job[u] EXCEPT !.clean = FALSE]
       ELSE job[u]]

(* The rest of the world.                                                  *)
Replug(s) ==
  /\ s # sink /\ changes < MaxChanges
  /\ changes' = changes + 1
  /\ sink' = s
  /\ job' = [t \in Threads |-> IF job[t].e \in {"RX_HDCP", "RX_HDR_CAP"}
                                THEN [job[t] EXCEPT !.sink = "changed"] ELSE job[t]]
  /\ UNCHANGED <<kernel, home, lit, files, conns, asked, calls>>

CompositorMoves(d) ==
  /\ d # home /\ changes < MaxChanges
  /\ changes' = changes + 1
  /\ home' = d
  /\ UNCHANGED <<kernel, sink, lit, files, conns, asked, job, calls>>

(* The compositor turns HDMI off, or on with the mode m on the CRTC c: the *)
(* CRTC it leaves has no mode then, and the calls about the mode do not    *)
(* know what they find.                                                    *)
CrtcChanges(c, m) ==
  /\ c # lit /\ changes < MaxChanges
  /\ changes' = changes + 1
  /\ lit' = c
  /\ kernel' = [k \in Kernel |->
       CASE k = Target("MODE", lit) -> 0 [] k = Target("MODE", c) -> m [] OTHER -> kernel[k]]
  /\ asked' = [k \in Settings |-> IF k[2] = "MODE" THEN Unknown ELSE asked[k]]
  /\ job' = [t \in Threads |-> IF job[t].e = "MODE" THEN [job[t] EXCEPT !.clean = FALSE]
                                ELSE job[t]]
  /\ UNCHANGED <<sink, home, files, conns, calls>>

(* CONTENT_PROTECTION: desired becomes enabled.                            *)
KernelAuthenticates ==
  LET k == Target("CONTENT_PROTECTION", FirstCrtc) IN
  /\ k \in Kernel /\ kernel[k] = 1
  /\ kernel' = [kernel EXCEPT ![k] = 2]
  /\ UNCHANGED <<world, files, conns, asked, job, calls>>

-----------------------------------------------------------------------------
(* Every call that needs the connector: meson_drm_open and                 *)
(* mesonConnectorCreate, which reads the connector and then its encoder.   *)
OpenFd(t) ==
  /\ At(t, "open")
  /\ \/ Goto(t, "connect") /\ files' = files \cup {t}
     \/ Goto(t, "close") /\ UNCHANGED files
  /\ UNCHANGED <<kernel, world, conns, asked, calls>>

ConnectorCreate(t) ==
  /\ At(t, "connect")
  /\ \/ /\ conns' = conns \cup {t}
        /\ job' = [job EXCEPT ![t].at = "encoder", ![t].enc = lit # NoCrtc]
     \/ /\ Goto(t, "close") /\ UNCHANGED conns
  /\ UNCHANGED <<kernel, world, files, asked, calls>>

(* drmModeGetEncoder: what the encoder's CRTC is by now, which may be 0; a *)
(* connector without one, or a call that fails, gets the first CRTC.       *)
CrtcFound(enc, failed) == IF enc /\ ~failed THEN lit ELSE FirstCrtc

ReadEncoder(t) ==
  /\ At(t, "encoder")
  /\ \E failed \in BOOLEAN :
       job' = [job EXCEPT ![t].at = job[t].call, ![t].enc = FALSE,
                          ![t].crtc = CrtcFound(job[t].enc, failed)]
  /\ UNCHANGED <<kernel, world, files, conns, asked, calls>>

(* Mutant: on an error only the file is closed.                            *)
DestroysOnSuccess(t) == job[t].ret = 0

Destroys(t) == TRUE

(* The label out, or the end of the function.                              *)
Close(t) ==
  /\ At(t, "close")
  /\ conns' = IF Destroys(t) THEN conns \ {t} ELSE conns
  /\ files' = files \ {t}
  /\ Goto(t, "returned")
  /\ UNCHANGED <<kernel, world, asked, calls>>

(* enProp is too large, goto out: conn and drmFd have no value.  Destroy   *)
(* and close act on whatever is there.                                     *)
InvalidProp(t) ==
  /\ AllowInvalid
  /\ Begin(t, [Idle EXCEPT !.at = "returned"])
  /\ \E other \in files \cup {t} : files' = files \ {other}
  /\ UNCHANGED <<kernel, world, conns, asked>>

InvalidPropCrashes(t) ==
  /\ AllowInvalid
  /\ Begin(t, [Idle EXCEPT !.at = "crashed"])
  /\ UNCHANGED <<kernel, world, files, conns, asked>>

(* What a call changed is certain if it was not disturbed and all of its   *)
(* commands were done.                                                     *)
Return(t) ==
  LET w == job[t] IN
  /\ At(t, "returned")
  /\ asked' = [k \in Settings |->
       IF w.done \cap Whole(k) = {} THEN asked[k]
       ELSE IF w.clean /\ w.done = Whole(k) THEN w.v ELSE Unknown]
  /\ job' = [job EXCEPT ![t] = Idle]
  /\ UNCHANGED <<kernel, world, files, conns, calls>>

-----------------------------------------------------------------------------
SetProp(t, e, v) ==
  /\ Begin(t, [Idle EXCEPT !.at = "open", !.call = "set", !.e = e, !.v = v])
  /\ UNCHANGED <<kernel, world, files, conns, asked>>

SetMode(t, v) ==
  /\ Begin(t, [Idle EXCEPT !.at = "setmode", !.call = "setmode", !.e = "MODE", !.v = v])
  /\ UNCHANGED <<kernel, world, files, conns, asked>>

(* Mutant: the directory is tried until the compositor answers.            *)
NextDirSame(dir) == EnvDir

NextDir(dir) == Default

Outcomes == {"done", "lost", "refused", "none"}

(* One command in the loop of meson_drm_setprop and meson_drm_setMode: a   *)
(* compositor that listens there answers; without a good answer it is sent *)
(* once more, to the default directory, unless it went there.  The rest of *)
(* the call goes on with after[outcome].                                   *)
Command(t, target, value, after) ==
  LET heard == home = job[t].dir /\ target \in Kernel IN
  \E outcome \in IF heard THEN {"done", "lost", "refused"} ELSE {"none"} :
    LET did == outcome \in {"done", "lost"}
        work == IF did THEN [job[t] EXCEPT !.done = @ \cup {target}] ELSE job[t] IN
    /\ kernel' = IF did THEN [kernel EXCEPT ![target] = value] ELSE kernel
    /\ job' = [job EXCEPT ![t] =
                 IF outcome # "done" /\ work.dir # Default
                 THEN [work EXCEPT !.dir = NextDir(work.dir)]
                 ELSE [after[outcome] EXCEPT !.done = work.done, !.dir = EnvDir]]
    /\ UNCHANGED <<world, files, conns, asked, calls>>

(* meson_drm_set_prop: the results of the commands are ignored.            *)
SetFirst(t) ==
  LET e == job[t].e
      after == [o \in Outcomes |->
                  IF e = "HDCP_VERSION" THEN [job[t] EXCEPT !.at = "priority"]
                  ELSE [job[t] EXCEPT !.at = "close", !.ret = 0]] IN
  /\ At(t, "set")
  /\ Command(t, SetTarget(e, job[t].crtc), Send(e, job[t].v), after)

SetSecond(t) ==
  LET after == [o \in Outcomes |-> [job[t] EXCEPT !.at = "close", !.ret = 0]] IN
  /\ At(t, "priority")
  /\ Command(t, Priority, SendPriority(job[t].v), after)

ModeDone(o) == IF o = "done" THEN 0 ELSE Failed

(* The compositor changes the mode of the CRTC that HDMI is on.            *)
SendMode(t) ==
  LET after == [o \in Outcomes |-> [job[t] EXCEPT !.at = "returned", !.ret = ModeDone(o)]] IN
  /\ At(t, "setmode")
  /\ Command(t, Target("MODE", lit), job[t].v, after)

-----------------------------------------------------------------------------
GetProp(t, e) ==
  /\ Begin(t, [Idle EXCEPT !.at = "open", !.call = "get", !.e = e])
  /\ UNCHANGED <<kernel, world, files, conns, asked>>

(* mesonPropertyCreate reads the property, if there is such an object; for *)
(* a sink's capabilities and the HDCP version there is a second one.       *)
TwoReads == {"HDCP_VERSION", "RX_HDR_CAP"}

ReadFirst(t) ==
  LET e == job[t].e
      k == Target(e, job[t].crtc)
      read == IF e \in GetOnly
              THEN [job[t] EXCEPT !.set = CASE e = "RX_HDCP" -> HdcpVersions(HdcpNumber(sink))
                                            [] e = "RX_HDR_CAP" -> HdrBits(sink)
                                            [] OTHER -> {}]
              ELSE [job[t] EXCEPT !.out = IF e = "HDCP_VERSION" THEN kernel[k]
                                          ELSE Read(e, kernel[k], 0)] IN
  /\ At(t, "get")
  /\ \/ /\ t \in files /\ (e \in GetOnly \/ k \in Kernel)
        /\ job' = [job EXCEPT ![t] = IF e \in TwoReads THEN [read EXCEPT !.at = "second"]
                                     ELSE [read EXCEPT !.at = "close", !.ret = 0]]
     \/ Goto(t, "close")
  /\ UNCHANGED <<kernel, world, files, conns, asked, calls>>

(* A second property that cannot be read has the value 0.                  *)
ReadSecond(t) ==
  LET e == job[t].e
      read(missing) ==
        IF e = "HDCP_VERSION"
        THEN [job[t] EXCEPT !.out = Read(e, @, IF missing THEN 0 ELSE kernel[Priority])]
        ELSE [job[t] EXCEPT !.set = HDRSupportedList(@, IF missing THEN {} ELSE DvBits(sink))] IN
  /\ At(t, "second")
  /\ \E missing \in BOOLEAN :
       /\ t \in files \/ missing
       /\ job' = [job EXCEPT ![t] = [read(missing) EXCEPT !.at = "close", !.ret = 0,
                                                       !.clean = @ /\ ~missing]]
  /\ UNCHANGED <<kernel, world, files, conns, asked, calls>>

-----------------------------------------------------------------------------
(* The calls that only read.                                               *)
Query(t, q) ==
  /\ Begin(t, [Idle EXCEPT !.at = "open", !.call = q, !.e = IF q = "getMode" THEN "MODE" ELSE "none"])
  /\ UNCHANGED <<kernel, world, files, conns, asked>>

Answer(t, value, certain) ==
  /\ job' = [job EXCEPT ![t].at = "close", ![t].ret = 0, ![t].out = value,
                        ![t].clean = @ /\ certain]
  /\ UNCHANGED <<kernel, world, files, conns, asked, calls>>

(* The mode is read from the CRTC; if that fails it is all zeros, and the  *)
(* call succeeds.                                                          *)
GetMode(t) ==
  LET k == Target("MODE", job[t].crtc) IN
  /\ At(t, "getMode")
  /\ \/ k \in Kernel /\ Answer(t, kernel[k], TRUE)
     \/ Answer(t, 0, FALSE)

(* The others report what mesonConnectorCreate read.                       *)
Report(t) == At(t, "report") /\ Answer(t, 0, TRUE)

(* calloc is not tested: a list that is not empty is copied to NULL.       *)
ReportCopy(t) ==
  \/ Report(t)
  \/ /\ At(t, "report") /\ Goto(t, "crashed")
     /\ UNCHANGED <<kernel, world, files, conns, asked, calls>>

GetRxSupportedModes(t) == ReportCopy(t)
GetRxPreferredMode(t)  == Report(t)
GetEDID(t)             == ReportCopy(t)
GetConnection(t)       == Report(t)

-----------------------------------------------------------------------------
(* meson_drm_get_vblank_time: a file of the caller's.                      *)
GetVblankTime(t, pipe) ==
  /\ Begin(t, [Idle EXCEPT !.at = "pipe", !.call = "vblank", !.e = "MODE", !.pipe = pipe])
  /\ UNCHANGED <<kernel, world, files, conns, asked>>

FracRates == {24, 30, 60, 120, 240}

RefreshInterval(rate, frac) ==
  IF frac /\ rate \in FracRates
  THEN (((1000000 + rate \div 2) * 1001) \div rate) \div 1000
  ELSE (1000000 + rate \div 2) \div rate

(* get_mode_by_crtc_pipe: a pipe that is not there is taken for 0.         *)
PipeUsed(pipe) == IF pipe \in 0 .. NCrtcs - 1 THEN pipe ELSE 0

(* The mode of the pipe's CRTC, for whose rate RefreshInterval is then     *)
(* computed; without one, or if the CRTC cannot be read, the interval is 0.*)
ModeOfPipe(t) ==
  LET pipe == PipeUsed(job[t].pipe) IN
  /\ At(t, "pipe")
  /\ \E mode \in {kernel[Target("MODE", pipe + 1)], 0} :
       job' = [job EXCEPT ![t].at = "vblank", ![t].pipe = pipe, ![t].out = mode]
  /\ UNCHANGED <<kernel, world, files, conns, asked, calls>>

(* drmModeGetResources fails: its result is followed (line 663).           *)
ModeOfPipeCrashes(t) ==
  /\ At(t, "pipe")
  /\ Goto(t, "crashed")
  /\ UNCHANGED <<kernel, world, files, conns, asked, calls>>

(* Mutant: the flag of the second pipe is not set.                         *)
WaitsForFirst(pipe) == 0

(* The pipe that drmWaitVBlank waits for: only the second one has a flag.  *)
WaitsFor(pipe) == IF pipe = 1 THEN 1 ELSE 0

WaitVBlank(t) ==
  /\ At(t, "vblank")
  /\ \/ /\ job' = [job EXCEPT ![t].at = "returned", ![t].waited = WaitsFor(job[t].pipe),
                     ![t].ret = IF job[t].out = 0 THEN Failed ELSE 0]
     \/ Goto(t, "returned")
  /\ UNCHANGED <<kernel, world, files, conns, asked, calls>>

-----------------------------------------------------------------------------
Step(t) ==
  \/ OpenFd(t) \/ ConnectorCreate(t) \/ ReadEncoder(t) \/ Close(t) \/ Return(t)
  \/ SetFirst(t) \/ SetSecond(t) \/ SendMode(t)
  \/ ReadFirst(t) \/ ReadSecond(t)
  \/ GetMode(t) \/ GetRxSupportedModes(t) \/ GetRxPreferredMode(t) \/ GetEDID(t)
  \/ GetConnection(t)
  \/ ModeOfPipe(t) \/ ModeOfPipeCrashes(t) \/ WaitVBlank(t)

Others ==
  \/ \E s \in Sinks : Replug(s)
  \/ \E d \in Homes : CompositorMoves(d)
  \/ \E c \in Lights, m \in Values : CrtcChanges(c, m)
  \/ KernelAuthenticates

Calls(t) ==
  \/ \E e \in EnProps \ {"MODE"} :
       \/ GetProp(t, e)
       \/ \E v \in Values : SetProp(t, e, v)
  \/ \E v \in Values : SetMode(t, v)
  \/ \E q \in {"getMode", "report"} : Query(t, q)
  \/ \E pipe \in 0 .. NCrtcs : GetVblankTime(t, pipe)
  \/ InvalidProp(t) \/ InvalidPropCrashes(t)

(* A thread that crashes ends them all.                                    *)
Next ==
  /\ \A t \in Threads : ~At(t, "crashed")
  /\ Others \/ \E t \in Threads : Calls(t) \/ Step(t)

Spec == Init /\ [][Next]_vars

-----------------------------------------------------------------------------
(* Every variable has its type, and a thread outside of a call holds       *)
(* neither a file nor a connector, whichever call failed.                  *)
TypeOK ==
  /\ kernel \in [Kernel -> 0 .. 2]
  /\ sink \in Sinks
  /\ home \in Homes /\ lit \in Lights
  /\ files \cup conns \subseteq {t \in Threads : ~At(t, "idle") /\ ~At(t, "returned")}
  /\ asked \in [Settings -> Values \cup {Unknown}]
  /\ \A t \in Threads : job[t].ret \in {Failed, 0} /\ job[t].dir \in {EnvDir, Default}
  /\ calls \in 0 .. MaxCalls /\ changes \in 0 .. MaxChanges

(* What meson_drm_set_prop and setMode last set, of a property of the      *)
(* object that the call reads, is what meson_drm_get_prop and getMode give *)
(* back, if the compositor did it and no other set call came in between:   *)
(* through the inversion of HDMI_ENABLE, the two properties of the HDCP    *)
(* version, commands that were sent twice because the answer was lost, and *)
(* set calls that failed or reached another CRTC.  Calls that find HDMI on *)
(* different CRTCs, or one of them off, speak of different objects: what   *)
(* was set before is then not what a get finds.  The kernel may have       *)
(* turned content protection from desired to enabled.                      *)
Meaning(e, v) == IF e = "HDMI_ENABLE" /\ v # 0 THEN 1 ELSE v

SetReadsBack(t) ==
  job[t].call \in {"get", "getMode"} =>
    LET e == job[t].e  k == Target(e, job[t].crtc) IN
    \/ e \in GetOnly \/ asked[k] = Unknown
    \/ job[t].out = Meaning(e, asked[k])
    \/ e = "CONTENT_PROTECTION" /\ asked[k] = 1 /\ job[t].out = 2

(* The HDR modes and HDCP versions reported are those of the display, if   *)
(* it stays plugged in and both of its properties can be read: the masks   *)
(* of _getHDRSupportedList take the kernel's bits apart as they are put    *)
(* together.                                                               *)
SinkReported(t) ==
  job[t].call = "get" /\ job[t].sink = "same" =>
    /\ job[t].e = "RX_HDCP" => job[t].set = sink.hdcp
    /\ job[t].e = "RX_HDR_CAP" => job[t].set = sink.caps

(* What a call that reads answers, if no set call came in between.         *)
AnswersRight == \A t \in Threads :
  At(t, "returned") /\ job[t].ret = 0 /\ job[t].clean =>
    SetReadsBack(t) /\ SinkReported(t)

(* For the first two pipes, and for one that is not there, the vblank that *)
(* meson_drm_get_vblank_time waits for is on the CRTC whose mode gives the *)
(* interval it returns, unless a mode or HDMI's CRTC changes meanwhile; a  *)
(* third pipe has its own interval but waits on the first (line 711).  The *)
(* interval is within 0.6 microseconds of the time of a frame, for whole   *)
(* and for fractional rates.                                               *)
Exact(rate, frac) ==
  LET frame == 1000000 * (IF frac /\ rate \in FracRates THEN 1001 ELSE 1000)
      off   == RefreshInterval(rate, frac) * rate * 1000 - frame
  IN  10 * off \in -6000 * rate .. 6000 * rate

VblankExact == \A t \in Threads :
  At(t, "returned") /\ job[t].call = "vblank" /\ job[t].ret = 0 =>
    /\ job[t].pipe \in 0 .. 1 =>
         /\ job[t].waited = job[t].pipe
         /\ job[t].clean => job[t].out = kernel[Target("MODE", job[t].waited + 1)]
    /\ \A rate \in Rates, frac \in BOOLEAN : Exact(rate, frac)

(* How many steps of its own a call still makes at most.  A command that   *)
(* may still be sent to the default directory counts twice.                *)
Resend(dir) == IF dir # Default THEN 1 ELSE 0
Rank(at, dir) ==
  CASE at = "open" -> 9
    [] at = "connect" -> 8
    [] at = "encoder" -> 7
    [] at = "set" -> 5 + Resend(dir)
    [] at = "get" -> 4
    [] at = "priority" -> 3 + Resend(dir)
    [] at \in {"second", "getMode", "report", "pipe"} -> 3
    [] at = "setmode" -> 2 + Resend(dir)
    [] at \in {"close", "vblank"} -> 2
    [] at = "returned" -> 1
    [] OTHER -> 0

Left(t) == Rank(job[t].at, job[t].dir)

Progress(t) ==
  ~At(t, "idle") => \/ Left(t)' < Left(t)
                    \/ Left(t)' = Left(t) /\ ~Step(t)

(* Each of its steps brings a call nearer to its end, and nothing that the *)
(* other calls, the display or the compositor do takes it back: a command  *)
(* that is refused or whose answer is lost is sent once more and not       *)
(* again, though the compositor moves to the other directory meanwhile.    *)
CallsEnd == [][\A t \in Threads : Progress(t)]_vars
=============================================================================
