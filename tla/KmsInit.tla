------------------------------- MODULE KmsInit -------------------------------
(***************************************************************************)
(* A display from drm_kms_init to kms_destroy_display (src/meson/          *)
(* meson_drm_kms.c): the files and the memory it acquires, what it gives   *)
(* back when a call fails in between, and the tables of states that the    *)
(* posting calls index without a test.                                     *)
(*                                                                         *)
(* The heap is a set of blocks.  One round of a populate loop is a step;   *)
(* the connectors, encoders and properties it reads are released within    *)
(* the round.  "crashed" is a null pointer that is followed or a block     *)
(* that is freed twice; "overrun" is a write past the end of an array,     *)
(* after which what the program does is not defined.                       *)
(***************************************************************************)
EXTENDS Naturals, FiniteSets, Sequences, SequencesExt

CONSTANTS
  Devices,      (* what the kernel may have, see DeviceAssumption           *)
  MaxConnector, MaxCrtc, MaxPlane   (* sizes of the arrays, lines 20-23     *)

(* A plane is given by the first of its formats, which is all that the     *)
(* code looks at.  A device may have more objects than there are entries.  *)
ASSUME DeviceAssumption ==
  /\ {MaxConnector, MaxCrtc, MaxPlane} \subseteq Nat
  /\ \A d \in Devices :
       /\ d.conns \in Seq({"tv", "hdmi", "panel"})
       /\ d.crtcs \in Nat
       /\ d.planes \in Seq({"rgb", "nv12"})

VARIABLES
  device,     (* the kernel's objects                                       *)
  pc,         (* where the call is, or how it ended                         *)
  i,          (* the loop variable                                          *)
  fds,        (* open files                                                 *)
  heap,       (* allocated blocks                                           *)
  states,     (* the arrays of struct kms_display                           *)
  props,      (* the variable of populate_planes: never set, NULL, or freed *)
  faults      (* history: the calls that failed                             *)

vars == <<device, pc, i, fds, heap, states, props, faults>>

Arrays == {"conn", "crtc", "osd", "vid"}
Size   == [conn |-> MaxConnector, crtc |-> MaxCrtc, osd |-> MaxPlane, vid |-> MaxPlane]
Files  == {"card0", "renderD128"}

Block(kind) == <<kind, 0>>
StateKinds == {"connState", "crtcState", "planeState"}
IsState(block) == block[1] \in StateKinds

Goto(there) == pc' = there /\ i' = 1
Fault(call) == faults' = faults \cup {call}
Crash(call) ==
  /\ pc' = "crashed" /\ Fault(call)
  /\ UNCHANGED <<device, i, fds, heap, states, props>>

(* calloc of the display: no file is open yet.                             *)
Init ==
  /\ device \in Devices
  /\ pc = "card" /\ i = 1
  /\ fds = {} /\ heap = {Block("display")}
  /\ states = [a \in Arrays |-> <<>>]
  /\ props = "unset"
  /\ faults = {}

-----------------------------------------------------------------------------
(* drm_kms_init_resource up to the resources: each call may fail, and goes *)
(* to the label that the code names.                                       *)
Acquire(here, there, newFds, newBlocks) ==
  /\ pc = here
  /\ Goto(there)
  /\ fds' = fds \cup newFds
  /\ heap' = heap \cup newBlocks
  /\ UNCHANGED <<device, states, props, faults>>

GiveUp(here, label) ==
  /\ pc = here
  /\ Goto(label)
  /\ Fault(here)
  /\ UNCHANGED <<device, fds, heap, states, props>>

OpenCard     == Acquire("card", "render", {"card0"}, {}) \/ GiveUp("card", "fail")
OpenRender   == Acquire("render", "dev", {"renderD128"}, {}) \/ GiveUp("render", "error3")
CreateDev    == Acquire("dev", "caps", {}, {Block("dev")}) \/ GiveUp("dev", "error3")
SetCaps      == Acquire("caps", "resources", {}, {}) \/ GiveUp("caps", "error2")
ModeGetResources ==
  \/ Acquire("resources", "connectors", {}, {Block("resources")})
  \/ GiveUp("resources", "error2")

-----------------------------------------------------------------------------
(* Mutant: the type of the connector is not looked at.                     *)
SkippedNone(conn) == FALSE

Skipped(conn) == conn = "tv"

(* is_plane_support_yuv.                                                   *)
ArrayFor(format) == IF format = "nv12" THEN "vid" ELSE "osd"

(* The array that a round of a populate loop comes to write into, and      *)
(* whether it has an entry left.                                           *)
Writes(a) ==
  \/ /\ a = "conn" /\ pc = "connectors" /\ i <= Len(device.conns)
     /\ ~Skipped(device.conns[i])
  \/ a = "crtc" /\ pc = "crtcs" /\ i <= device.crtcs
  \/ pc = "planes" /\ i <= Len(device.planes) /\ a = ArrayFor(device.planes[i])
Room(a) == Len(states[a]) < Size[a]

(* None of the loops looks at the size of the array.                       *)
Overrun ==
  /\ \E a \in Arrays : Writes(a) /\ ~Room(a)
  /\ pc' = "overrun"
  /\ UNCHANGED <<device, i, fds, heap, states, props, faults>>

(* A round of populate_connectors.                                         *)
PopulateConnector ==
  /\ Writes("conn") /\ Room("conn")
  /\ heap' = heap \cup {<<"connState", i>>}
  /\ states' = [states EXCEPT !["conn"] = Append(@, i)]
  /\ i' = i + 1
  /\ UNCHANGED <<device, pc, fds, props, faults>>

(* A connector that cannot be read, or that is a TV, is passed over.       *)
PassConnector ==
  /\ pc = "connectors" /\ i <= Len(device.conns)
  /\ \/ Skipped(device.conns[i]) /\ UNCHANGED faults
     \/ Fault("connector")
  /\ i' = i + 1
  /\ UNCHANGED <<device, pc, fds, heap, states, props>>

(* calloc is not checked (line 622), nor that there are properties (line   *)
(* 645, getproperty line 591).                                             *)
PopulateConnectorCrashes ==
  /\ Writes("conn") /\ Room("conn")
  /\ \E call \in {"connState", "connProps"} : Crash(call)

PopulateConnectorsEnd ==
  /\ pc = "connectors" /\ i > Len(device.conns)
  /\ Goto("crtcs")
  /\ UNCHANGED <<device, fds, heap, states, props, faults>>

(* A round of populate_crtcs; without properties the state stays.          *)
PopulateCrtc ==
  /\ Writes("crtc") /\ Room("crtc")
  /\ heap' = heap \cup {<<"crtcState", i>>}
  /\ states' = [states EXCEPT !["crtc"] = Append(@, i)]
  /\ \/ pc' = pc /\ i' = i + 1 /\ UNCHANGED faults
     \/ Goto("error1") /\ Fault("crtcProps")
  /\ UNCHANGED <<device, fds, props>>

PopulateCrtcFails ==
  /\ i <= device.crtcs
  /\ GiveUp("crtcs", "error1")

PopulateCrtcsEnd ==
  /\ pc = "crtcs" /\ i > device.crtcs
  /\ Goto("planeRes")
  /\ UNCHANGED <<device, fds, heap, states, props, faults>>

-----------------------------------------------------------------------------
GetPlaneResources ==
  \/ Acquire("planeRes", "planes", {}, {Block("planeRes")})
  \/ GiveUp("planeRes", "error1")

(* A round of populate_planes.  props is NULL after a round that found no  *)
(* properties, and points to what it freed after one that did.             *)
PopulatePlane ==
  /\ pc = "planes" /\ i <= Len(device.planes)
  /\ LET a == ArrayFor(device.planes[i])
     IN  Room(a) /\ states' = [states EXCEPT ![a] = Append(@, i)]
  /\ heap' = heap \cup {<<"planeState", i>>}
  /\ i' = i + 1
  /\ \/ props' = "freed" /\ UNCHANGED faults
     \/ props' = "null" /\ Fault("planeProps")
  /\ UNCHANGED <<device, pc, fds>>

(* The plane cannot be read: the state is in no array, and line 765 frees  *)
(* props if it is not NULL.                                                *)
PopulatePlaneUnread ==
  /\ pc = "planes" /\ i <= Len(device.planes)
  /\ props \in {"unset", "null"}
  /\ heap' = heap \cup {<<"planeState", i>>}
  /\ i' = i + 1
  /\ Fault("plane")
  /\ UNCHANGED <<device, pc, fds, states, props>>

PopulatePlaneCrashes ==
  /\ pc = "planes" /\ i <= Len(device.planes)
  /\ props \in {"unset", "freed"}
  /\ Crash("plane")

PopulatePlaneFails ==
  /\ pc = "planes" /\ i <= Len(device.planes)
  /\ Goto("error1") /\ Fault("planeState")
  /\ heap' = heap \ {Block("planeRes")}
  /\ UNCHANGED <<device, fds, states, props>>

PopulatePlanesEnd ==
  /\ pc = "planes" /\ i > Len(device.planes)
  /\ Goto("ready")
  /\ heap' = heap \ {Block("planeRes"), Block("resources")}
  /\ UNCHANGED <<device, fds, states, props, faults>>

-----------------------------------------------------------------------------
(* The labels: error1 falls into error2, that into error3.                 *)
Unwind(here, there, oldFds, oldBlocks) ==
  /\ pc = here
  /\ Goto(there)
  /\ fds' = fds \ oldFds
  /\ heap' = heap \ oldBlocks
  /\ UNCHANGED <<device, states, props, faults>>

FreeResources == Unwind("error1", "error2", {}, {Block("resources")})
DestroyDev    == Unwind("error2", "error3", {}, {Block("dev")})

(* Mutant: the two files are closed at a label that is not always passed.  *)
CloseRenderOnly == Unwind("error3", "fail", {"renderD128"}, {})

CloseFiles    == Unwind("error3", "fail", Files, {})

(* drm_kms_init frees the display, not the states in its arrays.           *)
FreeDisplay   == Unwind("fail", "failed", {}, {Block("display")})

(* Mutant: the second entry for an OSD buffer.                             *)
PlaneForOff == {<<"osd", 2>>, <<"vid", 1>>, <<"vid", 2>>}

(* kms_post_buf and kms_set_plane take the first connector, the first CRTC *)
(* and the plane that the flags of the buffer name.                        *)
PlaneFor == {<<"osd", 1>>, <<"vid", 1>>, <<"vid", 2>>}
Usable(p) == states["conn"] # <<>> /\ states["crtc"] # <<>> /\ Len(states[p[1]]) >= p[2]

Post(p) ==
  /\ pc = "ready"
  /\ pc' = IF Usable(p) THEN pc ELSE "crashed"
  /\ UNCHANGED <<device, i, fds, heap, states, props, faults>>

Referred ==
  {<<"connState", n>> : n \in ToSet(states["conn"])}
  \cup {<<"crtcState", n>> : n \in ToSet(states["crtc"])}
  \cup {<<"planeState", n>> : n \in ToSet(states["osd"]) \cup ToSet(states["vid"])}

(* kms_destroy_display.                                                    *)
Destroy ==
  /\ pc = "ready"
  /\ Goto("destroyed")
  /\ fds' = {}
  /\ heap' = heap \ (Referred \cup {Block("dev"), Block("display")})
  /\ UNCHANGED <<device, states, props, faults>>

-----------------------------------------------------------------------------
Step ==
  \/ OpenCard \/ OpenRender \/ CreateDev \/ SetCaps \/ ModeGetResources
  \/ PopulateConnector \/ PassConnector \/ PopulateConnectorCrashes \/ PopulateConnectorsEnd
  \/ PopulateCrtc \/ PopulateCrtcFails \/ PopulateCrtcsEnd
  \/ GetPlaneResources \/ PopulatePlane \/ PopulatePlaneUnread \/ PopulatePlaneCrashes
  \/ PopulatePlaneFails \/ PopulatePlanesEnd \/ Overrun
  \/ FreeResources \/ DestroyDev \/ CloseFiles \/ FreeDisplay

Next == Step \/ Destroy \/ \E p \in PlaneFor : Post(p)

Spec == Init /\ [][Next]_vars

-----------------------------------------------------------------------------
(* The device's objects that belong into each array.                       *)
Found == [conn |-> {n \in DOMAIN device.conns : device.conns[n] # "tv"},
          crtc |-> 1 .. device.crtcs,
          osd  |-> {n \in DOMAIN device.planes : device.planes[n] # "nv12"},
          vid  |-> {n \in DOMAIN device.planes : device.planes[n] = "nv12"}]

(* The arrays hold states of objects that belong into them, and no more    *)
(* than they have entries.                                                 *)
Tabled ==
  \A a \in Arrays : ToSet(states[a]) \subseteq Found[a] /\ Len(states[a]) <= Size[a]

(* Every variable has its type.                                            *)
Blocks == {Block(k) : k \in {"display", "dev", "resources", "planeRes"}}
          \cup {<<"connState", n>> : n \in DOMAIN device.conns}
          \cup {<<"crtcState", n>> : n \in 1 .. device.crtcs}
          \cup {<<"planeState", n>> : n \in DOMAIN device.planes}
TypeOK ==
  /\ device \in Devices
  /\ pc \in {"card", "render", "dev", "caps", "resources", "connectors", "crtcs",
             "planeRes", "planes", "error1", "error2", "error3", "fail",
             "ready", "failed", "destroyed", "crashed", "overrun"}
  /\ i \in Nat \ {0}
  /\ fds \subseteq Files
  /\ heap \subseteq Blocks
  /\ Tabled
  /\ props \in {"unset", "null", "freed"}

(* A display that could not be initialised, at whichever call, leaves no   *)
(* file open and no memory but states of connectors, CRTCs and planes      *)
(* (drm_kms_init frees the display and not what its arrays point to).      *)
FailedInitReleases ==
  pc = "failed" => fds = {} /\ \A block \in heap : IsState(block)

(* After drm_destroy_display nothing is left but the states of planes that *)
(* could not be read (line 762 leaves them in no array).                   *)
DestroyReleases ==
  pc = "destroyed" =>
    /\ fds = {}
    /\ heap # {} => "plane" \in faults
    /\ \A block \in heap : block[1] = "planeState"

(* However a display ends, what it acquired is given back, but for that.   *)
AllReleased == FailedInitReleases /\ DestroyReleases

(* A null pointer is followed only after a call failed that the code does  *)
(* not check, or on a device that lacks a connector, a CRTC or one of the  *)
(* planes that are posted to.                                              *)
Unchecked == {"connState", "connProps", "plane", "connector"}
NullNeedsFault ==
  pc = "crashed" =>
    \/ faults \cap Unchecked # {}
    \/ Found["conn"] = {} \/ Found["crtc"] = {} \/ Found["osd"] = {}
    \/ Cardinality(Found["vid"]) < 2

(* An array is written past its end only on a device that has more objects *)
(* of that sort, TV connectors not counted, than the array has entries.    *)
OverrunNeedsMore ==
  pc = "overrun" => \E a \in Arrays : Cardinality(Found[a]) > Size[a]

(* If every call succeeds, initialising and posting are safe on a device   *)
(* that has the objects posted to and no more than there are entries.      *)
CrashNeedsFault == NullNeedsFault /\ OverrunNeedsMore
=============================================================================
