--------------------------- MODULE ConnectorCache ----------------------------
(***************************************************************************)
(* The copy of a connector's state that struct mesonConnector keeps, and   *)
(* the size of the primary plane's framebuffer (src/meson/                 *)
(* libdrm_meson_connector.c), while displays are plugged in and out.       *)
(*                                                                         *)
(* An EDID is a blob of the kernel with a number.  The new display's blob  *)
(* is made before the old one is released, so it has another number; the   *)
(* old number may then be given to any other blob, and the display after   *)
(* the next may have it again.  HDMI is turned on and off and moved to     *)
(* another CRTC by whoever sets modes, whatever is plugged in; which CRTC  *)
(* it is on is read from its encoder, after the connector.                 *)
(***************************************************************************)
EXTENDS Naturals, FiniteSets, Sequences

CONSTANTS
  Sinks,       (* what the connector may report, see SinksFit               *)
  Planes,      (* sequence of [primary, fb]: fb is a size, 0 without        *)
  Crtcs,       (* sequence of the CRTCs' ids                                *)
  MaxCalls, MaxReplugs   (* bounds                                          *)

(* modes stands for the list, with as many members as its number, mm for   *)
(* the physical size.                                                      *)
SinksFit ==
  /\ Crtcs \in Seq(Nat \ {0}) /\ Len(Crtcs) > 0
  /\ \A s \in Sinks : /\ s.modes \in Nat /\ s.edid \in Nat /\ s.connection \in 1 .. 3
                      /\ s.mm \in Nat
  /\ Planes \in Seq([primary : BOOLEAN, fb : Nat])
  /\ MaxCalls \in Nat /\ MaxReplugs \in Nat

VARIABLES
  sink, blob,  (* what the kernel reports, and the number of its EDID       *)
  lit,         (* the CRTC that HDMI is on                                  *)
  pc,          (* where the call is                                         *)
  seen,        (* conn: the connector as drmModeGetConnector gave it        *)
  cache,       (* the struct                                                *)
  heap,        (* allocated blocks                                          *)
  i, size,     (* mesonPrimaryPlaneCreate: the loop and its result          *)
  planes,      (* the planes that are allocated, with their properties      *)
  replugs,     (* history: changes of the display since seen was read       *)
  moved,       (* history: HDMI changed its CRTC since seen was read        *)
  dark,        (* history: HDMI was turned off during a call                *)
  made,        (* history: the display when the struct was created          *)
  failed,      (* history: a call of this cache's failed                    *)
  calls, changes

world == <<sink, blob, lit, changes>>
past  == <<replugs, moved, dark, made>>
plane == <<i, size, planes>>

Null   == 0
NoCrtc == 0
NoCache == [crtc |-> NoCrtc, count |-> 0, modes |-> Null, connection |-> 0, edid |-> Null,
            len |-> 0, mm |-> 0]

DeviceCrtcs == {Crtcs[n] : n \in DOMAIN Crtcs}

(* Numbers of blobs: the lowest that is free while the old one is in use.  *)
Blobs == {1, 2}
OtherBlob(b) == CHOOSE n \in Blobs : n # b

(* The data of a blob that is not this connector's.                        *)
OtherData == 9

Init ==
  /\ sink \in Sinks /\ blob = 1 /\ lit \in DeviceCrtcs \cup {NoCrtc}
  /\ pc = "idle" /\ seen = [sink |-> sink, blob |-> blob, lit |-> lit]
  /\ cache = NoCache /\ heap = {}
  /\ i = 0 /\ size = 0 /\ planes = {}
  /\ replugs = 0 /\ moved = FALSE /\ dark = FALSE /\ made = sink
  /\ failed = FALSE /\ calls = 0 /\ changes = 0

Replug(s) ==
  /\ s # sink /\ changes < MaxReplugs
  /\ sink' = s /\ blob' = OtherBlob(blob)
  /\ replugs' = replugs + 1 /\ changes' = changes + 1
  /\ UNCHANGED <<lit, pc, seen, cache, heap, plane, moved, dark, made, failed, calls>>

Relight(c) ==
  /\ c # lit /\ changes < MaxReplugs
  /\ lit' = c
  /\ moved' = TRUE /\ dark' = (dark \/ (c = NoCrtc /\ pc # "idle")) /\ changes' = changes + 1
  /\ UNCHANGED <<sink, blob, pc, seen, cache, heap, plane, replugs, made, failed, calls>>

Call(there) ==
  /\ pc = "idle" /\ calls < MaxCalls
  /\ calls' = calls + 1
  /\ pc' = there

Live == "connector" \in heap

-----------------------------------------------------------------------------
(* The connector as it is now, for both functions.                         *)
ReadConnector ==
  /\ seen' = [sink |-> sink, blob |-> blob, lit |-> lit]
  /\ replugs' = 0 /\ moved' = FALSE /\ failed' = FALSE

(* mesonConnectorCreate: the resources, the struct, and the connector of   *)
(* the type.  Each failure releases the struct.                            *)
Create ==
  /\ ~Live
  /\ \/ /\ Call("create")
        /\ heap' = heap \cup {"connector"} /\ cache' = [NoCache EXCEPT !.mm = sink.mm]
        /\ ReadConnector /\ dark' = FALSE /\ made' = sink
     \/ Call("idle") /\ UNCHANGED <<heap, cache, seen, past, failed>>
  /\ UNCHANGED <<world, plane>>

(* drmModeGetEncoder: the CRTC that the encoder of the connector is on by  *)
(* now, which may be none.  Without an encoder, or when the call fails,    *)
(* the struct gets the other CRTC.                                         *)
ReadEncoder(otherwise) ==
  \E found \in BOOLEAN :
    /\ found => seen.lit # NoCrtc
    /\ cache' = [cache EXCEPT !.crtc = IF found THEN lit ELSE otherwise]
    /\ failed' = (failed \/ (seen.lit # NoCrtc /\ ~found))
    /\ UNCHANGED <<world, seen, heap, plane, past, calls>>

(* Mutant: no CRTC without an encoder.                                     *)
FallbackNone == NoCrtc

FallbackCrtc == Crtcs[1]

CreateEncoder == pc = "create" /\ pc' = "fill" /\ ReadEncoder(FallbackCrtc)

(* Mutant: a state that is known is kept.                                  *)
CopiedOnce(old, k) ==
  [old EXCEPT !.modes = k.modes, !.connection = IF @ = 0 THEN k.connection ELSE @]

(* What both functions copy of a connector.                                *)
Copied(old, k) == [old EXCEPT !.modes = k.modes, !.connection = k.connection]

(* A list that cannot be copied ends the call: the struct is returned      *)
(* without a list, a state and an EDID.                                    *)
CreateFill ==
  LET k == seen.sink
      base == [cache EXCEPT !.count = k.modes] IN
  /\ pc = "fill"
  /\ \/ /\ pc' = "edid"
        /\ cache' = Copied(base, k)
        /\ heap' = heap \cup (IF k.modes > 0 THEN {"modes"} ELSE {})
        /\ UNCHANGED failed
     \/ /\ k.modes > 0 /\ pc' = "idle"
        /\ cache' = base /\ failed' = TRUE
        /\ UNCHANGED heap
  /\ UNCHANGED <<world, seen, plane, past, calls>>

(* A connector without EDID has the number 0, which no blob has.           *)
BlobId == IF seen.sink.edid = Null THEN Null ELSE seen.blob

(* What the blob of that number may be: the EDID of the display that has   *)
(* it now, or when it is not the display's any more, none or another blob. *)
BlobData ==
  IF BlobId = Null THEN {Null}
  ELSE IF BlobId = blob THEN {sink.edid} ELSE {Null, OtherData}

(* The EDID in both functions; the struct's is NULL when they come here.   *)
(* Without a blob nothing is set, the length neither.                      *)
CopyEdid ==
  /\ pc = "edid"
  /\ pc' = "idle"
  /\ \/ /\ \E data \in BlobData \ {Null} :
             cache' = [cache EXCEPT !.edid = data, !.len = data]
        /\ heap' = heap \cup {"edid"}
        /\ UNCHANGED failed
     \/ Null \in BlobData /\ UNCHANGED <<cache, heap, failed>>
     \/ failed' = TRUE /\ UNCHANGED <<cache, heap>>
  /\ UNCHANGED <<world, seen, plane, past, calls>>

(* calloc is not tested: memcpy to NULL (lines 208 and 277).               *)
CopyEdidCrashes ==
  /\ pc = "edid" /\ BlobData # {Null}
  /\ pc' = "crashed"
  /\ UNCHANGED <<world, seen, cache, heap, plane, past, failed, calls>>

-----------------------------------------------------------------------------
(* mesonConnectorUpdate: the connector may have gone.                      *)
Update ==
  /\ Live
  /\ \/ Call("update") /\ ReadConnector
     \/ Call("idle") /\ failed' = TRUE /\ UNCHANGED <<seen, replugs, moved>>
  /\ UNCHANGED <<world, cache, heap, plane, dark, made>>

(* Without an encoder the CRTC stays.                                      *)
UpdateEncoder == pc = "update" /\ pc' = "refill" /\ ReadEncoder(cache.crtc)

(* Mutant: the old list is kept when the new one is empty.                 *)
ReplacedNotEmpty == IF seen.sink.modes > 0 THEN {"modes", "edid"} ELSE {"edid"}

(* What it frees.                                                          *)
Replaced == {"modes", "edid"}

(* A list that cannot be copied leaves the count and no list.  The         *)
(* physical size stays what it was.                                        *)
UpdateFill ==
  LET k == seen.sink
      got == [Copied(cache, k) EXCEPT !.count = k.modes, !.edid = Null] IN
  /\ pc = "refill"
  /\ pc' = "edid"
  /\ \E copied \in BOOLEAN :
       /\ copied \/ k.modes > 0
       /\ cache' = [got EXCEPT !.modes = IF copied THEN @ ELSE Null]
       /\ heap' = (heap \ Replaced) \cup (IF copied /\ k.modes > 0 THEN {"modes"} ELSE {})
       /\ failed' = (failed \/ ~copied)
  /\ UNCHANGED <<world, seen, plane, past, calls>>

FreedByDestroy == {"connector", "modes", "edid"}

Destroy ==
  /\ Live /\ Call("idle")
  /\ heap' = heap \ FreedByDestroy
  /\ cache' = NoCache
  /\ UNCHANGED <<world, seen, plane, past, failed>>

-----------------------------------------------------------------------------
(* mesonPrimaryPlaneCreate: one round of the loop for a plane, which it    *)
(* reads with its properties.  It is freed at the end and not in the loop. *)
PlaneCreate ==
  /\ Call("plane") /\ i' = 1 /\ size' = 0
  /\ heap' = heap \cup {"primary"}
  /\ UNCHANGED <<world, seen, cache, planes, past, failed>>

IsPrimary(p) == p.primary

PlaneRound ==
  /\ pc = "plane" /\ i <= Len(Planes)
  /\ planes' = planes \cup {i}
  /\ size' = IF IsPrimary(Planes[i]) /\ Planes[i].fb # 0 THEN Planes[i].fb ELSE size
  /\ i' = i + 1
  /\ UNCHANGED <<world, pc, seen, cache, heap, past, failed, calls>>

(* The last plane is freed after the loop.                                 *)
PlaneEnd ==
  /\ pc = "plane" /\ i > Len(Planes)
  /\ planes' = planes \ {Len(Planes)}
  /\ pc' = "size"
  /\ UNCHANGED <<world, seen, cache, heap, i, size, past, failed, calls>>

(* An ioctl fails in the round of a plane: what that plane has is freed.   *)
PlaneFails ==
  /\ pc = "plane" /\ i <= Len(Planes)
  /\ heap' = heap \ {"primary"}
  /\ pc' = "idle"
  /\ UNCHANGED <<world, seen, cache, plane, past, failed, calls>>

PlaneDestroy ==
  /\ pc = "size"
  /\ heap' = heap \ {"primary"}
  /\ pc' = "idle"
  /\ UNCHANGED <<world, seen, cache, plane, past, failed, calls>>

World ==
  \/ \E s \in Sinks : Replug(s)
  \/ \E c \in DeviceCrtcs \cup {NoCrtc} : Relight(c)

Step ==
  \/ Create \/ CreateEncoder \/ CreateFill \/ CopyEdid \/ CopyEdidCrashes
  \/ Update \/ UpdateEncoder \/ UpdateFill \/ Destroy
  \/ PlaneCreate \/ PlaneRound \/ PlaneEnd \/ PlaneFails \/ PlaneDestroy

-----------------------------------------------------------------------------
(* Every variable has its type; the CRTC in the struct is one that the     *)
(* device has, with an encoder or without (lines 182-185, 249), and none   *)
(* only if HDMI was turned off while a call read it; of the planes that    *)
(* were read the last one is freed (line 118), the others not.             *)
TypeOK ==
  /\ sink \in Sinks /\ blob \in Blobs /\ lit \in DeviceCrtcs \cup {NoCrtc}
  /\ pc \in {"idle", "create", "fill", "update", "refill", "edid", "crashed", "plane", "size"}
  /\ heap \subseteq {"connector", "modes", "edid", "primary"}
  /\ planes \subseteq DOMAIN Planes
  /\ pc # "plane" => Len(Planes) \notin planes
  /\ Live /\ pc # "create" =>
       cache.crtc \in DeviceCrtcs \/ (cache.crtc = NoCrtc /\ dark)
  /\ i \in 0 .. Len(Planes) + 1 /\ replugs \in Nat
  /\ moved \in BOOLEAN /\ dark \in BOOLEAN /\ made \in Sinks /\ failed \in BOOLEAN
  /\ calls \in 0 .. MaxCalls /\ changes \in 0 .. MaxReplugs

(* The struct's pointers are exactly the blocks that it owns, after any    *)
(* sequence of create, update and destroy with failures in them: nothing   *)
(* is lost and nothing that is freed stays in it.                          *)
HeapIsCache == pc = "idle" =>
  heap \cap {"modes", "edid"} =
    (IF cache.modes # Null THEN {"modes"} ELSE {}) \cup
    (IF cache.edid # Null THEN {"edid"} ELSE {})

(* After a call in which nothing failed the struct has the modes and the   *)
(* state that the connector had when the call read it, and its CRTC if     *)
(* that did not change while the encoder was read.  An update brings       *)
(* nothing else: the physical size stays that of the display that was      *)
(* there when the struct was created (lines 178, 179), the length of an    *)
(* EDID that is no longer there stays behind (line 264), and so does the   *)
(* CRTC of an encoder that is gone.                                        *)
CacheIsSink == pc = "idle" /\ Live /\ ~failed =>
  /\ cache.count = seen.sink.modes /\ cache.modes = seen.sink.modes
  /\ cache.connection = seen.sink.connection
  /\ seen.lit # NoCrtc /\ ~moved => cache.crtc = seen.lit
  /\ cache.mm = made.mm
  /\ cache.edid # Null => cache.len = cache.edid

(* The EDID is of the display whose modes are in the struct, if the        *)
(* display stayed while the call went on.  After one change the number is  *)
(* no display's, and what is found there may be any other blob's data,     *)
(* which nothing tests; after two it may be another display's.             *)
EdidOfSameSink == pc = "idle" /\ Live =>
  /\ replugs = 0 => cache.edid \in {Null, seen.sink.edid}
  /\ replugs = 1 => cache.edid \in {Null, seen.sink.edid, OtherData}

(* The framebuffer's size is that of a primary plane.                      *)
SizeOfPrimary ==
  size = 0 \/ \E n \in DOMAIN Planes : Planes[n].primary /\ Planes[n].fb = size
=============================================================================
