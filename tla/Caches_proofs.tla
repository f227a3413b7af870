---------------------------- MODULE Caches_proofs ----------------------------
(***************************************************************************)
(* Proofs about Caches, for every device, every property, and any number   *)
(* of calls and changes.                                                   *)
(*                                                                         *)
(* The argument for HeapExact: the parts of a call may leave the heap and  *)
(* the struct apart, but only in what the rest of the call makes good      *)
(* (CacheHeap, PropHeap).  For CacheIsSink: a blob's number is another one *)
(* after one change of the display, so what is found by the number that    *)
(* was read is the display's own EDID until it changes, and then no        *)
(* display's until it changes again (SeenBlob); and HDMI's CRTC is the one *)
(* that the connector was read with until it is moved (SeenCrtc).          *)
(***************************************************************************)
EXTENDS Caches, Sequences, FiniteSets, TLAPS

Structs ==
  [crtc : Nat, count : Nat, modes : Nat, connection : Nat, edid : Nat, len : Nat, mm : Nat]

CacheTypes ==
  /\ sink \in Sinks /\ blob \in C!Blobs /\ lit \in C!DeviceCrtcs \cup {C!NoCrtc}
  /\ pc \in {"idle", "create", "fill", "update", "refill", "edid", "crashed", "plane", "size"}
  /\ seen \in [sink : Sinks, blob : C!Blobs, lit : C!DeviceCrtcs \cup {C!NoCrtc}]
  /\ cache \in Structs
  /\ heap \subseteq {"connector", "modes", "edid", "primary"}
  /\ planes \subseteq DOMAIN Planes
  /\ i \in 0 .. Len(Planes) + 1 /\ size \in Nat
  /\ replugs \in Nat /\ failed \in BOOLEAN
  /\ moved \in BOOLEAN /\ dark \in BOOLEAN /\ made \in Sinks

(* The last plane is allocated only after the loop has come past it.       *)
PlanesRead ==
  /\ pc = "plane" => i > 0
  /\ pc # "plane" \/ i <= Len(Planes) => Len(Planes) \notin planes

(* The calls that fill the struct have one.                                *)
Struct ==
  /\ pc \in {"create", "fill", "update", "refill", "edid"} => C!Live
  /\ ~C!Live => cache = C!NoCache
  /\ C!Live => cache.mm = made.mm
  /\ C!Live /\ pc # "create" =>
       cache.crtc \in C!DeviceCrtcs \/ (cache.crtc = C!NoCrtc /\ dark)

(* The struct's pointers and the heap; the EDID is set last.               *)
CacheHeap ==
  /\ "modes" \in heap <=> cache.modes # C!Null
  /\ "edid" \in heap <=> cache.edid # C!Null
  /\ pc \in {"create", "fill", "edid"} => cache.edid = C!Null
  /\ pc \in {"create", "fill"} => cache.modes = C!Null

(* What the struct has of the display, but while an update begins.         *)
CacheFresh ==
  C!Live /\ ~failed /\ pc \notin {"create", "fill", "update", "refill"} =>
    /\ cache.count = seen.sink.modes /\ cache.modes = seen.sink.modes
    /\ cache.connection = seen.sink.connection
    /\ cache.edid # C!Null => cache.len = cache.edid

(* HDMI's CRTC while it is not moved, and in the struct once it is read;   *)
(* if it is none though the connector had one, it was turned off.          *)
SeenCrtc ==
  /\ ~moved => lit = seen.lit
  /\ pc \in {"create", "update"} /\ lit = C!NoCrtc /\ seen.lit # C!NoCrtc => dark
  /\ C!Live /\ ~failed /\ pc \notin {"create", "update"} /\ seen.lit # C!NoCrtc /\ ~moved =>
       cache.crtc = seen.lit

(* The number of the blob that was read, after one change and none.        *)
SeenBlob ==
  /\ replugs = 0 => sink = seen.sink /\ blob = seen.blob
  /\ replugs = 1 => blob # seen.blob

EdidSeen ==
  C!Live /\ pc \notin {"update", "refill"} =>
    /\ replugs = 0 => cache.edid \in {C!Null, seen.sink.edid}
    /\ replugs = 1 => cache.edid \in {C!Null, seen.sink.edid, C!OtherData}

PropTypes ==
  /\ kernel \in Kernels /\ snap \in Kernels
  /\ ppc \in {"idle", "create", "update", "crashed"}
  /\ pheap \subseteq {"property", "prop_ptr"} \cup P!Arrays
  /\ prop \in [there : BOOLEAN, kind : P!Kinds, type : SUBSET (P!Kinds \cup {"immutable"}),
               arrays : SUBSET P!Arrays, value : Nat]
  /\ prop.there <=> P!Live /\ ppc # "create"
  /\ round \in 0 .. Others /\ fresh \in BOOLEAN /\ pfailed \in BOOLEAN

(* The struct's arrays and the heap, in all of a call.                     *)
PropHeap ==
  /\ ~prop.there => prop = P!None
  /\ ppc = "update" => prop.there
  /\ pheap = prop.arrays \cup
       (IF prop.there \/ ppc = "create" THEN {"property", "prop_ptr"} ELSE {})

(* What a copy has that was made without a failure.                        *)
PropFresh ==
  prop.there /\ ~pfailed =>
    /\ prop.kind \in {"range", "signed range"} => "values" \in prop.arrays
    /\ fresh => prop.value = snap.value /\ prop.arrays = snap.arrays

Counters == calls \in 0 .. MaxCalls /\ changes \in 0 .. MaxChanges

CacheInv ==
  /\ CacheTypes /\ PlanesRead /\ Struct /\ CacheHeap /\ CacheFresh
  /\ SeenCrtc /\ SeenBlob /\ EdidSeen /\ C!SizeOfPrimary

PropInv == PropTypes /\ PropHeap /\ PropFresh /\ P!CrashNeedsFault

IInv == CacheInv /\ PropInv /\ Counters

-----------------------------------------------------------------------------
USE DEF C!world, C!past, C!plane, C!Null, C!NoCrtc

LEMMA FactsOfConnector ==
  /\ Len(Crtcs) \in Nat \ {0} /\ 1 \in DOMAIN Crtcs
  /\ C!DeviceCrtcs \subseteq Nat \ {0} /\ Crtcs[1] \in C!DeviceCrtcs
  /\ Len(Planes) \in Nat /\ DOMAIN Planes = 1 .. Len(Planes)
  /\ \A n \in DOMAIN Planes : Planes[n].primary \in BOOLEAN /\ Planes[n].fb \in Nat
  /\ \A s \in Sinks : /\ s.modes \in Nat /\ s.edid \in Nat /\ s.connection \in Nat
                      /\ s.mm \in Nat
  /\ MaxCalls \in Nat /\ MaxChanges \in Nat
<1>1. C!SinksFit
  BY CacheAssumption
<1>2. Crtcs \in Seq(Nat \ {0}) /\ Len(Crtcs) > 0 /\ MaxCalls \in Nat /\ MaxChanges \in Nat
  BY <1>1 DEF C!SinksFit
<1>3. Planes \in Seq([primary : BOOLEAN, fb : Nat])
  BY <1>1 DEF C!SinksFit
<1>4. /\ Len(Crtcs) \in Nat \ {0} /\ 1 \in DOMAIN Crtcs
      /\ C!DeviceCrtcs \subseteq Nat \ {0} /\ Crtcs[1] \in C!DeviceCrtcs
  BY <1>2 DEF C!DeviceCrtcs
<1>5. /\ Len(Planes) \in Nat /\ DOMAIN Planes = 1 .. Len(Planes)
      /\ \A n \in DOMAIN Planes : Planes[n].primary \in BOOLEAN /\ Planes[n].fb \in Nat
  <2>1. PICK Read : Read = [primary : BOOLEAN, fb : Nat]
    OBVIOUS
  <2>2. Planes \in Seq(Read)
    BY <1>3, <2>1
  <2>3. /\ Len(Planes) \in Nat /\ DOMAIN Planes = 1 .. Len(Planes)
        /\ \A n \in DOMAIN Planes : Planes[n] \in Read
    BY <2>2
  <2>. QED
    BY <2>1, <2>3
<1>6. \A s \in Sinks : /\ s.modes \in Nat /\ s.edid \in Nat /\ s.connection \in 1 .. 3
                       /\ s.mm \in Nat
  BY <1>1 DEF C!SinksFit
<1>. QED
  BY <1>2, <1>4, <1>5, <1>6

(* A display has another blob than the one before it.                      *)
LEMMA OtherBlobs ==
  ASSUME NEW b \in C!Blobs
  PROVE  C!OtherBlob(b) \in C!Blobs /\ C!OtherBlob(b) # b
BY DEF C!Blobs, C!OtherBlob

(* Calls are counted and begin between calls.                              *)
LEMMA CallCounts ==
  ASSUME NEW there, C!Call(there), Counters, changes' = changes
  PROVE  Counters' /\ pc = "idle" /\ pc' = there
BY FactsOfConnector DEF C!Call, Counters

-----------------------------------------------------------------------------
(* The connector.                                                          *)
LEMMA ReplugKeeps ==
  ASSUME CacheInv, Counters, NEW s \in Sinks, C!Replug(s) PROVE CacheInv' /\ Counters'
<1>1. /\ sink' = s /\ blob' = C!OtherBlob(blob) /\ replugs' = replugs + 1
      /\ changes < MaxChanges /\ changes' = changes + 1
      /\ UNCHANGED <<lit, pc, seen, cache, heap, i, size, planes, moved, dark, made, failed, calls>>
  BY DEF C!Replug
<1>2. replugs \in Nat /\ blob \in C!Blobs
  BY DEF CacheInv, CacheTypes
<1>3. blob' \in C!Blobs /\ blob' # blob
  BY <1>1, <1>2, OtherBlobs
<1>4. CacheTypes' /\ PlanesRead' /\ Struct' /\ CacheHeap' /\ CacheFresh' /\ SeenCrtc'
  BY <1>1, <1>2, <1>3
     DEF CacheInv, CacheTypes, PlanesRead, Struct, C!Live, CacheHeap, CacheFresh, SeenCrtc
<1>5. SeenBlob'
  BY <1>1, <1>2, <1>3 DEF CacheInv, SeenBlob
<1>6. EdidSeen' /\ C!SizeOfPrimary'
  BY <1>1, <1>2 DEF CacheInv, EdidSeen, C!Live, C!SizeOfPrimary
<1>7. Counters'
  BY <1>1, FactsOfConnector DEF Counters
<1>. QED
  BY <1>4, <1>5, <1>6, <1>7 DEF CacheInv

LEMMA RelightKeeps ==
  ASSUME CacheInv, Counters, NEW c \in C!DeviceCrtcs \cup {C!NoCrtc}, C!Relight(c)
  PROVE  CacheInv' /\ Counters'
<1>1. /\ lit' = c /\ moved' = TRUE /\ dark' = (dark \/ (c = 0 /\ pc # "idle"))
      /\ changes < MaxChanges /\ changes' = changes + 1
      /\ UNCHANGED <<sink, blob, pc, seen, cache, heap, i, size, planes, replugs, made, failed, calls>>
  BY DEF C!Relight
<1>2. dark' \in BOOLEAN /\ (dark => dark') /\ (c = 0 /\ pc # "idle" => dark')
  BY <1>1 DEF CacheInv, CacheTypes
<1>3. CacheTypes' /\ PlanesRead' /\ Struct' /\ CacheHeap' /\ CacheFresh'
  BY <1>1, <1>2
     DEF CacheInv, CacheTypes, PlanesRead, Struct, C!Live, CacheHeap, CacheFresh
<1>4. SeenCrtc'
  BY <1>1, <1>2 DEF CacheInv, SeenCrtc
<1>5. SeenBlob' /\ EdidSeen' /\ C!SizeOfPrimary'
  BY <1>1 DEF CacheInv, SeenBlob, EdidSeen, C!Live, C!SizeOfPrimary
<1>6. Counters'
  BY <1>1, FactsOfConnector DEF Counters
<1>. QED
  BY <1>3, <1>4, <1>5, <1>6 DEF CacheInv

LEMMA CreateKeeps ==
  ASSUME CacheInv, Counters, C!Create PROVE CacheInv' /\ Counters'
<1>1. ~C!Live /\ UNCHANGED <<sink, blob, lit, changes, i, size, planes>> /\ pc = "idle"
  BY DEF C!Create, C!Call
<1>2. Counters'
  BY <1>1, CallCounts DEF C!Create
<1>3. CASE /\ pc' = "create" /\ heap' = heap \cup {"connector"}
           /\ cache' = [C!NoCache EXCEPT !.mm = sink.mm]
           /\ C!ReadConnector /\ dark' = FALSE /\ made' = sink
  <2>1. /\ cache' \in Structs /\ cache'.mm = sink.mm /\ cache'.edid = 0 /\ cache'.modes = 0
        /\ sink \in Sinks
    BY <1>3, FactsOfConnector DEF CacheInv, CacheTypes, C!NoCache, Structs
  <2>2. /\ seen' = [sink |-> sink, blob |-> blob, lit |-> lit]
        /\ replugs' = 0 /\ moved' = FALSE /\ failed' = FALSE
    BY <1>3 DEF C!ReadConnector
  <2>3. CacheTypes'
    BY <1>1, <1>3, <2>1, <2>2 DEF CacheInv, CacheTypes
  <2>4. cache = C!NoCache /\ cache.modes = 0 /\ cache.edid = 0
    BY <1>1 DEF CacheInv, Struct, C!NoCache
  <2>5. PlanesRead' /\ Struct' /\ CacheHeap' /\ CacheFresh' /\ SeenCrtc'
    BY <1>1, <1>3, <2>1, <2>2, <2>4
       DEF CacheInv, PlanesRead, Struct, C!Live, CacheHeap, CacheFresh, SeenCrtc
  <2>6. SeenBlob' /\ EdidSeen' /\ C!SizeOfPrimary'
    BY <1>1, <1>3, <2>1, <2>2 DEF CacheInv, SeenBlob, EdidSeen, C!SizeOfPrimary
  <2>. QED
    BY <1>2, <2>3, <2>5, <2>6 DEF CacheInv
<1>4. CASE pc' = "idle" /\ UNCHANGED <<heap, cache, seen, replugs, moved, dark, made, failed>>
  BY <1>1, <1>2, <1>4 DEF CacheInv, CacheTypes, PlanesRead, Struct, C!Live, CacheHeap,
     CacheFresh, SeenCrtc, SeenBlob, EdidSeen, C!SizeOfPrimary
<1>. QED
  BY <1>3, <1>4 DEF C!Create, C!Call

(* What the encoder gives is what HDMI is on now, or what the struct gets  *)
(* otherwise; the rest of the struct stays.                                *)
LEMMA EncoderRead ==
  ASSUME CacheInv, NEW otherwise \in Nat, C!ReadEncoder(otherwise)
  PROVE  /\ UNCHANGED <<sink, blob, lit, changes, seen, heap, i, size, planes,
                       replugs, moved, dark, made, calls>>
         /\ cache' \in Structs /\ cache' = [cache EXCEPT !.crtc = cache'.crtc]
         /\ \/ seen.lit # C!NoCrtc /\ cache'.crtc = lit /\ failed' = failed
            \/ seen.lit = C!NoCrtc /\ cache'.crtc = otherwise /\ failed' = failed
            \/ cache'.crtc = otherwise /\ failed' = TRUE
<1>1. PICK found \in BOOLEAN :
        /\ found => seen.lit # 0
        /\ cache' = [cache EXCEPT !.crtc = IF found THEN lit ELSE otherwise]
        /\ failed' = (failed \/ (seen.lit # 0 /\ ~found))
  BY DEF C!ReadEncoder
<1>2. cache \in Structs /\ lit \in Nat /\ failed \in BOOLEAN
  BY FactsOfConnector DEF CacheInv, CacheTypes
<1>3. PICK crtc \in Nat : crtc = IF found THEN lit ELSE otherwise
  BY <1>2
<1>4. cache' = [cache EXCEPT !.crtc = crtc]
  BY <1>1, <1>3
<1>5. cache' \in Structs /\ cache'.crtc = crtc
  BY <1>2, <1>4 DEF Structs
<1>. QED
  BY <1>1, <1>2, <1>3, <1>4, <1>5 DEF C!ReadEncoder

LEMMA EncoderKeeps ==
  ASSUME CacheInv, Counters, C!CreateEncoder \/ C!UpdateEncoder PROVE CacheInv' /\ Counters'
<1>1. cache \in Structs /\ cache.crtc \in Nat
  BY DEF CacheInv, CacheTypes, Structs
<1>2. PICK otherwise \in Nat :
        /\ C!ReadEncoder(otherwise)
        /\ \/ pc = "create" /\ pc' = "fill" /\ otherwise = Crtcs[1]
           \/ pc = "update" /\ pc' = "refill" /\ otherwise = cache.crtc
  BY <1>1, FactsOfConnector DEF C!CreateEncoder, C!UpdateEncoder, C!FallbackCrtc
<1>3. /\ UNCHANGED <<sink, blob, lit, changes, seen, heap, i, size, planes,
                      replugs, moved, dark, made, calls>>
      /\ cache' \in Structs /\ cache' = [cache EXCEPT !.crtc = cache'.crtc]
      /\ \/ seen.lit # 0 /\ cache'.crtc = lit /\ failed' = failed
         \/ seen.lit = 0 /\ cache'.crtc = otherwise /\ failed' = failed
         \/ cache'.crtc = otherwise /\ failed' = TRUE
  BY <1>2, EncoderRead
<1>4. /\ cache'.count = cache.count /\ cache'.modes = cache.modes /\ cache'.mm = cache.mm
      /\ cache'.connection = cache.connection /\ cache'.edid = cache.edid
  BY <1>1, <1>3 DEF Structs
<1>5. C!Live /\ C!Live' /\ heap' = heap
  BY <1>2, <1>3 DEF CacheInv, Struct, C!Live
<1>6. cache'.crtc \in C!DeviceCrtcs \/ (cache'.crtc = 0 /\ dark)
  <2>1. CASE seen.lit # 0 /\ cache'.crtc = lit
    BY <1>2, <2>1 DEF CacheInv, CacheTypes, SeenCrtc
  <2>2. CASE cache'.crtc = otherwise
    BY <1>2, <1>5, <2>2, FactsOfConnector DEF CacheInv, Struct
  <2>. QED
    BY <1>3, <2>1, <2>2
<1>7. CacheTypes' /\ PlanesRead' /\ Struct'
  BY <1>2, <1>3, <1>4, <1>5, <1>6 DEF CacheInv, CacheTypes, PlanesRead, Struct
<1>8. CacheHeap' /\ CacheFresh'
  BY <1>2, <1>3, <1>4, <1>5 DEF CacheInv, CacheHeap, CacheFresh
<1>9. SeenCrtc'
  BY <1>2, <1>3 DEF CacheInv, SeenCrtc
<1>10. SeenBlob' /\ EdidSeen' /\ C!SizeOfPrimary' /\ Counters'
  BY <1>2, <1>3, <1>4, <1>5 DEF CacheInv, SeenBlob, EdidSeen, C!SizeOfPrimary, Counters
<1>. QED
  BY <1>7, <1>8, <1>9, <1>10 DEF CacheInv

LEMMA CreateFillKeeps ==
  ASSUME CacheInv, Counters, C!CreateFill PROVE CacheInv' /\ Counters'
<1>. DEFINE k == seen.sink
<1>1. /\ pc = "fill" /\ k \in Sinks /\ cache \in Structs /\ C!Live
      /\ cache.modes = 0 /\ cache.edid = 0
      /\ UNCHANGED <<sink, blob, lit, changes, seen, i, size, planes, replugs, moved, dark, made, calls>>
  BY DEF C!CreateFill, CacheInv, CacheTypes, Struct, CacheHeap
<1>2. k.modes \in Nat /\ k.connection \in Nat
  BY <1>1, FactsOfConnector
<1>3. Counters'
  BY <1>1 DEF Counters
<1>4. PICK base : base = [cache EXCEPT !.count = k.modes]
  OBVIOUS
<1>5. /\ base \in Structs /\ base.crtc = cache.crtc /\ base.mm = cache.mm
      /\ base.count = k.modes /\ base.modes = 0 /\ base.edid = 0
  BY <1>1, <1>2, <1>4 DEF Structs
<1>6. CASE /\ pc' = "edid" /\ cache' = C!Copied(base, k)
           /\ heap' = heap \cup (IF k.modes > 0 THEN {"modes"} ELSE {})
           /\ UNCHANGED failed
  <2>1. /\ cache' \in Structs /\ cache'.mm = cache.mm
        /\ cache'.crtc = cache.crtc /\ cache'.count = k.modes /\ cache'.modes = k.modes
        /\ cache'.connection = k.connection /\ cache'.edid = 0
    BY <1>2, <1>5, <1>6 DEF C!Copied, Structs
  <2>2. CacheTypes' /\ PlanesRead' /\ Struct'
    BY <1>1, <1>2, <1>6, <2>1 DEF CacheInv, CacheTypes, PlanesRead, Struct, C!Live
  <2>3. CacheHeap' /\ CacheFresh' /\ SeenCrtc'
    BY <1>1, <1>2, <1>6, <2>1 DEF CacheInv, CacheHeap, CacheFresh, SeenCrtc, C!Live
  <2>4. SeenBlob' /\ EdidSeen' /\ C!SizeOfPrimary'
    BY <1>1, <2>1 DEF CacheInv, SeenBlob, EdidSeen, C!SizeOfPrimary
  <2>. QED
    BY <1>3, <2>2, <2>3, <2>4 DEF CacheInv
<1>7. CASE pc' = "idle" /\ cache' = base /\ failed' = TRUE /\ UNCHANGED heap
  <2>2. CacheTypes' /\ PlanesRead' /\ Struct'
    BY <1>1, <1>2, <1>5, <1>7 DEF CacheInv, CacheTypes, PlanesRead, Struct, C!Live
  <2>3. CacheHeap' /\ CacheFresh' /\ SeenCrtc'
    BY <1>1, <1>2, <1>5, <1>7 DEF CacheInv, CacheHeap, CacheFresh, SeenCrtc
  <2>4. SeenBlob' /\ EdidSeen' /\ C!SizeOfPrimary'
    BY <1>1, <1>5, <1>7 DEF CacheInv, SeenBlob, EdidSeen, C!SizeOfPrimary
  <2>. QED
    BY <1>3, <2>2, <2>3, <2>4 DEF CacheInv
<1>. QED
  BY <1>4, <1>6, <1>7 DEF C!CreateFill

(* What is found by the blob's number: the display's own EDID until it     *)
(* changes, and no display's after one change.                             *)
LEMMA BlobIsSeen ==
  ASSUME CacheInv, NEW data \in C!BlobData, data # C!Null
  PROVE  /\ data \in Nat
         /\ replugs = 0 => data = seen.sink.edid
         /\ replugs = 1 => data \in {seen.sink.edid, C!OtherData}
<1>1. sink \in Sinks /\ sink.edid \in Nat
  BY FactsOfConnector DEF CacheInv, CacheTypes
<1>2. \/ seen.blob = blob /\ data = sink.edid
      \/ seen.blob # blob /\ data = C!OtherData
  <2>1. PICK id : id = C!BlobId
    OBVIOUS
  <2>2. data \in IF id = 0 THEN {0} ELSE IF id = blob THEN {sink.edid} ELSE {0, C!OtherData}
    BY <2>1 DEF C!BlobData
  <2>3. id # 0
    BY <2>2
  <2>4. id = seen.blob
    BY <2>1, <2>3 DEF C!BlobId
  <2>. QED
    BY <2>2, <2>3, <2>4
<1>3. C!OtherData \in Nat
  BY DEF C!OtherData
<1>. QED
  BY <1>1, <1>2, <1>3 DEF CacheInv, SeenBlob

LEMMA CopyEdidKeeps ==
  ASSUME CacheInv, Counters, C!CopyEdid \/ C!CopyEdidCrashes
  PROVE  CacheInv' /\ Counters'
<1>1. /\ pc = "edid" /\ pc' \in {"idle", "crashed"}
      /\ UNCHANGED <<sink, blob, lit, changes, seen, i, size, planes, replugs, moved, dark, made, calls>>
  BY DEF C!CopyEdid, C!CopyEdidCrashes
<1>2. Counters' /\ SeenBlob' /\ C!SizeOfPrimary' /\ PlanesRead'
  BY <1>1 DEF CacheInv, Counters, SeenBlob, C!SizeOfPrimary, PlanesRead
<1>3. cache \in Structs /\ cache.edid = 0 /\ C!Live
  BY <1>1 DEF CacheInv, CacheTypes, CacheHeap, Struct
<1>4. ASSUME NEW data \in C!BlobData \ {0},
             heap' = heap \cup {"edid"}, UNCHANGED failed,
             cache' = [cache EXCEPT !.edid = data, !.len = data], pc' = "idle"
      PROVE  CacheInv'
  <2>1. /\ data \in Nat /\ data # 0
        /\ replugs = 0 => data = seen.sink.edid
        /\ replugs = 1 => data \in {seen.sink.edid, C!OtherData}
    BY <1>4, BlobIsSeen
  <2>2. /\ cache' \in Structs /\ cache'.mm = cache.mm
        /\ cache'.crtc = cache.crtc /\ cache'.count = cache.count
        /\ cache'.modes = cache.modes /\ cache'.connection = cache.connection
        /\ cache'.edid = data /\ cache'.len = data
    BY <1>3, <1>4, <2>1 DEF Structs
  <2>3. CacheTypes' /\ Struct'
    BY <1>1, <1>3, <1>4, <2>2 DEF CacheInv, CacheTypes, Struct, C!Live
  <2>4. CacheHeap' /\ CacheFresh' /\ SeenCrtc'
    BY <1>1, <1>3, <1>4, <2>1, <2>2 DEF CacheInv, CacheHeap, CacheFresh, SeenCrtc, C!Live
  <2>5. EdidSeen'
    BY <1>1, <1>4, <2>1, <2>2 DEF EdidSeen
  <2>. QED
    BY <1>2, <2>3, <2>4, <2>5 DEF CacheInv
<1>5. CASE UNCHANGED <<cache, heap>> /\ (failed' = failed \/ failed' = TRUE)
  <2>1. CacheTypes' /\ Struct' /\ CacheHeap'
    BY <1>1, <1>3, <1>5 DEF CacheInv, CacheTypes, Struct, C!Live, CacheHeap
  <2>2. CacheFresh' /\ SeenCrtc' /\ EdidSeen'
    BY <1>1, <1>3, <1>5 DEF CacheInv, CacheFresh, SeenCrtc, EdidSeen, C!Live
  <2>. QED
    BY <1>2, <2>1, <2>2 DEF CacheInv
<1>. QED
  BY <1>2, <1>4, <1>5 DEF C!CopyEdid, C!CopyEdidCrashes

LEMMA UpdateKeeps ==
  ASSUME CacheInv, Counters, C!Update PROVE CacheInv' /\ Counters'
<1>1. /\ C!Live /\ pc = "idle"
      /\ UNCHANGED <<sink, blob, lit, changes, cache, heap, i, size, planes, dark, made>>
  BY DEF C!Update, C!Call
<1>2. Counters'
  BY <1>1, CallCounts DEF C!Update
<1>3. CASE pc' = "update" /\ C!ReadConnector
  <2>1. /\ seen' = [sink |-> sink, blob |-> blob, lit |-> lit]
        /\ replugs' = 0 /\ moved' = FALSE /\ failed' = FALSE
    BY <1>3 DEF C!ReadConnector
  <2>2. CacheTypes' /\ PlanesRead' /\ Struct' /\ CacheHeap'
    BY <1>1, <1>3, <2>1 DEF CacheInv, CacheTypes, PlanesRead, Struct, C!Live, CacheHeap
  <2>3. CacheFresh' /\ SeenCrtc' /\ SeenBlob' /\ EdidSeen' /\ C!SizeOfPrimary'
    BY <1>1, <1>3, <2>1 DEF CacheInv, CacheFresh, SeenCrtc, SeenBlob, EdidSeen, C!SizeOfPrimary
  <2>. QED
    BY <1>2, <2>2, <2>3 DEF CacheInv
<1>4. CASE pc' = "idle" /\ failed' = TRUE /\ UNCHANGED <<seen, replugs, moved>>
  BY <1>1, <1>2, <1>4 DEF CacheInv, CacheTypes, PlanesRead, Struct, C!Live, CacheHeap,
     CacheFresh, SeenCrtc, SeenBlob, EdidSeen, C!SizeOfPrimary
<1>. QED
  BY <1>3, <1>4 DEF C!Update, C!Call

LEMMA UpdateFillKeeps ==
  ASSUME CacheInv, Counters, C!UpdateFill PROVE CacheInv' /\ Counters'
<1>. DEFINE k == seen.sink
<1>1. /\ pc = "refill" /\ pc' = "edid" /\ k \in Sinks /\ C!Live
      /\ UNCHANGED <<sink, blob, lit, changes, seen, i, size, planes, replugs, moved, dark, made, calls>>
  BY DEF C!UpdateFill, CacheInv, CacheTypes, Struct
<1>2. cache \in Structs
  BY DEF CacheInv, CacheTypes
<1>3. k.modes \in Nat /\ k.connection \in Nat
  BY <1>1, FactsOfConnector
<1>4. PICK got : got = [C!Copied(cache, k) EXCEPT !.count = k.modes, !.edid = 0]
  OBVIOUS
<1>5. PICK copied \in BOOLEAN :
        /\ copied \/ k.modes > 0
        /\ cache' = [got EXCEPT !.modes = IF copied THEN @ ELSE 0]
        /\ heap' = (heap \ C!Replaced) \cup (IF copied /\ k.modes > 0 THEN {"modes"} ELSE {})
        /\ failed' = (failed \/ ~copied)
  BY <1>4 DEF C!UpdateFill
<1>6. /\ got \in Structs /\ got.mm = cache.mm
      /\ got.crtc = cache.crtc /\ got.count = k.modes /\ got.modes = k.modes
      /\ got.connection = k.connection /\ got.edid = 0
  BY <1>2, <1>3, <1>4 DEF C!Copied, Structs
<1>7. /\ cache' \in Structs /\ cache'.mm = cache.mm
      /\ cache'.crtc = cache.crtc /\ cache'.count = k.modes
      /\ cache'.modes = (IF copied THEN k.modes ELSE 0)
      /\ cache'.connection = k.connection /\ cache'.edid = 0
  <2>1. CASE copied
    BY <1>3, <1>5, <1>6, <2>1 DEF Structs
  <2>2. CASE ~copied
    BY <1>3, <1>5, <1>6, <2>2 DEF Structs
  <2>. QED
    BY <1>5, <2>1, <2>2
<1>8. /\ heap' \subseteq {"connector", "modes", "edid", "primary"}
      /\ "connector" \in heap' /\ "edid" \notin heap'
      /\ "modes" \in heap' <=> cache'.modes # 0
  <2>1. heap \subseteq {"connector", "modes", "edid", "primary"} /\ "connector" \in heap
    BY <1>1 DEF CacheInv, CacheTypes, C!Live
  <2>2. CASE copied /\ k.modes > 0
    BY <1>3, <1>5, <1>7, <2>1, <2>2 DEF C!Replaced
  <2>3. CASE ~(copied /\ k.modes > 0)
    BY <1>3, <1>5, <1>7, <2>1, <2>3 DEF C!Replaced
  <2>. QED
    BY <2>2, <2>3
<1>9. failed' \in BOOLEAN /\ (~failed' => copied)
  BY <1>5 DEF CacheInv, CacheTypes
<1>10. CacheTypes' /\ PlanesRead' /\ Struct'
  BY <1>1, <1>3, <1>7, <1>8, <1>9 DEF CacheInv, CacheTypes, PlanesRead, Struct, C!Live
<1>11. CacheHeap' /\ CacheFresh' /\ SeenCrtc'
  BY <1>1, <1>3, <1>5, <1>7, <1>8, <1>9 DEF CacheInv, CacheHeap, CacheFresh, SeenCrtc
<1>12. SeenBlob' /\ EdidSeen' /\ C!SizeOfPrimary' /\ Counters'
  BY <1>1, <1>7 DEF CacheInv, SeenBlob, EdidSeen, C!SizeOfPrimary, Counters
<1>. QED
  BY <1>10, <1>11, <1>12 DEF CacheInv

LEMMA DestroyKeeps ==
  ASSUME CacheInv, Counters, C!Destroy PROVE CacheInv' /\ Counters'
<1>1. /\ pc = "idle" /\ pc' = "idle" /\ heap' = heap \ {"connector", "modes", "edid"}
      /\ cache' = C!NoCache
      /\ UNCHANGED <<sink, blob, lit, changes, seen, i, size, planes, replugs, moved, dark, made, failed>>
  BY DEF C!Destroy, C!Call, C!FreedByDestroy
<1>2. Counters'
  BY <1>1, CallCounts DEF C!Destroy
<1>3. CacheTypes' /\ PlanesRead' /\ Struct' /\ CacheHeap'
  BY <1>1 DEF CacheInv, CacheTypes, PlanesRead, Struct, C!Live, CacheHeap, C!NoCache, Structs
<1>4. CacheFresh' /\ SeenCrtc' /\ SeenBlob' /\ EdidSeen' /\ C!SizeOfPrimary'
  BY <1>1 DEF CacheInv, CacheFresh, C!Live, SeenCrtc, SeenBlob, EdidSeen, C!SizeOfPrimary, C!NoCache
<1>. QED
  BY <1>2, <1>3, <1>4 DEF CacheInv

(* The loop over the planes changes what is kept of the planes only.       *)
LEMMA PlaneKeeps ==
  ASSUME CacheInv, Counters,
         C!PlaneCreate \/ C!PlaneRound \/ C!PlaneEnd \/ C!PlaneFails \/ C!PlaneDestroy
  PROVE  CacheInv' /\ Counters'
<1>1. /\ UNCHANGED <<sink, blob, lit, changes, seen, cache, replugs, moved, dark, made, failed>>
      /\ pc \in {"idle", "plane", "size"} /\ pc' \in {"plane", "size", "idle"}
      /\ heap' \in {heap, heap \cup {"primary"}, heap \ {"primary"}}
  BY DEF C!PlaneCreate, C!PlaneRound, C!PlaneEnd, C!PlaneFails, C!PlaneDestroy, C!Call, CacheInv,
         CacheTypes
<1>2. Counters'
  BY CallCounts DEF C!PlaneCreate, C!PlaneRound, C!PlaneEnd, C!PlaneFails, C!PlaneDestroy, Counters
<1>3. /\ Struct' /\ CacheHeap' /\ CacheFresh' /\ SeenCrtc' /\ SeenBlob' /\ EdidSeen'
      /\ heap' \subseteq {"connector", "modes", "edid", "primary"}
  BY <1>1 DEF CacheInv, CacheTypes, Struct, C!Live, CacheHeap, CacheFresh, SeenCrtc,
         SeenBlob, EdidSeen
<1>4. /\ planes' \subseteq DOMAIN Planes /\ i' \in 0 .. Len(Planes) + 1 /\ size' \in Nat
      /\ PlanesRead' /\ C!SizeOfPrimary'
  <2>1. /\ planes \subseteq DOMAIN Planes /\ i \in 0 .. Len(Planes) + 1 /\ size \in Nat
        /\ PlanesRead /\ C!SizeOfPrimary
    BY DEF CacheInv, CacheTypes
  <2>2. CASE C!PlaneCreate
    BY <2>1, <2>2, FactsOfConnector DEF C!PlaneCreate, C!Call, PlanesRead, C!SizeOfPrimary
  <2>3. CASE C!PlaneRound
    <3>1. /\ pc = "plane" /\ pc' = "plane" /\ i \in 1 .. Len(Planes) /\ i' = i + 1
          /\ planes' = planes \cup {i}
          /\ size' = IF Planes[i].primary /\ Planes[i].fb # 0 THEN Planes[i].fb ELSE size
      BY <2>1, <2>3, FactsOfConnector DEF C!PlaneRound, PlanesRead, C!IsPrimary
    <3>2. i \in DOMAIN Planes /\ Planes[i].fb \in Nat
      BY <3>1, FactsOfConnector
    <3>3. size' \in Nat /\ C!SizeOfPrimary'
      <4>1. CASE Planes[i].primary /\ Planes[i].fb # 0
        BY <3>1, <3>2, <4>1 DEF C!SizeOfPrimary
      <4>2. CASE ~(Planes[i].primary /\ Planes[i].fb # 0)
        BY <2>1, <3>1, <4>2 DEF C!SizeOfPrimary
      <4>. QED
        BY <4>1, <4>2
    <3>4. PlanesRead'
      <4>1. Len(Planes) \in Nat /\ Len(Planes) \notin planes
        BY <2>1, <3>1, FactsOfConnector DEF PlanesRead
      <4>2. i' > 0 /\ (i' <= Len(Planes) => Len(Planes) \notin planes')
        BY <3>1, <4>1
      <4>. QED
        BY <3>1, <4>2 DEF PlanesRead
    <3>. QED
      BY <2>1, <3>1, <3>2, <3>3, <3>4, FactsOfConnector
  <2>4. CASE C!PlaneEnd
    BY <2>1, <2>4 DEF C!PlaneEnd, PlanesRead, C!SizeOfPrimary
  <2>5. CASE C!PlaneFails \/ C!PlaneDestroy
    BY <2>1, <2>5 DEF C!PlaneFails, C!PlaneDestroy, PlanesRead, C!SizeOfPrimary
  <2>. QED
    BY <2>2, <2>3, <2>4, <2>5
<1>5. CacheTypes'
  BY <1>1, <1>3, <1>4 DEF CacheInv, CacheTypes
<1>. QED
  BY <1>2, <1>3, <1>4, <1>5 DEF CacheInv

-----------------------------------------------------------------------------
(* The property.                                                           *)
LEMMA OthersCount == Others \in Nat
BY CacheAssumption DEF P!KernelsFit

LEMMA FactsOfProperty ==
  \A k \in Kernels :
    /\ k.there \in BOOLEAN /\ k.kind \in P!Kinds /\ k.immutable \in BOOLEAN
    /\ k.arrays \subseteq P!Arrays /\ k.value \in Nat
    /\ k.kind \in {"range", "signed range"} => "values" \in k.arrays
BY CacheAssumption DEF P!KernelsFit

LEMMA PropCallCounts ==
  ASSUME NEW there, P!Call(there), Counters, changes' = changes
  PROVE  Counters' /\ ppc = "idle" /\ ppc' = there
BY FactsOfConnector DEF P!Call, Counters

LEMMA RewriteKeeps ==
  ASSUME PropInv, Counters, P!Rewrite PROVE PropInv' /\ Counters'
<1>1. PICK k \in Kernels : P!Change(k)
  BY DEF P!Rewrite
<1>2. /\ changes < MaxChanges /\ kernel' = k /\ changes' = changes + 1
      /\ UNCHANGED <<ppc, round, snap, prop, pheap, fresh, pfailed, calls>>
  BY <1>1 DEF P!Change
<1>3. PropInv'
  BY <1>2 DEF PropInv, PropTypes, P!Live, PropHeap, PropFresh, P!CrashNeedsFault
<1>4. Counters'
  BY <1>2, FactsOfConnector DEF Counters
<1>. QED
  BY <1>3, <1>4

LEMMA PropCreateKeeps ==
  ASSUME PropInv, Counters, P!Create PROVE PropInv' /\ Counters'
<1>1. /\ ~P!Live /\ ppc = "idle" /\ UNCHANGED <<kernel, prop, fresh, pfailed, changes>>
  BY DEF P!Create, P!Call
<1>2. Counters'
  BY <1>1, PropCallCounts DEF P!Create
<1>3. prop = P!None /\ pheap = {} /\ ~prop.there
  BY <1>1 DEF PropInv, PropTypes, PropHeap, P!Live, P!None
<1>4. CASE /\ ppc' = "create" /\ round' = 0 /\ snap' = kernel
           /\ pheap' = {"property", "prop_ptr"}
  <2>1. round' \in 0 .. Others /\ ~prop'.there
    BY <1>1, <1>3, <1>4, OthersCount
  <2>2. PropTypes'
    BY <1>1, <1>4, <2>1 DEF PropInv, PropTypes, P!Live
  <2>3. PropHeap' /\ PropFresh' /\ P!CrashNeedsFault'
    BY <1>1, <1>3, <1>4, <2>1 DEF PropHeap, PropFresh, P!CrashNeedsFault, P!None
  <2>. QED
    BY <1>2, <2>2, <2>3 DEF PropInv
<1>5. CASE ppc' = "idle" /\ UNCHANGED <<round, snap, pheap>>
  BY <1>1, <1>2, <1>5
     DEF PropInv, PropTypes, P!Live, PropHeap, PropFresh, P!CrashNeedsFault
<1>. QED
  BY <1>4, <1>5 DEF P!Create, P!Call

LEMMA PassOtherKeeps ==
  ASSUME PropInv, Counters, P!PassOther PROVE PropInv' /\ Counters'
<1>1. /\ round < Others /\ round' = round + 1
      /\ UNCHANGED <<kernel, ppc, snap, prop, pheap, fresh, pfailed, calls, changes>>
  BY DEF P!PassOther
<1>2. round' \in 0 .. Others
  BY <1>1, OthersCount DEF PropInv, PropTypes
<1>. QED
  BY <1>1, <1>2 DEF PropInv, PropTypes, P!Live, PropHeap, PropFresh, P!CrashNeedsFault, Counters

(* The copy, in both functions: what is left of the old one is the struct. *)
LEMMA CopyKeeps ==
  ASSUME PropInv, Counters, P!CreateFound \/ P!UpdateFound
  PROVE  PropInv' /\ Counters'
<1>1. PICK type : /\ P!Copy("create", type) \/ P!Copy("update", type)
                  /\ type = P!TypeOf(snap) \/ type = P!Flags(snap)
  BY DEF P!CreateFound, P!UpdateFound
<1>2. snap \in Kernels /\ pheap \subseteq {"property", "prop_ptr"} \cup P!Arrays
  BY DEF PropInv, PropTypes
<1>3. /\ snap.kind \in P!Kinds /\ snap.arrays \subseteq P!Arrays /\ snap.value \in Nat
      /\ snap.kind \in {"range", "signed range"} => "values" \in snap.arrays
  BY <1>2, FactsOfProperty
<1>4. type \in SUBSET (P!Kinds \cup {"immutable"})
  BY <1>1, <1>3 DEF P!TypeOf, P!Flags
<1>5. /\ ppc \in {"create", "update"} /\ ppc' = "idle"
      /\ UNCHANGED <<kernel, round, snap, calls, changes>>
  BY <1>1 DEF P!Copy
<1>6. PICK got \in SUBSET snap.arrays :
        /\ prop' = [there |-> TRUE, kind |-> snap.kind, type |-> type, arrays |-> got,
                    value |-> snap.value]
        /\ pheap' = (pheap \ P!Arrays) \cup got
        /\ pfailed' = (got # snap.arrays) /\ fresh' = TRUE
  BY <1>1 DEF P!Copy, P!ValueOf, P!Kept
<1>7. got \subseteq P!Arrays
  BY <1>3, <1>6
<1>8. /\ prop' \in [there : BOOLEAN, kind : P!Kinds, type : SUBSET (P!Kinds \cup {"immutable"}),
                    arrays : SUBSET P!Arrays, value : Nat]
      /\ prop'.there /\ prop'.kind = snap.kind /\ prop'.arrays = got
      /\ prop'.value = snap.value
  BY <1>3, <1>4, <1>6, <1>7
<1>9. pheap' = got \cup {"property", "prop_ptr"}
  <2>1. /\ {"property", "prop_ptr"} \subseteq pheap
        /\ pheap \subseteq {"property", "prop_ptr"} \cup P!Arrays
    BY <1>2, <1>5 DEF PropInv, PropHeap
  <2>2. {"property", "prop_ptr"} \cap P!Arrays = {}
    BY DEF P!Arrays
  <2>. QED
    BY <1>6, <2>1, <2>2
<1>10. PropTypes'
  BY <1>5, <1>6, <1>7, <1>8, <1>9 DEF PropInv, PropTypes, P!Live
<1>11. PropHeap' /\ PropFresh' /\ P!CrashNeedsFault'
  BY <1>3, <1>5, <1>6, <1>8, <1>9 DEF PropHeap, PropFresh, P!CrashNeedsFault
<1>. QED
  BY <1>5, <1>10, <1>11 DEF PropInv, Counters

LEMMA NotFoundKeeps ==
  ASSUME PropInv, Counters, P!CreateNotFound \/ P!UpdateNotFound
  PROVE  PropInv' /\ Counters'
<1>1. Counters'
  BY DEF P!CreateNotFound, P!UpdateNotFound, Counters
<1>2. CASE P!CreateNotFound
  <2>1. /\ ppc = "create" /\ ppc' = "idle" /\ pheap' = pheap \ {"property", "prop_ptr"}
        /\ UNCHANGED <<kernel, round, snap, prop, fresh, pfailed>>
    BY <1>2 DEF P!CreateNotFound, P!LeftOnError
  <2>2. prop = P!None /\ pheap = {"property", "prop_ptr"} /\ ~prop.there
    BY <2>1 DEF PropInv, PropTypes, PropHeap, P!None
  <2>. QED
    BY <1>1, <2>1, <2>2
       DEF PropInv, PropTypes, P!Live, PropHeap, PropFresh, P!CrashNeedsFault, P!None
<1>3. CASE P!UpdateNotFound
  BY <1>1, <1>3 DEF P!UpdateNotFound, PropInv, PropTypes, P!Live, PropHeap, PropFresh,
     P!CrashNeedsFault
<1>. QED
  BY <1>2, <1>3

LEMMA UpdateValueKeeps ==
  ASSUME PropInv, Counters, P!UpdateValue PROVE PropInv' /\ Counters'
<1>1. /\ P!Live /\ ppc = "idle" /\ ppc' \in {"update", "idle"} /\ fresh' = FALSE
      /\ UNCHANGED <<kernel, prop, pheap, pfailed, changes>>
      /\ round' \in {0, round} /\ snap' \in {kernel, snap}
  BY DEF P!UpdateValue, P!Call
<1>2. Counters'
  BY <1>1, PropCallCounts DEF P!UpdateValue
<1>3. round' \in 0 .. Others
  BY <1>1, OthersCount DEF PropInv, PropTypes
<1>4. PropTypes'
  BY <1>1, <1>3 DEF PropInv, PropTypes, P!Live
<1>5. PropHeap' /\ PropFresh' /\ P!CrashNeedsFault'
  BY <1>1 DEF PropInv, PropTypes, P!Live, PropHeap, PropFresh, P!CrashNeedsFault
<1>. QED
  BY <1>2, <1>4, <1>5 DEF PropInv

LEMMA PropDestroyKeeps ==
  ASSUME PropInv, Counters, P!Destroy PROVE PropInv' /\ Counters'
<1>1. /\ ppc = "idle" /\ ppc' = "idle" /\ prop' = P!None /\ pfailed' = FALSE
      /\ pheap' = pheap \ ({"property", "prop_ptr"} \cup {"blobs"} \cup {"values", "enums"})
      /\ UNCHANGED <<kernel, round, snap, fresh, changes>>
  BY DEF P!Destroy, P!Call
<1>2. Counters'
  BY <1>1, PropCallCounts DEF P!Destroy
<1>3. pheap' = {}
  BY <1>1 DEF PropInv, PropTypes, P!Arrays
<1>. QED
  BY <1>1, <1>2, <1>3
     DEF PropInv, PropTypes, P!Live, PropHeap, PropFresh, P!CrashNeedsFault, P!None, P!Kinds

(* The readers change nothing; the one that crashes needs an array that    *)
(* only a failure leaves away.                                             *)
LEMMA GetKeeps ==
  ASSUME PropInv, Counters, P!GetRange \/ P!GetBlobData \/ P!GetEnumTypes
  PROVE  PropInv' /\ Counters'
<1>1. /\ P!Live /\ ppc = "idle" /\ ppc' \in {"idle", "crashed"}
      /\ UNCHANGED <<kernel, round, snap, prop, pheap, fresh, pfailed, changes>>
  BY DEF P!GetRange, P!GetBlobData, P!GetEnumTypes, P!Call
<1>2. Counters'
  BY <1>1, PropCallCounts DEF P!GetRange, P!GetBlobData, P!GetEnumTypes
<1>3. ppc' = "crashed" => prop.kind \in {"range", "signed range"} /\ "values" \notin prop.arrays
  BY DEF P!GetRange, P!GetBlobData, P!GetEnumTypes, P!Call, P!HasRange
<1>4. P!CrashNeedsFault'
  BY <1>1, <1>3 DEF PropInv, PropTypes, PropFresh, P!CrashNeedsFault
<1>. QED
  BY <1>1, <1>2, <1>4 DEF PropInv, PropTypes, P!Live, PropHeap, PropFresh

-----------------------------------------------------------------------------
LEMMA InitIInv == ASSUME Init PROVE IInv
<1>1. C!Init /\ P!Init
  BY DEF Init
<1>2. CacheInv
  <2>1. 0 \in 0 .. Len(Planes) + 1
    BY FactsOfConnector
  <2>2. CacheTypes
    BY <1>1, <2>1 DEF C!Init, CacheTypes, C!NoCache, C!Blobs, Structs
  <2>3. PlanesRead /\ Struct /\ CacheHeap /\ CacheFresh
    BY <1>1 DEF C!Init, PlanesRead, Struct, C!Live, CacheHeap, CacheFresh, C!NoCache
  <2>4. SeenCrtc /\ SeenBlob /\ EdidSeen /\ C!SizeOfPrimary
    BY <1>1 DEF C!Init, SeenCrtc, SeenBlob, EdidSeen, C!Live, C!SizeOfPrimary
  <2>. QED
    BY <2>2, <2>3, <2>4 DEF CacheInv
<1>3. PropInv
  <2>1. 0 \in 0 .. Others
    BY OthersCount
  <2>2. PropTypes
    BY <1>1, <2>1 DEF P!Init, PropTypes, P!Live, P!None, P!Kinds
  <2>3. PropHeap /\ PropFresh /\ P!CrashNeedsFault
    BY <1>1 DEF P!Init, PropHeap, PropFresh, P!CrashNeedsFault, P!None
  <2>. QED
    BY <2>2, <2>3 DEF PropInv
<1>4. Counters
  BY <1>1, FactsOfConnector DEF C!Init, Counters
<1>. QED
  BY <1>2, <1>3, <1>4 DEF IInv

(* A step of one is no step of the other.                                  *)
LEMMA OtherCacheStays ==
  ASSUME CacheInv, UNCHANGED connector PROVE CacheInv'
BY DEF connector, CacheInv, CacheTypes, PlanesRead, Struct, C!Live, CacheHeap, CacheFresh,
   SeenCrtc, SeenBlob, EdidSeen, C!SizeOfPrimary

LEMMA OtherPropStays ==
  ASSUME PropInv, UNCHANGED property PROVE PropInv'
BY DEF property, PropInv, PropTypes, P!Live, PropHeap, PropFresh, P!CrashNeedsFault

LEMMA NextIInv == ASSUME IInv, [Next]_vars PROVE IInv'
<1>1. CacheInv /\ PropInv /\ Counters
  BY DEF IInv
<1>2. CASE C!World /\ UNCHANGED property
  BY <1>1, <1>2, ReplugKeeps, RelightKeeps, OtherPropStays DEF IInv, C!World
<1>3. CASE ppc = "idle" /\ C!Step /\ UNCHANGED property
  <2>1. CacheInv' /\ Counters'
    BY <1>1, <1>3, CreateKeeps, EncoderKeeps, CreateFillKeeps, CopyEdidKeeps, UpdateKeeps, UpdateFillKeeps,
       DestroyKeeps, PlaneKeeps DEF C!Step
  <2>. QED
    BY <1>1, <1>3, <2>1, OtherPropStays DEF IInv
<1>4. CASE P!Rewrite /\ UNCHANGED connector
  BY <1>1, <1>4, RewriteKeeps, OtherCacheStays DEF IInv
<1>5. CASE pc = "idle" /\ P!Step /\ UNCHANGED connector
  <2>1. PropInv' /\ Counters'
    BY <1>1, <1>5, PropCreateKeeps, PassOtherKeeps, CopyKeeps, NotFoundKeeps, UpdateValueKeeps,
       PropDestroyKeeps, GetKeeps DEF P!Step
  <2>. QED
    BY <1>1, <1>5, <2>1, OtherCacheStays DEF IInv
<1>6. CASE UNCHANGED vars
  BY <1>1, <1>6, OtherCacheStays, OtherPropStays DEF vars, IInv, Counters
<1>. QED
  BY <1>2, <1>3, <1>4, <1>5, <1>6 DEF Next

LEMMA InvariantHolds == Spec => []IInv
<1>. QED
  BY InitIInv, NextIInv, PTL DEF Spec

-----------------------------------------------------------------------------
(* Every variable of the two caches has its type, a connector's CRTC is    *)
(* one that the device has unless HDMI was turned off while a call read    *)
(* it, and of the planes that were read only the last is freed             *)
(* (libdrm_meson_connector.c lines 118, 182-185, 249).                     *)
THEOREM TypeCorrect == Spec => []TypeOK
<1>1. ASSUME IInv PROVE TypeOK
  <2>1. CacheInv /\ PropInv /\ Counters
    BY <1>1 DEF IInv
  <2>2. C!TypeOK
    BY <2>1 DEF C!TypeOK, CacheInv, CacheTypes, PlanesRead, Struct, Counters
  <2>3. P!TypeOK
    BY <2>1 DEF P!TypeOK, PropInv, PropTypes, Counters
  <2>. QED
    BY <2>2, <2>3 DEF TypeOK
<1>. QED
  BY <1>1, InvariantHolds, PTL

(* Between calls the heap holds exactly what the structs point to: create, *)
(* update and destroy lose no list, EDID or array and leave no pointer to  *)
(* one that is freed, whatever could not be read or allocated.             *)
THEOREM HeapIsExact == Spec => []HeapExact
<1>1. ASSUME IInv PROVE HeapExact
  <2>1. CacheInv /\ PropInv
    BY <1>1 DEF IInv
  <2>2. C!HeapIsCache
    BY <2>1 DEF C!HeapIsCache, CacheInv, CacheHeap
  <2>3. P!HeapIsProp
    BY <2>1 DEF P!HeapIsProp, PropInv, PropTypes, PropHeap
  <2>. QED
    BY <2>2, <2>3 DEF HeapExact
<1>. QED
  BY <1>1, InvariantHolds, PTL

(* After a call without a failure the struct has the modes and the state   *)
(* that the connector had when it was read and, if HDMI did not move since *)
(* then, its CRTC, but the physical size of the display that was there     *)
(* when the struct was created.  Its EDID is the display's if that stayed, *)
(* and not another display's unless the display changed twice.             *)
THEOREM CachesAreSinks == Spec => []CacheIsSink
<1>1. ASSUME IInv PROVE CacheIsSink
  BY <1>1 DEF IInv, CacheInv, CacheFresh, SeenCrtc, Struct, EdidSeen, CacheIsSink, C!CacheIsSink,
     C!EdidOfSameSink
<1>. QED
  BY <1>1, InvariantHolds, PTL

(* A copy of a property that lacks nothing for want of memory is its last  *)
(* read, and mesonPropertyGetRange meets a null pointer only without it.   *)
THEOREM CopiesAreReads == Spec => []CopyIsRead
<1>1. ASSUME IInv PROVE CopyIsRead
  BY <1>1 DEF IInv, PropInv, PropFresh, CopyIsRead, P!CopyIsRead
<1>. QED
  BY <1>1, InvariantHolds, PTL
=============================================================================
