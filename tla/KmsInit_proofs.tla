---------------------------- MODULE KmsInit_proofs ---------------------------
(***************************************************************************)
(* The safety properties of KmsInit, for every device, and those of the    *)
(* program SetCrtc, for every kernel.                                      *)
(***************************************************************************)
EXTENDS KmsInit, SetCrtc, FiniteSetTheorems, SequenceTheorems, TLAPS

-----------------------------------------------------------------------------
(* The inductive invariant.  Forward are the places of a call that has not *)
(* failed, in the order in which it comes to them.                         *)
Early   == {"card", "render", "dev", "caps", "resources"}
Forward == Early \cup {"connectors", "crtcs", "planeRes", "planes", "ready"}
Places  == Forward \cup {"error1", "error2", "error3", "fail", "failed", "destroyed",
                         "crashed", "overrun"}

Typed ==
  /\ device \in Devices
  /\ pc \in Places
  /\ i \in Nat \ {0}
  /\ fds \subseteq Files
  /\ heap \subseteq Blocks
  /\ states \in [Arrays -> Seq(Nat)] /\ Tabled
  /\ props \in {"unset", "null", "freed"}

(* The loop that fills an array, and those of the objects that belong into *)
(* it that the loop has come past.                                         *)
Loop  == [conn |-> "connectors", crtc |-> "crtcs", osd |-> "planes", vid |-> "planes"]
Ahead == [connectors |-> Early, crtcs |-> Early \cup {"connectors"},
          planes |-> Early \cup {"connectors", "crtcs", "planeRes"}]
Count == [connectors |-> Len(device.conns), crtcs |-> device.crtcs,
          planes |-> Len(device.planes)]
Past(a) == IF pc = Loop[a] THEN Found[a] \cap (1 .. i - 1)
           ELSE IF pc \in Ahead[Loop[a]] THEN {} ELSE Found[a]

(* The failure after which the loop goes on without filling an entry.      *)
Lacks == [conn |-> {"connector"}, crtc |-> {}, osd |-> {"plane"}, vid |-> {"plane"}]

InLoops == \A loop \in DOMAIN Count : pc = loop => i <= Count[loop] + 1
Filled ==
  \A a \in Arrays :
    /\ Len(states[a]) <= Cardinality(Past(a))
    /\ pc \in Forward /\ faults \cap Lacks[a] = {} => Len(states[a]) = Cardinality(Past(a))

(* Where a block or a file may still be.                                   *)
Held ==
  /\ fds # {} => pc \notin {"card", "fail", "failed", "destroyed"}
  /\ Block("display") \in heap => pc \notin {"failed", "destroyed"}
  /\ Block("dev") \in heap =>
       pc \notin {"card", "render", "dev", "error3", "fail", "failed", "destroyed"}
  /\ Block("resources") \in heap =>
       pc \in {"connectors", "crtcs", "planeRes", "planes", "error1", "crashed",
             "overrun"}
  /\ Block("planeRes") \in heap => pc \in {"planes", "crashed", "overrun"}

(* Every state is in an array, or is that of a plane that was not read.    *)
StatesKept ==
  /\ \A block \in heap : IsState(block) =>
       block \in Referred \/ (block[1] = "planeState" /\ "plane" \in faults)
  /\ pc = "destroyed" => heap \cap Referred = {}

IInv == Typed /\ InLoops /\ Filled /\ Held /\ StatesKept /\ CrashNeedsFault

-----------------------------------------------------------------------------
LEMMA Tables ==
  /\ Arrays = {"conn", "crtc", "osd", "vid"}
  /\ Loop["conn"] = "connectors" /\ Loop["crtc"] = "crtcs"
  /\ Loop["osd"] = "planes" /\ Loop["vid"] = "planes"
  /\ Ahead["connectors"] = Early /\ Ahead["crtcs"] = Early \cup {"connectors"}
  /\ Ahead["planes"] = Early \cup {"connectors", "crtcs", "planeRes"}
  /\ Lacks["conn"] = {"connector"} /\ Lacks["crtc"] = {}
  /\ Lacks["osd"] = {"plane"} /\ Lacks["vid"] = {"plane"}
BY DEF Arrays, Loop, Ahead, Lacks

LEMMA DeviceTables ==
  /\ DOMAIN Count = {"connectors", "crtcs", "planes"}
  /\ Count["connectors"] = Len(device.conns) /\ Count["crtcs"] = device.crtcs
  /\ Count["planes"] = Len(device.planes)
  /\ Found["conn"] = {n \in DOMAIN device.conns : device.conns[n] # "tv"}
  /\ Found["crtc"] = 1 .. device.crtcs
  /\ Found["osd"] = {n \in DOMAIN device.planes : device.planes[n] # "nv12"}
  /\ Found["vid"] = {n \in DOMAIN device.planes : device.planes[n] = "nv12"}
BY DEF Count, Found

(* The entries of the arrays stay as long as the arrays do.                *)
LEMMA TabledKept == Tabled /\ UNCHANGED <<device, states>> => Tabled'
BY DEF Tabled, Found, Size

(* Which objects go into an array is a finite set of indices of the loop.  *)
LEMMA FoundBounds ==
  ASSUME Typed, NEW a \in Arrays
  PROVE  /\ Count[Loop[a]] \in Nat /\ Found[a] \subseteq 1 .. Count[Loop[a]]
         /\ IsFiniteSet(Found[a]) /\ Cardinality(Found[a]) \in Nat
         /\ Past(a) \subseteq Found[a]
         /\ IsFiniteSet(Past(a)) /\ Cardinality(Past(a)) \in Nat
         /\ Cardinality(Past(a)) <= Cardinality(Found[a])
<1>1. /\ device.conns \in Seq({"tv", "hdmi", "panel"}) /\ device.crtcs \in Nat
      /\ device.planes \in Seq({"rgb", "nv12"})
  BY DeviceAssumption DEF Typed
<1>2. /\ DOMAIN device.conns = 1 .. Len(device.conns) /\ Len(device.conns) \in Nat
      /\ DOMAIN device.planes = 1 .. Len(device.planes) /\ Len(device.planes) \in Nat
  BY <1>1, LenProperties
<1>3. Count[Loop[a]] \in Nat /\ Found[a] \subseteq 1 .. Count[Loop[a]]
  BY <1>1, <1>2, Tables, DeviceTables
<1>4. IsFiniteSet(1 .. Count[Loop[a]])
  BY <1>3, FS_Interval
<1>5. IsFiniteSet(Found[a]) /\ Cardinality(Found[a]) \in Nat
  BY <1>3, <1>4, FS_Subset, FS_CardinalityType
<1>6. Past(a) \subseteq Found[a]
  BY DEF Past
<1> QED
  BY <1>3, <1>5, <1>6, FS_Subset, FS_CardinalityType

(* A round of a loop comes past one object.                                *)
LEMMA RoundPasses ==
  ASSUME Typed, NEW a \in Arrays, pc \in DOMAIN Count, pc' = pc, i' = i + 1,
         device' = device
  PROVE  Cardinality(Past(a)') =
           Cardinality(Past(a)) + (IF pc = Loop[a] /\ i \in Found[a] THEN 1 ELSE 0)
<1>1. Found' = Found
  BY DEF Found
<1>2. CASE pc = Loop[a]
  <2>1. i \in Nat /\ i > 0
    BY DEF Typed
  <2>2. /\ Past(a) = Found[a] \cap (1 .. i - 1) /\ Past(a)' = Found[a] \cap (1 .. i)
        /\ i \notin Past(a)
    BY <1>1, <1>2, <2>1 DEF Past
  <2>3. Past(a)' = IF i \in Found[a] THEN Past(a) \cup {i} ELSE Past(a)
    BY <2>1, <2>2, FoundBounds
  <2>4. IsFiniteSet(Past(a)) /\ Cardinality(Past(a)) \in Nat
    BY FoundBounds
  <2>5. Cardinality(Past(a) \cup {i}) = Cardinality(Past(a)) + 1
    BY <2>2, <2>4, FS_AddElement
  <2>6. CASE i \in Found[a]
    BY <1>2, <2>3, <2>5, <2>6
  <2>7. CASE i \notin Found[a]
    <3>1. Past(a)' = Past(a)
      BY <2>3, <2>7
    <3> QED
      BY <3>1, <2>4, <2>7
  <2> QED
    BY <2>6, <2>7
<1>3. CASE pc # Loop[a]
  <2>1. Past(a)' = Past(a)
    BY <1>1, <1>3 DEF Past
  <2>2. Cardinality(Past(a)) \in Nat
    BY FoundBounds
  <2> QED
    BY <1>3, <2>1, <2>2
<1> QED
  BY <1>2, <1>3

(* A call that stops has come past no fewer objects.                       *)
LEMMA Stops ==
  ASSUME Typed, Filled, pc' \in Places \ Forward, UNCHANGED <<device, states>>
  PROVE  Filled' /\ InLoops'
<1>1. Found' = Found /\ Count' = Count
  BY DEF Found, Count
<1>2. \A a \in Arrays : Past(a)' = Found[a]
  BY <1>1, Tables DEF Past, Forward, Early
<1>3. \A a \in Arrays : Len(states[a]) <= Cardinality(Found[a])
  <2> SUFFICES ASSUME NEW a \in Arrays PROVE Len(states[a]) <= Cardinality(Found[a])
    OBVIOUS
  <2>1. Len(states[a]) \in Nat
    BY LenProperties DEF Typed
  <2> QED
    BY <2>1, FoundBounds DEF Filled
<1>4. Filled'
  BY <1>2, <1>3 DEF Filled
<1>5. InLoops'
  BY <1>1, DeviceTables DEF InLoops, Forward
<1> QED
  BY <1>4, <1>5

(* A call that goes on from one loop to the next has come past all objects *)
(* of the first and none of the second.                                    *)
LEMMA GoesOn ==
  ASSUME Typed, Filled, InLoops, UNCHANGED <<device, states>>, i' = 1, faults' = faults,
         \/ pc \in Early /\ pc' \in Early
         \/ pc = "resources" /\ pc' = "connectors"
         \/ pc = "connectors" /\ i > Len(device.conns) /\ pc' = "crtcs"
         \/ pc = "crtcs" /\ i > device.crtcs /\ pc' = "planeRes"
         \/ pc = "planeRes" /\ pc' = "planes"
         \/ pc = "planes" /\ i > Len(device.planes) /\ pc' = "ready"
  PROVE  Filled' /\ InLoops'
<1>1. Found' = Found /\ Count' = Count
  BY DEF Found, Count
<1>2. ASSUME NEW a \in Arrays, pc = Loop[a] PROVE Past(a) = Found[a]
  <2>1. i \in Nat /\ i > Count[Loop[a]]
    BY <1>2, Tables, DeviceTables DEF Typed, Early
  <2>2. Found[a] \subseteq 1 .. Count[Loop[a]] /\ Count[Loop[a]] \in Nat
    BY FoundBounds
  <2>3. Found[a] \subseteq 1 .. i - 1
    BY <2>1, <2>2
  <2> QED
    BY <2>3, <1>2 DEF Past
<1>3. ASSUME NEW a \in Arrays PROVE Past(a)' = Past(a)
  <2>1. CASE pc' = Loop[a]
    <3>1. Past(a) = {}
      BY <2>1, Tables DEF Past, Early
    <3>2. Past(a)' = {}
      BY <1>1, <2>1 DEF Past
    <3> QED
      BY <3>1, <3>2
  <2>2. CASE pc = Loop[a]
    <3>1. Past(a)' = Found[a]
      BY <1>1, <2>2, Tables DEF Past, Early
    <3> QED
      BY <1>2, <2>2, <3>1
  <2>3. CASE pc # Loop[a] /\ pc' # Loop[a]
    <3>1. pc \in Ahead[Loop[a]] <=> pc' \in Ahead[Loop[a]]
      BY <2>3, Tables DEF Early
    <3> QED
      BY <1>1, <2>3, <3>1 DEF Past
  <2> QED
    BY <2>1, <2>2, <2>3
<1>4. pc \in Forward
  BY DEF Forward, Early
<1>5. Filled'
  BY <1>3, <1>4 DEF Filled
<1>6. InLoops'
  <2>1. \A loop \in DOMAIN Count : Count[loop] \in Nat
    BY FoundBounds, Tables, DeviceTables
  <2> QED
    BY <1>1, <2>1 DEF InLoops
<1> QED
  BY <1>5, <1>6

-----------------------------------------------------------------------------
(* Appending to an array keeps what it refers to.                          *)
LEMMA AppendRefers ==
  ASSUME NEW s \in Seq(Nat), NEW n \in Nat
  PROVE  /\ Append(s, n) \in Seq(Nat) /\ Len(s) \in Nat /\ Len(Append(s, n)) = Len(s) + 1
         /\ ToSet(Append(s, n)) = ToSet(s) \cup {n}
<1>1. /\ Append(s, n) \in Seq(Nat) /\ Len(Append(s, n)) = Len(s) + 1
      /\ \A k \in 1 .. Len(s) : Append(s, n)[k] = s[k]
      /\ Append(s, n)[Len(s) + 1] = n
  BY AppendProperties
<1>2. /\ Len(s) \in Nat /\ DOMAIN s = 1 .. Len(s)
      /\ DOMAIN Append(s, n) = 1 .. (Len(s) + 1)
  BY <1>1, LenProperties
<1>3. /\ ToSet(Append(s, n)) \subseteq ToSet(s) \cup {n}
      /\ ToSet(s) \subseteq ToSet(Append(s, n)) /\ n \in ToSet(Append(s, n))
  BY <1>1, <1>2 DEF ToSet
<1> QED
  BY <1>1, <1>2, <1>3

(* A step that makes no state and loses none.                              *)
LEMMA Quiet ==
  ASSUME Typed, StatesKept, UNCHANGED <<device, states>>,
         pc' \in Places \ {"destroyed"}, i' \in Nat \ {0}, fds' \subseteq Files,
         heap' \subseteq heap \cup {Block("dev"), Block("resources"), Block("planeRes")},
         faults \subseteq faults', props' = props
  PROVE  Typed' /\ StatesKept'
<1>1. Blocks' = Blocks /\ Referred' = Referred
  BY DEF Blocks, Referred
<1>2. heap' \subseteq Blocks
  BY DEF Typed, Blocks
<1>3. Typed'
  BY <1>1, <1>2, TabledKept DEF Typed
<1>4. \A block \in heap' : IsState(block) => block \in heap
  BY DEF Block, IsState, StateKinds
<1>5. StatesKept'
  BY <1>1, <1>4 DEF StatesKept
<1> QED
  BY <1>3, <1>5

(* A round of a loop that fills an entry.                                  *)
LEMMA Fills ==
  ASSUME Typed, Filled, InLoops, NEW a \in Arrays, pc = Loop[a], i \in Found[a],
         i <= Count[pc], pc' = pc, i' = i + 1, device' = device, faults \subseteq faults',
         states' = [states EXCEPT ![a] = Append(@, i)],
         \A b \in Arrays \ {a} : pc = Loop[b] => i \notin Found[b]
  PROVE  Filled' /\ InLoops'
<1>1. pc \in DOMAIN Count
  BY Tables, DeviceTables
<1>2. states \in [Arrays -> Seq(Nat)] /\ i \in Nat
  BY DEF Typed
<1>3. ASSUME NEW b \in Arrays
      PROVE  /\ Cardinality(Past(b)) \in Nat /\ Len(states[b]) \in Nat
             /\ Cardinality(Past(b)') = Cardinality(Past(b)) + (IF b = a THEN 1 ELSE 0)
             /\ Len(states'[b]) = Len(states[b]) + (IF b = a THEN 1 ELSE 0)
  <2>1. Cardinality(Past(b)) \in Nat /\ Len(states[b]) \in Nat
    BY <1>2, FoundBounds, LenProperties
  <2>2. CASE b = a
    <3>1. states'[b] = Append(states[b], i)
      BY <1>2, <2>2
    <3>2. Len(Append(states[b], i)) = Len(states[b]) + 1
      BY <1>2, AppendRefers
    <3>3. Cardinality(Past(b)') = Cardinality(Past(b)) + (IF pc = Loop[b] /\ i \in Found[b] THEN 1 ELSE 0)
      BY <1>1, RoundPasses
    <3> QED
      BY <2>1, <2>2, <3>1, <3>2, <3>3
  <2>3. CASE b # a
    <3>1. states'[b] = states[b]
      BY <1>2, <2>3
    <3>2. Cardinality(Past(b)') = Cardinality(Past(b)) + (IF pc = Loop[b] /\ i \in Found[b] THEN 1 ELSE 0)
      BY <1>1, RoundPasses
    <3> QED
      BY <2>1, <2>3, <3>1, <3>2
  <2> QED
    BY <2>1, <2>2, <2>3
<1>4. Filled'
  <2> SUFFICES ASSUME NEW b \in Arrays
               PROVE  /\ Len(states'[b]) <= Cardinality(Past(b)')
                      /\ pc' \in Forward /\ faults' \cap Lacks[b] = {} =>
                           Len(states'[b]) = Cardinality(Past(b)')
    BY DEF Filled
  <2>1. /\ Len(states[b]) <= Cardinality(Past(b))
        /\ pc \in Forward /\ faults \cap Lacks[b] = {} =>
             Len(states[b]) = Cardinality(Past(b))
    BY DEF Filled
  <2>2. faults' \cap Lacks[b] = {} => faults \cap Lacks[b] = {}
    OBVIOUS
  <2>3. \E k \in {0, 1} : /\ Cardinality(Past(b)') = Cardinality(Past(b)) + k
                          /\ Len(states'[b]) = Len(states[b]) + k
    BY <1>3
  <2>4. Cardinality(Past(b)) \in Nat /\ Len(states[b]) \in Nat
    BY <1>3
  <2> QED
    BY <2>1, <2>2, <2>3, <2>4
<1>5. InLoops'
  <2>1. Count' = Count /\ Count[pc] \in Nat
    BY FoundBounds DEF Count
  <2> QED
    BY <1>2, <2>1 DEF InLoops
<1> QED
  BY <1>4, <1>5

(* A round of a loop that fills none: there was none to fill, or its       *)
(* object could not be read.                                               *)
LEMMA PassesOver ==
  ASSUME Typed, Filled, InLoops, pc \in DOMAIN Count, i <= Count[pc],
         pc' = pc, i' = i + 1, device' = device, faults \subseteq faults', states' = states,
         \A a \in Arrays : pc = Loop[a] /\ i \in Found[a] => faults' \cap Lacks[a] # {}
  PROVE  Filled' /\ InLoops'
<1>1. ASSUME NEW a \in Arrays
      PROVE  /\ Cardinality(Past(a)) \in Nat /\ Len(states[a]) \in Nat
             /\ Cardinality(Past(a)') =
                  Cardinality(Past(a)) + (IF pc = Loop[a] /\ i \in Found[a] THEN 1 ELSE 0)
  BY FoundBounds, LenProperties, RoundPasses DEF Typed
<1>2. Filled'
  <2> SUFFICES ASSUME NEW a \in Arrays
               PROVE  /\ Len(states'[a]) <= Cardinality(Past(a)')
                      /\ pc' \in Forward /\ faults' \cap Lacks[a] = {} =>
                           Len(states'[a]) = Cardinality(Past(a)')
    BY DEF Filled
  <2>1. /\ Len(states[a]) <= Cardinality(Past(a))
        /\ pc \in Forward /\ faults \cap Lacks[a] = {} =>
             Len(states[a]) = Cardinality(Past(a))
    BY DEF Filled
  <2>2. faults' \cap Lacks[a] = {} => faults \cap Lacks[a] = {} /\ ~(pc = Loop[a] /\ i \in Found[a])
    OBVIOUS
  <2>3. CASE pc = Loop[a] /\ i \in Found[a]
    BY <1>1, <2>1, <2>3
  <2>4. CASE ~(pc = Loop[a] /\ i \in Found[a])
    BY <1>1, <2>1, <2>2, <2>4
  <2> QED
    BY <2>3, <2>4
<1>3. InLoops'
  <2>1. Count' = Count /\ Count[pc] \in Nat /\ i \in Nat
    BY FoundBounds, Tables, DeviceTables DEF Count, Typed
  <2> QED
    BY <2>1 DEF InLoops
<1> QED
  BY <1>2, <1>3

(* A round that fills an entry, after which the call gives up.             *)
LEMMA FillsAndStops ==
  ASSUME Typed, Filled, NEW a \in Arrays, pc = Loop[a], i \in Found[a],
         pc' \in Places \ Forward, device' = device,
         states' = [states EXCEPT ![a] = Append(@, i)]
  PROVE  Filled' /\ InLoops'
<1>1. Found' = Found /\ Count' = Count
  BY DEF Found, Count
<1>2. states \in [Arrays -> Seq(Nat)] /\ i \in Nat /\ i > 0
  BY DEF Typed
<1>3. ASSUME NEW b \in Arrays PROVE Len(states'[b]) <= Cardinality(Found[b])
  <2>1. /\ Cardinality(Past(b)) \in Nat /\ Cardinality(Found[b]) \in Nat
        /\ IsFiniteSet(Past(b)) /\ IsFiniteSet(Found[b])
        /\ Past(b) \subseteq Found[b] /\ Cardinality(Past(b)) <= Cardinality(Found[b])
    BY FoundBounds
  <2>2. Len(states[b]) <= Cardinality(Past(b)) /\ Len(states[b]) \in Nat
    BY <1>2, LenProperties DEF Filled
  <2>3. CASE b = a
    <3>1. states'[b] = Append(states[b], i)
      BY <1>2, <2>3
    <3>2. Len(Append(states[b], i)) = Len(states[b]) + 1
      BY <1>2, AppendRefers
    <3>3. i \notin Past(b) /\ Past(b) \cup {i} \subseteq Found[b]
      BY <1>2, <2>1, <2>3 DEF Past
    <3>4. Cardinality(Past(b) \cup {i}) = Cardinality(Past(b)) + 1
      BY <2>1, <3>3, FS_AddElement
    <3>5. Cardinality(Past(b) \cup {i}) <= Cardinality(Found[b])
      BY <2>1, <3>3, FS_Subset
    <3> QED
      BY <2>1, <2>2, <3>1, <3>2, <3>4, <3>5
  <2>4. CASE b # a
    <3>1. states'[b] = states[b]
      BY <1>2, <2>4
    <3>2. Len(states[b]) <= Cardinality(Found[b])
      BY <2>1, <2>2
    <3> QED
      BY <3>1, <3>2
  <2> QED
    BY <2>3, <2>4
<1>4. \A b \in Arrays : Past(b)' = Found[b]
  BY <1>1, Tables DEF Past, Forward, Early
<1>5. Filled'
  BY <1>3, <1>4 DEF Filled
<1>6. InLoops'
  BY <1>1, DeviceTables DEF InLoops, Forward
<1> QED
  BY <1>5, <1>6

-----------------------------------------------------------------------------
LEMMA InitIInv == Init => IInv
<1> SUFFICES ASSUME Init PROVE IInv
  OBVIOUS
<1> USE DEF Init
<1>1. \A a \in Arrays : states[a] = <<>> /\ Len(states[a]) = 0
  OBVIOUS
<1>2. Typed
  <2>1. states \in [Arrays -> Seq(Nat)]
    BY EmptySeq
  <2>2. heap \subseteq Blocks /\ pc \in Places
    BY DEF Blocks, Places, Forward, Early
  <2>3. Tabled
    <3>1. Size \in [Arrays -> Nat]
      BY DeviceAssumption DEF Size, Arrays
    <3>2. \A a \in Arrays : ToSet(states[a]) = {} /\ Len(states[a]) <= Size[a]
      BY <1>1, <3>1 DEF ToSet
    <3> QED
      BY <3>2 DEF Tabled
  <2> QED
    BY <2>1, <2>2, <2>3 DEF Typed
<1>3. InLoops
  BY DeviceTables DEF InLoops
<1>4. \A a \in Arrays : Past(a) = {}
  BY Tables DEF Past, Early
<1>5. Filled
  <2>1. Cardinality({}) = 0
    BY FS_EmptySet
  <2>2. \A a \in Arrays : Len(states[a]) = 0 /\ Cardinality(Past(a)) = 0
    BY <1>1, <1>4, <2>1
  <2> HIDE DEF Init
  <2> QED
    BY <2>2 DEF Filled
<1>6. Held
  BY DEF Held, Block
<1>7. StatesKept
  BY DEF StatesKept, IsState, Block, StateKinds
<1> QED
  BY <1>2, <1>3, <1>5, <1>6, <1>7 DEF IInv, CrashNeedsFault, NullNeedsFault, OverrunNeedsMore

-----------------------------------------------------------------------------
(* The steps, in the order of the call.                                    *)
LEMMA AcquireStep ==
  ASSUME IInv, NEW here, NEW there, NEW newFds, NEW newBlocks,
         Acquire(here, there, newFds, newBlocks),
         \/ <<here, there, newFds, newBlocks>> = <<"card", "render", {"card0"}, {}>>
         \/ <<here, there, newFds, newBlocks>> = <<"render", "dev", {"renderD128"}, {}>>
         \/ <<here, there, newFds, newBlocks>> = <<"dev", "caps", {}, {Block("dev")}>>
         \/ <<here, there, newFds, newBlocks>> = <<"caps", "resources", {}, {}>>
         \/ <<here, there, newFds, newBlocks>> =
              <<"resources", "connectors", {}, {Block("resources")}>>
         \/ <<here, there, newFds, newBlocks>> =
              <<"planeRes", "planes", {}, {Block("planeRes")}>>
  PROVE  IInv'
<1>1. Typed' /\ StatesKept'
  <2>1. pc' \in Places \ {"destroyed"}
    BY DEF Acquire, Goto, Places, Forward, Early
  <2>2. fds' \subseteq Files
    BY DEF Acquire, IInv, Typed, Files
  <2> QED
    BY <2>1, <2>2, Quiet DEF Acquire, Goto, IInv
<1>2. Filled' /\ InLoops'
  BY GoesOn DEF Acquire, Goto, IInv, Early
<1>3. Held'
  BY DEF Acquire, Goto, IInv, Held, Block
<1>4. CrashNeedsFault'
  BY DEF Acquire, Goto, CrashNeedsFault, NullNeedsFault, OverrunNeedsMore
<1> QED
  BY <1>1, <1>2, <1>3, <1>4 DEF IInv

LEMMA GiveUpStep ==
  ASSUME IInv, NEW here, NEW label, GiveUp(here, label),
         \/ <<here, label>> = <<"card", "fail">>
         \/ here \in {"render", "dev"} /\ label = "error3"
         \/ here \in {"caps", "resources"} /\ label = "error2"
         \/ here \in {"crtcs", "planeRes"} /\ label = "error1"
  PROVE  IInv'
<1>1. pc' \in Places \ Forward /\ pc' \notin {"destroyed", "crashed", "overrun"}
  BY DEF GiveUp, Goto, Places, Forward, Early
<1>2. Typed' /\ StatesKept'
  BY <1>1, Quiet DEF GiveUp, Goto, Fault, IInv, Typed
<1>3. Filled' /\ InLoops'
  BY <1>1, Stops DEF GiveUp, IInv
<1>4. Held'
  BY DEF GiveUp, Goto, IInv, Held, Block
<1>5. CrashNeedsFault'
  BY <1>1 DEF CrashNeedsFault, NullNeedsFault, OverrunNeedsMore
<1> QED
  BY <1>2, <1>3, <1>4, <1>5 DEF IInv

LEMMA CrashStep == ASSUME IInv, NEW call \in Unchecked, Crash(call) PROVE IInv'
<1>1. pc' = "crashed" /\ pc' \in Places \ Forward
  BY DEF Crash, Places, Forward, Early
<1>2. Typed' /\ StatesKept'
  BY <1>1, Quiet DEF Crash, Fault, IInv, Typed
<1>3. Filled' /\ InLoops'
  BY <1>1, Stops DEF Crash, IInv
<1>4. Held'
  BY <1>1 DEF Crash, IInv, Held, Block
<1>5. CrashNeedsFault'
  BY DEF Crash, Fault, CrashNeedsFault, NullNeedsFault, OverrunNeedsMore
<1> QED
  BY <1>2, <1>3, <1>4, <1>5 DEF IInv

LEMMA UnwindStep ==
  ASSUME IInv, NEW here, NEW there, NEW oldFds, NEW oldBlocks,
         Unwind(here, there, oldFds, oldBlocks),
         \/ <<here, there, oldFds, oldBlocks>> = <<"error1", "error2", {}, {Block("resources")}>>
         \/ <<here, there, oldFds, oldBlocks>> = <<"error2", "error3", {}, {Block("dev")}>>
         \/ <<here, there, oldFds, oldBlocks>> = <<"error3", "fail", Files, {}>>
         \/ <<here, there, oldFds, oldBlocks>> = <<"fail", "failed", {}, {Block("display")}>>
  PROVE  IInv'
<1>1. pc' \in Places \ Forward /\ pc' \notin {"destroyed", "crashed", "overrun"}
  BY DEF Unwind, Goto, Places, Forward, Early
<1>2. Typed' /\ StatesKept'
  BY <1>1, Quiet DEF Unwind, Goto, IInv, Typed
<1>3. Filled' /\ InLoops'
  BY <1>1, Stops DEF Unwind, IInv
<1>4. Held'
  BY DEF Unwind, Goto, IInv, Typed, Held, Block
<1>5. CrashNeedsFault'
  BY <1>1 DEF CrashNeedsFault, NullNeedsFault, OverrunNeedsMore
<1> QED
  BY <1>2, <1>3, <1>4, <1>5 DEF IInv

LEMMA LoopEndStep ==
  ASSUME IInv, PopulateConnectorsEnd \/ PopulateCrtcsEnd \/ PopulatePlanesEnd
  PROVE  IInv'
<1> USE DEF PopulateConnectorsEnd, PopulateCrtcsEnd, PopulatePlanesEnd, Goto
<1>1. pc' \in {"crtcs", "planeRes", "ready"}
  OBVIOUS
<1>2. Typed' /\ StatesKept'
  BY <1>1, Quiet DEF IInv, Typed, Places, Forward, Early
<1>3. Filled' /\ InLoops'
  BY GoesOn DEF IInv
<1>4. Held'
  BY DEF IInv, Held, Block
<1>5. CrashNeedsFault'
  BY <1>1 DEF CrashNeedsFault, NullNeedsFault, OverrunNeedsMore
<1> QED
  BY <1>2, <1>3, <1>4, <1>5 DEF IInv

(* A round that makes a state and puts it into an array.                   *)
LEMMA StateMade ==
  ASSUME Typed, StatesKept, device' = device, fds' = fds, faults \subseteq faults',
         pc' \in Places \ {"destroyed"}, i' \in Nat \ {0}, props' \in {"unset", "null", "freed"},
         NEW a \in Arrays, NEW kind,
         <<a, kind>> \in {<<"conn", "connState">>, <<"crtc", "crtcState">>,
                          <<"osd", "planeState">>, <<"vid", "planeState">>},
         i \in Found[a], Room(a), heap' = heap \cup {<<kind, i>>},
         states' = [states EXCEPT ![a] = Append(@, i)]
  PROVE  Typed' /\ StatesKept'
<1>1. states \in [Arrays -> Seq(Nat)] /\ i \in Nat
  BY DEF Typed
<1>2. /\ ToSet(states'[a]) = ToSet(states[a]) \cup {i} /\ states'[a] \in Seq(Nat)
      /\ \A b \in Arrays \ {a} : states'[b] = states[b]
  BY <1>1, AppendRefers
<1>3. states' \in [Arrays -> Seq(Nat)]
  BY <1>1, <1>2
<1>4. Blocks' = Blocks /\ <<kind, i>> \in Blocks
  BY DeviceTables DEF Blocks
<1>5. Typed'
  <2>1. Found' = Found /\ Size \in [Arrays -> Nat]
    BY DeviceAssumption DEF Found, Size, Arrays
  <2>2. Len(states'[a]) = Len(states[a]) + 1 /\ Len(states[a]) \in Nat
    BY <1>1, AppendRefers
  <2>3. Len(states'[a]) <= Size[a]
    BY <2>1, <2>2 DEF Room
  <2>4. Tabled'
    BY <1>2, <2>1, <2>3 DEF Typed, Tabled, Size
  <2> QED
    BY <1>3, <1>4, <2>4 DEF Typed
<1>6. \A b \in Arrays : ToSet(states[b]) \subseteq ToSet(states'[b])
  BY <1>2
<1>7. Referred \subseteq Referred'
  BY <1>6, Tables DEF Referred
<1>8. <<kind, i>> \in Referred'
  BY <1>2 DEF Referred
<1>9. StatesKept'
  BY <1>7, <1>8 DEF StatesKept
<1> QED
  BY <1>5, <1>9

LEMMA PopulateConnectorStep == ASSUME IInv, PopulateConnector PROVE IInv'
<1> USE DEF PopulateConnector, IInv
<1>1. /\ pc = "connectors" /\ i <= Len(device.conns) /\ Room("conn")
      /\ i \in Found["conn"] /\ i \in Nat
  BY LenProperties, DeviceAssumption, DeviceTables
     DEF Typed, Writes, Skipped, ArrayFor
<1>2. Typed' /\ StatesKept'
  BY <1>1, StateMade, Tables, SMTT(30) DEF Typed
<1>3. Filled' /\ InLoops'
  BY <1>1, Fills, Tables, DeviceTables
<1>4. Held'
  BY <1>1 DEF Held, Block
<1> QED
  BY <1>1, <1>2, <1>3, <1>4 DEF CrashNeedsFault, NullNeedsFault, OverrunNeedsMore

LEMMA PassConnectorStep == ASSUME IInv, PassConnector PROVE IInv'
<1> USE DEF PassConnector, IInv, Fault
<1>1. Typed' /\ StatesKept'
  BY Quiet DEF Typed
<1>2. "connector" \in faults' \/ i \notin Found["conn"]
  BY DeviceTables DEF Skipped
<1>3. Filled' /\ InLoops'
  BY <1>2, PassesOver, Tables, DeviceTables
<1>4. Held'
  BY DEF Held, Block
<1> QED
  BY <1>1, <1>3, <1>4 DEF CrashNeedsFault, NullNeedsFault, OverrunNeedsMore

LEMMA PopulateCrtcStep == ASSUME IInv, PopulateCrtc PROVE IInv'
<1> USE DEF PopulateCrtc, IInv, Fault, Goto
<1>1. /\ pc = "crtcs" /\ i <= device.crtcs /\ Room("crtc")
      /\ i \in Found["crtc"] /\ i \in Nat
  BY DeviceAssumption, DeviceTables DEF Typed, Writes, ArrayFor
<1>2. Typed' /\ StatesKept'
  <2>1. pc' \in Places \ {"destroyed"} /\ i' \in Nat \ {0}
    BY <1>1 DEF Typed, Places, Forward, Early
  <2> QED
    BY <1>1, <2>1, StateMade, Tables DEF Typed
<1>3. Filled' /\ InLoops'
  <2>1. CASE pc' = pc /\ i' = i + 1 /\ UNCHANGED faults
    BY <1>1, <2>1, Fills, Tables, DeviceTables
  <2>2. CASE pc' = "error1"
    <3>1. pc' \in Places \ Forward
      BY <2>2 DEF Places, Forward, Early
    <3> QED
      BY <1>1, <3>1, FillsAndStops, Tables
  <2> QED
    BY <2>1, <2>2
<1>4. Held'
  BY <1>1 DEF Held, Block
<1> QED
  BY <1>1, <1>2, <1>3, <1>4 DEF CrashNeedsFault, NullNeedsFault, OverrunNeedsMore

LEMMA PopulatePlaneStep == ASSUME IInv, PopulatePlane PROVE IInv'
<1> USE DEF PopulatePlane, IInv, Fault
<1> DEFINE a == ArrayFor(device.planes[i])
<1>1. /\ i \in DOMAIN device.planes /\ i \in Nat
      /\ a \in {"osd", "vid"} /\ (a = "vid" <=> device.planes[i] = "nv12")
  BY LenProperties, DeviceAssumption DEF Typed, ArrayFor
<1>2. /\ states' = [states EXCEPT ![a] = Append(@, i)] /\ Room(a)
      /\ a \in Arrays /\ i \in Found[a] /\ \A b \in {"osd", "vid"} \ {a} : i \notin Found[b]
  BY <1>1, Tables, DeviceTables
<1> HIDE DEF a
<1>3. Typed' /\ StatesKept'
  <2>1. a = "osd" \/ a = "vid"
    BY <1>1
  <2>3. /\ pc' \in Places \ {"destroyed"} /\ i' \in Nat \ {0}
        /\ props' \in {"unset", "null", "freed"} /\ faults \subseteq faults'
    BY <1>1 DEF Typed
  <2>4. /\ Typed /\ StatesKept /\ device' = device /\ fds' = fds
        /\ heap' = heap \cup {<<"planeState", i>>}
    OBVIOUS
  <2> HIDE DEF PopulatePlane, IInv
  <2>5. /\ i \in Found[a] /\ states' = [states EXCEPT ![a] = Append(@, i)] /\ a \in Arrays
        /\ Room(a)
    BY <1>2
  <2>6. CASE a = "osd"
    <3>1. /\ i \in Found["osd"] /\ states' = [states EXCEPT !["osd"] = Append(@, i)]
          /\ Room("osd")
      BY <2>5, <2>6
    <3> QED
      BY <2>3, <2>4, <3>1, StateMade, Tables
  <2>7. CASE a = "vid"
    <3>1. /\ i \in Found["vid"] /\ states' = [states EXCEPT !["vid"] = Append(@, i)]
          /\ Room("vid")
      BY <2>5, <2>7
    <3> QED
      BY <2>3, <2>4, <3>1, StateMade, Tables
  <2> QED
    BY <2>1, <2>6, <2>7
<1>4. Filled' /\ InLoops'
  <2>1. \A b \in Arrays \ {a} : pc = Loop[b] => i \notin Found[b]
    BY <1>1, <1>2, Tables
  <2>2. pc = Loop[a] /\ i <= Count[pc]
    BY <1>1, Tables, DeviceTables
  <2> QED
    BY <1>2, <2>1, <2>2, Fills
<1>5. Held'
  BY DEF Held, Block
<1> QED
  BY <1>3, <1>4, <1>5 DEF CrashNeedsFault, NullNeedsFault, OverrunNeedsMore

LEMMA PopulatePlaneUnreadStep == ASSUME IInv, PopulatePlaneUnread PROVE IInv'
<1> USE DEF PopulatePlaneUnread, IInv, Fault
<1>1. Blocks' = Blocks /\ Referred' = Referred /\ i \in Nat
  BY DEF Blocks, Referred, Typed
<1>2. Typed'
  <2>1. i \in DOMAIN device.planes
    BY <1>1, LenProperties, DeviceAssumption DEF Typed
  <2>2. heap' \subseteq Blocks'
    BY <1>1, <2>1 DEF Typed, Blocks
  <2>3. i' \in Nat \ {0}
    BY <1>1
  <2> QED
    BY <2>2, <2>3, TabledKept DEF Typed
<1>3. StatesKept'
  BY <1>1 DEF StatesKept
<1>4. Filled' /\ InLoops'
  BY PassesOver, Tables, DeviceTables
<1>5. Held'
  BY DEF Held, Block
<1> QED
  BY <1>2, <1>3, <1>4, <1>5 DEF CrashNeedsFault, NullNeedsFault, OverrunNeedsMore

LEMMA PopulatePlaneFailsStep == ASSUME IInv, PopulatePlaneFails PROVE IInv'
<1> USE DEF PopulatePlaneFails, IInv, Fault, Goto
<1>1. pc' \in Places \ Forward
  BY DEF Places, Forward, Early
<1>2. Typed' /\ StatesKept'
  BY <1>1, Quiet DEF Typed
<1>3. Filled' /\ InLoops'
  BY <1>1, Stops
<1>4. Held'
  BY DEF Held, Block
<1> QED
  BY <1>2, <1>3, <1>4 DEF CrashNeedsFault, NullNeedsFault, OverrunNeedsMore

LEMMA PostStep == ASSUME IInv, NEW p \in PlaneFor, Post(p) PROVE IInv'
<1> USE DEF Post, IInv
<1>1. CASE Usable(p)
  <2>1. UNCHANGED vars
    BY <1>1 DEF vars
  <2>2. Typed' /\ InLoops' /\ Filled' /\ Held' /\ StatesKept' /\ CrashNeedsFault'
    BY <2>1, TabledKept DEF vars, Typed, Blocks, InLoops, Count, Filled, Past, Found, Held, StatesKept,
                Referred, CrashNeedsFault, NullNeedsFault, OverrunNeedsMore
  <2> QED
    BY <2>2
<1>2. CASE ~Usable(p)
  <2>1. pc' = "crashed" /\ pc' \in Places \ Forward
    BY <1>2 DEF Places, Forward, Early
  <2>2. Typed' /\ StatesKept'
    BY <2>1, Quiet DEF Typed
  <2>3. Filled' /\ InLoops'
    BY <2>1, Stops
  <2>4. Held'
    BY <2>1 DEF Held, Block
  <2>5. CrashNeedsFault'
    <3>1. SUFFICES ASSUME faults \cap Unchecked = {}, Found["conn"] # {},
                          Found["crtc"] # {}, Found["osd"] # {},
                          ~(Cardinality(Found["vid"]) < 2)
                   PROVE  FALSE
      <4>1. Found' = Found
        BY DEF Found
      <4> QED
        BY <2>1, <4>1 DEF CrashNeedsFault, NullNeedsFault, OverrunNeedsMore
    <3>2. \A a \in Arrays : /\ Len(states[a]) = Cardinality(Found[a])
                            /\ Cardinality(Found[a]) \in Nat /\ IsFiniteSet(Found[a])
      <4>1. \A a \in Arrays : faults \cap Lacks[a] = {} /\ Past(a) = Found[a]
        BY <3>1, Tables DEF Unchecked, Past, Early
      <4>2. \A a \in Arrays : Len(states[a]) = Cardinality(Past(a))
        BY <4>1 DEF Filled, Forward
      <4> QED
        BY <4>1, <4>2, FoundBounds
    <3>3. \A a \in Arrays : Found[a] # {} => Len(states[a]) > 0
      BY <3>2, FS_EmptySet
    <3>5. /\ Len(states["conn"]) > 0 /\ Len(states["crtc"]) > 0
          /\ Len(states["osd"]) >= 1 /\ Len(states["vid"]) >= 2
      BY <3>1, <3>2, <3>3, Tables
    <3>4. Usable(p)
      <4>1. states["conn"] # <<>> /\ states["crtc"] # <<>>
        BY <3>5
      <4>2. Len(states[p[1]]) >= p[2]
        BY <3>5 DEF PlaneFor
      <4> QED
        BY <4>1, <4>2 DEF Usable
    <3> QED
      BY <1>2, <3>4
  <2> QED
    BY <2>2, <2>3, <2>4, <2>5
<1> QED
  BY <1>1, <1>2

(* A round that finds no entry left has come past as many objects of the   *)
(* array as it has entries, and there is one more.                         *)
LEMMA OverrunStep == ASSUME IInv, Overrun PROVE IInv'
<1> USE DEF IInv
<1>1. pc' = "overrun" /\ pc' \in Places \ Forward
      /\ UNCHANGED <<device, i, fds, heap, states, props, faults>>
  BY DEF Overrun, Places, Forward, Early
<1>2. Typed' /\ StatesKept'
  BY <1>1, Quiet DEF Typed
<1>3. Filled' /\ InLoops'
  BY <1>1, Stops
<1>4. PICK a \in Arrays : Writes(a) /\ ~Room(a)
  BY DEF Overrun
<1>5. pc = Loop[a] /\ i \in Found[a] /\ i \in Nat \ {0}
  <2>1. /\ device.conns \in Seq({"tv", "hdmi", "panel"}) /\ device.crtcs \in Nat
        /\ device.planes \in Seq({"rgb", "nv12"}) /\ i \in Nat \ {0}
    BY DeviceAssumption DEF Typed
  <2>2. CASE a = "conn"
    BY <1>4, <2>1, <2>2, LenProperties, Tables, DeviceTables DEF Writes, Skipped, ArrayFor
  <2>3. CASE a = "crtc"
    BY <1>4, <2>1, <2>3, Tables, DeviceTables DEF Writes, ArrayFor
  <2>4. CASE a \in {"osd", "vid"}
    BY <1>4, <2>1, <2>4, LenProperties, Tables, DeviceTables DEF Writes, ArrayFor
  <2> QED
    BY <2>2, <2>3, <2>4 DEF Arrays
<1>6. Held'
  BY <1>1, <1>5, Tables DEF Held, Block, Arrays
<1>7. i \notin Past(a) /\ Past(a) \cup {i} \subseteq Found[a]
  BY <1>5 DEF Past
<1>8. Cardinality(Past(a)) + 1 <= Cardinality(Found[a])
  <2>1. Cardinality(Past(a) \cup {i}) = Cardinality(Past(a)) + 1
    BY <1>7, FoundBounds, FS_AddElement
  <2>2. Cardinality(Past(a) \cup {i}) <= Cardinality(Found[a])
    BY <1>7, FoundBounds, FS_Subset
  <2> QED
    BY <2>1, <2>2
<1>9. /\ Size[a] <= Len(states[a]) /\ Len(states[a]) <= Cardinality(Past(a))
      /\ Size[a] \in Nat /\ Len(states[a]) \in Nat
  <2>1. Size[a] \in Nat
    BY DeviceAssumption DEF Size, Arrays
  <2>2. Len(states[a]) \in Nat
    BY LenProperties DEF Typed
  <2> QED
    BY <1>4, <2>1, <2>2 DEF Room, Filled
<1>10. Cardinality(Found[a]) > Size[a]
  BY <1>8, <1>9, FoundBounds
<1>11. CrashNeedsFault'
  <2>1. Found' = Found /\ Size' = Size
    BY <1>1 DEF Found, Size
  <2> QED
    BY <1>1, <1>10, <2>1 DEF CrashNeedsFault, NullNeedsFault, OverrunNeedsMore
<1> QED
  BY <1>2, <1>3, <1>6, <1>11

LEMMA DestroyStep == ASSUME IInv, Destroy PROVE IInv'
<1> USE DEF Destroy, IInv, Goto
<1>1. pc' \in Places \ Forward
  BY DEF Places, Forward, Early
<1>2. Blocks' = Blocks /\ Referred' = Referred
  BY DEF Blocks, Referred
<1>3. Typed'
  BY <1>1, <1>2, TabledKept DEF Typed
<1>4. StatesKept'
  BY <1>2 DEF StatesKept
<1>5. Filled' /\ InLoops'
  BY <1>1, Stops
<1>6. Held'
  BY DEF Held, Block
<1> QED
  BY <1>3, <1>4, <1>5, <1>6 DEF CrashNeedsFault, NullNeedsFault, OverrunNeedsMore

LEMMA NextIInv == IInv /\ [Next]_vars => IInv'
<1> SUFFICES ASSUME IInv, [Next]_vars PROVE IInv'
  OBVIOUS
<1>1. CASE OpenCard \/ OpenRender \/ CreateDev \/ SetCaps \/ ModeGetResources
  BY <1>1, AcquireStep, GiveUpStep
     DEF OpenCard, OpenRender, CreateDev, SetCaps, ModeGetResources
<1>2. CASE PopulateConnector \/ PassConnector
  BY <1>2, PopulateConnectorStep, PassConnectorStep
<1>3. CASE PopulateConnectorCrashes
  BY <1>3, CrashStep DEF PopulateConnectorCrashes, Unchecked
<1>4. CASE PopulateConnectorsEnd \/ PopulateCrtcsEnd \/ PopulatePlanesEnd
  BY <1>4, LoopEndStep
<1>5. CASE PopulateCrtc
  BY <1>5, PopulateCrtcStep
<1>6. CASE PopulateCrtcFails
  BY <1>6, GiveUpStep DEF PopulateCrtcFails
<1>7. CASE GetPlaneResources
  BY <1>7, AcquireStep, GiveUpStep DEF GetPlaneResources
<1>8. CASE PopulatePlane
  BY <1>8, PopulatePlaneStep
<1>9. CASE PopulatePlaneUnread
  BY <1>9, PopulatePlaneUnreadStep
<1>10. CASE PopulatePlaneCrashes
  BY <1>10, CrashStep DEF PopulatePlaneCrashes, Unchecked
<1>11. CASE PopulatePlaneFails
  BY <1>11, PopulatePlaneFailsStep
<1>11a. CASE Overrun
  BY <1>11a, OverrunStep
<1>12. CASE FreeResources \/ DestroyDev \/ CloseFiles \/ FreeDisplay
  BY <1>12, UnwindStep DEF FreeResources, DestroyDev, CloseFiles, FreeDisplay
<1>13. CASE Destroy
  BY <1>13, DestroyStep
<1>14. CASE \E p \in PlaneFor : Post(p)
  BY <1>14, PostStep
<1>15. CASE UNCHANGED vars
  BY <1>15, TabledKept, ZenonT(60) DEF vars, IInv, Typed, Blocks, InLoops, Count, Filled, Past, Found, Held,
               StatesKept, Referred, CrashNeedsFault, NullNeedsFault, OverrunNeedsMore
<1> QED
  BY <1>1, <1>2, <1>3, <1>4, <1>5, <1>6, <1>7, <1>8, <1>9, <1>10, <1>11, <1>11a, <1>12,
     <1>13, <1>14, <1>15 DEF Next, Step

(* Every reachable state of an initialisation satisfies the invariant,     *)
(* whichever calls fail.                                                   *)
THEOREM Invariance == Spec => []IInv
BY InitIInv, NextIInv, PTL DEF Spec

-----------------------------------------------------------------------------
(* The types: among them that each array holds states of objects that      *)
(* belong into it, on every device, however many objects it has.           *)
THEOREM TypeCorrect == Spec => []TypeOK
<1>1. IInv => TypeOK
  BY DEF IInv, Typed, TypeOK, Places, Forward, Early
<1> QED
  BY <1>1, Invariance, PTL

(* A display that fails to come up, at whichever call, and one that is     *)
(* destroyed give back all files and all memory, but for the states that a *)
(* failed drm_kms_init leaves and those of planes that were not read.      *)
THEOREM EndsReleased == Spec => []AllReleased
<1>1. ASSUME IInv PROVE AllReleased
  <2>1. \A block \in heap : \/ IsState(block)
                            \/ block \in {Block(k) : k \in {"display", "dev", "resources", "planeRes"}}
    BY <1>1 DEF IInv, Typed, Blocks, IsState, StateKinds
  <2>2. pc \in {"failed", "destroyed"} => fds = {} /\ \A block \in heap : IsState(block)
    BY <1>1, <2>1 DEF IInv, Held
  <2>3. DestroyReleases
    BY <1>1, <2>2 DEF IInv, StatesKept, DestroyReleases
  <2> QED
    BY <2>2, <2>3 DEF AllReleased, FailedInitReleases
<1> QED
  BY <1>1, Invariance, PTL

(* Initialising, and posting to the first connector, the first CRTC and    *)
(* the planes of an initialised display, follow a null pointer only after  *)
(* a call failed that the code does not check, or on a device that lacks   *)
(* one of them; and an array is written past its end on no device that has *)
(* as many entries as objects.                                             *)
THEOREM CrashesHaveFaults == Spec => []CrashNeedsFault
BY Invariance, PTL DEF IInv

-----------------------------------------------------------------------------
(* The program drm_setcrtc (module SetCrtc) also reads the kernel's        *)
(* objects, round after round, and is to give them back.  Its states and   *)
(* steps have names of their own: place, failures, MainInit, MainNext.     *)

(* A mode of the kernel's lists.                                           *)
ModeRecs == [name : STRING, rate : Nat, preferred : BOOLEAN]

(* The types that the argument needs.                                      *)
Options ==
  opt \in [conn : ConnArgs \cup ConnSet \cup {Default},
           crtc : CrtcArgs \cup CrtcIds \cup {Default}, want : Asked, service : BOOLEAN]

ReadTyped ==
  /\ modes \in [ConnSet -> Seq(ModeRecs)]
  /\ read \in [ConnSet -> Seq(ModeRecs)]

(* What is live is what was read and is all that the next cleanup meets.   *)
AllOf(k) == got[k] = 1 .. Objects[k] /\ live[k] = Objects[k]
LiveIsGot ==
  /\ res \in {"none", "full", "noPlanes"}
  /\ res = "none" =>
       \A w \in {"crtc", "connector", "plane", "crtcProps", "planeProps"} : live[w] = 0
  /\ res # "none" =>
       /\ AllOf("crtc") /\ AllOf("connector")
       /\ AllOf("plane") \/ (got["plane"] = {} /\ live["plane"] = 0)

(* Where the mode that was found comes from, and when one is set.          *)
FitsAsked(m) ==
  /\ \E n \in DOMAIN read[opt.conn] : read[opt.conn][n] = m
  /\ Fits(m, opt.want)

ModeFound ==
  /\ place \in {"found", "set", "commit"} => mode # NoMode /\ FitsAsked(mode)
  /\ set # NoMode => place \in {"out", "exited"} /\ FitsAsked(set)

(* Before the commit only a signal stops the program.                      *)
Stopped == place \notin {"out", "exited"} /\ stop => told

(* A request whose properties were all added is whole, or is refused.      *)
Requested ==
  place = "commit" =>
    \/ req \subseteq Whole /\ (~short => req = Whole)
    \/ "noMode" \in req \/ "noRequest" \in req

(* What the result 0 says once the commit is over.                         *)
Zero ==
  place \in {"out", "exited"} /\ ret = 0 /\ ~told /\ ~short =>
    IF opt.crtc = 0 THEN set = NoMode ELSE set = mode /\ set # NoMode

(* The inductive invariant of the program.                                 *)
SInv ==
  /\ Options /\ ReadTyped /\ LiveIsGot
  /\ ModeFound /\ Stopped /\ Requested /\ Zero

(* A set of positions that is not empty has a first one.                   *)
LEMMA FirstOf ==
  ASSUME NEW n \in Nat, NEW P \in SUBSET (1 .. n), P # {}
  PROVE  \E k \in P : \A m \in P : k <= m
<1>. DEFINE Upto(k) == {m \in P : m <= k}
            T == {Upto(k) : k \in P}
<1>0. IsFiniteSet(1 .. n)
  BY FS_Interval
<1>1. FiniteSubsetsOf(1 .. n) = SUBSET (1 .. n)
  BY <1>0, FS_FiniteSubsetsOfFinite
<1>2. T \subseteq SUBSET (1 .. n) /\ T # {}
  OBVIOUS
<1>3. IsWellFoundedOn(StrictSubsetOrdering(1 .. n), SUBSET (1 .. n))
  BY <1>1, FS_StrictSubsetOrderingWellFounded
<1>4. PICK x \in T : \A y \in T : ~(<<y, x>> \in StrictSubsetOrdering(1 .. n))
  <2>. HIDE DEF T
  <2>. QED
    BY <1>2, <1>3, WFMin
<1>5. PICK k \in P : x = Upto(k)
  OBVIOUS
<1>6. ASSUME NEW m \in P, ~(k <= m) PROVE FALSE
  <2>1. P \subseteq Int
    OBVIOUS
  <2>2. k \in Int /\ m \in Int /\ m <= k /\ k <= k
    BY <1>6, <2>1
  <2>3. \A j \in P : j <= m => j <= k
    BY <2>1, <2>2
  <2>4. Upto(m) \subseteq Upto(k) /\ k \in Upto(k) /\ k \notin Upto(m)
    BY <1>6, <2>2, <2>3
  <2>5. <<Upto(m), Upto(k)>> \in StrictSubsetOrdering(1 .. n)
    BY <1>2, <2>4 DEF StrictSubsetOrdering
  <2>. QED
    BY <1>4, <1>5, <2>5
<1>. QED
  BY <1>6

(* The first mode of a list that fits is one of its modes, and fits.       *)
LEMMA FirstFits ==
  ASSUME NEW list \in Seq(ModeRecs), NEW want, FirstFit(list, want) # NoMode
  PROVE  /\ \E n \in DOMAIN list : list[n] = FirstFit(list, want)
         /\ Fits(FirstFit(list, want), want)
<1>. DEFINE all == {n \in DOMAIN list : Fits(list[n], want)}
<1>1. all # {} /\ all \subseteq 1 .. Len(list) /\ Len(list) \in Nat
  BY DEF FirstFit
<1>2. \E n \in all : \A k \in all : n <= k
  <2>. HIDE DEF all
  <2>. QED
    BY <1>1, FirstOf
<1>3. FirstFit(list, want) = list[CHOOSE n \in all : \A k \in all : n <= k]
  BY <1>1 DEF FirstFit
<1>4. PICK m \in all : m = CHOOSE n \in all : \A k \in all : n <= k
  <2>. HIDE DEF all
  <2>. QED
    BY <1>2
<1>5. m \in DOMAIN list /\ Fits(list[m], want) /\ list[m] = FirstFit(list, want)
  BY <1>3, <1>4
<1>. QED
  BY <1>5

(* The cleanup meets all of what was read as a whole.                      *)
LEMMA FreedWhole ==
  ASSUME NEW k, NEW n \in Nat, got[k] = 1 .. n
  PROVE  Cardinality(Freed(k)) = n
<1>1. \A m \in 1 .. n : 1 .. m \subseteq 1 .. n
  OBVIOUS
<1>2. Freed(k) = 1 .. n
  BY <1>1 DEF Freed
<1>3. Cardinality(1 .. n) = n
  BY FS_Interval
<1>. QED
  BY <1>2, <1>3

(* It meets nothing of what was not read at all.                           *)
LEMMA FreedNothing ==
  ASSUME NEW k, got[k] = {}
  PROVE  Cardinality(Freed(k)) = 0
<1>1. Freed(k) = {}
  BY DEF Freed
<1>. QED
  BY <1>1, FS_EmptySet

(* A cleanup leaves nothing of these.                                      *)
LEMMA CleanupFrees ==
  ASSUME KernelLists, LiveIsGot,
         NEW w \in {"crtc", "connector", "plane", "crtcProps", "planeProps"}
  PROVE  AfterFree[w] = 0
<1>0. w \in Whats /\ MaxLeak \in Nat /\ Objects \in [Kinds -> Nat]
  BY DEF Whats, Kinds, KernelLists
<1>1. CASE res = "none"
  BY <1>0, <1>1 DEF AfterFree, LiveIsGot
<1>2. CASE res # "none"
  <2>. DEFINE left == IF w \in Kinds THEN live[w] - Cardinality(Freed(w))
                      ELSE IF w \in FreedProps THEN 0 ELSE live[w]
  <2>1. left = 0
    <3>1. CASE w \in {"crtcProps", "planeProps"}
      BY <3>1 DEF Kinds, FreedProps
    <3>2. CASE w \in Kinds /\ AllOf(w)
      <4>1. PICK n \in Nat : n = Objects[w]
        BY <1>0, <3>2
      <4>2. got[w] = 1 .. n /\ live[w] = n
        BY <3>2, <4>1 DEF AllOf
      <4>3. Cardinality(Freed(w)) = n
        BY <4>2, FreedWhole
      <4>4. n - n = 0
        OBVIOUS
      <4>. QED
        BY <3>2, <4>2, <4>3, <4>4
    <3>3. CASE w \in Kinds /\ got[w] = {} /\ live[w] = 0
      <4>1. Cardinality(Freed(w)) = 0
        BY <3>3, FreedNothing
      <4>2. 0 - 0 = 0
        OBVIOUS
      <4>. QED
        BY <3>3, <4>1, <4>2
    <3>. QED
      BY <1>2, <3>1, <3>2, <3>3 DEF LiveIsGot, Kinds
  <2>2. AfterFree[w] = IF left > MaxLeak THEN MaxLeak ELSE left
    BY <1>0, <1>2 DEF AfterFree
  <2>. HIDE DEF left
  <2>3. ~(0 > MaxLeak)
    BY <1>0
  <2>. QED
    BY <2>1, <2>2, <2>3
<1>. QED
  BY <1>1, <1>2 DEF LiveIsGot

(* The kernel has that many objects.                                       *)
LEMMA AllRead ==
  ASSUME KernelLists, NEW k \in {"crtc", "connector", "plane"}
  PROVE  Cardinality(1 .. Objects[k]) = Objects[k] /\ Objects[k] \in Nat
<1>1. Objects[k] \in Nat
  BY DEF KernelLists, Kinds
<1>. QED
  BY <1>1, FS_Interval

(* A round that reads everything, or all but the planes, or all but an     *)
(* encoder or a framebuffer.                                               *)
LEMMA HoldsWhole ==
  ASSUME KernelLists, LiveIsGot, NEW all, NEW planes \in BOOLEAN,
         NEW k \in {"crtc", "connector"}, all[k] = 1 .. Objects[k]
  PROVE  AfterFree[k] + Holds(all, planes)[k] = Objects[k]
<1>1. Holds(all, planes)[k] = Cardinality(all[k])
  BY DEF Holds, Whats, Kinds
<1>2. Cardinality(all[k]) = Objects[k] /\ Objects[k] \in Nat
  BY AllRead
<1>3. AfterFree[k] = 0
  BY CleanupFrees
<1>. QED
  BY <1>1, <1>2, <1>3

(* The same for the planes.                                                *)
LEMMA HoldsPlanes ==
  ASSUME KernelLists, LiveIsGot, NEW all, NEW planes \in BOOLEAN,
         all["plane"] = 1 .. Objects["plane"]
  PROVE  AfterFree["plane"] + Holds(all, planes)["plane"]
           = IF planes THEN Objects["plane"] ELSE 0
<1>1. Holds(all, planes)["plane"] = IF planes THEN Cardinality(all["plane"]) ELSE 0
  BY DEF Holds, Whats, Kinds
<1>2. Cardinality(all["plane"]) = Objects["plane"] /\ Objects["plane"] \in Nat
  BY AllRead
<1>3. AfterFree["plane"] = 0
  BY CleanupFrees
<1>. QED
  BY <1>1, <1>2, <1>3

(* A round leaves live what it has read.                                   *)
LEMMA GetResourcesLive ==
  ASSUME KernelLists, LiveIsGot, GetResources
  PROVE  LiveIsGot'
<1>. DEFINE all == [k \in Kinds |-> 1 .. Objects[k]]
<1>0. /\ \A k \in {"crtc", "connector", "plane"} : all[k] = 1 .. Objects[k]
      /\ all["plane"] = 1 .. Objects["plane"]
      /\ all["crtc"] = 1 .. Objects["crtc"] /\ all["connector"] = 1 .. Objects["connector"]
  BY DEF Kinds
<1>a. "crtc" \in Whats /\ "connector" \in Whats /\ "plane" \in Whats
  BY DEF Whats, Kinds
<1>1. CASE /\ got' = all /\ res' = "full"
           /\ live' = [w \in Whats |-> AfterFree[w] + Holds(all, TRUE)[w]]
  <2>. HIDE DEF all
  <2>1. \A k \in {"crtc", "connector"} : live'[k] = Objects[k]
    BY <1>0, <1>1, <1>a, HoldsWhole
  <2>2. live'["plane"] = Objects["plane"]
    BY <1>0, <1>1, <1>a, HoldsPlanes
  <2>. QED
    BY <1>0, <1>1, <2>1, <2>2 DEF LiveIsGot, AllOf
<1>2. ASSUME NEW kind \in {"encoder", "fb"}, NEW n \in all[kind],
             got' = [all EXCEPT ![kind] = @ \ {n}], res' = "full",
             live' = [w \in Whats |->
                      AfterFree[w]
                        + Holds([all EXCEPT ![kind] = @ \ {n}], TRUE)[w]]
      PROVE  LiveIsGot'
  <2>. DEFINE part == [all EXCEPT ![kind] = @ \ {n}]
  <2>0. /\ part["plane"] = 1 .. Objects["plane"]
        /\ \A k \in {"crtc", "connector"} : part[k] = 1 .. Objects[k]
    BY DEF Kinds
  <2>. HIDE DEF part
  <2>1. \A k \in {"crtc", "connector"} : live'[k] = Objects[k]
    BY <2>0, <1>2, <1>a, HoldsWhole DEF part
  <2>2. live'["plane"] = Objects["plane"]
    BY <2>0, <1>2, <1>a, HoldsPlanes DEF part
  <2>3. got' = part
    BY <1>2 DEF part
  <2>. QED
    BY <1>2, <2>0, <2>1, <2>2, <2>3 DEF LiveIsGot, AllOf
<1>3. CASE /\ got' = [all EXCEPT !["plane"] = {}] /\ res' = "noPlanes"
           /\ live' = [w \in Whats |-> AfterFree[w] + Holds(all, FALSE)[w]]
  <2>0. /\ got'["plane"] = {}
        /\ \A k \in {"crtc", "connector"} : got'[k] = 1 .. Objects[k]
    BY <1>3 DEF Kinds
  <2>. HIDE DEF all
  <2>1. \A k \in {"crtc", "connector"} : live'[k] = Objects[k]
    BY <1>0, <1>3, <1>a, HoldsWhole
  <2>2. live'["plane"] = 0
    BY <1>0, <1>3, <1>a, HoldsPlanes
  <2>. QED
    BY <1>3, <2>0, <2>1, <2>2 DEF LiveIsGot, AllOf
<1>4. CASE res' = "none" /\ live' = AfterFree
  BY <1>4, CleanupFrees DEF LiveIsGot
<1>5. CASE UNCHANGED <<got, res, live>>
  BY <1>5 DEF LiveIsGot, AllOf
<1>. QED
  BY <1>1, <1>2, <1>3, <1>4, <1>5 DEF GetResources

(* The invariant holds at first, and each action keeps it.                 *)
LEMMA InitSInv == ASSUME KernelLists, MainInit PROVE SInv
<1>1. Options
  BY DEF MainInit, Options
<1>2. ReadTyped
  <2>1. \A list \in Lists : list \in Seq(ModeRecs)
    BY DEF KernelLists, ModeRecs
  <2>2. <<>> \in Seq(ModeRecs)
    OBVIOUS
  <2>. QED
    BY <2>1, <2>2 DEF MainInit, ReadTyped
<1>3. LiveIsGot
  BY DEF MainInit, LiveIsGot, Whats, Kinds
<1>4. ModeFound /\ Stopped /\ Requested /\ Zero
  BY DEF MainInit, ModeFound, Stopped, Requested, Zero
<1>. QED
  BY <1>1, <1>2, <1>3, <1>4 DEF SInv

(* What an action leaves alone.                                            *)
LEMMA OptionsKept == Options /\ UNCHANGED opt => Options'
  BY DEF Options

LEMMA ReadKept == ReadTyped /\ UNCHANGED <<modes, read>> => ReadTyped'
  BY DEF ReadTyped

LEMMA LiveKept == LiveIsGot /\ UNCHANGED <<res, live, got>> => LiveIsGot'
  BY DEF LiveIsGot, AllOf

(* The connector that is chosen is one of those that were read.            *)
LEMMA ChosenConn ==
  ASSUME KernelLists, Conns # <<>>
  PROVE  Conns[1] \in ConnSet
<1>1. 1 \in DOMAIN Conns
  BY DEF KernelLists
<1>. QED
  BY <1>1 DEF ConnSet

(* The same for the CRTC.                                                  *)
LEMMA ChosenCrtc ==
  ASSUME KernelLists, CrtcSeq # <<>>
  PROVE  CrtcSeq[1] \in CrtcIds
<1>1. 1 \in DOMAIN CrtcSeq
  BY DEF KernelLists
<1>. QED
  BY <1>1 DEF CrtcIds

(* No CRTC has the number 0.                                               *)
LEMMA NoCrtcIsZero == ASSUME KernelLists PROVE 0 \notin CrtcIds
<1>1. \A n \in DOMAIN CrtcSeq : CrtcSeq[n] \in Nat \ {0}
  BY DEF KernelLists
<1>. QED
  BY <1>1 DEF CrtcIds

(* The choice is made once.                                                *)
LEMMA ChoiceStays ==
  ASSUME Options, Choose
  PROVE  /\ opt'.conn = Chosen /\ Chosen' = Chosen /\ opt'.want = opt.want
         /\ mode' = FirstFit(ListOf(read, Chosen), opt.want)
<1>1. /\ opt' = [opt EXCEPT !.conn = IF @ = Default THEN Conns[1] ELSE @,
                            !.crtc = IF @ = Default THEN CrtcSeq[1] ELSE @]
      /\ mode' = FirstFit(ListOf(read, opt'.conn), opt.want)
  BY DEF Choose
<1>2. opt'.conn = IF opt.conn = Default THEN Conns[1] ELSE opt.conn
  BY <1>1 DEF Options
<1>3. opt'.want = opt.want
  BY <1>1 DEF Options
<1>. QED
  BY <1>1, <1>2, <1>3 DEF Chosen

LEMMA OpenStep == ASSUME KernelLists, SInv, Open PROVE SInv'
<1>1. place = "open" /\ place' \in {"round", "exited"} /\ (place' = "exited" => ret' = -1)
      /\ UNCHANGED <<opt, modes, read, res, live, got, mode, req, set, stop, told, short>>
  BY DEF Open, At, GoOn
<1>2. Options' /\ ReadTyped' /\ LiveIsGot'
  BY <1>1, OptionsKept, ReadKept, LiveKept DEF SInv
<1>3. set = NoMode
  BY <1>1 DEF SInv, ModeFound
<1>4. ModeFound'
  BY <1>1, <1>3 DEF ModeFound
<1>5. Stopped' /\ Requested'
  BY <1>1 DEF SInv, Stopped, Requested
<1>6. -1 # 0
  OBVIOUS
<1>7. Zero'
  BY <1>1, <1>6 DEF Zero
<1>. QED
  BY <1>2, <1>4, <1>5, <1>7 DEF SInv

LEMMA GetResourcesStep == ASSUME KernelLists, SInv, GetResources PROVE SInv'
<1>1. place = "round" /\ place' \in {"check", "crashed"}
      /\ UNCHANGED <<opt, modes, mode, req, set, ret, stop, told, short>>
  BY DEF GetResources, At, GoOn
<1>2. Options'
  BY <1>1, OptionsKept DEF SInv
<1>3. read' \in {read, modes}
  BY DEF GetResources
<1>4. ReadTyped'
  BY <1>1, <1>3 DEF SInv, ReadTyped
<1>5. LiveIsGot'
  BY GetResourcesLive DEF SInv
<1>6. set = NoMode
  BY <1>1 DEF SInv, ModeFound
<1>7. ModeFound' /\ Stopped' /\ Requested' /\ Zero'
  BY <1>1, <1>6 DEF SInv, ModeFound, Stopped, Requested, Zero
<1>. QED
  BY <1>2, <1>4, <1>5, <1>7 DEF SInv

LEMMA NoResourcesStep == ASSUME KernelLists, SInv, NoResources PROVE SInv'
<1>1. place = "check" /\ place' = "wait"
      /\ UNCHANGED <<opt, modes, read, res, live, got, mode, req, set, stop, told, short>>
  BY DEF NoResources, At, GoOn
<1>2. Options' /\ ReadTyped' /\ LiveIsGot'
  BY <1>1, OptionsKept, ReadKept, LiveKept DEF SInv
<1>3. ModeFound' /\ Stopped' /\ Requested' /\ Zero'
  BY <1>1 DEF SInv, ModeFound, Stopped, Requested, Zero
<1>. QED
  BY <1>2, <1>3 DEF SInv

LEMMA ChooseStep == ASSUME KernelLists, SInv, Choose PROVE SInv'
<1>1. /\ place = "check" /\ Conns # <<>> /\ CrtcSeq # <<>>
      /\ opt' = [opt EXCEPT !.conn = IF @ = Default THEN Conns[1] ELSE @,
                            !.crtc = IF @ = Default THEN CrtcSeq[1] ELSE @]
      /\ place' = IF mode' = NoMode THEN "wait" ELSE "found"
      /\ UNCHANGED <<modes, read, res, live, got, req, set, ret, stop, told, short>>
  BY DEF Choose, At, GoOn
<1>2. Options
  BY DEF SInv
<1>3. /\ opt'.conn = Chosen /\ opt'.want = opt.want
      /\ mode' = FirstFit(ListOf(read, Chosen), opt.want)
  BY <1>2, ChoiceStays
<1>4. Options'
  BY <1>1, <1>2, ChosenConn, ChosenCrtc DEF Options
<1>5. ReadTyped' /\ LiveIsGot'
  BY <1>1, ReadKept, LiveKept DEF SInv
<1>6. mode' # NoMode => FitsAsked(mode)'
  <2>. SUFFICES ASSUME mode' # NoMode PROVE FitsAsked(mode)'
    OBVIOUS
  <2>1. Chosen \in ConnSet
    <3>1. CASE Chosen \notin ConnSet
      <4>1. ListOf(read, Chosen) = <<>>
        BY <3>1 DEF ListOf
      <4>2. mode' = NoMode
        BY <1>3, <4>1 DEF FirstFit
      <4>. QED
        BY <4>2
    <3>. QED
      BY <3>1
  <2>2. ListOf(read, Chosen) = read[Chosen] /\ read[Chosen] \in Seq(ModeRecs)
    BY <2>1 DEF ListOf, SInv, ReadTyped
  <2>3. /\ \E n \in DOMAIN read[Chosen] : read[Chosen][n] = mode'
        /\ Fits(mode', opt.want)
    BY <1>3, <2>2, FirstFits
  <2>. QED
    BY <1>1, <1>3, <2>3 DEF FitsAsked
<1>7. set = NoMode
  BY <1>1 DEF SInv, ModeFound
<1>8. ModeFound'
  BY <1>1, <1>6, <1>7 DEF ModeFound
<1>9. Stopped' /\ Requested' /\ Zero'
  BY <1>1 DEF SInv, Stopped, Requested, Zero
<1>. QED
  BY <1>4, <1>5, <1>8, <1>9 DEF SInv

LEMMA WaitStep == ASSUME KernelLists, SInv, Wait PROVE SInv'
<1>1. place \in {"wait", "found"} /\ place' = Again
      /\ UNCHANGED <<opt, modes, read, res, live, got, mode, req, set, ret, stop, told,
                     short>>
  BY DEF Wait, GoOn
<1>2. Options' /\ ReadTyped' /\ LiveIsGot'
  BY <1>1, OptionsKept, ReadKept, LiveKept DEF SInv
<1>3. /\ place' \in {"out", "set", "round"}
      /\ place' = "out" => stop
      /\ place' = "set" => place = "found"
  BY <1>1 DEF Again, At
<1>4. set = NoMode /\ (stop => told)
  BY <1>1 DEF SInv, ModeFound, Stopped
<1>5. ModeFound'
  BY <1>1, <1>3, <1>4 DEF SInv, ModeFound, FitsAsked
<1>6. Stopped' /\ Requested' /\ Zero'
  BY <1>1, <1>3, <1>4 DEF SInv, Stopped, Requested, Zero
<1>. QED
  BY <1>2, <1>5, <1>6 DEF SInv

LEMMA AddPropertiesStep == ASSUME KernelLists, SInv, AddProperties PROVE SInv'
<1>1. place = "set" /\ place' \in {"commit", "crashed"}
      /\ UNCHANGED <<opt, modes, read, res, live, got, mode, set, ret, stop, told>>
  BY DEF AddProperties, At, GoOn
<1>2. Options' /\ ReadTyped' /\ LiveIsGot'
  BY <1>1, OptionsKept, ReadKept, LiveKept DEF SInv
<1>3. ModeFound'
  BY <1>1 DEF SInv, ModeFound, FitsAsked
<1>4. Stopped' /\ Zero'
  BY <1>1 DEF SInv, Stopped, Zero
<1>5. Requested'
  <2>1. \/ req' = Whole
        \/ short' = TRUE /\ req' \subseteq Whole
        \/ "noMode" \in req' \/ "noRequest" \in req'
        \/ place' = "crashed"
    BY DEF AddProperties, GoOn
  <2>2. Whole' = Whole
    BY <1>1 DEF Whole
  <2>. QED
    BY <2>1, <2>2 DEF Requested
<1>. QED
  BY <1>2, <1>3, <1>4, <1>5 DEF SInv

LEMMA CommitStep == ASSUME KernelLists, SInv, Commit PROVE SInv'
<1>1. PICK taken \in BOOLEAN :
        /\ taken => ~Refused
        /\ ret' = ResultOf(taken)
        /\ set' = IF taken /\ req = {"CRTC_ID", "MODE_ID", "ACTIVE"} THEN mode ELSE set
  BY DEF Commit
<1>2. place = "commit" /\ place' = "out"
      /\ UNCHANGED <<opt, modes, read, res, live, got, mode, req, told, short>>
  BY DEF Commit, At, GoOn, AfterCommit
<1>3. Options' /\ ReadTyped' /\ LiveIsGot'
  BY <1>2, OptionsKept, ReadKept, LiveKept DEF SInv
<1>4. mode # NoMode /\ FitsAsked(mode) /\ set = NoMode
  BY <1>2 DEF SInv, ModeFound
<1>5. set' # NoMode => set' = mode
  BY <1>1, <1>4
<1>6. ModeFound'
  BY <1>2, <1>4, <1>5 DEF ModeFound, FitsAsked
<1>7. Stopped' /\ Requested'
  BY <1>2 DEF Stopped, Requested
<1>8. ret' = 0 => taken
  BY <1>1 DEF ResultOf
<1>9. ASSUME taken, ~short
      PROVE  IF opt.crtc = 0 THEN set' = NoMode ELSE set' = mode
  <2>1. "noMode" \notin req /\ "noRequest" \notin req
    BY <1>1, <1>9 DEF Refused
  <2>2. req = Whole
    BY <1>2, <1>9, <2>1 DEF SInv, Requested
  <2>3. CASE opt.crtc = 0
    <3>1. "MODE_ID" \notin Whole
      BY <2>3, NoCrtcIsZero DEF Whole
    <3>. QED
      BY <1>1, <1>4, <2>2, <2>3, <3>1
  <2>4. CASE opt.crtc # 0
    <3>1. "CRTC_ID" \in req
      BY <2>2 DEF Whole
    <3>2. opt.crtc \in CrtcIds
      BY <1>1, <1>9, <2>4, <3>1 DEF Refused
    <3>3. req = {"CRTC_ID", "MODE_ID", "ACTIVE"}
      BY <2>2, <3>2 DEF Whole
    <3>. QED
      BY <1>1, <1>9, <2>4, <3>3
  <2>. QED
    BY <2>3, <2>4
<1>10. Zero'
  BY <1>2, <1>4, <1>8, <1>9 DEF Zero
<1>. QED
  BY <1>3, <1>6, <1>7, <1>10 DEF SInv

LEMMA OutStep == ASSUME KernelLists, SInv, Out PROVE SInv'
<1>1. place = "out" /\ place' = "exited" /\ live' = AfterFree /\ res' = "none"
      /\ UNCHANGED <<opt, modes, read, got, mode, req, set, ret, stop, told, short>>
  BY DEF Out, At, GoOn
<1>2. Options' /\ ReadTyped'
  BY <1>1, OptionsKept, ReadKept DEF SInv
<1>3. LiveIsGot'
  BY <1>1, CleanupFrees DEF SInv, LiveIsGot
<1>4. ModeFound'
  BY <1>1 DEF SInv, ModeFound, FitsAsked
<1>5. Stopped' /\ Requested' /\ Zero'
  BY <1>1 DEF SInv, Stopped, Requested, Zero
<1>. QED
  BY <1>2, <1>3, <1>4, <1>5 DEF SInv

LEMMA SignalStep == ASSUME KernelLists, SInv, SignalHandle PROVE SInv'
<1>1. told' = TRUE
      /\ UNCHANGED <<place, opt, modes, read, res, live, got, mode, req, set, ret, short>>
  BY DEF SignalHandle
<1>2. Options' /\ ReadTyped' /\ LiveIsGot'
  BY <1>1, OptionsKept, ReadKept, LiveKept DEF SInv
<1>3. ModeFound'
  BY <1>1 DEF SInv, ModeFound, FitsAsked
<1>4. Stopped' /\ Requested' /\ Zero'
  BY <1>1 DEF SInv, Stopped, Requested, Whole, Zero
<1>. QED
  BY <1>2, <1>3, <1>4 DEF SInv

LEMMA ReplugStep == ASSUME KernelLists, SInv, Replug PROVE SInv'
<1>1. UNCHANGED <<place, opt, read, res, live, got, mode, req, set, ret, stop, told, short>>
  BY DEF Replug
<1>2. PICK c \in ConnSet, list \in Lists : modes' = [modes EXCEPT ![c] = list]
  BY DEF Replug
<1>3. Options' /\ LiveIsGot'
  BY <1>1, OptionsKept, LiveKept DEF SInv
<1>4. list \in Seq(ModeRecs)
  BY DEF KernelLists, ModeRecs
<1>5. ReadTyped'
  BY <1>1, <1>2, <1>4 DEF SInv, ReadTyped
<1>6. ModeFound' /\ Stopped' /\ Requested' /\ Zero'
  BY <1>1 DEF SInv, ModeFound, FitsAsked, Stopped, Requested, Whole, Zero
<1>. QED
  BY <1>3, <1>5, <1>6 DEF SInv

LEMMA SetCrtcStep == ASSUME KernelLists PROVE SInv /\ [MainNext]_mainVars => SInv'
<1>. SUFFICES ASSUME SInv, [MainNext]_mainVars PROVE SInv'
  OBVIOUS
<1>1. CASE UNCHANGED mainVars
  <2>1. UNCHANGED <<place, opt, modes, read, res, live, got, mode, req, set, ret, stop, told,
                    short>>
    BY <1>1 DEF mainVars
  <2>2. Options' /\ ReadTyped' /\ LiveIsGot'
    BY <2>1, OptionsKept, ReadKept, LiveKept DEF SInv
  <2>3. ModeFound' /\ Stopped' /\ Requested' /\ Zero'
    BY <2>1 DEF SInv, ModeFound, FitsAsked, Stopped, Requested, Whole, Zero
  <2>. QED
    BY <2>2, <2>3 DEF SInv
<1>2. CASE MainStep
  BY <1>2, OpenStep, GetResourcesStep, NoResourcesStep, ChooseStep, WaitStep,
     AddPropertiesStep, CommitStep, OutStep DEF MainStep
<1>. QED
  BY <1>1, <1>2, SignalStep, ReplugStep DEF MainNext

(* However many rounds there were and whatever could not be read in them,  *)
(* the CRTCs, connectors and planes and the properties of CRTCs and planes *)
(* are freed (free_resources).                                             *)
THEOREM RoundsAreFreed == MainSpec => []RoundsFreed
<1>1. MainInit => SInv
  BY InitSInv, SetCrtcAssumption
<1>2. SInv /\ [MainNext]_mainVars => SInv'
  BY SetCrtcStep, SetCrtcAssumption
<1>3. SInv => RoundsFreed
  BY DEF SInv, LiveIsGot, RoundsFreed
<1>. QED
  BY <1>1, <1>2, <1>3, PTL DEF MainSpec

(* Whatever is given by -c, -C, -m and -p: the exit status of 0 means that *)
(* the mode that was found is shown, but with -C 0, by which none is ever  *)
(* set, and if a signal or a property that could not be added came between;*)
(* and a mode that is set is one of the connector's and was asked for.     *)
THEOREM ZeroIsSet == MainSpec => []ZeroMeansSet
<1>1. MainInit => SInv
  BY InitSInv, SetCrtcAssumption
<1>2. SInv /\ [MainNext]_mainVars => SInv'
  BY SetCrtcStep, SetCrtcAssumption
<1>3. SInv => ZeroMeansSet
  <2>. SUFFICES ASSUME SInv PROVE ZeroMeansSet
    OBVIOUS
  <2>1. At("exited") /\ ret = 0 /\ ~told /\ ~short =>
          IF opt.crtc = 0 THEN set = NoMode ELSE set = mode /\ set # NoMode
    BY DEF At, SInv, Zero
  <2>2. set # NoMode =>
          /\ \E n \in DOMAIN read[opt.conn] : read[opt.conn][n] = set
          /\ IF opt.want.name = "" THEN set.preferred
             ELSE set.name = opt.want.name /\ opt.want.rate \in {0, set.rate}
    BY DEF SInv, ModeFound, FitsAsked, Fits
  <2>. QED
    BY <2>1, <2>2 DEF ZeroMeansSet
<1>. QED
  BY <1>1, <1>2, <1>3, PTL DEF MainSpec

-----------------------------------------------------------------------------
(* How far the program is from its end when the chosen connector has the   *)
(* mode: a round that reads the kernel's lists finds it, and only a call   *)
(* that fails costs another round.                                         *)
HasMode(list) == FirstFit(list, opt.want) # NoMode
Fresh     == res # "none" /\ HasMode(ListOf(read, Chosen))
CheckLeft == IF Fresh THEN 6 ELSE 9

Rank(p, check) ==
  CASE p = "check" -> check
    [] p \in {"open", "wait"} -> 8
    [] p = "round" -> 7
    [] p = "found" -> 5
    [] p = "set" -> 4
    [] p = "commit" -> 3
    [] p = "out" -> 2
    [] OTHER -> 0

Left == 10 * (MaxFaults - failures) + Rank(place, CheckLeft)

(* As long as the chosen connector has the mode that is asked for, every   *)
(* step of main brings it nearer to its end.                               *)
Progress ==
  Conns # <<>> /\ CrtcSeq # <<>> /\ HasMode(ListOf(modes, Chosen)) =>
    /\ MainStep => Left \in Nat /\ Left' < Left
    /\ Left' <= Left

Bounded == failures \in 0 .. MaxFaults

LEMMA Ranks ==
  ASSUME NEW n
  PROVE  /\ Rank("check", n) = n /\ Rank("open", n) = 8 /\ Rank("wait", n) = 8
         /\ Rank("round", n) = 7 /\ Rank("found", n) = 5 /\ Rank("set", n) = 4
         /\ Rank("commit", n) = 3 /\ Rank("out", n) = 2
         /\ Rank("exited", n) = 0 /\ Rank("crashed", n) = 0
BY DEF Rank

LEMMA RankIsNat == ASSUME NEW p, NEW n \in Nat PROVE Rank(p, n) \in Nat
BY DEF Rank

(* A step costs a fault or none.                                           *)
LEMMA FaultsStep ==
  ASSUME MainNext
  PROVE  failures' = failures \/ Failure
<1>1. CASE Open
  BY <1>1 DEF Open
<1>2. CASE GetResources
  BY <1>2, Zenon DEF GetResources
<1>3. CASE NoResources \/ Choose \/ Wait \/ Out
  BY <1>3 DEF NoResources, Choose, Wait, Out
<1>4. CASE AddProperties
  BY <1>4, Zenon DEF AddProperties
<1>5. CASE Commit
  BY <1>5, Zenon DEF Commit
<1>6. CASE SignalHandle \/ Replug
  BY <1>6 DEF SignalHandle, Replug
<1>. QED
  BY <1>1, <1>2, <1>3, <1>4, <1>5, <1>6 DEF MainNext, MainStep

LEMMA BoundedStep ==
  ASSUME MaxFaults \in Nat, Bounded, [MainNext]_mainVars
  PROVE  Bounded'
<1>1. CASE UNCHANGED mainVars
  BY <1>1 DEF mainVars, Bounded
<1>2. CASE MainNext
  BY <1>2, FaultsStep DEF Bounded, Failure
<1>. QED
  BY <1>1, <1>2

(* Where a step leads to, and what it costs.                               *)
LEMMA MainStepLeads ==
  ASSUME KernelLists, SInv, MainStep, Conns # <<>>, CrtcSeq # <<>>,
         HasMode(ListOf(modes, Chosen))
  PROVE  \/ Rank(place', CheckLeft') < Rank(place, CheckLeft)
         \/ Failure /\ Rank(place', CheckLeft') < Rank(place, CheckLeft) + 10
<1>0. PICK n \in {6, 9}, m \in {6, 9} : n = CheckLeft /\ m = CheckLeft'
  BY DEF CheckLeft
<1>1. CASE Open
  <2>1. place = "open" /\ place' \in {"round", "exited"}
    BY <1>1 DEF Open, At, GoOn
  <2>. QED
    BY <1>0, <2>1, Ranks
<1>2. CASE GetResources
  <2>1. place = "round"
    BY <1>2 DEF GetResources, At
  <2>2. \/ place' = "check" /\ res' # "none" /\ read' = modes
        \/ place' \in {"check", "crashed"} /\ Failure
    BY <1>2, Zenon DEF GetResources, GoOn
  <2>3. CASE place' = "check" /\ res' # "none" /\ read' = modes
    <3>1. opt' = opt
      BY <1>2 DEF GetResources
    <3>2. Chosen' = Chosen
      BY <3>1 DEF Chosen
    <3>3. Fresh'
      BY <2>3, <3>1, <3>2 DEF Fresh, HasMode, ListOf
    <3>4. m = 6
      BY <1>0, <3>3 DEF CheckLeft
    <3>. QED
      BY <1>0, <2>1, <2>3, <3>4, Ranks
  <2>4. CASE place' \in {"check", "crashed"} /\ Failure
    BY <1>0, <2>1, <2>4, Ranks
  <2>. QED
    BY <2>2, <2>3, <2>4
<1>3. CASE NoResources
  <2>1. place = "check" /\ place' = "wait" /\ res = "none"
    BY <1>3 DEF NoResources, At, GoOn
  <2>2. n = 9
    BY <1>0, <2>1 DEF CheckLeft, Fresh
  <2>. QED
    BY <1>0, <2>1, <2>2, Ranks
<1>4. CASE Choose
  <2>1. /\ place = "check" /\ res # "none"
        /\ place' = IF mode' = NoMode THEN "wait" ELSE "found"
    BY <1>4 DEF Choose, At, GoOn
  <2>2. mode' = FirstFit(ListOf(read, Chosen), opt.want)
    BY <1>4, ChoiceStays DEF SInv
  <2>3. place' \in {"wait", "found"}
    BY <2>1
  <2>4. CASE Fresh
    <3>1. mode' # NoMode
      BY <2>2, <2>4 DEF Fresh, HasMode
    <3>2. n = 6
      BY <1>0, <2>4 DEF CheckLeft
    <3>. QED
      BY <1>0, <2>1, <3>1, <3>2, Ranks
  <2>5. CASE ~Fresh
    <3>1. n = 9
      BY <1>0, <2>5 DEF CheckLeft
    <3>. QED
      BY <1>0, <2>1, <2>3, <3>1, Ranks
  <2>. QED
    BY <2>4, <2>5
<1>5. CASE Wait
  <2>1. \/ place = "wait" /\ place' \in {"out", "round"}
        \/ place = "found" /\ place' \in {"out", "set"}
    BY <1>5 DEF Wait, GoOn, Again, At
  <2>. QED
    BY <1>0, <2>1, Ranks
<1>6. CASE AddProperties
  <2>1. place = "set" /\ place' \in {"commit", "crashed"}
    BY <1>6 DEF AddProperties, At, GoOn
  <2>. QED
    BY <1>0, <2>1, Ranks
<1>7. CASE Commit
  <2>1. place = "commit" /\ place' = "out"
    BY <1>7 DEF Commit, At, GoOn, AfterCommit
  <2>. QED
    BY <1>0, <2>1, Ranks
<1>8. CASE Out
  <2>1. place = "out" /\ place' = "exited"
    BY <1>8 DEF Out, At, GoOn
  <2>. QED
    BY <1>0, <2>1, Ranks
<1>. QED
  BY <1>1, <1>2, <1>3, <1>4, <1>5, <1>6, <1>7, <1>8 DEF MainStep

LEMMA ProgressStep ==
  ASSUME KernelLists, SInv, Bounded, [MainNext]_mainVars
  PROVE  Progress
<1>. SUFFICES ASSUME Conns # <<>>, CrtcSeq # <<>>, HasMode(ListOf(modes, Chosen))
              PROVE  (MainStep => Left \in Nat /\ Left' < Left) /\ Left' <= Left
  BY DEF Progress
<1>0. PICK n \in Nat, m \in Nat :
        n = Rank(place, CheckLeft) /\ m = Rank(place', CheckLeft')
  <2>1. CheckLeft \in Nat /\ CheckLeft' \in Nat
    BY DEF CheckLeft
  <2>. QED
    BY <2>1, RankIsNat
<1>1. /\ Left = 10 * (MaxFaults - failures) + n
      /\ Left' = 10 * (MaxFaults - failures') + m
  BY <1>0 DEF Left
<1>2. MaxFaults \in Nat /\ failures \in 0 .. MaxFaults
  BY DEF KernelLists, Bounded
<1>3. CASE MainStep
  <2>1. m < n \/ (Failure /\ m < n + 10)
    BY <1>0, <1>3, MainStepLeads
  <2>2. failures' = failures \/ failures' = failures + 1
    BY <1>3, FaultsStep DEF MainNext, Failure
  <2>3. Failure => failures' = failures + 1
    BY DEF Failure
  <2>4. Left \in Nat /\ Left' < Left
    BY <1>1, <1>2, <2>1, <2>2, <2>3
  <2>5. Left' <= Left
    BY <1>1, <1>2, <2>1, <2>2, <2>3
  <2>. QED
    BY <2>4, <2>5
<1>4. CASE ~MainStep
  <2>1. UNCHANGED <<place, failures, res, read, opt>>
    BY <1>4 DEF MainNext, mainVars, SignalHandle, Replug
  <2>2. CheckLeft' = CheckLeft
    BY <2>1 DEF CheckLeft, Fresh, HasMode, Chosen, ListOf
  <2>3. m = n
    BY <1>0, <2>1, <2>2
  <2>. QED
    BY <1>1, <1>2, <1>4, <2>1, <2>3
<1>. QED
  BY <1>3, <1>4

(* The retries of drm_setcrtc lead somewhere: while the chosen connector   *)
(* has the mode, the next round that reads the lists finds it, every call  *)
(* that fails costs at most one round more, and neither signals nor        *)
(* changes of the displays take anything back.                             *)
THEOREM RetryProgresses == MainSpec => [][Progress]_mainVars
<1>1. MainInit => SInv /\ Bounded
  <2>1. MainInit => SInv
    BY InitSInv, SetCrtcAssumption
  <2>2. MainInit => Bounded
    BY SetCrtcAssumption DEF MainInit, Bounded, KernelLists
  <2>. QED
    BY <2>1, <2>2
<1>2. SInv /\ Bounded /\ [MainNext]_mainVars => SInv' /\ Bounded'
  BY SetCrtcStep, BoundedStep, SetCrtcAssumption DEF KernelLists
<1>3. SInv /\ Bounded /\ [MainNext]_mainVars => Progress
  BY ProgressStep, SetCrtcAssumption
<1>. QED
  BY <1>1, <1>2, <1>3, PTL DEF MainSpec
=============================================================================
